--------------------------- MODULE MCBrowserTabs ---------------------------
(* Instances of BrowserTabs for TLC. *)
EXTENDS BrowserTabs, TLC

(* One page's change leads to a devtools:// url.                           *)
OneDevtools == {<<CHOOSE p \in Pages : TRUE, 1>>}

RegistrarSymmetry == Permutations(Registrars)
Symmetry == Permutations(Pages) \cup Permutations(Registrars)
=============================================================================
