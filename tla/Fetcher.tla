------------------------------ MODULE Fetcher ------------------------------
(***************************************************************************)
(* Installing Chrome: browser/fetcher.rs.  Launchers, which are threads or *)
(* programs of one user, look for the directory of a revision in their     *)
(* install_dir and then in the standard data directory; without one they   *)
(* download an archive into the first of the two and extract it there.     *)
(* Nothing but the file system coordinates them.                           *)
(*                                                                         *)
(* The archive is Entries, extracted in order, of which Chrome is the      *)
(* executable.  There is one revision.  One action is a change of the file *)
(* system with the code up to the next one.                                *)
(***************************************************************************)
EXTENDS Naturals, FiniteSets

CONSTANTS
  Launchers,
  Entries,    \* the entries of the archive, 1..n
  Chrome,     \* the one that is the executable
  None,
  OptionSet,  \* the options a launcher may have
  Garbled,    \* root directories with a file whose name is not UTF-8
  MaxCrashes  \* bound: launchers killed as they fetch

Dirs == {"install", "standard"}

(* FetcherOptions, and LaunchOptions as far as Launch reads them.          *)
Options == [path : BOOLEAN, installDir : BOOLEAN, allowStandardDirs : BOOLEAN,
            allowDownload : BOOLEAN, latest : BOOLEAN, port : BOOLEAN, ownProfile : BOOLEAN]

ASSUME EntriesAreNumbered == IsFiniteSet(Entries) /\ Entries = 1..Cardinality(Entries)
ASSUME ChromeIsAnEntry == Chrome \in Entries
ASSUME NoneIsNothing == None \notin Dirs /\ \A s \in SUBSET Entries : s # None
ASSUME GarbledAreDirs == Garbled \subseteq Dirs
ASSUME OptionsAreOptions == OptionSet \subseteq Options
ASSUME CrashesAreNat == MaxCrashes \in Nat

VARIABLES
  opt,       \* each launcher's options
  hasHome,   \* ProjectDirs finds a home directory
  fetch,     \* where each launcher is in fetch
  where,     \* the root directory it installs to, or has found Chrome in
  next,      \* the entry it extracts next
  installed, \* by root directory: the revision's entries; None: no directory
  zip,       \* by root directory: the archive "none", "partial" or "whole"
  writer,    \* by root directory: who last created or truncated the archive
  torn,      \* history: directories an extraction to which was cut short
  crashes    \* launchers killed so far

fsVars == <<installed, zip, writer, torn>>
fetchVars == <<opt, hasHome, fetch, where, next, fsVars, crashes>>

FetchSteps == {"idle", "download", "copy", "unzip", "extract", "write", "clean",
               "found", "failed"}
FetchTypeOK ==
  /\ opt \in [Launchers -> OptionSet] /\ hasHome \in BOOLEAN
  /\ fetch \in [Launchers -> FetchSteps]
  /\ where \in [Launchers -> Dirs \cup {None}]
  /\ next \in [Launchers -> 1..(Cardinality(Entries) + 1)]
  /\ installed \in [Dirs -> {None} \cup SUBSET Entries]
  /\ zip \in [Dirs -> {"none", "partial", "whole"}]
  /\ writer \in [Dirs -> Launchers \cup {None}]
  /\ torn \in SUBSET Dirs /\ crashes \in 0..MaxCrashes

FetchInit ==
  /\ opt \in [Launchers -> OptionSet] /\ hasHome \in BOOLEAN
  /\ fetch = [p \in Launchers |-> "idle"]
  /\ where = [p \in Launchers |-> None] /\ next = [p \in Launchers |-> 1]
  /\ installed = [d \in Dirs |-> None] /\ zip = [d \in Dirs |-> "none"]
  /\ writer = [d \in Dirs |-> None] /\ torn = {} /\ crashes = 0

-----------------------------------------------------------------------------
Goes(p, to) == fetch' = [fetch EXCEPT ![p] = to]
Fails(p) == Goes(p, "failed")

(* base_path: the first of the search directories that has the revision's  *)
(* directory or a name that is not UTF-8 decides; with both, it depends on *)
(* which is read first.  What the directory contains is not looked at.     *)
Searched(p) == (IF opt[p].installDir THEN {"install"} ELSE {})
                 \cup (IF opt[p].allowStandardDirs THEN {"standard"} ELSE {})
Decisive(p) == {d \in Searched(p) : installed[d] # None \/ d \in Garbled}
BasePath(p) ==
  IF ~hasHome \/ Decisive(p) = {} THEN {None}
  ELSE LET d == IF "install" \in Decisive(p) THEN "install" ELSE "standard" IN
       {x \in {d} : installed[x] # None} \cup {None : x \in {d} \cap Garbled}

(* fetch: the latest revision is asked for on the network; then the first  *)
(* look, and if it finds nothing a download, if that is allowed.           *)
Fetch(p) ==
  /\ fetch[p] = "idle" /\ ~opt[p].path
  /\ \/ opt[p].latest /\ Fails(p) /\ UNCHANGED where
     \/ \E d \in BasePath(p) :
          /\ where' = [where EXCEPT ![p] = d]
          /\ Goes(p, CASE d # None -> "found"
                       [] d = None /\ opt[p].allowDownload -> "download"
                       [] OTHER -> "failed")
  /\ UNCHANGED <<opt, hasHome, next, fsVars, crashes>>

(* download asks for the size of the archive, chooses the directory, and   *)
(* creates the archive, or truncates it under another launcher's hands.    *)
Target(p) == IF opt[p].installDir THEN "install" ELSE "standard"
MayInstall(p) == opt[p].installDir \/ (opt[p].allowStandardDirs /\ hasHome)

(* Mutant: and it makes the directory for the archive's entries.           *)
Mut_CreateZip(p, d) ==
  /\ zip' = [zip EXCEPT ![d] = "partial"] /\ writer' = [writer EXCEPT ![d] = p]
  /\ installed' = IF installed[d] = None THEN [installed EXCEPT ![d] = {}] ELSE installed
CreateZip(p, d) ==
  /\ zip' = [zip EXCEPT ![d] = "partial"] /\ writer' = [writer EXCEPT ![d] = p]
  /\ UNCHANGED installed

Download(p) ==
  /\ fetch[p] = "download"
  /\ \/ /\ MayInstall(p) /\ CreateZip(p, Target(p))
        /\ Goes(p, "copy") /\ where' = [where EXCEPT ![p] = Target(p)]
     \/ Fails(p) /\ UNCHANGED <<where, zip, writer, installed>>
  /\ UNCHANGED <<opt, hasHome, next, torn, crashes>>

(* io::copy: only the copy of whoever truncated last makes the file whole. *)
Copy(p) ==
  LET d == where[p] IN
  /\ fetch[p] = "copy"
  /\ \/ /\ Goes(p, "unzip")
        /\ zip' = IF writer[d] = p /\ zip[d] = "partial" THEN [zip EXCEPT ![d] = "whole"]
                  ELSE zip
     \/ Fails(p) /\ UNCHANGED zip
  /\ UNCHANGED <<opt, hasHome, where, next, installed, writer, torn, crashes>>

(* unzip makes the directory, which other launchers find from here on;     *)
(* then it opens the archive, which must be whole to be read ...           *)
Tears(p) == torn' = torn \cup {where[p]}
Unzip(p) ==
  LET d == where[p] IN
  /\ fetch[p] = "unzip"
  /\ \/ /\ installed' = IF installed[d] = None THEN [installed EXCEPT ![d] = {}]
                        ELSE installed
        /\ IF zip[d] = "whole"
           THEN Goes(p, "extract") /\ next' = [next EXCEPT ![p] = 1] /\ UNCHANGED torn
           ELSE Fails(p) /\ Tears(p) /\ UNCHANGED next
     \/ Fails(p) /\ UNCHANGED <<installed, next, torn>>
  /\ UNCHANGED <<opt, hasHome, where, zip, writer, crashes>>

(* ... and extracts entry by entry, each to a file that it creates or      *)
(* truncates, and then fills.                                              *)
ExtractionFails(p) == Fails(p) /\ Tears(p)

Extract(p) ==
  LET d == where[p] IN
  /\ fetch[p] = "extract"
  /\ \/ /\ next[p] \in Entries /\ Goes(p, "write")
        /\ installed' = [installed EXCEPT ![d] = @ \ {next[p]}] /\ UNCHANGED torn
     \/ next[p] \in Entries /\ ExtractionFails(p) /\ UNCHANGED installed
     \/ next[p] \notin Entries /\ Goes(p, "clean") /\ UNCHANGED <<installed, torn>>
  /\ UNCHANGED <<opt, hasHome, where, next, zip, writer, crashes>>

(* This fails also when another launcher has truncated the archive and not *)
(* come to the entry again.                                                *)
Write(p) ==
  LET d == where[p] IN
  /\ fetch[p] = "write"
  /\ \/ /\ Goes(p, "extract") /\ next' = [next EXCEPT ![p] = @ + 1]
        /\ installed' = [installed EXCEPT ![d] = @ \cup {next[p]}] /\ UNCHANGED torn
     \/ ExtractionFails(p) /\ UNCHANGED <<installed, next>>
  /\ UNCHANGED <<opt, hasHome, where, zip, writer, crashes>>

(* The archive is removed, not being able to is no error, and fetch looks  *)
(* again.                                                                  *)
CleanUp(p) ==
  /\ fetch[p] = "clean"
  /\ zip' \in {zip, [zip EXCEPT ![where[p]] = "none"]}
  /\ \E d \in BasePath(p) :
       where' = [where EXCEPT ![p] = d] /\ Goes(p, IF d # None THEN "found" ELSE "failed")
  /\ UNCHANGED <<opt, hasHome, next, installed, writer, torn, crashes>>

(* The launcher is killed, or its user loses patience; it may try again.   *)
FetchingSteps == FetchSteps \ {"idle", "found", "failed"}
Killed(p) ==
  /\ fetch[p] \in FetchingSteps /\ crashes < MaxCrashes
  /\ crashes' = crashes + 1 /\ Goes(p, "idle")
  /\ torn' = IF fetch[p] \in {"extract", "write"} THEN torn \cup {where[p]} ELSE torn
  /\ UNCHANGED <<opt, hasHome, where, next, installed, zip, writer>>

(* latest_revision, get_size, the request for the archive and its copy set *)
(* no timeout: a server that does not answer keeps the launcher for ever.  *)
AsksTheNetwork(p) ==
  \/ fetch[p] = "idle" /\ ~opt[p].path /\ opt[p].latest
  \/ fetch[p] \in {"download", "copy"}

FetchStep(p) ==
  \/ Fetch(p) \/ Download(p) \/ Copy(p) \/ Unzip(p) \/ Extract(p) \/ Write(p)
  \/ CleanUp(p)

-----------------------------------------------------------------------------
(* Properties.                                                             *)

Extracting(d) == \E p \in Launchers : fetch[p] \in {"extract", "write"} /\ where[p] = d

(* A directory lacks entries only while a launcher extracts them or after  *)
(* an extraction was cut short: whatever downloads fail, and wherever, on  *)
(* the way to the archive leaves nothing that a later fetch takes for an   *)
(* installation.                                                           *)
OnlyTornIsIncomplete ==
  \A d \in Dirs :
    installed[d] \notin {None, Entries} => d \in torn \/ Extracting(d)
=============================================================================
