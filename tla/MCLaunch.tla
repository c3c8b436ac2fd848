------------------------------ MODULE MCLaunch ------------------------------
(* Instances of Launch for TLC. *)
EXTENDS Launch

Defaults == [path |-> FALSE, installDir |-> FALSE, allowStandardDirs |-> TRUE,
             allowDownload |-> TRUE, latest |-> FALSE, port |-> FALSE, ownProfile |-> FALSE]

(* The latest revision, in a directory of one's own or the standard one,   *)
(* with a port and a profile of one's own; or Chrome given, with a free    *)
(* port and a temporary profile.                                           *)
SomeOptions ==
  {[Defaults EXCEPT !.installDir = TRUE, !.latest = TRUE, !.port = TRUE, !.ownProfile = TRUE],
   [Defaults EXCEPT !.path = TRUE]}
=============================================================================
