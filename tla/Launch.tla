------------------------------- MODULE Launch -------------------------------
(***************************************************************************)
(* Launching Chrome: browser/process.rs, with Browser::new and its drop in *)
(* browser/mod.rs.  A launcher gets a path from the fetcher or is given    *)
(* one, starts Chrome on a port that was free a moment ago, and reads what *)
(* Chrome writes to find the address it listens on; if that fails and the  *)
(* port was not the user's choice, it starts another Chrome.               *)
(*                                                                         *)
(* A Chrome is its launcher, a number, its port, what it has said that is  *)
(* of interest, and whether it runs; the port is bound, or found taken, by *)
(* Chrome itself, and other launchers are all who use ports.  A launcher   *)
(* is killed only as it fetches (Fetcher): one that is killed later leaves *)
(* its Chrome behind.  What the operating system does not let a launcher   *)
(* remove belongs to nobody (None) from then on: a Chrome, while it runs,  *)
(* and a profile.                                                          *)
(***************************************************************************)
EXTENDS Fetcher

CONSTANTS
  Ports,       \* where free ports are looked for
  MaxAttempts, \* the code's 10
  MaxLeft      \* bound: with so many Chromes and profiles left, others go

ASSUME AttemptsAreNat == MaxAttempts \in Nat
ASSUME PortsExist == Ports # {}
ASSUME NobodyIsNoLauncher == None \notin Launchers
ASSUME LeftIsNat == MaxLeft \in Nat

VARIABLES
  launch,    \* where each launcher is in Process::new and Browser::new
  attempts,  \* Process::new's counter
  port,      \* the port chosen
  current,   \* the number of the Chrome that the launcher's `process` owns, or 0
  url,       \* the port of debug_ws_url
  chromes,   \* the Chromes that have been started and not waited for, or are left
  profiles   \* temporary user data directories, by launcher and number

launchVars == <<launch, attempts, port, current, url>>
worldVars  == <<chromes, profiles>>
vars == <<fetchVars, launchVars, worldVars>>

Given == CHOOSE x \in Ports : TRUE  \* the port of LaunchOptions.port

(* What there is to read: nothing yet; an address; an error, with the port *)
(* bound or not; that it will not run as root.                             *)
Sayings == {"nothing", "listening", "garbled", "refused", "root"}
Owners == Launchers \cup {None}
ChromeType == [of : Owners, n : 1..2, port : Ports, says : Sayings, runs : BOOLEAN]
TypeOK ==
  /\ FetchTypeOK
  /\ launch \in [Launchers -> {"fetch", "port", "spawn", "replace", "ask", "connect",
                               "running", "failed", "dropped"}]
  /\ attempts \in [Launchers -> 0..(MaxAttempts + 1)]
  /\ port \in [Launchers -> Ports \cup {None}] /\ url \in [Launchers -> Ports \cup {None}]
  /\ current \in [Launchers -> 0..2]
  /\ chromes \in SUBSET ChromeType
  /\ profiles \in SUBSET (Owners \X (1..2))

Init ==
  /\ FetchInit
  /\ launch = [p \in Launchers |-> "fetch"]
  /\ attempts = [p \in Launchers |-> 0] /\ port = [p \in Launchers |-> None]
  /\ current = [p \in Launchers |-> 0] /\ url = [p \in Launchers |-> None]
  /\ chromes = {} /\ profiles = {}

-----------------------------------------------------------------------------
Moves(p, to) == launch' = [launch EXCEPT ![p] = to]

(* The number of the next Chrome: there are never more than two at a time. *)
Fresh(p) == IF current[p] = 1 THEN 2 ELSE 1

Own(p) == {c \in chromes : c.of = p /\ c.n = current[p]}

(* TemporaryProcess::drop: Chrome is killed and waited for, and its        *)
(* temporary profile is removed.  That kill or wait fails is ignored, and  *)
(* that the directory cannot be removed is only logged.                    *)
MayLeave ==
  Cardinality({c \in chromes : c.of = None}) + Cardinality({x \in profiles : x[1] = None})
    < MaxLeft
LeftRunning(c) == [of |-> None, n |-> 1, port |-> c.port, says |-> c.says, runs |-> TRUE]

Kills(p) ==
  \/ chromes' = chromes \ Own(p)
  \/ /\ MayLeave
     /\ chromes' = (chromes \ Own(p)) \cup {LeftRunning(c) : c \in {d \in Own(p) : d.runs}}

Removes(dirs) ==
  \E left \in SUBSET dirs :
    /\ left = {} \/ MayLeave
    /\ profiles' = (profiles \ dirs) \cup {<<None, 1>> : x \in left}

Profile(p) == profiles \cap {<<p, current[p]>>}

(* Mutant: std's Child, which does neither.                                *)
Mut_Dropped(p) == UNCHANGED <<chromes, profiles>>
Dropped(p) == Kills(p) /\ Removes(Profile(p))

(* An error of Process::new or Browser::new drops what it has started.     *)
LaunchFails(p) == Moves(p, "failed") /\ Dropped(p)

GetPath(p) ==
  /\ launch[p] = "fetch"
  /\ \/ (opt[p].path \/ fetch[p] = "found") /\ Moves(p, "port")
     \/ fetch[p] = "failed" /\ Moves(p, "failed")
  /\ UNCHANGED <<fetchVars, attempts, port, current, url, worldVars>>

(* port_is_available binds the port, and frees it again.                   *)
Listens(c) == c.runs /\ c.says \in {"listening", "garbled"}
PortIsAvailable(x) == \A c \in chromes : Listens(c) => c.port # x

ChoosePort(p) ==
  /\ launch[p] = "port"
  /\ \/ /\ opt[p].port /\ port' = [port EXCEPT ![p] = Given] /\ Moves(p, "spawn")
        /\ UNCHANGED <<chromes, profiles>>
     \/ /\ ~opt[p].port
        /\ \E x \in Ports : PortIsAvailable(x) /\ port' = [port EXCEPT ![p] = x]
        /\ Moves(p, "spawn") /\ UNCHANGED <<chromes, profiles>>
     \/ /\ ~opt[p].port /\ ~\E x \in Ports : PortIsAvailable(x)
        /\ LaunchFails(p) /\ UNCHANGED port
  /\ UNCHANGED <<fetchVars, attempts, current, url>>

(* What `path` names is there to be run.                                   *)
CanRun(p) == IF opt[p].path THEN TRUE ELSE Chrome \in installed[where[p]]

(* start_process: a profile unless the user has one, and Chrome.  In a     *)
(* further attempt the Chrome before is still there.  When Chrome cannot   *)
(* be run, both profiles go.                                               *)
NewProfile(p) == IF opt[p].ownProfile THEN {} ELSE {<<p, Fresh(p)>>}

Spawn(p) ==
  /\ launch[p] = "spawn"
  /\ \/ /\ CanRun(p)
        /\ chromes' = chromes \cup {[of |-> p, n |-> Fresh(p), port |-> port[p],
                                     says |-> "nothing", runs |-> TRUE]}
        /\ profiles' = profiles \cup NewProfile(p)
        /\ Moves(p, "replace")
     \/ Moves(p, "failed") /\ Kills(p) /\ Removes(Profile(p) \cup NewProfile(p))
  /\ UNCHANGED <<fetchVars, attempts, port, current, url>>

(* The assignment to `process` drops the Chrome before, and the attempt is *)
(* counted.  The counter is looked at before Chrome is asked: the last one *)
(* that is started is not.                                                 *)
(* Mutant: attempts are not counted.                                       *)
Mut_Counted(p) == UNCHANGED attempts
Counted(p) == attempts' = [attempts EXCEPT ![p] = IF current[p] = 0 THEN 0 ELSE @ + 1]

Replace(p) ==
  /\ launch[p] = "replace"
  /\ Counted(p) /\ Dropped(p)
  /\ current' = [current EXCEPT ![p] = Fresh(p)]
  /\ Moves(p, "ask")
  /\ UNCHANGED <<fetchVars, port, url>>

(* Mutant: there is no limit.                                              *)
Mut_AttemptsLeft(p) == TRUE
AttemptsLeft(p) == attempts[p] <= MaxAttempts

GivesUp(p) ==
  /\ launch[p] = "ask" /\ ~AttemptsLeft(p)
  /\ LaunchFails(p)
  /\ UNCHANGED <<fetchVars, attempts, port, current, url>>

(* ws_url_from_output reads until Chrome has said something of interest,   *)
(* or until the end of its output, which is polled until the Wait runs out;*)
(* reading from a Chrome that is silent has no end.  What it wrote before  *)
(* it exited is read all the same.                                         *)
(* Mutant: the address is the one it was started with.                     *)
Mut_WsUrl(p, c) == IF launch[p] = "ask" THEN port[p] ELSE None
WsUrl(p, c) == IF c.says = "listening" THEN c.port ELSE None

(* An error that calls for a further attempt: the port is taken, a line is *)
(* not UTF-8, the address cannot be parsed, or there is none.              *)
SaysAnError(c) ==
  \/ c.says \in {"refused", "garbled"}
  \/ ~c.runs /\ c.says = "nothing"

Ask(p) ==
  /\ launch[p] = "ask" /\ AttemptsLeft(p)
  /\ \E c \in Own(p) :
       \/ /\ WsUrl(p, c) # None
          /\ url' = [url EXCEPT ![p] = WsUrl(p, c)] /\ Moves(p, "connect")
          /\ UNCHANGED <<chromes, profiles>>
       \/ /\ c.says = "root" \/ (SaysAnError(c) /\ opt[p].port)
          /\ LaunchFails(p) /\ UNCHANGED url
       \/ /\ SaysAnError(c) /\ ~opt[p].port
          /\ Moves(p, "port") /\ UNCHANGED <<url, chromes, profiles>>
  /\ UNCHANGED <<fetchVars, attempts, port, current>>

(* Browser::new connects and asks for the targets; an error drops the      *)
(* process.                                                                *)
Connect(p) ==
  /\ launch[p] = "connect"
  /\ \/ Moves(p, "running") /\ UNCHANGED <<chromes, profiles>>
     \/ LaunchFails(p)
  /\ UNCHANGED <<fetchVars, attempts, port, current, url>>

DropBrowser(p) ==
  /\ launch[p] = "running"
  /\ Moves(p, "dropped") /\ Dropped(p)
  /\ UNCHANGED <<fetchVars, attempts, port, current, url>>

LaunchStep(p) ==
  \/ GetPath(p) \/ ChoosePort(p) \/ Spawn(p) \/ Replace(p) \/ GivesUp(p) \/ Ask(p)
  \/ Connect(p)

-----------------------------------------------------------------------------
Becomes(c, d) ==
  /\ chromes' = (chromes \ {c}) \cup {d}
  /\ UNCHANGED <<fetchVars, launchVars, profiles>>

(* It binds its port and says so, or says that it could not, or that it    *)
(* will not run as root in its sandbox; what it says may not be readable.  *)
ChromeSpeaks(c) ==
  /\ c.runs /\ c.says = "nothing"
  /\ \E s \in {"root", "refused"}
               \cup (IF PortIsAvailable(c.port) THEN {"listening", "garbled"} ELSE {}) :
       Becomes(c, [c EXCEPT !.says = s])

ChromeExits(c) ==
  c.of \in Launchers /\ c.runs /\ Becomes(c, [c EXCEPT !.runs = FALSE])

(* For one that is left nobody waits any more.                             *)
LeftChromeExits(c) ==
  /\ c.of = None /\ chromes' = chromes \ {c}
  /\ UNCHANGED <<fetchVars, launchVars, profiles>>

-----------------------------------------------------------------------------
Next ==
  \/ \E p \in Launchers :
       \/ (FetchStep(p) \/ Killed(p)) /\ UNCHANGED <<launchVars, worldVars>>
       \/ LaunchStep(p) \/ DropBrowser(p)
  \/ \E c \in chromes : ChromeSpeaks(c) \/ ChromeExits(c) \/ LeftChromeExits(c)

Spec == Init /\ [][Next]_vars

(* Launchers run.  One that waits for the network may wait for ever: the   *)
(* fetcher's requests and the WebSocket's handshake have no timeout.  Of   *)
(* Chrome nothing is assumed.                                              *)
OnNetwork(p) ==
  \/ launch[p] = "fetch" /\ AsksTheNetwork(p)
  \/ launch[p] = "connect"

Runs(p) ==
  /\ ~OnNetwork(p)
  /\ (FetchStep(p) /\ UNCHANGED <<launchVars, worldVars>>) \/ LaunchStep(p)
FairSpec == Spec /\ \A p \in Launchers : WF_vars(Runs(p))

-----------------------------------------------------------------------------
(* Properties.                                                             *)

(* Wherever a launch fails, and when the browser is dropped, no Chrome and *)
(* no temporary profile is left that nobody has tried to remove; before    *)
(* that there is one of each, or two while one replaces the other.         *)
NothingIsLeftBehind ==
  \A p \in Launchers :
    LET mine == {c.n : c \in {k \in chromes : k.of = p}} \cup {x[2] : x \in {y \in profiles : y[1] = p}}
    IN mine \subseteq
         CASE launch[p] = "replace" -> {current[p], Fresh(p)}
           [] launch[p] \in {"failed", "dropped"} -> {}
           [] OTHER -> {current[p]}

(* A launcher talks to the Chrome it has started, though the port it chose *)
(* may have been taken by another before Chrome bound it.                  *)
TalksToItsChrome ==
  \A p \in Launchers :
    launch[p] \in {"connect", "running"} =>
      \E c \in Own(p) : c.port = url[p] /\ c.says = "listening"

(* A launch comes to an end, also if ports are lost to others every time,  *)
(* unless it waits for ever: for the network, or for a Chrome that runs    *)
(* and says nothing that it looks for.                                     *)
Ended(p) == launch[p] \in {"running", "failed", "dropped"}
Waits(p) ==
  \/ OnNetwork(p)
  \/ launch[p] = "ask" /\ \E c \in Own(p) : c.runs /\ c.says = "nothing"
LaunchEnds == \A p \in Launchers : <>[]Ended(p) \/ <>[]Waits(p)
=============================================================================
