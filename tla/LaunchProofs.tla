---------------------------- MODULE LaunchProofs ----------------------------
(***************************************************************************)
(* Theorems about Fetcher and Launch: any number of launchers, entries,    *)
(* ports, attempts and kills.                                              *)
(***************************************************************************)
EXTENDS Launch, FiniteSetTheorems, TLAPS

-----------------------------------------------------------------------------
(* The inductive invariant.                                                *)

(* What a launcher has by when it is at each place of fetch.               *)
FetchPlaces ==
  \A p \in Launchers :
    /\ fetch[p] \in {"copy", "unzip", "extract", "write", "clean"} => where[p] \in Dirs
    /\ fetch[p] \in {"extract", "write"} => installed[where[p]] \in SUBSET Entries
    /\ fetch[p] = "write" => next[p] \in Entries

(* Why an extraction that ends leaves nothing out although others truncate *)
(* its files: every entry that is missing is still before some launcher    *)
(* that extracts to the directory.                                         *)
SeesTo(p, d, e) ==
  where[p] = d /\ fetch[p] \in {"extract", "write"} /\ next[p] <= e
MissingIsSeenTo ==
  \A d \in Dirs :
    installed[d] # None /\ d \notin torn =>
      \A e \in Entries \ installed[d] : \E p \in Launchers : SeesTo(p, d, e)

(* What a launcher has by when it is at each place of Process::new.        *)
LaunchPlaces ==
  \A p \in Launchers :
    /\ launch[p] = "fetch" => current[p] = 0
    /\ launch[p] \in {"fetch", "port", "spawn", "replace"} => attempts[p] <= MaxAttempts
    /\ launch[p] \in {"spawn", "replace"} => port[p] \in Ports

(* NothingIsLeftBehind, with what belongs to a launcher named.             *)
Mine(p, n) == (\E c \in chromes : c.of = p /\ c.n = n) \/ <<p, n>> \in profiles
MayHave(p, n) ==
  CASE launch[p] = "replace" -> n = current[p] \/ n = Fresh(p)
    [] launch[p] \in {"failed", "dropped"} -> FALSE
    [] OTHER -> n = current[p]
OwnsItsOwn == \A p \in Launchers, n \in 1..2 : Mine(p, n) => MayHave(p, n)

FetchInv == FetchTypeOK /\ FetchPlaces /\ MissingIsSeenTo
IInv == TypeOK /\ FetchInv /\ LaunchPlaces /\ OwnsItsOwn /\ TalksToItsChrome

-----------------------------------------------------------------------------
(* Fetching.                                                               *)

(* Entries are natural numbers, and the one after each is a place to be.   *)
LEMMA EntriesAreNaturals ==
  /\ Cardinality(Entries) \in Nat
  /\ Entries = 1..Cardinality(Entries)
  /\ \A e \in Entries : e \in Nat /\ e + 1 \in 1..(Cardinality(Entries) + 1)
  /\ 1 \in 1..(Cardinality(Entries) + 1)
<1>1. Cardinality(Entries) \in Nat
  BY EntriesAreNumbered, FS_CardinalityType
<1> QED
  BY <1>1, EntriesAreNumbered

(* A directory that is found is one of the two.                            *)
LEMMA BasePathIsADir == \A p \in Launchers : BasePath(p) \subseteq Dirs \cup {None}
  BY DEF BasePath, Dirs

LEMMA FetchKeepsTypes ==
  ASSUME FetchTypeOK, FetchPlaces, NEW p \in Launchers, FetchStep(p) \/ Killed(p)
  PROVE  FetchTypeOK'
<1> USE DEF FetchTypeOK, fsVars
<1>1. CASE Fetch(p)
  BY <1>1, BasePathIsADir DEF Fetch, Goes, Fails, FetchSteps
<1>2. CASE Download(p)
  BY <1>2 DEF Download, Goes, Fails, FetchSteps, CreateZip, Target, Dirs
<1>3. CASE Copy(p)
  BY <1>3 DEF Copy, Goes, Fails, FetchSteps, FetchPlaces
<1>4. CASE Unzip(p)
  <2>1. where[p] \in Dirs /\ torn \cup {where[p]} \in SUBSET Dirs
    BY <1>4 DEF Unzip, FetchPlaces
  <2> QED
    BY <1>4, <2>1, EntriesAreNaturals DEF Unzip, Goes, Fails, FetchSteps, Tears
<1>5. CASE Extract(p)
  BY <1>5 DEF Extract, ExtractionFails, Goes, Fails, FetchSteps, FetchPlaces, Tears
<1>6. CASE Write(p)
  <2>1. /\ where[p] \in Dirs /\ installed[where[p]] \in SUBSET Entries
        /\ next[p] \in Entries /\ next[p] + 1 \in 1..(Cardinality(Entries) + 1)
    BY <1>6, EntriesAreNaturals DEF Write, FetchPlaces
  <2>2. /\ installed[where[p]] \cup {next[p]} \in SUBSET Entries
        /\ torn \cup {where[p]} \in SUBSET Dirs
    BY <2>1
  <2> QED
    BY <1>6, <2>1, <2>2 DEF Write, ExtractionFails, Goes, Fails, FetchSteps, Tears
<1>7. CASE CleanUp(p)
  BY <1>7, BasePathIsADir DEF CleanUp, Goes, FetchSteps, FetchPlaces
<1>8. CASE Killed(p)
  BY <1>8, CrashesAreNat DEF Killed, Goes, FetchSteps, FetchingSteps, FetchPlaces
<1> QED
  BY <1>1, <1>2, <1>3, <1>4, <1>5, <1>6, <1>7, <1>8 DEF FetchStep

(* Nobody but the launcher that makes the step goes anywhere, and no       *)
(* directory ceases to be there.                                           *)
LEMMA FetchIsLocal ==
  ASSUME FetchTypeOK, FetchPlaces, NEW p \in Launchers, FetchStep(p) \/ Killed(p)
  PROVE  /\ \A q \in Launchers \ {p} : /\ fetch'[q] = fetch[q] /\ where'[q] = where[q]
                                       /\ next'[q] = next[q]
         /\ \A d \in Dirs : installed[d] \in SUBSET Entries =>
                              installed'[d] \in SUBSET Entries
         /\ torn \subseteq torn'
<1> USE DEF FetchTypeOK, fsVars
<1>1. CASE Fetch(p)
  BY <1>1 DEF Fetch, Goes, Fails
<1>2. CASE Download(p)
  BY <1>2 DEF Download, Goes, Fails, CreateZip
<1>3. CASE Copy(p)
  BY <1>3 DEF Copy, Goes, Fails
<1>4. CASE Unzip(p)
  BY <1>4 DEF Unzip, Goes, Fails, FetchPlaces, Tears
<1>5. CASE Extract(p)
  BY <1>5 DEF Extract, ExtractionFails, Goes, Fails, FetchPlaces, Tears
<1>6. CASE Write(p)
  BY <1>6 DEF Write, ExtractionFails, Goes, Fails, FetchPlaces, Tears
<1>7. CASE CleanUp(p)
  BY <1>7 DEF CleanUp, Goes
<1>8. CASE Killed(p)
  BY <1>8 DEF Killed, Goes
<1> QED
  BY <1>1, <1>2, <1>3, <1>4, <1>5, <1>6, <1>7, <1>8 DEF FetchStep

LEMMA FetchKeepsPlaces ==
  ASSUME FetchTypeOK, FetchPlaces, NEW p \in Launchers, FetchStep(p) \/ Killed(p)
  PROVE  FetchPlaces'
<1> SUFFICES ASSUME NEW q \in Launchers
             PROVE  /\ fetch'[q] \in {"copy", "unzip", "extract", "write", "clean"} =>
                         where'[q] \in Dirs
                    /\ fetch'[q] \in {"extract", "write"} =>
                         installed'[where'[q]] \in SUBSET Entries
                    /\ fetch'[q] = "write" => next'[q] \in Entries
  BY DEF FetchPlaces
<1>1. CASE q # p
  BY <1>1, FetchIsLocal DEF FetchPlaces
<1>2. CASE q = p
  <2> USE DEF FetchTypeOK, fsVars
  <2>1. CASE Fetch(p)
    BY <1>2, <2>1 DEF Fetch, Goes, Fails
  <2>2. CASE Download(p)
    BY <1>2, <2>2 DEF Download, Goes, Fails, CreateZip, Target, Dirs
  <2>3. CASE Copy(p)
    BY <1>2, <2>3 DEF Copy, Goes, Fails, FetchPlaces
  <2>4. CASE Unzip(p)
    BY <1>2, <2>4 DEF Unzip, Goes, Fails, FetchPlaces, Tears
  <2>5. CASE Extract(p)
    BY <1>2, <2>5 DEF Extract, ExtractionFails, Goes, Fails, FetchPlaces, Tears
  <2>6. CASE Write(p)
    BY <1>2, <2>6 DEF Write, ExtractionFails, Goes, Fails, FetchPlaces, Tears
  <2>7. CASE CleanUp(p)
    BY <1>2, <2>7 DEF CleanUp, Goes
  <2>8. CASE Killed(p)
    BY <1>2, <2>8 DEF Killed, Goes
  <2> QED
    BY <2>1, <2>2, <2>3, <2>4, <2>5, <2>6, <2>7, <2>8 DEF FetchStep
<1> QED
  BY <1>1, <1>2

(* Entries are missing after a step for the reasons that they were before, *)
(* or because the step has begun an extraction or truncated a file, and is *)
(* at it.                                                                  *)
LEMMA FetchKeepsMissing ==
  ASSUME FetchTypeOK, FetchPlaces, MissingIsSeenTo,
         NEW p \in Launchers, FetchStep(p) \/ Killed(p)
  PROVE  MissingIsSeenTo'
<1> SUFFICES ASSUME NEW d \in Dirs, installed'[d] # None, d \notin torn',
                    NEW e \in Entries, e \notin installed'[d]
             PROVE  \E q \in Launchers : SeesTo(q, d, e)'
  BY DEF MissingIsSeenTo
<1>0. /\ e \in Nat /\ d \notin torn
      /\ \A q \in Launchers \ {p} : SeesTo(q, d, e) => SeesTo(q, d, e)'
  BY FetchIsLocal, EntriesAreNaturals DEF SeesTo
<1>1. CASE /\ installed[d] # None /\ e \notin installed[d]
           /\ SeesTo(p, d, e) => SeesTo(p, d, e)'
  BY <1>0, <1>1 DEF MissingIsSeenTo
<1>2. CASE SeesTo(p, d, e)'
  BY <1>2
<1> USE DEF FetchTypeOK, fsVars
<1>3. CASE Fetch(p) \/ Download(p) \/ Copy(p) \/ CleanUp(p)
  <2>1. installed' = installed /\ ~SeesTo(p, d, e)
    BY <1>3 DEF Fetch, Download, Copy, CleanUp, CreateZip, SeesTo
  <2> QED
    BY <1>1, <2>1
<1>4. CASE Unzip(p)
  <2>1. CASE where[p] = d
    <3>1. CASE fetch'[p] = "extract"
      <4>1. next'[p] = 1 /\ where'[p] = d
        BY <1>4, <2>1, <3>1 DEF Unzip, Goes, Fails
      <4> QED
        BY <1>0, <1>2, <3>1, <4>1, EntriesAreNaturals DEF SeesTo
    <3>2. CASE fetch'[p] # "extract"
      <4>1. installed' = installed /\ ~SeesTo(p, d, e)
        BY <1>4, <2>1, <3>2 DEF Unzip, Goes, Fails, Tears, SeesTo
      <4> QED
        BY <1>1, <4>1
    <3> QED
      BY <3>1, <3>2
  <2>2. CASE where[p] # d
    BY <1>1, <1>4, <2>2 DEF Unzip, SeesTo
  <2> QED
    BY <2>1, <2>2
<1>5. CASE Extract(p)
  <2>1. CASE where[p] = d
    <3>1. CASE next[p] \in Entries
      <4>1. /\ fetch'[p] = "write" /\ next' = next /\ where'[p] = d
            /\ installed'[d] = installed[d] \ {next[p]}
        BY <1>5, <2>1, <3>1 DEF Extract, ExtractionFails, Goes, Fails, Tears
      <4>2. next[p] <= e => SeesTo(p, d, e)'
        BY <4>1 DEF SeesTo
      <4>3. ~(next[p] <= e) => e \notin installed[d] /\ ~SeesTo(p, d, e)
        BY <1>0, <3>1, <4>1, EntriesAreNaturals DEF SeesTo
      <4>4. installed[d] # None
        BY <1>5, <2>1, NoneIsNothing DEF Extract, FetchPlaces
      <4> QED
        BY <1>1, <1>2, <4>2, <4>3, <4>4
    <3>2. CASE next[p] \notin Entries
      <4>1. installed' = installed
        BY <1>5, <3>2 DEF Extract
      <4>2. ~(next[p] <= e)
        BY <3>2, EntriesAreNaturals
      <4> QED
        BY <1>1, <4>1, <4>2 DEF SeesTo
    <3> QED
      BY <3>1, <3>2
  <2>2. CASE where[p] # d
    BY <1>1, <1>5, <2>2 DEF Extract, SeesTo, FetchPlaces
  <2> QED
    BY <2>1, <2>2
<1>6. CASE Write(p)
  <2>1. CASE where[p] = d
    <3>1. /\ fetch'[p] = "extract" /\ next'[p] = next[p] + 1 /\ where'[p] = d
          /\ installed'[d] = installed[d] \cup {next[p]} /\ next[p] \in Entries
      BY <1>6, <2>1 DEF Write, ExtractionFails, Goes, Fails, Tears, FetchPlaces
    <3>2. e \notin installed[d] /\ e # next[p]
      BY <3>1
    <3>3. next[p] <= e => next'[p] <= e
      BY <1>0, <3>1, <3>2, EntriesAreNaturals
    <3>4. SeesTo(p, d, e) => SeesTo(p, d, e)'
      BY <3>1, <3>3 DEF SeesTo
    <3>5. installed[d] # None
      BY <1>6, <2>1, NoneIsNothing DEF Write, FetchPlaces
    <3> QED
      BY <1>1, <3>2, <3>4, <3>5
  <2>2. CASE where[p] # d
    BY <1>1, <1>6, <2>2 DEF Write, SeesTo, FetchPlaces
  <2> QED
    BY <2>1, <2>2
<1>7. CASE Killed(p)
  BY <1>1, <1>7 DEF Killed, SeesTo
<1> QED
  BY <1>3, <1>4, <1>5, <1>6, <1>7 DEF FetchStep

LEMMA FetchStepKeeps ==
  ASSUME FetchInv, NEW p \in Launchers, FetchStep(p) \/ Killed(p)
  PROVE  FetchInv'
BY FetchKeepsTypes, FetchKeepsPlaces, FetchKeepsMissing DEF FetchInv

-----------------------------------------------------------------------------
(* Launching.  A step of Launch is one of these.                           *)
LaunchSteps(p) == LaunchStep(p) \/ DropBrowser(p)
ChromeSteps == \E c \in chromes : ChromeSpeaks(c) \/ ChromeExits(c)

LEMMA GivenIsAPort == Given \in Ports
BY PortsExist DEF Given

(* What a drop cannot remove has the type of what it could.                *)
LEMMA KillsKeepsTypes ==
  ASSUME TypeOK, NEW p \in Launchers, Kills(p)
  PROVE  chromes' \in SUBSET ChromeType
<1>1. \A c \in Own(p) : LeftRunning(c) \in ChromeType
  BY DEF TypeOK, Own, ChromeType, Owners, LeftRunning
<1> QED
  BY <1>1 DEF TypeOK, Kills

LEMMA RemovesKeepsTypes ==
  ASSUME TypeOK, NEW dirs \in SUBSET (Owners \X (1..2)), Removes(dirs)
  PROVE  profiles' \in SUBSET (Owners \X (1..2))
<1>1. <<None, 1>> \in Owners \X (1..2)
  BY DEF Owners
<1> QED
  BY <1>1 DEF TypeOK, Removes

LEMMA DroppedKeepsTypes ==
  ASSUME TypeOK, NEW p \in Launchers, Dropped(p)
  PROVE  chromes' \in SUBSET ChromeType /\ profiles' \in SUBSET (Owners \X (1..2))
<1>1. Profile(p) \in SUBSET (Owners \X (1..2))
  BY DEF TypeOK, Profile
<1> QED
  BY <1>1, KillsKeepsTypes, RemovesKeepsTypes DEF Dropped

LEMMA LaunchKeepsTypes ==
  ASSUME TypeOK, LaunchPlaces, NEW p \in Launchers, LaunchSteps(p)
  PROVE  TypeOK'
<1>0. /\ FetchTypeOK'
      /\ Fresh(p) \in 1..2
      /\ Dropped(p) => /\ chromes' \in SUBSET ChromeType
                       /\ profiles' \in SUBSET (Owners \X (1..2))
  <2>1. UNCHANGED fetchVars
    BY DEF LaunchSteps, LaunchStep, GetPath, ChoosePort, Spawn, Replace, GivesUp, Ask,
           Connect, DropBrowser
  <2> QED
    BY <2>1, DroppedKeepsTypes DEF TypeOK, FetchTypeOK, fetchVars, fsVars, Fresh
<1> USE <1>0 DEF TypeOK
<1>1. CASE GetPath(p)
  BY <1>1 DEF GetPath, Moves, worldVars
<1>2. CASE ChoosePort(p)
  BY <1>2, GivenIsAPort DEF ChoosePort, Moves, LaunchFails
<1>3. CASE Spawn(p)
  <2>1. NewProfile(p) \in SUBSET (Owners \X (1..2)) /\ Profile(p) \in SUBSET (Owners \X (1..2))
    BY DEF NewProfile, Profile, Owners
  <2>2. [of |-> p, n |-> Fresh(p), port |-> port[p], says |-> "nothing", runs |-> TRUE]
          \in ChromeType
    BY <1>3 DEF Spawn, LaunchPlaces, ChromeType, Owners, Sayings
  <2>3. CASE launch'[p] = "replace"
    BY <1>3, <2>1, <2>2, <2>3 DEF Spawn, Moves
  <2>4. CASE launch'[p] # "replace"
    <3>1. /\ Moves(p, "failed") /\ Kills(p) /\ Removes(Profile(p) \cup NewProfile(p))
          /\ UNCHANGED <<fetchVars, attempts, port, current, url>>
      BY <1>3, <2>4 DEF Spawn, Moves
    <3>2. profiles' \in SUBSET (Owners \X (1..2)) /\ chromes' \in SUBSET ChromeType
      BY <2>1, <3>1, KillsKeepsTypes, RemovesKeepsTypes
    <3> QED
      BY <3>1, <3>2 DEF Moves
  <2> QED
    BY <2>3, <2>4
<1>4. CASE Replace(p)
  BY <1>4, AttemptsAreNat DEF Replace, Moves, Counted, LaunchPlaces
<1>5. CASE GivesUp(p)
  BY <1>5 DEF GivesUp, Moves, LaunchFails
<1>6. CASE Ask(p)
  BY <1>6 DEF Ask, Moves, LaunchFails, WsUrl, Own, ChromeType
<1>7. CASE Connect(p)
  BY <1>7 DEF Connect, Moves, LaunchFails
<1>8. CASE DropBrowser(p)
  BY <1>8 DEF DropBrowser, Moves
<1> QED
  BY <1>1, <1>2, <1>3, <1>4, <1>5, <1>6, <1>7, <1>8 DEF LaunchSteps, LaunchStep

(* A step of Chrome changes what one says, which has said nothing, or that *)
(* it runs, and nothing else.                                              *)
LEMMA WhatChromeDoes ==
  ASSUME TypeOK, ChromeSteps
  PROVE  \E c \in chromes, d \in ChromeType :
           /\ Becomes(c, d) /\ d.of = c.of /\ d.n = c.n /\ d.port = c.port
           /\ c.says = "nothing" \/ d.says = c.says
<1>1. PICK c \in chromes : ChromeSpeaks(c) \/ ChromeExits(c)
  BY DEF ChromeSteps
<1>2. c \in ChromeType
  BY DEF TypeOK
<1>3. CASE ChromeExits(c)
  <2>1. [c EXCEPT !.runs = FALSE] \in ChromeType
    BY <1>2 DEF ChromeType
  <2> QED
    BY <1>2, <1>3, <2>1 DEF ChromeExits, ChromeType
<1>4. CASE ChromeSpeaks(c)
  <2>1. PICK s \in Sayings : c.says = "nothing" /\ Becomes(c, [c EXCEPT !.says = s])
    BY <1>4 DEF ChromeSpeaks, Sayings
  <2>2. [c EXCEPT !.says = s] \in ChromeType
    BY <1>2 DEF ChromeType
  <2> QED
    BY <1>2, <2>1, <2>2 DEF ChromeType
<1> QED
  BY <1>1, <1>3, <1>4

LEMMA ChromeKeepsTypes ==
  ASSUME TypeOK, ChromeSteps
  PROVE  TypeOK'
<1>1. PICK c \in chromes, d \in ChromeType : Becomes(c, d)
  BY WhatChromeDoes
<1> QED
  BY <1>1 DEF TypeOK, FetchTypeOK, Becomes, fetchVars, fsVars, launchVars

LEMMA LaunchKeepsPlaces ==
  ASSUME TypeOK, LaunchPlaces, NEW p \in Launchers, LaunchSteps(p)
  PROVE  LaunchPlaces'
<1> SUFFICES ASSUME NEW q \in Launchers
             PROVE  /\ launch'[q] = "fetch" => current'[q] = 0
                    /\ launch'[q] \in {"fetch", "port", "spawn", "replace"} =>
                         attempts'[q] <= MaxAttempts
                    /\ launch'[q] \in {"spawn", "replace"} => port'[q] \in Ports
  BY DEF LaunchPlaces
<1> USE DEF TypeOK, LaunchPlaces
<1>1. CASE GetPath(p)
  BY <1>1 DEF GetPath, Moves
<1>2. CASE ChoosePort(p)
  BY <1>2, GivenIsAPort DEF ChoosePort, Moves, LaunchFails
<1>3. CASE Spawn(p)
  BY <1>3 DEF Spawn, Moves, LaunchFails
<1>4. CASE Replace(p)
  BY <1>4 DEF Replace, Moves, Counted
<1>5. CASE GivesUp(p)
  BY <1>5 DEF GivesUp, Moves, LaunchFails
<1>6. CASE Ask(p)
  BY <1>6 DEF Ask, Moves, LaunchFails, AttemptsLeft
<1>7. CASE Connect(p)
  BY <1>7 DEF Connect, Moves, LaunchFails
<1>8. CASE DropBrowser(p)
  BY <1>8 DEF DropBrowser, Moves
<1> QED
  BY <1>1, <1>2, <1>3, <1>4, <1>5, <1>6, <1>7, <1>8 DEF LaunchSteps, LaunchStep

LEMMA ChromeKeepsPlaces ==
  ASSUME LaunchPlaces, ChromeSteps
  PROVE  LaunchPlaces'
<1>1. UNCHANGED launchVars
  BY DEF ChromeSteps, ChromeSpeaks, ChromeExits, Becomes
<1> QED
  BY <1>1 DEF LaunchPlaces, launchVars

(* What is dropped is no launcher's, and nothing else ceases to be.        *)
LEMMA WhatIsKilled ==
  ASSUME TypeOK, NEW p \in Launchers, Kills(p)
  PROVE  /\ \A c \in chromes' : c.of # None => c \in chromes /\ c \notin Own(p)
         /\ \A c \in chromes : c.of # p => c \in chromes'
<1>1. \A c \in Own(p) : c.of = p
  BY DEF Own
<1>2. ASSUME NEW k \in {LeftRunning(c) : c \in {d \in Own(p) : d.runs}} PROVE k.of = None
  BY DEF TypeOK, ChromeType, Own, LeftRunning
<1> QED
  BY <1>1, <1>2 DEF Kills

LEMMA WhatIsRemoved ==
  ASSUME NEW dirs, Removes(dirs)
  PROVE  \A q \in Launchers : \A n :
           <<q, n>> \in profiles' => <<q, n>> \in profiles /\ <<q, n>> \notin dirs
BY NobodyIsNoLauncher DEF Removes

LEMMA WhatIsDropped ==
  ASSUME TypeOK, NEW p \in Launchers, Dropped(p)
  PROVE  /\ \A q \in Launchers : \A n : Mine(q, n)' => Mine(q, n)
         /\ \A n : Mine(p, n)' => n # current[p]
         /\ \A c \in chromes : c.of # p => c \in chromes'
<1>1. Kills(p) /\ Removes(Profile(p))
  BY DEF Dropped
<1>2. \A q \in Launchers : \A n :
        <<q, n>> \in profiles' => <<q, n>> \in profiles /\ <<q, n>> \notin Profile(p)
  BY <1>1, WhatIsRemoved
<1> QED
  BY <1>1, <1>2, WhatIsKilled, NobodyIsNoLauncher DEF Own, Profile, Mine

LEMMA LaunchKeepsOwn ==
  ASSUME TypeOK, LaunchPlaces, OwnsItsOwn, NEW p \in Launchers, LaunchSteps(p)
  PROVE  OwnsItsOwn'
<1> SUFFICES ASSUME NEW q \in Launchers, NEW n \in 1..2, Mine(q, n)'
             PROVE  MayHave(q, n)'
  BY DEF OwnsItsOwn
<1>0. Mine(q, n) => MayHave(q, n)
  BY DEF OwnsItsOwn
<1>1. CASE q # p
  <2>1. /\ launch'[q] = launch[q] /\ current'[q] = current[q]
        /\ Mine(q, n)' => Mine(q, n)
    <3>1. CASE Dropped(p)
      <4>1. launch'[q] = launch[q] /\ current'[q] = current[q]
        BY <1>1 DEF TypeOK, LaunchSteps, LaunchStep, GetPath, ChoosePort, Spawn, Replace,
                    GivesUp, Ask, Connect, DropBrowser, Moves, LaunchFails, worldVars
      <4> QED
        BY <1>1, <3>1, <4>1, WhatIsDropped
    <3>2. CASE Spawn(p) /\ ~Dropped(p)
      <4>1. launch'[q] = launch[q] /\ current'[q] = current[q]
        BY <1>1, <3>2 DEF TypeOK, Spawn, Moves
      <4>2. CASE Kills(p) /\ Removes(Profile(p) \cup NewProfile(p))
        BY <4>1, <4>2, WhatIsKilled, WhatIsRemoved, NobodyIsNoLauncher DEF Mine
      <4>3. CASE /\ chromes' = chromes \cup {[of |-> p, n |-> Fresh(p), port |-> port[p],
                                             says |-> "nothing", runs |-> TRUE]}
                 /\ profiles' = profiles \cup NewProfile(p)
        BY <1>1, <4>1, <4>3 DEF Mine, NewProfile
      <4> QED
        BY <3>2, <4>2, <4>3 DEF Spawn
    <3>3. CASE ~Spawn(p) /\ ~Dropped(p)
      BY <1>1, <3>3 DEF TypeOK, LaunchSteps, LaunchStep, GetPath, ChoosePort, Replace,
                    GivesUp, Ask, Connect, DropBrowser, Moves, LaunchFails, Mine, worldVars
    <3> QED
      BY <3>1, <3>2, <3>3
  <2> QED
    BY <1>0, <2>1 DEF MayHave, Fresh
<1>2. CASE q = p
  <2> USE <1>0, <1>2 DEF TypeOK
  <2>1. CASE LaunchFails(p) \/ DropBrowser(p)
    <3>1. launch[p] # "replace" /\ Dropped(p)
      BY <2>1 DEF LaunchSteps, LaunchStep, GetPath, ChoosePort, Spawn, Replace,
                  GivesUp, Ask, Connect, DropBrowser, Moves, LaunchFails, TypeOK
    <3> QED
      BY <3>1, WhatIsDropped DEF MayHave
  <2>8. CASE Spawn(p) /\ Kills(p) /\ Removes(Profile(p) \cup NewProfile(p))
    <3>1. ~Mine(p, n)'
      <4>1. launch[p] = "spawn"
        BY <2>8 DEF Spawn
      <4>2. Mine(p, n) => n = current[p]
        BY <4>1 DEF MayHave
      <4>3. \A c \in chromes' : c.of = p => c \in chromes /\ c \notin Own(p)
        BY <2>8, WhatIsKilled, NobodyIsNoLauncher
      <4>4. <<p, n>> \in profiles' => <<p, n>> \in profiles /\ <<p, n>> \notin Profile(p)
        BY <2>8, WhatIsRemoved
      <4> QED
        BY <4>2, <4>3, <4>4 DEF Mine, Own, Profile
    <3> QED
      BY <3>1
  <2>2. CASE GetPath(p)
    BY <2>2 DEF GetPath, Moves, LaunchPlaces, Mine, MayHave, worldVars
  <2>3. CASE ChoosePort(p) /\ ~LaunchFails(p)
    BY <2>3 DEF ChoosePort, Moves, Mine, MayHave
  <2>4. CASE /\ Spawn(p) /\ Moves(p, "replace")
             /\ chromes' = chromes \cup {[of |-> p, n |-> Fresh(p), port |-> port[p],
                                         says |-> "nothing", runs |-> TRUE]}
             /\ profiles' = profiles \cup NewProfile(p)
    BY <2>4 DEF Spawn, Moves, Mine, MayHave, Fresh, NewProfile
  <2>5. CASE Replace(p)
    BY <2>5, WhatIsDropped DEF Replace, Moves, MayHave, Fresh
  <2>6. CASE Ask(p) /\ ~LaunchFails(p)
    BY <2>6 DEF Ask, Moves, Mine, MayHave
  <2>7. CASE Connect(p) /\ ~LaunchFails(p)
    BY <2>7 DEF Connect, Moves, Mine, MayHave
  <2> QED
    <3>1. Spawn(p) => \/ Spawn(p) /\ Kills(p) /\ Removes(Profile(p) \cup NewProfile(p))
                      \/ /\ Spawn(p) /\ Moves(p, "replace")
                         /\ chromes' = chromes \cup {[of |-> p, n |-> Fresh(p), port |-> port[p],
                                                     says |-> "nothing", runs |-> TRUE]}
                         /\ profiles' = profiles \cup NewProfile(p)
      BY DEF Spawn
    <3> QED
      BY <2>1, <2>2, <2>3, <2>4, <2>5, <2>6, <2>7, <2>8, <3>1
      DEF LaunchSteps, LaunchStep, GivesUp
<1> QED
  BY <1>1, <1>2

LEMMA ChromeKeepsOwn ==
  ASSUME TypeOK, OwnsItsOwn, ChromeSteps
  PROVE  OwnsItsOwn'
<1>1. PICK c \in chromes, d \in ChromeType : Becomes(c, d) /\ d.of = c.of /\ d.n = c.n
  BY WhatChromeDoes
<1>2. \A p, n : Mine(p, n)' => Mine(p, n)
  BY <1>1 DEF Becomes, Mine
<1>3. \A p, n : MayHave(p, n)' <=> MayHave(p, n)
  BY <1>1 DEF Becomes, launchVars, MayHave, Fresh
<1> QED
  BY <1>2, <1>3 DEF OwnsItsOwn

LEMMA LaunchKeepsTalking ==
  ASSUME TypeOK, TalksToItsChrome, NEW p \in Launchers, LaunchSteps(p)
  PROVE  TalksToItsChrome'
<1> SUFFICES ASSUME NEW q \in Launchers, launch'[q] \in {"connect", "running"}
             PROVE  \E c \in Own(q)' : c.port = url'[q] /\ c.says = "listening"
  BY DEF TalksToItsChrome
<1>1. CASE q # p
  <2>1. /\ launch'[q] = launch[q] /\ current'[q] = current[q] /\ url'[q] = url[q]
        /\ \A c \in chromes : c.of = q => c \in chromes'
    <3>1. launch'[q] = launch[q] /\ current'[q] = current[q] /\ url'[q] = url[q]
      BY <1>1 DEF TypeOK, LaunchSteps, LaunchStep, GetPath, ChoosePort, Spawn, Replace,
                  GivesUp, Ask, Connect, DropBrowser, Moves, LaunchFails
    <3>2. Kills(p) \/ chromes \subseteq chromes'
      BY DEF Dropped, LaunchSteps, LaunchStep, GetPath, ChoosePort, Spawn, Replace,
             GivesUp, Ask, Connect, DropBrowser, LaunchFails, worldVars
    <3> QED
      BY <1>1, <3>1, <3>2, WhatIsKilled
  <2> QED
    BY <2>1 DEF TalksToItsChrome, Own
<1>2. CASE q = p
  <2> USE <1>2 DEF TypeOK
  <2>1. CASE Ask(p)
    BY <2>1 DEF Ask, Moves, LaunchFails, WsUrl, Own
  <2>2. CASE Connect(p)
    BY <2>2 DEF Connect, Moves, LaunchFails, TalksToItsChrome, Own
  <2>3. CASE ~Ask(p) /\ ~Connect(p)
    BY <2>3 DEF LaunchSteps, LaunchStep, GetPath, ChoosePort, Spawn, Replace,
                GivesUp, DropBrowser, Moves, LaunchFails
  <2> QED
    BY <2>1, <2>2, <2>3
<1> QED
  BY <1>1, <1>2

LEMMA ChromeKeepsTalking ==
  ASSUME TypeOK, TalksToItsChrome, ChromeSteps
  PROVE  TalksToItsChrome'
<1>1. PICK c \in chromes, d \in ChromeType :
        /\ Becomes(c, d) /\ d.of = c.of /\ d.n = c.n /\ d.port = c.port
        /\ c.says = "nothing" \/ d.says = c.says
  BY WhatChromeDoes
<1> SUFFICES ASSUME NEW q \in Launchers, launch'[q] \in {"connect", "running"}
             PROVE  \E k \in Own(q)' : k.port = url'[q] /\ k.says = "listening"
  BY DEF TalksToItsChrome
<1>2. UNCHANGED launchVars
  BY <1>1 DEF Becomes
<1>3. PICK k \in Own(q) : k.port = url[q] /\ k.says = "listening"
  BY <1>2 DEF TalksToItsChrome, launchVars
<1> QED
  BY <1>1, <1>2, <1>3 DEF Becomes, Own, launchVars

-----------------------------------------------------------------------------
(* The invariant, and what follows from it.                                *)

LEMMA InitEstablishes == Init => IInv
<1> SUFFICES ASSUME Init PROVE IInv
  OBVIOUS
<1>1. FetchTypeOK
  BY EntriesAreNaturals, CrashesAreNat DEF Init, FetchInit, FetchTypeOK, FetchSteps
<1>2. TypeOK
  BY <1>1, AttemptsAreNat DEF Init, TypeOK
<1>3. FetchPlaces /\ MissingIsSeenTo
  BY DEF Init, FetchInit, FetchPlaces, MissingIsSeenTo
<1>4. LaunchPlaces
  BY AttemptsAreNat DEF Init, LaunchPlaces
<1>5. OwnsItsOwn
  BY DEF Init, OwnsItsOwn, Mine
<1>6. TalksToItsChrome
  BY DEF Init, TalksToItsChrome
<1> QED
  BY <1>1, <1>2, <1>3, <1>4, <1>5, <1>6 DEF IInv, FetchInv

LEMMA NextKeeps == IInv /\ [Next]_vars => IInv'
<1> SUFFICES ASSUME IInv, [Next]_vars PROVE IInv'
  OBVIOUS
<1>1. ASSUME NEW p \in Launchers, FetchStep(p) \/ Killed(p), UNCHANGED <<launchVars, worldVars>>
      PROVE  IInv'
  <2>1. FetchInv'
    BY <1>1, FetchStepKeeps DEF IInv
  <2> QED
    BY <1>1, <2>1 DEF IInv, FetchInv, TypeOK, LaunchPlaces, OwnsItsOwn, Mine, MayHave, Fresh,
                      TalksToItsChrome, Own, launchVars, worldVars
<1>2. ASSUME UNCHANGED fetchVars PROVE FetchInv'
  BY <1>2 DEF IInv, FetchInv, FetchTypeOK, FetchPlaces, MissingIsSeenTo, SeesTo, fetchVars, fsVars
<1>3. ASSUME NEW p \in Launchers, LaunchSteps(p) PROVE IInv'
  <2>1. UNCHANGED fetchVars
    BY <1>3 DEF LaunchSteps, LaunchStep, GetPath, ChoosePort, Spawn, Replace, GivesUp, Ask,
                Connect, DropBrowser
  <2> QED
    BY <1>2, <1>3, <2>1, LaunchKeepsTypes, LaunchKeepsPlaces, LaunchKeepsOwn, LaunchKeepsTalking
    DEF IInv
<1>4. CASE ChromeSteps
  <2>1. UNCHANGED fetchVars
    BY <1>4 DEF ChromeSteps, ChromeSpeaks, ChromeExits, Becomes
  <2> QED
    BY <1>2, <1>4, <2>1, ChromeKeepsTypes, ChromeKeepsPlaces, ChromeKeepsOwn, ChromeKeepsTalking
    DEF IInv
<1>6. ASSUME NEW c \in chromes, LeftChromeExits(c) PROVE IInv'
  <2>1. UNCHANGED <<fetchVars, launchVars, profiles>> /\ chromes' = chromes \ {c}
    BY <1>6 DEF LeftChromeExits
  <2>2. FetchInv' /\ TypeOK' /\ LaunchPlaces'
    BY <1>2, <2>1 DEF IInv, FetchInv, TypeOK, LaunchPlaces, launchVars
  <2>3. OwnsItsOwn'
    BY <2>1 DEF IInv, OwnsItsOwn, Mine, MayHave, Fresh, launchVars
  <2>4. TalksToItsChrome'
    <3>1. \A q \in Launchers : Own(q)' = Own(q)
      BY <1>6, <2>1, NobodyIsNoLauncher DEF Own, LeftChromeExits, launchVars
    <3> QED
      BY <2>1, <3>1 DEF IInv, TalksToItsChrome, launchVars
  <2> QED
    BY <2>2, <2>3, <2>4 DEF IInv
<1>5. CASE UNCHANGED vars
  BY <1>2, <1>5 DEF vars, IInv, TypeOK, FetchInv, LaunchPlaces, OwnsItsOwn, Mine, MayHave, Fresh,
                    TalksToItsChrome, Own, launchVars, worldVars
<1> QED
  BY <1>1, <1>3, <1>4, <1>5, <1>6 DEF Next, LaunchSteps, ChromeSteps

LEMMA InvariantHolds == Spec => []IInv
BY InitEstablishes, NextKeeps, PTL DEF Spec

(* Every variable of a launch keeps its type: attempts stay within their   *)
(* limit, and no launcher has a third Chrome.                              *)
THEOREM TypesHold == Spec => []TypeOK
BY InvariantHolds, PTL DEF IInv

(* A directory lacks entries only while they are extracted, or after an    *)
(* extraction was cut short, however many launchers download and extract   *)
(* to it at the same time and truncate each other's files.                 *)
THEOREM OnlyTornLacks == Spec => []OnlyTornIsIncomplete
<1>1. IInv => OnlyTornIsIncomplete
  <2> SUFFICES ASSUME IInv, NEW d \in Dirs, installed[d] \notin {None, Entries}, d \notin torn
               PROVE  Extracting(d)
    BY DEF OnlyTornIsIncomplete
  <2>1. installed[d] \in SUBSET Entries
    BY DEF IInv, FetchInv, FetchTypeOK
  <2>2. PICK e \in Entries : e \notin installed[d]
    BY <2>1
  <2> QED
    BY <2>2 DEF IInv, FetchInv, MissingIsSeenTo, SeesTo, Extracting
<1> QED
  BY <1>1, InvariantHolds, PTL

(* No failure of a launch, and no drop of a browser, leaves a Chrome or a  *)
(* temporary profile behind that it has not tried to remove, nor do        *)
(* further attempts, whatever cannot be removed.                           *)
THEOREM LeavesNothing == Spec => []NothingIsLeftBehind
<1>1. IInv => NothingIsLeftBehind
  <2> SUFFICES ASSUME IInv, NEW p \in Launchers PROVE
        LET mine == {c.n : c \in {k \in chromes : k.of = p}}
                      \cup {x[2] : x \in {y \in profiles : y[1] = p}}
        IN mine \subseteq CASE launch[p] = "replace" -> {current[p], Fresh(p)}
                            [] launch[p] \in {"failed", "dropped"} -> {}
                            [] OTHER -> {current[p]}
    BY DEF NothingIsLeftBehind
  <2> DEFINE mine == {c.n : c \in {k \in chromes : k.of = p}}
                      \cup {x[2] : x \in {y \in profiles : y[1] = p}}
  <2>1. ASSUME NEW n \in mine PROVE n \in 1..2 /\ Mine(p, n)
    <3>1. CASE \E c \in chromes : c.of = p /\ c.n = n
      <4>1. \A c \in chromes : c.n \in 1..2
        BY DEF IInv, TypeOK, ChromeType
      <4> QED
        BY <3>1, <4>1 DEF Mine
    <3>2. CASE \E x \in profiles : x[1] = p /\ x[2] = n
      <4>1. PICK x \in profiles : x[1] = p /\ x[2] = n
        BY <3>2
      <4>2. x \in Owners \X (1..2)
        BY DEF IInv, TypeOK
      <4>3. x = <<p, n>> /\ n \in 1..2
        BY <4>1, <4>2
      <4> QED
        BY <4>3 DEF Mine
    <3> QED
      BY <3>1, <3>2
  <2>2. \A n \in mine : MayHave(p, n)
    BY <2>1 DEF IInv, OwnsItsOwn
  <2> HIDE DEF mine
  <2>3. mine \subseteq CASE launch[p] = "replace" -> {current[p], Fresh(p)}
                       [] launch[p] \in {"failed", "dropped"} -> {}
                       [] OTHER -> {current[p]}
    BY <2>2 DEF MayHave
  <2> QED
    BY <2>3 DEF mine
<1> QED
  BY <1>1, InvariantHolds, PTL

(* A launcher that has an address talks to the Chrome it owns, whoever     *)
(* takes the ports.                                                        *)
THEOREM TalksToItsOwn == Spec => []TalksToItsChrome
BY InvariantHolds, PTL DEF IInv
=============================================================================
