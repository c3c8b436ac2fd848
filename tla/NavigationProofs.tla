-------------------------- MODULE NavigationProofs --------------------------
(***************************************************************************)
(* Proofs about Navigation, for any child frames and any bounds.           *)
(*                                                                         *)
(* FlagSettles speaks of the moments when the queue is empty.  What a step *)
(* preserves is about the value the flag will have when the queue has been *)
(* handled (LastFlag): it is TRUE only while some frame has still to send  *)
(* its "networkAlmostIdle".  CalmWaitSeesLoad rests on the shape of an     *)
(* undisturbed load: until the main frame is idle, the queue holds nothing *)
(* that clears the flag.                                                   *)
(***************************************************************************)
EXTENDS Navigation, SequenceTheorems, TLAPS

Loading(f) == phase[f] \in {"starting", "loading"}

LastFlag ==
  IF queue = <<>> THEN navigating ELSE queue[Len(queue)].name = "init"

FlagHasCause == LastFlag /\ ~orphaned => \E f \in Frames : Loading(f)

CalmLoad ==
  calm /\ pc \in {"store", "wait"} =>
    /\ \A c \in Children : ~Loading(c)
    /\ \/ phase[Main] = "idle"
       \/ /\ pc = "wait" => navigating
          /\ \A i \in 1..Len(queue) : queue[i].name = "init"

IInv == TypeOK /\ phase[Main] # "none" /\ FlagHasCause /\ CalmLoad

-----------------------------------------------------------------------------
(* The queue after it has grown or shrunk by one event.                    *)

LEMMA AppendedEvent ==
  ASSUME NEW q \in Seq(Event), NEW e \in Event
  PROVE  /\ Append(q, e) \in Seq(Event)
         /\ Append(q, e) # <<>>
         /\ Append(q, e)[Len(Append(q, e))] = e
         /\ \A i \in 1..Len(Append(q, e)) :
              \/ Append(q, e)[i] = e
              \/ i \in 1..Len(q) /\ Append(q, e)[i] = q[i]
<1>1. /\ Append(q, e) \in Seq(Event)
      /\ Len(Append(q, e)) = Len(q) + 1
      /\ Append(q, e)[Len(q) + 1] = e
      /\ \A i \in 1..Len(q) : Append(q, e)[i] = q[i]
  BY AppendProperties
<1>2. Len(q) \in Nat
  BY LenProperties
<1>3. Append(q, e) # <<>>
  BY <1>1, <1>2, EmptySeq
<1> QED
  BY <1>1, <1>2, <1>3

LEMMA HandledEvent ==
  ASSUME NEW q \in Seq(Event), q # <<>>
  PROVE  /\ Head(q) \in Event
         /\ Head(q) = q[1]
         /\ Tail(q) \in Seq(Event)
         /\ Tail(q) = <<>> => Head(q) = q[Len(q)]
         /\ Tail(q) # <<>> => Tail(q)[Len(Tail(q))] = q[Len(q)]
         /\ 1 \in 1..Len(q)
         /\ \A i \in 1..Len(Tail(q)) : i + 1 \in 1..Len(q) /\ Tail(q)[i] = q[i + 1]
<1>1. /\ Head(q) \in Event /\ Tail(q) \in Seq(Event)
      /\ Len(Tail(q)) = Len(q) - 1
      /\ \A i \in 1..Len(Tail(q)) : Tail(q)[i] = q[i + 1]
  BY HeadTailProperties
<1>2. Len(q) \in Nat /\ Len(q) # 0
  BY LenProperties, EmptySeq
<1>3. Head(q) = q[1]
  BY <1>2
<1>4. Tail(q) = <<>> <=> Len(q) = 1
  <2>1. Tail(q) = <<>> <=> Len(Tail(q)) = 0
    BY <1>1, EmptySeq
  <2> QED
    BY <1>1, <1>2, <2>1
<1>5. Tail(q) # <<>> => Tail(q)[Len(Tail(q))] = q[Len(q)]
  <2>1. Tail(q) # <<>> => Len(Tail(q)) \in 1..Len(Tail(q))
    BY <1>1, <1>2, <1>4
  <2>2. Len(Tail(q)) + 1 = Len(q)
    BY <1>1, <1>2
  <2> QED
    BY <1>1, <2>1, <2>2
<1>6. \A i \in 1..Len(Tail(q)) : i + 1 \in 1..Len(q) /\ Tail(q)[i] = q[i + 1]
  BY <1>1, <1>2
<1>7. Tail(q) = <<>> => Head(q) = q[Len(q)]
  BY <1>3, <1>4
<1>8. 1 \in 1..Len(q)
  BY <1>2
<1> QED
  BY <1>1, <1>3, <1>5, <1>6, <1>7, <1>8

-----------------------------------------------------------------------------

LEMMA InitHolds == Init => IInv
<1> SUFFICES ASSUME Init PROVE IInv
  OBVIOUS
<1>1. Main \in Frames
  BY DEF Frames
<1>2. TypeOK /\ phase[Main] # "none"
  <2>1. PICK p \in {"loading", "idle"} :
          phase = [f \in Frames |-> IF f = Main THEN p ELSE "none"]
    BY DEF Init
  <2>2. /\ phase \in [Frames -> {"none", "starting", "loading", "idle"}]
        /\ phase[Main] # "none"
    BY <1>1, <2>1
  <2>3. queue \in Seq(Event)
    BY EmptySeq DEF Init
  <2>4. loads \in 0..MaxLoads
    BY BoundsAreNat DEF Init
  <2> QED
    BY <2>2, <2>3, <2>4 DEF Init, TypeOK
<1>3. FlagHasCause /\ CalmLoad
  BY DEF Init, FlagHasCause, CalmLoad, LastFlag
<1> QED
  BY <1>2, <1>3 DEF IInv

(* A new document: the main frame has everything still to send.            *)
LEMMA NewDocument ==
  ASSUME TypeOK, Starts
  PROVE  /\ loads' \in 0..MaxLoads
         /\ phase' \in [Frames -> {"none", "starting", "loading", "idle"}]
         /\ phase'[Main] = "starting"
         /\ \A c \in Children : phase'[c] = "none"
         /\ \E f \in Frames : Loading(f)'
<1>1. Main \in Frames /\ Children \subseteq Frames
  BY DEF Frames
<1>2. \A c \in Children : c # Main
  BY MainIsNoChild
<1> QED
  BY <1>1, <1>2, BoundsAreNat DEF Starts, TypeOK, Loading

LEMMA PageNavigatesKeeps == IInv /\ PageNavigates => IInv'
<1> SUFFICES ASSUME IInv, PageNavigates PROVE IInv'
  OBVIOUS
<1>1. TypeOK'
  BY NewDocument DEF IInv, PageNavigates, Starts, TypeOK
<1>2. FlagHasCause' /\ CalmLoad' /\ phase'[Main] # "none"
  BY NewDocument DEF IInv, PageNavigates, FlagHasCause, CalmLoad
<1> QED
  BY <1>1, <1>2 DEF IInv

LEMMA ChildAppearsKeeps ==
  ASSUME NEW f \in Children, IInv, ChildAppears(f)
  PROVE  IInv'
<1>1. f \in Frames /\ f # Main
  BY MainIsNoChild DEF Frames
<1>2. /\ phase' = [phase EXCEPT ![f] = "starting"]
      /\ UNCHANGED <<navigating, pc, queue, loads, orphaned>> /\ calm' = FALSE
  BY DEF ChildAppears
<1>3. TypeOK' /\ phase'[Main] # "none" /\ phase'[f] = "starting"
  <2>1. /\ phase' \in [Frames -> {"none", "starting", "loading", "idle"}]
        /\ phase'[f] = "starting" /\ phase'[Main] # "none"
    BY <1>1, <1>2 DEF IInv, TypeOK
  <2>2. TypeOK'
    BY <1>2, <2>1 DEF IInv, TypeOK
  <2> QED
    BY <2>1, <2>2
<1>4. FlagHasCause'
  <2>1. Loading(f)'
    BY <1>3 DEF Loading
  <2> QED
    BY <1>1, <2>1 DEF FlagHasCause
<1>5. CalmLoad'
  BY <1>2 DEF CalmLoad
<1> QED
  BY <1>3, <1>4, <1>5 DEF IInv

(* A frame that was idle takes no cause away; any other marks the history. *)
LEMMA ChildLeavesKeeps ==
  ASSUME NEW f \in Children, IInv, ChildLeaves(f)
  PROVE  IInv'
<1>1. f \in Frames /\ f # Main
  BY MainIsNoChild DEF Frames
<1>2. /\ TypeOK' /\ phase'[Main] = phase[Main] /\ phase'[f] = "none"
      /\ \A g \in Frames \ {f} : phase'[g] = phase[g]
  BY <1>1 DEF IInv, ChildLeaves, TypeOK
<1>3. FlagHasCause'
  <2> SUFFICES ASSUME LastFlag', ~orphaned' PROVE \E g \in Frames : Loading(g)'
    BY DEF FlagHasCause
  <2>1. LastFlag /\ ~orphaned /\ phase[f] = "idle"
    BY DEF ChildLeaves, LastFlag, IInv, TypeOK
  <2>2. PICK g \in Frames : Loading(g)
    BY <2>1 DEF IInv, FlagHasCause
  <2> QED
    BY <1>2, <2>1, <2>2 DEF Loading
<1>4. CalmLoad'
  <2>1. \A c \in Children : Loading(c)' => Loading(c)
    BY <1>2 DEF Loading, Frames
  <2> QED
    BY <1>2, <2>1 DEF IInv, CalmLoad, ChildLeaves
<1> QED
  BY <1>2, <1>3, <1>4 DEF IInv

LEMMA FrameCommitsKeeps ==
  ASSUME NEW f \in Frames, IInv, FrameCommits(f)
  PROVE  IInv'
<1> DEFINE e == [name |-> "init", frame |-> f]
<1>1. e \in Event /\ queue \in Seq(Event) /\ queue' = Append(queue, e)
  BY DEF IInv, TypeOK, FrameCommits, Emits, Event
<1>2. TypeOK' /\ phase'[Main] # "none" /\ phase'[f] = "loading"
  BY <1>1, AppendedEvent DEF IInv, TypeOK, FrameCommits, Emits, history, Frames
<1>3. FlagHasCause'
  BY <1>2 DEF FlagHasCause, Loading
<1>4. CalmLoad'
  <2> SUFFICES ASSUME calm, pc \in {"store", "wait"} PROVE CalmLoad'
    BY DEF CalmLoad, FrameCommits, Emits, history
  <2>1. f = Main /\ phase[Main] = "starting"
    BY DEF IInv, CalmLoad, Loading, FrameCommits, Emits, Frames
  <2>2. \A c \in Children : ~Loading(c)'
    BY <2>1, MainIsNoChild DEF IInv, CalmLoad, Loading, FrameCommits, Emits, TypeOK, Frames
  <2>3. pc' = "wait" => navigating'
    BY <2>1 DEF IInv, CalmLoad, FrameCommits, Emits
  <2>4. \A i \in 1..Len(queue) : queue[i].name = "init"
    BY <2>1 DEF IInv, CalmLoad
  <2>5. \A i \in 1..Len(queue') : queue'[i].name = "init"
    BY <1>1, <2>4, AppendedEvent
  <2> QED
    BY <2>2, <2>3, <2>5 DEF CalmLoad
<1> QED
  BY <1>2, <1>3, <1>4 DEF IInv

LEMMA FrameSettlesKeeps ==
  ASSUME NEW f \in Frames, IInv, FrameSettles(f)
  PROVE  IInv'
<1> DEFINE e == [name |-> "networkAlmostIdle", frame |-> f]
<1>1. e \in Event /\ queue \in Seq(Event) /\ queue' = Append(queue, e)
  BY DEF IInv, TypeOK, FrameSettles, Emits, Event
<1>2. TypeOK' /\ phase'[Main] # "none"
  BY <1>1, AppendedEvent DEF IInv, TypeOK, FrameSettles, Emits, history, Frames
<1>3. FlagHasCause'
  <2>1. queue' # <<>> /\ queue'[Len(queue')] = e
    BY <1>1, AppendedEvent
  <2> QED
    BY <2>1 DEF FlagHasCause, LastFlag
<1>4. CalmLoad'
  <2> SUFFICES ASSUME calm, pc \in {"store", "wait"} PROVE CalmLoad'
    BY DEF CalmLoad, FrameSettles, Emits, history
  <2>1. f = Main
    BY DEF IInv, CalmLoad, Loading, FrameSettles, Emits, Frames
  <2>2. phase'[Main] = "idle" /\ \A c \in Children : ~Loading(c)'
    BY <2>1, MainIsNoChild DEF IInv, CalmLoad, Loading, FrameSettles, Emits, TypeOK, Frames
  <2> QED
    BY <2>2 DEF CalmLoad
<1> QED
  BY <1>2, <1>3, <1>4 DEF IInv

LEMMA HandleLifecycleEventKeeps == IInv /\ HandleLifecycleEvent => IInv'
<1> SUFFICES ASSUME IInv, HandleLifecycleEvent PROVE IInv'
  OBVIOUS
<1>1. /\ queue \in Seq(Event) /\ queue # <<>> /\ queue' = Tail(queue)
      /\ navigating' = (Head(queue).name = "init")
      /\ UNCHANGED <<pc, loads, phase, calm, orphaned>>
  BY DEF IInv, TypeOK, HandleLifecycleEvent, FlagAfter, chromeVars, history
<1>2. TypeOK' /\ phase'[Main] # "none"
  BY <1>1, HandledEvent DEF IInv, TypeOK
<1>3. FlagHasCause'
  <2>1. LastFlag' = LastFlag
    BY <1>1, HandledEvent DEF LastFlag
  <2> QED
    BY <1>1, <2>1 DEF IInv, FlagHasCause, Loading
<1>4. CalmLoad'
  <2> SUFFICES ASSUME calm, pc \in {"store", "wait"} PROVE CalmLoad'
    BY <1>1 DEF CalmLoad
  <2>1. \A c \in Children : ~Loading(c)'
    BY <1>1 DEF IInv, CalmLoad, Loading
  <2>2. CASE phase[Main] = "idle"
    BY <1>1, <2>1, <2>2 DEF CalmLoad
  <2>3. CASE phase[Main] # "idle"
    <3>1. \A i \in 1..Len(queue) : queue[i].name = "init"
      BY <2>3 DEF IInv, CalmLoad
    <3>2. navigating'
      BY <1>1, <3>1, HandledEvent
    <3>3. \A i \in 1..Len(queue') : queue'[i].name = "init"
      BY <1>1, <3>1, HandledEvent
    <3> QED
      BY <2>1, <3>2, <3>3 DEF CalmLoad
  <2> QED
    BY <2>2, <2>3
<1> QED
  BY <1>2, <1>3, <1>4 DEF IInv

(* The tab is at rest, or the history says that it is not.                 *)
LEMMA NavigateToKeeps == IInv /\ NavigateTo => IInv'
<1> SUFFICES ASSUME IInv, NavigateTo PROVE IInv'
  OBVIOUS
<1>1. /\ pc' \in {"store", "idle"} /\ UNCHANGED <<navigating, queue>>
      /\ calm' = (NothingToCome /\ ~navigating)
  BY DEF NavigateTo
<1>2. CASE Starts
  <2>1. TypeOK'
    BY <1>1, <1>2, NewDocument DEF IInv, TypeOK, Starts
  <2>2. FlagHasCause' /\ phase'[Main] # "none"
    BY <1>2, NewDocument DEF IInv, FlagHasCause
  <2>3. CalmLoad'
    <3>1. calm' => queue' = <<>>
      BY <1>1 DEF NothingToCome
    <3>2. \A c \in Children : ~Loading(c)'
      BY <1>2, NewDocument DEF IInv, Loading
    <3>3. Len(<<>>) = 0
      OBVIOUS
    <3> QED
      BY <1>1, <3>1, <3>2, <3>3 DEF CalmLoad
  <2> QED
    BY <2>1, <2>2, <2>3 DEF IInv
<1>3. CASE UNCHANGED <<chromeVars, orphaned>>
  <2>1. TypeOK' /\ phase'[Main] # "none"
    BY <1>1, <1>3 DEF IInv, TypeOK, chromeVars
  <2>2. FlagHasCause'
    BY <1>1, <1>3 DEF IInv, FlagHasCause, LastFlag, Loading, chromeVars
  <2>3. CalmLoad'
    <3>1. calm' => \A f \in Frames : phase'[f] \in {"none", "idle"}
      BY <1>1, <1>3 DEF NothingToCome, ChromeIsIdle, chromeVars
    <3>2. Main \in Frames /\ Children \subseteq Frames
      BY DEF Frames
    <3> QED
      BY <2>1, <3>1, <3>2 DEF CalmLoad, Loading
  <2> QED
    BY <2>1, <2>2, <2>3 DEF IInv
<1> QED
  BY <1>2, <1>3 DEF NavigateTo

(* The store comes too late exactly when nothing is to come.               *)
LEMMA StoreNavigatingKeeps == IInv /\ StoreNavigating => IInv'
<1> SUFFICES ASSUME IInv, StoreNavigating PROVE IInv'
  OBVIOUS
<1>1. /\ navigating' = TRUE /\ pc' = "wait" /\ pc = "store"
      /\ orphaned' = (orphaned \/ NothingToCome)
      /\ UNCHANGED <<queue, loads, phase, calm>>
  BY DEF StoreNavigating, SetNavigating, chromeVars
<1>2. TypeOK' /\ phase'[Main] # "none"
  BY <1>1 DEF IInv, TypeOK
<1>3. FlagHasCause'
  <2> SUFFICES ASSUME LastFlag', ~orphaned' PROVE \E f \in Frames : Loading(f)'
    BY DEF FlagHasCause
  <2>1. ~orphaned /\ ~NothingToCome
    BY <1>1
  <2>2. CASE queue = <<>>
    BY <1>1, <2>1, <2>2 DEF NothingToCome, ChromeIsIdle, Loading, IInv, TypeOK
  <2>3. CASE queue # <<>>
    <3>1. LastFlag
      BY <1>1, <2>3 DEF LastFlag
    <3> QED
      BY <1>1, <2>1, <3>1 DEF IInv, FlagHasCause, Loading
  <2> QED
    BY <2>2, <2>3
<1>4. CalmLoad'
  BY <1>1 DEF IInv, CalmLoad, Loading
<1> QED
  BY <1>2, <1>3, <1>4 DEF IInv

LEMMA OthersKeep == IInv /\ (WaitUntilNavigated \/ GoesOn \/ UNCHANGED vars) => IInv'
<1> SUFFICES ASSUME IInv, WaitUntilNavigated \/ GoesOn \/ UNCHANGED vars PROVE IInv'
  OBVIOUS
<1>1. /\ UNCHANGED <<navigating, queue, loads, phase, calm, orphaned>>
      /\ pc' \in {"idle", "returned"} \/ pc' = pc
  BY DEF WaitUntilNavigated, GoesOn, vars, chromeVars, history
<1>2. TypeOK' /\ phase'[Main] # "none"
  BY <1>1 DEF IInv, TypeOK
<1>3. FlagHasCause' /\ CalmLoad'
  BY <1>1 DEF IInv, FlagHasCause, LastFlag, CalmLoad, Loading
<1> QED
  BY <1>2, <1>3 DEF IInv

LEMMA StepKeeps == IInv /\ [Next]_vars => IInv'
<1> SUFFICES ASSUME IInv, [Next]_vars PROVE IInv'
  OBVIOUS
<1>1. CASE PageNavigates
  BY <1>1, PageNavigatesKeeps
<1>2. CASE \E f \in Children : ChildAppears(f) \/ ChildLeaves(f)
  BY <1>2, ChildAppearsKeeps, ChildLeavesKeeps
<1>3. CASE \E f \in Frames : FrameCommits(f) \/ FrameSettles(f)
  BY <1>3, FrameCommitsKeeps, FrameSettlesKeeps
<1>4. CASE HandleLifecycleEvent
  BY <1>4, HandleLifecycleEventKeeps
<1>5. CASE NavigateTo
  BY <1>5, NavigateToKeeps
<1>6. CASE StoreNavigating
  BY <1>6, StoreNavigatingKeeps
<1>7. CASE WaitUntilNavigated \/ GoesOn \/ UNCHANGED vars
  BY <1>7, OthersKeep
<1> QED
  BY <1>1, <1>2, <1>3, <1>4, <1>5, <1>6, <1>7 DEF Next

LEMMA Invariance == Spec => []IInv
BY InitHolds, StepKeeps, PTL DEF Spec

-----------------------------------------------------------------------------

(* Every variable keeps its type.                                          *)
THEOREM TypesHold == Spec => []TypeOK
<1>1. IInv => TypeOK
  BY DEF IInv
<1> QED
  BY <1>1, Invariance, PTL

(* For any number of frames, loads and events on their way, the flag that  *)
(* wait_until_navigated polls is clear when everything has been handled.   *)
THEOREM FlagIsCleared == Spec => []FlagSettles
<1>1. IInv => FlagSettles
  BY DEF IInv, FlagHasCause, LastFlag, Loading, FlagSettles, NothingToCome, ChromeIsIdle
<1> QED
  BY <1>1, Invariance, PTL

(* An undisturbed navigate_to and wait_until_navigated returns after the   *)
(* main frame is idle, and not before.                                     *)
THEOREM WaitsForLoad == Spec => CalmWaitSeesLoad
<1>1. IInv /\ [Next]_vars =>
        [pc = "wait" /\ pc' = "returned" /\ calm => phase[Main] = "idle"]_vars
  <2> SUFFICES ASSUME IInv, Next, pc = "wait", pc' = "returned", calm
               PROVE  phase[Main] = "idle"
    OBVIOUS
  <2>1. ~navigating
    BY DEF Next, PageNavigates, ChildAppears, ChildLeaves, FrameCommits, FrameSettles,
           Emits, HandleLifecycleEvent, NavigateTo, StoreNavigating,
           WaitUntilNavigated, GoesOn
  <2> QED
    BY <2>1 DEF IInv, CalmLoad
<1> QED
  BY <1>1, Invariance, PTL DEF Spec, CalmWaitSeesLoad
=============================================================================
