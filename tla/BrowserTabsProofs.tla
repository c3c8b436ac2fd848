------------------------- MODULE BrowserTabsProofs -------------------------
(***************************************************************************)
(* Theorems about BrowserTabs: for any number of targets, of threads that  *)
(* open tabs or register the missing ones, and of changes.                 *)
(***************************************************************************)
EXTENDS BrowserTabs, SequenceTheorems, FiniteSetTheorems, WellFoundedInduction,
        TLAPS

-----------------------------------------------------------------------------
(* The invariant.  An event about t, a tab of t, one that is being made.   *)
Begins(e, t) == e.type = "created" /\ e.info.target = t
Tells(e, t) == e.type # "destroyed" /\ e.info.target = t
TellsUrl(e, t, v) == Tells(e, t) /\ e.info.url = v
Ends(e, t) == e.type = "destroyed" /\ e.target = t

TabFor(t) == \E i \in DOMAIN tabs : tabs[i].target = t
Making == evt \in {"enable", "push"}
MakesTabOf(t) == Making /\ fresh.target = t

BeginsSoon(t) == \E i \in DOMAIN events : Begins(events[i], t)
TellsOf(t, v) == \E i \in DOMAIN events : TellsUrl(events[i], t, v)
TellsLater(i, t, v) == \E j \in DOMAIN events : j > i /\ TellsUrl(events[j], t, v)
EndsSoon(t) == \E i \in DOMAIN events : Ends(events[i], t)

(* The list belongs to the event thread alone.                             *)
Quiet == \A r \in Registrars : pc[r] = "idle"

Types ==
  /\ TypeOK /\ IsFiniteSet(live)
  /\ Making => fresh \in Info
  /\ \A r \in Registrars : pc[r] = "enable" => missing[r] # <<>>

(* The thread that ends drops its receiver, and what that still held.      *)
NoReaderNoEvents == EvtEnded => events = <<>>

(* What is in the channel of a target: its beginning first, then each url  *)
(* it got up to its present one, and its end only if it is gone for good.  *)
TrueEvent(i, t) ==
  /\ Ends(events[i], t) => t \in opened /\ t \notin live
  /\ Tells(events[i], t) =>
       /\ t \in opened
       /\ events[i].info.url \in 0..url[t]
       /\ \A v \in (events[i].info.url + 1)..url[t] : TellsLater(i, t, v)
       /\ \A j \in DOMAIN events : j > i => ~Begins(events[j], t)

EventsAreTrue == \A i \in DOMAIN events : \A t \in Targets : TrueEvent(i, t)

(* What is known of a target that has got a tab, or is about to: the urls  *)
(* it has had since are on their way, or passed over.                      *)
IsTrue(t, u) ==
  /\ t \in Pages /\ t \in opened
  /\ ~BeginsSoon(t)
  /\ u \in 0..url[t]
  /\ \A v \in (u + 1)..url[t] : <<t, v>> \in DevtoolsUrls \/ TellsOf(t, v)
  /\ t \in live \/ EndsSoon(t)

FreshIsTrue == Making => IsTrue(fresh.target, fresh.url)

TabsAreTrue ==
  Quiet /\ ~EvtEnded =>
    /\ \A i \in DOMAIN tabs :
         IsTrue(tabs[i].target, tabs[i].url) /\ ~MakesTabOf(tabs[i].target)
    /\ \A i, j \in DOMAIN tabs : tabs[i].target = tabs[j].target => i = j

(* Every page has a tab or gets one.                                       *)
Coming(t) == TabFor(t) \/ MakesTabOf(t) \/ BeginsSoon(t)

PagesAreComing ==
  conn = "up" /\ ~EvtEnded => \A t \in live \cap Pages : Coming(t)

OpenersWantPages == \A o \in Openers : pc[o] = "poll" => wanted[o] \in Pages

ListInv ==
  /\ Types /\ NoReaderNoEvents /\ EventsAreTrue /\ FreshIsTrue /\ TabsAreTrue
  /\ PagesAreComing /\ OpenersWantPages

(* Without an expiring wait, a failed GetTargets is an ended connection.   *)
PoisonInv ==
  ~WaitsExpire =>
    /\ lock = "poisoned" \/ evt = "panicked" => conn = "down"
    /\ \A k \in Threads : pc[k] \in {"failed", "panicked"} => conn = "down"

-----------------------------------------------------------------------------
(* Sequences: where a target is first, and the list without, with, and     *)
(* with more of it.                                                        *)
LEMMA LeastNumber ==
  ASSUME NEW S, S \subseteq Nat, S # {}
  PROVE  \E x \in S : \A y \in S : x <= y
<1>1. PICK x \in S : \A y \in S : ~ (<<y, x>> \in OpToRel(<, Nat))
  BY NatLessThanWellFounded, WFMin
<1>2. \A y \in S : ~(y < x) /\ y \in Nat /\ x \in Nat
  BY <1>1 DEF OpToRel
<1>3. \A y \in S : x <= y
  BY <1>2
<1> QED
  BY <1>3

FirstWith(s, t) == SelectInSeq(s, LAMBDA tab : tab.target = t)
Without(s, t) == RemoveFirstMatch(s, LAMBDA tab : tab.target = t)

LEMMA FirstIsFirst ==
  ASSUME NEW s, Len(s) \in Nat, NEW t
  PROVE  \/ /\ \A i \in 1..Len(s) : s[i].target # t
            /\ FirstWith(s, t) = 0
         \/ /\ FirstWith(s, t) \in 1..Len(s)
            /\ s[FirstWith(s, t)].target = t
            /\ \A i \in 1..Len(s) : s[i].target = t => FirstWith(s, t) <= i
<1> DEFINE I == {i \in 1..Len(s) : s[i].target = t}
<1>1. FirstWith(s, t) = IF I # {} THEN Min(I) ELSE 0
  BY DEF FirstWith, SelectInSeq
<1>2. I # {} => Min(I) \in I /\ \A i \in I : Min(I) <= i
  <2>1. I \subseteq Nat
    OBVIOUS
  <2> HIDE DEF I
  <2> QED
    BY <2>1, LeastNumber DEF Min
<1>3. CASE I = {}
  BY <1>1, <1>3
<1>4. CASE I # {}
  <2>1. FirstWith(s, t) \in I /\ \A i \in I : FirstWith(s, t) <= i
    BY <1>1, <1>2, <1>4
  <2> QED
    BY <2>1
<1> QED
  BY <1>3, <1>4

LEMMA PositionIsFirst ==
  ASSUME NEW t
  PROVE  Position(t) = FirstWith(tabs, t)
BY DEF FirstWith, Position

(* RemoveFirstMatch takes one element out.                                 *)
LEMMA TakenOut ==
  ASSUME NEW s \in Seq(Tab), NEW t
  PROVE  /\ Without(s, t) \in Seq(Tab)
         /\ \/ /\ Without(s, t) = s
               /\ \A i \in 1..Len(s) : s[i].target # t
            \/ \E k \in 1..Len(s) :
                 /\ s[k].target = t
                 /\ Len(Without(s, t)) = Len(s) - 1
                 /\ \A i \in 1..Len(s) - 1 :
                      Without(s, t)[i] = IF i < k THEN s[i] ELSE s[i + 1]
<1>1. Without(s, t) = IF \E i \in 1..Len(s) : s[i].target = t
                      THEN RemoveAt(s, FirstWith(s, t)) ELSE s
  BY DEF FirstWith, Without, RemoveFirstMatch
<1>2. CASE \A i \in 1..Len(s) : s[i].target # t
  BY <1>1, <1>2
<1>3. CASE ~ \A i \in 1..Len(s) : s[i].target # t
  <2> DEFINE k == FirstWith(s, t)
             a == SubSeq(s, 1, k - 1)
             b == SubSeq(s, k + 1, Len(s))
  <2>1. k \in 1..Len(s) /\ s[k].target = t /\ Len(s) \in Nat
    BY <1>3, FirstIsFirst, LenProperties
  <2>2. Without(s, t) = a \o b
    BY <1>1, <1>3 DEF RemoveAt
  <2> HIDE DEF k
  <2>3. /\ a \in Seq(Tab) /\ Len(a) = k - 1
        /\ \A i \in 1..k - 1 : a[i] = s[i]
    BY <2>1, SubSeqProperties, ElementOfSeq
  <2>4. /\ b \in Seq(Tab) /\ Len(b) = Len(s) - k
        /\ \A i \in 1..Len(s) - k : b[i] = s[k + i]
    <3>1. \A i \in k + 1..Len(s) : s[i] \in Tab
      BY <2>1, ElementOfSeq
    <3> QED
      BY <2>1, <3>1, SubSeqProperties
  <2> HIDE DEF a, b
  <2>5. /\ a \o b \in Seq(Tab) /\ Len(a \o b) = Len(a) + Len(b)
        /\ \A i \in 1..Len(a) + Len(b) :
             (a \o b)[i] = IF i <= Len(a) THEN a[i] ELSE b[i - Len(a)]
    BY <2>3, <2>4, ConcatProperties
  <2>6. Len(a \o b) = Len(s) - 1
    BY <2>1, <2>3, <2>4, <2>5
  <2>7. ASSUME NEW i \in 1..Len(s) - 1
        PROVE  (a \o b)[i] = IF i < k THEN s[i] ELSE s[i + 1]
    <3>1. CASE i < k
      BY <2>1, <2>3, <2>4, <2>5, <3>1
    <3>2. CASE ~(i < k)
      <4>1. (a \o b)[i] = b[i - (k - 1)]
        BY <2>1, <2>3, <2>4, <2>5, <3>2
      <4>2. i - (k - 1) \in 1..Len(s) - k /\ k + (i - (k - 1)) = i + 1
        BY <2>1, <3>2
      <4>3. b[i - (k - 1)] = s[k + (i - (k - 1))]
        BY <2>4, <4>2
      <4> QED
        BY <3>2, <4>1, <4>2, <4>3
    <3> QED
      BY <3>1, <3>2
  <2> QED
    BY <2>1, <2>2, <2>5, <2>6, <2>7
<1> QED
  BY <1>2, <1>3

(* WithTab leaves all that was in the list there.                          *)
LEMMA PutIn ==
  ASSUME tabs \in Seq(Tab), NEW tab \in Tab, NEW prev
  PROVE  /\ WithTab(tab, prev) \in Seq(Tab)
         /\ \A i \in DOMAIN tabs : \E j \in DOMAIN WithTab(tab, prev) :
              WithTab(tab, prev)[j] = tabs[i]
<1>0. Len(tabs) \in Nat /\ DOMAIN tabs = 1..Len(tabs)
  BY LenProperties
<1>1. CASE Listed(prev)
  <2> DEFINE k == Position(prev)
             a == SubSeq(tabs, 1, k - 1)
             c == SubSeq(tabs, k, Len(tabs))
             b == a \o <<tab>>
             r == b \o c
  <2>1. k \in 1..Len(tabs)
    BY <1>0, <1>1, FirstIsFirst, PositionIsFirst DEF Listed
  <2>2. WithTab(tab, prev) = r
    BY <1>1 DEF WithTab, InsertAt
  <2> HIDE DEF k
  <2>3. /\ a \in Seq(Tab) /\ Len(a) = k - 1
        /\ \A i \in 1..k - 1 : a[i] = tabs[i]
    <3>1. \A i \in 1..k - 1 : tabs[i] \in Tab
      BY <1>0, <2>1, ElementOfSeq
    <3> QED
      BY <1>0, <2>1, <3>1, SubSeqProperties
  <2>4. /\ c \in Seq(Tab) /\ Len(c) = Len(tabs) - k + 1
        /\ \A i \in 1..Len(tabs) - k + 1 : c[i] = tabs[k + i - 1]
    <3>1. \A i \in k..Len(tabs) : tabs[i] \in Tab
      BY <1>0, <2>1, ElementOfSeq
    <3> QED
      BY <1>0, <2>1, <3>1, SubSeqProperties
  <2> HIDE DEF a, c
  <2>5. /\ b \in Seq(Tab) /\ Len(b) = k
        /\ \A i \in 1..k - 1 : b[i] = tabs[i]
    <3>1. <<tab>> \in Seq(Tab) /\ Len(<<tab>>) = 1
      OBVIOUS
    <3>2. /\ b \in Seq(Tab) /\ Len(b) = Len(a) + 1
          /\ \A i \in 1..Len(a) + 1 :
               b[i] = IF i <= Len(a) THEN a[i] ELSE <<tab>>[i - Len(a)]
      BY <2>3, <3>1, ConcatProperties
    <3> QED
      BY <2>1, <2>3, <3>2
  <2> HIDE DEF b
  <2>6. /\ r \in Seq(Tab) /\ Len(r) = Len(b) + Len(c)
        /\ \A i \in 1..Len(b) + Len(c) :
             r[i] = IF i <= Len(b) THEN b[i] ELSE c[i - Len(b)]
    BY <2>4, <2>5, ConcatProperties
  <2> HIDE DEF r
  <2>7. ASSUME NEW i \in DOMAIN tabs
        PROVE  \E j \in DOMAIN r : r[j] = tabs[i]
    <3>1. DOMAIN r = 1..Len(tabs) + 1
      BY <1>0, <2>1, <2>4, <2>5, <2>6, LenProperties
    <3>2. CASE i < k
      <4>1. r[i] = tabs[i]
        BY <1>0, <2>1, <2>4, <2>5, <2>6, <3>2
      <4> QED
        BY <1>0, <3>1, <4>1
    <3>3. CASE ~(i < k)
      <4>1. r[i + 1] = c[i + 1 - k]
        BY <1>0, <2>1, <2>4, <2>5, <2>6, <3>3
      <4>2. c[i + 1 - k] = tabs[k + (i + 1 - k) - 1]
        BY <1>0, <2>1, <2>4, <3>3
      <4>3. r[i + 1] = tabs[i]
        BY <1>0, <2>1, <3>3, <4>1, <4>2
      <4> QED
        BY <1>0, <3>1, <4>3
    <3> QED
      BY <3>2, <3>3
  <2> QED
    BY <2>2, <2>6, <2>7
<1>2. CASE ~Listed(prev)
  <2>1. WithTab(tab, prev) = Append(tabs, tab)
    BY <1>2 DEF WithTab
  <2>2. ASSUME NEW i \in DOMAIN tabs
        PROVE  i \in DOMAIN Append(tabs, tab) /\ Append(tabs, tab)[i] = tabs[i]
    BY <1>0
  <2> QED
    BY <2>1, <2>2
<1> QED
  BY <1>1, <1>2

(* update_target_info changes the url of one tab.                          *)
LEMMA Updated ==
  ASSUME tabs \in Seq(Tab), NEW info \in Info
  PROVE  /\ WithChange(info) \in Seq(Tab)
         /\ DOMAIN WithChange(info) = DOMAIN tabs
         /\ \A i \in DOMAIN tabs :
              /\ WithChange(info)[i].target = tabs[i].target
              /\ \/ WithChange(info)[i] = tabs[i]
                 \/ tabs[i].target = info.target /\ WithChange(info)[i].url = info.url
         /\ TabFor(info.target) => \E i \in DOMAIN tabs :
              tabs[i].target = info.target /\ WithChange(info)[i].url = info.url
<1>0. Len(tabs) \in Nat /\ DOMAIN tabs = 1..Len(tabs)
  BY LenProperties
<1>1. CASE Listed(info.target)
  <2> DEFINE k == Position(info.target)
  <2>1. k \in 1..Len(tabs) /\ tabs[k].target = info.target
    BY <1>0, <1>1, FirstIsFirst, PositionIsFirst DEF Listed
  <2>2. WithChange(info) = [tabs EXCEPT ![k].url = info.url]
    BY <1>1 DEF WithChange
  <2> HIDE DEF k
  <2>3. tabs[k] \in Tab /\ [tabs[k] EXCEPT !.url = info.url] \in Tab
    <3>1. tabs[k] \in Tab
      BY <2>1, ElementOfSeq
    <3>2. info.url \in 0..MaxChanges
      BY DEF Info
    <3> QED
      BY <3>1, <3>2 DEF Tab
  <2>4. [tabs EXCEPT ![k].url = info.url] = [tabs EXCEPT ![k] = [tabs[k] EXCEPT !.url = info.url]]
    BY <1>0, <2>1
  <2>5. /\ WithChange(info) \in Seq(Tab)
        /\ DOMAIN WithChange(info) = DOMAIN tabs
        /\ \A i \in DOMAIN tabs : WithChange(info)[i] =
             IF i = k THEN [tabs[k] EXCEPT !.url = info.url] ELSE tabs[i]
    BY <1>0, <2>1, <2>2, <2>3, <2>4, ExceptSeq, LenProperties
  <2>6. [tabs[k] EXCEPT !.url = info.url].target = tabs[k].target
    BY <2>3 DEF Tab
  <2>7. [tabs[k] EXCEPT !.url = info.url].url = info.url
    BY <2>3 DEF Tab
  <2> QED
    BY <1>0, <2>1, <2>5, <2>6, <2>7
<1>2. CASE ~Listed(info.target)
  <2>1. \A i \in DOMAIN tabs : tabs[i].target # info.target
    BY <1>0, <1>2, FirstIsFirst, PositionIsFirst DEF Listed
  <2>2. WithChange(info) = tabs
    BY <1>2 DEF WithChange
  <2> QED
    BY <2>1, <2>2 DEF TabFor
<1> QED
  BY <1>1, <1>2

-----------------------------------------------------------------------------
(* Types.                                                                  *)
LEMMA HeadAndTail ==
  ASSUME NEW S, NEW s \in Seq(S), s # <<>>
  PROVE  /\ Head(s) \in S /\ Head(s) = s[1]
         /\ Tail(s) \in Seq(S) /\ Len(s) \in Nat \ {0}
         /\ DOMAIN s = 1..Len(s) /\ DOMAIN Tail(s) = 1..Len(s) - 1
         /\ \A i \in 1..Len(s) - 1 : Tail(s)[i] = s[i + 1]
<1>1. Head(s) = s[1]
  OBVIOUS
<1> QED
  BY <1>1, HeadTailProperties, EmptySeq, LenProperties

LEMMA InfoIsInfo ==
  ASSUME TypeOK, NEW t \in Targets
  PROVE  InfoOf(t) \in Info /\ InfoOf(t).target = t /\ InfoOf(t).url = url[t]
BY DEF TypeOK, InfoOf, Info

LEMMA TabIsTab ==
  ASSUME NEW info \in Info
  PROVE  /\ TabOf(info) \in Tab
         /\ TabOf(info).target = info.target /\ TabOf(info).url = info.url
BY DEF TabOf, Tab, Info

LEMMA EventFields ==
  ASSUME NEW e \in Event
  PROVE  /\ e.type \in {"created", "changed"} => e.info \in Info
         /\ e.type = "destroyed" => e.target \in Targets
         /\ e.type \in {"created", "changed", "destroyed"}
BY DEF Event

LEMMA AnnounceTypes ==
  ASSUME TypeOK, NEW e \in Event, Announce(e)
  PROVE  events' \in Seq(Event) /\ conn' \in {"up", "down"}
<1>1. CASE ~EvtEnded /\ events' = Append(events, e) /\ UNCHANGED conn
  BY <1>1 DEF TypeOK
<1>2. CASE EvtEnded /\ conn' = "down" /\ UNCHANGED events
  BY <1>2 DEF TypeOK
<1> QED
  BY <1>1, <1>2 DEF Announce

LEMMA OpensTypes ==
  ASSUME Types, NEW t \in Targets, Opens(t)
  PROVE  /\ live' \subseteq opened' /\ opened' \subseteq Targets
         /\ IsFiniteSet(live')
         /\ url' = url /\ attached' = attached /\ attached' \subseteq opened'
         /\ events' \in Seq(Event) /\ conn' \in {"up", "down"}
         /\ UNCHANGED <<stop, evt, fresh, tabs, lock>>
<1>1. [type |-> "created", info |-> InfoOf(t)] \in Event
  BY InfoIsInfo DEF Event, Types
<1>2. events' \in Seq(Event) /\ conn' \in {"up", "down"}
  BY <1>1, AnnounceTypes DEF Opens, Types
<1>3. IsFiniteSet(live')
  BY FS_AddElement DEF Opens, Types
<1> QED
  BY <1>2, <1>3 DEF Opens, Types, TypeOK, NotChrome, evtVars, listVars

LEMMA AttachesTypes ==
  ASSUME TypeOK, NEW t, NEW ok, Attaches(t, ok)
  PROVE  attached' \subseteq opened
BY DEF TypeOK, Attaches

LEMMA TypesKept ==
  ASSUME Types, [Next]_vars
  PROVE  Types'
<1> USE DEF Types, Making
<1>0. <<>> \in Seq(Event)
  BY EmptySeq
<1>1. ASSUME NEW t \in Targets, TargetOpens(t)
      PROVE  Types'
  BY <1>1, OpensTypes DEF TypeOK, TargetOpens, threadVars
<1>2. ASSUME NEW t \in Targets, TargetCloses(t)
      PROVE  Types'
  <2>1. [type |-> "destroyed", target |-> t] \in Event
    BY DEF Event
  <2>2. events' \in Seq(Event) /\ conn' \in {"up", "down"}
    BY <1>2, <2>1, AnnounceTypes DEF TargetCloses
  <2>3. IsFiniteSet(live')
    BY <1>2, FS_RemoveElement DEF TargetCloses
  <2> QED
    BY <1>2, <2>2, <2>3
    DEF TypeOK, TargetCloses, NotChrome, evtVars, listVars, threadVars
<1>3. ASSUME NEW t \in Targets, TargetChanges(t)
      PROVE  Types'
  <2>1. url[t] \in 0..MaxChanges /\ url[t] + 1 \in 0..MaxChanges
    BY <1>3, BoundIsNat DEF TypeOK, TargetChanges
  <2>2. [InfoOf(t) EXCEPT !.url = @ + 1] \in Info
    BY <2>1, InfoIsInfo DEF Info
  <2>3. [type |-> "changed", info |-> [InfoOf(t) EXCEPT !.url = @ + 1]] \in Event
    BY <2>2 DEF Event
  <2>4. events' \in Seq(Event) /\ conn' \in {"up", "down"}
    BY <1>3, <2>3, AnnounceTypes DEF TargetChanges
  <2>5. url' \in [Targets -> 0..MaxChanges]
    BY <1>3, <2>1 DEF TypeOK, TargetChanges
  <2> QED
    BY <1>3, <2>4, <2>5
    DEF TypeOK, TargetChanges, NotChrome, evtVars, listVars, threadVars
<1>4. CASE ConnectionEnds
  BY <1>4 DEF TypeOK, ConnectionEnds, NotChrome, chromeVars, evtVars, listVars, threadVars
<1>5. CASE EvtChecksShutdown
  BY <1>0, <1>5 DEF TypeOK, EvtChecksShutdown, EvtEnds, NotEvt, listVars, threadVars
<1>6. CASE EvtHearsNothing
  BY <1>0, <1>6 DEF TypeOK, EvtHearsNothing, EvtEnds, NotEvt, listVars, threadVars
<1>7. CASE EvtTargetCreated
  <2>1. /\ Head(events) \in Event /\ Tail(events) \in Seq(Event)
        /\ Head(events).info \in Info
    BY <1>7, HeadAndTail, EventFields DEF TypeOK, EvtTargetCreated, Takes
  <2>2. attached' \subseteq opened
    BY <1>7, AttachesTypes DEF TypeOK, EvtTargetCreated
  <2>3. /\ events' \in Seq(Event) /\ fresh' \in Info \cup {None}
        /\ evt' \in {"check", "enable", "done"}
        /\ evt' = "enable" => fresh' \in Info
    BY <1>0, <1>7, <2>1 DEF TypeOK, EvtTargetCreated, EvtEnds
  <2> QED
    BY <1>7, <2>2, <2>3 DEF TypeOK, EvtTargetCreated, NotEvt, listVars, threadVars
<1>8. CASE EvtEnablesTab
  BY <1>0, <1>8 DEF TypeOK, EvtEnablesTab, EvtEnds, NotEvt, listVars, threadVars
<1>9. CASE EvtPushesTab
  <2>1. tabs' \in Seq(Tab)
    BY <1>9, TabIsTab DEF TypeOK, EvtPushesTab
  <2> QED
    BY <1>9, <2>1 DEF TypeOK, EvtPushesTab, NotEvt, threadVars
<1>10. CASE EvtTargetInfoChanged
  <2>1. /\ Head(events) \in Event /\ Tail(events) \in Seq(Event)
        /\ Head(events).info \in Info
    BY <1>10, HeadAndTail, EventFields DEF TypeOK, EvtTargetInfoChanged, Takes
  <2>2. tabs' \in Seq(Tab)
    BY <1>10, <2>1, Updated DEF TypeOK, EvtTargetInfoChanged
  <2> QED
    BY <1>10, <2>1, <2>2 DEF TypeOK, EvtTargetInfoChanged, NotEvt, threadVars
<1>11. CASE EvtTargetDestroyed
  <2>1. Tail(events) \in Seq(Event)
    BY <1>11, HeadAndTail DEF TypeOK, EvtTargetDestroyed, Takes
  <2>2. tabs' = Without(tabs, Head(events).target)
    BY <1>11 DEF EvtTargetDestroyed, Without
  <2>3. tabs' \in Seq(Tab)
    BY <2>2, TakenOut DEF TypeOK
  <2> QED
    BY <1>11, <2>1, <2>3 DEF TypeOK, EvtTargetDestroyed, NotEvt, threadVars
<1>12. CASE EvtPanics
  BY <1>0, <1>12 DEF TypeOK, EvtPanics, EvtEnds, NotEvt, listVars, threadVars
<1>13. ASSUME NEW o \in Openers, NewTab(o)
       PROVE  Types'
  <2>1. CASE \E t \in Pages : Opens(t) /\ wanted' = [wanted EXCEPT ![o] = t]
                            /\ Goto(o, "poll") /\ UNCHANGED <<missing, previous>>
    <3>1. PICK t \in Pages : Opens(t) /\ wanted' = [wanted EXCEPT ![o] = t]
                            /\ Goto(o, "poll") /\ UNCHANGED <<missing, previous>>
      BY <2>1
    <3>2. t \in Targets
      BY DEF Targets
    <3>3. wanted' \in [Openers -> Targets \cup {None}]
      BY <3>1, <3>2 DEF TypeOK
    <3>4. \A r \in Registrars : r # o /\ pc'[r] = pc[r]
      BY <3>1, RolesAreDisjoint DEF TypeOK, Goto, Threads
    <3> QED
      BY <3>1, <3>2, <3>3, <3>4, OpensTypes DEF TypeOK, Goto, Working, Threads
  <2>2. CASE conn = "down" /\ Goto(o, "done")
             /\ UNCHANGED <<chromeVars, conn, events, listVars, wanted, missing, previous>>
             /\ NotThread
    <3>1. \A r \in Registrars : r # o /\ pc'[r] = pc[r]
      BY <2>2, RolesAreDisjoint DEF TypeOK, Goto, Threads
    <3> QED
      BY <2>2, <3>1 DEF TypeOK, Goto, NotThread, Working, Threads, chromeVars, evtVars, listVars
  <2> QED
    BY <1>13, <2>1, <2>2 DEF NewTab
<1>14. ASSUME NEW o \in Openers, NewTabPolls(o)
       PROVE  Types'
  <2>1. \A r \in Registrars : r # o /\ pc'[r] = pc[r]
    BY <1>14, RolesAreDisjoint DEF TypeOK, NewTabPolls, Goto, Threads
  <2> QED
    BY <1>14, <2>1 DEF TypeOK, NewTabPolls, Goto, NotThread, Working, Threads,
                       chromeVars, evtVars, listVars
<1>15. ASSUME NEW r \in Registrars, ListTargets(r)
       PROVE  Types'
  <2>1. ASSUME NEW order \in SetToSeqs(live)
        PROVE  [i \in DOMAIN order |-> InfoOf(order[i])] \in Seq(Info)
    <3>1. Cardinality(live) \in Nat
      BY FS_CardinalityType
    <3>2. order \in [1..Cardinality(live) -> live]
      BY DEF SetToSeqs
    <3>3. \A i \in 1..Cardinality(live) : InfoOf(order[i]) \in Info
      BY <3>2, InfoIsInfo DEF TypeOK
    <3>4. [i \in 1..Cardinality(live) |-> InfoOf(order[i])]
            \in [1..Cardinality(live) -> Info]
      BY <3>3
    <3> QED
      BY <3>1, <3>2, <3>4, SeqDef
  <2>2. missing' \in [Registrars -> Seq(Info)]
    BY <1>15, <2>1 DEF TypeOK, ListTargets
  <2> QED
    BY <1>15, <2>2 DEF TypeOK, ListTargets, Goto, NotThread, Working, Threads,
                       chromeVars, evtVars, listVars
<1>16. ASSUME NEW r \in Registrars, LockTabs(r)
       PROVE  Types'
  BY <1>16, LockNames DEF TypeOK, LockTabs, Goto, NotThread, Working, Threads,
                          chromeVars, evtVars
<1>17. ASSUME NEW r \in Registrars, missing[r] # <<>>, NextTarget(r)
       PROVE  /\ previous' \in [Registrars -> Targets \cup {None}]
              /\ missing' \in [Registrars -> Seq(Info)]
  <2>1. /\ Head(missing[r]) \in Info /\ Tail(missing[r]) \in Seq(Info)
    BY <1>17, HeadAndTail DEF TypeOK
  <2> QED
    BY <1>17, <2>1 DEF TypeOK, NextTarget, Info
<1>18. ASSUME NEW r \in Registrars, RegisterTarget(r)
       PROVE  Types'
  <2>1. /\ previous' \in [Registrars -> Targets \cup {None}]
        /\ missing' \in [Registrars -> Seq(Info)]
    BY <1>17, <1>18 DEF TypeOK, RegisterTarget, TabFails
  <2>2. attached' \subseteq opened
    BY <1>18, AttachesTypes DEF TypeOK, RegisterTarget
  <2> QED
    BY <1>18, <2>1, <2>2 DEF TypeOK, RegisterTarget, TabFails, Goto, NotThread,
                             Working, Threads, evtVars
<1>19. ASSUME NEW r \in Registrars, EnableMissingTab(r)
       PROVE  Types'
  <2>1. /\ previous' \in [Registrars -> Targets \cup {None}]
        /\ missing' \in [Registrars -> Seq(Info)]
    BY <1>17, <1>19 DEF TypeOK, EnableMissingTab, TabFails
  <2>2. tabs' \in Seq(Tab)
    <3>1. Head(missing[r]) \in Info
      BY <1>19, HeadAndTail DEF TypeOK, EnableMissingTab
    <3> QED
      <4>1. TabOf(Head(missing[r])) \in Tab
        BY <3>1, TabIsTab
      <4>2. UNCHANGED tabs \/ tabs' = WithTab(TabOf(Head(missing[r])), previous[r])
        BY <1>19 DEF EnableMissingTab
      <4>3. tabs \in Seq(Tab)
        BY DEF TypeOK
      <4> QED
        BY <4>1, <4>2, <4>3, PutIn
  <2> QED
    BY <1>19, <2>1, <2>2 DEF TypeOK, EnableMissingTab, TabFails, Goto, NotThread,
                             Working, Threads, chromeVars, evtVars
<1>20. ASSUME NEW r \in Registrars, UnlockTabs(r)
       PROVE  Types'
  BY <1>20, LockNames DEF TypeOK, UnlockTabs, Goto, NotThread, Working, Threads,
                          chromeVars, evtVars
<1>21. CASE DropBrowser
  BY <1>21 DEF TypeOK, DropBrowser, chromeVars, evtVars, listVars, threadVars
<1>22. CASE UNCHANGED vars
  BY <1>22 DEF TypeOK, vars, chromeVars, evtVars, listVars, threadVars
<1> QED
  BY <1>1, <1>2, <1>3, <1>4, <1>5, <1>6, <1>7, <1>8, <1>9, <1>10, <1>11, <1>12,
     <1>13, <1>14, <1>15, <1>16, <1>18, <1>19, <1>20, <1>21, <1>22
  DEF Next, EvtStep, RegistrarStep

-----------------------------------------------------------------------------
(* What the steps do to targets, events and list.                          *)

(* Neither Chrome nor the event thread moves, or the latter as little as   *)
(* from one check to the next.  A registrar may add tabs.                  *)
Silent ==
  /\ UNCHANGED <<live, opened, url, events, fresh>>
  /\ Making' <=> Making
  /\ EvtEnded' <=> EvtEnded
  /\ conn' = "up" => conn = "up"
  /\ Quiet' => UNCHANGED tabs
  /\ \A i \in DOMAIN tabs : \E j \in DOMAIN tabs' : tabs'[j] = tabs[i]

(* The event thread ends, or has ended.                                    *)
Leaves == evt' \in {"done", "panicked"} /\ events' = <<>>

Hears(e) ==
  /\ ~EvtEnded /\ events' = Append(events, e)
  /\ UNCHANGED <<evt, fresh, tabs, conn>>

HearsBegin(t) ==
  /\ t \notin opened /\ opened' = opened \cup {t} /\ live' = live \cup {t}
  /\ UNCHANGED url
  /\ \E e \in Event : Hears(e) /\ Begins(e, t) /\ e.info.url = url[t]

HearsChange(t) ==
  /\ t \in live /\ UNCHANGED <<live, opened>>
  /\ url' = [url EXCEPT ![t] = url[t] + 1]
  /\ \E e \in Event : Hears(e) /\ Tells(e, t) /\ e.type = "changed"
                      /\ e.info.url = url'[t]

HearsEnd(t) ==
  /\ t \in live /\ live' = live \ {t} /\ UNCHANGED <<opened, url>>
  /\ \E e \in Event : Hears(e) /\ Ends(e, t)

(* The event thread takes the next event.                                  *)
Answers(e) ==
  /\ evt = "recv" /\ events # <<>> /\ e = Head(events) /\ events' = Tail(events)
  /\ UNCHANGED <<live, opened, url, conn>>

PassesOver(e) ==
  /\ Answers(e) /\ evt' = "check" /\ UNCHANGED <<fresh, tabs>>
  /\ e.type # "destroyed"
  /\ \/ e.info.target \notin Pages
     \/ e.type = "changed" /\ <<e.info.target, e.info.url>> \in DevtoolsUrls

MakesTab(e) ==
  /\ Answers(e) /\ evt' = "enable" /\ fresh' = e.info /\ UNCHANGED tabs
  /\ e.type = "created" /\ e.info.target \in Pages \cap live

UpdatesTab(e) ==
  /\ Answers(e) /\ evt' = "check" /\ UNCHANGED fresh
  /\ e.type = "changed" /\ tabs' = WithChange(e.info)

RemovesTab(e) ==
  /\ Answers(e) /\ evt' = "check" /\ UNCHANGED fresh
  /\ e.type = "destroyed" /\ tabs' = Without(tabs, e.target)

PushesTab ==
  /\ evt = "push" /\ evt' = "check" /\ tabs' = Append(tabs, TabOf(fresh))
  /\ UNCHANGED <<live, opened, url, conn, events>>

Kinds ==
  \/ Silent \/ Leaves \/ PushesTab
  \/ \E t \in Targets : HearsBegin(t) \/ HearsChange(t) \/ HearsEnd(t)
  \/ \E e \in Event : PassesOver(e) \/ MakesTab(e) \/ UpdatesTab(e) \/ RemovesTab(e)

LEMMA QuietBefore ==
  ASSUME Types, [Next]_vars, Quiet'
  PROVE  Quiet
<1>1. ASSUME NEW o \in Openers, NewTab(o) \/ NewTabPolls(o)
      PROVE  \A r \in Registrars : pc'[r] = pc[r]
  BY <1>1, RolesAreDisjoint
  DEF Types, TypeOK, NewTab, NewTabPolls, Goto, Threads
<1>2. ASSUME NEW r \in Registrars, RegistrarStep(r)
      PROVE  pc'[r] # "idle"
  BY <1>2 DEF Types, TypeOK, RegistrarStep, ListTargets, LockTabs, RegisterTarget,
    EnableMissingTab, UnlockTabs, TabFails, Goto, Threads
<1>3. CASE UNCHANGED pc
  BY <1>3 DEF Quiet
<1>4. CASE \E t \in Targets : TargetOpens(t) \/ TargetCloses(t) \/ TargetChanges(t)
  BY <1>3, <1>4 DEF TargetOpens, TargetCloses, TargetChanges, threadVars
<1>5. CASE ConnectionEnds \/ DropBrowser \/ UNCHANGED vars
  BY <1>3, <1>5 DEF ConnectionEnds, DropBrowser, vars, threadVars
<1>6. CASE EvtStep
  BY <1>3, <1>6 DEF EvtStep, EvtChecksShutdown, EvtHearsNothing, EvtTargetCreated,
    EvtEnablesTab, EvtPushesTab, EvtTargetInfoChanged, EvtTargetDestroyed, EvtPanics,
    NotEvt, threadVars
<1> QED
  BY <1>1, <1>2, <1>4, <1>5, <1>6 DEF Next, Quiet

LEMMA NothingMoves ==
  ASSUME UNCHANGED <<live, opened, url, events, fresh, tabs>>,
         conn' = "up" => conn = "up",
         \/ UNCHANGED evt
         \/ evt = "check" /\ evt' = "recv"
         \/ evt = "enable" /\ evt' = "push"
  PROVE  Kinds
BY DEF Kinds, Silent, Making, EvtEnded

LEMMA OpensKind ==
  ASSUME Types, NoReaderNoEvents, NEW t \in Targets, Opens(t)
  PROVE  Kinds
<1> DEFINE e == [type |-> "created", info |-> InfoOf(t)]
<1>1. e \in Event /\ Begins(e, t) /\ e.info.url = url[t]
  BY InfoIsInfo DEF Types, Event, Begins
<1>2. Announce(e)
  BY DEF Opens
<1> HIDE DEF e
<1>3. CASE EvtEnded
  BY <1>2, <1>3 DEF Announce, Opens, NoReaderNoEvents, EvtEnded, Kinds, Leaves,
                    NotChrome, evtVars
<1>4. CASE ~EvtEnded
  <2>1. Hears(e)
    BY <1>2, <1>4 DEF Announce, Opens, Hears, NotChrome, evtVars, listVars
  <2>2. HearsBegin(t)
    BY <1>1, <2>1 DEF HearsBegin, Opens
  <2> QED
    BY <2>2 DEF Kinds
<1> QED
  BY <1>3, <1>4

LEMMA ClosesKind ==
  ASSUME Types, NoReaderNoEvents, NEW t \in Targets, TargetCloses(t)
  PROVE  Kinds
<1> DEFINE e == [type |-> "destroyed", target |-> t]
<1>1. e \in Event /\ Ends(e, t)
  BY DEF Event, Ends
<1>2. Announce(e)
  BY DEF TargetCloses
<1> HIDE DEF e
<1>3. CASE EvtEnded
  BY <1>2, <1>3 DEF Announce, TargetCloses, NoReaderNoEvents, EvtEnded, Kinds, Leaves,
                    NotChrome, evtVars
<1>4. CASE ~EvtEnded
  <2>1. Hears(e)
    BY <1>2, <1>4 DEF Announce, TargetCloses, Hears, NotChrome, evtVars, listVars
  <2>2. HearsEnd(t)
    BY <1>1, <2>1 DEF HearsEnd, TargetCloses
  <2> QED
    BY <2>2 DEF Kinds
<1> QED
  BY <1>3, <1>4

LEMMA ChangesKind ==
  ASSUME Types, NoReaderNoEvents, NEW t \in Targets, TargetChanges(t)
  PROVE  Kinds
<1> DEFINE i == [InfoOf(t) EXCEPT !.url = @ + 1]
           e == [type |-> "changed", info |-> i]
<1>1. url[t] + 1 \in 0..MaxChanges /\ url' = [url EXCEPT ![t] = url[t] + 1]
      /\ url'[t] = url[t] + 1
  BY BoundIsNat DEF Types, TypeOK, TargetChanges
<1>2. i \in Info /\ i.target = t /\ i.url = url'[t]
  BY <1>1, InfoIsInfo DEF Types, Info
<1> HIDE DEF i
<1>3. e \in Event /\ Tells(e, t) /\ e.type = "changed" /\ e.info.url = url'[t]
  BY <1>2 DEF Event, Tells
<1>4. Announce(e)
  BY DEF TargetChanges, i
<1> HIDE DEF e
<1>5. CASE EvtEnded
  BY <1>4, <1>5 DEF Announce, TargetChanges, NoReaderNoEvents, EvtEnded, Kinds, Leaves,
                    NotChrome, evtVars
<1>6. CASE ~EvtEnded
  <2>1. Hears(e)
    BY <1>4, <1>6 DEF Announce, TargetChanges, Hears, NotChrome, evtVars, listVars
  <2>2. HearsChange(t)
    BY <1>1, <1>3, <2>1 DEF HearsChange, TargetChanges
  <2> QED
    BY <2>2 DEF Kinds
<1> QED
  BY <1>5, <1>6

LEMMA TakesKind ==
  ASSUME Types, evt = "recv", events # <<>>,
         EvtTargetCreated \/ EvtTargetInfoChanged \/ EvtTargetDestroyed
  PROVE  Kinds
<1> DEFINE e == Head(events)
<1>1. e \in Event
  BY HeadAndTail DEF Types, TypeOK
<1>2. UNCHANGED <<live, opened, url, conn>>
  BY DEF EvtTargetCreated, EvtTargetInfoChanged, EvtTargetDestroyed, NotEvt
<1>3. ASSUME events' = Tail(events)
      PROVE  Answers(e)
  BY <1>2, <1>3 DEF Answers
<1>4. CASE EvtTargetCreated
  <2>1. UNCHANGED tabs /\ e.type = "created"
    BY <1>4 DEF EvtTargetCreated, listVars, Takes
  <2>2. CASE e.info.target \notin Pages /\ evt' = "check" /\ events' = Tail(events)
             /\ UNCHANGED fresh
    <3>1. Answers(e)
      BY <1>3, <2>2
    <3> HIDE DEF e
    <3>2. PassesOver(e)
      BY <2>1, <2>2, <3>1 DEF PassesOver
    <3> QED
      BY <1>1, <3>2 DEF Kinds
  <2>3. CASE e.info.target \in Pages /\ Attaches(e.info.target, TRUE)
             /\ evt' = "enable" /\ fresh' = e.info /\ events' = Tail(events)
    BY <1>1, <1>3, <2>1, <2>3 DEF Kinds, MakesTab, Attaches, Returns
  <2>4. CASE EvtEnds("done")
    BY <2>4 DEF Kinds, Leaves, EvtEnds
  <2> QED
    BY <1>4, <2>2, <2>3, <2>4 DEF EvtTargetCreated
<1>5. CASE EvtTargetInfoChanged
  <2>1. /\ UNCHANGED fresh /\ e.type = "changed" /\ Answers(e) /\ evt' = "check"
        /\ \/ ~Concerns(e.info) /\ UNCHANGED tabs
           \/ tabs' = WithChange(e.info)
    BY <1>3, <1>5 DEF EvtTargetInfoChanged, Takes
  <2> QED
    <3> HIDE DEF e
    <3>1. PassesOver(e) \/ UpdatesTab(e)
      BY <2>1 DEF PassesOver, UpdatesTab, Concerns
    <3> QED
      BY <1>1, <3>1 DEF Kinds
<1>6. CASE EvtTargetDestroyed
  <2>1. tabs' = Without(tabs, e.target)
    BY <1>6 DEF EvtTargetDestroyed, Without
  <2>2. UNCHANGED fresh /\ e.type = "destroyed" /\ Answers(e) /\ evt' = "check"
    BY <1>3, <1>6 DEF EvtTargetDestroyed, Takes
  <2> QED
    BY <1>1, <2>1, <2>2 DEF Kinds, RemovesTab
<1> QED
  BY <1>4, <1>5, <1>6

LEMMA EvtKind ==
  ASSUME Types, EvtStep
  PROVE  Kinds
<1>1. CASE EvtTargetCreated \/ EvtTargetInfoChanged \/ EvtTargetDestroyed
  BY <1>1, TakesKind DEF EvtTargetCreated, EvtTargetInfoChanged, EvtTargetDestroyed, Takes
<1>2. CASE EvtPushesTab
  BY <1>2 DEF EvtPushesTab, PushesTab, Kinds, NotEvt
<1>3. ASSUME NEW how \in {"done", "panicked"}, EvtEnds(how)
      PROVE  Kinds
  BY <1>3 DEF EvtEnds, Kinds, Leaves
<1>4. CASE EvtHearsNothing \/ EvtPanics
  BY <1>3, <1>4 DEF EvtHearsNothing, EvtPanics
<1>5. CASE EvtChecksShutdown
  BY <1>3, <1>5, NothingMoves DEF EvtChecksShutdown, NotEvt, listVars
<1>6. CASE EvtEnablesTab
  BY <1>3, <1>6, NothingMoves DEF EvtEnablesTab, NotEvt, listVars
<1> QED
  BY <1>1, <1>2, <1>4, <1>5, <1>6 DEF EvtStep

LEMMA RegistrarKind ==
  ASSUME Types, NEW r \in Registrars, RegistrarStep(r)
  PROVE  Kinds
<1>1. /\ UNCHANGED <<live, opened, url, events, conn, evt, fresh>>
  BY DEF RegistrarStep, ListTargets, LockTabs, RegisterTarget, EnableMissingTab,
         UnlockTabs, NotThread, chromeVars, evtVars
<1>2. CASE UNCHANGED tabs
  BY <1>1, <1>2, NothingMoves
<1>3. CASE EnableMissingTab(r)
  <2>1. pc'[r] # "idle"
    BY <1>3 DEF Types, TypeOK, EnableMissingTab, TabFails, Goto, Threads
  <2>2. Head(missing[r]) \in Info
    BY <1>3, HeadAndTail DEF EnableMissingTab, Types, TypeOK
  <2>3. CASE tabs' = WithTab(TabOf(Head(missing[r])), previous[r])
    <3>1. \A i \in DOMAIN tabs : \E j \in DOMAIN tabs' : tabs'[j] = tabs[i]
      BY <2>2, <2>3, PutIn, TabIsTab DEF Types, TypeOK
    <3>2. Silent
      BY <1>1, <2>1, <3>1 DEF Silent, Making, EvtEnded, Quiet
    <3> QED
      BY <3>2 DEF Kinds
  <2> QED
    BY <1>2, <1>3, <2>3 DEF EnableMissingTab
<1> QED
  BY <1>2, <1>3 DEF RegistrarStep, ListTargets, LockTabs, RegisterTarget, UnlockTabs,
                    listVars

LEMMA StepKinds ==
  ASSUME Types, NoReaderNoEvents, [Next]_vars
  PROVE  Kinds
<1>1. ASSUME NEW t \in Targets, TargetOpens(t) \/ TargetCloses(t) \/ TargetChanges(t)
      PROVE  Kinds
  BY <1>1, OpensKind, ClosesKind, ChangesKind DEF TargetOpens
<1>2. CASE ConnectionEnds \/ DropBrowser \/ UNCHANGED vars
  BY <1>2, NothingMoves DEF ConnectionEnds, DropBrowser, vars, NotChrome, chromeVars,
                            evtVars, listVars
<1>3. ASSUME NEW o \in Openers, NewTab(o)
      PROVE  Kinds
  <2>1. CASE \E t \in Pages : Opens(t)
    BY <2>1, OpensKind DEF Targets
  <2>2. CASE UNCHANGED <<chromeVars, conn, events, listVars, evtVars>>
    BY <2>2, NothingMoves DEF chromeVars, evtVars, listVars
  <2> QED
    BY <1>3, <2>1, <2>2 DEF NewTab, NotThread
<1>4. ASSUME NEW o \in Openers, NewTabPolls(o)
      PROVE  Kinds
  BY <1>4, NothingMoves DEF NewTabPolls, NotThread, chromeVars, evtVars, listVars
<1> QED
  BY <1>1, <1>2, <1>3, <1>4, EvtKind, RegistrarKind DEF Next

-----------------------------------------------------------------------------
(* The channel.                                                            *)
LEMMA Appended ==
  ASSUME TypeOK, NEW e \in Event, Hears(e)
  PROVE  /\ Len(events) \in Nat /\ DOMAIN events = 1..Len(events)
         /\ DOMAIN events' = 1..Len(events) + 1
         /\ events'[Len(events) + 1] = e
         /\ \A i \in 1..Len(events) : events'[i] = events[i]
<1>1. events \in Seq(Event) /\ events' = Append(events, e)
  BY DEF TypeOK, Hears
<1>2. Len(events) \in Nat /\ DOMAIN events = 1..Len(events)
  BY <1>1, LenProperties
<1> QED
  BY <1>1, <1>2

LEMMA Answered ==
  ASSUME TypeOK, NEW e, Answers(e)
  PROVE  /\ Len(events) \in Nat \ {0} /\ DOMAIN events = 1..Len(events)
         /\ DOMAIN events' = 1..Len(events) - 1
         /\ e = events[1]
         /\ \A i \in 1..Len(events) - 1 : events'[i] = events[i + 1]
BY HeadAndTail DEF TypeOK, Answers

(* A further event, true when it is sent, leaves those before it true: it  *)
(* tells of the change that has just been made, if one has.                *)
LEMMA EventsMore ==
  ASSUME TypeOK, EventsAreTrue, NEW e \in Event, Hears(e), opened \subseteq opened',
         \A t \in Targets : Ends(e, t) => t \in opened' /\ t \notin live',
         \A t \in Targets : Tells(e, t) => t \in opened' /\ e.info.url = url'[t],
         \A t \in Targets : Begins(e, t) => t \notin opened,
         \A t \in Targets : url'[t] \in Nat,
         \A t \in opened : t \notin live => t \notin live',
         \A t \in opened : \/ url'[t] = url[t]
                           \/ url'[t] = url[t] + 1 /\ Tells(e, t)
  PROVE  EventsAreTrue'
<1>1. /\ Len(events) \in Nat /\ DOMAIN events = 1..Len(events)
      /\ DOMAIN events' = 1..Len(events) + 1
      /\ events'[Len(events) + 1] = e
      /\ \A i \in 1..Len(events) : events'[i] = events[i]
  BY Appended
<1>2. ASSUME NEW i \in DOMAIN events', NEW t \in Targets
      PROVE  TrueEvent(i, t)'
  <2>1. CASE i = Len(events) + 1
    <3>1. events'[i] = e /\ \A j \in DOMAIN events' : ~(j > i)
      BY <1>1, <2>1
    <3>2. ASSUME Tells(e, t)
          PROVE  /\ e.info.url \in 0..url'[t]
                 /\ (e.info.url + 1)..url'[t] = {}
      BY <3>2
    <3> QED
      BY <3>1, <3>2 DEF TrueEvent
  <2>2. CASE i \in 1..Len(events)
    <3>1. events'[i] = events[i] /\ TrueEvent(i, t)
      BY <1>1, <2>2 DEF EventsAreTrue
    <3>2. Ends(events[i], t) => t \in opened' /\ t \notin live'
      BY <3>1 DEF TrueEvent
    <3>3. ASSUME Tells(events[i], t)
          PROVE  /\ t \in opened'
                 /\ events[i].info.url \in 0..url'[t]
                 /\ \A v \in (events[i].info.url + 1)..url'[t] : TellsLater(i, t, v)'
                 /\ \A j \in DOMAIN events' : j > i => ~Begins(events'[j], t)
      <4> DEFINE u == events[i].info.url
      <4>1. /\ t \in opened /\ u \in 0..url[t] /\ url[t] \in Nat
            /\ \A v \in (u + 1)..url[t] : TellsLater(i, t, v)
            /\ \A j \in DOMAIN events : j > i => ~Begins(events[j], t)
        BY <3>1, <3>3 DEF TrueEvent, TypeOK
      <4> HIDE DEF u
      <4>2. u \in 0..url'[t]
        BY <4>1
      <4>3. ASSUME NEW v \in (u + 1)..url'[t]
            PROVE  TellsLater(i, t, v)'
        <5>1. CASE v \in (u + 1)..url[t]
          <6>1. PICK j \in DOMAIN events : j > i /\ TellsUrl(events[j], t, v)
            BY <4>1, <5>1 DEF TellsLater
          <6>2. j \in DOMAIN events' /\ events'[j] = events[j]
            BY <1>1
          <6> QED
            BY <6>1, <6>2 DEF TellsLater
        <5>2. CASE v \notin (u + 1)..url[t]
          <6>1. v = url'[t] /\ Tells(e, t)
            BY <4>1, <5>2
          <6>2. TellsUrl(e, t, v)
            BY <6>1 DEF TellsUrl
          <6>3. Len(events) + 1 \in DOMAIN events' /\ Len(events) + 1 > i
            BY <1>1, <2>2
          <6> QED
            BY <1>1, <6>2, <6>3 DEF TellsLater
        <5> QED
          BY <5>1, <5>2
      <4>4. ASSUME NEW j \in DOMAIN events', j > i
            PROVE  ~Begins(events'[j], t)
        <5>1. CASE j = Len(events) + 1
          BY <1>1, <4>1, <5>1
        <5>2. CASE j \in 1..Len(events)
          BY <1>1, <4>1, <4>4, <5>2
        <5> QED
          BY <1>1, <5>1, <5>2
      <4> QED
        BY <4>1, <4>2, <4>3, <4>4 DEF u
    <3> QED
      BY <3>1, <3>2, <3>3 DEF TrueEvent
  <2> QED
    BY <1>1, <2>1, <2>2
<1> QED
  BY <1>2 DEF EventsAreTrue

LEMMA UrlsAreNat ==
  ASSUME TypeOK
  PROVE  \A t \in Targets : url[t] \in Nat
BY BoundIsNat DEF TypeOK

LEMMA EventsBegin ==
  ASSUME TypeOK, EventsAreTrue, NEW t0 \in Targets, HearsBegin(t0)
  PROVE  EventsAreTrue'
<1>1. PICK e \in Event : Hears(e) /\ Begins(e, t0) /\ e.info.url = url[t0]
  BY DEF HearsBegin
<1>2. \A t \in Targets : /\ ~Ends(e, t)
                         /\ Tells(e, t) <=> t = t0
                         /\ Begins(e, t) <=> t = t0
  BY <1>1 DEF Begins, Tells, Ends
<1> QED
  BY <1>1, <1>2, EventsMore, UrlsAreNat DEF HearsBegin

LEMMA EventsChange ==
  ASSUME TypeOK, EventsAreTrue, NEW t0 \in Targets, HearsChange(t0)
  PROVE  EventsAreTrue'
<1>1. PICK e \in Event : Hears(e) /\ Tells(e, t0) /\ e.type = "changed"
                         /\ e.info.url = url'[t0]
  BY DEF HearsChange
<1>2. \A t \in Targets : ~Ends(e, t) /\ ~Begins(e, t) /\ (Tells(e, t) <=> t = t0)
  BY <1>1 DEF Begins, Tells, Ends
<1>3. /\ UNCHANGED <<live, opened>> /\ t0 \in opened /\ opened \subseteq Targets
      /\ \A t \in Targets : url'[t] = IF t = t0 THEN url[t] + 1 ELSE url[t]
  BY DEF HearsChange, TypeOK
<1>4. \A t \in Targets : url'[t] \in Nat
  BY <1>3, UrlsAreNat
<1> QED
  BY <1>1, <1>2, <1>3, <1>4, EventsMore

LEMMA EventsEnd ==
  ASSUME TypeOK, EventsAreTrue, NEW t0 \in Targets, HearsEnd(t0)
  PROVE  EventsAreTrue'
<1>1. PICK e \in Event : Hears(e) /\ Ends(e, t0)
  BY DEF HearsEnd
<1>2. \A t \in Targets : ~Tells(e, t) /\ ~Begins(e, t) /\ (Ends(e, t) <=> t = t0)
  BY <1>1 DEF Begins, Tells, Ends
<1>3. t0 \in opened
  BY DEF HearsEnd, TypeOK
<1> QED
  BY <1>1, <1>2, <1>3, EventsMore, UrlsAreNat DEF HearsEnd

LEMMA EventsTaken ==
  ASSUME TypeOK, EventsAreTrue, NEW e \in Event, Answers(e)
  PROVE  EventsAreTrue'
<1>1. /\ Len(events) \in Nat \ {0} /\ DOMAIN events = 1..Len(events)
      /\ DOMAIN events' = 1..Len(events) - 1
      /\ \A i \in 1..Len(events) - 1 : events'[i] = events[i + 1]
  BY Answered
<1>2. UNCHANGED <<live, opened, url>>
  BY DEF Answers
<1>3. ASSUME NEW i \in DOMAIN events', NEW t \in Targets
      PROVE  TrueEvent(i, t)'
  <2>1. events'[i] = events[i + 1] /\ TrueEvent(i + 1, t)
    BY <1>1 DEF EventsAreTrue
  <2>2. ASSUME NEW v, TellsLater(i + 1, t, v)
        PROVE  TellsLater(i, t, v)'
    <3>1. PICK j \in DOMAIN events : j > i + 1 /\ TellsUrl(events[j], t, v)
      BY <2>2 DEF TellsLater
    <3>2. j - 1 \in DOMAIN events' /\ j - 1 > i /\ events'[j - 1] = events[j]
      <4>1. j \in 1..Len(events) /\ i \in 1..Len(events) - 1
        BY <1>1
      <4>2. j - 1 \in 1..Len(events) - 1 /\ j - 1 > i /\ j - 1 + 1 = j
        BY <1>1, <3>1, <4>1
      <4> QED
        BY <1>1, <4>2
    <3> QED
      BY <3>1, <3>2 DEF TellsLater
  <2>3. ASSUME NEW j \in DOMAIN events', j > i
        PROVE  j + 1 \in DOMAIN events /\ j + 1 > i + 1 /\ events'[j] = events[j + 1]
    BY <1>1, <2>3
  <2>4. Ends(events'[i], t) => t \in opened' /\ t \notin live'
    BY <1>2, <2>1 DEF TrueEvent
  <2>5. ASSUME Tells(events'[i], t)
        PROVE  /\ t \in opened'
               /\ events'[i].info.url \in 0..url'[t]
               /\ \A v \in (events'[i].info.url + 1)..url'[t] : TellsLater(i, t, v)'
               /\ \A j \in DOMAIN events' : j > i => ~Begins(events'[j], t)
    BY <1>2, <2>1, <2>2, <2>3, <2>5 DEF TrueEvent
  <2> QED
    BY <2>4, <2>5 DEF TrueEvent
<1> QED
  BY <1>3 DEF EventsAreTrue

LEMMA EventsKept ==
  ASSUME TypeOK, EventsAreTrue, Kinds
  PROVE  EventsAreTrue'
<1>1. CASE UNCHANGED <<live, opened, url, events>>
  BY <1>1 DEF EventsAreTrue, TrueEvent, TellsLater
<1>2. CASE Leaves
  BY <1>2 DEF EventsAreTrue, Leaves
<1>3. ASSUME NEW e \in Event, Answers(e)
      PROVE  EventsAreTrue'
  BY <1>3, EventsTaken
<1> QED
  BY <1>1, <1>2, <1>3, EventsBegin, EventsChange, EventsEnd
  DEF Kinds, Silent, PushesTab, PassesOver, MakesTab, UpdatesTab, RemovesTab

-----------------------------------------------------------------------------
(* What is known of a target with a tab.                                   *)
LEMMA MoreEvents ==
  ASSUME TypeOK, NEW e \in Event, Hears(e), NEW t
  PROVE  /\ BeginsSoon(t)' <=> BeginsSoon(t) \/ Begins(e, t)
         /\ \A v : TellsOf(t, v)' <=> TellsOf(t, v) \/ TellsUrl(e, t, v)
         /\ EndsSoon(t)' <=> EndsSoon(t) \/ Ends(e, t)
<1>1. /\ Len(events) \in Nat /\ DOMAIN events = 1..Len(events)
      /\ DOMAIN events' = 1..Len(events) + 1
      /\ events'[Len(events) + 1] = e
      /\ \A i \in 1..Len(events) : events'[i] = events[i]
  BY Appended
<1>2. \A i \in DOMAIN events' : i \in DOMAIN events \/ i = Len(events) + 1
  BY <1>1
<1>3. \A i \in DOMAIN events : i \in DOMAIN events' /\ events'[i] = events[i]
  BY <1>1
<1>4. Len(events) + 1 \in DOMAIN events'
  BY <1>1
<1> QED
  BY <1>1, <1>2, <1>3, <1>4 DEF BeginsSoon, TellsOf, EndsSoon

LEMMA FewerEvents ==
  ASSUME TypeOK, NEW e, Answers(e), NEW t
  PROVE  /\ BeginsSoon(t) <=> BeginsSoon(t)' \/ Begins(e, t)
         /\ \A v : TellsOf(t, v) <=> TellsOf(t, v)' \/ TellsUrl(e, t, v)
         /\ EndsSoon(t) <=> EndsSoon(t)' \/ Ends(e, t)
<1>1. /\ Len(events) \in Nat \ {0} /\ DOMAIN events = 1..Len(events)
      /\ DOMAIN events' = 1..Len(events) - 1
      /\ e = events[1]
      /\ \A i \in 1..Len(events) - 1 : events'[i] = events[i + 1]
  BY Answered
<1>2. \A i \in DOMAIN events :
        \/ events[i] = e
        \/ i - 1 \in DOMAIN events' /\ events'[i - 1] = events[i]
  BY <1>1
<1>3. \A i \in DOMAIN events' : i + 1 \in DOMAIN events /\ events'[i] = events[i + 1]
  BY <1>1
<1>4. 1 \in DOMAIN events /\ events[1] = e
  BY <1>1
<1> QED
  BY <1>2, <1>3, <1>4 DEF BeginsSoon, TellsOf, EndsSoon

LEMMA TrueStaysTrue ==
  ASSUME TypeOK, NEW t \in Targets, NEW u, IsTrue(t, u),
         \E t0 \in Targets : HearsBegin(t0) \/ HearsChange(t0) \/ HearsEnd(t0)
  PROVE  IsTrue(t, u)'
<1>1. CASE \E t0 \in Targets : HearsBegin(t0)
  <2>1. PICK t0 \in Targets : HearsBegin(t0)
    BY <1>1
  <2>2. PICK e \in Event : Hears(e) /\ Begins(e, t0)
    BY <2>1 DEF HearsBegin
  <2>3. t # t0
    BY <2>1 DEF IsTrue, HearsBegin
  <2>4. ~Begins(e, t)
    BY <2>2, <2>3 DEF Begins
  <2>5. /\ BeginsSoon(t)' <=> BeginsSoon(t) \/ Begins(e, t)
        /\ \A v : TellsOf(t, v)' <=> TellsOf(t, v) \/ TellsUrl(e, t, v)
        /\ EndsSoon(t)' <=> EndsSoon(t) \/ Ends(e, t)
    BY <2>2, MoreEvents
  <2> QED
    BY <2>1, <2>4, <2>5 DEF IsTrue, HearsBegin
<1>2. CASE \E t0 \in Targets : HearsChange(t0)
  <2>1. PICK t0 \in Targets : HearsChange(t0)
    BY <1>2
  <2>2. PICK e \in Event : Hears(e) /\ Tells(e, t0) /\ e.type = "changed"
                           /\ e.info.url = url'[t0]
    BY <2>1 DEF HearsChange
  <2>3. ~Begins(e, t)
    BY <2>2 DEF Begins
  <2>4. /\ BeginsSoon(t)' <=> BeginsSoon(t) \/ Begins(e, t)
        /\ \A v : TellsOf(t, v)' <=> TellsOf(t, v) \/ TellsUrl(e, t, v)
        /\ EndsSoon(t)' <=> EndsSoon(t) \/ Ends(e, t)
    BY <2>2, MoreEvents
  <2>5. /\ url[t] \in Nat
        /\ \/ url'[t] = url[t]
           \/ url'[t] = url[t] + 1 /\ TellsUrl(e, t, url'[t])
    BY <2>1, <2>2, UrlsAreNat DEF HearsChange, TypeOK, TellsUrl
  <2>6. u \in 0..url'[t]
    BY <2>5 DEF IsTrue
  <2>7. ASSUME NEW v \in (u + 1)..url'[t]
        PROVE  <<t, v>> \in DevtoolsUrls \/ TellsOf(t, v)'
    <3>1. \/ v \in (u + 1)..url[t]
          \/ v = url'[t] /\ TellsUrl(e, t, url'[t])
      <4>1. u \in 0..url[t] /\ v \in Nat
        BY <2>5, <2>6 DEF IsTrue
      <4> QED
        BY <2>5, <4>1
    <3> QED
      BY <2>4, <3>1 DEF IsTrue
  <2> QED
    BY <2>1, <2>3, <2>4, <2>6, <2>7 DEF IsTrue, HearsChange
<1>3. CASE \E t0 \in Targets : HearsEnd(t0)
  <2>1. PICK t0 \in Targets : HearsEnd(t0)
    BY <1>3
  <2>2. PICK e \in Event : Hears(e) /\ Ends(e, t0)
    BY <2>1 DEF HearsEnd
  <2>3. ~Begins(e, t)
    BY <2>2 DEF Begins, Ends
  <2>4. /\ BeginsSoon(t)' <=> BeginsSoon(t) \/ Begins(e, t)
        /\ \A v : TellsOf(t, v)' <=> TellsOf(t, v) \/ TellsUrl(e, t, v)
        /\ EndsSoon(t)' <=> EndsSoon(t) \/ Ends(e, t)
    BY <2>2, MoreEvents
  <2>5. t \in live' \/ EndsSoon(t)'
    BY <2>1, <2>2, <2>4 DEF IsTrue, HearsEnd
  <2> QED
    BY <2>1, <2>3, <2>4, <2>5 DEF IsTrue, HearsEnd
<1> QED
  BY <1>1, <1>2, <1>3

(* An event about another target changes nothing for this one, nor does    *)
(* one that is passed over.                                                *)
LEMMA TrueAfterEvent ==
  ASSUME TypeOK, NEW e \in Event, Answers(e), NEW t \in Targets, NEW u, IsTrue(t, u),
         ~Ends(e, t),
         Tells(e, t) => e.type = "changed" /\ <<e.info.target, e.info.url>> \in DevtoolsUrls
  PROVE  IsTrue(t, u)'
<1>1. BeginsSoon(t)' => BeginsSoon(t)
  BY FewerEvents
<1>2. /\ \A v : TellsOf(t, v) <=> TellsOf(t, v)' \/ TellsUrl(e, t, v)
      /\ EndsSoon(t) <=> EndsSoon(t)' \/ Ends(e, t)
  BY FewerEvents
<1>3. \A v : TellsUrl(e, t, v) => <<t, v>> \in DevtoolsUrls
  BY DEF TellsUrl, Tells
<1>4. UNCHANGED <<live, opened, url>>
  BY DEF Answers
<1> QED
  BY <1>1, <1>2, <1>3, <1>4 DEF IsTrue

(* Once it has been told, what it was told is true of it.                  *)
LEMMA TrueAfterNews ==
  ASSUME TypeOK, EventsAreTrue, NEW e \in Event, Answers(e), NEW t \in Targets,
         Tells(e, t), t \in Pages, t \in live \/ EndsSoon(t)
  PROVE  IsTrue(t, e.info.url)'
<1>1. /\ Len(events) \in Nat \ {0} /\ DOMAIN events = 1..Len(events)
      /\ DOMAIN events' = 1..Len(events) - 1
      /\ e = events[1]
      /\ \A i \in 1..Len(events) - 1 : events'[i] = events[i + 1]
  BY Answered
<1>2. 1 \in DOMAIN events /\ TrueEvent(1, t)
  BY <1>1 DEF EventsAreTrue
<1>3. t \in opened /\ e.info.url \in 0..url[t]
  BY <1>1, <1>2 DEF TrueEvent
<1>4. ~BeginsSoon(t)'
  <2>1. ASSUME NEW i \in DOMAIN events'
        PROVE  ~Begins(events'[i], t)
    <3>1. i + 1 \in DOMAIN events /\ i + 1 > 1 /\ events'[i] = events[i + 1]
      BY <1>1
    <3> QED
      BY <1>1, <1>2, <3>1 DEF TrueEvent
  <2> QED
    BY <2>1 DEF BeginsSoon
<1>5. ASSUME NEW v \in (e.info.url + 1)..url[t]
      PROVE  TellsOf(t, v)'
  <2>1. TellsLater(1, t, v)
    BY <1>1, <1>2 DEF TrueEvent
  <2>2. PICK j \in DOMAIN events : j > 1 /\ TellsUrl(events[j], t, v)
    BY <2>1 DEF TellsLater
  <2>3. j - 1 \in DOMAIN events' /\ events'[j - 1] = events[j]
    BY <1>1, <2>2
  <2> QED
    BY <2>2, <2>3 DEF TellsOf
<1>6. EndsSoon(t) => EndsSoon(t)'
  <2>1. ~Ends(e, t)
    BY DEF Tells, Ends
  <2> QED
    BY <2>1, FewerEvents
<1>7. UNCHANGED <<live, opened, url>>
  BY DEF Answers
<1> QED
  BY <1>3, <1>4, <1>5, <1>6, <1>7 DEF IsTrue

LEMMA TrueUnmoved ==
  ASSUME UNCHANGED <<live, opened, url, events>>, NEW t, NEW u, IsTrue(t, u)
  PROVE  IsTrue(t, u)'
BY DEF IsTrue, BeginsSoon, TellsOf, EndsSoon

-----------------------------------------------------------------------------
(* The tab that is being made.                                             *)
LEMMA FreshKept ==
  ASSUME Types, EventsAreTrue, FreshIsTrue, Kinds
  PROVE  FreshIsTrue'
<1>1. Making => fresh.target \in Targets
  BY DEF Types, Info
<1>2. CASE Silent
  BY <1>2, TrueUnmoved DEF FreshIsTrue, Silent
<1>3. CASE Leaves \/ PushesTab
  BY <1>3 DEF FreshIsTrue, Leaves, PushesTab, Making
<1>4. CASE \E t \in Targets : HearsBegin(t) \/ HearsChange(t) \/ HearsEnd(t)
  <2>1. UNCHANGED <<evt, fresh>>
    BY <1>4 DEF HearsBegin, HearsChange, HearsEnd, Hears
  <2> QED
    BY <1>1, <1>4, <2>1, TrueStaysTrue DEF FreshIsTrue, Making, Types
<1>5. ASSUME NEW e \in Event, PassesOver(e) \/ UpdatesTab(e) \/ RemovesTab(e)
      PROVE  FreshIsTrue'
  BY <1>5 DEF PassesOver, UpdatesTab, RemovesTab, FreshIsTrue, Making
<1>6. ASSUME NEW e \in Event, MakesTab(e)
      PROVE  FreshIsTrue'
  <2>1. e.info \in Info /\ e.info.target \in Targets
    BY <1>6, EventFields DEF MakesTab, Info
  <2>2. Answers(e) /\ Tells(e, e.info.target) /\ e.info.target \in Pages \cap live
    BY <1>6 DEF MakesTab, Tells
  <2>3. IsTrue(e.info.target, e.info.url)'
    BY <2>1, <2>2, TrueAfterNews DEF Types
  <2> QED
    BY <1>6, <2>3 DEF FreshIsTrue, MakesTab
<1> QED
  BY <1>2, <1>3, <1>4, <1>5, <1>6 DEF Kinds

-----------------------------------------------------------------------------
(* The list.                                                               *)
LEMMA TabFields ==
  ASSUME Types
  PROVE  /\ Len(tabs) \in Nat /\ DOMAIN tabs = 1..Len(tabs)
         /\ \A i \in DOMAIN tabs : tabs[i] \in Tab /\ tabs[i].target \in Targets
<1>1. Len(tabs) \in Nat /\ DOMAIN tabs = 1..Len(tabs)
  BY LenProperties DEF Types, TypeOK
<1>2. \A i \in DOMAIN tabs : tabs[i] \in Tab
  BY <1>1, ElementOfSeq DEF Types, TypeOK
<1> QED
  BY <1>1, <1>2 DEF Tab

LEMMA PushedTabs ==
  ASSUME Types, PushesTab
  PROVE  /\ fresh \in Info
         /\ DOMAIN tabs = 1..Len(tabs) /\ Len(tabs) \in Nat
         /\ DOMAIN tabs' = 1..Len(tabs) + 1
         /\ tabs'[Len(tabs) + 1].target = fresh.target
         /\ tabs'[Len(tabs) + 1].url = fresh.url
         /\ \A i \in 1..Len(tabs) : tabs'[i] = tabs[i]
<1>1. fresh \in Info
  BY DEF Types, Making, PushesTab
<1>2. /\ DOMAIN tabs = 1..Len(tabs) /\ Len(tabs) \in Nat
  BY TabFields
<1>3. tabs \in Seq(Tab) /\ tabs' = Append(tabs, TabOf(fresh))
  BY DEF Types, TypeOK, PushesTab
<1>4. /\ DOMAIN tabs' = 1..Len(tabs) + 1
      /\ tabs'[Len(tabs) + 1] = TabOf(fresh)
      /\ \A i \in 1..Len(tabs) : tabs'[i] = tabs[i]
  BY <1>2, <1>3
<1> QED
  BY <1>1, <1>2, <1>4, TabIsTab

(* RemovesTab keeps what is of another target.                             *)
LEMMA RemovedTabs ==
  ASSUME Types, NEW e \in Event, RemovesTab(e)
  PROVE  /\ \A j \in DOMAIN tabs' : \E i \in DOMAIN tabs : tabs'[j] = tabs[i]
         /\ \A i \in DOMAIN tabs : tabs[i].target # e.target =>
              \E j \in DOMAIN tabs' : tabs'[j] = tabs[i]
         /\ (\A i, j \in DOMAIN tabs : tabs[i].target = tabs[j].target => i = j)
              => /\ \A j \in DOMAIN tabs' : tabs'[j].target # e.target
                 /\ \A i, j \in DOMAIN tabs' : tabs'[i].target = tabs'[j].target => i = j
<1>1. Len(tabs) \in Nat /\ DOMAIN tabs = 1..Len(tabs)
  BY TabFields
<1>2. tabs' \in Seq(Tab) /\ tabs' = Without(tabs, e.target)
  BY TakenOut DEF RemovesTab, Types, TypeOK
<1>3. CASE tabs' = tabs /\ \A i \in 1..Len(tabs) : tabs[i].target # e.target
  BY <1>1, <1>3
<1>4. ASSUME NEW k \in 1..Len(tabs), tabs[k].target = e.target,
             Len(tabs') = Len(tabs) - 1,
             \A i \in 1..Len(tabs) - 1 : tabs'[i] = IF i < k THEN tabs[i] ELSE tabs[i + 1]
      PROVE  /\ \A j \in DOMAIN tabs' : \E i \in DOMAIN tabs : tabs'[j] = tabs[i]
             /\ \A i \in DOMAIN tabs : tabs[i].target # e.target =>
                  \E j \in DOMAIN tabs' : tabs'[j] = tabs[i]
             /\ (\A i, j \in DOMAIN tabs : tabs[i].target = tabs[j].target => i = j)
                  => /\ \A j \in DOMAIN tabs' : tabs'[j].target # e.target
                     /\ \A i, j \in DOMAIN tabs' :
                          tabs'[i].target = tabs'[j].target => i = j
  <2> DEFINE From(j) == IF j < k THEN j ELSE j + 1
  <2>1. DOMAIN tabs' = 1..Len(tabs) - 1
    BY <1>2, <1>4, LenProperties
  <2>2. \A j \in DOMAIN tabs' :
          From(j) \in DOMAIN tabs /\ From(j) # k /\ tabs'[j] = tabs[From(j)]
    BY <1>1, <1>4, <2>1
  <2>3. \A i, j \in DOMAIN tabs' : From(i) = From(j) => i = j
    BY <1>1, <2>1
  <2>4. ASSUME NEW i \in DOMAIN tabs, tabs[i].target # e.target
        PROVE  \E j \in DOMAIN tabs' : tabs'[j] = tabs[i]
    <3>1. CASE i < k
      <4>1. i \in DOMAIN tabs' /\ tabs'[i] = tabs[i]
        BY <1>1, <1>4, <2>1, <3>1
      <4> QED
        BY <4>1
    <3>2. CASE ~(i < k)
      <4>1. i # k /\ i - 1 \in 1..Len(tabs) - 1 /\ ~(i - 1 < k) /\ i - 1 + 1 = i
        BY <1>1, <1>4, <2>4, <3>2
      <4>2. i - 1 \in DOMAIN tabs' /\ tabs'[i - 1] = tabs[i]
        BY <1>4, <2>1, <4>1
      <4> QED
        BY <4>2
    <3> QED
      BY <3>1, <3>2
  <2> HIDE DEF From
  <2>5. ASSUME \A i, j \in DOMAIN tabs : tabs[i].target = tabs[j].target => i = j
        PROVE  /\ \A j \in DOMAIN tabs' : tabs'[j].target # e.target
               /\ \A i, j \in DOMAIN tabs' : tabs'[i].target = tabs'[j].target => i = j
    BY <1>1, <1>4, <2>2, <2>3, <2>5
  <2> QED
    BY <2>2, <2>4, <2>5
<1>5. \/ tabs' = tabs /\ \A i \in 1..Len(tabs) : tabs[i].target # e.target
      \/ \E k \in 1..Len(tabs) :
           /\ tabs[k].target = e.target
           /\ Len(tabs') = Len(tabs) - 1
           /\ \A i \in 1..Len(tabs) - 1 :
                tabs'[i] = IF i < k THEN tabs[i] ELSE tabs[i + 1]
  <2>1. tabs \in Seq(Tab)
    BY DEF Types, TypeOK
  <2>2. \/ /\ Without(tabs, e.target) = tabs
           /\ \A i \in 1..Len(tabs) : tabs[i].target # e.target
        \/ \E k \in 1..Len(tabs) :
             /\ tabs[k].target = e.target
             /\ Len(Without(tabs, e.target)) = Len(tabs) - 1
             /\ \A i \in 1..Len(tabs) - 1 : Without(tabs, e.target)[i] =
                  IF i < k THEN tabs[i] ELSE tabs[i + 1]
    BY <2>1, TakenOut
  <2> QED
    BY <1>2, <2>2
<1> QED
  BY <1>3, <1>4, <1>5

LEMMA TabsKept ==
  ASSUME Types, EventsAreTrue, FreshIsTrue, TabsAreTrue, Kinds, Quiet' => Quiet
  PROVE  TabsAreTrue'
<1> DEFINE Known == \A i \in DOMAIN tabs' : \A t, u :
                      t = tabs'[i].target /\ u = tabs'[i].url
                        => IsTrue(t, u)' /\ ~MakesTabOf(t)'
           Unique == \A i, j \in DOMAIN tabs' :
                       tabs'[i].target = tabs'[j].target => i = j
<1> SUFFICES ASSUME Quiet', ~EvtEnded'
             PROVE  Known /\ Unique
  BY DEF TabsAreTrue
<1>1. ASSUME ~EvtEnded
      PROVE  /\ \A i \in DOMAIN tabs :
                  IsTrue(tabs[i].target, tabs[i].url) /\ ~MakesTabOf(tabs[i].target)
             /\ \A i, j \in DOMAIN tabs : tabs[i].target = tabs[j].target => i = j
  BY <1>1 DEF TabsAreTrue
<1>2. \A i \in DOMAIN tabs : tabs[i].target \in Targets
  BY TabFields
<1>3. CASE Silent
  <2>1. /\ UNCHANGED <<live, opened, url, events, fresh, tabs>>
        /\ Making' <=> Making
        /\ ~EvtEnded
    BY <1>3 DEF Silent
  <2>2. ASSUME NEW i \in DOMAIN tabs', NEW t, NEW u,
               t = tabs'[i].target, u = tabs'[i].url
        PROVE  IsTrue(t, u)' /\ ~MakesTabOf(t)'
    <3>1. IsTrue(t, u) /\ ~MakesTabOf(t)
      BY <1>1, <2>1, <2>2
    <3> QED
      BY <2>1, <3>1, TrueUnmoved DEF MakesTabOf
  <2> QED
    BY <1>1, <2>1, <2>2
<1>4. CASE Leaves
  BY <1>4 DEF Leaves, EvtEnded
<1>5. CASE \E t \in Targets : HearsBegin(t) \/ HearsChange(t) \/ HearsEnd(t)
  <2>1. UNCHANGED <<evt, fresh, tabs>> /\ ~EvtEnded
    BY <1>5 DEF HearsBegin, HearsChange, HearsEnd, Hears
  <2>2. ASSUME NEW i \in DOMAIN tabs', NEW t, NEW u,
               t = tabs'[i].target, u = tabs'[i].url
        PROVE  IsTrue(t, u)' /\ ~MakesTabOf(t)'
    <3>1. IsTrue(t, u) /\ ~MakesTabOf(t) /\ t \in Targets
      BY <1>1, <1>2, <2>1, <2>2
    <3>2. IsTrue(t, u)'
      BY <1>5, <3>1, TrueStaysTrue DEF Types
    <3> QED
      BY <2>1, <3>1, <3>2 DEF MakesTabOf, Making
  <2> QED
    BY <1>1, <2>1, <2>2
<1>6. CASE PushesTab
  <2>1. ~EvtEnded /\ Making /\ ~Making'
    BY <1>6 DEF PushesTab, EvtEnded, Making
  <2>2. /\ fresh \in Info
        /\ DOMAIN tabs = 1..Len(tabs) /\ Len(tabs) \in Nat
        /\ DOMAIN tabs' = 1..Len(tabs) + 1
        /\ tabs'[Len(tabs) + 1].target = fresh.target
        /\ tabs'[Len(tabs) + 1].url = fresh.url
        /\ \A i \in 1..Len(tabs) : tabs'[i] = tabs[i]
    BY <1>6, PushedTabs
  <2>3. UNCHANGED <<live, opened, url, events>>
    BY <1>6 DEF PushesTab
  <2>4. ASSUME NEW i \in DOMAIN tabs', NEW t, NEW u,
               t = tabs'[i].target, u = tabs'[i].url
        PROVE  IsTrue(t, u)' /\ ~MakesTabOf(t)'
    <3>1. CASE i = Len(tabs) + 1
      <4>1. t = fresh.target /\ u = fresh.url
        BY <2>2, <2>4, <3>1
      <4>2. IsTrue(t, u)
        BY <2>1, <4>1 DEF FreshIsTrue
      <4> QED
        BY <2>1, <2>3, <4>2, TrueUnmoved DEF MakesTabOf
    <3>2. CASE i \in 1..Len(tabs)
      <4>1. IsTrue(t, u)
        BY <1>1, <2>1, <2>2, <2>4, <3>2
      <4> QED
        BY <2>1, <2>3, <4>1, TrueUnmoved DEF MakesTabOf
    <3> QED
      BY <2>2, <3>1, <3>2
  <2>5. \A i \in 1..Len(tabs) : tabs[i].target # fresh.target
    BY <1>1, <2>1, <2>2 DEF MakesTabOf
  <2>6. Unique
    BY <1>1, <2>1, <2>2, <2>5
  <2> QED
    BY <2>4, <2>6
<1>7. ASSUME NEW e \in Event, PassesOver(e)
      PROVE  Known /\ Unique
  <2>1. Answers(e) /\ ~EvtEnded /\ ~Making' /\ UNCHANGED tabs
    BY <1>7 DEF PassesOver, Answers, EvtEnded, Making
  <2>2. ASSUME NEW i \in DOMAIN tabs', NEW t, NEW u,
               t = tabs'[i].target, u = tabs'[i].url
        PROVE  IsTrue(t, u)' /\ ~MakesTabOf(t)'
    <3>1. IsTrue(t, u) /\ t \in Targets
      BY <1>1, <1>2, <2>1, <2>2
    <3>2. /\ ~Ends(e, t)
          /\ Tells(e, t) => e.type = "changed" /\ <<e.info.target, e.info.url>> \in DevtoolsUrls
      BY <1>7, <3>1 DEF PassesOver, Tells, Ends, IsTrue
    <3>3. IsTrue(t, u)'
      BY <2>1, <3>1, <3>2, TrueAfterEvent DEF Types
    <3> QED
      BY <2>1, <3>3 DEF MakesTabOf
  <2> QED
    BY <1>1, <2>1, <2>2
<1>8. ASSUME NEW e \in Event, MakesTab(e)
      PROVE  Known /\ Unique
  <2>1. Answers(e) /\ ~EvtEnded /\ UNCHANGED tabs /\ fresh' = e.info
    BY <1>8 DEF MakesTab, Answers, EvtEnded
  <2>2. ASSUME NEW i \in DOMAIN tabs', NEW t, NEW u,
               t = tabs'[i].target, u = tabs'[i].url
        PROVE  IsTrue(t, u)' /\ ~MakesTabOf(t)'
    <3>1. IsTrue(t, u) /\ t \in Targets
      BY <1>1, <1>2, <2>1, <2>2
    <3>2. ~Begins(e, t)
      BY <2>1, <3>1, FewerEvents DEF IsTrue, Types
    <3>3. e.info.target # t
      BY <1>8, <3>2 DEF MakesTab, Begins
    <3>4. ~Tells(e, t) /\ ~Ends(e, t)
      BY <1>8, <3>3 DEF MakesTab, Tells, Ends
    <3>5. IsTrue(t, u)'
      BY <2>1, <3>1, <3>4, TrueAfterEvent DEF Types
    <3> QED
      BY <2>1, <3>3, <3>5 DEF MakesTabOf
  <2> QED
    BY <1>1, <2>1, <2>2
<1>9. ASSUME NEW e \in Event, UpdatesTab(e)
      PROVE  Known /\ Unique
  <2>1. /\ Answers(e) /\ ~EvtEnded /\ ~Making' /\ tabs' = WithChange(e.info)
        /\ e.type = "changed"
    BY <1>9 DEF UpdatesTab, Answers, EvtEnded, Making
  <2>2. e.info \in Info
    BY <2>1, EventFields
  <2>3. /\ DOMAIN tabs' = DOMAIN tabs
        /\ \A i \in DOMAIN tabs :
             /\ tabs'[i].target = tabs[i].target
             /\ \/ tabs'[i] = tabs[i]
                \/ tabs[i].target = e.info.target /\ tabs'[i].url = e.info.url
        /\ TabFor(e.info.target) => \E i \in DOMAIN tabs :
              tabs[i].target = e.info.target /\ tabs'[i].url = e.info.url
    BY <2>1, <2>2, Updated DEF Types, TypeOK
  <2>4. ASSUME NEW i \in DOMAIN tabs', NEW t, NEW u,
               t = tabs'[i].target, u = tabs'[i].url
        PROVE  IsTrue(t, u)' /\ ~MakesTabOf(t)'
    <3>0. i \in DOMAIN tabs /\ t = tabs[i].target /\ t \in Targets
      BY <1>2, <2>3, <2>4
    <3>1. CASE t = e.info.target
      <4>1. u = e.info.url
        BY <1>1, <2>1, <2>3, <2>4, <3>0, <3>1 DEF TabFor
      <4>2. Tells(e, t) /\ t \in Pages /\ (t \in live \/ EndsSoon(t))
        BY <1>1, <2>1, <3>0, <3>1 DEF Tells, IsTrue
      <4>3. IsTrue(t, e.info.url)'
        BY <2>1, <3>0, <4>2, TrueAfterNews DEF Types
      <4> QED
        BY <2>1, <4>1, <4>3 DEF MakesTabOf
    <3>2. CASE t # e.info.target
      <4>1. u = tabs[i].url /\ ~Tells(e, t) /\ ~Ends(e, t)
        BY <2>1, <2>3, <2>4, <3>0, <3>2 DEF Tells, Ends
      <4>2. IsTrue(t, u)
        BY <1>1, <2>1, <3>0, <4>1
      <4>3. IsTrue(t, u)'
        BY <2>1, <3>0, <4>1, <4>2, TrueAfterEvent DEF Types
      <4> QED
        BY <2>1, <4>3 DEF MakesTabOf
    <3> QED
      BY <3>1, <3>2
  <2> QED
    BY <1>1, <2>1, <2>3, <2>4
<1>10. ASSUME NEW e \in Event, RemovesTab(e)
       PROVE  Known /\ Unique
  <2>1. Answers(e) /\ ~EvtEnded /\ ~Making' /\ e.type = "destroyed"
    BY <1>10 DEF RemovesTab, Answers, EvtEnded, Making
  <2>2. /\ \A j \in DOMAIN tabs' : \E i \in DOMAIN tabs : tabs'[j] = tabs[i]
        /\ \A j \in DOMAIN tabs' : tabs'[j].target # e.target
        /\ Unique
    BY <1>1, <1>10, <2>1, RemovedTabs
  <2>3. ASSUME NEW j \in DOMAIN tabs', NEW t, NEW u,
               t = tabs'[j].target, u = tabs'[j].url
        PROVE  IsTrue(t, u)' /\ ~MakesTabOf(t)'
    <3>1. IsTrue(t, u) /\ t \in Targets
      BY <1>1, <1>2, <2>1, <2>2, <2>3
    <3>2. ~Tells(e, t) /\ ~Ends(e, t)
      BY <2>1, <2>2, <2>3 DEF Tells, Ends
    <3>3. IsTrue(t, u)'
      BY <2>1, <3>1, <3>2, TrueAfterEvent DEF Types
    <3> QED
      BY <2>1, <3>3 DEF MakesTabOf
  <2> QED
    BY <2>2, <2>3
<1> QED
  BY <1>3, <1>4, <1>5, <1>6, <1>7, <1>8, <1>9, <1>10 DEF Kinds

-----------------------------------------------------------------------------
(* Every live page is on its way to the list.                              *)
LEMMA ComingStays ==
  ASSUME Types, EventsAreTrue, Kinds, ~EvtEnded', NEW t \in Pages, t \in live',
         t \in live => Coming(t)
  PROVE  Coming(t)'
<1>0. t \in Targets
  BY DEF Targets
<1>1. CASE Silent
  <2>1. Coming(t)
    BY <1>1 DEF Silent
  <2> QED
    BY <1>1, <2>1 DEF Silent, Coming, TabFor, MakesTabOf, BeginsSoon
<1>2. CASE Leaves
  BY <1>2 DEF Leaves, EvtEnded
<1>3. CASE \E t0 \in Targets : HearsBegin(t0) \/ HearsChange(t0) \/ HearsEnd(t0)
  <2>1. PICK t0 \in Targets : HearsBegin(t0) \/ HearsChange(t0) \/ HearsEnd(t0)
    BY <1>3
  <2>2. PICK e \in Event : Hears(e) /\ (HearsBegin(t0) => Begins(e, t0))
    BY <2>1 DEF HearsBegin, HearsChange, HearsEnd
  <2>3. t \in live \/ Begins(e, t)
    BY <2>1, <2>2 DEF HearsBegin, HearsChange, HearsEnd
  <2>4. BeginsSoon(t)' <=> BeginsSoon(t) \/ Begins(e, t)
    BY <2>2, MoreEvents DEF Types
  <2>5. UNCHANGED <<evt, fresh, tabs>>
    BY <2>2 DEF Hears
  <2> QED
    BY <2>3, <2>4, <2>5 DEF Coming, TabFor, MakesTabOf, Making
<1>4. CASE PushesTab
  <2>1. Coming(t) /\ UNCHANGED events
    BY <1>4 DEF PushesTab
  <2>2. /\ fresh \in Info
        /\ DOMAIN tabs = 1..Len(tabs) /\ Len(tabs) \in Nat
        /\ DOMAIN tabs' = 1..Len(tabs) + 1
        /\ tabs'[Len(tabs) + 1].target = fresh.target
        /\ tabs'[Len(tabs) + 1].url = fresh.url
        /\ \A i \in 1..Len(tabs) : tabs'[i] = tabs[i]
    BY <1>4, PushedTabs
  <2>3. Len(tabs) + 1 \in DOMAIN tabs' /\ \A i \in DOMAIN tabs : i \in DOMAIN tabs'
    BY <2>2
  <2> QED
    BY <2>1, <2>2, <2>3 DEF Coming, TabFor, MakesTabOf, BeginsSoon
<1>5. ASSUME NEW e \in Event, PassesOver(e)
      PROVE  Coming(t)'
  <2>1. Answers(e) /\ ~Making /\ UNCHANGED tabs /\ Coming(t) /\ ~Begins(e, t)
    BY <1>5 DEF PassesOver, Answers, Making, Begins
  <2>2. BeginsSoon(t) <=> BeginsSoon(t)' \/ Begins(e, t)
    BY <2>1, FewerEvents DEF Types
  <2> QED
    BY <2>1, <2>2 DEF Coming, TabFor, MakesTabOf
<1>6. ASSUME NEW e \in Event, MakesTab(e)
      PROVE  Coming(t)'
  <2>1. /\ Answers(e) /\ ~Making /\ Making' /\ UNCHANGED tabs /\ Coming(t)
        /\ fresh' = e.info
    BY <1>6 DEF MakesTab, Answers, Making
  <2>2. BeginsSoon(t) <=> BeginsSoon(t)' \/ Begins(e, t)
    BY <2>1, FewerEvents DEF Types
  <2>3. Begins(e, t) => MakesTabOf(t)'
    BY <2>1 DEF Begins, MakesTabOf
  <2> QED
    BY <2>1, <2>2, <2>3 DEF Coming, TabFor, MakesTabOf
<1>7. ASSUME NEW e \in Event, UpdatesTab(e)
      PROVE  Coming(t)'
  <2>1. /\ Answers(e) /\ ~Making /\ Coming(t) /\ ~Begins(e, t)
        /\ tabs' = WithChange(e.info) /\ e.type = "changed"
    BY <1>7 DEF UpdatesTab, Answers, Making, Begins
  <2>2. BeginsSoon(t) <=> BeginsSoon(t)' \/ Begins(e, t)
    BY <2>1, FewerEvents DEF Types
  <2>3. DOMAIN tabs' = DOMAIN tabs
        /\ \A i \in DOMAIN tabs : tabs'[i].target = tabs[i].target
    BY <2>1, EventFields, Updated DEF Types, TypeOK
  <2> QED
    BY <2>1, <2>2, <2>3 DEF Coming, TabFor, MakesTabOf
<1>8. ASSUME NEW e \in Event, RemovesTab(e)
      PROVE  Coming(t)'
  <2>1. /\ Answers(e) /\ ~Making /\ Coming(t) /\ ~Begins(e, t)
        /\ e.type = "destroyed" /\ t \in live
    BY <1>8 DEF RemovesTab, Answers, Making, Begins
  <2>2. BeginsSoon(t) <=> BeginsSoon(t)' \/ Begins(e, t)
    BY <2>1, FewerEvents DEF Types
  <2>3. t # e.target
    <3>1. 1 \in DOMAIN events /\ e = events[1]
      BY <2>1, Answered DEF Types
    <3> QED
      BY <1>0, <2>1, <3>1 DEF EventsAreTrue, TrueEvent, Ends
  <2>4. TabFor(t) => TabFor(t)'
    <3>1. \A i \in DOMAIN tabs : tabs[i].target # e.target =>
            \E j \in DOMAIN tabs' : tabs'[j] = tabs[i]
      BY <1>8, RemovedTabs
    <3> QED
      BY <2>3, <3>1 DEF TabFor
  <2> QED
    BY <2>1, <2>2, <2>4 DEF Coming, MakesTabOf
<1> QED
  BY <1>1, <1>2, <1>3, <1>4, <1>5, <1>6, <1>7, <1>8 DEF Kinds

LEMMA StillUp ==
  ASSUME Kinds, conn' = "up", ~EvtEnded'
  PROVE  conn = "up" /\ ~EvtEnded
BY DEF Kinds, Silent, Leaves, PushesTab, HearsBegin, HearsChange, HearsEnd, Hears,
  PassesOver, MakesTab, UpdatesTab, RemovesTab, Answers, EvtEnded

LEMMA PagesKept ==
  ASSUME Types, EventsAreTrue, PagesAreComing, Kinds
  PROVE  PagesAreComing'
<1> SUFFICES ASSUME conn' = "up", ~EvtEnded', NEW t \in live' \cap Pages
             PROVE  Coming(t)'
  BY DEF PagesAreComing
<1>1. t \in live => Coming(t)
  BY StillUp DEF PagesAreComing
<1> QED
  BY <1>1, ComingStays

LEMMA OpenersKept ==
  ASSUME Types, OpenersWantPages, [Next]_vars
  PROVE  OpenersWantPages'
<1>1. CASE UNCHANGED <<pc, wanted>>
  BY <1>1 DEF OpenersWantPages
<1>2. ASSUME NEW r \in Registrars, RegistrarStep(r)
      PROVE  OpenersWantPages'
  <2>1. UNCHANGED wanted /\ \A o \in Openers : pc'[o] = pc[o]
    BY <1>2, RolesAreDisjoint DEF Types, TypeOK, RegistrarStep, ListTargets, LockTabs,
      RegisterTarget, EnableMissingTab, UnlockTabs, TabFails, Goto, Threads
  <2> QED
    BY <2>1 DEF OpenersWantPages
<1>3. ASSUME NEW o \in Openers, NewTab(o) \/ NewTabPolls(o)
      PROVE  OpenersWantPages'
  BY <1>3 DEF OpenersWantPages, NewTab, NewTabPolls, Goto, Types, TypeOK, Threads
<1>4. CASE \E t \in Targets : TargetOpens(t) \/ TargetCloses(t) \/ TargetChanges(t)
  BY <1>1, <1>4 DEF TargetOpens, TargetCloses, TargetChanges, threadVars
<1>5. CASE ConnectionEnds \/ DropBrowser \/ UNCHANGED vars
  BY <1>1, <1>5 DEF ConnectionEnds, DropBrowser, vars, threadVars
<1>6. CASE EvtStep
  BY <1>1, <1>6 DEF EvtStep, EvtChecksShutdown, EvtHearsNothing, EvtTargetCreated,
    EvtEnablesTab, EvtPushesTab, EvtTargetInfoChanged, EvtTargetDestroyed, EvtPanics,
    NotEvt, threadVars
<1> QED
  BY <1>2, <1>3, <1>4, <1>5, <1>6 DEF Next

LEMMA ReaderKept ==
  ASSUME NoReaderNoEvents, Kinds
  PROVE  NoReaderNoEvents'
BY DEF Kinds, Silent, Leaves, PushesTab, HearsBegin, HearsChange, HearsEnd, Hears,
  PassesOver, MakesTab, UpdatesTab, RemovesTab, Answers, EvtEnded, NoReaderNoEvents

-----------------------------------------------------------------------------
(* The invariant, and what follows from it.                                *)
LEMMA ListInvInit ==
  ASSUME Init
  PROVE  ListInv
<1>1. IsFiniteSet(live)
  BY FS_EmptySet DEF Init
<1>2. <<>> \in Seq(Event) /\ <<>> \in Seq(Tab) /\ <<>> \in Seq(Info)
  BY EmptySeq
<1>3. TypeOK
  <2>1. \A r \in Registrars : pc[r] = "idle" /\ lock # r
    BY LockNames DEF Init, Threads
  <2>2. 0 \in 0..MaxChanges
    BY BoundIsNat
  <2> QED
    BY <1>2, <2>1, <2>2 DEF Init, TypeOK, Working
<1>4. DOMAIN events = {} /\ DOMAIN tabs = {}
  BY DEF Init
<1> QED
  BY <1>1, <1>3, <1>4 DEF Init, ListInv, Types, Making, EvtEnded, NoReaderNoEvents,
    EventsAreTrue, FreshIsTrue, TabsAreTrue, PagesAreComing, OpenersWantPages, Threads

LEMMA ListInvKept ==
  ASSUME ListInv, [Next]_vars
  PROVE  ListInv'
<1>1. Types' /\ OpenersWantPages' /\ (Quiet' => Quiet)
  BY TypesKept, OpenersKept, QuietBefore DEF ListInv
<1>2. Kinds
  BY StepKinds DEF ListInv
<1>3. NoReaderNoEvents' /\ EventsAreTrue' /\ FreshIsTrue'
  BY <1>2, ReaderKept, EventsKept, FreshKept DEF ListInv, Types
<1>4. TabsAreTrue' /\ PagesAreComing'
  BY <1>1, <1>2, TabsKept, PagesKept DEF ListInv
<1> QED
  BY <1>1, <1>3, <1>4 DEF ListInv

LEMMA Invariance == Spec => []ListInv
<1>1. Init => ListInv
  BY ListInvInit
<1>2. ListInv /\ [Next]_vars => ListInv'
  BY ListInvKept
<1> QED
  BY <1>1, <1>2, PTL DEF Spec

(* The types hold, and the list's mutex is held by the thread that is in   *)
(* register_missing_tabs' section, and by no other: every way out of the   *)
(* section gives the guard back.                                           *)
THEOREM TypeCorrect == Spec => []TypeOK
<1>1. ListInv => TypeOK
  BY DEF ListInv, Types
<1> QED
  BY <1>1, Invariance, PTL

(* While nobody calls register_missing_tabs, the settled list is Chrome's  *)
(* pages, each once, with the latest url it had outside devtools://, for   *)
(* any number of pages that come, change and go while tabs are made.       *)
THEOREM TheListIsCurrent == Spec => []ListIsCurrent
<1>1. ASSUME ListInv
      PROVE  ListIsCurrent
  <2> SUFFICES ASSUME Settled, \A r \in Registrars : pc[r] = "idle"
               PROVE  /\ ListedTargets = live \cap Pages
                      /\ \A i \in DOMAIN tabs : IsCurrent(tabs[i])
                      /\ \A i, j \in DOMAIN tabs :
                           tabs[i].target = tabs[j].target => i = j
    BY DEF ListIsCurrent
  <2>1. /\ Quiet /\ ~EvtEnded /\ ~Making /\ conn = "up" /\ DOMAIN events = {}
    BY DEF Settled, Quiet, EvtEnded, Making
  <2>2. /\ \A t : ~BeginsSoon(t) /\ ~EndsSoon(t) /\ ~MakesTabOf(t)
        /\ \A t, v : ~TellsOf(t, v)
    BY <2>1 DEF BeginsSoon, TellsOf, EndsSoon, MakesTabOf
  <2>3. /\ \A i \in DOMAIN tabs : IsTrue(tabs[i].target, tabs[i].url)
        /\ \A i, j \in DOMAIN tabs : tabs[i].target = tabs[j].target => i = j
    BY <1>1, <2>1 DEF ListInv, TabsAreTrue
  <2>4. \A i \in DOMAIN tabs :
          tabs[i].target \in live \cap Pages /\ IsCurrent(tabs[i])
    BY <2>2, <2>3 DEF IsTrue, IsCurrent
  <2>5. \A t \in live \cap Pages : TabFor(t)
    BY <1>1, <2>1, <2>2 DEF ListInv, PagesAreComing, Coming
  <2> QED
    BY <2>3, <2>4, <2>5 DEF ListedTargets, TabFor
<1> QED
  BY <1>1, Invariance, PTL

(* Whatever register_missing_tabs does to the list meanwhile, and however  *)
(* many threads do it, the settled list has every page of Chrome's.        *)
THEOREM NoPageIsMissing == Spec => []EveryPageIsListed
<1>1. ASSUME ListInv
      PROVE  EveryPageIsListed
  <2> SUFFICES ASSUME Settled, NEW t \in live \cap Pages
               PROVE  t \in ListedTargets
    BY DEF EveryPageIsListed
  <2>1. ~EvtEnded /\ ~Making /\ conn = "up" /\ DOMAIN events = {}
    BY DEF Settled, EvtEnded, Making
  <2>2. TabFor(t)
    BY <1>1, <2>1 DEF ListInv, PagesAreComing, Coming, BeginsSoon, MakesTabOf
  <2> QED
    BY <2>2 DEF ListedTargets, TabFor
<1> QED
  BY <1>1, Invariance, PTL

(* new_tab polls for a tab that is listed or still on its way to the list, *)
(* as long as its target, the connection and the event thread live.        *)
THEOREM PolledTabIsComing == Spec => []OpenedTabIsComing
<1>1. ASSUME ListInv
      PROVE  OpenedTabIsComing
  <2> SUFFICES ASSUME NEW o \in Openers, pc[o] = "poll", wanted[o] \in live,
                      conn = "up", ~EvtEnded
               PROVE  \/ Listed(wanted[o])
                      \/ evt \in {"enable", "push"} /\ fresh.target = wanted[o]
                      \/ \E i \in DOMAIN events : events[i].type = "created"
                                              /\ events[i].info.target = wanted[o]
    BY DEF OpenedTabIsComing
  <2>1. Coming(wanted[o])
    BY <1>1 DEF ListInv, PagesAreComing, OpenersWantPages
  <2>2. ASSUME NEW t, TabFor(t)
        PROVE  Listed(t)
    <3>1. Len(tabs) \in Nat /\ DOMAIN tabs = 1..Len(tabs)
      BY <1>1, TabFields DEF ListInv
    <3>2. FirstWith(tabs, t) \in 1..Len(tabs)
      BY <2>2, <3>1, FirstIsFirst DEF TabFor
    <3> QED
      BY <3>1, <3>2, PositionIsFirst DEF Listed
  <2> QED
    BY <2>1, <2>2 DEF Coming, BeginsSoon, Begins, MakesTabOf, Making
<1> QED
  BY <1>1, Invariance, PTL

-----------------------------------------------------------------------------
(* The poisoned list.                                                      *)
LEMMA PoisonKept ==
  ASSUME TypeOK, PoisonInv, [Next]_vars
  PROVE  PoisonInv'
<1> SUFFICES ASSUME ~WaitsExpire
             PROVE  /\ lock' = "poisoned" \/ evt' = "panicked" => conn' = "down"
                    /\ \A k \in Threads : pc'[k] \in {"failed", "panicked"} => conn' = "down"
  BY DEF PoisonInv
<1>0. /\ lock = "poisoned" \/ evt = "panicked" => conn = "down"
      /\ \A k \in Threads : pc[k] \in {"failed", "panicked"} => conn = "down"
  BY DEF PoisonInv
<1> USE DEF TypeOK, Threads, Goto
<1>1. ASSUME NEW t \in Targets, NEW e, Announce(e), conn = "up",
             UNCHANGED <<evt, lock>>,
             \A k \in Threads : pc'[k] = pc[k] \/ pc'[k] = "poll"
      PROVE  PoisonInv'
  BY <1>0, <1>1 DEF Announce, PoisonInv
<1>2. CASE \E t \in Targets : TargetOpens(t) \/ TargetCloses(t) \/ TargetChanges(t)
  BY <1>1, <1>2 DEF TargetOpens, Opens, TargetCloses, TargetChanges, NotChrome, evtVars,
                    listVars, threadVars, PoisonInv
<1>3. CASE ConnectionEnds \/ DropBrowser \/ UNCHANGED vars
  BY <1>0, <1>3 DEF ConnectionEnds, DropBrowser, vars, NotChrome, evtVars, listVars, threadVars
<1>4. CASE EvtStep
  BY <1>0, <1>4 DEF EvtStep, EvtChecksShutdown, EvtHearsNothing, EvtTargetCreated,
    EvtEnablesTab, EvtPushesTab, EvtTargetInfoChanged, EvtTargetDestroyed, EvtPanics,
    EvtEnds, NotEvt, listVars, threadVars
<1>5. ASSUME NEW o \in Openers, NewTab(o)
      PROVE  PoisonInv'
  <2>1. CASE \E t \in Pages : Opens(t) /\ Goto(o, "poll")
    BY <1>1, <2>1 DEF Opens, NotChrome, evtVars, listVars, Targets
  <2>2. CASE conn = "down" /\ Goto(o, "done") /\ UNCHANGED <<conn, evt, lock>>
    BY <2>2 DEF PoisonInv
  <2> QED
    BY <1>5, <2>1, <2>2 DEF NewTab, NotThread, evtVars, listVars
<1>6. ASSUME NEW o \in Openers, NewTabPolls(o)
      PROVE  PoisonInv'
  BY <1>0, <1>6 DEF NewTabPolls, NotThread, evtVars, listVars, PoisonInv
<1>7. ASSUME NEW r \in Registrars, RegistrarStep(r)
      PROVE  PoisonInv'
  <2>1. UNCHANGED <<conn, evt>>
    BY <1>7 DEF RegistrarStep, ListTargets, LockTabs, RegisterTarget, EnableMissingTab,
      UnlockTabs, NotThread, evtVars
  <2>2. \A k \in Threads : k # r => pc'[k] = pc[k]
    BY <1>7 DEF RegistrarStep, ListTargets, LockTabs, RegisterTarget, TabFails,
      EnableMissingTab, UnlockTabs
  <2>3. lock' = "poisoned" => lock = "poisoned" \/ pc[r] = "failed"
    BY <1>7, LockNames DEF RegistrarStep, ListTargets, LockTabs, RegisterTarget, TabFails,
      EnableMissingTab, UnlockTabs, listVars
  <2>4. pc'[r] \in {"failed", "panicked"}
          => conn = "down" \/ lock = "poisoned" \/ pc[r] = "failed"
    BY <1>7 DEF RegistrarStep, ListTargets, LockTabs, RegisterTarget, TabFails,
      EnableMissingTab, UnlockTabs
  <2>5. pc[r] = "failed" \/ lock = "poisoned" => conn' = "down"
    BY <1>0, <2>1
  <2> QED
    BY <1>0, <2>1, <2>2, <2>3, <2>4, <2>5 DEF PoisonInv
<1> QED
  BY <1>2, <1>3, <1>4, <1>5, <1>6, <1>7 DEF Next, PoisonInv

(* Where no wait expires, nobody poisons the list, or panics on it, while  *)
(* the connection is up: a target that closes while its tab is made makes  *)
(* Tab::new fail, and that error leaves the list usable.                   *)
THEOREM PoisonComesLast ==
  ASSUME ~WaitsExpire
  PROVE  Spec => []PoisonedOnlyAtTheEnd
<1>1. Init => PoisonInv
  BY DEF Init, PoisonInv
<1>2. ListInv /\ PoisonInv /\ [Next]_vars => PoisonInv'
  BY PoisonKept DEF ListInv, Types
<1>3. PoisonInv => PoisonedOnlyAtTheEnd
  BY DEF PoisonInv, PoisonedOnlyAtTheEnd
<1> QED
  BY <1>1, <1>2, <1>3, Invariance, PTL DEF Spec
=============================================================================
