--------------------------- MODULE ElementsProofs ---------------------------
(***************************************************************************)
(* Elements, for any number of threads and any operations, in any order:   *)
(* the invariant ElementsInv and the six properties that follow from it.   *)
(*                                                                         *)
(* The invariant is of one thread at a time, ThreadInv.  A step of another *)
(* thread, or of the page, makes a thread a Bystander, and BystanderKeeps  *)
(* is proved once; for the thread that acts there is a lemma for each      *)
(* call, all of which go on, begin again or end (FinderProceeds,           *)
(* FinderRepeats, FinderFails; ActProceeds, ActFails).  CallOrder is what  *)
(* they know of the sequences of calls.                                    *)
(***************************************************************************)
EXTENDS Elements, SequenceTheorems, TLAPS

(* A concatenation, element by element.                                    *)
LEMMA Joined ==
  ASSUME NEW S, NEW s \in Seq(S), NEW u \in Seq(S), NEW w \in Seq(S),
         Len(w) = Len(s) + Len(u),
         \A i \in 1..Len(s) : w[i] = s[i],
         \A i \in 1..Len(u) : w[Len(s) + i] = u[i]
  PROVE  s \o u = w
<1>1. Len(s) \in Nat /\ Len(u) \in Nat
  BY LenProperties
<1>2. /\ s \o u \in Seq(S) /\ Len(s \o u) = Len(s) + Len(u)
      /\ \A i \in 1..Len(s) + Len(u) : (s \o u)[i] =
           IF i <= Len(s) THEN s[i] ELSE u[i - Len(s)]
  BY ConcatProperties
<1>3. ASSUME NEW i \in 1..Len(s) + Len(u)
      PROVE  (s \o u)[i] = w[i]
  <2>1. CASE i <= Len(s)
    BY <1>1, <1>2, <2>1
  <2>2. CASE ~(i <= Len(s))
    <3>1. i - Len(s) \in 1..Len(u) /\ Len(s) + (i - Len(s)) = i
      BY <1>1, <2>2
    <3>2. w[Len(s) + (i - Len(s))] = u[i - Len(s)]
      BY <3>1
    <3> QED
      BY <1>2, <2>2, <3>1, <3>2
  <2> QED
    BY <2>1, <2>2
<1> QED
  BY <1>2, <1>3, SeqEqual

(* The sequences that are written with \o, written out.                    *)
FindCalls == <<"document", "query", "describe", "resolve">>
FindAllCalls == <<"document", "queryAll", "describe", "resolve">>
VisibleCalls == <<"document", "query", "describe", "resolve", "visible">>
ClickCalls == <<"scroll", "quads", "poll", "move", "press", "release">>
TypeCalls == <<"scroll", "quads", "poll", "move", "press", "release", "keyDown",
               "keyUp", "insert">>

LEMMA FindCallsJoined == <<"document">> \o ByQuery = FindCalls
<1> DEFINE S == {"describe", "document", "query", "resolve"}
           s == <<"document">>
           u == ByQuery
           w == FindCalls
<1>1. s \in Seq(S) /\ Len(s) = 1 /\ u \in Seq(S) /\ Len(u) = 3
  BY DEF ByQuery, FindCalls
<1>2. w \in Seq(S) /\ Len(w) = 4
  BY DEF ByQuery, FindCalls
<1>3. \A i \in 1..1 : w[i] = s[i]
  BY DEF ByQuery, FindCalls
<1>4. \A i \in 1..3 : w[1 + i] = u[i]
  BY DEF ByQuery, FindCalls
<1> HIDE DEF S, s, u, w
<1>5. /\ Len(w) = Len(s) + Len(u)
      /\ \A i \in 1..Len(s) : w[i] = s[i]
      /\ \A i \in 1..Len(u) : w[Len(s) + i] = u[i]
  BY <1>1, <1>2, <1>3, <1>4
<1>6. s \o u = w
  BY <1>1, <1>2, <1>5, Joined
<1> QED
  BY <1>6 DEF s, u, w

LEMMA FindAllCallsJoined == <<"document">> \o ByAll = FindAllCalls
<1> DEFINE S == {"describe", "document", "queryAll", "resolve"}
           s == <<"document">>
           u == ByAll
           w == FindAllCalls
<1>1. s \in Seq(S) /\ Len(s) = 1 /\ u \in Seq(S) /\ Len(u) = 3
  BY DEF ByAll, FindAllCalls
<1>2. w \in Seq(S) /\ Len(w) = 4
  BY DEF ByAll, FindAllCalls
<1>3. \A i \in 1..1 : w[i] = s[i]
  BY DEF ByAll, FindAllCalls
<1>4. \A i \in 1..3 : w[1 + i] = u[i]
  BY DEF ByAll, FindAllCalls
<1> HIDE DEF S, s, u, w
<1>5. /\ Len(w) = Len(s) + Len(u)
      /\ \A i \in 1..Len(s) : w[i] = s[i]
      /\ \A i \in 1..Len(u) : w[Len(s) + i] = u[i]
  BY <1>1, <1>2, <1>3, <1>4
<1>6. s \o u = w
  BY <1>1, <1>2, <1>5, Joined
<1> QED
  BY <1>6 DEF s, u, w

LEMMA VisibleCallsJoined == FindCalls \o <<"visible">> = VisibleCalls
<1> DEFINE S == {"describe", "document", "query", "resolve", "visible"}
           s == FindCalls
           u == <<"visible">>
           w == VisibleCalls
<1>1. s \in Seq(S) /\ Len(s) = 4 /\ u \in Seq(S) /\ Len(u) = 1
  BY DEF FindCalls, VisibleCalls
<1>2. w \in Seq(S) /\ Len(w) = 5
  BY DEF FindCalls, VisibleCalls
<1>3. \A i \in 1..4 : w[i] = s[i]
  BY DEF FindCalls, VisibleCalls
<1>4. \A i \in 1..1 : w[4 + i] = u[i]
  BY DEF FindCalls, VisibleCalls
<1> HIDE DEF S, s, u, w
<1>5. /\ Len(w) = Len(s) + Len(u)
      /\ \A i \in 1..Len(s) : w[i] = s[i]
      /\ \A i \in 1..Len(u) : w[Len(s) + i] = u[i]
  BY <1>1, <1>2, <1>3, <1>4
<1>6. s \o u = w
  BY <1>1, <1>2, <1>5, Joined
<1> QED
  BY <1>6 DEF s, u, w

LEMMA ClickCallsJoined == ToPoint \o <<"press", "release">> = ClickCalls
<1> DEFINE S == {"move", "poll", "press", "quads", "release", "scroll"}
           s == ToPoint
           u == <<"press", "release">>
           w == ClickCalls
<1>1. s \in Seq(S) /\ Len(s) = 4 /\ u \in Seq(S) /\ Len(u) = 2
  BY DEF ToPoint, ClickCalls
<1>2. w \in Seq(S) /\ Len(w) = 6
  BY DEF ToPoint, ClickCalls
<1>3. \A i \in 1..4 : w[i] = s[i]
  BY DEF ToPoint, ClickCalls
<1>4. \A i \in 1..2 : w[4 + i] = u[i]
  BY DEF ToPoint, ClickCalls
<1> HIDE DEF S, s, u, w
<1>5. /\ Len(w) = Len(s) + Len(u)
      /\ \A i \in 1..Len(s) : w[i] = s[i]
      /\ \A i \in 1..Len(u) : w[Len(s) + i] = u[i]
  BY <1>1, <1>2, <1>3, <1>4
<1>6. s \o u = w
  BY <1>1, <1>2, <1>5, Joined
<1> QED
  BY <1>6 DEF s, u, w

LEMMA TypeCallsJoined == ClickCalls \o TypeStr = TypeCalls
<1> DEFINE S == {"insert", "keyDown", "keyUp", "move", "poll", "press", "quads",
    "release", "scroll"}
           s == ClickCalls
           u == TypeStr
           w == TypeCalls
<1>1. s \in Seq(S) /\ Len(s) = 6 /\ u \in Seq(S) /\ Len(u) = 3
  BY DEF ClickCalls, TypeStr, TypeCalls
<1>2. w \in Seq(S) /\ Len(w) = 9
  BY DEF ClickCalls, TypeStr, TypeCalls
<1>3. \A i \in 1..6 : w[i] = s[i]
  BY DEF ClickCalls, TypeStr, TypeCalls
<1>4. \A i \in 1..3 : w[6 + i] = u[i]
  BY DEF ClickCalls, TypeStr, TypeCalls
<1> HIDE DEF S, s, u, w
<1>5. /\ Len(w) = Len(s) + Len(u)
      /\ \A i \in 1..Len(s) : w[i] = s[i]
      /\ \A i \in 1..Len(u) : w[Len(s) + i] = u[i]
  BY <1>1, <1>2, <1>3, <1>4
<1>6. s \o u = w
  BY <1>1, <1>2, <1>5, Joined
<1> QED
  BY <1>6 DEF s, u, w

-----------------------------------------------------------------------------
(* The operations and their calls.                                         *)
LEMMA OpNames ==
  /\ Ops(TabFinds) = {"find", "findAll", "xpath", "xpathAll"}
  /\ Ops(OnTab) = {"getDocument"}
  /\ Ops(TabWaits) = {"wait", "waitAll", "waitXpath", "waitXpathAll", "waitVisible"}
  /\ Ops(ElemFinds) = {"findIn", "findAllIn", "xpathIn", "xpathAllIn"}
  /\ Ops(ElemWaits) = {"waitIn", "waitAllIn", "waitXpathIn", "waitXpathAllIn"}
  /\ Ops(Acts) = {"click", "hover", "type", "focus", "shot", "read", "styles"}
BY DEF Ops, TabFinds, OnTab, TabWaits, ElemFinds, ElemWaits, Acts

ToPointOps == {"click", "hover", "type"}
XpathOps == {"xpath", "xpathAll", "waitXpath", "waitXpathAll",
             "xpathIn", "xpathAllIn", "waitXpathIn", "waitXpathAllIn"}

LEMMA CallsOf ==
  /\ \A o \in {"find", "wait"} : Calls(o) = FindCalls
  /\ \A o \in {"findAll", "waitAll"} : Calls(o) = FindAllCalls
  /\ Calls("waitVisible") = VisibleCalls
  /\ \A o \in XpathOps : Calls(o) = ByXpath
  /\ \A o \in {"findIn", "waitIn"} : Calls(o) = ByQuery
  /\ \A o \in {"findAllIn", "waitAllIn"} : Calls(o) = ByAll
  /\ Calls("getDocument") = <<"document">>
  /\ Calls("hover") = ToPoint /\ Calls("click") = ClickCalls /\ Calls("type") = TypeCalls
  /\ Calls("focus") = Focus /\ Calls("shot") = Shot /\ Calls("read") = Read
  /\ Calls("styles") = <<"styles">>
<1>1. /\ TabFinds.find = FindCalls /\ TabFinds.findAll = FindAllCalls
      /\ TabFinds.xpath = ByXpath /\ TabFinds.xpathAll = ByXpath
  BY FindCallsJoined, FindAllCallsJoined DEF TabFinds
<1>2. /\ TabWaits.wait = FindCalls /\ TabWaits.waitAll = FindAllCalls
      /\ TabWaits.waitXpath = ByXpath /\ TabWaits.waitXpathAll = ByXpath
      /\ TabWaits.waitVisible = VisibleCalls
  BY <1>1, VisibleCallsJoined DEF TabWaits
<1>3. /\ ElemFinds.findIn = ByQuery /\ ElemFinds.findAllIn = ByAll
      /\ ElemFinds.xpathIn = ByXpath /\ ElemFinds.xpathAllIn = ByXpath
  BY DEF ElemFinds
<1>4. /\ ElemWaits.waitIn = ByQuery /\ ElemWaits.waitAllIn = ByAll
      /\ ElemWaits.waitXpathIn = ByXpath /\ ElemWaits.waitXpathAllIn = ByXpath
  BY DEF ElemWaits
<1>5. OnTab.getDocument = <<"document">>
  BY DEF OnTab
<1>6. /\ Acts.hover = ToPoint /\ Acts.click = ClickCalls /\ Acts.type = TypeCalls
      /\ Acts.focus = Focus /\ Acts.shot = Shot /\ Acts.read = Read
      /\ Acts.styles = <<"styles">>
  BY ClickCallsJoined, TypeCallsJoined DEF Acts, Click
<1>7. /\ Calls("find") = FindCalls /\ Calls("findAll") = FindAllCalls
      /\ Calls("xpath") = ByXpath /\ Calls("xpathAll") = ByXpath
  BY <1>1, OpNames DEF Calls
<1>8. /\ Calls("wait") = FindCalls /\ Calls("waitAll") = FindAllCalls
      /\ Calls("waitXpath") = ByXpath /\ Calls("waitXpathAll") = ByXpath
      /\ Calls("waitVisible") = VisibleCalls
  BY <1>2, OpNames DEF Calls
<1>9. /\ Calls("findIn") = ByQuery /\ Calls("findAllIn") = ByAll
      /\ Calls("xpathIn") = ByXpath /\ Calls("xpathAllIn") = ByXpath
  BY <1>3, OpNames DEF Calls
<1>10. /\ Calls("waitIn") = ByQuery /\ Calls("waitAllIn") = ByAll
       /\ Calls("waitXpathIn") = ByXpath /\ Calls("waitXpathAllIn") = ByXpath
  BY <1>4, OpNames DEF Calls
<1>11. Calls("getDocument") = <<"document">>
  BY <1>5, OpNames DEF Calls
<1>12. /\ Calls("hover") = ToPoint /\ Calls("click") = ClickCalls
       /\ Calls("type") = TypeCalls /\ Calls("focus") = Focus /\ Calls("shot") = Shot
       /\ Calls("read") = Read /\ Calls("styles") = <<"styles">>
  BY <1>6, OpNames DEF Calls
<1> QED
  BY <1>7, <1>8, <1>9, <1>10, <1>11, <1>12 DEF XpathOps

(* Every operation, by its calls.                                          *)
LEMMA OperationsBySequence ==
  ASSUME NEW o \in Operations
  PROVE  \/ o \in {"find", "wait"} /\ Calls(o) = FindCalls
         \/ o \in {"findAll", "waitAll"} /\ Calls(o) = FindAllCalls
         \/ o = "waitVisible" /\ Calls(o) = VisibleCalls
         \/ o \in XpathOps /\ Calls(o) = ByXpath
         \/ o \in {"findIn", "waitIn"} /\ Calls(o) = ByQuery
         \/ o \in {"findAllIn", "waitAllIn"} /\ Calls(o) = ByAll
         \/ o = "getDocument" /\ Calls(o) = <<"document">>
         \/ o = "hover" /\ Calls(o) = ToPoint
         \/ o = "click" /\ Calls(o) = ClickCalls
         \/ o = "type" /\ Calls(o) = TypeCalls
         \/ o = "focus" /\ Calls(o) = Focus
         \/ o = "shot" /\ Calls(o) = Shot
         \/ o = "read" /\ Calls(o) = Read
         \/ o = "styles" /\ Calls(o) = <<"styles">>
<1>1. o \in {"find", "wait"} \cup {"findAll", "waitAll"} \cup {"waitVisible"}
            \cup XpathOps \cup {"findIn", "waitIn"} \cup {"findAllIn", "waitAllIn"}
            \cup {"getDocument"} \cup Ops(Acts)
  BY OpNames DEF Operations, Finders, Waits, XpathOps
<1> QED
  BY <1>1, CallsOf, OpNames

(* Which call may be the i-th, of which operations, and which the next.    *)
Searching == {"query", "queryAll", "search", "results"}
Holding == {"describe", "resolve", "visible"}
Input == {"move", "press", "release", "keyDown", "keyUp", "insert", "capture"}

Fits(o, n, i, c) ==
  /\ c \in Searching \cup Holding => o \in Finders
  /\ c = "document" => o \in Finders \cup Ops(OnTab)
  /\ c \in {"object", "focus", "box", "styles", "scroll", "quads",
      "poll"} \cup Input => o \in Ops(Acts)
  /\ c = "results" => o \in XpathOps
  /\ c = "queryAll" /\ o \in OnElement => o \in {"findAllIn", "waitAllIn"}
  /\ c = "object" => o = "read"
  /\ c = "focus" => o = "focus"
  /\ c = "visible" => o = "waitVisible"
  /\ c = "box" => o = "shot"
  /\ c = "styles" => o = "styles"
  /\ c \in {"quads", "poll"} => o \in ToPointOps
  /\ o \in Finders /\ i = n => c \in {"resolve", "visible"}
  /\ i = 1 => c \notin Holding \cup {"results"}
  /\ i = 1 /\ o \in Ops(TabWaits) => c = "document"
  /\ o \in ToPointOps =>
       n >= 4 /\ (c = "scroll" <=> i = 1) /\ (c = "quads" <=> i = 2) /\ (c = "poll" <=> i = 3)

Follows(c, d) ==
  /\ d = "describe" => c \in {"query", "queryAll", "results"}
  /\ d = "resolve" => c = "describe"
  /\ d = "visible" => c = "resolve"
  /\ d \in {"query", "queryAll", "search"} => c = "document"
  /\ d = "results" => c = "search"

LEMMA CallOrder ==
  ASSUME NEW o \in Operations
  PROVE  /\ Len(Calls(o)) \in Nat \ {0}
         /\ \A i \in 1..Len(Calls(o)) : Fits(o, Len(Calls(o)), i, Calls(o)[i])
         /\ \A i \in 1..Len(Calls(o)) - 1 : Follows(Calls(o)[i], Calls(o)[i + 1])
<1> USE OpNames DEF Fits, Follows, Searching, Holding, Input, Finders, Waits, OnElement,
        XpathOps, ToPointOps
<1>1. CASE o \in {"find", "wait"} /\ Calls(o) = FindCalls
  BY <1>1 DEF FindCalls
<1>2. CASE o \in {"findAll", "waitAll"} /\ Calls(o) = FindAllCalls
  BY <1>2 DEF FindAllCalls
<1>3. CASE o = "waitVisible" /\ Calls(o) = VisibleCalls
  <2>1. /\ Len(Calls(o)) = 5
        /\ Calls(o)[1] = "document"
        /\ Calls(o)[2] = "query"
        /\ Calls(o)[3] = "describe"
        /\ Calls(o)[4] = "resolve"
        /\ Calls(o)[5] = "visible"
    BY <1>3 DEF VisibleCalls
  <2> HIDE DEF Fits, Follows
  <2>2. Fits(o, 5, 1, "document")
    BY <1>3 DEF Fits
  <2>3. Fits(o, 5, 2, "query")
    BY <1>3 DEF Fits
  <2>4. Fits(o, 5, 3, "describe")
    BY <1>3 DEF Fits
  <2>5. Fits(o, 5, 4, "resolve")
    BY <1>3 DEF Fits
  <2>6. Fits(o, 5, 5, "visible")
    BY <1>3 DEF Fits
  <2>7. \A i \in 1..5 : Fits(o, 5, i, Calls(o)[i])
    <3>1. \A i \in 1..5 : i = 1 \/ i = 2 \/ i = 3 \/ i = 4 \/ i = 5
      OBVIOUS
    <3> QED
      BY <3>1, <2>1, <2>2, <2>3, <2>4, <2>5, <2>6
  <2>8. Follows("document", "query")
    BY DEF Follows
  <2>9. Follows("query", "describe")
    BY DEF Follows
  <2>10. Follows("describe", "resolve")
    BY DEF Follows
  <2>11. Follows("resolve", "visible")
    BY DEF Follows
  <2>12. \A i \in 1..4 : Follows(Calls(o)[i], Calls(o)[i + 1])
    <3>1. \A i \in 1..4 :
          (i = 1 /\ i + 1 = 2) \/ (i = 2 /\ i + 1 = 3) \/ (i = 3 /\ i + 1 = 4)
          \/ (i = 4 /\ i + 1 = 5)
      OBVIOUS
    <3> QED
      BY <3>1, <2>1, <2>8, <2>9, <2>10, <2>11
  <2> QED
    BY <2>1, <2>7, <2>12
<1>4. CASE o \in XpathOps /\ Calls(o) = ByXpath
  BY <1>4 DEF ByXpath
<1>5. CASE o \in {"findIn", "waitIn"} /\ Calls(o) = ByQuery
  BY <1>5 DEF ByQuery
<1>6. CASE o \in {"findAllIn", "waitAllIn"} /\ Calls(o) = ByAll
  BY <1>6 DEF ByAll
<1>7. CASE o = "getDocument" /\ Calls(o) = <<"document">>
  BY <1>7
<1>8. CASE o = "hover" /\ Calls(o) = ToPoint
  <2>1. /\ Len(Calls(o)) = 4
        /\ Calls(o)[1] = "scroll"
        /\ Calls(o)[2] = "quads"
        /\ Calls(o)[3] = "poll"
        /\ Calls(o)[4] = "move"
    BY <1>8 DEF ToPoint
  <2> HIDE DEF Fits, Follows
  <2>2. Fits(o, 4, 1, "scroll")
    BY <1>8 DEF Fits
  <2>3. Fits(o, 4, 2, "quads")
    BY <1>8 DEF Fits
  <2>4. Fits(o, 4, 3, "poll")
    BY <1>8 DEF Fits
  <2>5. Fits(o, 4, 4, "move")
    BY <1>8 DEF Fits
  <2>6. \A i \in 1..4 : Fits(o, 4, i, Calls(o)[i])
    <3>1. \A i \in 1..4 : i = 1 \/ i = 2 \/ i = 3 \/ i = 4
      OBVIOUS
    <3> QED
      BY <3>1, <2>1, <2>2, <2>3, <2>4, <2>5
  <2>7. Follows("scroll", "quads")
    BY DEF Follows
  <2>8. Follows("quads", "poll")
    BY DEF Follows
  <2>9. Follows("poll", "move")
    BY DEF Follows
  <2>10. \A i \in 1..3 : Follows(Calls(o)[i], Calls(o)[i + 1])
    <3>1. \A i \in 1..3 : (i = 1 /\ i + 1 = 2) \/ (i = 2 /\ i + 1 = 3) \/ (i = 3 /\ i + 1 = 4)
      OBVIOUS
    <3> QED
      BY <3>1, <2>1, <2>7, <2>8, <2>9
  <2> QED
    BY <2>1, <2>6, <2>10
<1>9. CASE o = "click" /\ Calls(o) = ClickCalls
  <2>1. /\ Len(Calls(o)) = 6
        /\ Calls(o)[1] = "scroll"
        /\ Calls(o)[2] = "quads"
        /\ Calls(o)[3] = "poll"
        /\ Calls(o)[4] = "move"
        /\ Calls(o)[5] = "press"
        /\ Calls(o)[6] = "release"
    BY <1>9 DEF ClickCalls
  <2> HIDE DEF Fits, Follows
  <2>2. Fits(o, 6, 1, "scroll")
    BY <1>9 DEF Fits
  <2>3. Fits(o, 6, 2, "quads")
    BY <1>9 DEF Fits
  <2>4. Fits(o, 6, 3, "poll")
    BY <1>9 DEF Fits
  <2>5. Fits(o, 6, 4, "move")
    BY <1>9 DEF Fits
  <2>6. Fits(o, 6, 5, "press")
    BY <1>9 DEF Fits
  <2>7. Fits(o, 6, 6, "release")
    BY <1>9 DEF Fits
  <2>8. \A i \in 1..6 : Fits(o, 6, i, Calls(o)[i])
    <3>1. \A i \in 1..6 : i = 1 \/ i = 2 \/ i = 3 \/ i = 4 \/ i = 5 \/ i = 6
      OBVIOUS
    <3> QED
      BY <3>1, <2>1, <2>2, <2>3, <2>4, <2>5, <2>6, <2>7
  <2>9. Follows("scroll", "quads")
    BY DEF Follows
  <2>10. Follows("quads", "poll")
    BY DEF Follows
  <2>11. Follows("poll", "move")
    BY DEF Follows
  <2>12. Follows("move", "press")
    BY DEF Follows
  <2>13. Follows("press", "release")
    BY DEF Follows
  <2>14. \A i \in 1..5 : Follows(Calls(o)[i], Calls(o)[i + 1])
    <3>1. \A i \in 1..5 :
          (i = 1 /\ i + 1 = 2)
          \/ (i = 2 /\ i + 1 = 3)
          \/ (i = 3 /\ i + 1 = 4)
          \/ (i = 4 /\ i + 1 = 5)
          \/ (i = 5 /\ i + 1 = 6)
      OBVIOUS
    <3> QED
      BY <3>1, <2>1, <2>9, <2>10, <2>11, <2>12, <2>13
  <2> QED
    BY <2>1, <2>8, <2>14
<1>10. CASE o = "type" /\ Calls(o) = TypeCalls
  <2>1. /\ Len(Calls(o)) = 9
        /\ Calls(o)[1] = "scroll"
        /\ Calls(o)[2] = "quads"
        /\ Calls(o)[3] = "poll"
        /\ Calls(o)[4] = "move"
        /\ Calls(o)[5] = "press"
        /\ Calls(o)[6] = "release"
        /\ Calls(o)[7] = "keyDown"
        /\ Calls(o)[8] = "keyUp"
        /\ Calls(o)[9] = "insert"
    BY <1>10 DEF TypeCalls
  <2> HIDE DEF Fits, Follows
  <2>2. Fits(o, 9, 1, "scroll")
    BY <1>10 DEF Fits
  <2>3. Fits(o, 9, 2, "quads")
    BY <1>10 DEF Fits
  <2>4. Fits(o, 9, 3, "poll")
    BY <1>10 DEF Fits
  <2>5. Fits(o, 9, 4, "move")
    BY <1>10 DEF Fits
  <2>6. Fits(o, 9, 5, "press")
    BY <1>10 DEF Fits
  <2>7. Fits(o, 9, 6, "release")
    BY <1>10 DEF Fits
  <2>8. Fits(o, 9, 7, "keyDown")
    BY <1>10 DEF Fits
  <2>9. Fits(o, 9, 8, "keyUp")
    BY <1>10 DEF Fits
  <2>10. Fits(o, 9, 9, "insert")
    BY <1>10 DEF Fits
  <2>11. \A i \in 1..9 : Fits(o, 9, i, Calls(o)[i])
    <3>1. \A i \in 1..9 :
          i = 1 \/ i = 2 \/ i = 3 \/ i = 4 \/ i = 5 \/ i = 6 \/ i = 7 \/ i = 8
          \/ i = 9
      OBVIOUS
    <3> QED
      BY <3>1, <2>1, <2>2, <2>3, <2>4, <2>5, <2>6, <2>7, <2>8, <2>9, <2>10
  <2>12. Follows("scroll", "quads")
    BY DEF Follows
  <2>13. Follows("quads", "poll")
    BY DEF Follows
  <2>14. Follows("poll", "move")
    BY DEF Follows
  <2>15. Follows("move", "press")
    BY DEF Follows
  <2>16. Follows("press", "release")
    BY DEF Follows
  <2>17. Follows("release", "keyDown")
    BY DEF Follows
  <2>18. Follows("keyDown", "keyUp")
    BY DEF Follows
  <2>19. Follows("keyUp", "insert")
    BY DEF Follows
  <2>20. \A i \in 1..8 : Follows(Calls(o)[i], Calls(o)[i + 1])
    <3>1. \A i \in 1..8 :
          (i = 1 /\ i + 1 = 2) \/ (i = 2 /\ i + 1 = 3) \/ (i = 3 /\ i + 1 = 4)
          \/ (i = 4 /\ i + 1 = 5) \/ (i = 5 /\ i + 1 = 6) \/ (i = 6 /\ i + 1 = 7)
          \/ (i = 7 /\ i + 1 = 8) \/ (i = 8 /\ i + 1 = 9)
      OBVIOUS
    <3> QED
      BY <3>1, <2>1, <2>12, <2>13, <2>14, <2>15, <2>16, <2>17, <2>18, <2>19
  <2> QED
    BY <2>1, <2>11, <2>20
<1>11. CASE o = "focus" /\ Calls(o) = Focus
  BY <1>11 DEF Focus
<1>12. CASE o = "shot" /\ Calls(o) = Shot
  <2>1. /\ Len(Calls(o)) = 3
        /\ Calls(o)[1] = "scroll"
        /\ Calls(o)[2] = "box"
        /\ Calls(o)[3] = "capture"
    BY <1>12 DEF Shot
  <2> HIDE DEF Fits, Follows
  <2>2. Fits(o, 3, 1, "scroll")
    BY <1>12 DEF Fits
  <2>3. Fits(o, 3, 2, "box")
    BY <1>12 DEF Fits
  <2>4. Fits(o, 3, 3, "capture")
    BY <1>12 DEF Fits
  <2>5. \A i \in 1..3 : Fits(o, 3, i, Calls(o)[i])
    <3>1. \A i \in 1..3 : i = 1 \/ i = 2 \/ i = 3
      OBVIOUS
    <3> QED
      BY <3>1, <2>1, <2>2, <2>3, <2>4
  <2>6. Follows("scroll", "box")
    BY DEF Follows
  <2>7. Follows("box", "capture")
    BY DEF Follows
  <2>8. \A i \in 1..2 : Follows(Calls(o)[i], Calls(o)[i + 1])
    <3>1. \A i \in 1..2 :
          (i = 1 /\ i + 1 = 2)
          \/ (i = 2 /\ i + 1 = 3)
      OBVIOUS
    <3> QED
      BY <3>1, <2>1, <2>6, <2>7
  <2> QED
    BY <2>1, <2>5, <2>8
<1>13. CASE o = "read" /\ Calls(o) = Read
  BY <1>13 DEF Read
<1>14. CASE o = "styles" /\ Calls(o) = <<"styles">>
  BY <1>14
<1> HIDE OpNames DEF Fits, Follows, Searching, Holding, Input, Finders, Waits, OnElement,
         XpathOps, ToPointOps
<1> QED
  BY <1>1, <1>2, <1>3, <1>4, <1>5, <1>6, <1>7, <1>8, <1>9, <1>10, <1>11, <1>12, <1>13,
     <1>14, OperationsBySequence

-----------------------------------------------------------------------------
(* The types.  The next call, and how a step of an operation leaves its    *)
(* place and its outcome.                                                  *)

Outcomes == {"none", "ok", "missing", "error", "timeout", "panic"}

Types == TypeOK /\ at \in [Threads -> Nat] /\ ops \in [Threads -> Nat]

NextCall(t) == Calls(op[t])[at[t]]

(* The program text at the next call, and at the one after it.             *)
LEMMA NextOf ==
  ASSUME Types, NEW t \in Threads, op[t] # None
  PROVE  /\ op[t] \in Operations
         /\ Len(Calls(op[t])) \in Nat \ {0}
         /\ at[t] \in Nat /\ at[t] \in 1..Len(Calls(op[t]))
         /\ Fits(op[t], Len(Calls(op[t])), at[t], NextCall(t))
         /\ Fits(op[t], Len(Calls(op[t])), 1, Calls(op[t])[1])
         /\ at[t] < Len(Calls(op[t])) =>
              /\ Follows(NextCall(t), Calls(op[t])[at[t] + 1])
              /\ Fits(op[t], Len(Calls(op[t])), at[t] + 1, Calls(op[t])[at[t] + 1])
<1>1. op[t] \in Operations /\ at[t] \in 1..Len(Calls(op[t])) /\ at[t] \in Nat
  BY DEF Types, TypeOK
<1>2. /\ Len(Calls(op[t])) \in Nat \ {0}
      /\ \A i \in 1..Len(Calls(op[t])) : Fits(op[t], Len(Calls(op[t])), i, Calls(op[t])[i])
      /\ \A i \in 1..Len(Calls(op[t])) - 1 :
           Follows(Calls(op[t])[i], Calls(op[t])[i + 1])
  BY <1>1, CallOrder
<1> QED
  BY <1>1, <1>2 DEF NextCall

(* A step goes on to the next call, begins again or ends the operation.    *)
Moves(t) ==
  Proceed(t) \/ Again(t) \/ \E how \in Outcomes \ {"none"} : Fail(t, how)

Places(a, o) ==
  /\ a \in [Threads -> Nat] /\ o \in [Threads -> Outcomes]
  /\ \A u \in Threads : op[u] # None => a[u] \in 1..Len(Calls(op[u]))

LEMMA MovesInPlace ==
  ASSUME Types, NEW t \in Threads, op[t] # None, Moves(t)
  PROVE  Places(at', outcome')
<1>1. Places(at, outcome)
  BY DEF Types, TypeOK, Places, Outcomes
<1>2. /\ Len(Calls(op[t])) \in Nat \ {0} /\ at[t] \in Nat
      /\ at[t] \in 1..Len(Calls(op[t]))
  BY NextOf
<1>3. CASE Proceed(t)
  <2>1. CASE at[t] < Len(Calls(op[t]))
    BY <1>1, <1>2, <1>3, <2>1 DEF Proceed, Places
  <2>2. CASE ~(at[t] < Len(Calls(op[t])))
    BY <1>1, <1>2, <1>3, <2>2 DEF Proceed, Places, Set, Outcomes
  <2> QED
    BY <2>1, <2>2
<1>4. CASE Again(t)
  BY <1>1, <1>2, <1>4 DEF Again, Places, Set
<1>5. ASSUME NEW how \in Outcomes \ {"none"}, Fail(t, how)
      PROVE  Places(at', outcome')
  BY <1>1, <1>5 DEF Fail, Places, Set
<1> QED
  BY <1>3, <1>4, <1>5 DEF Moves

(* What a miss does to the operation.                                      *)
LEMMA MissIs ==
  ASSUME NEW t, Miss(t)
  PROVE  \/ op[t] = "waitVisible" /\ Fail(t, "error")
         \/ op[t] \in Waits \ {"waitVisible"} /\ expired[t] /\ Fail(t, "timeout")
         \/ op[t] \in Waits \ {"waitVisible"} /\ Again(t)
         \/ op[t] \notin Waits /\ Fail(t, "missing")
<1>1. "waitVisible" \in Waits
  BY OpNames DEF Waits
<1> QED
  BY <1>1 DEF Miss

LEMMA MissMoves ==
  ASSUME NEW t, Miss(t)
  PROVE  Moves(t)
BY MissIs DEF Moves, Outcomes

LEMMA UnknownMoves ==
  ASSUME NEW t, Unknown(t)
  PROVE  Moves(t)
BY MissMoves DEF Unknown, Moves, Outcomes

LEMMA NoneOfAllMoves ==
  ASSUME NEW t, NoneOfAll(t)
  PROVE  Moves(t)
<1>1. CASE op[t] \in OnElement
  BY <1>1 DEF NoneOfAll, Moves, Outcomes, Fail
<1>2. CASE op[t] \notin OnElement
  BY <1>2, MissMoves DEF NoneOfAll
<1> QED
  BY <1>1, <1>2

LEMMA NoResultsMoves ==
  ASSUME NEW t, NoResults(t)
  PROVE  Moves(t)
<1>1. CASE op[t] \in {"xpath", "waitXpath"}
  BY <1>1, MissMoves DEF NoResults
<1>2. CASE op[t] \notin {"xpath", "waitXpath"}
  BY <1>2 DEF NoResults, EmptyResults, Moves, Outcomes
<1> QED
  BY <1>1, <1>2

(* Types of the rest: what no call disturbs, and the rest.                 *)
PageTypes ==
  match \in Nodes \cup {None} /\ boxes \in BOOLEAN /\ inView \in BOOLEAN /\ open \in BOOLEAN
OpTypes ==
  op \in [Threads -> Operations \cup {None}] /\ Places(at, outcome)
DataTypes ==
  /\ rootOk \in [Threads -> BOOLEAN] /\ foundOk \in [Threads -> BOOLEAN]
  /\ elemOk \in [Threads -> BOOLEAN] /\ elemLive \in [Threads -> BOOLEAN]
  /\ found \in [Threads -> Nodes \cup {None}] /\ elem \in [Threads -> Nodes \cup {None}]
  /\ expired \in [Threads -> BOOLEAN]
  /\ point \in [Threads -> {"none", "in", "out"}]
CountTypes ==
  /\ ops \in [Threads -> Nat] /\ \A t \in Threads : ops[t] \in 0..Len(OpsOf[t])
  /\ changes \in 0..MaxChanges
HistoryTypes ==
  /\ changed \in [Threads -> SUBSET {"ids", "shape", "node", "page"}]
  /\ since \in [Threads -> SUBSET Losses]

LEMMA TypesAre ==
  Types <=> PageTypes /\ OpTypes /\ DataTypes /\ CountTypes /\ HistoryTypes
BY DEF Types, TypeOK, PageTypes, OpTypes, DataTypes, CountTypes, HistoryTypes, Places,
       Outcomes

LEMMA TypesAreNext ==
  Types' <=> PageTypes' /\ OpTypes' /\ DataTypes' /\ CountTypes' /\ HistoryTypes'
BY DEF Types, TypeOK, PageTypes, OpTypes, DataTypes, CountTypes, HistoryTypes, Places,
       Outcomes

(* A step of an operation, but for what it does to the data.               *)
LEMMA StepTypes ==
  ASSUME Types, NEW t \in Threads, op[t] # None, Places(at', outcome'), op' = op,
         UNCHANGED <<match, boxes, open, ops, changes>>, inView' \in BOOLEAN,
         DataTypes', HistoryTypes'
  PROVE  Types'
<1>1. OpTypes'
  BY TypesAre DEF OpTypes, Places
<1>2. PageTypes' /\ CountTypes'
  BY TypesAre DEF PageTypes, CountTypes
<1> QED
  BY <1>1, <1>2, TypesAreNext

LEMMA StartTypes ==
  ASSUME Types, NEW t \in Threads, Start(t)
  PROVE  Types'
<1>1. OpsOf[t] \in Seq(SUBSET Operations) /\ ops[t] \in Nat
  BY OpsAreOperations DEF Types
<1>2. ops' = [ops EXCEPT ![t] = ops[t] + 1] /\ ops'[t] = ops[t] + 1
      /\ ops[t] < Len(OpsOf[t])
  BY DEF Start, Types
<1>3. OpsOf[t][ops'[t]] \in SUBSET Operations
  BY <1>1, <1>2
<1>4. PICK o \in OpsOf[t][ops'[t]] : op' = Set(op, t, o)
  BY DEF Start
<1>5. o \in Operations /\ Len(Calls(o)) \in Nat \ {0}
  BY <1>3, <1>4, CallOrder
<1>6. OpTypes'
  <2>1. OpTypes /\ outcome' = outcome /\ at' = Set(at, t, 1)
    BY TypesAre DEF Start
  <2> QED
    BY <1>4, <1>5, <2>1 DEF OpTypes, Places, Set
<1>7. CountTypes'
  <2>1. ops' \in [Threads -> Nat]
    BY <1>1, <1>2, TypesAre DEF CountTypes
  <2>2. Len(OpsOf[t]) \in Nat
    BY <1>1
  <2>3. \A u \in Threads : ops'[u] \in 0..Len(OpsOf[u])
    BY <1>1, <1>2, <2>2, TypesAre DEF CountTypes
  <2>4. changes' \in 0..MaxChanges
    BY TypesAre DEF CountTypes, Start
  <2> QED
    BY <2>1, <2>3, <2>4 DEF CountTypes
<1>8. PageTypes' /\ DataTypes' /\ HistoryTypes'
  BY TypesAre DEF Start, page, ids, history, PageTypes, DataTypes, HistoryTypes
<1> QED
  BY <1>6, <1>7, <1>8, TypesAreNext

LEMMA ReturnTypes ==
  ASSUME Types, NEW t \in Threads, Return(t)
  PROVE  Types'
<1>1. OpTypes'
  BY TypesAre, NoneIsNothing DEF Return, OpTypes, Places, Set, Outcomes
<1>2. DataTypes'
  BY TypesAre DEF Return, DataTypes, Set
<1>3. PageTypes' /\ CountTypes'
  BY TypesAre DEF Return, PageTypes, CountTypes, page
<1>4. HistoryTypes'
  BY TypesAre DEF Return, HistoryTypes, Set
<1> QED
  BY <1>1, <1>2, <1>3, <1>4, TypesAreNext

LEMMA ExpireTypes ==
  ASSUME Types, NEW t \in Threads, Expire(t)
  PROVE  Types'
<1>1. OpTypes'
  BY TypesAre DEF Expire, OpTypes, Places
<1>2. DataTypes'
  BY TypesAre DEF Expire, DataTypes, Set, ids
<1>3. PageTypes' /\ CountTypes' /\ HistoryTypes'
  BY TypesAre DEF Expire, PageTypes, CountTypes, HistoryTypes, page, history
<1> QED
  BY <1>1, <1>2, <1>3, TypesAreNext

(* What a query or a search finds.                                         *)
LEMMA QueryIs ==
  ASSUME NEW t, QuerySelector(t)
  PROVE  \/ open /\ QueriedOk(t) /\ None \in Matches(t) /\ Miss(t) /\ FindsNot
         \/ Finds(t, match) /\ match # None
         \/ ~(open /\ QueriedOk(t)) /\ Unknown(t) /\ FindsNot
<1>1. CASE open /\ QueriedOk(t)
  <2>1. PICK n \in Matches(t) : IF n = None THEN Miss(t) /\ FindsNot ELSE Finds(t, n)
    BY <1>1 DEF QuerySelector
  <2>2. CASE n = None
    BY <1>1, <2>1, <2>2
  <2>3. CASE n # None
    <3>1. n = match
      BY <2>3 DEF Matches
    <3> QED
      BY <2>1, <2>3, <3>1
  <2> QED
    BY <2>2, <2>3
<1>2. CASE ~(open /\ QueriedOk(t))
  BY <1>2 DEF QuerySelector
<1> QED
  BY <1>1, <1>2

LEMMA QueryAllIs ==
  ASSUME NEW t, QuerySelectorAll(t)
  PROVE  \/ open /\ QueriedOk(t) /\ None \in Matches(t) /\ NoneOfAll(t) /\ FindsNot
         \/ Finds(t, match) /\ match # None
         \/ ~(open /\ QueriedOk(t)) /\ Unknown(t) /\ FindsNot
<1>1. CASE open /\ QueriedOk(t)
  <2>1. PICK n \in Matches(t) : IF n = None THEN NoneOfAll(t) /\ FindsNot ELSE Finds(t, n)
    BY <1>1 DEF QuerySelectorAll
  <2>2. CASE n = None
    BY <1>1, <2>1, <2>2
  <2>3. CASE n # None
    <3>1. n = match
      BY <2>3 DEF Matches
    <3> QED
      BY <2>1, <2>3, <3>1
  <2> QED
    BY <2>2, <2>3
<1>2. CASE ~(open /\ QueriedOk(t))
  BY <1>2 DEF QuerySelectorAll
<1> QED
  BY <1>1, <1>2

LEMMA ResultsAre ==
  ASSUME NEW t, GetSearchResults(t)
  PROVE  \/ Finds(t, match) /\ match # None
         \/ ~(open /\ rootOk[t] /\ match # None) /\ NoResults(t) /\ FindsNot
<1>1. CASE open /\ rootOk[t] /\ match # None
  BY <1>1 DEF GetSearchResults
<1>2. CASE ~(open /\ rootOk[t] /\ match # None)
  BY <1>2 DEF GetSearchResults
<1> QED
  BY <1>1, <1>2

(* One call.                                                               *)
LEMMA CallTypes ==
  ASSUME Types, NEW t \in Threads, Step(t)
  PROVE  Types'
<1>1. op[t] # None
  BY DEF Step, Call, Running, GetDocument, QuerySelector, QuerySelectorAll, PerformSearch,
         GetSearchResults, DescribeNode, ResolveNode, CheckVisibility, CallOnElement,
         FocusOn, GetBoxModel, GetComputedStyles, ScrollIntoView, GetContentQuads, PollRectangle,
         Dispatch
<1>2. PageTypes /\ DataTypes /\ HistoryTypes
  BY TypesAre
<1>3. Moves(t) => Places(at', outcome')
  BY <1>1, MovesInPlace
<1>4. Proceed(t) => Moves(t)
  BY DEF Moves
<1>5. Fail(t, "error") => Moves(t)
  BY DEF Moves, Outcomes
<1>25. Fail(t, "panic") => Moves(t)
  BY DEF Moves, Outcomes
<1> USE DEF PageTypes, page
<1>6. ASSUME Moves(t), op' = op, UNCHANGED <<match, boxes, inView, open, ops, changes>>,
             DataTypes', HistoryTypes'
      PROVE  Types'
  BY <1>1, <1>2, <1>3, <1>6, StepTypes
<1>7. CASE GetDocument(t)
  <2>1. Moves(t)
    BY <1>4, <1>5, <1>7 DEF GetDocument
  <2>2. DataTypes'
    BY <1>2, <1>7 DEF GetDocument, DataTypes, ids
  <2>3. HistoryTypes'
    BY <1>2, <1>7 DEF GetDocument, HistoryTypes, WhileRuns, ids
  <2> QED
    BY <1>6, <1>7, <2>1, <2>2, <2>3 DEF GetDocument
<1>8. ASSUME Finds(t, match), match # None, UNCHANGED <<rootOk, elemOk, elemLive, elem,
    expired, point>>
      PROVE  DataTypes'
  BY <1>2, <1>8 DEF DataTypes, Finds, Set
<1>9. ASSUME FindsNot, UNCHANGED <<rootOk, elemOk, elemLive, elem, expired, point>>
      PROVE  DataTypes'
  BY <1>2, <1>9 DEF DataTypes, FindsNot
<1>10. CASE QuerySelector(t)
  <2>1. \/ Miss(t) /\ FindsNot
        \/ Finds(t, match) /\ match # None
        \/ Unknown(t) /\ FindsNot
    BY <1>10, QueryIs
  <2>2. Moves(t)
    BY <1>4, <2>1, MissMoves, UnknownMoves DEF Finds
  <2>3. DataTypes'
    BY <1>8, <1>9, <1>10, <2>1 DEF QuerySelector
  <2>4. HistoryTypes'
    BY <1>2, <1>10 DEF QuerySelector, HistoryTypes, history
  <2> QED
    BY <1>6, <1>10, <2>2, <2>3, <2>4 DEF QuerySelector
<1>11. CASE QuerySelectorAll(t)
  <2>1. \/ NoneOfAll(t) /\ FindsNot
        \/ Finds(t, match) /\ match # None
        \/ Unknown(t) /\ FindsNot
    BY <1>11, QueryAllIs
  <2>2. Moves(t)
    BY <1>4, <2>1, NoneOfAllMoves, UnknownMoves DEF Finds
  <2>3. DataTypes'
    BY <1>8, <1>9, <1>11, <2>1 DEF QuerySelectorAll
  <2>4. HistoryTypes'
    BY <1>2, <1>11 DEF QuerySelectorAll, HistoryTypes, history
  <2> QED
    BY <1>6, <1>11, <2>2, <2>3, <2>4 DEF QuerySelectorAll
<1>12. CASE GetSearchResults(t)
  <2>1. \/ NoResults(t) /\ FindsNot
        \/ Finds(t, match) /\ match # None
    BY <1>12, ResultsAre
  <2>2. Moves(t)
    BY <1>4, <2>1, NoResultsMoves DEF Finds
  <2>3. DataTypes'
    BY <1>8, <1>9, <1>12, <2>1 DEF GetSearchResults
  <2>4. HistoryTypes'
    BY <1>2, <1>12 DEF GetSearchResults, HistoryTypes, history
  <2> QED
    BY <1>6, <1>12, <2>2, <2>3, <2>4 DEF GetSearchResults
<1>13. ASSUME UNCHANGED <<ids, found, point, expired, elem, elemLive, history>>
       PROVE  DataTypes' /\ HistoryTypes'
  BY <1>2, <1>13 DEF DataTypes, HistoryTypes, ids, history
<1>14. CASE PerformSearch(t)
  <2>1. Moves(t)
    BY <1>4, <1>5, <1>14 DEF PerformSearch
  <2> QED
    BY <1>6, <1>13, <1>14, <2>1 DEF PerformSearch
<1>15. CASE DescribeNode(t)
  <2>1. Moves(t)
    BY <1>4, <1>15, UnknownMoves DEF DescribeNode, Undescribed
  <2> QED
    BY <1>6, <1>13, <1>15, <2>1 DEF DescribeNode
<1>16. CASE ResolveNode(t)
  <2>1. Moves(t)
    BY <1>4, <1>5, <1>25, <1>16 DEF ResolveNode
  <2>2. DataTypes'
    BY <1>2, <1>16 DEF ResolveNode, DataTypes, Set
  <2>3. HistoryTypes'
    BY <1>2, <1>16 DEF ResolveNode, HistoryTypes, Set
  <2> QED
    BY <1>6, <1>16, <2>1, <2>2, <2>3 DEF ResolveNode
<1>17. CASE CheckVisibility(t)
  <2>1. Moves(t)
    BY <1>4, <1>25, <1>17 DEF CheckVisibility, Unwraps
  <2> QED
    BY <1>6, <1>13, <1>17, <2>1 DEF CheckVisibility
<1>18. CASE CallOnElement(t)
  <2>1. Moves(t)
    BY <1>4, <1>5, <1>25, <1>18 DEF CallOnElement, Unwraps
  <2> QED
    BY <1>6, <1>13, <1>18, <2>1 DEF CallOnElement
<1>26. CASE FocusOn(t)
  <2>1. Moves(t)
    BY <1>4, <1>5, <1>26 DEF FocusOn
  <2> QED
    BY <1>6, <1>13, <1>26, <2>1 DEF FocusOn
<1>19. CASE GetBoxModel(t)
  <2>1. Moves(t)
    BY <1>4, <1>5, <1>19 DEF GetBoxModel
  <2> QED
    BY <1>6, <1>13, <1>19, <2>1 DEF GetBoxModel
<1>20. CASE GetComputedStyles(t)
  <2>1. Moves(t)
    BY <1>4, <1>5, <1>20 DEF GetComputedStyles
  <2> QED
    BY <1>6, <1>13, <1>20, <2>1 DEF GetComputedStyles
<1>21. CASE ScrollIntoView(t)
  <2>1. Moves(t) /\ inView' \in BOOLEAN
    BY <1>2, <1>4, <1>5, <1>21 DEF ScrollIntoView, Scrolled
  <2>2. DataTypes' /\ HistoryTypes' /\ op' = op
        /\ UNCHANGED <<match, boxes, open, ops, changes>>
    BY <1>13, <1>21 DEF ScrollIntoView
  <2> QED
    BY <1>1, <1>3, <2>1, <2>2, StepTypes
<1>22. CASE GetContentQuads(t)
  <2>1. /\ Call(t, "quads")
        /\ at' = [at EXCEPT ![t] = at[t] + 2] \/ at' = [at EXCEPT ![t] = at[t] + 1]
        /\ outcome' = outcome
    BY <1>22 DEF GetContentQuads
  <2>2. at[t] = 2 /\ Len(Calls(op[t])) >= 4 /\ Len(Calls(op[t])) \in Nat
    BY <1>1, <2>1, NextOf DEF Call, NextCall, Fits
  <2>3. Places(at, outcome)
    BY TypesAre DEF OpTypes
  <2>4. Places(at', outcome')
    <3>1. /\ at \in [Threads -> Nat] /\ outcome \in [Threads -> Outcomes]
          /\ \A u \in Threads : op[u] # None => at[u] \in 1..Len(Calls(op[u]))
      BY <2>3 DEF Places
    <3>2. at' \in [Threads -> Nat]
      BY <2>1, <2>2, <3>1
    <3>3. ASSUME NEW u \in Threads, op[u] # None
          PROVE  at'[u] \in 1..Len(Calls(op[u]))
      <4>1. CASE u = t
        BY <4>1, <2>1, <2>2, <3>1
      <4>2. CASE u # t
        BY <4>2, <3>3, <2>1, <3>1
      <4> QED
        BY <4>1, <4>2
    <3> QED
      BY <2>1, <3>1, <3>2, <3>3 DEF Places
  <2>5. DataTypes'
    BY <1>2, <1>22 DEF GetContentQuads, DataTypes, Set, ids
  <2>6. HistoryTypes'
    BY <1>2, <1>22 DEF GetContentQuads, HistoryTypes, history
  <2>7. inView' \in BOOLEAN /\ op' = op /\ UNCHANGED <<match, boxes, open, ops, changes>>
    BY <1>2, <1>22 DEF GetContentQuads
  <2> QED
    BY <1>1, <2>4, <2>5, <2>6, <2>7, StepTypes
<1>23. CASE PollRectangle(t)
  <2>1. Moves(t) /\ inView' \in BOOLEAN
    BY <1>2, <1>4, <1>23 DEF PollRectangle, Moves, Outcomes, Unwraps
  <2>2. DataTypes'
    BY <1>2, <1>23 DEF PollRectangle, DataTypes, Set, ids
  <2>3. HistoryTypes'
    BY <1>2, <1>23 DEF PollRectangle, HistoryTypes, history
  <2>4. op' = op /\ UNCHANGED <<match, boxes, open, ops, changes>>
    BY <1>23 DEF PollRectangle
  <2> QED
    BY <1>1, <1>3, <2>1, <2>2, <2>3, <2>4, StepTypes
<1>24. CASE Dispatch(t)
  <2>1. Moves(t)
    BY <1>4, <1>5, <1>24 DEF Dispatch
  <2> QED
    BY <1>6, <1>13, <1>24, <2>1 DEF Dispatch
<1> QED
  BY <1>7, <1>10, <1>11, <1>12, <1>14, <1>15, <1>16, <1>17, <1>18, <1>19, <1>20, <1>21,
     <1>22, <1>23, <1>24, <1>26 DEF Step

(* The page and the connection.                                            *)
LEMMA PageTypesKept ==
  ASSUME Types, PageMoves \/ NodeChanges \/ PageLeft \/ Close
  PROVE  Types'
<1>1. OpTypes'
  BY TypesAre DEF PageMoves, NodeChanges, PageLeft, Close, OpTypes, Places, local
<1>2. PageTypes'
  BY TypesAre DEF PageMoves, NodeChanges, PageLeft, Close, PageTypes
<1>3. DataTypes'
  BY TypesAre DEF PageMoves, NodeChanges, PageLeft, Close, DataTypes, local, ids
<1>4. CountTypes'
  BY TypesAre, BoundsAreNat DEF PageMoves, NodeChanges, PageLeft, Close, CountTypes, Changes
<1>5. HistoryTypes'
  <2>1. HistoryTypes
    BY TypesAre
  <2>2. ASSUME NEW what \in SUBSET {"shape", "node", "page"}, Changes(what)
        PROVE  HistoryTypes'
    <3>1. changed' \in [Threads -> SUBSET {"ids", "shape", "node", "page"}]
      BY <2>1, <2>2 DEF HistoryTypes, Changes, WhileRuns
    <3>2. since' \in [Threads -> SUBSET Losses]
      BY <2>1, <2>2 DEF HistoryTypes, Changes, WhileHeld
    <3> QED
      BY <3>1, <3>2 DEF HistoryTypes
  <2>3. CASE PageMoves
    BY <2>2, <2>3 DEF PageMoves
  <2>4. CASE NodeChanges
    BY <2>2, <2>4 DEF NodeChanges
  <2>5. CASE PageLeft
    BY <2>2, <2>5 DEF PageLeft
  <2>6. CASE Close
    BY <2>1, <2>6 DEF Close, HistoryTypes, history
  <2> QED
    BY <2>3, <2>4, <2>5, <2>6
<1> QED
  BY <1>1, <1>2, <1>3, <1>4, <1>5, TypesAreNext

LEMMA InitTypes ==
  ASSUME Init
  PROVE  Types
<1>1. PageTypes
  BY DEF Init, PageTypes
<1>2. OpTypes
  BY DEF Init, OpTypes, Places, Outcomes
<1>3. DataTypes
  BY DEF Init, DataTypes
<1>4. CountTypes
  <2>1. ASSUME NEW t \in Threads
        PROVE  Len(OpsOf[t]) \in Nat
    <3>1. OpsOf[t] \in Seq(SUBSET Operations)
      BY OpsAreOperations
    <3> QED
      BY <3>1
  <2> QED
    BY <2>1, BoundsAreNat DEF Init, CountTypes
<1>5. HistoryTypes
  BY DEF Init, HistoryTypes
<1> QED
  BY <1>1, <1>2, <1>3, <1>4, <1>5, TypesAre

LEMMA NextTypes ==
  ASSUME Types, [Next]_vars
  PROVE  Types'
<1>1. CASE UNCHANGED vars
  BY <1>1 DEF vars, page, ids, local, history, Types, TypeOK
<1>2. ASSUME NEW t \in Threads, Start(t) \/ Step(t) \/ Expire(t) \/ Return(t)
      PROVE  Types'
  BY <1>2, StartTypes, CallTypes, ExpireTypes, ReturnTypes
<1> QED
  BY <1>1, <1>2, PageTypesKept DEF Next

(* Every operation is at one of its calls, and every variable has its type. *)
THEOREM TypeCorrect == Spec => []TypeOK
<1>1. Types /\ [Next]_vars => Types'
  BY NextTypes
<1>2. Types => TypeOK
  BY DEF Types
<1> QED
  BY <1>1, <1>2, InitTypes, PTL DEF Spec

-----------------------------------------------------------------------------
(* The invariant, of one thread: what it has found, the ids it goes by,    *)
(* the element it holds and the point it goes to; and the six properties.  *)

IdleIsClear(t) == op[t] = None => outcome[t] = "none"

OnlyFindersFind(t) == op[t] \notin Finders => found[t] = None

FoundIsTrue(t) ==
  found[t] # None => found[t] = match \/ Losses \cap changed[t] # {}

FoundIsThere(t) == op[t] # None /\ NextCall(t) \in Holding => found[t] # None

(* While nothing has changed, the ids of the calls to come are good.       *)
IdsAreGood(t) ==
  op[t] \in Ops(TabWaits) /\ outcome[t] = "none" /\ changed[t] = {} =>
    /\ NextCall(t) \in Searching => rootOk[t]
    /\ NextCall(t) = "describe" => foundOk[t]

ElementIsTrue(t) ==
  IF elem[t] = None THEN since[t] = {}
  ELSE /\ elem[t] = match \/ Losses \cap since[t] # {}
       /\ elemLive[t] \/ "page" \in since[t]

OnElementHasOne(t) == op[t] \in OnElement => elem[t] # None

(* After the first call the element is in view, and so is the point that   *)
(* is asked for then.                                                      *)
PointIsInView(t) ==
  op[t] \in ToPointOps /\ "shape" \notin changed[t] =>
    /\ at[t] = 2 /\ elem[t] = match /\ boxes => inView
    /\ at[t] >= 4 => point[t] = "in"

MissIsRetried(t) ==
  op[t] \in Retried /\ outcome[t] \in {"missing", "error", "panic"} =>
    LostIn(changed[t]) \/ (outcome[t] = "panic" /\ found[t] \in Sparse)

WaitMissesNothing(t) ==
  op[t] \in Ops(TabWaits) /\ outcome[t] = "timeout" =>
    match = None \/ changed[t] # {} \/ ~open

FoundIsMatch(t) ==
  op[t] \in Finders /\ outcome[t] = "ok" =>
    \/ found[t] = None /\ op[t] \in MayBeEmpty
    \/ found[t] # None /\ (found[t] = match \/ Losses \cap changed[t] # {})

HandleIsStable(t) ==
  /\ op[t] \in Ops(Acts) \ {"styles"} /\ outcome[t] \in {"error", "panic"}
  /\ elem[t] \notin Sparse
  => \/ LostIn(since[t])
     \/ op[t] \in {"shot", "focus"} /\ (~boxes \/ "shape" \in changed[t])
     \/ op[t] = "focus" /\ elem[t] \notin Focusable

InputWasInView(t) ==
  op[t] \in {"click", "hover", "type"} /\ outcome[t] = "ok" =>
    point[t] = "in" \/ "shape" \in changed[t]

PanicIsKnown(t) ==
  outcome[t] = "panic" =>
    \/ op[t] \in {"xpathIn", "waitXpathIn"}
    \/ op[t] \in {"click", "hover", "type"} /\ (~open \/ "page" \in since[t])
    \/ op[t] \in Finders /\ found[t] \in Sparse
    \/ op[t] \in UnwrapsValues /\ elem[t] \in Sparse

Searches(t) == OnlyFindersFind(t) /\ FoundIsTrue(t) /\ FoundIsThere(t) /\ IdsAreGood(t)
Holds(t) == ElementIsTrue(t) /\ OnElementHasOne(t) /\ PointIsInView(t)
Promises(t) ==
  /\ MissIsRetried(t) /\ WaitMissesNothing(t) /\ FoundIsMatch(t)
  /\ HandleIsStable(t) /\ InputWasInView(t) /\ PanicIsKnown(t)

ThreadInv(t) == IdleIsClear(t) /\ Searches(t) /\ Holds(t) /\ Promises(t)

-----------------------------------------------------------------------------
(* What others do to a thread: to its own variables nothing; the page and  *)
(* the ids change, but never behind the back of its histories.             *)
Bystander(u) ==
  /\ op'[u] = op[u] /\ at'[u] = at[u] /\ found'[u] = found[u] /\ point'[u] = point[u]
  /\ outcome'[u] = outcome[u] /\ elem'[u] = elem[u]
  /\ open' => open
  /\ op[u] \in Finders \cup Ops(Acts) =>
       /\ changed[u] \subseteq changed'[u]
       /\ match' # match => Losses \cap changed'[u] # {}
       /\ \/ match' = match /\ boxes' = boxes /\ (boxes /\ inView => inView')
          \/ "shape" \in changed'[u]
       /\ \/ (rootOk[u] => rootOk'[u]) /\ (foundOk[u] => foundOk'[u])
          \/ changed'[u] # {}
  /\ elem[u] = None => since'[u] = {}
  /\ elem[u] # None =>
       /\ since[u] \subseteq since'[u]
       /\ match' # match => Losses \cap since'[u] # {}
       /\ elemLive[u] => elemLive'[u] \/ "page" \in since'[u]

LEMMA BystanderKeeps ==
  ASSUME Types, NEW u \in Threads, ThreadInv(u), Bystander(u)
  PROVE  ThreadInv(u)'
<1>1. IdleIsClear(u)' /\ OnlyFindersFind(u)' /\ FoundIsThere(u)' /\ OnElementHasOne(u)'
  BY DEF ThreadInv, Bystander, Searches, Holds, IdleIsClear, OnlyFindersFind, FoundIsThere,
         OnElementHasOne, NextCall
<1>2. FoundIsTrue(u)'
  BY DEF ThreadInv, Bystander, Searches, OnlyFindersFind, FoundIsTrue
<1>3. IdsAreGood(u)'
  <2>1. op[u] \in Ops(TabWaits) => op[u] \in Finders
    BY DEF Finders, Waits
  <2> QED
    BY <2>1 DEF ThreadInv, Bystander, Searches, IdsAreGood, NextCall
<1>4. ElementIsTrue(u)'
  BY DEF ThreadInv, Bystander, Holds, ElementIsTrue
<1>5. PointIsInView(u)'
  <2>1. op[u] \in ToPointOps => op[u] \in Ops(Acts)
    BY OpNames DEF ToPointOps
  <2>2. SUFFICES ASSUME op[u] \in ToPointOps, "shape" \notin changed'[u]
                 PROVE  /\ at[u] = 2 /\ elem[u] = match' /\ boxes' => inView'
                        /\ at[u] >= 4 => point[u] = "in"
    BY DEF Bystander, PointIsInView
  <2>3. /\ "shape" \notin changed[u]
        /\ match' = match /\ boxes' = boxes /\ (boxes /\ inView => inView')
    BY <2>1, <2>2 DEF Bystander
  <2> QED
    BY <2>2, <2>3 DEF ThreadInv, Holds, PointIsInView
<1>6. Promises(u)'
  <2>1. MissIsRetried(u)'
    <3>1. op[u] \in Retried => op[u] \in Finders
      BY DEF Retried, Finders
    <3> QED
      BY <3>1 DEF ThreadInv, Bystander, Promises, MissIsRetried, LostIn
  <2>2. WaitMissesNothing(u)'
    <3>1. op[u] \in Ops(TabWaits) => op[u] \in Finders
      BY DEF Waits, Finders
    <3> QED
      BY <3>1 DEF ThreadInv, Bystander, Promises, WaitMissesNothing
  <2>3. FoundIsMatch(u)'
    BY DEF ThreadInv, Bystander, Promises, FoundIsMatch
  <2>4. HandleIsStable(u)'
    <3>1. op[u] \in Ops(Acts) => elem[u] # None
      BY DEF ThreadInv, Holds, OnElementHasOne, OnElement
    <3> QED
      BY <3>1 DEF ThreadInv, Bystander, Promises, HandleIsStable, LostIn
  <2>5. InputWasInView(u)'
    <3>1. op[u] \in {"click", "hover", "type"} => op[u] \in Ops(Acts)
      BY OpNames
    <3> QED
      BY <3>1 DEF ThreadInv, Bystander, Promises, InputWasInView
  <2>6. PanicIsKnown(u)'
    BY DEF ThreadInv, Bystander, Holds, Promises, PanicIsKnown, ElementIsTrue
  <2> QED
    BY <2>1, <2>2, <2>3, <2>4, <2>5, <2>6 DEF Promises
<1> QED
  BY <1>1, <1>2, <1>3, <1>4, <1>5, <1>6 DEF ThreadInv, Searches, Holds

(* The page, and the connection, disturb every thread so.                  *)
LEMMA PageStandsBy ==
  ASSUME Types, NEW u \in Threads, ThreadInv(u),
      PageMoves \/ NodeChanges \/ PageLeft \/ Close
  PROVE  Bystander(u)
<1>1. HistoryTypes
  BY TypesAre
<1>2. elem[u] = None => since[u] = {}
  BY DEF ThreadInv, Holds, ElementIsTrue
<1>3. ASSUME NEW what, Changes(what)
      PROVE  /\ op[u] \in Finders \cup Ops(Acts) => changed'[u] = changed[u] \cup what
             /\ elem[u] = None => since'[u] = {}
             /\ elem[u] # None => since'[u] = (since[u] \cup what) \cap Losses
  BY <1>3 DEF Changes, WhileRuns, WhileHeld
<1>4. since[u] \subseteq Losses
  BY <1>1 DEF HistoryTypes
<1>5. CASE PageMoves
  <2>1. Changes({"shape"}) /\ UNCHANGED <<match, open, ids, local, elemLive>>
    BY <1>5 DEF PageMoves
  <2> QED
    BY <1>3, <1>4, <2>1 DEF Bystander, local, ids
<1>6. CASE NodeChanges
  <2>1. Changes({"shape", "node"}) /\ UNCHANGED <<open, ids, local, elemLive>>
    BY <1>6 DEF NodeChanges
  <2> QED
    BY <1>3, <1>4, <2>1 DEF Bystander, local, ids, Losses
<1>7. CASE PageLeft
  <2>1. Changes({"shape", "node", "page"}) /\ UNCHANGED <<open, local>>
    BY <1>7 DEF PageLeft
  <2> QED
    BY <1>3, <1>4, <2>1 DEF Bystander, local, Losses
<1>8. CASE Close
  BY <1>2, <1>8 DEF Close, Bystander, local, ids, history
<1> QED
  BY <1>5, <1>6, <1>7, <1>8

(* So does whatever else a thread does: to the others nothing, but for the *)
(* view and, by getting the document, the ids.                             *)
Apart(u) ==
  /\ op'[u] = op[u] /\ at'[u] = at[u] /\ found'[u] = found[u] /\ point'[u] = point[u]
  /\ outcome'[u] = outcome[u] /\ elem'[u] = elem[u] /\ elemLive'[u] = elemLive[u]
  /\ rootOk'[u] = rootOk[u] /\ foundOk'[u] = foundOk[u]
  /\ changed'[u] = changed[u] /\ since'[u] = since[u]
  /\ UNCHANGED <<match, boxes, open>> /\ (boxes /\ inView => inView')

LEMMA ApartStandsBy ==
  ASSUME NEW u \in Threads, ThreadInv(u), Apart(u)
  PROVE  Bystander(u)
BY DEF Apart, Bystander, ThreadInv, Holds, ElementIsTrue

LEMMA MovesApart ==
  ASSUME Types, NEW t \in Threads, NEW u \in Threads, u # t, Moves(t)
  PROVE  at'[u] = at[u] /\ outcome'[u] = outcome[u]
<1>1. at \in [Threads -> Nat] /\ outcome \in [Threads -> Outcomes]
  BY DEF Types, TypeOK, Outcomes
<1> QED
  BY <1>1 DEF Moves, Proceed, Again, Fail, Set

LEMMA OthersStandBy ==
  ASSUME Types, NEW t \in Threads, NEW u \in Threads, u # t, ThreadInv(u),
         Start(t) \/ Step(t) \/ Expire(t) \/ Return(t)
  PROVE  Bystander(u)
<1>1. PageTypes /\ OpTypes /\ DataTypes /\ HistoryTypes
  BY TypesAre
<1>2. at \in [Threads -> Nat] /\ outcome \in [Threads -> Outcomes]
  BY <1>1 DEF OpTypes, Places
<1>3. Moves(t) => at'[u] = at[u] /\ outcome'[u] = outcome[u]
  BY MovesApart
<1>4. Proceed(t) => Moves(t)
  BY DEF Moves
<1>5. Fail(t, "error") => Moves(t)
  BY DEF Moves, Outcomes
<1>25. Fail(t, "panic") => Moves(t)
  BY DEF Moves, Outcomes
<1>6. Finds(t, match) \/ FindsNot => found'[u] = found[u] /\ foundOk'[u] = foundOk[u]
  BY <1>1 DEF Finds, FindsNot, Set, DataTypes
<1>7. CASE Start(t)
  BY <1>1, <1>2, <1>7, ApartStandsBy DEF Start, Apart, page, ids, history, Set, OpTypes
<1>8. CASE Expire(t)
  BY <1>8, ApartStandsBy DEF Expire, Apart, page, ids, history
<1>9. CASE Return(t)
  BY <1>1, <1>2, <1>9, ApartStandsBy
     DEF Return, Apart, page, Set, OpTypes, DataTypes, HistoryTypes
<1>10. CASE GetDocument(t)
  <2>1. Moves(t)
    BY <1>4, <1>5, <1>10 DEF GetDocument
  <2>2. UNCHANGED <<page, op, found, point, elem, elemLive, since>>
    BY <1>10 DEF GetDocument
  <2>3. CASE open
    <3>1. changed'[u] = WhileRuns(u, changed[u] \cup {"ids"})
      BY <1>10, <2>3 DEF GetDocument
    <3>2. elem[u] = None => since'[u] = {}
      BY <2>2 DEF ThreadInv, Holds, ElementIsTrue
    <3> QED
      BY <1>3, <2>1, <2>2, <3>1, <3>2 DEF Bystander, WhileRuns, page
  <2>4. CASE ~open
    <3>1. UNCHANGED <<ids, changed>>
      BY <1>10, <2>4 DEF GetDocument
    <3> QED
      BY <1>3, <2>1, <2>2, <3>1, ApartStandsBy DEF Apart, page, ids
  <2> QED
    BY <2>3, <2>4
<1>11. CASE QuerySelector(t)
  <2>1. Moves(t)
    BY <1>4, <1>11, QueryIs, MissMoves, UnknownMoves DEF Finds
  <2>2. found'[u] = found[u] /\ foundOk'[u] = foundOk[u]
    BY <1>6, <1>11, QueryIs
  <2> QED
    BY <1>3, <1>11, <2>1, <2>2, ApartStandsBy DEF QuerySelector, Apart, page, history
<1>12. CASE QuerySelectorAll(t)
  <2>1. Moves(t)
    BY <1>4, <1>12, QueryAllIs, NoneOfAllMoves, UnknownMoves DEF Finds
  <2>2. found'[u] = found[u] /\ foundOk'[u] = foundOk[u]
    BY <1>6, <1>12, QueryAllIs
  <2> QED
    BY <1>3, <1>12, <2>1, <2>2, ApartStandsBy DEF QuerySelectorAll, Apart, page, history
<1>13. CASE GetSearchResults(t)
  <2>1. Moves(t)
    BY <1>4, <1>13, ResultsAre, NoResultsMoves DEF Finds
  <2>2. found'[u] = found[u] /\ foundOk'[u] = foundOk[u]
    BY <1>6, <1>13, ResultsAre
  <2> QED
    BY <1>3, <1>13, <2>1, <2>2, ApartStandsBy DEF GetSearchResults, Apart, page, history
<1>14. CASE PerformSearch(t)
  BY <1>3, <1>4, <1>5, <1>14, ApartStandsBy DEF PerformSearch, Apart, page, ids, history
<1>15. CASE DescribeNode(t)
  BY <1>3, <1>4, <1>15, UnknownMoves, ApartStandsBy
     DEF DescribeNode, Undescribed, Apart, page, ids, history
<1>16. CASE ResolveNode(t)
  <2>1. Moves(t)
    BY <1>4, <1>5, <1>25, <1>16 DEF ResolveNode
  <2>2. elem'[u] = elem[u] /\ elemLive'[u] = elemLive[u] /\ since'[u] = since[u]
    BY <1>1, <1>16 DEF ResolveNode, Set, DataTypes, HistoryTypes
  <2> QED
    BY <1>3, <1>16, <2>1, <2>2, ApartStandsBy DEF ResolveNode, Apart, page
<1>17. CASE CheckVisibility(t)
  BY <1>3, <1>4, <1>25, <1>17, ApartStandsBy
     DEF CheckVisibility, Unwraps, Apart, page, ids, history
<1>18. CASE CallOnElement(t)
  BY <1>3, <1>4, <1>5, <1>25, <1>18, ApartStandsBy
     DEF CallOnElement, Unwraps, Apart, page, ids, history
<1>26. CASE FocusOn(t)
  BY <1>3, <1>4, <1>5, <1>26, ApartStandsBy DEF FocusOn, Apart, page, ids, history
<1>19. CASE GetBoxModel(t)
  BY <1>3, <1>4, <1>5, <1>19, ApartStandsBy DEF GetBoxModel, Apart, page, ids, history
<1>20. CASE GetComputedStyles(t)
  BY <1>3, <1>4, <1>5, <1>20, ApartStandsBy DEF GetComputedStyles, Apart, page, ids, history
<1>21. CASE ScrollIntoView(t)
  <2>1. Moves(t)
    BY <1>4, <1>5, <1>21 DEF ScrollIntoView
  <2>2. boxes /\ inView => inView'
    BY Zenon, <1>21 DEF ScrollIntoView, Scrolled
  <2> QED
    BY <1>3, <1>21, <2>1, <2>2, ApartStandsBy DEF ScrollIntoView, Apart, ids, history
<1>22. CASE GetContentQuads(t)
  <2>1. at'[u] = at[u] /\ point'[u] = point[u]
    BY <1>1, <1>2, <1>22 DEF GetContentQuads, Set, DataTypes
  <2> QED
    BY <1>22, <2>1, ApartStandsBy DEF GetContentQuads, Apart, page, ids, history
<1>23. CASE PollRectangle(t)
  <2>1. Moves(t)
    BY <1>4, <1>25, <1>23 DEF PollRectangle, Moves, Outcomes, Unwraps
  <2>2. point'[u] = point[u] /\ (boxes /\ inView => inView')
    BY <1>1, <1>23 DEF PollRectangle, Set, DataTypes
  <2> QED
    BY <1>3, <1>23, <2>1, <2>2, ApartStandsBy DEF PollRectangle, Apart, ids, history
<1>24. CASE Dispatch(t)
  BY <1>3, <1>4, <1>5, <1>24, ApartStandsBy DEF Dispatch, Apart, page, ids, history
<1> QED
  BY <1>7, <1>8, <1>9, <1>10, <1>11, <1>12, <1>13, <1>14, <1>15, <1>16, <1>17, <1>18,
     <1>19, <1>20, <1>21, <1>22, <1>23, <1>24, <1>26 DEF Step

-----------------------------------------------------------------------------
(* What a thread's own call leaves alone, and how its place moves.         *)
Steady(t) ==
  /\ op'[t] = op[t] /\ changed'[t] = changed[t]
  /\ UNCHANGED <<match, boxes, open>>

ElementKept(t) ==
  elem'[t] = elem[t] /\ elemLive'[t] = elemLive[t] /\ since'[t] = since[t]

LEMMA ElementKeptIsTrue ==
  ASSUME NEW t, ThreadInv(t), Steady(t), ElementKept(t)
  PROVE  ElementIsTrue(t)' /\ OnElementHasOne(t)'
BY DEF ThreadInv, Holds, ElementIsTrue, OnElementHasOne, Steady, ElementKept

LEMMA ProceedsTo ==
  ASSUME Types, NEW t \in Threads, Running(t), op'[t] = op[t], Proceed(t)
  PROVE  \/ /\ at[t] < Len(Calls(op[t])) /\ at'[t] = at[t] + 1 /\ outcome'[t] = "none"
            /\ Follows(NextCall(t), NextCall(t)')
         \/ /\ at[t] = Len(Calls(op[t])) /\ at'[t] = at[t] /\ outcome'[t] = "ok"
            /\ NextCall(t)' = NextCall(t)
<1>1. /\ Len(Calls(op[t])) \in Nat /\ at[t] \in Nat /\ at[t] <= Len(Calls(op[t]))
      /\ at[t] < Len(Calls(op[t])) => Follows(NextCall(t), Calls(op[t])[at[t] + 1])
  BY NextOf DEF Running
<1>2. at \in [Threads -> Nat] /\ outcome \in [Threads -> Outcomes]
  BY DEF Types, TypeOK, Outcomes
<1>3. CASE at[t] < Len(Calls(op[t]))
  <2>1. at'[t] = at[t] + 1 /\ outcome'[t] = "none"
    BY <1>2, <1>3 DEF Proceed, Running
  <2> QED
    BY <1>1, <1>3, <2>1 DEF NextCall
<1>4. CASE ~(at[t] < Len(Calls(op[t])))
  <2>1. at'[t] = at[t] /\ outcome'[t] = "ok"
    BY <1>2, <1>4 DEF Proceed, Set
  <2> QED
    BY <1>1, <1>4, <2>1 DEF NextCall
<1> QED
  BY <1>3, <1>4

LEMMA FailsWith ==
  ASSUME Types, NEW t \in Threads, NEW how, op'[t] = op[t], Fail(t, how)
  PROVE  at'[t] = at[t] /\ outcome'[t] = how /\ NextCall(t)' = NextCall(t)
<1>1. outcome \in [Threads -> Outcomes]
  BY DEF Types, TypeOK, Outcomes
<1> QED
  BY <1>1 DEF Fail, Set, NextCall

(* The two families of operations: finders, and actions on an element.     *)
LEMMA Families ==
  /\ Finders \cap Ops(Acts) = {} /\ ToPointOps \subseteq Ops(Acts)
  /\ Retried \subseteq Finders /\ Ops(TabWaits) \subseteq Finders
  /\ "none" \notin {"ok", "missing", "error", "timeout", "panic"}
BY OpNames DEF Finders, Waits, ToPointOps, Retried

LEMMA FinderKeeps ==
  ASSUME Types, NEW t \in Threads, op[t] # None, op[t] \notin Ops(Acts), Steady(t),
         ElementIsTrue(t)', OnElementHasOne(t)', Searches(t)',
         MissIsRetried(t)', WaitMissesNothing(t)', FoundIsMatch(t)', PanicIsKnown(t)'
  PROVE  ThreadInv(t)'
<1>1. op'[t] \notin Ops(Acts) /\ op'[t] # None
  BY DEF Steady
<1>2. PointIsInView(t)' /\ InputWasInView(t)' /\ HandleIsStable(t)' /\ IdleIsClear(t)'
  BY <1>1, OpNames DEF PointIsInView, InputWasInView, HandleIsStable, IdleIsClear,
     ToPointOps
<1> QED
  BY <1>2 DEF ThreadInv, Holds, Promises

LEMMA FinderFails ==
  ASSUME Types, NEW t \in Threads, Running(t), ThreadInv(t), op[t] \notin Ops(Acts),
         Steady(t), ElementKept(t), found'[t] = found[t],
         NEW how \in Outcomes \ {"none"}, Fail(t, how),
         op[t] \in Retried /\ how \in {"missing", "error", "panic"} =>
           LostIn(changed[t]) \/ (how = "panic" /\ found[t] \in Sparse),
         op[t] \in Ops(TabWaits) /\ how = "timeout" =>
           match = None \/ changed[t] # {} \/ ~open,
         op[t] \in Finders /\ how = "ok" => op[t] \in MayBeEmpty,
         how = "panic" => \/ op[t] \in {"xpathIn", "waitXpathIn"}
                          \/ op[t] \in Finders /\ found[t] \in Sparse
                          \/ op[t] \in UnwrapsValues /\ elem[t] \in Sparse
  PROVE  ThreadInv(t)'
<1>1. op'[t] = op[t] /\ changed'[t] = changed[t] /\ UNCHANGED <<match, open>>
  BY DEF Steady
<1>2. at'[t] = at[t] /\ outcome'[t] = how /\ NextCall(t)' = NextCall(t)
  BY <1>1, FailsWith
<1>3. Searches(t)'
  <2>1. Searches(t)
    BY DEF ThreadInv
  <2>2. OnlyFindersFind(t)' /\ FoundIsTrue(t)' /\ FoundIsThere(t)'
    BY <1>1, <1>2, <2>1 DEF Searches, OnlyFindersFind, FoundIsTrue, FoundIsThere
  <2>3. IdsAreGood(t)'
    BY <1>2 DEF IdsAreGood
  <2> QED
    BY <2>2, <2>3 DEF Searches
<1>4. MissIsRetried(t)' /\ WaitMissesNothing(t)' /\ PanicIsKnown(t)'
  BY <1>1, <1>2 DEF MissIsRetried, WaitMissesNothing, PanicIsKnown, LostIn, ElementKept
<1>5. FoundIsMatch(t)'
  BY <1>1, <1>2, <1>3 DEF FoundIsMatch, Searches, FoundIsTrue
<1> QED
  BY <1>3, <1>4, <1>5, ElementKeptIsTrue, FinderKeeps DEF Running

LEMMA FinderRepeats ==
  ASSUME Types, NEW t \in Threads, Running(t), ThreadInv(t), op[t] \notin Ops(Acts),
         Steady(t), ElementKept(t), found'[t] = found[t], Again(t)
  PROVE  ThreadInv(t)'
<1>1. op'[t] = op[t] /\ changed'[t] = changed[t] /\ UNCHANGED <<match, open>>
  BY DEF Steady
<1>2. at'[t] = 1 /\ outcome'[t] = "none"
  BY DEF Again, Set, Running, Types
<1>3. NextCall(t)' = Calls(op[t])[1] /\ Fits(op[t], Len(Calls(op[t])), 1, NextCall(t)')
  BY <1>1, <1>2, NextOf DEF NextCall, Running
<1>4. Searches(t)'
  <2>1. Searches(t)
    BY DEF ThreadInv
  <2>2. OnlyFindersFind(t)' /\ FoundIsTrue(t)'
    BY <1>1, <2>1 DEF Searches, OnlyFindersFind, FoundIsTrue
  <2>3. FoundIsThere(t)'
    BY <1>3 DEF FoundIsThere, Fits
  <2>4. op'[t] \in Ops(TabWaits) => NextCall(t)' = "document"
    BY <1>1, <1>3 DEF Fits
  <2>5. IdsAreGood(t)'
    BY <2>4 DEF IdsAreGood, Searching
  <2> QED
    BY <2>2, <2>3, <2>5 DEF Searches
<1>5. MissIsRetried(t)' /\ WaitMissesNothing(t)' /\ PanicIsKnown(t)' /\ FoundIsMatch(t)'
  BY <1>2 DEF MissIsRetried, WaitMissesNothing, PanicIsKnown, FoundIsMatch
<1> QED
  BY <1>4, <1>5, ElementKeptIsTrue, FinderKeeps DEF Running

LEMMA FinderProceeds ==
  ASSUME Types, NEW t \in Threads, Running(t), ThreadInv(t), op[t] \notin Ops(Acts),
         Steady(t), ElementIsTrue(t)', OnElementHasOne(t)', Proceed(t),
         OnlyFindersFind(t)', FoundIsTrue(t)',
         NextCall(t) \in {"query", "queryAll", "results"} =>
           found'[t] # None /\ foundOk'[t],
         NextCall(t) \in Holding => found'[t] = found[t],
         NextCall(t) = "document" => rootOk'[t],
         NextCall(t) = "search" => rootOk'[t] = rootOk[t]
  PROVE  ThreadInv(t)'
<1>1. op'[t] = op[t] /\ changed'[t] = changed[t] /\ UNCHANGED <<match, open>>
  BY DEF Steady
<1>2. Searches(t)
  BY DEF ThreadInv
<1>3. MissIsRetried(t)' /\ WaitMissesNothing(t)' /\ PanicIsKnown(t)' /\ FoundIsMatch(t)'
      /\ FoundIsThere(t)' /\ IdsAreGood(t)'
  <2>1. CASE /\ outcome'[t] = "none" /\ Follows(NextCall(t), NextCall(t)')
    <3>1. MissIsRetried(t)' /\ WaitMissesNothing(t)' /\ PanicIsKnown(t)' /\ FoundIsMatch(t)'
      BY <2>1 DEF MissIsRetried, WaitMissesNothing, PanicIsKnown, FoundIsMatch
    <3>2. FoundIsThere(t)'
      BY <1>1, <1>2, <2>1 DEF Searches, FoundIsThere, Follows, Holding
    <3>3. IdsAreGood(t)'
      BY <1>1, <1>2, <2>1 DEF Searches, IdsAreGood, Follows, Searching, Running
    <3> QED
      BY <3>1, <3>2, <3>3

       <2>2. CASE /\ at[t] = Len(Calls(op[t])) /\ outcome'[t] = "ok" /\ NextCall(t)' = NextCall(t)
    <3>1. op[t] \in Finders => NextCall(t) \in {"resolve", "visible"}
      BY <2>2, NextOf DEF Fits, Running
    <3>2. MissIsRetried(t)' /\ WaitMissesNothing(t)' /\ PanicIsKnown(t)' /\ IdsAreGood(t)'
      BY <2>2 DEF MissIsRetried, WaitMissesNothing, PanicIsKnown, IdsAreGood
    <3>3. FoundIsThere(t)'
      BY <1>1, <1>2, <2>2 DEF Searches, FoundIsThere
    <3>4. FoundIsMatch(t)'
      BY <1>1, <1>2, <3>1 DEF Searches, FoundIsMatch, FoundIsThere, FoundIsTrue, Holding,
         Running
    <3> QED
      BY <3>2, <3>3, <3>4
  <2> QED
    BY <1>1, <2>1, <2>2, ProceedsTo
<1> QED
  BY <1>3, FinderKeeps DEF Running, Searches

LEMMA ActKeeps ==
  ASSUME Types, Types', NEW t \in Threads, ThreadInv(t), op[t] \in Ops(Acts),
         Steady(t), ElementKept(t), found'[t] = found[t],
         PointIsInView(t)', HandleIsStable(t)', InputWasInView(t)', PanicIsKnown(t)'
  PROVE  ThreadInv(t)'
<1>1. op'[t] = op[t] /\ op[t] \in Operations /\ op'[t] \notin Finders
  BY Families DEF Steady, Operations
<1>2. op'[t] # None /\ at'[t] \in 1..Len(Calls(op'[t]))
  BY <1>1, NoneIsNothing DEF Types, TypeOK
<1>3. Fits(op'[t], Len(Calls(op'[t])), at'[t], NextCall(t)')
  BY <1>1, <1>2, CallOrder DEF NextCall
<1>4. found'[t] = None
  BY <1>1 DEF ThreadInv, Searches, OnlyFindersFind
<1>5. Searches(t)'
  <2>1. FoundIsThere(t)'
    BY <1>1, <1>3 DEF Fits, FoundIsThere
  <2>2. OnlyFindersFind(t)' /\ FoundIsTrue(t)' /\ IdsAreGood(t)'
    BY <1>1, <1>4, Families DEF OnlyFindersFind, FoundIsTrue, IdsAreGood
  <2> QED
    BY <2>1, <2>2 DEF Searches
<1>6. IdleIsClear(t)' /\ MissIsRetried(t)' /\ WaitMissesNothing(t)' /\ FoundIsMatch(t)'
  BY <1>1, <1>2, Families DEF IdleIsClear, MissIsRetried, WaitMissesNothing, FoundIsMatch
<1> QED
  BY <1>5, <1>6, ElementKeptIsTrue DEF ThreadInv, Holds, Promises

LEMMA ActFails ==
  ASSUME Types, Types', NEW t \in Threads, Running(t), ThreadInv(t), op[t] \in Ops(Acts),
         Steady(t), ElementKept(t), found'[t] = found[t], point'[t] = point[t],
         inView' = inView, NEW how \in {"error", "timeout", "panic"}, Fail(t, how),
         op[t] # "styles" /\ how # "timeout" /\ elem[t] \notin Sparse =>
           \/ LostIn(since[t]) \/ (op[t] \in {"shot", "focus"} /\ ~boxes)
           \/ op[t] = "focus" /\ elem[t] \notin Focusable,
         how = "panic" =>
           \/ op[t] \in ToPointOps /\ (~open \/ "page" \in since[t])
           \/ op[t] \in UnwrapsValues /\ elem[t] \in Sparse
  PROVE  ThreadInv(t)'
<1>1. /\ op'[t] = op[t] /\ changed'[t] = changed[t] /\ UNCHANGED <<match, boxes, open>>
      /\ elem'[t] = elem[t] /\ since'[t] = since[t]
  BY DEF Steady, ElementKept
<1>2. at'[t] = at[t] /\ outcome'[t] = how
  BY <1>1, FailsWith
<1>3. PointIsInView(t)'
  BY <1>1, <1>2 DEF ThreadInv, Holds, PointIsInView
<1>4. HandleIsStable(t)' /\ PanicIsKnown(t)'
  BY <1>1, <1>2 DEF HandleIsStable, PanicIsKnown, LostIn, ToPointOps
<1>5. InputWasInView(t)'
  BY <1>2 DEF InputWasInView
<1> QED
  BY <1>3, <1>4, <1>5, ActKeeps

LEMMA ActProceeds ==
  ASSUME Types, Types', NEW t \in Threads, Running(t), ThreadInv(t), op[t] \in Ops(Acts),
         Steady(t), ElementKept(t), found'[t] = found[t], Proceed(t), PointIsInView(t)'
  PROVE  ThreadInv(t)'
<1>1. /\ op'[t] = op[t] /\ changed'[t] = changed[t]
      /\ outcome'[t] \in {"none", "ok"}
      /\ outcome'[t] = "ok" => at'[t] = Len(Calls(op[t]))
  BY ProceedsTo DEF Steady
<1>2. HandleIsStable(t)' /\ PanicIsKnown(t)'
  BY <1>1 DEF HandleIsStable, PanicIsKnown
<1>3. InputWasInView(t)'
  <2>1. op[t] \in ToPointOps => Len(Calls(op[t])) >= 4
    BY NextOf DEF Fits, Running
  <2> QED
    BY <1>1, <2>1 DEF InputWasInView, PointIsInView, ToPointOps
<1> QED
  BY <1>2, <1>3, ActKeeps

(* A call after the three that lead to the point does not lose it.         *)
LEMMA PointKept ==
  ASSUME Types, NEW t \in Threads, Running(t), ThreadInv(t), Steady(t), ElementKept(t),
         point'[t] = point[t], Proceed(t), NextCall(t) \notin {"scroll", "quads", "poll"}
  PROVE  PointIsInView(t)'
<1>1. op[t] \in ToPointOps => at[t] >= 4
  BY NextOf DEF Fits, Running
<1>2. op'[t] = op[t] /\ at'[t] \in {at[t], at[t] + 1} /\ at[t] \in Nat
  BY ProceedsTo, NextOf DEF Steady, Running
<1> QED
  BY <1>1, <1>2 DEF ThreadInv, Holds, PointIsInView, Steady

-----------------------------------------------------------------------------
(* The thread that acts, action by action.                                 *)
LEMMA StartKeeps ==
  ASSUME Types, Types', NEW t \in Threads, ThreadInv(t), Start(t)
  PROVE  ThreadInv(t)'
<1>1. /\ op[t] = None /\ outcome' = outcome /\ found' = found /\ changed' = changed
      /\ elem' = elem /\ elemLive' = elemLive /\ since' = since /\ at' = Set(at, t, 1)
      /\ UNCHANGED <<match, boxes, open>>
  BY DEF Start, page, history
<1>2. PICK o \in OpsOf[t][ops'[t]] : (o \in OnElement => elem[t] # None) /\ op' = Set(op,
    t, o)
  BY DEF Start
<1>3. op'[t] = o /\ at'[t] = 1
  BY <1>1, <1>2 DEF Set, Types, TypeOK
<1>4. outcome'[t] = "none" /\ found'[t] = None
  <2>1. None \notin Finders
    BY NoneIsNothing DEF Operations
  <2> QED
    BY <1>1, <2>1 DEF ThreadInv, IdleIsClear, Searches, OnlyFindersFind
<1>5. op'[t] # None => Fits(op'[t], Len(Calls(op'[t])), 1, NextCall(t)')
  <2>1. op'[t] # None => op'[t] \in Operations /\ at'[t] \in 1..Len(Calls(op'[t]))
    BY DEF Types, TypeOK
  <2> QED
    BY <1>3, <2>1, CallOrder DEF NextCall
<1>6. Searches(t)'
  <2>1. OnlyFindersFind(t)' /\ FoundIsTrue(t)'
    BY <1>4 DEF OnlyFindersFind, FoundIsTrue
  <2>2. FoundIsThere(t)'
    BY <1>5 DEF FoundIsThere, Fits
  <2>3. op'[t] \in Ops(TabWaits) => op'[t] # None
    BY NoneIsNothing, Families DEF Operations
  <2>4. IdsAreGood(t)'
    BY <1>5, <2>3 DEF IdsAreGood, Fits, Searching
  <2> QED
    BY <2>1, <2>2, <2>4 DEF Searches
<1>7. Holds(t)'
  <2>1. ElementIsTrue(t)'
    BY <1>1 DEF ThreadInv, Holds, ElementIsTrue
  <2>2. OnElementHasOne(t)'
    BY <1>1, <1>2, <1>3 DEF OnElementHasOne
  <2>3. PointIsInView(t)'
    BY <1>3 DEF PointIsInView
  <2> QED
    BY <2>1, <2>2, <2>3 DEF Holds
<1>8. Promises(t)'
  BY <1>4 DEF Promises, MissIsRetried, WaitMissesNothing, FoundIsMatch, HandleIsStable,
              InputWasInView, PanicIsKnown
<1> QED
  BY <1>4, <1>6, <1>7, <1>8 DEF ThreadInv, IdleIsClear

LEMMA ReturnKeeps ==
  ASSUME Types, NEW t \in Threads, ThreadInv(t), Return(t)
  PROVE  ThreadInv(t)'
<1>1. op'[t] = None /\ outcome'[t] = "none" /\ found'[t] = None
  BY TypesAre DEF Return, Set, OpTypes, Places, DataTypes
<1>2. /\ elem' = elem /\ elemLive' = elemLive /\ since' = since
      /\ UNCHANGED <<match, boxes, inView, open>>
  BY DEF Return, page
<1>3. op'[t] \notin Operations /\ op'[t] \notin Finders \cup Ops(Acts) \cup OnElement
  BY <1>1, NoneIsNothing DEF Operations, OnElement, Finders, Waits
<1>4. Searches(t)'
  BY <1>1, <1>3, Families
     DEF Searches, OnlyFindersFind, FoundIsTrue, FoundIsThere, IdsAreGood
<1>5. Holds(t)'
  BY <1>2, <1>3, Families DEF ThreadInv, Holds, ElementIsTrue, OnElementHasOne,
     PointIsInView
<1>6. Promises(t)'
  BY <1>1 DEF Promises, MissIsRetried, WaitMissesNothing, FoundIsMatch, HandleIsStable,
              InputWasInView, PanicIsKnown
<1> QED
  BY <1>1, <1>4, <1>5, <1>6 DEF ThreadInv, IdleIsClear

LEMMA ExpireKeeps ==
  ASSUME Types, NEW t \in Threads, ThreadInv(t), Expire(t)
  PROVE  ThreadInv(t)'
<1>1. UNCHANGED <<page, ids, op, at, found, point, outcome, elem, elemLive, history>>
  BY DEF Expire
<1>2. Searches(t)'
  BY <1>1 DEF ThreadInv, Searches, OnlyFindersFind, FoundIsTrue, FoundIsThere, IdsAreGood,
              NextCall, page, ids, history
<1>3. Holds(t)'
  BY <1>1 DEF ThreadInv, Holds, ElementIsTrue, OnElementHasOne, PointIsInView, page, history
<1>4. Promises(t)'
  BY <1>1 DEF ThreadInv, Promises, MissIsRetried, WaitMissesNothing, FoundIsMatch,
              HandleIsStable, InputWasInView, PanicIsKnown, LostIn, page, history
<1> QED
  BY <1>1, <1>2, <1>3, <1>4 DEF ThreadInv, IdleIsClear

(* A miss, and an id that Chrome does not know.                            *)
LEMMA MissKeeps ==
  ASSUME Types, NEW t \in Threads, Running(t), ThreadInv(t), op[t] \notin Ops(Acts),
         Steady(t), ElementKept(t), found'[t] = found[t], Miss(t),
         op[t] \in Ops(TabWaits) => match = None \/ changed[t] # {} \/ ~open
  PROVE  ThreadInv(t)'
<1>1. CASE op[t] = "waitVisible" /\ Fail(t, "error")
  <2>1. op[t] \notin Retried
    BY <1>1 DEF Retried
  <2> QED
    BY <1>1, <2>1, FinderFails DEF Outcomes
<1>2. CASE op[t] \in Waits \ {"waitVisible"} /\ expired[t] /\ Fail(t, "timeout")
  BY <1>2, FinderFails DEF Outcomes
<1>3. CASE op[t] \in Waits \ {"waitVisible"} /\ Again(t)
  BY <1>3, FinderRepeats
<1>4. CASE op[t] \notin Waits /\ Fail(t, "missing")
  <2>1. op[t] \notin Retried
    BY <1>4 DEF Retried
  <2> QED
    BY <1>4, <2>1, FinderFails DEF Outcomes
<1> QED
  BY <1>1, <1>2, <1>3, <1>4, MissIs

LEMMA LostKeeps ==
  ASSUME Types, NEW t \in Threads, Running(t), ThreadInv(t), op[t] \notin Ops(Acts),
         Steady(t), ElementKept(t), found'[t] = found[t], Fail(t, "error"),
         op[t] \in Retried => LostIn(changed[t])
  PROVE  ThreadInv(t)'
BY FinderFails DEF Outcomes

LEMMA UnknownKeeps ==
  ASSUME Types, NEW t \in Threads, Running(t), ThreadInv(t), op[t] \notin Ops(Acts),
         Steady(t), ElementKept(t), found'[t] = found[t], Unknown(t),
         op[t] \in Ops(TabWaits) /\ open => changed[t] # {}
  PROVE  ThreadInv(t)'
<1>1. CASE open
  BY <1>1, MissKeeps DEF Unknown
<1>2. CASE ~open
  BY <1>2, LostKeeps DEF Unknown, LostIn
<1> QED
  BY <1>1, <1>2

(* What a query or a search finds is what matches.                         *)
LEMMA FindsKeeps ==
  ASSUME Types, NEW t \in Threads, Running(t), ThreadInv(t), op[t] \notin Ops(Acts),
         Steady(t), ElementKept(t), Finds(t, match), match # None, op[t] \in Finders,
         NextCall(t) \in {"query", "queryAll", "results"}
  PROVE  ThreadInv(t)'
<1>1. found'[t] = match /\ foundOk'[t] /\ Proceed(t)
  BY DEF Finds, Set, Types, TypeOK
<1>2. OnlyFindersFind(t)' /\ FoundIsTrue(t)'
  BY <1>1 DEF OnlyFindersFind, FoundIsTrue, Steady
<1>3. NextCall(t) \notin Holding \cup {"document", "search"}
  BY DEF Holding
<1> QED
  BY <1>1, <1>2, <1>3, ElementKeptIsTrue, FinderProceeds

(* The call is that of a finder, or of an action on an element.            *)
LEMMA FinderCalls ==
  ASSUME Types, NEW t \in Threads, NEW c \in Searching \cup Holding, Call(t, c)
  PROVE  /\ Running(t) /\ NextCall(t) = c
         /\ op[t] \in Finders /\ op[t] \notin Ops(Acts)
BY NextOf, Families DEF Call, NextCall, Running, Fits

LEMMA ActCalls ==
  ASSUME Types, NEW t \in Threads, ThreadInv(t),
         NEW c \in {"object", "focus", "box", "styles", "scroll", "quads", "poll"}
                  \cup Input,
         Call(t, c)
  PROVE  Running(t) /\ NextCall(t) = c /\ op[t] \in Ops(Acts) /\ elem[t] # None
<1>1. Running(t) /\ NextCall(t) = c
  BY DEF Call, NextCall
<1>2. op[t] \in Ops(Acts)
  BY <1>1, NextOf DEF Running, Fits
<1> QED
  BY <1>1, <1>2 DEF ThreadInv, Holds, OnElementHasOne, OnElement

LEMMA TabWaitsQuery ==
  ASSUME NEW t, op[t] \in Ops(TabWaits)
  PROVE  /\ op[t] \notin OnElement /\ QueriedOk(t) = rootOk[t]
         /\ None \in Matches(t) => match = None
<1>1. op[t] \notin OnElement
  BY OpNames DEF OnElement
<1> QED
  BY <1>1 DEF QueriedOk, Matches

LEMMA GetDocumentKeeps ==
  ASSUME Types, NEW t \in Threads, ThreadInv(t), GetDocument(t)
  PROVE  ThreadInv(t)'
<1>1. Running(t) /\ NextCall(t) = "document"
  BY DEF GetDocument, Call, NextCall
<1>2. op[t] \notin Ops(Acts)
  <2>1. op[t] \in Finders \cup Ops(OnTab)
    BY <1>1, NextOf DEF Running, Fits
  <2> QED
    BY <2>1, OpNames, Families
<1>3. UNCHANGED <<match, boxes, open, op, found, elem, elemLive, since>>
  BY DEF GetDocument, page
<1>4. CASE open
  <2>1. Proceed(t) /\ rootOk'[t] /\ changed'[t] = changed[t]
    BY <1>4 DEF GetDocument
  <2>2. Steady(t) /\ ElementKept(t)
    BY <1>3, <2>1 DEF Steady, ElementKept
  <2>3. OnlyFindersFind(t)' /\ FoundIsTrue(t)'
    BY <1>3, <2>1 DEF ThreadInv, Searches, OnlyFindersFind, FoundIsTrue
  <2>4. NextCall(t) \notin {"query", "queryAll", "results", "search"} \cup Holding
    BY <1>1 DEF Holding
  <2> QED
    BY <1>1, <1>2, <2>1, <2>2, <2>3, <2>4, ElementKeptIsTrue, FinderProceeds
<1>5. CASE ~open
  <2>1. Fail(t, "error") /\ UNCHANGED <<ids, changed>>
    BY <1>5 DEF GetDocument
  <2>2. Steady(t) /\ ElementKept(t)
    BY <1>3, <2>1 DEF Steady, ElementKept
  <2> QED
    BY <1>1, <1>2, <1>3, <1>5, <2>1, <2>2, LostKeeps DEF LostIn
<1> QED
  BY <1>4, <1>5

LEMMA QuerySelectorKeeps ==
  ASSUME Types, NEW t \in Threads, ThreadInv(t), QuerySelector(t)
  PROVE  ThreadInv(t)'
<1>1. Running(t) /\ NextCall(t) = "query" /\ op[t] \in Finders /\ op[t] \notin Ops(Acts)
  BY FinderCalls DEF QuerySelector, Searching
<1>2. Steady(t) /\ ElementKept(t)
  BY DEF QuerySelector, Steady, ElementKept, page, history
<1>3. FindsNot => found'[t] = found[t]
  BY DEF FindsNot
<1>4. op[t] \in Ops(TabWaits) /\ changed[t] = {} => rootOk[t]
  BY <1>1 DEF ThreadInv, Searches, IdsAreGood, Running, Searching
<1>5. CASE open /\ QueriedOk(t) /\ None \in Matches(t) /\ Miss(t) /\ FindsNot
  BY <1>1, <1>2, <1>3, <1>5, TabWaitsQuery, MissKeeps
<1>6. CASE Finds(t, match) /\ match # None
  BY <1>1, <1>2, <1>6, FindsKeeps
<1>7. CASE ~(open /\ QueriedOk(t)) /\ Unknown(t) /\ FindsNot
  BY <1>1, <1>2, <1>3, <1>4, <1>7, TabWaitsQuery, UnknownKeeps
<1> QED
  BY <1>5, <1>6, <1>7, QueryIs

LEMMA QuerySelectorAllKeeps ==
  ASSUME Types, NEW t \in Threads, ThreadInv(t), QuerySelectorAll(t)
  PROVE  ThreadInv(t)'
<1>1. Running(t) /\ NextCall(t) = "queryAll" /\ op[t] \in Finders /\ op[t] \notin Ops(Acts)
  BY FinderCalls DEF QuerySelectorAll, Searching
<1>2. Steady(t) /\ ElementKept(t)
  BY DEF QuerySelectorAll, Steady, ElementKept, page, history
<1>3. FindsNot => found'[t] = found[t]
  BY DEF FindsNot
<1>4. op[t] \in Ops(TabWaits) /\ changed[t] = {} => rootOk[t]
  BY <1>1 DEF ThreadInv, Searches, IdsAreGood, Running, Searching
<1>5. CASE open /\ QueriedOk(t) /\ None \in Matches(t) /\ NoneOfAll(t) /\ FindsNot
  <2>1. CASE op[t] \in OnElement
    <3>1. op[t] \in MayBeEmpty
      BY <1>1, <2>1, NextOf DEF Running, Fits, MayBeEmpty
    <3>2. Fail(t, "ok") /\ op[t] \notin Ops(TabWaits)
      BY <1>5, <2>1, TabWaitsQuery DEF NoneOfAll, Fail
    <3> QED
      BY <1>1, <1>2, <1>3, <1>5, <3>1, <3>2, FinderFails DEF Outcomes
  <2>2. CASE op[t] \notin OnElement
    <3>1. Miss(t)
      BY <1>5, <2>2 DEF NoneOfAll
    <3> QED
      BY <1>1, <1>2, <1>3, <1>5, <3>1, TabWaitsQuery, MissKeeps
  <2> QED
    BY <2>1, <2>2
<1>6. CASE Finds(t, match) /\ match # None
  BY <1>1, <1>2, <1>6, FindsKeeps
<1>7. CASE ~(open /\ QueriedOk(t)) /\ Unknown(t) /\ FindsNot
  BY <1>1, <1>2, <1>3, <1>4, <1>7, TabWaitsQuery, UnknownKeeps
<1> QED
  BY <1>5, <1>6, <1>7, QueryAllIs

LEMMA PerformSearchKeeps ==
  ASSUME Types, NEW t \in Threads, ThreadInv(t), PerformSearch(t)
  PROVE  ThreadInv(t)'
<1>1. Running(t) /\ NextCall(t) = "search" /\ op[t] \in Finders /\ op[t] \notin Ops(Acts)
  BY FinderCalls DEF PerformSearch, Searching
<1>2. Steady(t) /\ ElementKept(t) /\ found'[t] = found[t] /\ rootOk'[t] = rootOk[t]
  BY DEF PerformSearch, Steady, ElementKept, page, history, ids
<1>3. OnlyFindersFind(t)' /\ FoundIsTrue(t)'
  BY <1>2 DEF ThreadInv, Searches, OnlyFindersFind, FoundIsTrue, Steady
<1>4. CASE open
  <2>1. Proceed(t)
    BY <1>4 DEF PerformSearch
  <2>2. NextCall(t) \notin {"query", "queryAll", "results", "document"} \cup Holding
    BY <1>1 DEF Holding
  <2> QED
    BY <1>1, <1>2, <1>3, <2>1, <2>2, ElementKeptIsTrue, FinderProceeds
<1>5. CASE ~open
  BY <1>1, <1>2, <1>5, LostKeeps DEF PerformSearch, LostIn
<1> QED
  BY <1>4, <1>5

LEMMA GetSearchResultsKeeps ==
  ASSUME Types, NEW t \in Threads, ThreadInv(t), GetSearchResults(t)
  PROVE  ThreadInv(t)'
<1>1. Running(t) /\ NextCall(t) = "results" /\ op[t] \in Finders /\ op[t] \notin Ops(Acts)
  BY FinderCalls DEF GetSearchResults, Searching
<1>2. Steady(t) /\ ElementKept(t)
  BY DEF GetSearchResults, Steady, ElementKept, page, history
<1>3. CASE Finds(t, match) /\ match # None
  BY <1>1, <1>2, <1>3, FindsKeeps
<1>4. ASSUME ~(open /\ rootOk[t] /\ match # None), NoResults(t), FindsNot
      PROVE  ThreadInv(t)'
  <2>1. found'[t] = found[t] /\ op[t] \in XpathOps
    BY <1>1, <1>4, NextOf DEF FindsNot, Running, Fits
  <2>2. op[t] \in Ops(TabWaits) /\ changed[t] = {} => rootOk[t]
    BY <1>1 DEF ThreadInv, Searches, IdsAreGood, Running, Searching
  <2>3. CASE op[t] \in {"xpath", "waitXpath"}
    BY <1>1, <1>2, <1>4, <2>1, <2>2, <2>3, MissKeeps DEF NoResults
  <2>4. CASE op[t] \notin {"xpath", "waitXpath"}
    <3>1. op[t] \notin Retried /\ ListXpath \subseteq MayBeEmpty
      BY <2>1, <2>4, OpNames DEF Retried, XpathOps, ListXpath, MayBeEmpty, Waits
    <3>2. op[t] \notin ListXpath => op[t] \in {"xpathIn", "waitXpathIn"}
      BY <2>1, <2>4 DEF XpathOps, ListXpath
    <3>3. CASE Fail(t, "error")
      BY <1>1, <1>2, <2>1, <3>1, <3>3, LostKeeps
    <3>4. CASE Fail(t, "ok") /\ op[t] \in ListXpath
      BY <1>1, <1>2, <2>1, <3>1, <3>4, FinderFails DEF Outcomes
    <3>5. CASE Fail(t, "panic") /\ op[t] \notin ListXpath
      BY <1>1, <1>2, <2>1, <3>1, <3>2, <3>5, FinderFails DEF Outcomes
    <3> QED
      BY <1>4, <2>4, <3>3, <3>4, <3>5 DEF NoResults, EmptyResults
  <2> QED
    BY <2>3, <2>4
<1> QED
  BY <1>3, <1>4, ResultsAre

LEMMA DescribeNodeKeeps ==
  ASSUME Types, NEW t \in Threads, ThreadInv(t), DescribeNode(t)
  PROVE  ThreadInv(t)'
<1>1. Running(t) /\ NextCall(t) = "describe" /\ op[t] \in Finders /\ op[t] \notin Ops(Acts)
  BY FinderCalls DEF DescribeNode, Holding
<1>2. Steady(t) /\ ElementKept(t) /\ found'[t] = found[t]
  BY DEF DescribeNode, Steady, ElementKept, page, history
<1>3. OnlyFindersFind(t)' /\ FoundIsTrue(t)'
  BY <1>2 DEF ThreadInv, Searches, OnlyFindersFind, FoundIsTrue, Steady
<1>4. CASE open /\ foundOk[t]
  <2>1. Proceed(t)
    BY <1>4 DEF DescribeNode
  <2> QED
    BY <1>1, <1>2, <1>3, <2>1, ElementKeptIsTrue, FinderProceeds
<1>5. CASE ~(open /\ foundOk[t])
  <2>1. Unknown(t)
    BY <1>5 DEF DescribeNode, Undescribed
  <2>2. op[t] \in Ops(TabWaits) /\ open => changed[t] # {}
    BY <1>1, <1>5 DEF ThreadInv, Searches, IdsAreGood, Running
  <2> QED
    BY <1>1, <1>2, <2>1, <2>2, UnknownKeeps
<1> QED
  BY <1>4, <1>5

LEMMA ResolveNodeKeeps ==
  ASSUME Types, NEW t \in Threads, ThreadInv(t), ResolveNode(t)
  PROVE  ThreadInv(t)'
<1>1. Running(t) /\ NextCall(t) = "resolve" /\ op[t] \in Finders /\ op[t] \notin Ops(Acts)
  BY FinderCalls DEF ResolveNode, Holding
<1>2. Steady(t) /\ found'[t] = found[t]
  BY DEF ResolveNode, Steady, page
<1>3. found[t] # None /\ (found[t] = match \/ Losses \cap changed[t] # {})
  BY <1>1 DEF ThreadInv, Searches, FoundIsThere, FoundIsTrue, Running, Holding
<1>4. CASE /\ open /\ ~Gone(t) /\ Proceed(t)
           /\ elem' = Set(elem, t, found[t]) /\ elemLive' = Set(elemLive, t, TRUE)
           /\ since' = Set(since, t, changed[t] \cap Losses)
  <2>1. elem'[t] = found[t] /\ elemLive'[t] /\ since'[t] = changed[t] \cap Losses
    BY <1>4, TypesAre DEF Set, DataTypes, HistoryTypes
  <2>2. ElementIsTrue(t)' /\ OnElementHasOne(t)'
    BY <1>2, <1>3, <2>1 DEF ElementIsTrue, OnElementHasOne, Steady
  <2>3. OnlyFindersFind(t)' /\ FoundIsTrue(t)'
    BY <1>2 DEF ThreadInv, Searches, OnlyFindersFind, FoundIsTrue, Steady
  <2> QED
    BY <1>1, <1>2, <1>4, <2>2, <2>3, FinderProceeds
<1>5. CASE /\ (~open \/ MayBeGone(t)) /\ Fail(t, "error")
           /\ UNCHANGED <<elem, elemLive, since>>
  <2>1. LostIn(changed[t])
    BY <1>3, <1>5 DEF MayBeGone, Gone, LostIn, Losses
  <2>2. ElementKept(t)
    BY <1>5 DEF ElementKept
  <2> QED
    BY <1>1, <1>2, <1>5, <2>1, <2>2, LostKeeps
<1>6. CASE /\ found[t] \in Sparse /\ Fail(t, "panic")
           /\ UNCHANGED <<elem, elemLive, since>>
  <2>1. ElementKept(t)
    BY <1>6 DEF ElementKept
  <2> QED
    BY <1>1, <1>2, <1>6, <2>1, FinderFails DEF Outcomes
<1> QED
  BY <1>4, <1>5, <1>6 DEF ResolveNode

LEMMA CheckVisibilityKeeps ==
  ASSUME Types, NEW t \in Threads, ThreadInv(t), CheckVisibility(t)
  PROVE  ThreadInv(t)'
<1>1. Running(t) /\ NextCall(t) = "visible" /\ op[t] \notin Ops(Acts)
  BY FinderCalls DEF CheckVisibility, Holding
<1>2. Steady(t) /\ ElementKept(t) /\ found'[t] = found[t]
  BY DEF CheckVisibility, Steady, ElementKept, page, history
<1>3. OnlyFindersFind(t)' /\ FoundIsTrue(t)'
  BY <1>2 DEF ThreadInv, Searches, OnlyFindersFind, FoundIsTrue, Steady
<1>4. CASE Proceed(t)
  BY <1>1, <1>2, <1>3, <1>4, ElementKeptIsTrue, FinderProceeds
<1>5. CASE Unwraps(t)
  <2>1. op[t] = "waitVisible"
    BY <1>1, NextOf DEF Running, Fits
  <2>2. op[t] \notin Retried /\ op[t] \in UnwrapsValues
    BY <2>1 DEF Retried, UnwrapsValues
  <2> QED
    BY <1>1, <1>2, <1>5, <2>2, FinderFails DEF Unwraps, Outcomes
<1> QED
  BY <1>4, <1>5 DEF CheckVisibility

LEMMA CallOnElementKeeps ==
  ASSUME Types, Types', NEW t \in Threads, ThreadInv(t), CallOnElement(t)
  PROVE  ThreadInv(t)'
<1>1. Running(t) /\ NextCall(t) = "object" /\ op[t] \in Ops(Acts) /\ elem[t] # None
  BY ActCalls DEF CallOnElement
<1>2. /\ Steady(t) /\ ElementKept(t) /\ found'[t] = found[t] /\ point'[t] = point[t]
      /\ inView' = inView
  BY DEF CallOnElement, Steady, ElementKept, page, history
<1>3. CASE Proceed(t)
  BY <1>1, <1>2, <1>3, PointKept, ActProceeds
<1>4. CASE Unwraps(t)
  <2>1. op[t] \in UnwrapsValues
    BY <1>1, NextOf DEF Running, Fits, UnwrapsValues
  <2> QED
    BY <1>1, <1>2, <1>4, <2>1, ActFails DEF Unwraps
<1>5. CASE (~Stable(t) \/ elem[t] \in Sparse) /\ Fail(t, "error")
  <2>1. elem[t] \in Sparse \/ LostIn(since[t])
    BY <1>1, <1>5 DEF Stable, ThreadInv, Holds, ElementIsTrue, LostIn, Losses
  <2> QED
    BY <1>1, <1>2, <1>5, <2>1, ActFails
<1> QED
  BY <1>3, <1>4, <1>5 DEF CallOnElement

LEMMA FocusOnKeeps ==
  ASSUME Types, Types', NEW t \in Threads, ThreadInv(t), FocusOn(t)
  PROVE  ThreadInv(t)'
<1>1. Running(t) /\ NextCall(t) = "focus" /\ op[t] \in Ops(Acts) /\ elem[t] # None
  BY ActCalls DEF FocusOn
<1>2. /\ Steady(t) /\ ElementKept(t) /\ found'[t] = found[t] /\ point'[t] = point[t]
      /\ inView' = inView
  BY DEF FocusOn, Steady, ElementKept, page, history
<1>3. CASE Proceed(t)
  BY <1>1, <1>2, <1>3, PointKept, ActProceeds
<1>4. CASE /\ ~(Stable(t) /\ Attached(t) /\ boxes /\ elem[t] \in Focusable)
           /\ Fail(t, "error")
  <2>1. op[t] = "focus"
    BY <1>1, NextOf DEF Running, Fits
  <2>2. LostIn(since[t]) \/ ~boxes \/ elem[t] \notin Focusable
    BY <1>1, <1>4 DEF Stable, Attached, ThreadInv, Holds, ElementIsTrue, LostIn, Losses
  <2> QED
    BY <1>1, <1>2, <1>4, <2>1, <2>2, ActFails
<1> QED
  BY <1>3, <1>4 DEF FocusOn

LEMMA GetBoxModelKeeps ==
  ASSUME Types, Types', NEW t \in Threads, ThreadInv(t), GetBoxModel(t)
  PROVE  ThreadInv(t)'
<1>1. Running(t) /\ NextCall(t) = "box" /\ op[t] \in Ops(Acts) /\ elem[t] # None
  BY ActCalls DEF GetBoxModel
<1>2. /\ Steady(t) /\ ElementKept(t) /\ found'[t] = found[t] /\ point'[t] = point[t]
      /\ inView' = inView
  BY DEF GetBoxModel, Steady, ElementKept, page, history
<1>3. CASE Stable(t) /\ Attached(t) /\ boxes
  BY <1>1, <1>2, <1>3, PointKept, ActProceeds DEF GetBoxModel
<1>4. CASE ~(Stable(t) /\ Attached(t) /\ boxes)
  <2>1. LostIn(since[t]) \/ (op[t] \in {"shot", "focus"} /\ ~boxes)
    <3>1. op[t] = "shot"
      BY <1>1, NextOf DEF Running, Fits
    <3> QED
      BY <1>1, <1>4, <3>1
         DEF Stable, Attached, ThreadInv, Holds, ElementIsTrue, LostIn, Losses
  <2> QED
    BY <1>1, <1>2, <1>4, <2>1, ActFails DEF GetBoxModel
<1> QED
  BY <1>3, <1>4

LEMMA GetComputedStylesKeeps ==
  ASSUME Types, Types', NEW t \in Threads, ThreadInv(t), GetComputedStyles(t)
  PROVE  ThreadInv(t)'
<1>1. Running(t) /\ NextCall(t) = "styles" /\ op[t] \in Ops(Acts) /\ op[t] = "styles"
  <2>1. Running(t) /\ NextCall(t) = "styles" /\ op[t] \in Ops(Acts)
    BY ActCalls DEF GetComputedStyles
  <2> QED
    BY <2>1, NextOf DEF Running, Fits
<1>2. /\ Steady(t) /\ ElementKept(t) /\ found'[t] = found[t] /\ point'[t] = point[t]
      /\ inView' = inView
  BY DEF GetComputedStyles, Steady, ElementKept, page, history
<1>3. CASE Proceed(t)
  BY <1>1, <1>2, <1>3, PointKept, ActProceeds
<1>4. CASE Fail(t, "error")
  BY <1>1, <1>2, <1>4, ActFails
<1> QED
  BY <1>3, <1>4 DEF GetComputedStyles

LEMMA ScrollIntoViewKeeps ==
  ASSUME Types, Types', NEW t \in Threads, ThreadInv(t), ScrollIntoView(t)
  PROVE  ThreadInv(t)'
<1>1. Running(t) /\ NextCall(t) = "scroll" /\ op[t] \in Ops(Acts) /\ elem[t] # None
  BY ActCalls DEF ScrollIntoView
<1>2. Steady(t) /\ ElementKept(t) /\ found'[t] = found[t] /\ point'[t] = point[t]
  BY DEF ScrollIntoView, Steady, ElementKept, history
<1>3. CASE Stable(t) /\ Attached(t) /\ inView' = (boxes /\ Scrolled) /\ Proceed(t)
  <2>1. inView' = boxes /\ Proceed(t)
    BY <1>3, TypesAre DEF Scrolled, PageTypes
  <2>2. op[t] \in ToPointOps => at[t] = 1
    BY <1>1, NextOf DEF Running, Fits
  <2>3. at'[t] \in {at[t], at[t] + 1}
    BY <1>1, <1>2, <2>1, ProceedsTo DEF Steady
  <2>4. PointIsInView(t)'
    BY <1>2, <2>1, <2>2, <2>3 DEF PointIsInView, Steady
  <2> QED
    BY <1>1, <1>2, <2>1, <2>4, ActProceeds
<1>4. CASE /\ ~Stable(t) \/ ~Attached(t) \/ elem[t] \in Sparse
           /\ Fail(t, "error") /\ UNCHANGED inView
  <2>1. LostIn(since[t]) \/ elem[t] \in Sparse
    BY <1>1, <1>4 DEF Stable, Attached, ThreadInv, Holds, ElementIsTrue, LostIn, Losses
  <2> QED
    BY <1>1, <1>2, <1>4, <2>1, ActFails
<1> QED
  BY <1>3, <1>4 DEF ScrollIntoView

LEMMA GetContentQuadsKeeps ==
  ASSUME Types, Types', NEW t \in Threads, ThreadInv(t), GetContentQuads(t)
  PROVE  ThreadInv(t)'
<1>1. Running(t) /\ NextCall(t) = "quads" /\ op[t] \in Ops(Acts) /\ elem[t] # None
  BY ActCalls DEF GetContentQuads
<1>2. op[t] \in ToPointOps /\ at[t] = 2
  BY <1>1, NextOf DEF Running, Fits
<1>3. Steady(t) /\ ElementKept(t) /\ found'[t] = found[t] /\ outcome'[t] = "none"
  BY <1>1 DEF GetContentQuads, Steady, ElementKept, page, history, Running
<1>4. HandleIsStable(t)' /\ InputWasInView(t)' /\ PanicIsKnown(t)'
  BY <1>3 DEF HandleIsStable, InputWasInView, PanicIsKnown
<1>5. CASE Stable(t) /\ HasBoxes(t)
  <2>1. at'[t] = 4 /\ point'[t] = IF inView THEN "in" ELSE "out"
    BY <1>2, <1>5, TypesAre DEF GetContentQuads, Set, DataTypes, Types
  <2>2. "shape" \notin changed[t] => inView
    BY <1>2, <1>5 DEF HasBoxes, Attached, ThreadInv, Holds, PointIsInView
  <2>3. PointIsInView(t)'
    BY <1>3, <2>1, <2>2 DEF PointIsInView, Steady
  <2> QED
    BY <1>1, <1>3, <1>4, <2>3, ActKeeps
<1>6. CASE ~(Stable(t) /\ HasBoxes(t))
  <2>1. at'[t] = 3
    BY <1>2, <1>6 DEF GetContentQuads, Types
  <2>2. PointIsInView(t)'
    BY <2>1 DEF PointIsInView
  <2> QED
    BY <1>1, <1>3, <1>4, <2>2, ActKeeps
<1> QED
  BY <1>5, <1>6

LEMMA PollRectangleKeeps ==
  ASSUME Types, Types', NEW t \in Threads, ThreadInv(t), PollRectangle(t)
  PROVE  ThreadInv(t)'
<1>1. Running(t) /\ NextCall(t) = "poll" /\ op[t] \in Ops(Acts) /\ elem[t] # None
  BY ActCalls DEF PollRectangle
<1>2. op[t] \in ToPointOps /\ at[t] = 3
  BY <1>1, NextOf DEF Running, Fits
<1>3. Steady(t) /\ ElementKept(t) /\ found'[t] = found[t]
  BY DEF PollRectangle, Steady, ElementKept, ids, history
<1>4. CASE Proceed(t) /\ point' = Set(point, t, "in")
  <2>1. point'[t] = "in"
    BY <1>4, TypesAre DEF Set, DataTypes
  <2>2. at'[t] \in {3, 4}
    BY <1>1, <1>2, <1>3, <1>4, ProceedsTo DEF Steady
  <2>3. PointIsInView(t)'
    BY <2>1, <2>2 DEF PointIsInView
  <2> QED
    BY <1>1, <1>3, <1>4, <2>3, ActProceeds
<1>5. CASE Fail(t, "timeout") /\ UNCHANGED <<point, inView>>
  BY <1>1, <1>3, <1>5, ActFails
<1>6. CASE ~Stable(t) /\ Fail(t, "panic") /\ UNCHANGED <<point, inView>>
  <2>1. ~open \/ "page" \in since[t]
    BY <1>1, <1>6 DEF Stable, ThreadInv, Holds, ElementIsTrue
  <2> QED
    BY <1>1, <1>2, <1>3, <1>6, <2>1, ActFails DEF LostIn, Losses
<1>7. CASE Unwraps(t) /\ UNCHANGED <<point, inView>>
  <2>1. op[t] \in UnwrapsValues
    BY <1>2 DEF ToPointOps, UnwrapsValues
  <2> QED
    BY <1>1, <1>3, <1>7, <2>1, ActFails DEF Unwraps
<1> QED
  BY <1>4, <1>5, <1>6, <1>7 DEF PollRectangle

LEMMA DispatchKeeps ==
  ASSUME Types, Types', NEW t \in Threads, ThreadInv(t), Dispatch(t)
  PROVE  ThreadInv(t)'
<1>1. PICK c \in Input : Call(t, c)
  BY DEF Dispatch, Input
<1>2. Running(t) /\ NextCall(t) = c /\ op[t] \in Ops(Acts)
  BY <1>1, ActCalls
<1>3. /\ Steady(t) /\ ElementKept(t) /\ found'[t] = found[t] /\ point'[t] = point[t]
      /\ inView' = inView
  BY DEF Dispatch, Steady, ElementKept, page, history
<1>4. CASE open
  <2>1. Proceed(t)
    BY <1>4 DEF Dispatch
  <2>2. NextCall(t) \notin {"scroll", "quads", "poll"}
    BY <1>2 DEF Input
  <2> QED
    BY <1>2, <1>3, <2>1, <2>2, PointKept, ActProceeds
<1>5. CASE ~open
  BY <1>2, <1>3, <1>5, ActFails DEF Dispatch, LostIn
<1> QED
  BY <1>4, <1>5

-----------------------------------------------------------------------------
(* The invariant.                                                          *)
ElementsInv == Types /\ \A u \in Threads : ThreadInv(u)

LEMMA InitInv ==
  ASSUME Init
  PROVE  ElementsInv
<1>1. Types
  BY InitTypes
<1>2. ASSUME NEW u \in Threads
      PROVE  ThreadInv(u)
       <2>1. op[u] = None /\ outcome[u] = "none" /\ found[u] = None /\ elem[u] = None /\ since[u] = {}
    BY DEF Init
  <2>2. None \notin Finders \cup Ops(Acts) \cup OnElement
    BY NoneIsNothing DEF Operations, Finders, Waits, OnElement
  <2>3. Searches(u)
    BY <2>1, <2>2, Families DEF Searches, OnlyFindersFind, FoundIsTrue, FoundIsThere,
       IdsAreGood
  <2>4. Holds(u)
    BY <2>1, <2>2, Families DEF Holds, ElementIsTrue, OnElementHasOne, PointIsInView
  <2>5. Promises(u)
    BY <2>1 DEF Promises, MissIsRetried, WaitMissesNothing, FoundIsMatch, HandleIsStable,
                InputWasInView, PanicIsKnown
  <2> QED
    BY <2>1, <2>3, <2>4, <2>5 DEF ThreadInv, IdleIsClear
<1> QED
  BY <1>1, <1>2 DEF ElementsInv

LEMMA StepKeeps ==
  ASSUME Types, Types', NEW t \in Threads, ThreadInv(t), Step(t)
  PROVE  ThreadInv(t)'
BY GetDocumentKeeps, QuerySelectorKeeps, QuerySelectorAllKeeps, PerformSearchKeeps,
   GetSearchResultsKeeps, DescribeNodeKeeps, ResolveNodeKeeps, CheckVisibilityKeeps,
   CallOnElementKeeps, FocusOnKeeps, GetBoxModelKeeps, GetComputedStylesKeeps, ScrollIntoViewKeeps,
   GetContentQuadsKeeps, PollRectangleKeeps, DispatchKeeps DEF Step

LEMMA NextInv ==
  ASSUME ElementsInv, [Next]_vars
  PROVE  ElementsInv'
<1>1. Types /\ Types'
  BY NextTypes DEF ElementsInv
<1>2. ASSUME NEW u \in Threads
      PROVE  ThreadInv(u)'
  <2>1. ThreadInv(u)
    BY DEF ElementsInv
  <2>2. CASE UNCHANGED vars
    <3>1. Bystander(u)
      BY <2>1, <2>2 DEF Bystander, vars, page, ids, local, history, ThreadInv, Holds,
         ElementIsTrue
    <3> QED
      BY <1>1, <2>1, <3>1, BystanderKeeps
  <2>3. CASE PageMoves \/ NodeChanges \/ PageLeft \/ Close
    BY <1>1, <2>1, <2>3, PageStandsBy, BystanderKeeps
  <2>4. ASSUME NEW t \in Threads, Start(t) \/ Step(t) \/ Expire(t) \/ Return(t)
        PROVE  ThreadInv(u)'
    <3>1. CASE u = t
      BY <1>1, <2>1, <2>4, <3>1, StartKeeps, StepKeeps, ExpireKeeps, ReturnKeeps
    <3>2. CASE u # t
      BY <1>1, <2>1, <2>4, <3>2, OthersStandBy, BystanderKeeps
    <3> QED
      BY <3>1, <3>2
  <2> QED
    BY <2>2, <2>3, <2>4 DEF Next
<1> QED
  BY <1>1, <1>2 DEF ElementsInv

(* The invariant holds always.                                             *)
THEOREM ElementsInvariant == Spec => []ElementsInv
<1>1. ElementsInv /\ [Next]_vars => ElementsInv'
  BY NextInv
<1> QED
  BY <1>1, InitInv, PTL DEF Spec

-----------------------------------------------------------------------------
(* A wait outlasts every miss: the documents that other threads get and    *)
(* the elements that are not there yet (strict_until, NoElementFound::map).*)
THEOREM MissesWait == Spec => []MissesAreRetried
<1>1. ElementsInv => MissesAreRetried
  BY DEF ElementsInv, ThreadInv, Promises, MissIsRetried, MissesAreRetried
<1> QED
  BY <1>1, ElementsInvariant, PTL

(* A wait of the tab that runs out has missed nothing that was there all   *)
(* the time: the ids it goes by are those of its own document.             *)
THEOREM NothingIsMissed == Spec => []WaitsMissNothing
<1>1. ElementsInv => WaitsMissNothing
  BY DEF ElementsInv, ThreadInv, Promises, WaitMissesNothing, WaitsMissNothing
<1> QED
  BY <1>1, ElementsInvariant, PTL

(* What a finder returns as found is what the selector matches, unless the *)
(* node or the page has changed since the search began.                    *)
THEOREM FindersTellTheTruth == Spec => []FoundMatches
<1>1. ElementsInv => FoundMatches
  BY DEF ElementsInv, ThreadInv, Promises, FoundIsMatch, FoundMatches
<1> QED
  BY <1>1, ElementsInvariant, PTL

(* The ids by which Element's methods name the element outlive the other   *)
(* searches of this and of every other thread.                             *)
THEOREM HandlesLast == Spec => []HandlesAreStable
<1>1. ElementsInv => HandlesAreStable
  BY DEF ElementsInv, ThreadInv, Promises, HandleIsStable, HandlesAreStable
<1> QED
  BY <1>1, ElementsInvariant, PTL

(* On a page that is still, click, hover and type_into go to a point in    *)
(* view: scroll_into_view comes before get_midpoint.                       *)
THEOREM InputHits == Spec => []InputIsInView
<1>1. ElementsInv => InputIsInView
  BY DEF ElementsInv, ThreadInv, Promises, InputWasInView, InputIsInView
<1> QED
  BY <1>1, ElementsInvariant, PTL

(* The panics are those of the known places: no results for the xpath of   *)
(* an element, the unwrap while get_midpoint polls, and the unwraps of what *)
(* Chrome leaves out of its answer about a node that is no HTML element.   *)
THEOREM PanicsAreThose == Spec => []PanicsAreKnown
<1>1. ElementsInv => PanicsAreKnown
  BY DEF ElementsInv, ThreadInv, Promises, PanicIsKnown, PanicsAreKnown
<1> QED
  BY <1>1, ElementsInvariant, PTL
=============================================================================
