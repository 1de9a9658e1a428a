------------------------- MODULE CardPipelineProofs -------------------------
(***************************************************************************)
(* Theorems about CardPipeline, for any readers, cards and libraries, any  *)
(* pauses and any bounds, and so for any number of handlers at a time:     *)
(* sessions can be dropped and, where every removal is noticed, are;       *)
(* libraries are initialized; what is announced is what there is; and,     *)
(* with one reader, no card is lost that stays in it for long enough.      *)
(***************************************************************************)
EXTENDS CardPipeline, WellFoundedInduction, TLAPS

-----------------------------------------------------------------------------
(* tasks *)

\* A task is a record of these fields; what it has found does not matter here.
IsTask(t) ==
  /\ t = [x \in DOMAIN t |-> t[x]]
  /\ DOMAIN t = {"op", "at", "reader", "atr", "lib", "found", "left"}

TaskType(t) ==
  /\ IsTask(t)
  /\ t.left \in Nat /\ t.lib \in Nat
  /\ t.reader \in Readers /\ t.atr \in Atrs

HandlerTypes ==
  /\ \A t \in tasks : TaskType(t)
  /\ inReader \in [Readers -> Cards \cup {NoCard}]
  /\ stay \in [Readers -> Nat]
  /\ listed \in SUBSET [reader : Readers, atr : Atrs]
  /\ libs \in [Atrs -> Seq(Libs)]

\* What follows a task is about the same card.
LEMMA PauseTypes ==
  ASSUME NEW t, TaskType(t), NEW at, NEW lib \in Nat, NEW left \in Nat
  PROVE  LET u == Pause(t, at, lib, left) IN
         /\ TaskType(u)
         /\ u.at = at /\ u.lib = lib /\ u.left = left
         /\ u.op = t.op /\ u.reader = t.reader /\ u.atr = t.atr /\ u.found = t.found
  BY DEF TaskType, IsTask, Pause

LEMMA FoundTypes ==
  ASSUME NEW t, TaskType(t), NEW found
  PROVE  LET u == [t EXCEPT !.found = found] IN
         /\ TaskType(u) /\ u.found = found
         /\ u.op = t.op /\ u.at = t.at /\ u.lib = t.lib /\ u.left = t.left
         /\ u.reader = t.reader /\ u.atr = t.atr
  BY DEF TaskType, IsTask

LEMMA NewTaskTypes ==
  ASSUME NEW n, NEW r \in Readers, NEW a \in Atrs, NEW at, NEW lib \in Nat
  PROVE  LET t == [op |-> n, at |-> at, reader |-> r, atr |-> a, lib |-> lib,
                   found |-> {}, left |-> Long]
         IN  /\ TaskType(t) /\ t.op = n /\ t.at = at /\ t.reader = r /\ t.atr = a
             /\ t.lib = lib /\ t.found = {} /\ t.left = Long
<1> Long \in Nat
  BY TimeAssumption
<1> QED BY DEF TaskType, IsTask

\* The first library after i that satisfies what the loop asks for is a number.
LEMMA LaterLibrary ==
  ASSUME NEW later, later \subseteq Nat, later # {}
  PROVE  (CHOOSE j \in later : \A k \in later : j <= k) \in Nat
<1> DEFINE Less == {ss \in Nat \X Nat : ss[1] < ss[2]}
<1>1. IsWellFoundedOn(Less, Nat)
  BY NatLessThanWellFounded DEF OpToRel
<1> HIDE DEF Less
<1>2. PICK j \in later : \A k \in later : <<k, j>> \notin Less
  BY <1>1, WFMin
<1>3. \A k \in later : ~ (k < j)
  BY <1>2 DEF Less
<1>4. \A k \in later : j <= k
  BY <1>3
<1> QED BY <1>4

LEMMA NextLibraryTypes ==
  ASSUME NEW t, TaskType(t), NEW i, NEW list \in Seq(Libs)
  PROVE  TaskType(NextLibrary(t, i, list)) /\ NextLibrary(t, i, list).at \in {"load", "announce"}
<1> DEFINE later == {j \in DOMAIN list : j > i /\ list[j] \in Installed}
<1>1. later \subseteq Nat
  OBVIOUS
<1>2. Short \in Nat
  BY TimeAssumption
<1> HIDE DEF later
<1>3. CASE later = {}
  BY <1>2, <1>3, PauseTypes DEF NextLibrary, later
<1>4. CASE later # {}
  <2> DEFINE j == CHOOSE j \in later : \A k \in later : j <= k
  <2>1. j \in Nat
    BY <1>1, <1>4, LaterLibrary
  <2>2. NextLibrary(t, i, list) = Pause(t, "load", j, Short)
    BY <1>4 DEF NextLibrary, later
  <2> HIDE DEF j
  <2> QED BY <1>2, <2>1, <2>2, PauseTypes
<1> QED BY <1>3, <1>4

-----------------------------------------------------------------------------
(* what each step does to readers, lists and tasks *)

\* What a card that comes in or goes out does to the readers and the tasks.
LEMMA EnterFacts ==
  ASSUME HandlerTypes, NEW r \in Readers, NEW c \in Cards, CardEnters(r, c)
  PROVE  /\ inReader[r] = NoCard /\ inReader' = [inReader EXCEPT ![r] = c]
         /\ \A q \in Readers : inReader[q] # c
         /\ stay' = [stay EXCEPT ![r] = MinStay]
         /\ UNCHANGED <<listed, libs, initialized, cryptos, sessions, orphans, announced,
                        renamed, faults>>
         /\ cardOps' = cardOps + 1
         /\ \E u : /\ TaskType(u) /\ u.at = "report" /\ u.reader = r /\ u.atr = AtrOf[c]
                   /\ u.op = cardOps + 1 /\ u.left = Long /\ tasks' = tasks \cup {u}
<1> DEFINE u == [op |-> cardOps + 1, at |-> "report", reader |-> r, atr |-> AtrOf[c],
                 lib |-> 0, found |-> {}, left |-> Long]
<1>1. /\ inReader[r] = NoCard /\ inReader' = [inReader EXCEPT ![r] = c]
      /\ \A q \in Readers : inReader[q] # c
      /\ stay' = [stay EXCEPT ![r] = MinStay]
      /\ UNCHANGED <<listed, libs, initialized, cryptos, sessions, orphans, announced,
                     renamed, faults>>
      /\ cardOps' = cardOps + 1
      /\ tasks' = tasks \cup {u}
  BY Zenon DEF CardEnters, providerVars
<1>2. AtrOf[c] \in Atrs
  BY CardAssumption
<1>3. /\ TaskType(u) /\ u.at = "report" /\ u.reader = r /\ u.atr = AtrOf[c]
      /\ u.op = cardOps + 1 /\ u.left = Long
  BY <1>2, NewTaskTypes
<1> HIDE DEF u
<1> QED BY <1>1, <1>3

LEMMA LeaveFacts ==
  ASSUME HandlerTypes, NEW r \in Readers, CardLeaves(r)
  PROVE  LET a == AtrOf[inReader[r]]
             gone == [reader |-> r, atr |-> a] IN
         /\ inReader[r] \in Cards /\ a \in Atrs /\ stay[r] = 0
         /\ inReader' = [inReader EXCEPT ![r] = NoCard]
         /\ listed' = listed \ {gone}
         /\ UNCHANGED <<stay, libs, initialized, cryptos, sessions, orphans, announced,
                        renamed, faults>>
         /\ cardOps' = cardOps + 1
         /\ gone \notin listed => UNCHANGED tasks
         /\ gone \in listed =>
              \E u : /\ TaskType(u) /\ u.at = "search" /\ u.atr = a /\ u.lib = 1
                     /\ u.op = cardOps + 1 /\ u.left = Long
                     /\ tasks' = tasks \cup {u}
<1> DEFINE a == AtrOf[inReader[r]]
           gone == [reader |-> r, atr |-> a]
           u == [op |-> cardOps + 1, at |-> "search", reader |-> r, atr |-> a, lib |-> 1,
                 found |-> {}, left |-> Long]
<1>1. /\ inReader[r] # NoCard /\ stay[r] = 0
      /\ inReader' = [inReader EXCEPT ![r] = NoCard]
      /\ listed' = listed \ {gone}
      /\ UNCHANGED <<stay, libs, initialized, cryptos, sessions, orphans, announced,
                     renamed, faults>>
      /\ cardOps' = cardOps + 1
      /\ tasks' = IF gone \in listed THEN tasks \cup {u} ELSE tasks
  BY Zenon DEF CardLeaves, providerVars
<1>2. inReader[r] \in Cards /\ a \in Atrs
  BY <1>1, CardAssumption DEF HandlerTypes
<1>3. /\ TaskType(u) /\ u.at = "search" /\ u.atr = a /\ u.lib = 1
      /\ u.op = cardOps + 1 /\ u.left = Long
  BY <1>2, NewTaskTypes
<1> HIDE DEF u, a, gone
<1>4. gone \in listed => tasks' = tasks \cup {u}
  BY <1>1
<1>5. gone \notin listed => UNCHANGED tasks
  BY <1>1
<1> QED BY <1>1, <1>2, <1>3, <1>4, <1>5, Zenon DEF gone, a

Extends(s, r) == DOMAIN r \subseteq DOMAIN s /\ \A i \in DOMAIN r : s[i] = r[i]

LEMMA AppendExtends ==
  ASSUME NEW S, NEW s \in Seq(S), NEW x \in S
  PROVE  /\ Append(s, x) \in Seq(S) /\ Extends(Append(s, x), s)
         /\ x \in Range(Append(s, x)) /\ Range(Append(s, x)) \subseteq Range(s) \cup {x}
<1> DEFINE t == Append(s, x)
<1>1. /\ t \in Seq(S) /\ DOMAIN s = 1 .. Len(s) /\ DOMAIN t = 1 .. Len(s) + 1 /\ Len(s) \in Nat
      /\ \A i \in 1 .. Len(s) : t[i] = s[i]
      /\ t[Len(s) + 1] = x
  OBVIOUS
<1> HIDE DEF t
<1>2. \A i \in DOMAIN t : i \in DOMAIN s \/ i = Len(s) + 1
  BY <1>1
<1>3. Extends(t, s)
  BY <1>1 DEF Extends
<1>4. x \in Range(t) /\ Range(t) \subseteq Range(s) \cup {x}
  BY <1>1, <1>2 DEF Range
<1> QED BY <1>1, <1>3, <1>4 DEF t

\* A report lists the card, or finds its ATR listed, and may add OpenSC's library.
LEMMA ReportFacts ==
  ASSUME HandlerTypes, NEW t \in tasks, ReportCard(t)
  PROVE  /\ t.at = "report"
         /\ UNCHANGED <<inReader, stay, cryptos, sessions, orphans>>
         /\ initialized' = initialized \ {OpenSC}
         /\ listed' = IF \E x \in listed : x.atr = t.atr THEN listed
                      ELSE listed \cup {[reader |-> t.reader, atr |-> t.atr]}
         /\ libs' \in [Atrs -> Seq(Libs)]
         /\ \A a \in Atrs : \/ libs'[a] = libs[a]
                            \/ OpenSC \in Installed /\ libs'[a] = Append(libs[a], OpenSC)
         /\ OpenSC # NoLib => libs'[t.atr] = Append(libs[t.atr], OpenSC)
<1>1. /\ t.at = "report"
      /\ UNCHANGED <<inReader, stay, cryptos, sessions, orphans>>
      /\ initialized' = initialized \ {OpenSC}
      /\ listed' = IF \E x \in listed : x.atr = t.atr THEN listed
                   ELSE listed \cup {[reader |-> t.reader, atr |-> t.atr]}
      /\ libs' = IF OpenSC = NoLib THEN libs
                 ELSE [libs EXCEPT ![t.atr] = Append(@, OpenSC)]
  BY Zenon DEF ReportCard, readerVars
<1>2. t.atr \in Atrs /\ libs \in [Atrs -> Seq(Libs)]
  BY DEF HandlerTypes, TaskType
<1>3. CASE OpenSC = NoLib
  BY <1>1, <1>2, <1>3
<1>4. CASE OpenSC # NoLib
  <2>1. OpenSC \in Libs /\ OpenSC \in Installed
    BY <1>4, CardAssumption
  <2> DEFINE new == Append(libs[t.atr], OpenSC)
  <2>2. new \in Seq(Libs)
    BY <1>2, <2>1
  <2>3. libs' = [libs EXCEPT ![t.atr] = new]
    BY <1>1, <1>4
  <2> HIDE DEF new
  <2>4. libs' \in [Atrs -> Seq(Libs)] /\ libs'[t.atr] = new
        /\ \A a \in Atrs : a # t.atr => libs'[a] = libs[a]
    BY <1>2, <2>2, <2>3
  <2> QED BY <1>1, <1>4, <2>1, <2>4 DEF new
<1> QED BY <1>1, <1>3, <1>4

\* The other handlers' steps are none of the watcher's.
LEMMA OtherFacts ==
  ASSUME NEW t, LoadLibrary(t) \/ UseLibrary(t) \/ Announce(t)
  PROVE  t.at # "report" /\ UNCHANGED <<inReader, stay, listed, libs>>
  BY DEF LoadLibrary, UseLibrary, Announce, readerVars

\* Each step of an insertion but the announcement leaves an insertion under way.
LEMMA InsertionFacts ==
  ASSUME HandlerTypes, NEW t \in tasks, ReportCard(t) \/ LoadLibrary(t) \/ UseLibrary(t)
  PROVE  /\ t.at # "search"
         /\ \E u : /\ TaskType(u) /\ u.at \in {"load", "init", "announce"}
                   /\ tasks' = (tasks \ {t}) \cup {u}
<1>1. TaskType(t) /\ Short \in Nat /\ Long \in Nat
  BY TimeAssumption DEF HandlerTypes
<1>2. libs' \in [Atrs -> Seq(Libs)]
  BY ReportFacts, OtherFacts DEF HandlerTypes
<1>3. libs[t.atr] \in Seq(Libs) /\ libs'[t.atr] \in Seq(Libs) /\ t.lib \in Nat
  BY <1>1, <1>2 DEF HandlerTypes, TaskType
<1>4. t.at # "search"
  BY DEF ReportCard, LoadLibrary, UseLibrary
<1>5. \/ tasks' = (tasks \ {t}) \cup {NextLibrary(t, 0, libs'[t.atr])}
      \/ tasks' = (tasks \ {t}) \cup {Pause(t, "init", t.lib, Long)}
      \/ tasks' = (tasks \ {t}) \cup {NextLibrary(t, t.lib, libs[t.atr])}
      \/ tasks' = (tasks \ {t}) \cup {Pause(t, "announce", 0, Short)}
  BY Zenon DEF ReportCard, LoadLibrary, UseLibrary, Continue
<1>6. /\ TaskType(NextLibrary(t, 0, libs'[t.atr]))
      /\ NextLibrary(t, 0, libs'[t.atr]).at \in {"load", "announce"}
  BY <1>1, <1>3, NextLibraryTypes
<1>7. /\ TaskType(NextLibrary(t, t.lib, libs[t.atr]))
      /\ NextLibrary(t, t.lib, libs[t.atr]).at \in {"load", "announce"}
  BY <1>1, <1>3, NextLibraryTypes
<1>8. /\ TaskType(Pause(t, "init", t.lib, Long)) /\ Pause(t, "init", t.lib, Long).at = "init"
      /\ TaskType(Pause(t, "announce", 0, Short))
      /\ Pause(t, "announce", 0, Short).at = "announce"
  BY <1>1, <1>3, PauseTypes
<1> QED BY <1>4, <1>5, <1>6, <1>7, <1>8

\* The announcement is the end of an insertion; it tells all sessions or, when one
\* of them cannot be read, nothing.
LEMMA AnnounceFacts ==
  ASSUME NEW t, Announce(t)
  PROVE  /\ t.at = "announce" /\ tasks' = tasks \ {t}
         /\ UNCHANGED <<inReader, cryptos, sessions, orphans, initialized, cardOps, faults>>
         /\ renamed \subseteq renamed'
         /\ \/ announced' = sessions /\ sessions \subseteq renamed'
            \/ ~ Readable(sessions, initialized)
  BY Zenon DEF Announce, EmitUpdate, End, readerVars

FoundBy(t) ==
  t.found \cup {<<p, p \in renamed>> : p \in {q \in cryptos : q.lib = libs[t.atr][t.lib]}}

\* A search ends at a library that is not installed, ends without anything, goes on
\* with what it has found, or drops it all.
LEMMA SearchFacts ==
  ASSUME HandlerTypes, NEW t \in tasks, SearchLibrary(t)
  PROVE  LET lib == libs[t.atr][t.lib] IN
         /\ t.at = "search" /\ UNCHANGED <<inReader, stay, listed, libs, cardOps, faults>>
         /\ \/ /\ lib \notin Installed
               /\ tasks' = tasks \ {t}
               /\ UNCHANGED <<initialized, cryptos, sessions, orphans, renamed, announced>>
            \/ /\ t.lib = Len(libs[t.atr]) /\ FoundBy(t) = {}
               /\ tasks' = tasks \ {t}
               /\ initialized' = initialized \cup {lib}
               /\ UNCHANGED <<cryptos, sessions, orphans, renamed, announced>>
            \/ /\ t.lib # Len(libs[t.atr])
               /\ \E u : /\ TaskType(u) /\ u.at = "search" /\ u.atr = t.atr
                         /\ u.op = t.op /\ u.reader = t.reader /\ u.left = Long
                         /\ u.lib = t.lib + 1 /\ u.found = FoundBy(t)
                         /\ tasks' = (tasks \ {t}) \cup {u}
               /\ initialized' = initialized \cup {lib}
               /\ UNCHANGED <<cryptos, sessions, orphans, renamed, announced>>
            \/ /\ tasks' = tasks \ {t}
               /\ t.lib = Len(libs[t.atr])
               /\ DropAll(FoundBy(t), initialized \cup {lib})
<1> DEFINE lib == libs[t.atr][t.lib]
           next == Pause(t, "search", t.lib + 1, Long)
           u == [next EXCEPT !.found = FoundBy(t)]
<1>1. /\ t.at = "search" /\ UNCHANGED <<inReader, stay, listed, libs, cardOps, faults>>
      /\ \/ /\ lib \notin Installed
            /\ tasks' = tasks \ {t}
            /\ UNCHANGED <<initialized, cryptos, sessions, orphans, renamed, announced>>
         \/ /\ t.lib = Len(libs[t.atr]) /\ FoundBy(t) = {}
            /\ tasks' = tasks \ {t}
            /\ initialized' = initialized \cup {lib}
            /\ UNCHANGED <<cryptos, sessions, orphans, renamed, announced>>
         \/ /\ t.lib # Len(libs[t.atr])
            /\ tasks' = (tasks \ {t}) \cup {u}
            /\ initialized' = initialized \cup {lib}
            /\ UNCHANGED <<cryptos, sessions, orphans, renamed, announced>>
         \/ /\ tasks' = tasks \ {t}
            /\ t.lib = Len(libs[t.atr])
            /\ DropAll(FoundBy(t), initialized \cup {lib})
  BY Zenon DEF SearchLibrary, FoundBy, End, Continue, readerVars, providerVars
<1>2. TaskType(t) /\ t.lib + 1 \in Nat /\ Long \in Nat
  BY TimeAssumption DEF HandlerTypes, TaskType
<1>3. /\ TaskType(next) /\ next.at = "search" /\ next.lib = t.lib + 1 /\ next.atr = t.atr
      /\ next.op = t.op /\ next.reader = t.reader /\ next.left = Long
  BY <1>2, PauseTypes
<1> HIDE DEF next
<1>4. /\ TaskType(u) /\ u.at = "search" /\ u.lib = t.lib + 1 /\ u.atr = t.atr
      /\ u.op = t.op /\ u.reader = t.reader /\ u.left = Long /\ u.found = FoundBy(t)
  BY <1>3, FoundTypes
<1> HIDE DEF u, lib
<1>5. CASE /\ t.lib # Len(libs[t.atr])
           /\ tasks' = (tasks \ {t}) \cup {u}
           /\ initialized' = initialized \cup {lib}
           /\ UNCHANGED <<cryptos, sessions, orphans, renamed, announced>>
  BY <1>1, <1>4, <1>5, Zenon DEF lib
<1> QED BY <1>1, <1>5, Zenon DEF lib

\* A unit of time: nothing changes but how long is left.
LEMMA TickFacts ==
  ASSUME HandlerTypes, Tick
  PROVE  /\ UNCHANGED <<inReader, listed, libs, initialized, cryptos, sessions, orphans,
                    announced, renamed, cardOps, faults>>
         /\ stay' \in [Readers -> Nat]
         /\ \A r \in Readers : stay[r] # 0 => stay'[r] = stay[r] - 1
         /\ \A u \in tasks' : \E t \in tasks :
              /\ TaskType(u) /\ u.left = t.left - 1 /\ t.left # 0
              /\ u.op = t.op /\ u.at = t.at /\ u.reader = t.reader /\ u.atr = t.atr
              /\ u.lib = t.lib /\ u.found = t.found
         /\ \A t \in tasks : \E u \in tasks' :
              /\ u.left = t.left - 1 /\ t.left # 0
              /\ u.op = t.op /\ u.at = t.at /\ u.reader = t.reader /\ u.atr = t.atr
              /\ u.lib = t.lib /\ u.found = t.found
<1>1. /\ UNCHANGED <<inReader, listed, libs, initialized, cryptos, sessions, orphans,
                    announced, renamed, cardOps, faults>>
      /\ \A t \in tasks : t.left > 0
      /\ tasks' = {[t EXCEPT !.left = @ - 1] : t \in tasks}
      /\ stay' = [r \in Readers |-> IF stay[r] = 0 THEN 0 ELSE stay[r] - 1]
  BY Zenon DEF Tick, providerVars
<1>2. ASSUME NEW t \in tasks
      PROVE  LET u == [t EXCEPT !.left = @ - 1] IN
             /\ TaskType(u) /\ u.left = t.left - 1 /\ t.left # 0
             /\ u.op = t.op /\ u.at = t.at /\ u.reader = t.reader /\ u.atr = t.atr
             /\ u.lib = t.lib /\ u.found = t.found
  <2>1. TaskType(t) /\ t.left > 0
    BY <1>1 DEF HandlerTypes
  <2>2. t.left - 1 \in Nat /\ t.left # 0
    BY <2>1 DEF TaskType
  <2> QED BY <2>1, <2>2 DEF TaskType, IsTask
<1>3. \A r \in Readers : stay[r] \in Nat
  BY DEF HandlerTypes
<1>4. /\ stay' \in [Readers -> Nat]
      /\ \A r \in Readers : stay[r] # 0 => stay'[r] = stay[r] - 1
  BY <1>1, <1>3
<1>5. \A u \in tasks' : \E t \in tasks : u = [t EXCEPT !.left = @ - 1]
  BY <1>1
<1>6. \A t \in tasks : [t EXCEPT !.left = @ - 1] \in tasks'
  BY <1>1
<1>7. \A u \in tasks' : \E t \in tasks :
        /\ TaskType(u) /\ u.left = t.left - 1 /\ t.left # 0
        /\ u.op = t.op /\ u.at = t.at /\ u.reader = t.reader /\ u.atr = t.atr
        /\ u.lib = t.lib /\ u.found = t.found
  <2> TAKE u \in tasks'
  <2>1. PICK t \in tasks : u = [t EXCEPT !.left = @ - 1]
    BY <1>5
  <2> WITNESS t \in tasks
  <2> QED BY <1>2, <2>1, Zenon
<1>8. \A t \in tasks : \E u \in tasks' :
        /\ u.left = t.left - 1 /\ t.left # 0
        /\ u.op = t.op /\ u.at = t.at /\ u.reader = t.reader /\ u.atr = t.atr
        /\ u.lib = t.lib /\ u.found = t.found
  BY <1>2, <1>6
<1> QED BY <1>1, <1>4, <1>7, <1>8

LEMMA NextTypes ==
  ASSUME HandlerTypes, [Next]_vars
  PROVE  HandlerTypes'
<1>1. ASSUME NEW t \in tasks, ReportCard(t) \/ LoadLibrary(t) \/ UseLibrary(t)
      PROVE  HandlerTypes'
  <2>1. \A u \in tasks' : TaskType(u)
    BY <1>1, InsertionFacts DEF HandlerTypes
  <2>2. UNCHANGED <<inReader, stay>>
    BY <1>1, ReportFacts, OtherFacts
  <2>3. libs' \in [Atrs -> Seq(Libs)] /\ listed' \in SUBSET [reader : Readers, atr : Atrs]
    <3>1. CASE ReportCard(t)
      <4>1. [reader |-> t.reader, atr |-> t.atr] \in [reader : Readers, atr : Atrs]
        BY DEF HandlerTypes, TaskType
      <4> QED BY <3>1, <4>1, ReportFacts DEF HandlerTypes
    <3>2. CASE LoadLibrary(t) \/ UseLibrary(t)
      BY <3>2, OtherFacts DEF HandlerTypes
    <3> QED BY <1>1, <3>1, <3>2
  <2> QED BY <2>1, <2>2, <2>3 DEF HandlerTypes
<1>2. ASSUME NEW t \in tasks, Announce(t)
      PROVE  HandlerTypes'
  BY <1>2, AnnounceFacts, OtherFacts DEF HandlerTypes
<1>3. ASSUME NEW t \in tasks, SearchLibrary(t)
      PROVE  HandlerTypes'
  <2>1. /\ UNCHANGED <<inReader, stay, listed, libs>>
        /\ tasks' = tasks \ {t} \/ \E u : TaskType(u) /\ tasks' = (tasks \ {t}) \cup {u}
    BY <1>3, SearchFacts
  <2> QED BY <2>1 DEF HandlerTypes
<1>4. ASSUME NEW r \in Readers, NEW c \in Cards, CardEnters(r, c)
      PROVE  HandlerTypes'
  <2>1. MinStay \in Nat
    BY TimeAssumption
  <2>2. \A t \in tasks' : TaskType(t)
    BY <1>4, EnterFacts DEF HandlerTypes
  <2>3. inReader' = [inReader EXCEPT ![r] = c] /\ stay' = [stay EXCEPT ![r] = MinStay]
    BY <1>4, EnterFacts
  <2>4. UNCHANGED <<listed, libs>>
    BY <1>4, EnterFacts
  <2> QED BY <2>1, <2>2, <2>3, <2>4 DEF HandlerTypes
<1>5. ASSUME NEW r \in Readers, CardLeaves(r)
      PROVE  HandlerTypes'
  <2>1. \A t \in tasks' : TaskType(t)
    BY <1>5, LeaveFacts DEF HandlerTypes
  <2> QED BY <1>5, <2>1, LeaveFacts DEF HandlerTypes
<1>6. CASE Tick
  BY <1>6, TickFacts DEF HandlerTypes
<1>7. CASE UNCHANGED vars
  BY <1>7 DEF vars, readerVars, HandlerTypes
<1> QED BY <1>1, <1>2, <1>3, <1>4, <1>5, <1>6, <1>7 DEF Next, Step

-----------------------------------------------------------------------------
(* sessions and libraries *)

ProviderTypes == cryptos \in SUBSET Providers /\ sessions \in SUBSET Providers

PipelineInv == ProviderTypes /\ SessionsBacked /\ OtherLibrariesReady

\* A round over the slots of a library adds sessions with their providers, or as
\* orphans, and goes on with the insertion.
LEMMA UseFacts ==
  ASSUME NEW t, UseLibrary(t)
  PROVE  \E fresh \in SUBSET FreshProviders(libs[t.atr][t.lib]) :
           /\ initialized' = initialized \cup {libs[t.atr][t.lib]}
           /\ UNCHANGED <<inReader, announced>>
           /\ cryptos' \subseteq cryptos \cup fresh /\ cryptos \subseteq cryptos'
           /\ sessions \subseteq sessions' /\ orphans \subseteq orphans'
           /\ sessions' \subseteq sessions \cup fresh
           /\ sessions' \subseteq sessions \cup cryptos' \cup orphans'
<1> DEFINE all == FreshProviders(libs[t.atr][t.lib])
<1>1. /\ initialized' = initialized \cup {libs[t.atr][t.lib]}
      /\ UNCHANGED <<inReader, announced>>
      /\ \/ /\ cryptos' = cryptos \cup all /\ sessions' = sessions \cup all
            /\ orphans' = orphans
         \/ \E bad \in all, added \in BOOLEAN : \E done \in SUBSET (all \ {bad}) :
              LET orphan == IF added THEN {bad} ELSE {} IN
              /\ cryptos' = cryptos \cup done
              /\ sessions' = sessions \cup done \cup orphan
              /\ orphans' = orphans \cup orphan
  BY Zenon DEF UseLibrary, readerVars
<1> HIDE DEF all
<1>2. CASE /\ cryptos' = cryptos \cup all /\ sessions' = sessions \cup all
           /\ orphans' = orphans
  BY <1>1, <1>2 DEF all
<1>3. ASSUME NEW bad \in all, NEW added \in BOOLEAN, NEW done \in SUBSET (all \ {bad}),
             LET orphan == IF added THEN {bad} ELSE {} IN
             /\ cryptos' = cryptos \cup done
             /\ sessions' = sessions \cup done \cup orphan
             /\ orphans' = orphans \cup orphan
      PROVE  /\ cryptos' \subseteq cryptos \cup all /\ cryptos \subseteq cryptos'
             /\ sessions \subseteq sessions' /\ orphans \subseteq orphans'
             /\ sessions' \subseteq sessions \cup all
             /\ sessions' \subseteq sessions \cup cryptos' \cup orphans'
  BY <1>3
<1> QED BY <1>1, <1>2, <1>3 DEF all

\* A fresh provider is one of the library.
LEMMA FreshFacts ==
  ASSUME NEW lib
  PROVE  FreshProviders(lib) \subseteq Providers /\ \A p \in FreshProviders(lib) : p.lib = lib
  BY DEF FreshProviders

\* Sessions are dropped with the providers; and a library is finalized only when no
\* provider of it is left.
LEMMA DropKeeps ==
  ASSUME PipelineInv, NEW found, NEW init, initialized \subseteq init, DropAll(found, init)
  PROVE  PipelineInv' /\ sessions' \subseteq orphans'
<1>1. /\ cryptos' = cryptos \ Keyed(found)
      /\ sessions' = sessions \ cryptos /\ orphans' = orphans \ cryptos
      /\ initialized' = init \ LeftUnused(Keyed(found) \cap cryptos)
  BY DEF DropAll, Drop
<1>2. ProviderTypes' /\ sessions' \subseteq orphans'
  BY <1>1 DEF PipelineInv, ProviderTypes, SessionsBacked
<1>3. ASSUME NEW p \in cryptos'
      PROVE  p.lib \in initialized' \cup {OpenSC}
  <2>1. p \in cryptos \ (Keyed(found) \cap cryptos)
    BY <1>1
  <2>2. p.lib \notin LeftUnused(Keyed(found) \cap cryptos)
    BY <2>1 DEF LeftUnused
  <2>3. p.lib \in initialized \cup {OpenSC}
    BY <2>1 DEF PipelineInv, OtherLibrariesReady
  <2> QED BY <1>1, <2>2, <2>3
<1> QED BY <1>2, <1>3 DEF PipelineInv, SessionsBacked, OtherLibrariesReady

LEMMA NextPipeline ==
  ASSUME HandlerTypes, PipelineInv, [Next]_vars
  PROVE  PipelineInv'
<1>1. CASE UNCHANGED <<cryptos, sessions, orphans>> /\ initialized \ {OpenSC} \subseteq initialized'
  BY <1>1 DEF PipelineInv, ProviderTypes, SessionsBacked, OtherLibrariesReady
<1>2. ASSUME NEW t \in tasks, UseLibrary(t)
      PROVE  PipelineInv'
  <2> DEFINE lib == libs[t.atr][t.lib]
  <2>1. PICK fresh \in SUBSET FreshProviders(lib) :
           /\ initialized' = initialized \cup {lib}
           /\ cryptos' \subseteq cryptos \cup fresh /\ cryptos \subseteq cryptos'
           /\ orphans \subseteq orphans'
           /\ sessions' \subseteq sessions \cup fresh
           /\ sessions' \subseteq sessions \cup cryptos' \cup orphans'
    BY <1>2, UseFacts
  <2>2. fresh \subseteq Providers /\ \A p \in fresh : p.lib = lib
    BY FreshFacts
  <2> HIDE DEF lib
  <2>3. ProviderTypes'
    BY <2>1, <2>2 DEF PipelineInv, ProviderTypes
  <2>4. SessionsBacked'
    BY <2>1 DEF PipelineInv, SessionsBacked
  <2>5. OtherLibrariesReady'
    BY <2>1, <2>2 DEF PipelineInv, OtherLibrariesReady
  <2> QED BY <2>3, <2>4, <2>5 DEF PipelineInv
<1>3. ASSUME NEW t \in tasks, SearchLibrary(t)
      PROVE  PipelineInv'
  <2> DEFINE lib == libs[t.atr][t.lib]
  <2>1. CASE UNCHANGED <<cryptos, sessions, orphans>> /\ initialized \subseteq initialized'
    BY <1>1, <2>1
  <2>2. CASE DropAll(FoundBy(t), initialized \cup {lib})
    BY <2>2, DropKeeps
  <2>3. \/ UNCHANGED <<cryptos, sessions, orphans>> /\ initialized \subseteq initialized'
        \/ DropAll(FoundBy(t), initialized \cup {lib})
    BY <1>3, SearchFacts
  <2> QED BY <2>1, <2>2, <2>3
<1>4. ASSUME NEW t \in tasks, ReportCard(t) \/ LoadLibrary(t) \/ Announce(t)
      PROVE  PipelineInv'
  <2>1. UNCHANGED <<cryptos, sessions, orphans>> /\ initialized \ {OpenSC} \subseteq initialized'
    BY <1>4 DEF ReportCard, LoadLibrary, Announce, providerVars
  <2> QED BY <1>1, <2>1
<1>5. CASE \/ \E r \in Readers : CardLeaves(r) \/ \E c \in Cards : CardEnters(r, c)
           \/ Tick \/ UNCHANGED vars
  <2>1. UNCHANGED <<cryptos, sessions, orphans, initialized>>
    BY <1>5 DEF CardLeaves, CardEnters, Tick, vars, providerVars
  <2> QED BY <1>1, <2>1
<1> QED BY <1>2, <1>3, <1>4, <1>5 DEF Next, Step

-----------------------------------------------------------------------------
(* the libraries that are searched *)

\* What the configuration lists once OpenSC's library was added: nothing that is not
\* installed comes after it.
ListsInv ==
  \A a \in Atrs :
    /\ libs[a] # <<>>
    /\ \A i, j \in DOMAIN libs[a] : i < j /\ libs[a][i] = OpenSC => libs[a][j] \in Installed

\* A search is at one of the libraries.
SearchInv == \A t \in tasks : t.at = "search" => t.lib \in DOMAIN libs[t.atr]

\* The same of the configuration as it is when the program starts.
OpenSCLast ==
  \A a \in Atrs : \A i, j \in DOMAIN LibsOf[a] :
    i < j /\ LibsOf[a][i] = OpenSC => LibsOf[a][j] \in Installed

LEMMA ReportExtends ==
  ASSUME HandlerTypes, NEW t \in tasks, ReportCard(t)
  PROVE  /\ t.atr \in Atrs
         /\ \A a \in Atrs :
              /\ Extends(libs'[a], libs[a])
              /\ Range(libs'[a]) \subseteq Range(libs[a]) \cup (Installed \cap {OpenSC})
         /\ OpenSC # NoLib => OpenSC \in Range(libs'[t.atr])
<1>1. t.atr \in Atrs
  BY DEF HandlerTypes, TaskType
<1>2. ASSUME NEW a \in Atrs, OpenSC \in Installed
      PROVE  /\ Extends(Append(libs[a], OpenSC), libs[a])
             /\ Range(Append(libs[a], OpenSC)) \subseteq Range(libs[a]) \cup {OpenSC}
             /\ OpenSC \in Range(Append(libs[a], OpenSC))
  <2>1. OpenSC \in Libs /\ libs[a] \in Seq(Libs)
    BY <1>2, CardAssumption DEF HandlerTypes
  <2> QED BY <2>1, AppendExtends
<1>3. \A a \in Atrs : Extends(libs[a], libs[a])
  BY DEF Extends
<1>4. OpenSC # NoLib => OpenSC \in Installed
  BY CardAssumption
<1> QED BY <1>1, <1>2, <1>3, <1>4, ReportFacts

LEMMA ReportLists ==
  ASSUME HandlerTypes, ListsInv, NEW t \in tasks, ReportCard(t)
  PROVE  ListsInv'
<1> SUFFICES ASSUME NEW a \in Atrs, OpenSC \in Installed,
                    libs'[a] = Append(libs[a], OpenSC)
             PROVE  /\ libs'[a] # <<>>
                    /\ \A i, j \in DOMAIN libs'[a] :
                         i < j /\ libs'[a][i] = OpenSC => libs'[a][j] \in Installed
  BY ReportFacts DEF ListsInv
<1> DEFINE s == libs[a]
           t2 == libs'[a]
<1>1. s \in Seq(Libs) /\ OpenSC \in Libs
  BY CardAssumption DEF HandlerTypes
<1>2. /\ DOMAIN s = 1 .. Len(s) /\ DOMAIN t2 = 1 .. Len(s) + 1 /\ Len(s) \in Nat
      /\ \A i \in 1 .. Len(s) : t2[i] = s[i]
      /\ t2[Len(s) + 1] = OpenSC /\ t2 # <<>>
  BY <1>1
<1>3. \A i, j \in DOMAIN s : i < j /\ s[i] = OpenSC => s[j] \in Installed
  BY DEF ListsInv
<1> HIDE DEF s, t2
<1>4. ASSUME NEW i \in DOMAIN t2, NEW j \in DOMAIN t2, i < j, t2[i] = OpenSC
      PROVE  t2[j] \in Installed
  <2>1. CASE j = Len(s) + 1
    BY <1>2, <2>1
  <2>2. CASE j # Len(s) + 1
    <3>1. j \in 1 .. Len(s) /\ i \in 1 .. Len(s)
      BY <1>2, <1>4, <2>2
    <3> QED BY <1>2, <1>3, <1>4, <3>1
  <2> QED BY <2>1, <2>2
<1> QED BY <1>2, <1>4 DEF t2

LEMMA NextLists ==
  ASSUME HandlerTypes, ListsInv, [Next]_vars
  PROVE  ListsInv'
<1>1. CASE UNCHANGED libs
  BY <1>1 DEF ListsInv
<1>2. ASSUME NEW t \in tasks, Step(t)
      PROVE  ListsInv'
  BY <1>1, <1>2, ReportLists, OtherFacts, SearchFacts DEF Step
<1>3. CASE \/ \E r \in Readers : CardLeaves(r) \/ \E c \in Cards : CardEnters(r, c)
           \/ Tick \/ UNCHANGED vars
  <2>1. UNCHANGED libs
    BY <1>3 DEF CardLeaves, CardEnters, Tick, vars
  <2> QED BY <1>1, <2>1
<1> QED BY <1>2, <1>3 DEF Next

LEMMA NextSearch ==
  ASSUME HandlerTypes, ListsInv, SearchInv, [Next]_vars
  PROVE  SearchInv'
<1>1. ASSUME NEW t \in tasks, ReportCard(t) \/ LoadLibrary(t) \/ UseLibrary(t) \/ Announce(t)
      PROVE  SearchInv'
  <2>1. \A u \in tasks' : u.at = "search" => u \in tasks
    BY <1>1, InsertionFacts, AnnounceFacts
  <2>2. \A a \in Atrs : DOMAIN libs[a] \subseteq DOMAIN libs'[a]
    BY <1>1, ReportExtends, OtherFacts DEF Extends
  <2> QED BY <2>1, <2>2 DEF SearchInv, HandlerTypes, TaskType
<1>2. ASSUME NEW t \in tasks, SearchLibrary(t)
      PROVE  SearchInv'
  <2>1. UNCHANGED libs /\ t.at = "search"
    BY <1>2, SearchFacts
  <2>2. libs[t.atr] \in Seq(Libs) /\ t.lib \in DOMAIN libs[t.atr]
    BY <2>1 DEF SearchInv, HandlerTypes, TaskType
  <2>3. t.lib # Len(libs[t.atr]) => t.lib + 1 \in DOMAIN libs[t.atr]
    BY <2>2
  <2>4. \/ tasks' = tasks \ {t}
        \/ /\ t.lib # Len(libs[t.atr])
           /\ \E u : u.atr = t.atr /\ u.lib = t.lib + 1 /\ tasks' = (tasks \ {t}) \cup {u}
    BY <1>2, SearchFacts
  <2> QED BY <2>1, <2>3, <2>4 DEF SearchInv
<1>3. ASSUME NEW r \in Readers, CardLeaves(r)
      PROVE  SearchInv'
  <2>1. \A a \in Atrs : 1 \in DOMAIN libs[a]
    BY DEF ListsInv, HandlerTypes
  <2>2. UNCHANGED libs /\ \A u \in tasks' : u \in tasks \/ (u.lib = 1 /\ u.atr \in Atrs)
    BY <1>3, LeaveFacts
  <2> QED BY <2>1, <2>2 DEF SearchInv
<1>4. ASSUME NEW r \in Readers, NEW c \in Cards, CardEnters(r, c)
      PROVE  SearchInv'
  BY <1>4, EnterFacts DEF SearchInv
<1>5. CASE Tick
  BY <1>5, TickFacts DEF SearchInv
<1>6. CASE UNCHANGED vars
  BY <1>6 DEF vars, SearchInv
<1> QED BY <1>1, <1>2, <1>3, <1>4, <1>5, <1>6 DEF Next, Step

-----------------------------------------------------------------------------
(* what is announced *)

\* An insertion is under way, and will announce something in the end.
Inserting == \E t \in tasks : t.at # "search"

\* A search that has initialized OpenSC's library and found its providers: it drops
\* every session in the end, and announces that.
PastOpenSC(t, list) ==
  /\ t.at = "search" /\ t.found # {}
  /\ \E k \in DOMAIN list : k < t.lib /\ list[k] = OpenSC

\* What was announced last is out of date only while a handler is under way that will
\* announce something, or while a session cannot be read, so that nothing can be.
AnnounceInv ==
  orphans = {} =>
    \/ announced = sessions
    \/ ~ Readable(sessions, initialized)
    \/ Inserting
    \/ \E t \in tasks : PastOpenSC(t, libs[t.atr])

\* Steps that announce nothing and let nothing be read that could not.
LEMMA SameAnnounced ==
  ASSUME HandlerTypes, AnnounceInv, UNCHANGED <<sessions, orphans, announced, libs>>,
         Readable(sessions, initialized)' => Readable(sessions, initialized),
         Inserting => Inserting',
         \A t \in tasks : t.at = "search" => \E u \in tasks' :
           /\ u.at = "search" /\ u.atr = t.atr /\ u.lib = t.lib /\ u.found = t.found
  PROVE  AnnounceInv'
<1>1. ASSUME NEW t \in tasks, PastOpenSC(t, libs[t.atr])
      PROVE  \E u \in tasks' : PastOpenSC(u, libs'[u.atr])
  BY <1>1 DEF PastOpenSC
<1> QED BY <1>1 DEF AnnounceInv, Readable

LEMMA SearchAnnounced ==
  ASSUME HandlerTypes, PipelineInv, ListsInv, SearchInv, AnnounceInv,
         NEW t \in tasks, SearchLibrary(t)
  PROVE  AnnounceInv'
<1> DEFINE lib == libs[t.atr][t.lib]
<1>1. /\ t.at = "search" /\ UNCHANGED <<inReader, libs>>
      /\ t.lib \in DOMAIN libs[t.atr] /\ libs[t.atr] \in Seq(Libs) /\ t.atr \in Atrs
  BY SearchFacts DEF SearchInv, HandlerTypes, TaskType
<1>2. \A u \in tasks : u.at # "search" => u # t
  BY <1>1
<1>3. CASE DropAll(FoundBy(t), initialized \cup {lib})
  <2>1. sessions' \subseteq orphans'
    BY <1>3, DropKeeps
  <2>2. announced' = sessions' \/ ~ Readable(sessions', initialized')
    BY <1>3, Zenon DEF DropAll, EmitUpdate
  <2>3. Readable({}, initialized')
    BY DEF Readable
  <2>4. orphans' = {} => announced' = sessions'
    <3> SUFFICES ASSUME orphans' = {} PROVE announced' = sessions'
      OBVIOUS
    <3>1. sessions' = {}
      BY <2>1
    <3> QED BY <2>2, <2>3, <3>1
  <2> QED BY <2>4 DEF AnnounceInv
<1>4. CASE /\ lib \notin Installed
           /\ tasks' = tasks \ {t}
           /\ UNCHANGED <<initialized, cryptos, sessions, orphans, announced>>
  <2>1. ~ PastOpenSC(t, libs[t.atr])
    BY <1>1, <1>4 DEF PastOpenSC, ListsInv
  <2>2. Inserting => Inserting'
    BY <1>2, <1>4 DEF Inserting
  <2>3. Readable(sessions, initialized)' = Readable(sessions, initialized)
    BY <1>1, <1>4 DEF Readable
  <2> QED BY <1>1, <1>4, <2>1, <2>2, <2>3 DEF AnnounceInv
<1>5. ASSUME orphans = {}, ~ Readable(sessions, initialized),
             Readable(sessions, initialized \cup {lib}), UNCHANGED inReader
      PROVE  lib = OpenSC /\ FoundBy(t) # {}
  <2>1. PICK p \in sessions : p.lib \notin initialized /\ p.lib = lib
    BY <1>5 DEF Readable
  <2>2. p \in cryptos
    BY <1>5 DEF PipelineInv, SessionsBacked
  <2>3. lib = OpenSC
    BY <2>1, <2>2 DEF PipelineInv, OtherLibrariesReady
  <2>4. <<p, p \in renamed>> \in FoundBy(t)
    BY <2>1, <2>2 DEF FoundBy
  <2> QED BY <2>3, <2>4
<1>6. CASE /\ t.lib = Len(libs[t.atr]) /\ FoundBy(t) = {}
           /\ tasks' = tasks \ {t}
           /\ initialized' = initialized \cup {lib}
           /\ UNCHANGED <<cryptos, sessions, orphans, announced>>
  <2>1. ~ PastOpenSC(t, libs[t.atr])
    BY <1>6 DEF PastOpenSC, FoundBy
  <2>2. Inserting => Inserting'
    BY <1>2, <1>6 DEF Inserting
  <2>3. ASSUME orphans = {}, ~ Readable(sessions, initialized)
        PROVE  ~ Readable(sessions, initialized)'
    BY <1>1, <1>5, <1>6, <2>3 DEF Readable
  <2> QED BY <1>1, <1>6, <2>1, <2>2, <2>3 DEF AnnounceInv
<1>7. ASSUME t.lib # Len(libs[t.atr]),
             NEW u, u.at = "search", u.atr = t.atr, u.lib = t.lib + 1, u.found = FoundBy(t),
             tasks' = (tasks \ {t}) \cup {u},
             initialized' = initialized \cup {lib},
             UNCHANGED <<cryptos, sessions, orphans, announced>>
      PROVE  AnnounceInv'
  <2>1. t.lib \in Nat /\ t.lib < u.lib /\ \A k \in DOMAIN libs[t.atr] : k < t.lib => k < u.lib
    BY <1>1, <1>7
  <2>2. PastOpenSC(t, libs[t.atr]) => PastOpenSC(u, libs'[u.atr])
    BY <1>1, <1>7, <2>1 DEF PastOpenSC, FoundBy
  <2>3. lib = OpenSC /\ FoundBy(t) # {} => PastOpenSC(u, libs'[u.atr])
    BY <1>1, <1>7, <2>1 DEF PastOpenSC
  <2>4. Inserting => Inserting'
    BY <1>2, <1>7 DEF Inserting
  <2>5. ASSUME orphans = {}, ~ Readable(sessions, initialized)
        PROVE  ~ Readable(sessions, initialized)' \/ PastOpenSC(u, libs'[u.atr])
    BY <1>1, <1>5, <1>7, <2>3, <2>5 DEF Readable
  <2>6. u \in tasks'
    BY <1>7
  <2> QED BY <1>1, <1>7, <2>2, <2>4, <2>5, <2>6 DEF AnnounceInv
<1> HIDE DEF lib
<1> QED BY <1>3, <1>4, <1>6, <1>7, SearchFacts DEF lib

LEMMA NextAnnounce ==
  ASSUME HandlerTypes, PipelineInv, ListsInv, SearchInv, AnnounceInv, [Next]_vars
  PROVE  AnnounceInv'
<1>1. ASSUME NEW t \in tasks, ReportCard(t) \/ LoadLibrary(t) \/ UseLibrary(t)
      PROVE  AnnounceInv'
  <2>1. Inserting'
    BY <1>1, InsertionFacts DEF Inserting
  <2> QED BY <2>1 DEF AnnounceInv
<1>2. ASSUME NEW t \in tasks, Announce(t)
      PROVE  AnnounceInv'
  BY <1>2, AnnounceFacts DEF AnnounceInv, Readable
<1>3. ASSUME NEW r \in Readers, CardLeaves(r)
      PROVE  AnnounceInv'
  <2>1. /\ UNCHANGED <<sessions, orphans, announced, libs, initialized>>
        /\ inReader' = [inReader EXCEPT ![r] = NoCard]
        /\ tasks \subseteq tasks'
    BY <1>3, LeaveFacts
  <2>2. Readable(sessions, initialized)' => Readable(sessions, initialized)
    BY <2>1 DEF Readable, HandlerTypes, PipelineInv, ProviderTypes, Providers
  <2>3. Inserting => Inserting'
    BY <2>1 DEF Inserting
  <2> QED BY <2>1, <2>2, <2>3, SameAnnounced
<1>4. ASSUME NEW r \in Readers, NEW c \in Cards, CardEnters(r, c)
      PROVE  AnnounceInv'
  <2>1. Inserting'
    BY <1>4, EnterFacts DEF Inserting
  <2> QED BY <2>1 DEF AnnounceInv
<1>5. CASE Tick
  <2>1. UNCHANGED <<inReader, sessions, orphans, announced, libs, initialized>>
    BY <1>5, TickFacts
  <2>2. \A t \in tasks : \E u \in tasks' :
          u.at = t.at /\ u.atr = t.atr /\ u.lib = t.lib /\ u.found = t.found
    BY <1>5, TickFacts
  <2>3. Inserting => Inserting'
    BY <2>2 DEF Inserting
  <2>4. Readable(sessions, initialized)' = Readable(sessions, initialized)
    BY <2>1 DEF Readable
  <2> QED BY <2>1, <2>2, <2>3, <2>4, SameAnnounced
<1>6. CASE UNCHANGED vars
  BY <1>6 DEF vars, AnnounceInv, Inserting, Readable, providerVars, readerVars
<1> QED BY <1>1, <1>2, <1>3, <1>4, <1>5, <1>6, SearchAnnounced DEF Next, Step

-----------------------------------------------------------------------------
(* cards that were taken out *)

\* What it takes for every removal to be noticed and to find what it has to drop:
\* there is one reader only, or no two cards share an ATR; all libraries of an ATR are
\* installed; a library that recognises one is among them (OpenSC's is added when it
\* is reported); and no card leaves before it was reported.  Without any of these,
\* sessions of cards that were taken out can stay.
Removable ==
  /\ \/ \A q, r \in Readers : q = r
     \/ \A c, d \in Cards : AtrOf[c] = AtrOf[d] => c = d
  /\ \A a \in Atrs : Range(LibsOf[a]) \subseteq Installed
  /\ \A c \in Cards, l \in Libs :
       AtrOf[c] \in Served[l] => l \in Range(LibsOf[AtrOf[c]]) \cup {OpenSC}
  /\ Long < MinStay

\* The watcher lists cards that are in their readers, and each card is listed, or
\* will be before it can leave.
Reports == {t \in tasks : t.at = "report"}

ListedInv ==
  /\ \A x \in listed : inReader[x.reader] # NoCard /\ x.atr = AtrOf[inReader[x.reader]]
  /\ \A r, q \in Readers : inReader[r] = inReader[q] /\ inReader[r] # NoCard => r = q
  /\ \A r \in Readers :
       \/ inReader[r] = NoCard
       \/ [reader |-> r, atr |-> AtrOf[inReader[r]]] \in listed
       \/ \E t \in Reports : t.reader = r
  /\ \A t \in Reports : /\ inReader[t.reader] # NoCard /\ t.atr = AtrOf[inReader[t.reader]]
                        /\ t.left < stay[t.reader]

LEMMA SameReports ==
  ASSUME ListedInv, UNCHANGED <<inReader, stay, listed, Reports>>
  PROVE  ListedInv'
  BY DEF ListedInv

\* Steps of other handlers than the report are none of the watcher's.
LEMMA OtherTasks ==
  ASSUME NEW t \in tasks, t.at # "report",
         \/ tasks' = tasks \ {t}
         \/ \E u : u.at # "report" /\ tasks' = (tasks \ {t}) \cup {u}
  PROVE  UNCHANGED Reports
  BY DEF Reports

LEMMA ReportListed ==
  ASSUME Removable, HandlerTypes, ListedInv, NEW t \in tasks, ReportCard(t)
  PROVE  ListedInv'
<1> DEFINE new == [reader |-> t.reader, atr |-> t.atr]
<1>1. /\ t \in Reports /\ UNCHANGED <<inReader, stay>>
      /\ Reports' = Reports \ {t}
  BY ReportFacts, InsertionFacts DEF Reports
<1>2. inReader[t.reader] # NoCard /\ t.atr = AtrOf[inReader[t.reader]] /\ t.reader \in Readers
  BY <1>1 DEF ListedInv, HandlerTypes, TaskType
<1>3. new \in listed'
  <2>1. CASE \E x \in listed : x.atr = t.atr
    <3>1. PICK x \in listed : x.atr = t.atr
      BY <2>1
    <3>2. /\ x = [reader |-> x.reader, atr |-> x.atr] /\ x.reader \in Readers
      BY DEF HandlerTypes
    <3>3. inReader[x.reader] # NoCard /\ AtrOf[inReader[x.reader]] = AtrOf[inReader[t.reader]]
      BY <1>2, <3>1 DEF ListedInv
    <3>4. inReader[x.reader] \in Cards /\ inReader[t.reader] \in Cards
      BY <1>2, <3>2, <3>3 DEF HandlerTypes
    <3>5. x.reader = t.reader \/ inReader[x.reader] = inReader[t.reader]
      BY <1>2, <3>2, <3>3, <3>4 DEF Removable
    <3>6. x.reader = t.reader
      BY <1>2, <3>2, <3>3, <3>5 DEF ListedInv
    <3>7. listed' = listed
      BY <2>1, ReportFacts
    <3> QED BY <3>1, <3>2, <3>6, <3>7
  <2>2. CASE ~ \E x \in listed : x.atr = t.atr
    BY <2>2, ReportFacts
  <2> QED BY <2>1, <2>2
<1>4. listed' = listed \/ listed' = listed \cup {new}
  BY ReportFacts
<1>5. new.reader = t.reader /\ new.atr = t.atr
  OBVIOUS
<1>6. \A x \in listed' : inReader[x.reader] # NoCard /\ x.atr = AtrOf[inReader[x.reader]]
  BY <1>2, <1>4, <1>5 DEF ListedInv
<1>7. ASSUME NEW r \in Readers, inReader[r] # NoCard
      PROVE  \/ [reader |-> r, atr |-> AtrOf[inReader[r]]] \in listed'
             \/ \E u \in Reports' : u.reader = r
  BY <1>1, <1>2, <1>3, <1>4, <1>7 DEF ListedInv
<1> HIDE DEF new
<1> QED BY <1>1, <1>6, <1>7 DEF ListedInv

LEMMA EnterListed ==
  ASSUME Removable, HandlerTypes, ListedInv, NEW r \in Readers, NEW c \in Cards, CardEnters(r, c)
  PROVE  ListedInv'
<1>1. PICK u : /\ u.at = "report" /\ u.reader = r /\ u.atr = AtrOf[c]
               /\ u.left = Long /\ tasks' = tasks \cup {u}
  BY EnterFacts
<1>2. /\ inReader[r] = NoCard /\ inReader'[r] = c
      /\ \A q \in Readers : inReader[q] # c
      /\ \A q \in Readers : q # r => inReader'[q] = inReader[q] /\ stay'[q] = stay[q]
      /\ stay'[r] = MinStay /\ UNCHANGED listed
  BY EnterFacts DEF HandlerTypes
<1>3. Reports' = Reports \cup {u}
  BY <1>1 DEF Reports
<1>4. c # NoCard
  BY CardAssumption
<1>5. \A x \in listed : x.reader \in Readers /\ x.reader # r
  BY <1>2 DEF ListedInv, HandlerTypes
<1>6. \A t \in Reports : t.reader \in Readers /\ t.reader # r
  BY <1>2 DEF ListedInv, HandlerTypes, TaskType, Reports
<1>7. \A x \in listed' : inReader'[x.reader] # NoCard /\ x.atr = AtrOf[inReader'[x.reader]]
  BY <1>2, <1>5 DEF ListedInv
<1>8. \A p, q \in Readers : inReader'[p] = inReader'[q] /\ inReader'[p] # NoCard => p = q
  BY <1>2 DEF ListedInv
<1>9. ASSUME NEW q \in Readers, inReader'[q] # NoCard
      PROVE  \/ [reader |-> q, atr |-> AtrOf[inReader'[q]]] \in listed'
             \/ \E t \in Reports' : t.reader = q
  <2>1. CASE q = r
    BY <1>1, <1>3, <2>1
  <2>2. CASE q # r
    BY <1>2, <1>3, <1>9, <2>2 DEF ListedInv
  <2> QED BY <2>1, <2>2
<1>10. \A t \in Reports' : /\ inReader'[t.reader] # NoCard /\ t.atr = AtrOf[inReader'[t.reader]]
                           /\ t.left < stay'[t.reader]
  <2>1. u.left < stay'[u.reader]
    BY <1>1, <1>2 DEF Removable
  <2> QED BY <1>1, <1>2, <1>3, <1>4, <1>6, <2>1 DEF ListedInv
<1> QED BY <1>7, <1>8, <1>9, <1>10 DEF ListedInv

LEMMA LeaveListed ==
  ASSUME HandlerTypes, ListedInv, NEW r \in Readers, CardLeaves(r)
  PROVE  /\ ListedInv'
         /\ [reader |-> r, atr |-> AtrOf[inReader[r]]] \in listed
<1> DEFINE gone == [reader |-> r, atr |-> AtrOf[inReader[r]]]
<1>1. /\ inReader[r] \in Cards /\ stay[r] = 0
      /\ inReader'[r] = NoCard
      /\ \A q \in Readers : q # r => inReader'[q] = inReader[q]
      /\ listed' = listed \ {gone} /\ UNCHANGED stay
  BY LeaveFacts DEF HandlerTypes
<1>2. tasks' = tasks \/ \E u : u.at = "search" /\ tasks' = tasks \cup {u}
  BY LeaveFacts
<1>3. Reports' = Reports
  BY <1>2 DEF Reports
<1>4. \A t \in Reports : t.reader \in Readers /\ t.reader # r
  BY <1>1 DEF ListedInv, HandlerTypes, TaskType, Reports
<1>5. inReader[r] # NoCard
  BY <1>1, CardAssumption
<1>6. gone \in listed
  BY <1>4, <1>5 DEF ListedInv
<1>7. \A x \in listed' : x.reader \in Readers /\ x.reader # r
  <2> SUFFICES ASSUME NEW x \in listed, x # gone PROVE x.reader \in Readers /\ x.reader # r
    BY <1>1
  <2>1. x = [reader |-> x.reader, atr |-> x.atr] /\ x.reader \in Readers
    BY DEF HandlerTypes
  <2>2. x.atr = AtrOf[inReader[x.reader]]
    BY DEF ListedInv
  <2> QED BY <2>1, <2>2
<1>8. \A x \in listed' : inReader'[x.reader] # NoCard /\ x.atr = AtrOf[inReader'[x.reader]]
  BY <1>1, <1>7 DEF ListedInv
<1>9. \A p, q \in Readers : inReader'[p] = inReader'[q] /\ inReader'[p] # NoCard => p = q
  BY <1>1 DEF ListedInv
<1>10. ASSUME NEW q \in Readers, inReader'[q] # NoCard
       PROVE  \/ [reader |-> q, atr |-> AtrOf[inReader'[q]]] \in listed'
              \/ \E t \in Reports' : t.reader = q
  <2>1. q # r /\ inReader'[q] = inReader[q]
    BY <1>1, <1>10
  <2>2. [reader |-> q, atr |-> AtrOf[inReader[q]]] # gone
    BY <2>1
  <2> QED BY <1>1, <1>3, <1>10, <2>1, <2>2 DEF ListedInv
<1>11. \A t \in Reports' : /\ inReader'[t.reader] # NoCard /\ t.atr = AtrOf[inReader'[t.reader]]
                           /\ t.left < stay'[t.reader]
  BY <1>1, <1>3, <1>4 DEF ListedInv
<1> QED BY <1>6, <1>8, <1>9, <1>10, <1>11 DEF ListedInv

LEMMA TickListed ==
  ASSUME HandlerTypes, ListedInv, Tick
  PROVE  ListedInv'
<1>1. UNCHANGED <<inReader, listed>>
  BY TickFacts
<1>2. \A r \in Readers : inReader[r] # NoCard =>
        \/ [reader |-> r, atr |-> AtrOf[inReader[r]]] \in listed
        \/ \E u \in Reports' : u.reader = r
  BY TickFacts DEF Reports, ListedInv
<1>3. ASSUME NEW u \in Reports'
      PROVE  /\ inReader[u.reader] # NoCard /\ u.atr = AtrOf[inReader[u.reader]]
             /\ u.left < stay'[u.reader]
  <2>1. PICK t \in tasks : /\ TaskType(t) /\ u.left = t.left - 1 /\ t.left # 0
                           /\ u.at = t.at /\ u.reader = t.reader /\ u.atr = t.atr
    BY <1>3, TickFacts DEF Reports, HandlerTypes
  <2>2. t \in Reports
    BY <1>3, <2>1 DEF Reports
  <2>3. t.left < stay[t.reader] /\ t.left \in Nat /\ stay[t.reader] \in Nat /\ t.reader \in Readers
    BY <2>1, <2>2 DEF ListedInv, TaskType, HandlerTypes
  <2>4. stay[t.reader] # 0
    BY <2>3
  <2>5. stay'[t.reader] = stay[t.reader] - 1
    BY <2>3, <2>4, TickFacts
  <2> QED BY <2>1, <2>2, <2>3, <2>5 DEF ListedInv
<1> QED BY <1>1, <1>2, <1>3 DEF ListedInv

\* Reports after a step of another handler: those before.
LEMMA OtherStep ==
  ASSUME HandlerTypes, NEW t \in tasks,
         LoadLibrary(t) \/ UseLibrary(t) \/ Announce(t) \/ SearchLibrary(t)
  PROVE  UNCHANGED <<inReader, stay, listed, libs, Reports>>
<1>1. CASE LoadLibrary(t) \/ UseLibrary(t) \/ Announce(t)
  <2>1. t.at # "report" /\ UNCHANGED <<inReader, stay, listed, libs>>
    BY <1>1, OtherFacts
  <2>2. \/ tasks' = tasks \ {t}
        \/ \E u : u.at # "report" /\ tasks' = (tasks \ {t}) \cup {u}
    BY <1>1, InsertionFacts, AnnounceFacts
  <2> QED BY <2>1, <2>2, OtherTasks
<1>2. CASE SearchLibrary(t)
  <2>1. /\ t.at # "report" /\ UNCHANGED <<inReader, stay, listed, libs>>
        /\ \/ tasks' = tasks \ {t}
           \/ \E u : u.at # "report" /\ tasks' = (tasks \ {t}) \cup {u}
    BY <1>2, SearchFacts
  <2> QED BY <2>1, OtherTasks
<1> QED BY <1>1, <1>2

LEMMA NextListed ==
  ASSUME Removable, HandlerTypes, ListedInv, [Next]_vars
  PROVE  ListedInv'
<1>1. ASSUME NEW t \in tasks,
             LoadLibrary(t) \/ UseLibrary(t) \/ Announce(t) \/ SearchLibrary(t)
      PROVE  ListedInv'
  BY <1>1, OtherStep, SameReports
<1>2. CASE UNCHANGED vars
  BY <1>2, SameReports DEF vars, readerVars, Reports
<1> QED BY <1>1, <1>2, ReportListed, EnterListed, LeaveListed, TickListed DEF Next, Step

\* Every session is of a library that its card's removal will search, or that the
\* report of the card is about to add.
Listing(list, rep, p) ==
  p.lib \in Range(list) \/ (p.lib = OpenSC /\ \E t \in rep : t.atr = AtrOf[p.card])

FoundLaterInv ==
  /\ \A a \in Atrs : /\ Range(libs[a]) \subseteq Installed
                     /\ Range(LibsOf[a]) \subseteq Range(libs[a])
  /\ OpenSC # NoLib => \A x \in listed : OpenSC \in Range(libs[x.atr])
  /\ \A p \in sessions : p \in Providers /\ Listing(libs[AtrOf[p.card]], Reports, p)

LEMMA ExtendsRange ==
  ASSUME NEW s, NEW r, Extends(s, r)
  PROVE  Range(r) \subseteq Range(s)
  BY DEF Extends, Range

\* A round over a library's slots: what is new is a card in its reader.
LEMMA UseSessions ==
  ASSUME NEW t \in tasks, UseLibrary(t)
  PROVE  /\ orphans \subseteq orphans'
         /\ \A p \in sessions' \ sessions :
              /\ p \in Providers /\ inReader[p.reader] = p.card
              /\ AtrOf[p.card] \in Served[p.lib]
<1> DEFINE lib == libs[t.atr][t.lib]
<1>1. PICK fresh \in SUBSET FreshProviders(lib) :
        orphans \subseteq orphans' /\ sessions' \subseteq sessions \cup fresh
  BY UseFacts
<1>2. \A p \in FreshProviders(lib) : /\ p \in Providers /\ inReader[p.reader] = p.card
                                     /\ AtrOf[p.card] \in Served[p.lib]
  BY DEF FreshProviders
<1> HIDE DEF lib
<1> QED BY <1>1, <1>2

LEMMA FreshListed ==
  ASSUME Removable, HandlerTypes, ListedInv, FoundLaterInv, NEW p \in Providers,
         inReader[p.reader] = p.card, AtrOf[p.card] \in Served[p.lib]
  PROVE  Listing(libs[AtrOf[p.card]], Reports, p)
<1>1. p.lib \in Libs /\ p.reader \in Readers /\ p.card \in Cards /\ AtrOf[p.card] \in Atrs
  BY CardAssumption DEF Providers
<1>2. CASE p.lib \in Range(LibsOf[AtrOf[p.card]])
  BY <1>1, <1>2 DEF FoundLaterInv, Listing
<1>3. CASE p.lib = OpenSC
  <2>1. OpenSC # NoLib /\ p.card # NoCard
    BY <1>1, <1>3, CardAssumption
  <2> DEFINE x == [reader |-> p.reader, atr |-> AtrOf[p.card]]
  <2>2. CASE x \in listed
    <3>1. x.atr = AtrOf[p.card]
      OBVIOUS
    <3> QED BY <1>3, <2>1, <2>2, <3>1 DEF FoundLaterInv, Listing
  <2>3. CASE \E t \in Reports : t.reader = p.reader
    BY <1>3, <2>3 DEF ListedInv, Listing
  <2> QED BY <1>1, <2>1, <2>2, <2>3 DEF ListedInv
<1> QED BY <1>1, <1>2, <1>3 DEF Removable

LEMMA SameSessions ==
  ASSUME FoundLaterInv, sessions' \subseteq sessions, UNCHANGED libs, listed' \subseteq listed,
         \A t \in Reports : \E u \in Reports' : u.atr = t.atr
  PROVE  FoundLaterInv'
<1>1. \A p \in sessions' : p \in Providers /\ Listing(libs[AtrOf[p.card]], Reports', p)
  BY DEF FoundLaterInv, Listing
<1> QED BY <1>1 DEF FoundLaterInv

LEMMA ReportFoundLater ==
  ASSUME HandlerTypes, FoundLaterInv, NEW t \in tasks, ReportCard(t)
  PROVE  FoundLaterInv'
<1>1. t \in Reports /\ t.atr \in Atrs /\ Reports' = Reports \ {t}
  BY ReportFacts, ReportExtends, InsertionFacts DEF Reports
<1>2. \A a \in Atrs : /\ Extends(libs'[a], libs[a])
                      /\ Range(libs'[a]) \subseteq Range(libs[a]) \cup (Installed \cap {OpenSC})
  BY ReportExtends
<1>3. \A a \in Atrs : Range(libs[a]) \subseteq Range(libs'[a])
  BY <1>2, ExtendsRange
<1>4. \A a \in Atrs : /\ Range(libs'[a]) \subseteq Installed
                      /\ Range(LibsOf[a]) \subseteq Range(libs'[a])
  BY <1>2, <1>3 DEF FoundLaterInv
<1>5. OpenSC # NoLib => \A x \in listed' : OpenSC \in Range(libs'[x.atr])
  <2> SUFFICES ASSUME OpenSC # NoLib, NEW x \in listed' PROVE OpenSC \in Range(libs'[x.atr])
    OBVIOUS
  <2>1. x \in listed \/ x = [reader |-> t.reader, atr |-> t.atr]
    BY ReportFacts
  <2>2. CASE x \in listed
    BY <1>3, <2>2 DEF FoundLaterInv, HandlerTypes
  <2>3. CASE x = [reader |-> t.reader, atr |-> t.atr]
    BY <2>3, ReportExtends
  <2> QED BY <2>1, <2>2, <2>3
<1>6. ASSUME NEW p \in sessions
      PROVE  p \in Providers /\ Listing(libs'[AtrOf[p.card]], Reports', p)
  <2>1. p \in Providers /\ p.lib \in Libs /\ AtrOf[p.card] \in Atrs
    BY CardAssumption DEF FoundLaterInv, Providers
  <2>2. CASE p.lib \in Range(libs[AtrOf[p.card]])
    BY <1>3, <2>1, <2>2 DEF Listing
  <2>3. CASE p.lib = OpenSC /\ \E u \in Reports : u.atr = AtrOf[p.card]
    <3>1. PICK u \in Reports : u.atr = AtrOf[p.card]
      BY <2>3
    <3>2. CASE u = t
      <4>1. OpenSC # NoLib
        BY <2>1, <2>3, CardAssumption
      <4> QED BY <2>1, <2>3, <3>1, <3>2, <4>1, ReportExtends DEF Listing
    <3>3. CASE u # t
      BY <1>1, <2>1, <2>3, <3>1, <3>3 DEF Listing
    <3> QED BY <3>2, <3>3
  <2> QED BY <2>2, <2>3 DEF FoundLaterInv, Listing
<1>7. sessions' = sessions
  BY ReportFacts
<1> QED BY <1>4, <1>5, <1>6, <1>7 DEF FoundLaterInv

LEMMA NextFoundLater ==
  ASSUME Removable, HandlerTypes, ListedInv, FoundLaterInv, [Next]_vars
  PROVE  FoundLaterInv'
<1>1. ASSUME NEW t \in tasks, UseLibrary(t)
      PROVE  FoundLaterInv'
  <2>1. UNCHANGED <<inReader, listed, libs, Reports>>
    BY <1>1, OtherStep
  <2>2. \A p \in sessions' : p \in Providers /\ Listing(libs[AtrOf[p.card]], Reports, p)
    BY <1>1, UseSessions, FreshListed DEF FoundLaterInv
  <2> QED BY <2>1, <2>2 DEF FoundLaterInv
<1>2. ASSUME NEW t \in tasks, LoadLibrary(t) \/ Announce(t) \/ SearchLibrary(t)
      PROVE  FoundLaterInv'
  <2>1. UNCHANGED <<listed, libs, Reports>>
    BY <1>2, OtherStep
  <2>2. sessions' \subseteq sessions
    BY <1>2, SearchFacts DEF LoadLibrary, Announce, providerVars, DropAll, Drop
  <2> QED BY <2>1, <2>2, SameSessions
<1>3. ASSUME NEW r \in Readers, NEW c \in Cards, CardEnters(r, c)
      PROVE  FoundLaterInv'
  <2>1. Reports \subseteq Reports' /\ UNCHANGED <<sessions, libs, listed>>
    BY <1>3, EnterFacts DEF Reports
  <2> QED BY <2>1, SameSessions
<1>4. ASSUME NEW r \in Readers, CardLeaves(r)
      PROVE  FoundLaterInv'
  <2>1. /\ tasks' = tasks \/ \E u : tasks' = tasks \cup {u}
        /\ UNCHANGED <<sessions, libs>> /\ listed' \subseteq listed
    BY <1>4, LeaveFacts
  <2>2. Reports \subseteq Reports'
    BY <2>1 DEF Reports
  <2> QED BY <2>1, <2>2, SameSessions
<1>5. CASE Tick
  <2>1. UNCHANGED <<sessions, libs, listed>>
    BY <1>5, TickFacts
  <2>2. \A t \in Reports : \E u \in Reports' : u.atr = t.atr
    BY <1>5, TickFacts DEF Reports
  <2> QED BY <2>1, <2>2, SameSessions
<1>6. CASE UNCHANGED vars
  BY <1>6, SameSessions DEF vars, providerVars, Reports
<1> QED BY <1>1, <1>2, <1>3, <1>4, <1>5, <1>6, ReportFoundLater DEF Next, Step

\* A search that will drop p: it has found something, or p's library is ahead.
Hunts(t, list, p) ==
  /\ t.at = "search"
  /\ t.found # {} \/ \E k \in DOMAIN list : t.lib <= k /\ list[k] = p.lib

\* A session whose card is out has a search under way.
HuntInv ==
  \A p \in sessions \ orphans :
    inReader[p.reader] # p.card => \E t \in tasks : Hunts(t, libs[t.atr], p)

\* Steps that leave each search as it is, and add no session without its card.
LEMMA SameHunts ==
  ASSUME HuntInv, HandlerTypes,
         \A a \in Atrs : Extends(libs'[a], libs[a]),
         \A p \in sessions' \ orphans' : inReader'[p.reader] # p.card =>
           p \in sessions \ orphans /\ inReader[p.reader] # p.card,
         \A t \in tasks : t.at = "search" => \E u \in tasks' :
           /\ u.at = "search" /\ u.atr = t.atr /\ u.lib = t.lib /\ u.found = t.found
  PROVE  HuntInv'
<1>1. ASSUME NEW p \in sessions' \ orphans', inReader'[p.reader] # p.card
      PROVE  \E u \in tasks' : Hunts(u, libs'[u.atr], p)
  <2>1. PICK t \in tasks : Hunts(t, libs[t.atr], p)
    BY <1>1 DEF HuntInv
  <2>2. PICK u \in tasks' : /\ u.at = "search" /\ u.atr = t.atr /\ u.lib = t.lib
                            /\ u.found = t.found
    BY <2>1 DEF Hunts
  <2>3. Extends(libs'[t.atr], libs[t.atr])
    BY DEF HandlerTypes, TaskType
  <2>4. Hunts(u, libs'[u.atr], p)
    BY <2>1, <2>2, <2>3 DEF Hunts, Extends
  <2> QED BY <2>4
<1> QED BY <1>1 DEF HuntInv

\* Insertions: searches stay, and new sessions are of cards in their readers.
LEMMA InsertionHunts ==
  ASSUME HandlerTypes, HuntInv, NEW t \in tasks,
         ReportCard(t) \/ LoadLibrary(t) \/ UseLibrary(t) \/ Announce(t)
  PROVE  HuntInv'
<1>1. \A a \in Atrs : Extends(libs'[a], libs[a])
  BY ReportExtends, OtherFacts DEF Extends
<1>2. /\ t.at # "search" /\ UNCHANGED inReader
      /\ tasks' = tasks \ {t} \/ \E u : tasks' = (tasks \ {t}) \cup {u}
  BY InsertionFacts, AnnounceFacts, ReportFacts, OtherFacts
<1>3. /\ orphans \subseteq orphans'
      /\ \A p \in sessions' \ sessions : inReader[p.reader] = p.card
  <2>1. CASE UseLibrary(t)
    BY <2>1, UseSessions
  <2>2. CASE ReportCard(t) \/ LoadLibrary(t) \/ Announce(t)
    <3>1. UNCHANGED <<sessions, orphans>>
      BY <2>2 DEF ReportCard, LoadLibrary, Announce, providerVars
    <3> QED BY <3>1
  <2> QED BY <2>1, <2>2
<1>4. \A v \in tasks : v.at = "search" => v \in tasks'
  BY <1>2
<1> QED BY <1>1, <1>2, <1>3, <1>4, SameHunts

\* The search that p waits for finds it when it comes to its library.
LEMMA FoundFact ==
  ASSUME SessionsBacked, NEW t, NEW p \in sessions \ orphans,
         t.found # {} \/ libs[t.atr][t.lib] = p.lib
  PROVE  FoundBy(t) # {}
<1>1. p \in cryptos
  BY DEF SessionsBacked
<1>2. CASE t.found # {}
  BY <1>2 DEF FoundBy
<1>3. CASE libs[t.atr][t.lib] = p.lib
  <2>1. p \in {q \in cryptos : q.lib = libs[t.atr][t.lib]}
    BY <1>1, <1>3
  <2>2. <<p, p \in renamed>> \in FoundBy(t)
    BY <2>1 DEF FoundBy
  <2> QED BY <2>2
<1> QED BY <1>2, <1>3

LEMMA SearchHunts ==
  ASSUME HandlerTypes, PipelineInv, SearchInv, FoundLaterInv, HuntInv,
         NEW t \in tasks, SearchLibrary(t)
  PROVE  HuntInv'
<1>1. /\ t.at = "search" /\ UNCHANGED <<inReader, libs>>
      /\ t.atr \in Atrs /\ libs[t.atr] \in Seq(Libs) /\ t.lib \in Nat
      /\ t.lib \in DOMAIN libs[t.atr]
  BY SearchFacts DEF HandlerTypes, TaskType, SearchInv
<1>2. DOMAIN libs[t.atr] = 1 .. Len(libs[t.atr]) /\ Len(libs[t.atr]) \in Nat
  BY <1>1
<1>3. libs[t.atr][t.lib] \in Installed
  BY <1>1 DEF FoundLaterInv, Range
<1>4. SessionsBacked
  BY DEF PipelineInv
<1>5. CASE t.lib = Len(libs[t.atr]) /\ FoundBy(t) = {} /\ tasks' = tasks \ {t}
           /\ UNCHANGED <<sessions, orphans>>
  <2>1. \A p \in sessions \ orphans : ~ Hunts(t, libs[t.atr], p)
    <3> SUFFICES ASSUME NEW p \in sessions \ orphans, Hunts(t, libs[t.atr], p) PROVE FALSE
      OBVIOUS
    <3>1. t.found # {} \/ libs[t.atr][t.lib] = p.lib
      BY <1>2, <1>5 DEF Hunts
    <3> QED BY <1>4, <1>5, <3>1, FoundFact
  <2> QED BY <1>1, <1>5, <2>1 DEF HuntInv
<1>6. ASSUME NEW u, u.at = "search", u.atr = t.atr, u.lib = t.lib + 1,
             u.found = FoundBy(t), tasks' = (tasks \ {t}) \cup {u},
             t.lib # Len(libs[t.atr]), UNCHANGED <<sessions, orphans>>
      PROVE  HuntInv'
  <2>1. \A p \in sessions \ orphans : Hunts(t, libs[t.atr], p) => Hunts(u, libs[u.atr], p)
    <3> SUFFICES ASSUME NEW p \in sessions \ orphans, Hunts(t, libs[t.atr], p)
                 PROVE  Hunts(u, libs[u.atr], p)
      OBVIOUS
    <3>1. CASE t.found # {} \/ libs[t.atr][t.lib] = p.lib
      BY <1>4, <1>6, <3>1, FoundFact DEF Hunts
    <3>2. CASE \E k \in DOMAIN libs[t.atr] : t.lib <= k /\ k # t.lib /\ libs[t.atr][k] = p.lib
      BY <1>1, <1>2, <1>6, <3>2 DEF Hunts
    <3> QED BY <3>1, <3>2 DEF Hunts
  <2> QED BY <1>1, <1>6, <2>1 DEF HuntInv
<1>7. ASSUME NEW init, initialized \subseteq init, DropAll(FoundBy(t), init), tasks' = tasks \ {t}
      PROVE  HuntInv'
  <2>1. sessions' \subseteq orphans'
    BY <1>7, DropKeeps
  <2> QED BY <1>1, <1>7, <2>1 DEF HuntInv
<1>8. initialized \subseteq initialized \cup {libs[t.atr][t.lib]}
  OBVIOUS
<1> QED BY <1>3, <1>5, <1>6, <1>7, <1>8, SearchFacts

LEMMA EnterHunts ==
  ASSUME HandlerTypes, FoundLaterInv, HuntInv,
         NEW r \in Readers, NEW c \in Cards, CardEnters(r, c)
  PROVE  HuntInv'
<1>1. /\ inReader[r] = NoCard /\ \A q \in Readers : q # r => inReader'[q] = inReader[q]
      /\ UNCHANGED <<libs, sessions, orphans>>
      /\ tasks \subseteq tasks'
  BY EnterFacts DEF HandlerTypes
<1>2. \A p \in sessions : p.reader \in Readers /\ p.card \in Cards /\ p.card # NoCard
  BY CardAssumption DEF FoundLaterInv, Providers
<1>3. \A a \in Atrs : Extends(libs'[a], libs[a])
  BY <1>1 DEF Extends
<1> QED BY <1>1, <1>2, <1>3, SameHunts

\* A card that leaves is searched for: all its sessions are of libraries ahead.
LEMMA LeaveHunts ==
  ASSUME HandlerTypes, ListedInv, FoundLaterInv, HuntInv, NEW r \in Readers, CardLeaves(r)
  PROVE  HuntInv'
<1> DEFINE a == AtrOf[inReader[r]]
           gone == [reader |-> r, atr |-> a]
<1>1. /\ inReader[r] \in Cards /\ a \in Atrs /\ stay[r] = 0
      /\ \A q \in Readers : q # r => inReader'[q] = inReader[q]
      /\ UNCHANGED <<libs, sessions, orphans>>
  BY LeaveFacts DEF HandlerTypes
<1>2. gone \in listed /\ gone.atr = a
  BY LeaveListed
<1>3. PICK u : TaskType(u) /\ u.at = "search" /\ u.atr = a /\ u.lib = 1
               /\ tasks' = tasks \cup {u}
  BY <1>2, LeaveFacts
<1> HIDE DEF gone
<1>4. \A k \in DOMAIN libs[a] : 1 <= k
  BY <1>1 DEF HandlerTypes
<1>5. ASSUME NEW p \in sessions, p.card = inReader[r]
      PROVE  Hunts(u, libs[u.atr], p)
  <2>1. p.lib \in Range(libs[a])
    <3>1. CASE p.lib \in Range(libs[AtrOf[p.card]])
      BY <1>5, <3>1
    <3>2. CASE p.lib = OpenSC
      <4>1. OpenSC # NoLib
        BY <3>2, CardAssumption DEF FoundLaterInv, Providers
      <4> QED BY <1>2, <3>2, <4>1 DEF FoundLaterInv
    <3> QED BY <3>1, <3>2 DEF FoundLaterInv, Listing
  <2> QED BY <1>3, <1>4, <2>1 DEF Hunts, Range
<1> HIDE DEF a
<1>6. ASSUME NEW p \in sessions \ orphans, inReader'[p.reader] # p.card
      PROVE  \E t \in tasks' : Hunts(t, libs[t.atr], p)
  <2>1. p.reader \in Readers
    BY DEF FoundLaterInv, Providers
  <2>2. CASE inReader[p.reader] # p.card
    BY <1>3, <2>2 DEF HuntInv
  <2>3. CASE inReader[p.reader] = p.card
    <3>1. p.reader = r
      BY <1>1, <1>6, <2>1, <2>3
    <3> QED BY <1>3, <1>5, <2>3, <3>1
  <2> QED BY <2>2, <2>3
<1> QED BY <1>1, <1>6 DEF HuntInv

LEMMA NextHunt ==
  ASSUME HandlerTypes, PipelineInv, SearchInv, ListedInv, FoundLaterInv, HuntInv, [Next]_vars
  PROVE  HuntInv'
<1>1. CASE Tick
  <2>1. UNCHANGED <<inReader, libs, sessions, orphans>>
    BY <1>1, TickFacts
  <2>2. \A a \in Atrs : Extends(libs'[a], libs[a])
    BY <2>1 DEF Extends
  <2> QED BY <1>1, <2>1, <2>2, TickFacts, SameHunts
<1>2. CASE UNCHANGED vars
  BY <1>2 DEF vars, readerVars, providerVars, HuntInv
<1> QED BY <1>1, <1>2, InsertionHunts, SearchHunts, EnterHunts, LeaveHunts DEF Next, Step

-----------------------------------------------------------------------------
(* one reader, in time *)

\* What it takes besides for no card to be lost: one reader; at most two libraries for
\* an ATR; no OpenSC, whose library makes the list longer with each card; and cards
\* that stay for 1.4 s at least.  A removal searches up to 2 s, and what an insertion
\* before it adds is announced 200 ms later: 1.2 s are too few.
Unhurried ==
  /\ \A q, r \in Readers : q = r
  /\ OpenSC = NoLib
  /\ \A a \in Atrs : Len(LibsOf[a]) <= 2
  /\ Long + Short + Short <= MinStay

LEMMA Times ==
  /\ Short \in Nat /\ Long \in Nat /\ MinStay \in Nat /\ Short > 0 /\ Long > 0
  BY TimeAssumption

LEMMA ListFacts ==
  ASSUME Removable, Unhurried, NEW a \in Atrs
  PROVE  /\ LibsOf[a] \in Seq(Libs) /\ Len(LibsOf[a]) \in Nat
         /\ DOMAIN LibsOf[a] = 1 .. Len(LibsOf[a])
         /\ Len(LibsOf[a]) = 1 \/ Len(LibsOf[a]) = 2
         /\ 1 \in DOMAIN LibsOf[a] /\ (Len(LibsOf[a]) = 2 => 2 \in DOMAIN LibsOf[a])
         /\ \A i \in DOMAIN LibsOf[a] : /\ i = 1 \/ (i = 2 /\ Len(LibsOf[a]) = 2)
                                      /\ LibsOf[a][i] \in Installed
<1>1. LibsOf[a] \in Seq(Libs) /\ LibsOf[a] # <<>>
  BY CardAssumption
<1>2. Len(LibsOf[a]) \in Nat /\ Len(LibsOf[a]) # 0 /\ DOMAIN LibsOf[a] = 1 .. Len(LibsOf[a])
  BY <1>1
<1>3. Len(LibsOf[a]) <= 2 /\ Range(LibsOf[a]) \subseteq Installed
  BY DEF Unhurried, Removable
<1>4. \A i \in DOMAIN LibsOf[a] : LibsOf[a][i] \in Range(LibsOf[a])
  BY DEF Range
<1>5. \A n \in Nat : n # 0 /\ n <= 2 =>
        /\ n = 1 \/ n = 2
        /\ 1 \in 1 .. n /\ (n = 2 => 2 \in 1 .. n)
        /\ \A i \in 1 .. n : i = 1 \/ (i = 2 /\ n = 2)
  OBVIOUS
<1> QED BY <1>1, <1>2, <1>3, <1>4, <1>5

\* The loop over the libraries goes to the next one.
LEMMA NextOne ==
  ASSUME Removable, Unhurried, NEW t, TaskType(t),
         NEW i \in 0 .. Len(LibsOf[t.atr])
  PROVE  NextLibrary(t, i, LibsOf[t.atr]) = IF i = Len(LibsOf[t.atr])
                                            THEN Pause(t, "announce", 0, Short)
                                            ELSE Pause(t, "load", i + 1, Short)
<1> DEFINE list == LibsOf[t.atr]
           later == {j \in DOMAIN list : j > i /\ list[j] \in Installed}
           n == Len(list)
<1>1. /\ n \in Nat /\ (n = 1 \/ n = 2) /\ DOMAIN list = 1 .. n
      /\ \A j \in DOMAIN list : list[j] \in Installed
  BY ListFacts DEF TaskType
<1>2. i \in Nat /\ i <= n
  BY <1>1
<1>3. later = {j \in 1 .. n : j > i}
  BY <1>1
<1>4. NextLibrary(t, i, list) = IF later = {} THEN Pause(t, "announce", 0, Short)
        ELSE Pause(t, "load", CHOOSE j \in later : \A k \in later : j <= k, Short)
  BY DEF NextLibrary
<1> HIDE DEF list, later, n
<1>5. CASE i = n
  <2>1. later = {}
    BY <1>1, <1>3, <1>5
  <2> QED BY <1>4, <1>5, <2>1 DEF list, n
<1>6. CASE i # n
  <2>1. i + 1 \in later /\ \A k \in later : i + 1 <= k
    BY <1>1, <1>2, <1>3, <1>6
  <2>2. \A j \in later : (\A k \in later : j <= k) => j = i + 1
    BY <1>1, <1>2, <1>3, <2>1
  <2>3. (CHOOSE j \in later : \A k \in later : j <= k) = i + 1
    BY <2>1, <2>2
  <2> QED BY <1>4, <1>6, <2>1, <2>3 DEF list, n
<1> QED BY <1>5, <1>6

\* Insertions on their way to the last library, and how long a handler is under way.
Inserts(t) == t.at \in {"report", "load", "init"}

Searches == {t \in tasks : t.at = "search"}

Age(t) ==
  LET past == IF t.lib = 1 THEN 0 ELSE Short + Long IN
  IF t.at = "report" THEN Long - t.left
  ELSE IF t.at = "load" THEN Long + past + Short - t.left
  ELSE IF t.at = "init" THEN Long + past + Short + Long - t.left
  ELSE (IF t.lib = 1 THEN Long ELSE Long + Long) - t.left

\* No pause is longer than it began.
Place(t) ==
  /\ t.op \in Nat /\ t.left \in Nat
  /\ \/ t.at = "report" /\ t.left <= Long
     \/ t.at = "announce" /\ t.left <= Short
     \/ t.at = "load" /\ t.lib \in DOMAIN LibsOf[t.atr] /\ t.left <= Short
     \/ t.at \in {"init", "search"} /\ t.lib \in DOMAIN LibsOf[t.atr] /\ t.left <= Long

PlaceInv == libs = LibsOf /\ cardOps \in Nat /\ \A t \in tasks : Place(t) /\ t.op <= cardOps

LEMMA AgeFacts ==
  ASSUME Removable, Unhurried, NEW t, TaskType(t), Place(t)
  PROVE  /\ Age(t) \in Int
         /\ Inserts(t) \/ t.at = "search" => Age(t) >= 0
         /\ t.at = "search" => /\ (t.lib = 1 \/ t.lib = 2) /\ t.lib <= Len(LibsOf[t.atr])
                               /\ Age(t) = (IF t.lib = 1 THEN Long ELSE Long + Long) - t.left
         /\ t.at = "init" => /\ (t.lib = 1 \/ t.lib = 2) /\ t.lib <= Len(LibsOf[t.atr])
                             /\ Age(t) = Long + (IF t.lib = 1 THEN 0 ELSE Short + Long)
                                           + Short + Long - t.left
<1>1. t.left \in Nat /\ Short \in Nat /\ Long \in Nat
  BY Times DEF Place
<1>2. t.at \in {"load", "init", "search"} => (t.lib = 1 \/ t.lib = 2) /\ t.lib <= Len(LibsOf[t.atr])
  BY ListFacts DEF Place, TaskType
<1> QED BY <1>1, <1>2 DEF Age, Place, Inserts

\* A handler after n units of time: it is about the same card, and goes on as what
\* it was unless it only has to announce.
Follows(u, t, n) ==
  /\ TaskType(u) /\ Place(u)
  /\ u.op = t.op /\ u.atr = t.atr /\ u.reader = t.reader
  /\ \/ u.at = "announce"
     \/ /\ u.at = "search" <=> t.at = "search"
        /\ Inserts(u) <=> Inserts(t)
        /\ Age(u) = Age(t) + n

LEMMA StayFollows ==
  ASSUME Removable, Unhurried, NEW t, TaskType(t), Place(t)
  PROVE  Follows(t, t, 0)
  BY AgeFacts DEF Follows

\* The next pause of a handler begins when the last one ends.
LEMMA PauseFollows ==
  ASSUME Removable, Unhurried, NEW t, TaskType(t), Place(t), t.left = 0, NEW at, NEW lib, NEW left,
         \/ t.at = "report" /\ at = "load" /\ lib = 1 /\ left = Short
         \/ t.at = "load" /\ at = "init" /\ lib = t.lib /\ left = Long
         \/ /\ t.at = "init" /\ at = "load" /\ lib = t.lib + 1 /\ left = Short
            /\ t.lib # Len(LibsOf[t.atr])
         \/ t.at \in {"report", "load", "init"} /\ at = "announce" /\ lib = 0 /\ left = Short
         \/ /\ t.at = "search" /\ at = "search" /\ lib = t.lib + 1 /\ left = Long
            /\ t.lib # Len(LibsOf[t.atr]),
         NEW u, TaskType(u), u.op = t.op, u.atr = t.atr, u.reader = t.reader,
         u.at = at, u.lib = lib, u.left = left
  PROVE  Follows(u, t, 0)
<1>1. /\ Len(LibsOf[t.atr]) \in Nat /\ t.op \in Nat
      /\ Len(LibsOf[t.atr]) = 1 \/ Len(LibsOf[t.atr]) = 2
      /\ 1 \in DOMAIN LibsOf[t.atr] /\ (Len(LibsOf[t.atr]) = 2 => 2 \in DOMAIN LibsOf[t.atr])
  BY ListFacts DEF TaskType, Place
<1>2. t.at \in {"load", "init", "search"} =>
        t.lib = 1 \/ (t.lib = 2 /\ Len(LibsOf[t.atr]) = 2)
  BY ListFacts DEF Place, TaskType
<1>3. Place(u)
  <2>1. at \in {"load", "init", "search"} => lib = 1 \/ (lib = 2 /\ Len(LibsOf[t.atr]) = 2)
    <3>1. CASE lib = 1 \/ (t.at = "load" /\ lib = t.lib)
      BY <1>2, <3>1
    <3>2. CASE t.at \in {"init", "search"} /\ lib = t.lib + 1 /\ t.lib # Len(LibsOf[t.atr])
      <4>1. t.lib = 1 /\ Len(LibsOf[t.atr]) = 2
        BY <1>1, <1>2, <3>2
      <4> QED BY <3>2, <4>1
    <3> QED BY <3>1, <3>2
  <2>2. at \in {"load", "init", "search"} => lib \in DOMAIN LibsOf[u.atr]
    BY <1>1, <2>1
  <2> QED BY <1>1, <2>2, Times DEF Place
<1>4. CASE at = "announce"
  BY <1>3, <1>4 DEF Follows
<1>5. CASE at # "announce"
  <2>1. (u.at = "search" <=> t.at = "search") /\ (Inserts(u) <=> Inserts(t))
    BY <1>5 DEF Inserts
  <2>2. CASE t.at = "report" /\ at = "load" /\ lib = 1 /\ left = Short
    BY <1>1, <1>3, <2>1, <2>2, Times DEF Age, Follows
  <2>3. CASE t.at = "load" /\ at = "init" /\ lib = t.lib /\ left = Long
    BY <1>1, <1>2, <1>3, <2>1, <2>3, Times DEF Age, Follows
  <2>4. CASE /\ t.at = "init" /\ at = "load" /\ lib = t.lib + 1 /\ left = Short
             /\ t.lib # Len(LibsOf[t.atr])
    <3>1. t.lib = 1
      BY <1>1, <1>2, <2>4
    <3> QED BY <1>1, <1>3, <2>1, <2>4, <3>1, Times DEF Age, Follows
  <2>5. CASE /\ t.at = "search" /\ at = "search" /\ lib = t.lib + 1 /\ left = Long
             /\ t.lib # Len(LibsOf[t.atr])
    <3>1. t.lib = 1
      BY <1>1, <1>2, <2>5
    <3> QED BY <1>1, <1>3, <2>1, <2>5, <3>1, Times DEF Age, Follows
  <2> QED BY <1>5, <2>2, <2>3, <2>4, <2>5
<1> QED BY <1>4, <1>5

LEMMA TickFollows ==
  ASSUME Removable, Unhurried, NEW t, TaskType(t), Place(t), t.left # 0,
         NEW u, TaskType(u), u.left = t.left - 1, u.op = t.op, u.at = t.at,
         u.reader = t.reader, u.atr = t.atr, u.lib = t.lib
  PROVE  Follows(u, t, 1)
<1>1. t.left \in Nat /\ u.left \in Nat /\ u.left <= t.left
  BY DEF Place, TaskType
<1>2. Place(u)
  BY <1>1, Times DEF Place
<1>3. CASE t.at = "announce"
  BY <1>2, <1>3 DEF Follows
<1>4. CASE t.at # "announce"
  <2>1. Age(u) = Age(t) + 1
    BY <1>1, Times DEF Age
  <2> QED BY <1>2, <2>1 DEF Follows, Inserts
<1> QED BY <1>3, <1>4

\* Where a handler of an insertion goes, when its pause is over.
LEMMA ReportNext ==
  ASSUME Removable, Unhurried, HandlerTypes, PlaceInv, NEW t \in tasks, ReportCard(t)
  PROVE  /\ t.at = "report" /\ UNCHANGED <<libs, inReader, stay, cardOps, faults, cryptos,
                                           sessions, orphans, renamed>>
         /\ \E u : /\ TaskType(u) /\ u.op = t.op /\ u.atr = t.atr /\ u.reader = t.reader
                   /\ u.at = "load" /\ u.lib = 1 /\ u.left = Short
                   /\ tasks' = (tasks \ {t}) \cup {u}
<1>1. /\ t.at = "report" /\ libs' = libs
      /\ UNCHANGED <<inReader, stay, cardOps, faults, cryptos, sessions, orphans, renamed>>
      /\ tasks' = (tasks \ {t}) \cup {NextLibrary(t, 0, libs'[t.atr])}
  BY DEF ReportCard, Continue, Unhurried, readerVars
<1>2. TaskType(t) /\ libs[t.atr] = LibsOf[t.atr] /\ Short \in Nat
  BY Times DEF HandlerTypes, PlaceInv
<1>3. Len(LibsOf[t.atr]) \in Nat /\ (Len(LibsOf[t.atr]) = 1 \/ Len(LibsOf[t.atr]) = 2)
  BY <1>2, ListFacts DEF TaskType
<1>4. NextLibrary(t, 0, LibsOf[t.atr]) = Pause(t, "load", 1, Short)
  <2> DEFINE n == Len(LibsOf[t.atr])
  <2> HIDE DEF n
  <2>1. \A k \in Nat : k = 1 \/ k = 2 => 0 \in 0 .. k /\ 0 # k
    OBVIOUS
  <2>2. 0 \in 0 .. n /\ 0 # n /\ 0 + 1 = 1
    BY <1>3, <2>1 DEF n
  <2>3. NextLibrary(t, 0, LibsOf[t.atr]) = Pause(t, "load", 0 + 1, Short)
    BY <1>2, <2>2, NextOne DEF n
  <2> QED BY <2>2, <2>3
<1> QED BY <1>1, <1>2, <1>4, PauseTypes

LEMMA LoadNext ==
  ASSUME HandlerTypes, NEW t \in tasks, LoadLibrary(t)
  PROVE  /\ t.at = "load" /\ UNCHANGED <<libs, inReader, stay, cardOps, faults, cryptos,
                                         sessions, orphans, renamed>>
         /\ \E u : /\ TaskType(u) /\ u.op = t.op /\ u.atr = t.atr /\ u.reader = t.reader
                   /\ u.at = "init" /\ u.lib = t.lib /\ u.left = Long
                   /\ tasks' = (tasks \ {t}) \cup {u}
<1>1. /\ t.at = "load" /\ UNCHANGED <<libs, inReader, stay, cardOps, faults, cryptos,
                                      sessions, orphans, renamed>>
      /\ tasks' = (tasks \ {t}) \cup {Pause(t, "init", t.lib, Long)}
  BY DEF LoadLibrary, Continue, readerVars, providerVars
<1>2. TaskType(t) /\ t.lib \in Nat /\ Long \in Nat
  BY Times DEF HandlerTypes, TaskType
<1> QED BY <1>1, <1>2, PauseTypes

LEMMA UseNext ==
  ASSUME Removable, Unhurried, HandlerTypes, PlaceInv, NEW t \in tasks, UseLibrary(t)
  PROVE  LET fresh == FreshProviders(LibsOf[t.atr][t.lib]) IN
         /\ t.at = "init" /\ UNCHANGED <<libs, inReader, stay, cardOps>>
         /\ renamed' = renamed \ fresh
         /\ \E u : /\ TaskType(u) /\ u.op = t.op /\ u.atr = t.atr /\ u.reader = t.reader
                   /\ u.left = Short
                   /\ tasks' = (tasks \ {t}) \cup {u}
                   /\ \/ u.at = "announce" /\ u.lib = 0
                      \/ u.at = "load" /\ u.lib = t.lib + 1 /\ t.lib # Len(LibsOf[t.atr])
                   /\ \/ /\ cryptos' = cryptos \cup fresh /\ sessions' = sessions \cup fresh
                         /\ UNCHANGED <<orphans, faults>>
                         /\ u.at = "load" <=> fresh = {} /\ t.lib # Len(LibsOf[t.atr])
                      \/ faults' = faults + 1
<1> DEFINE fresh == FreshProviders(LibsOf[t.atr][t.lib])
           next == NextLibrary(t, t.lib, LibsOf[t.atr])
           last == Pause(t, "announce", 0, Short)
<1>1. TaskType(t) /\ libs = LibsOf /\ Place(t) /\ Short \in Nat
  BY Times DEF HandlerTypes, PlaceInv
<1>2. /\ t.at = "init" /\ UNCHANGED <<libs, inReader, stay, cardOps>>
      /\ renamed' = renamed \ fresh
      /\ \/ /\ cryptos' = cryptos \cup fresh /\ sessions' = sessions \cup fresh
            /\ UNCHANGED <<orphans, faults>>
            /\ tasks' = (tasks \ {t}) \cup {IF fresh = {} THEN next ELSE last}
         \/ faults' = faults + 1 /\ tasks' = (tasks \ {t}) \cup {next}
  BY <1>1, Zenon DEF UseLibrary, Continue, readerVars
<1>3. t.lib \in DOMAIN LibsOf[t.atr] /\ t.atr \in Atrs /\ t.lib \in Nat
  BY <1>1, <1>2 DEF Place, TaskType
<1>4. t.lib \in 0 .. Len(LibsOf[t.atr]) /\ t.lib + 1 \in Nat
  BY <1>3, ListFacts
<1>5. next = IF t.lib = Len(LibsOf[t.atr]) THEN last ELSE Pause(t, "load", t.lib + 1, Short)
  BY <1>1, <1>4, NextOne
<1>6. /\ TaskType(last) /\ last.op = t.op /\ last.atr = t.atr /\ last.reader = t.reader
      /\ last.left = Short /\ last.at = "announce" /\ last.lib = 0
  BY <1>1, PauseTypes
<1>7. LET u == Pause(t, "load", t.lib + 1, Short) IN
      /\ TaskType(u) /\ u.op = t.op /\ u.atr = t.atr /\ u.reader = t.reader
      /\ u.left = Short /\ u.at = "load" /\ u.lib = t.lib + 1
  BY <1>1, <1>4, PauseTypes
<1> HIDE DEF last, next, fresh
<1>8. CASE t.lib = Len(LibsOf[t.atr])
  <2>1. next = last
    BY <1>5, <1>8
  <2>2. tasks' = (tasks \ {t}) \cup {last}
    BY <1>2, <2>1
  <2> QED BY <1>2, <1>6, <1>8, <2>2 DEF fresh
<1>9. CASE t.lib # Len(LibsOf[t.atr])
  <2>1. /\ TaskType(next) /\ next.op = t.op /\ next.atr = t.atr /\ next.reader = t.reader
        /\ next.left = Short /\ next.at = "load" /\ next.lib = t.lib + 1
    BY <1>5, <1>7, <1>9
  <2>2. CASE faults' = faults + 1 /\ tasks' = (tasks \ {t}) \cup {next}
    BY <1>2, <1>9, <2>1, <2>2 DEF fresh
  <2>3. CASE /\ cryptos' = cryptos \cup fresh /\ sessions' = sessions \cup fresh
             /\ UNCHANGED <<orphans, faults>>
             /\ tasks' = (tasks \ {t}) \cup {IF fresh = {} THEN next ELSE last}
    <3>1. CASE fresh = {}
      BY <1>2, <1>9, <2>1, <2>3, <3>1 DEF fresh
    <3>2. CASE fresh # {}
      BY <1>2, <1>6, <1>9, <2>3, <3>2 DEF fresh
    <3> QED BY <3>1, <3>2
  <2> QED BY <1>2, <2>2, <2>3
<1> QED BY <1>8, <1>9

\* A step ends its handler, or takes it to its next pause.
LEMMA StepFollows ==
  ASSUME Removable, Unhurried, HandlerTypes, PlaceInv, NEW t \in tasks, Step(t)
  PROVE  /\ UNCHANGED <<libs, inReader, stay, cardOps>>
         /\ \/ tasks' = tasks \ {t}
            \/ \E u : Follows(u, t, 0) /\ tasks' = (tasks \ {t}) \cup {u}
<1>1. TaskType(t) /\ Place(t) /\ t.left = 0
  BY DEF HandlerTypes, PlaceInv, Step
<1>2. CASE ReportCard(t)
  <2>1. PICK u : /\ TaskType(u) /\ u.op = t.op /\ u.atr = t.atr /\ u.reader = t.reader
                 /\ u.at = "load" /\ u.lib = 1 /\ u.left = Short
                 /\ tasks' = (tasks \ {t}) \cup {u}
    BY <1>2, ReportNext
  <2>2. t.at = "report" /\ UNCHANGED <<libs, inReader, stay, cardOps>>
    BY <1>2, ReportNext
  <2>3. Follows(u, t, 0)
    BY <1>1, <2>1, <2>2, PauseFollows
  <2> QED BY <2>1, <2>2, <2>3
<1>3. CASE LoadLibrary(t)
  <2>1. PICK u : /\ TaskType(u) /\ u.op = t.op /\ u.atr = t.atr /\ u.reader = t.reader
                 /\ u.at = "init" /\ u.lib = t.lib /\ u.left = Long
                 /\ tasks' = (tasks \ {t}) \cup {u}
    BY <1>3, LoadNext
  <2>2. t.at = "load" /\ UNCHANGED <<libs, inReader, stay, cardOps>>
    BY <1>3, LoadNext
  <2>3. Follows(u, t, 0)
    BY <1>1, <2>1, <2>2, PauseFollows
  <2> QED BY <2>1, <2>2, <2>3
<1>4. CASE UseLibrary(t)
  <2>1. PICK u : /\ TaskType(u) /\ u.op = t.op /\ u.atr = t.atr /\ u.reader = t.reader
                 /\ u.left = Short /\ tasks' = (tasks \ {t}) \cup {u}
                 /\ \/ u.at = "announce" /\ u.lib = 0
                    \/ u.at = "load" /\ u.lib = t.lib + 1 /\ t.lib # Len(LibsOf[t.atr])
    BY <1>4, UseNext
  <2>2. t.at = "init" /\ UNCHANGED <<libs, inReader, stay, cardOps>>
    BY <1>4, UseNext
  <2>3. Follows(u, t, 0)
    BY <1>1, <2>1, <2>2, PauseFollows
  <2> QED BY <2>1, <2>2, <2>3
<1>5. CASE Announce(t)
  <2>1. UNCHANGED <<libs, inReader, stay, cardOps>>
    BY <1>5 DEF Announce, readerVars
  <2> QED BY <1>5, <2>1, AnnounceFacts
<1>6. CASE SearchLibrary(t)
  <2>1. t.at = "search" /\ UNCHANGED <<libs, inReader, stay, cardOps>> /\ libs = LibsOf
    BY <1>6, SearchFacts DEF PlaceInv
  <2>2. CASE tasks' = tasks \ {t}
    BY <2>1, <2>2
  <2>3. ASSUME t.lib # Len(libs[t.atr]), NEW u, TaskType(u), u.at = "search", u.atr = t.atr,
               u.op = t.op, u.reader = t.reader, u.left = Long, u.lib = t.lib + 1,
               tasks' = (tasks \ {t}) \cup {u}
        PROVE  Follows(u, t, 0)
    BY <1>1, <2>1, <2>3, PauseFollows
  <2> QED BY <1>6, <2>1, <2>2, <2>3, SearchFacts
<1> QED BY <1>2, <1>3, <1>4, <1>5, <1>6 DEF Step

-----------------------------------------------------------------------------
(* one reader, in time: handlers of the card before last and those of now *)

\* An insertion is about the card whose removal searches, or about one before it,
\* and then it is ahead by the time that cards stay.
Behind(s, t) ==
  \/ Age(s) >= Age(t)
  \/ t.atr = s.atr /\ Age(t) >= Age(s) + MinStay
  \/ Age(t) >= Age(s) + MinStay + MinStay

\* It is about the card in the reader, which stays for left units of time at least, or
\* about one before it.
Past(t, card, left) ==
  IF card = NoCard THEN Age(t) >= MinStay
  ELSE \/ t.atr = AtrOf[card] /\ Age(t) + left >= MinStay
       \/ Age(t) + left >= MinStay + MinStay

OrderInv ==
  \A t \in tasks : Inserts(t) =>
    /\ \A s \in tasks : s.at = "search" => Behind(s, t)
    /\ \A r \in Readers : Past(t, inReader[r], stay[r])
    /\ t.op = cardOps =>
         /\ inReader[t.reader] # NoCard /\ t.atr = AtrOf[inReader[t.reader]]
         /\ \A s \in tasks : s.at = "search" => Age(s) >= Age(t)

LEMMA FollowsOrder ==
  ASSUME Removable, Unhurried, NEW n \in {0, 1},
         NEW t, TaskType(t), Place(t), NEW u, Follows(u, t, n), Inserts(u)
  PROVE  /\ Inserts(t) /\ Age(u) = Age(t) + n /\ Age(t) \in Int
         /\ u.op = t.op /\ u.atr = t.atr /\ u.reader = t.reader
         /\ \A s, v : /\ TaskType(s) /\ Place(s) /\ Follows(v, s, n) /\ v.at = "search"
                      => /\ s.at = "search" /\ Age(v) = Age(s) + n /\ Age(s) \in Int
                         /\ Behind(s, t) => Behind(v, u)
<1>1. Inserts(t) /\ Age(u) = Age(t) + n /\ Age(t) \in Int /\ MinStay \in Nat /\ n \in Nat
      /\ u.op = t.op /\ u.atr = t.atr /\ u.reader = t.reader
  BY AgeFacts, Times DEF Follows, Inserts
<1>2. ASSUME NEW s, NEW v, TaskType(s), Place(s), Follows(v, s, n), v.at = "search"
      PROVE  /\ s.at = "search" /\ Age(v) = Age(s) + n /\ Age(s) \in Int
             /\ Behind(s, t) => Behind(v, u)
  <2>1. s.at = "search" /\ Age(v) = Age(s) + n /\ Age(s) \in Int /\ v.atr = s.atr
    BY <1>2, AgeFacts DEF Follows
  <2> QED BY <1>1, <2>1 DEF Behind
<1> QED BY <1>1, <1>2

\* Handlers go on, and the card in the reader with them.
LEMMA SameOrder ==
  ASSUME Removable, Unhurried, HandlerTypes, PlaceInv, OrderInv, NEW n \in {0, 1},
         UNCHANGED <<inReader, cardOps, libs>>,
         \A r \in Readers : stay'[r] \in Nat /\ stay'[r] + n >= stay[r],
         \A u \in tasks' : \E t \in tasks : Follows(u, t, n)
  PROVE  PlaceInv' /\ OrderInv'
<1>1. \A t \in tasks : TaskType(t) /\ Place(t) /\ t.op <= cardOps
  BY DEF HandlerTypes, PlaceInv
<1>2. PlaceInv'
  BY <1>1 DEF Follows, PlaceInv
<1>3. ASSUME NEW u \in tasks', Inserts(u)
      PROVE  /\ \A v \in tasks' : v.at = "search" => Behind(v, u)
             /\ \A r \in Readers : Past(u, inReader[r], stay'[r])
             /\ u.op = cardOps =>
                  /\ inReader[u.reader] # NoCard /\ u.atr = AtrOf[inReader[u.reader]]
                  /\ \A v \in tasks' : v.at = "search" => Age(v) >= Age(u)
  <2>1. PICK t \in tasks : Follows(u, t, n)
    OBVIOUS
  <2>2. /\ Inserts(t) /\ Age(u) = Age(t) + n /\ Age(t) \in Int
        /\ u.op = t.op /\ u.atr = t.atr /\ u.reader = t.reader
    BY <1>1, <1>3, <2>1, FollowsOrder
  <2>3. ASSUME NEW v \in tasks', v.at = "search"
        PROVE  Behind(v, u) /\ (u.op = cardOps => Age(v) >= Age(u))
    <3>1. PICK s \in tasks : Follows(v, s, n)
      OBVIOUS
    <3>2. /\ s.at = "search" /\ Age(v) = Age(s) + n /\ Age(s) \in Int
          /\ Behind(s, t) => Behind(v, u)
      BY <1>1, <1>3, <2>1, <2>3, <3>1, FollowsOrder
    <3>3. Behind(s, t) /\ (t.op = cardOps => Age(s) >= Age(t))
      BY <2>2, <3>2 DEF OrderInv
    <3> QED BY <2>2, <3>2, <3>3
  <2>4. ASSUME NEW r \in Readers
        PROVE  Past(u, inReader[r], stay'[r])
    <3>1. Past(t, inReader[r], stay[r])
      BY <2>2 DEF OrderInv
    <3>2. /\ stay[r] \in Nat /\ stay'[r] \in Nat /\ stay'[r] + n >= stay[r] /\ MinStay \in Nat
          /\ n \in Nat
      BY Times DEF HandlerTypes
    <3> QED BY <2>2, <3>1, <3>2 DEF Past
  <2> QED BY <2>2, <2>3, <2>4 DEF OrderInv
<1> QED BY <1>2, <1>3 DEF OrderInv

LEMMA StepOrder ==
  ASSUME Removable, Unhurried, HandlerTypes, PlaceInv, OrderInv, NEW t \in tasks, Step(t)
  PROVE  PlaceInv' /\ OrderInv'
<1>1. \A v \in tasks : Follows(v, v, 0)
  BY StayFollows DEF HandlerTypes, PlaceInv
<1>2. /\ UNCHANGED <<libs, inReader, stay, cardOps>>
      /\ \A u \in tasks' : \E v \in tasks : Follows(u, v, 0)
  BY <1>1, StepFollows
<1>3. \A r \in Readers : stay'[r] \in Nat /\ stay'[r] + 0 >= stay[r]
  BY <1>2 DEF HandlerTypes
<1> QED BY <1>2, <1>3, SameOrder

LEMMA TickOrder ==
  ASSUME Removable, Unhurried, HandlerTypes, PlaceInv, OrderInv, Tick
  PROVE  PlaceInv' /\ OrderInv'
<1>1. ASSUME NEW u \in tasks'
      PROVE  \E t \in tasks : Follows(u, t, 1)
  <2>1. PICK t \in tasks : /\ TaskType(u) /\ u.left = t.left - 1 /\ t.left # 0
                           /\ u.op = t.op /\ u.at = t.at /\ u.reader = t.reader
                           /\ u.atr = t.atr /\ u.lib = t.lib
    BY TickFacts
  <2>2. TaskType(t) /\ Place(t)
    BY DEF HandlerTypes, PlaceInv
  <2> QED BY <2>1, <2>2, TickFollows
<1>2. UNCHANGED <<inReader, cardOps, libs>>
  BY TickFacts
<1>3. \A r \in Readers : stay'[r] \in Nat /\ stay'[r] + 1 >= stay[r]
  <2> TAKE r \in Readers
  <2>1. stay[r] \in Nat /\ stay'[r] \in Nat /\ (stay[r] # 0 => stay'[r] = stay[r] - 1)
    BY TickFacts DEF HandlerTypes
  <2> QED BY <2>1
<1> QED BY <1>1, <1>2, <1>3, SameOrder

LEMMA NewAge ==
  ASSUME NEW u, TaskType(u), u.left = Long, u.op = cardOps + 1, cardOps \in Nat,
         u.at = "report" \/ (u.at = "search" /\ u.lib = 1 /\ 1 \in DOMAIN LibsOf[u.atr])
  PROVE  Place(u) /\ Age(u) = 0
  BY Times DEF Place, Age

LEMMA EnterOrder ==
  ASSUME Removable, Unhurried, HandlerTypes, PlaceInv, OrderInv,
         NEW r \in Readers, NEW c \in Cards, CardEnters(r, c)
  PROVE  PlaceInv' /\ OrderInv'
<1>1. PICK u : /\ TaskType(u) /\ u.at = "report" /\ u.reader = r /\ u.atr = AtrOf[c]
               /\ u.op = cardOps + 1 /\ u.left = Long /\ tasks' = tasks \cup {u}
  BY EnterFacts
<1>2. /\ inReader[r] = NoCard /\ inReader'[r] = c /\ stay'[r] = MinStay /\ c # NoCard
      /\ libs' = libs /\ cardOps' = cardOps + 1 /\ cardOps \in Nat
      /\ MinStay \in Nat /\ stay[r] \in Nat
  BY EnterFacts, Times, CardAssumption DEF HandlerTypes, PlaceInv
<1>3. \A q \in Readers : q = r
  BY DEF Unhurried
<1>4. Place(u) /\ Age(u) = 0
  BY <1>1, <1>2, NewAge
<1>5. \A t \in tasks : /\ TaskType(t) /\ Place(t) /\ t.op \in Nat /\ t.op <= cardOps
                       /\ Age(t) \in Int /\ (t.at = "search" => Age(t) >= 0)
  BY AgeFacts DEF HandlerTypes, PlaceInv, Place
<1>6. PlaceInv'
  BY <1>1, <1>2, <1>4, <1>5 DEF PlaceInv
<1>7. ASSUME NEW t \in tasks, Inserts(t)
      PROVE  /\ \A s \in tasks' : s.at = "search" => Behind(s, t)
             /\ \A q \in Readers : Past(t, inReader'[q], stay'[q])
             /\ t.op # cardOps'
  <2>1. Past(t, NoCard, stay[r])
    BY <1>2, <1>7 DEF OrderInv
  <2>2. Past(t, c, MinStay)
    BY <1>2, <1>5, <2>1 DEF Past
  <2>3. t.op # cardOps'
    BY <1>2, <1>5
  <2> QED BY <1>1, <1>2, <1>3, <1>7, <2>2, <2>3 DEF OrderInv
<1>8. /\ \A s \in tasks' : s.at = "search" => Behind(s, u) /\ Age(s) >= Age(u)
      /\ \A q \in Readers : Past(u, inReader'[q], stay'[q])
      /\ inReader'[u.reader] # NoCard /\ u.atr = AtrOf[inReader'[u.reader]]
  BY <1>1, <1>2, <1>3, <1>4, <1>5 DEF Behind, Past
<1> QED BY <1>1, <1>6, <1>7, <1>8 DEF OrderInv

LEMMA LeaveOrder ==
  ASSUME Removable, Unhurried, HandlerTypes, ListedInv, PlaceInv, OrderInv,
         NEW r \in Readers, CardLeaves(r)
  PROVE  PlaceInv' /\ OrderInv'
<1>1. /\ inReader[r] \in Cards /\ AtrOf[inReader[r]] \in Atrs /\ stay[r] = 0
      /\ inReader'[r] = NoCard /\ inReader[r] # NoCard
      /\ libs' = libs /\ cardOps' = cardOps + 1 /\ cardOps \in Nat /\ MinStay \in Nat
  <2>1. /\ inReader[r] \in Cards /\ AtrOf[inReader[r]] \in Atrs /\ stay[r] = 0
        /\ inReader' = [inReader EXCEPT ![r] = NoCard]
        /\ libs' = libs /\ cardOps' = cardOps + 1
    BY LeaveFacts
  <2>2. inReader'[r] = NoCard
    BY <2>1 DEF HandlerTypes
  <2> QED BY <2>1, <2>2, Times, CardAssumption DEF PlaceInv
<1>2. PICK v : /\ TaskType(v) /\ v.at = "search" /\ v.atr = AtrOf[inReader[r]] /\ v.lib = 1
               /\ v.op = cardOps + 1 /\ v.left = Long /\ tasks' = tasks \cup {v}
  BY LeaveFacts, LeaveListed
<1>3. \A q \in Readers : q = r
  BY DEF Unhurried
<1>4. Place(v) /\ Age(v) = 0
  BY <1>1, <1>2, NewAge, ListFacts
<1>5. \A t \in tasks : /\ TaskType(t) /\ Place(t) /\ t.op \in Nat /\ t.op <= cardOps
                       /\ Age(t) \in Int
  BY AgeFacts DEF HandlerTypes, PlaceInv, Place
<1>6. PlaceInv'
  BY <1>1, <1>2, <1>4, <1>5 DEF PlaceInv
<1>7. ASSUME NEW t \in tasks, Inserts(t)
      PROVE  /\ \A s \in tasks' : s.at = "search" => Behind(s, t)
             /\ \A q \in Readers : Past(t, inReader'[q], stay'[q])
             /\ t.op # cardOps'
  <2>1. Past(t, inReader[r], 0)
    BY <1>1, <1>7 DEF OrderInv
  <2>2. Behind(v, t) /\ Past(t, NoCard, stay'[r])
    BY <1>1, <1>2, <1>4, <1>5, <2>1 DEF Behind, Past
  <2>3. t.op # cardOps'
    BY <1>1, <1>5
  <2> QED BY <1>1, <1>2, <1>3, <1>7, <2>2, <2>3 DEF OrderInv
<1>8. ~ Inserts(v)
  BY <1>2 DEF Inserts
<1> QED BY <1>2, <1>6, <1>7, <1>8 DEF OrderInv

LEMMA NextOrder ==
  ASSUME Removable, Unhurried, HandlerTypes, ListedInv, PlaceInv, OrderInv, [Next]_vars
  PROVE  PlaceInv' /\ OrderInv'
<1>1. CASE UNCHANGED vars
  BY <1>1 DEF vars, readerVars, PlaceInv, OrderInv
<1> QED BY <1>1, StepOrder, TickOrder, EnterOrder, LeaveOrder DEF Next

-----------------------------------------------------------------------------
(* one reader, in time: what a removal finds *)

\* Providers are of libraries that are listed for their card.
HeldInv == \A q \in cryptos : q \in Providers /\ q.lib \in Range(LibsOf[AtrOf[q.card]])

\* As long as no device failed, no provider did after its sessions were added.
FaultInv == faults \in Nat /\ (faults = 0 => orphans = {})

\* The removal s drops provider q, if it is not renamed meanwhile; and how much longer
\* it searches.
Finds(s, q) ==
  /\ s.at = "search"
  /\ \/ <<q, FALSE>> \in s.found
     \/ \E k \in DOMAIN LibsOf[s.atr] : s.lib <= k /\ LibsOf[s.atr][k] = q.lib

Remaining(s) == IF s.lib = Len(LibsOf[s.atr]) THEN s.left ELSE Long + s.left

\* A provider is renamed, or a removal will find it, or its card is in the reader and
\* it will be announced before the end of any removal.
Unnamed(q) ==
  \/ \E s \in tasks : Finds(s, q)
  \/ /\ q \in sessions /\ inReader[q.reader] = q.card
     /\ \A s \in tasks : s.at = "search" =>
          \E u \in tasks : u.at = "announce" /\ u.left < Remaining(s)

UnnamedInv == faults = 0 => \A q \in cryptos \ renamed : Unnamed(q)

LEMMA FreshHeld ==
  ASSUME Removable, Unhurried, NEW lib, NEW q \in FreshProviders(lib)
  PROVE  /\ q \in Providers /\ q.lib = lib /\ q \notin cryptos
         /\ inReader[q.reader] = q.card /\ AtrOf[q.card] \in Served[lib]
         /\ q.lib \in Range(LibsOf[AtrOf[q.card]])
<1>1. /\ q \in Providers /\ q.lib = lib /\ inReader[q.reader] = q.card
      /\ AtrOf[q.card] \in Served[lib]
      /\ \A p \in cryptos : <<p.lib, p.reader>> # <<lib, q.reader>>
  BY DEF FreshProviders
<1>2. q.lib \in Libs /\ q.card \in Cards /\ NoLib \notin Libs /\ OpenSC = NoLib
  BY <1>1, CardAssumption DEF Providers, Unhurried
<1>3. q.lib \in Range(LibsOf[AtrOf[q.card]]) \cup {OpenSC}
  BY <1>1, <1>2 DEF Removable
<1> QED BY <1>1, <1>2, <1>3

\* A new provider is found by every removal under way that is not going to last
\* until it is announced.
LEMMA UseInTime ==
  ASSUME Removable, Unhurried, HandlerTypes, PlaceInv, OrderInv,
         NEW t \in tasks, t.at = "init", t.left = 0, NEW s \in tasks, s.at = "search",
         NEW q, q.lib = LibsOf[t.atr][t.lib]
  PROVE  Finds(s, q) \/ Short < Remaining(s)
<1>1. /\ Short \in Nat /\ Long \in Nat /\ MinStay \in Nat /\ Short > 0
      /\ Long + Short + Short <= MinStay
  BY Times DEF Unhurried
<1>2. /\ t.lib = 1 \/ t.lib = 2
      /\ Age(t) = Long + (IF t.lib = 1 THEN 0 ELSE Short + Long) + Short + Long
  BY <1>1, AgeFacts DEF HandlerTypes, PlaceInv
<1>3. /\ s.lib = 1 \/ s.lib = 2
      /\ Age(s) = (IF s.lib = 1 THEN Long ELSE Long + Long) - s.left
      /\ s.left \in Nat /\ s.left <= Long
  BY <1>1, AgeFacts DEF HandlerTypes, PlaceInv, Place
<1>4. t.lib \in DOMAIN LibsOf[t.atr]
  BY DEF PlaceInv, Place
<1>5. Behind(s, t)
  BY DEF OrderInv, Inserts
<1>6. ~ (Age(s) >= Age(t))
  BY <1>1, <1>2, <1>3
<1>7. CASE t.atr = s.atr /\ Age(t) >= Age(s) + MinStay
  <2>1. s.lib <= t.lib
    BY <1>1, <1>2, <1>3, <1>7
  <2> QED BY <1>4, <1>7, <2>1 DEF Finds
<1>8. CASE Age(t) >= Age(s) + MinStay + MinStay
  <2>1. s.lib = 1 /\ s.left > Short
    BY <1>1, <1>2, <1>3, <1>8
  <2> QED BY <1>1, <1>3, <2>1 DEF Remaining
<1> QED BY <1>5, <1>6, <1>7, <1>8 DEF Behind

\* Every session is of a library that is initialized, and can be read while its
\* card is in the reader.
LEMMA OneReadable ==
  ASSUME Unhurried, PipelineInv, orphans = {}, NEW q \in Providers, inReader[q.reader] = q.card
  PROVE  Readable(sessions, initialized)
<1> SUFFICES ASSUME NEW p \in sessions
             PROVE  p.lib \in initialized /\ inReader[p.reader] # NoCard
  BY DEF Readable
<1>1. p \in cryptos /\ p \in Providers
  BY DEF PipelineInv, SessionsBacked, ProviderTypes
<1>2. p.lib \in initialized
  BY <1>1, CardAssumption DEF PipelineInv, OtherLibrariesReady, Unhurried, Providers
<1>3. p.reader = q.reader /\ q.card \in Cards
  BY <1>1 DEF Providers, Unhurried
<1> QED BY <1>2, <1>3, CardAssumption

\* Steps that touch neither removals nor announcements.
LEMMA SameUnnamed ==
  ASSUME UnnamedInv, faults' = faults, cryptos' \subseteq cryptos, renamed \subseteq renamed',
         sessions \subseteq sessions', UNCHANGED inReader,
         \A t \in tasks : t.at \in {"search", "announce"} => t \in tasks',
         \A t \in tasks' : t.at = "search" => t \in tasks
  PROVE  UnnamedInv'
<1>1. ASSUME NEW q \in cryptos' \ renamed', faults' = 0
      PROVE  Unnamed(q)'
  <2>1. Unnamed(q)
    BY <1>1 DEF UnnamedInv
  <2>2. CASE \E s \in tasks : Finds(s, q)
    BY <2>2 DEF Finds, Unnamed
  <2>3. CASE /\ q \in sessions /\ inReader[q.reader] = q.card
             /\ \A s \in tasks : s.at = "search" =>
                  \E u \in tasks : u.at = "announce" /\ u.left < Remaining(s)
    BY <2>3 DEF Unnamed
  <2> QED BY <2>1, <2>2, <2>3 DEF Unnamed
<1> QED BY <1>1 DEF UnnamedInv

LEMMA UseUnnamed ==
  ASSUME Removable, Unhurried, HandlerTypes, FaultInv, PlaceInv, OrderInv, UnnamedInv,
         NEW t \in tasks, t.left = 0, UseLibrary(t)
  PROVE  UnnamedInv'
<1> DEFINE fresh == FreshProviders(LibsOf[t.atr][t.lib])
<1>1. t.at = "init" /\ UNCHANGED inReader /\ renamed' = renamed \ fresh
  BY UseNext
<1>2. PICK u : /\ u.left = Short /\ u.at \in {"announce", "load"}
               /\ tasks' = (tasks \ {t}) \cup {u}
               /\ \/ /\ cryptos' = cryptos \cup fresh /\ sessions' = sessions \cup fresh
                     /\ UNCHANGED faults
                     /\ u.at = "load" => fresh = {}
                  \/ faults' = faults + 1
  BY UseNext
<1>3. \A q \in fresh : inReader[q.reader] = q.card /\ q.lib = LibsOf[t.atr][t.lib]
  BY FreshHeld
<1> HIDE DEF fresh
<1>4. ASSUME NEW q \in cryptos' \ renamed', faults' = 0
      PROVE  Unnamed(q)'
  <2>1. /\ faults = 0
        /\ cryptos' = cryptos \cup fresh /\ sessions' = sessions \cup fresh
        /\ u.at = "load" => fresh = {}
    BY <1>2, <1>4 DEF FaultInv
  <2>2. \A s \in tasks : s.at \in {"search", "announce"} => s \in tasks'
    BY <1>1, <1>2
  <2>3. \A s \in tasks' : s.at = "search" => s \in tasks
    BY <1>2
  <2>4. CASE \E s \in tasks : Finds(s, q)
    BY <2>2, <2>4 DEF Finds, Unnamed
  <2>5. CASE q \in fresh /\ ~ \E s \in tasks : Finds(s, q)
    <3>1. u \in tasks' /\ u.at = "announce" /\ u.left = Short
      BY <1>2, <2>1, <2>5
    <3>2. \A s \in tasks : s.at = "search" => Short < Remaining(s)
      BY <1>1, <1>3, <2>5, UseInTime
    <3> QED BY <1>1, <1>3, <2>1, <2>3, <2>5, <3>1, <3>2 DEF Unnamed
  <2>6. CASE q \notin fresh /\ ~ \E s \in tasks : Finds(s, q)
    <3>1. q \in cryptos \ renamed
      BY <1>1, <1>4, <2>1, <2>6
    <3>2. Unnamed(q)
      BY <2>1, <3>1 DEF UnnamedInv
    <3> QED BY <1>1, <2>1, <2>2, <2>3, <2>6, <3>2 DEF Unnamed
  <2> QED BY <2>4, <2>5, <2>6
<1> QED BY <1>4 DEF UnnamedInv

LEMMA AnnounceUnnamed ==
  ASSUME Unhurried, PipelineInv, FaultInv, UnnamedInv, NEW t \in tasks, Announce(t)
  PROVE  UnnamedInv'
<1>1. /\ t.at = "announce" /\ tasks' = tasks \ {t}
      /\ UNCHANGED <<inReader, cryptos, sessions, faults>>
      /\ renamed \subseteq renamed'
      /\ sessions \subseteq renamed' \/ ~ Readable(sessions, initialized)
  BY AnnounceFacts
<1>2. ASSUME NEW q \in cryptos' \ renamed', faults' = 0
      PROVE  Unnamed(q)'
  <2>1. Unnamed(q) /\ orphans = {} /\ q \in Providers
    BY <1>1, <1>2 DEF UnnamedInv, FaultInv, PipelineInv, ProviderTypes
  <2>2. q \in sessions /\ inReader[q.reader] = q.card => FALSE
    BY <1>1, <1>2, <2>1, OneReadable
  <2>3. PICK s \in tasks : Finds(s, q)
    BY <2>1, <2>2 DEF Unnamed
  <2>4. s \in tasks'
    BY <1>1, <2>3 DEF Finds
  <2> QED BY <2>3, <2>4 DEF Unnamed
<1> QED BY <1>2 DEF UnnamedInv

\* A removal finds at its library what it is about to pass.
LEMMA FindsBy ==
  ASSUME Removable, Unhurried, HandlerTypes, PlaceInv,
         NEW t \in tasks, NEW q \in cryptos \ renamed, Finds(t, q)
  PROVE  /\ t.lib = Len(LibsOf[t.atr]) => <<q, FALSE>> \in FoundBy(t)
         /\ \A u : /\ u.at = "search" /\ u.atr = t.atr /\ u.lib = t.lib + 1
                   /\ u.found = FoundBy(t)
                   => Finds(u, q)
<1>1. /\ libs = LibsOf /\ t.at = "search" /\ t.atr \in Atrs
      /\ t.lib \in DOMAIN LibsOf[t.atr]
  BY DEF Finds, PlaceInv, Place, HandlerTypes, TaskType
<1>2. /\ Len(LibsOf[t.atr]) \in Nat /\ DOMAIN LibsOf[t.atr] = 1 .. Len(LibsOf[t.atr])
  BY <1>1, ListFacts
<1>3. \A k \in DOMAIN LibsOf[t.atr] :
        /\ k \in Nat /\ k <= Len(LibsOf[t.atr])
        /\ t.lib <= k => k = t.lib \/ t.lib + 1 <= k
  BY <1>1, <1>2
<1>4. <<q, FALSE>> \in t.found \/ q.lib = LibsOf[t.atr][t.lib] => <<q, FALSE>> \in FoundBy(t)
  <2>1. CASE <<q, FALSE>> \in t.found
    BY <2>1 DEF FoundBy
  <2>2. CASE q.lib = LibsOf[t.atr][t.lib]
    <3>1. <<q, q \in renamed>> \in FoundBy(t)
      BY <1>1, <2>2 DEF FoundBy
    <3>2. (q \in renamed) = FALSE
      OBVIOUS
    <3> QED BY <3>1, <3>2
  <2> QED BY <2>1, <2>2
<1>5. CASE <<q, FALSE>> \in FoundBy(t)
  BY <1>5 DEF Finds
<1>6. CASE <<q, FALSE>> \notin FoundBy(t)
  <2>1. PICK k \in DOMAIN LibsOf[t.atr] : t.lib <= k /\ LibsOf[t.atr][k] = q.lib
    BY <1>4, <1>6 DEF Finds
  <2>2. t.lib + 1 <= k /\ t.lib # Len(LibsOf[t.atr])
    BY <1>1, <1>2, <1>3, <1>4, <1>6, <2>1
  <2> QED BY <2>1, <2>2 DEF Finds
<1> QED BY <1>5, <1>6

LEMMA SearchUnnamed ==
  ASSUME Removable, Unhurried, HandlerTypes, PipelineInv, FaultInv, PlaceInv, UnnamedInv,
         NEW t \in tasks, t.left = 0, SearchLibrary(t)
  PROVE  UnnamedInv'
<1>1. /\ t.at = "search" /\ UNCHANGED <<inReader, libs, faults>> /\ libs = LibsOf
      /\ t.atr \in Atrs /\ t.lib \in DOMAIN LibsOf[t.atr]
  BY SearchFacts DEF PlaceInv, Place, HandlerTypes, TaskType
<1>2. /\ LibsOf[t.atr][t.lib] \in Installed
      /\ t.lib # Len(LibsOf[t.atr]) => t.lib + 1 = Len(LibsOf[t.atr])
  <2>1. /\ Len(LibsOf[t.atr]) = 1 \/ Len(LibsOf[t.atr]) = 2
        /\ t.lib = 1 \/ (t.lib = 2 /\ Len(LibsOf[t.atr]) = 2)
        /\ LibsOf[t.atr][t.lib] \in Installed
    BY <1>1, ListFacts
  <2>2. t.lib # Len(LibsOf[t.atr]) => t.lib = 1 /\ Len(LibsOf[t.atr]) = 2
    BY <2>1
  <2>3. 1 + 1 = 2
    OBVIOUS
  <2> QED BY <2>1, <2>2, <2>3
<1>3. CASE /\ tasks' = tasks \ {t} /\ t.lib = Len(LibsOf[t.atr]) /\ FoundBy(t) = {}
           /\ UNCHANGED <<cryptos, sessions, renamed>>
  <2>1. ASSUME NEW q \in cryptos \ renamed, faults = 0
        PROVE  Unnamed(q)'
    <3>1. Unnamed(q) /\ ~ Finds(t, q)
      BY <1>3, <2>1, FindsBy DEF UnnamedInv
    <3> QED BY <1>1, <1>3, <3>1 DEF Unnamed
  <2> QED BY <1>1, <1>3, <2>1 DEF UnnamedInv
<1>4. ASSUME t.lib # Len(LibsOf[t.atr]),
             NEW u, u.at = "search", u.atr = t.atr, u.lib = t.lib + 1, u.left = Long,
             u.found = FoundBy(t), tasks' = (tasks \ {t}) \cup {u},
             UNCHANGED <<cryptos, sessions, renamed>>
      PROVE  UnnamedInv'
  <2>1. Remaining(u) = Remaining(t)
    <3>1. u.lib = Len(LibsOf[t.atr]) /\ Long \in Nat
      BY <1>2, <1>4, Times
    <3> QED BY <1>4, <3>1 DEF Remaining
  <2>2. ASSUME NEW q \in cryptos \ renamed, faults = 0
        PROVE  Unnamed(q)'
    <3>1. Unnamed(q) /\ (Finds(t, q) => Finds(u, q))
      BY <1>4, <2>2, FindsBy DEF UnnamedInv
    <3>2. CASE \E s \in tasks : Finds(s, q)
      BY <1>4, <3>1, <3>2 DEF Unnamed
    <3>3. CASE /\ q \in sessions /\ inReader[q.reader] = q.card
               /\ \A s \in tasks : s.at = "search" =>
                    \E v \in tasks : v.at = "announce" /\ v.left < Remaining(s)
      <4>1. ASSUME NEW s \in tasks', s.at = "search"
            PROVE  \E v \in tasks' : v.at = "announce" /\ v.left < Remaining(s)
        <5>1. PICK v \in tasks : v.at = "announce" /\ v.left < Remaining(s)
          BY <1>1, <1>4, <2>1, <3>3, <4>1
        <5> QED BY <1>1, <1>4, <5>1
      <4> QED BY <1>1, <1>4, <3>3, <4>1 DEF Unnamed
    <3> QED BY <3>1, <3>2, <3>3 DEF Unnamed
  <2> QED BY <1>1, <1>4, <2>2 DEF UnnamedInv
<1>5. ASSUME tasks' = tasks \ {t}, t.lib = Len(LibsOf[t.atr]),
             NEW init, DropAll(FoundBy(t), init)
      PROVE  UnnamedInv'
  <2>1. cryptos' = cryptos \ Keyed(FoundBy(t)) /\ renamed \subseteq renamed'
    BY <1>5, Zenon DEF DropAll, Drop, EmitUpdate
  <2>2. ASSUME NEW q \in cryptos' \ renamed', faults = 0
        PROVE  Unnamed(q)'
    <3>1. Unnamed(q) /\ q \in cryptos \ renamed
      BY <2>1, <2>2 DEF UnnamedInv
    <3>2. ~ Finds(t, q)
      <4>1. ASSUME <<q, FALSE>> \in FoundBy(t)
            PROVE  q \in Keyed(FoundBy(t))
        <5>1. <<q, FALSE>> \in {x \in FoundBy(t) : ~ x[2]}
          BY <4>1
        <5>2. <<q, FALSE>>[1] = q
          OBVIOUS
        <5> QED BY <5>1, <5>2, Zenon DEF Keyed
      <4> QED BY <1>5, <2>1, <2>2, <3>1, <4>1, FindsBy
    <3>3. ~ \E u \in tasks : u.at = "announce" /\ u.left < Remaining(t)
      BY <1>5 DEF Remaining, HandlerTypes, TaskType
    <3>4. PICK s \in tasks : Finds(s, q)
      BY <1>1, <3>1, <3>3 DEF Unnamed
    <3> QED BY <1>5, <3>2, <3>4 DEF Unnamed
  <2> QED BY <1>1, <2>2 DEF UnnamedInv
<1> QED BY <1>1, <1>2, <1>3, <1>4, <1>5, SearchFacts

LEMMA EnterUnnamed ==
  ASSUME Unhurried, HandlerTypes, PipelineInv, UnnamedInv,
         NEW r \in Readers, NEW c \in Cards, CardEnters(r, c)
  PROVE  UnnamedInv'
<1>1. inReader[r] = NoCard /\ UNCHANGED <<cryptos, sessions, renamed, faults>>
      /\ tasks \subseteq tasks'
  BY EnterFacts
<1>2. ASSUME NEW q \in cryptos \ renamed, faults = 0
      PROVE  Unnamed(q)'
  <2>1. Unnamed(q) /\ q \in Providers
    BY <1>2 DEF UnnamedInv, PipelineInv, ProviderTypes
  <2>2. q.reader = r /\ q.card # NoCard
    BY <2>1, CardAssumption DEF Providers, Unhurried
  <2>3. PICK s \in tasks : Finds(s, q)
    BY <1>1, <2>1, <2>2 DEF Unnamed
  <2> QED BY <1>1, <2>3 DEF Unnamed
<1> QED BY <1>1, <1>2 DEF UnnamedInv

\* The removal of a card will find its providers.
LEMMA LeaveUnnamed ==
  ASSUME Removable, Unhurried, HandlerTypes, ListedInv, HeldInv, UnnamedInv,
         NEW r \in Readers, CardLeaves(r)
  PROVE  UnnamedInv'
<1>1. AtrOf[inReader[r]] \in Atrs /\ UNCHANGED <<cryptos, sessions, renamed, faults>>
  BY LeaveFacts
<1>2. PICK v : /\ v.at = "search" /\ v.atr = AtrOf[inReader[r]] /\ v.lib = 1
               /\ tasks' = tasks \cup {v}
  BY LeaveFacts, LeaveListed
<1>3. ASSUME NEW q \in cryptos \ renamed, faults = 0
      PROVE  Unnamed(q)'
  <2>1. /\ Unnamed(q) /\ q.reader = r
        /\ q.lib \in Range(LibsOf[AtrOf[q.card]])
    BY <1>3 DEF UnnamedInv, HeldInv, Unhurried, Providers
  <2>2. CASE \E s \in tasks : Finds(s, q)
    BY <1>2, <2>2 DEF Unnamed
  <2>3. CASE inReader[q.reader] = q.card
    <3>1. PICK k \in DOMAIN LibsOf[v.atr] : LibsOf[v.atr][k] = q.lib
      BY <1>2, <2>1, <2>3 DEF Range
    <3>2. v.lib <= k
      BY <1>1, <1>2, ListFacts
    <3> QED BY <1>2, <3>1, <3>2 DEF Finds, Unnamed
  <2> QED BY <2>1, <2>2, <2>3 DEF Unnamed
<1> QED BY <1>1, <1>3 DEF UnnamedInv

LEMMA TickUnnamed ==
  ASSUME HandlerTypes, UnnamedInv, Tick
  PROVE  UnnamedInv'
<1>1. UNCHANGED <<inReader, cryptos, sessions, renamed, faults>>
  BY TickFacts
<1>2. ASSUME NEW q \in cryptos \ renamed, faults = 0
      PROVE  Unnamed(q)'
  <2>1. Unnamed(q)
    BY <1>2 DEF UnnamedInv
  <2>2. ASSUME NEW s \in tasks, Finds(s, q)
        PROVE  Unnamed(q)'
    <3>1. PICK v \in tasks' : v.at = s.at /\ v.atr = s.atr /\ v.lib = s.lib /\ v.found = s.found
      BY TickFacts
    <3> QED BY <2>2, <3>1 DEF Finds, Unnamed
  <2>3. ASSUME \A s \in tasks : s.at = "search" =>
                 \E u \in tasks : u.at = "announce" /\ u.left < Remaining(s)
        PROVE  \A v \in tasks' : v.at = "search" =>
                 \E u \in tasks' : u.at = "announce" /\ u.left < Remaining(v)
    <3> SUFFICES ASSUME NEW v \in tasks', v.at = "search"
                 PROVE  \E u \in tasks' : u.at = "announce" /\ u.left < Remaining(v)
      OBVIOUS
    <3>1. PICK s \in tasks : /\ v.left = s.left - 1 /\ s.at = v.at /\ v.atr = s.atr
                             /\ v.lib = s.lib
      BY TickFacts
    <3>2. PICK w \in tasks : w.at = "announce" /\ w.left < Remaining(s)
      BY <2>3, <3>1
    <3>3. PICK u \in tasks' : u.left = w.left - 1 /\ u.at = w.at
      BY TickFacts
    <3>4. s.left \in Nat /\ w.left \in Nat /\ Long \in Nat
      BY Times DEF HandlerTypes, TaskType
    <3>5. u.left < Remaining(v)
      BY <3>1, <3>2, <3>3, <3>4 DEF Remaining
    <3> QED BY <3>2, <3>3, <3>5
  <2> QED BY <1>1, <2>1, <2>2, <2>3 DEF Unnamed
<1> QED BY <1>1, <1>2 DEF UnnamedInv

\* Where providers come from, and that only a fault leaves one of them an orphan.
LEMMA NextHeld ==
  ASSUME Removable, Unhurried, HandlerTypes, PlaceInv, HeldInv, FaultInv, [Next]_vars
  PROVE  HeldInv' /\ FaultInv'
<1>1. CASE UNCHANGED faults /\ orphans' \subseteq orphans /\ cryptos' \subseteq cryptos
  BY <1>1 DEF HeldInv, FaultInv
<1>2. ASSUME NEW t \in tasks, UseLibrary(t)
      PROVE  HeldInv' /\ FaultInv'
  <2> DEFINE lib == LibsOf[t.atr][t.lib]
  <2>1. cryptos' \subseteq cryptos \cup FreshProviders(lib)
    BY <1>2, UseFacts DEF PlaceInv
  <2>2. UNCHANGED <<orphans, faults>> \/ faults' = faults + 1
    BY <1>2, UseNext
  <2>3. \A q \in FreshProviders(lib) : q \in Providers /\ q.lib \in Range(LibsOf[AtrOf[q.card]])
    BY FreshHeld
  <2> HIDE DEF lib
  <2> QED BY <2>1, <2>2, <2>3 DEF HeldInv, FaultInv
<1>3. ASSUME NEW t \in tasks, SearchLibrary(t)
      PROVE  HeldInv' /\ FaultInv'
  <2>1. UNCHANGED faults /\ orphans' \subseteq orphans /\ cryptos' \subseteq cryptos
    BY <1>3, SearchFacts DEF DropAll, Drop
  <2> QED BY <1>1, <2>1
<1>4. ASSUME NEW t \in tasks, ReportCard(t) \/ LoadLibrary(t) \/ Announce(t)
      PROVE  HeldInv' /\ FaultInv'
  <2>1. UNCHANGED <<faults, orphans, cryptos>>
    BY <1>4 DEF ReportCard, LoadLibrary, Announce, providerVars
  <2> QED BY <1>1, <2>1
<1>5. CASE \/ \E r \in Readers : CardLeaves(r) \/ \E c \in Cards : CardEnters(r, c)
           \/ Tick \/ UNCHANGED vars
  <2>1. UNCHANGED <<faults, orphans, cryptos>>
    BY <1>5 DEF CardLeaves, CardEnters, Tick, vars, providerVars
  <2> QED BY <1>1, <2>1
<1> QED BY <1>2, <1>3, <1>4, <1>5 DEF Next, Step

LEMMA NextUnnamed ==
  ASSUME Removable, Unhurried, HandlerTypes, PipelineInv, ListedInv, HeldInv, FaultInv,
         PlaceInv, OrderInv, UnnamedInv, [Next]_vars
  PROVE  UnnamedInv'
<1>1. ASSUME NEW t \in tasks, ReportCard(t) \/ LoadLibrary(t)
      PROVE  UnnamedInv'
  <2>1. /\ t.at \in {"report", "load"}
        /\ UNCHANGED <<faults, cryptos, renamed, sessions, inReader>>
        /\ \E u : u.at \in {"load", "init"} /\ tasks' = (tasks \ {t}) \cup {u}
    BY <1>1, ReportNext, LoadNext
  <2> QED BY <2>1, SameUnnamed
<1>2. CASE UNCHANGED vars
  BY <1>2, SameUnnamed DEF vars, readerVars, providerVars
<1> QED BY <1>1, <1>2, UseUnnamed, AnnounceUnnamed, SearchUnnamed, EnterUnnamed,
     LeaveUnnamed, TickUnnamed DEF Next, Step

-----------------------------------------------------------------------------
(* one reader, in time: the card in the reader *)

Searching == \E s \in tasks : s.at = "search"

\* What NoLostCards asks for a reader.
Offered(r) ==
  \/ \E p \in sessions : p.reader = r /\ p.card = inReader[r]
  \/ \E p \in (cryptos \cap renamed) \ sessions :
       p.reader = r /\ p.lib \in Serving(inReader[r])

\* The insertion of the last card has not tried a library yet, or has one ahead that
\* serves card c.
Starting(t) == t.op = cardOps /\ (t.at = "report" \/ (t.at \in {"load", "init"} /\ t.lib = 1))

Serves(t, c) ==
  /\ t.op = cardOps /\ t.at \in {"load", "init"}
  /\ \E k \in DOMAIN LibsOf[t.atr] : t.lib <= k /\ LibsOf[t.atr][k] \in Serving(c)

\* A card that is served is offered once all removals before it are over, or will be.
OfferInv ==
  faults = 0 =>
    \A r \in Readers : inReader[r] # NoCard /\ Serving(inReader[r]) # {} =>
      \/ \E t \in tasks : Starting(t)
      \/ ~ Searching /\ (Offered(r) \/ \E t \in tasks : Serves(t, inReader[r]))

\* While nothing is being removed, a slot is held for the card that is in the reader,
\* or by a provider that was renamed.
LEMMA HeldOffered ==
  ASSUME Unhurried, FaultInv, HuntInv, UnnamedInv, faults = 0, ~ Searching,
         NEW r \in Readers, NEW q \in cryptos, q.reader = r, q.lib \in Serving(inReader[r])
  PROVE  Offered(r) /\ (q \in sessions \/ q \in renamed)
<1>1. orphans = {} /\ \A s \in tasks : s.at # "search"
  BY DEF FaultInv, Searching
<1>2. CASE q \in sessions
  <2>1. inReader[q.reader] = q.card
    BY <1>1, <1>2 DEF HuntInv, Hunts
  <2> QED BY <1>2, <2>1 DEF Offered
<1>3. CASE q \notin sessions
  <2>1. q \in renamed
    BY <1>1, <1>3 DEF UnnamedInv, Unnamed, Finds
  <2> QED BY <1>3, <2>1 DEF Offered
<1> QED BY <1>2, <1>3

\* What is offered stays so when a library's slots are used.
LEMMA UseKeepsOffered ==
  ASSUME NEW fresh, \A p \in fresh : p \notin cryptos, NEW r \in Readers, Offered(r),
         cryptos' = cryptos \cup fresh, sessions' = sessions \cup fresh,
         renamed' = renamed \ fresh, UNCHANGED inReader
  PROVE  Offered(r)'
  BY DEF Offered

LEMMA NoRemovalsYet ==
  ASSUME Removable, Unhurried, HandlerTypes, PlaceInv, OrderInv,
         NEW t \in tasks, t.at = "init", t.lib = 1, t.left = 0, t.op = cardOps
  PROVE  ~ Searching
<1> SUFFICES ASSUME NEW s \in tasks, s.at = "search" PROVE FALSE
  BY DEF Searching
<1>1. Short \in Nat /\ Long \in Nat /\ Short > 0
  BY Times
<1>2. Age(t) = Long + Short + Long
  BY <1>1, AgeFacts DEF HandlerTypes, PlaceInv
<1>3. Age(s) = (IF s.lib = 1 THEN Long ELSE Long + Long) - s.left /\ s.left \in Nat
  BY AgeFacts DEF HandlerTypes, PlaceInv, Place
<1>4. Age(s) >= Age(t)
  BY DEF OrderInv, Inserts
<1> QED BY <1>1, <1>2, <1>3, <1>4

\* The insertion of the card in the reader comes to a library.
LEMMA UseOffers ==
  ASSUME Removable, Unhurried, HandlerTypes, PlaceInv, OrderInv, FaultInv, HuntInv, UnnamedInv,
         faults = 0, ~ Searching, NEW r \in Readers, inReader[r] # NoCard,
         NEW t \in tasks, UseLibrary(t), Serves(t, inReader[r]),
         NEW u, u.op = t.op, u.atr = t.atr,
         LET fresh == FreshProviders(LibsOf[t.atr][t.lib]) IN
         /\ cryptos' = cryptos \cup fresh /\ sessions' = sessions \cup fresh
         /\ renamed' = renamed \ fresh /\ UNCHANGED <<inReader, cardOps>>
         /\ fresh = {} /\ t.lib # Len(LibsOf[t.atr]) => u.at = "load" /\ u.lib = t.lib + 1
  PROVE  Offered(r)' \/ Serves(u, inReader[r])'
<1> DEFINE c == inReader[r]
           lib == LibsOf[t.atr][t.lib]
           fresh == FreshProviders(lib)
<1>1. t.at = "init" /\ t.op = cardOps /\ t.atr \in Atrs /\ t.lib \in DOMAIN LibsOf[t.atr]
  BY UseNext DEF Serves, PlaceInv, Place, HandlerTypes, TaskType
<1>2. c \in Cards /\ t.atr = AtrOf[c]
  <2>1. inReader[t.reader] # NoCard /\ t.atr = AtrOf[inReader[t.reader]] /\ t.reader \in Readers
    BY <1>1 DEF OrderInv, Inserts, HandlerTypes, TaskType
  <2>2. t.reader = r
    BY <2>1 DEF Unhurried
  <2> QED BY <2>1, <2>2 DEF HandlerTypes
<1>3. \A q \in fresh : /\ q \in Providers /\ q.lib = lib /\ q \notin cryptos
                       /\ inReader[q.reader] = q.card /\ AtrOf[q.card] \in Served[lib]
  BY FreshHeld
<1>4. lib \in Installed /\ lib \in Range(LibsOf[t.atr]) /\ lib \in Libs
  <2>1. lib \in Installed
    BY <1>1, ListFacts
  <2> QED BY <1>1, <2>1, CardAssumption DEF Range
<1>5. CASE lib \in Serving(c)
  <2> DEFINE p == [lib |-> lib, reader |-> r, card |-> c]
  <2>1. p \in Providers /\ p.lib = lib /\ p.reader = r /\ p.card = c
    BY <1>2, <1>4 DEF Providers
  <2> HIDE DEF p
  <2>2. CASE p \in fresh
    <3>1. p \in sessions'
      BY <2>2
    <3> QED BY <2>1, <3>1 DEF Offered
  <2>3. CASE p \notin fresh
    <3>1. AtrOf[c] \in Served[lib]
      BY <1>5 DEF Serving
    <3>2. PICK q \in cryptos : q.lib = lib /\ q.reader = r
      BY <2>1, <2>3, <3>1 DEF FreshProviders
    <3>3. Offered(r)
      BY <1>5, <3>2, HeldOffered
    <3> HIDE DEF fresh, c, lib
    <3>4. /\ cryptos' = cryptos \cup fresh /\ sessions' = sessions \cup fresh
          /\ renamed' = renamed \ fresh /\ UNCHANGED inReader
      BY DEF fresh, lib
    <3>5. \A q2 \in fresh : q2 \notin cryptos
      BY <1>3
    <3> QED BY <3>3, <3>4, <3>5, UseKeepsOffered
  <2> QED BY <2>2, <2>3
<1>6. CASE lib \notin Serving(c)
  <2>1. fresh = {}
    <3> SUFFICES ASSUME NEW q \in fresh PROVE FALSE
      OBVIOUS
    <3>1. q.reader = r
      BY <1>3 DEF Providers, Unhurried
    <3>2. AtrOf[c] \in Served[lib]
      BY <1>3, <3>1
    <3>3. lib \in Serving(c)
      BY <1>2, <1>4, <3>2 DEF Serving
    <3> QED BY <1>6, <3>3
  <2>2. PICK k \in DOMAIN LibsOf[t.atr] : t.lib <= k /\ LibsOf[t.atr][k] \in Serving(c)
    BY DEF Serves
  <2>3. k # t.lib
    BY <1>6, <2>2
  <2>4. DOMAIN LibsOf[t.atr] = 1 .. Len(LibsOf[t.atr]) /\ Len(LibsOf[t.atr]) \in Nat
    BY <1>1, ListFacts
  <2>5. t.lib # Len(LibsOf[t.atr]) /\ t.lib + 1 <= k
    BY <1>1, <2>2, <2>3, <2>4
  <2>6. u.at = "load" /\ u.lib = t.lib + 1
    BY <2>1, <2>5
  <2> HIDE DEF lib, fresh
  <2> QED BY <1>1, <2>2, <2>5, <2>6 DEF Serves
<1> QED BY <1>5, <1>6

LEMMA UseOffer ==
  ASSUME Removable, Unhurried, HandlerTypes, PlaceInv, OrderInv, FaultInv, HuntInv, UnnamedInv,
         OfferInv, NEW t \in tasks, t.left = 0, UseLibrary(t)
  PROVE  OfferInv'
<1> DEFINE fresh == FreshProviders(LibsOf[t.atr][t.lib])
<1>1. t.at = "init" /\ UNCHANGED <<inReader, cardOps>> /\ renamed' = renamed \ fresh
  BY UseNext
<1>2. PICK u : /\ u.op = t.op /\ u.atr = t.atr /\ u.at \in {"announce", "load"}
               /\ u.at = "load" => u.lib = t.lib + 1
               /\ tasks' = (tasks \ {t}) \cup {u}
               /\ \/ /\ cryptos' = cryptos \cup fresh /\ sessions' = sessions \cup fresh
                     /\ UNCHANGED faults
                     /\ u.at = "load" <=> fresh = {} /\ t.lib # Len(LibsOf[t.atr])
                  \/ faults' = faults + 1
  BY UseNext
<1>3. \A q \in fresh : q \notin cryptos
  BY FreshHeld
<1>4. ASSUME faults' = 0, NEW r \in Readers, inReader[r] # NoCard, Serving(inReader[r]) # {}
      PROVE  \/ \E v \in tasks' : Starting(v)'
             \/ ~ Searching' /\ (Offered(r)' \/ \E v \in tasks' : Serves(v, inReader[r])')
  <2>1. /\ faults = 0
        /\ cryptos' = cryptos \cup fresh /\ sessions' = sessions \cup fresh
        /\ fresh = {} /\ t.lib # Len(LibsOf[t.atr]) => u.at = "load" /\ u.lib = t.lib + 1
    BY <1>2, <1>4 DEF FaultInv
  <2>2. ~ Searching => ~ Searching'
    BY <1>2 DEF Searching
  <2>3. ASSUME ~ Searching, Serves(t, inReader[r])
        PROVE  ~ Searching' /\ (Offered(r)' \/ \E v \in tasks' : Serves(v, inReader[r])')
    <3>1. Offered(r)' \/ Serves(u, inReader[r])'
      BY <1>1, <1>2, <1>4, <2>1, <2>3, UseOffers
    <3> QED BY <1>2, <2>2, <2>3, <3>1
  <2> HIDE DEF fresh
  <2>4. CASE \E v \in tasks : v # t /\ Starting(v)
    BY <1>1, <1>2, <2>4 DEF Starting
  <2>5. CASE Starting(t)
    <3>1. t.op = cardOps /\ t.lib = 1
      BY <1>1, <2>5 DEF Starting
    <3>2. ~ Searching
      BY <1>1, <3>1, NoRemovalsYet
    <3>3. t.atr \in Atrs /\ t.reader \in Readers /\ t.atr = AtrOf[inReader[t.reader]]
      BY <1>1, <3>1 DEF OrderInv, Inserts, HandlerTypes, TaskType
    <3>4. t.atr = AtrOf[inReader[r]]
      BY <3>3 DEF Unhurried
    <3>5. PICK l \in Serving(inReader[r]) : l \in Range(LibsOf[t.atr])
      BY <1>4, <3>4 DEF Serving
    <3>6. PICK k \in DOMAIN LibsOf[t.atr] : LibsOf[t.atr][k] = l
      BY <3>5 DEF Range
    <3>7. 1 <= k
      BY <3>3, ListFacts
    <3>8. Serves(t, inReader[r])
      BY <1>1, <3>1, <3>5, <3>6, <3>7 DEF Serves
    <3> QED BY <2>3, <3>2, <3>8
  <2>6. CASE ~ Searching /\ Offered(r)
    BY <1>1, <1>3, <2>1, <2>2, <2>6, UseKeepsOffered
  <2>7. CASE ~ Searching /\ \E v \in tasks : v # t /\ Serves(v, inReader[r])
    BY <1>1, <1>2, <2>2, <2>7 DEF Serves
  <2>8. CASE ~ Searching /\ Serves(t, inReader[r])
    BY <2>3, <2>8
  <2> QED BY <1>4, <2>1, <2>4, <2>5, <2>6, <2>7, <2>8 DEF OfferInv
<1> QED BY <1>1, <1>4 DEF OfferInv

\* Steps after which the same handlers are under way, but for those that are over.
LEMMA SameOffer ==
  ASSUME OfferInv, UNCHANGED <<inReader, cardOps, faults>>,
         ~ Searching =>
           UNCHANGED <<cryptos, sessions>> /\ renamed \subseteq renamed' /\ ~ Searching',
         \A t \in tasks : t.at \in {"report", "load", "init"} => \E u \in tasks' :
           /\ u.op = t.op /\ u.atr = t.atr
           /\ \/ u.at = t.at /\ u.lib = t.lib
              \/ t.at = "report" /\ u.at = "load" /\ u.lib = 1
              \/ t.at = "load" /\ u.at = "init" /\ u.lib = t.lib
  PROVE  OfferInv'
<1>1. ASSUME faults = 0, NEW r \in Readers, inReader[r] # NoCard, Serving(inReader[r]) # {}
      PROVE  \/ \E v \in tasks' : Starting(v)'
             \/ ~ Searching' /\ (Offered(r)' \/ \E v \in tasks' : Serves(v, inReader[r])')
  <2>1. CASE \E t \in tasks : Starting(t)
    BY <2>1 DEF Starting
  <2>2. CASE ~ Searching /\ Offered(r)
    <3>1. /\ UNCHANGED <<cryptos, sessions, inReader>> /\ renamed \subseteq renamed'
          /\ ~ Searching'
      BY <2>2
    <3>2. Offered(r)'
      BY <2>2, <3>1 DEF Offered
    <3> QED BY <3>1, <3>2
  <2>3. CASE ~ Searching /\ \E t \in tasks : Serves(t, inReader[r])
    BY <2>3 DEF Serves
  <2> QED BY <1>1, <2>1, <2>2, <2>3 DEF OfferInv
<1> QED BY <1>1 DEF OfferInv

LEMMA NextOffer ==
  ASSUME Removable, Unhurried, HandlerTypes, PlaceInv, OrderInv, FaultInv, HuntInv, UnnamedInv,
         OfferInv, [Next]_vars
  PROVE  OfferInv'
<1>1. ASSUME NEW t \in tasks, ReportCard(t) \/ LoadLibrary(t)
      PROVE  OfferInv'
  <2>1. UNCHANGED <<inReader, cardOps, faults, cryptos, sessions, renamed>>
    BY <1>1, ReportNext, LoadNext
  <2>2. PICK u : /\ u.op = t.op /\ u.atr = t.atr
                 /\ \/ t.at = "report" /\ u.at = "load" /\ u.lib = 1
                    \/ t.at = "load" /\ u.at = "init" /\ u.lib = t.lib
                 /\ tasks' = (tasks \ {t}) \cup {u}
    BY <1>1, ReportNext, LoadNext
  <2>3. ~ Searching => ~ Searching'
    BY <2>2 DEF Searching
  <2> QED BY <2>1, <2>2, <2>3, SameOffer
<1>2. ASSUME NEW t \in tasks, Announce(t)
      PROVE  OfferInv'
  <2>1. /\ t.at = "announce" /\ tasks' = tasks \ {t} /\ renamed \subseteq renamed'
        /\ UNCHANGED <<inReader, cardOps, faults, cryptos, sessions>>
    BY <1>2, AnnounceFacts
  <2>2. ~ Searching => ~ Searching'
    BY <2>1 DEF Searching
  <2> QED BY <2>1, <2>2, SameOffer
<1>3. ASSUME NEW t \in tasks, SearchLibrary(t)
      PROVE  OfferInv'
  <2>1. /\ t.at = "search" /\ UNCHANGED <<inReader, cardOps, faults>>
        /\ tasks' = tasks \ {t} \/ \E u : tasks' = (tasks \ {t}) \cup {u}
    BY <1>3, SearchFacts
  <2>2. Searching
    BY <2>1 DEF Searching
  <2>3. \A v \in tasks : v.at \in {"report", "load", "init"} => v \in tasks'
    BY <2>1
  <2> QED BY <2>1, <2>2, <2>3, SameOffer
<1>4. ASSUME NEW r \in Readers, NEW c \in Cards, CardEnters(r, c)
      PROVE  OfferInv'
  <2>1. \E u : u.at = "report" /\ u.op = cardOps + 1 /\ tasks' = tasks \cup {u}
    BY <1>4, EnterFacts
  <2>2. cardOps' = cardOps + 1
    BY <1>4, EnterFacts
  <2>3. \E u \in tasks' : Starting(u)'
    BY <2>1, <2>2 DEF Starting
  <2> QED BY <2>3 DEF OfferInv
<1>5. ASSUME NEW r \in Readers, CardLeaves(r)
      PROVE  OfferInv'
  <2>1. inReader' = [inReader EXCEPT ![r] = NoCard]
    BY <1>5, LeaveFacts
  <2>2. \A q \in Readers : inReader'[q] = NoCard
    BY <2>1 DEF HandlerTypes, Unhurried
  <2> QED BY <2>2 DEF OfferInv
<1>6. CASE Tick
  <2>1. UNCHANGED <<inReader, cardOps, faults, cryptos, sessions, renamed>>
    BY <1>6, TickFacts
  <2>2. ~ Searching => ~ Searching'
    BY <1>6, TickFacts DEF Searching
  <2>3. \A t \in tasks : \E u \in tasks' :
          u.op = t.op /\ u.at = t.at /\ u.atr = t.atr /\ u.lib = t.lib
    BY <1>6, TickFacts
  <2> QED BY <2>1, <2>2, <2>3, SameOffer
<1>7. CASE UNCHANGED vars
  <2>1. /\ UNCHANGED <<inReader, cardOps, faults, cryptos, sessions, renamed, tasks>>
        /\ ~ Searching => ~ Searching'
    BY <1>7 DEF vars, readerVars, providerVars, Searching
  <2> QED BY <2>1, SameOffer
<1> QED BY <1>1, <1>2, <1>3, <1>4, <1>5, <1>6, <1>7, UseOffer DEF Next, Step

-----------------------------------------------------------------------------
(* theorems *)

LEMMA AlwaysTyped == Spec => [](HandlerTypes /\ PipelineInv)
<1>1. Init => HandlerTypes /\ PipelineInv
  BY CardAssumption DEF Init, HandlerTypes, PipelineInv, ProviderTypes, SessionsBacked,
     OtherLibrariesReady
<1>2. HandlerTypes /\ PipelineInv /\ [Next]_vars => (HandlerTypes /\ PipelineInv)'
  BY NextTypes, NextPipeline
<1> QED BY <1>1, <1>2, PTL DEF Spec

LEMMA AlwaysSearching ==
  ASSUME OpenSCLast
  PROVE  Spec => [](ListsInv /\ SearchInv)
<1>1. Init => ListsInv /\ SearchInv
  BY CardAssumption DEF Init, ListsInv, SearchInv, OpenSCLast
<1>2. HandlerTypes /\ ListsInv /\ SearchInv /\ [Next]_vars => (ListsInv /\ SearchInv)'
  BY NextLists, NextSearch
<1> QED BY <1>1, <1>2, AlwaysTyped, PTL DEF Spec

\* However many cards are put in and taken out while handlers wait, and whatever
\* devices fail, every session has the provider through which it is dropped, or is
\* one of those whose provider failed.
THEOREM SessionsAreBacked == Spec => []SessionsBacked
<1>1. PipelineInv => SessionsBacked
  BY DEF PipelineInv
<1> QED BY <1>1, AlwaysTyped, PTL

\* However the handlers' steps interleave, no library other than OpenSC's is finalized
\* while one of its providers is in the map: the removal finalizes with the last.
THEOREM OtherLibrariesAreReady == Spec => []OtherLibrariesReady
<1>1. PipelineInv => OtherLibrariesReady
  BY DEF PipelineInv
<1> QED BY <1>1, AlwaysTyped, PTL

\* What was announced last is what there is when the handlers are done, unless a
\* session is left that cannot be read: NothingUnannounced.  Without the option
\* opensc the assumption is void.
THEOREM AllAnnounced ==
  ASSUME OpenSCLast
  PROVE  Spec => []NothingUnannounced
<1>1. Init => AnnounceInv
  BY DEF Init, AnnounceInv
<1>2. HandlerTypes /\ PipelineInv /\ ListsInv /\ SearchInv /\ AnnounceInv /\ [Next]_vars
        => AnnounceInv'
  BY NextAnnounce
<1>3. AnnounceInv => NothingUnannounced
  BY DEF AnnounceInv, NothingUnannounced, Inserting
<1> QED BY <1>1, <1>2, <1>3, AlwaysTyped, AlwaysSearching, PTL DEF Spec

RemovalInv == ListedInv /\ FoundLaterInv /\ HuntInv

LEMMA AlwaysRemoving ==
  ASSUME Removable
  PROVE  Spec => []RemovalInv
<1>1. Init => RemovalInv
  <2> SUFFICES ASSUME Init PROVE RemovalInv
    OBVIOUS
  <2>1. ListedInv
    BY DEF Init, ListedInv, Reports
  <2>2. FoundLaterInv
    BY DEF Init, FoundLaterInv, Removable
  <2>3. HuntInv
    BY DEF Init, HuntInv
  <2> QED BY <2>1, <2>2, <2>3 DEF RemovalInv
<1>2. OpenSCLast
  BY CardAssumption DEF OpenSCLast, Removable, Range
<1>3. HandlerTypes /\ PipelineInv /\ SearchInv /\ RemovalInv /\ [Next]_vars
        => RemovalInv'
  BY NextListed, NextFoundLater, NextHunt DEF RemovalInv
<1> QED BY <1>1, <1>2, <1>3, AlwaysTyped, AlwaysSearching, PTL DEF Spec

\* Where every removal can be noticed, a card that was taken out is not offered any
\* more when all handlers are done, for any number of readers, cards, libraries and
\* handlers, with and without the option opensc: NoStaleSessions.
THEOREM NoneStale ==
  ASSUME Removable
  PROVE  Spec => []NoStaleSessions
<1>1. RemovalInv => NoStaleSessions
  BY DEF RemovalInv, HuntInv, NoStaleSessions
<1> QED BY <1>1, AlwaysRemoving, PTL

InTimeInv == HeldInv /\ FaultInv /\ PlaceInv /\ OrderInv /\ UnnamedInv /\ OfferInv

\* With one reader, and cards that stay until the removal before them is over, every
\* card that a library serves is offered when all handlers are done, or its slot is
\* held by a provider that was renamed: NoLostCards, for any cards, any libraries, at
\* most two to an ATR, and any number of handlers, of cards that follow each other as
\* fast as Unhurried allows.
THEOREM NoneLost ==
  ASSUME Removable, Unhurried
  PROVE  Spec => []NoLostCards
<1>1. Init => InTimeInv
  <2> SUFFICES ASSUME Init PROVE InTimeInv
    OBVIOUS
  <2>1. HeldInv /\ FaultInv /\ PlaceInv
    BY DEF Init, HeldInv, FaultInv, PlaceInv
  <2>2. OrderInv /\ UnnamedInv /\ OfferInv
    BY DEF Init, OrderInv, UnnamedInv, OfferInv
  <2> QED BY <2>1, <2>2 DEF InTimeInv
<1>2. HandlerTypes /\ PipelineInv /\ RemovalInv /\ InTimeInv /\ [Next]_vars => InTimeInv'
  BY NextHeld, NextOrder, NextUnnamed, NextOffer DEF InTimeInv, RemovalInv
<1>3. InTimeInv => NoLostCards
  <2> SUFFICES ASSUME InTimeInv, tasks = {}, faults = 0, NEW r \in Readers,
                      inReader[r] # NoCard, Serving(inReader[r]) # {}
               PROVE  Offered(r)
    BY DEF NoLostCards, Offered
  <2> QED BY DEF InTimeInv, OfferInv
<1> QED BY <1>1, <1>2, <1>3, AlwaysTyped, AlwaysRemoving, PTL DEF Spec
=============================================================================
