------------------------- MODULE HubConnectionProofs -------------------------
(***************************************************************************)
(* Proofs about HubConnection, for any set of identities and any bounds.   *)
(* The inductive invariant is built in layers, each preserved with the     *)
(* help of the ones before it: types; the single reconnection loop; the    *)
(* tray and the session's time; the cards the session ends up with; the    *)
(* cards the hub ends up with.                                             *)
(***************************************************************************)
EXTENDS HubConnection, SequenceTheorems, TLAPS

\* Every removal moves the provider to a fresh array, within the bound.
TypeInv == TypeOK /\ provider <= cardOps + 1

LoopInv ==
  /\ OneLoop
  /\ NeverStranded
  /\ conn = "Disconnecting" => stopped
  /\ ~opened => /\ conn = "Disconnected" /\ ~attempt /\ timers = 0
                /\ sessionTime = 0 /\ ~stopped

\* Away from a connection the session is marked disconnected, so the next
\* start() that gets through recovers it.
RecoveryInv == sessionTime > 0 /\ (attempt \/ timers > 0) => disconnected

\* The array the session will hold once the pending syncs have settled.
CardsInv == ~Ended /\ Announced => arrays[LastArray] = arrays[provider]

\* What the hub will know once it has processed the pending syncs.
HubInv ==
  conn = "Connected" /\ Announced =>
    /\ processed < Len(calls) => calls[Len(calls)].ids = arrays[provider]
    /\ processed = Len(calls) /\ ~syncFailed => hubIds = arrays[provider]

\* The tray is right already, or will be when the session's sync settles.
TrayInv ==
  /\ timers > 0 => tray = "disconnected"
  /\ conn = "Connected" =>
       /\ connectionId = epoch
       /\ ~disconnected
       /\ StartPending \/ tray = "connected"

IInv == TypeInv /\ LoopInv /\ TrayInv /\ RecoveryInv /\ CardsInv /\ HubInv

-----------------------------------------------------------------------------
(* types *)

LEMMA CallTyped ==
  ASSUME NEW arr \in ArrayIds, NEW ids \in SUBSET Identities,
         NEW by \in {"start", "update"}
  PROVE  [arr |-> arr, ids |-> ids, by |-> by] \in Calls
  BY DEF Calls

\* setSessions keeps the queue of calls and session.cards typed.
LEMMA SetSessionsTyped ==
  ASSUME TypeOK, NEW arr \in ArrayIds, NEW ids \in SUBSET Identities,
         NEW by \in {"start", "update"}, SetSessions(arr, ids, by)
  PROVE  /\ calls' \in Seq(Calls)
         /\ cards' \in ArrayIds
         /\ Len(calls) <= Len(calls')
<1>1. CASE conn = "Connected"
  <2>1. calls' = Append(calls, [arr |-> arr, ids |-> ids, by |-> by]) /\ cards' = cards
    BY <1>1 DEF SetSessions
  <2>2. [arr |-> arr, ids |-> ids, by |-> by] \in Calls
    BY CallTyped
  <2>. QED BY <2>1, <2>2, AppendProperties DEF TypeOK
<1>2. CASE conn # "Connected"
  BY <1>2, LenProperties DEF SetSessions, TypeOK
<1>. QED BY <1>1, <1>2

LEMMA LastArrayTyped == ASSUME TypeOK PROVE LastArray \in ArrayIds
<1>1. CASE calls = <<>>
  BY <1>1 DEF LastArray, TypeOK
<1>2. CASE calls # <<>>
  <2>1. calls[Len(calls)] \in Calls
    BY <1>2 DEF TypeOK
  <2>. QED BY <1>2, <2>1 DEF LastArray, Calls
<1>. QED BY <1>1, <1>2

LEMMA StartTyped ==
  ASSUME TypeOK, NEW armed \in Nat, Start(armed)
  PROVE  /\ conn' \in {"Disconnected", "Connecting", "Connected", "Disconnecting"}
         /\ attempt' \in BOOLEAN /\ epoch' \in Nat
         /\ calls' \in Seq(Calls) /\ processed' \in 0 .. Len(calls')
         /\ hubIds' \in SUBSET Identities /\ syncFailed' \in BOOLEAN
         /\ timers' \in Nat /\ connectionId' \in Nat /\ sessionTime' \in Nat
         /\ disconnected' \in BOOLEAN /\ cards' \in ArrayIds
         /\ tray' \in {"none", "connected", "disconnected"}
<1>1. CASE conn = "Disconnected"
  BY <1>1 DEF Start, TypeOK, hubVars, sessionVars
<1>2. CASE conn # "Disconnected"
  <2>1. /\ SetSessions(cards, arrays[cards], "start")
        /\ conn' = conn /\ attempt' = attempt /\ epoch' = epoch
        /\ processed' = processed /\ hubIds' = hubIds /\ syncFailed' = syncFailed
        /\ timers' \in Nat
        /\ EnterSession(IF conn = "Connected" THEN epoch ELSE 0)
        /\ tray' \in {"none", "connected", "disconnected"}
    BY <1>2 DEF Start, TypeOK, linkVars
  <2>2. /\ calls' \in Seq(Calls) /\ cards' \in ArrayIds
        /\ Len(calls) <= Len(calls')
    <3>1. arrays[cards] \in SUBSET Identities /\ cards \in ArrayIds
      BY DEF TypeOK
    <3>. QED BY <2>1, <3>1, SetSessionsTyped
  <2>3. processed' \in 0 .. Len(calls')
    BY <2>1, <2>2, LenProperties DEF TypeOK
  <2>4. connectionId' \in Nat /\ sessionTime' \in Nat /\ disconnected' \in BOOLEAN
    <3>1. connectionId' = IF conn = "Connected" THEN epoch ELSE 0
      BY <2>1 DEF EnterSession
    <3>2. sessionTime' = (IF disconnected THEN sessionTime ELSE sessionTime + 1)
      BY <2>1 DEF EnterSession
    <3>3. disconnected' = FALSE
      BY <2>1 DEF EnterSession
    <3>4. sessionTime' \in Nat
      BY <3>2 DEF TypeOK
    <3>5. connectionId' \in Nat
      BY <3>1 DEF TypeOK
    <3>. QED BY <3>3, <3>4, <3>5
  <2>. QED BY <2>1, <2>2, <2>3, <2>4 DEF TypeOK
<1>. QED BY <1>1, <1>2

LEMMA OnCloseTyped ==
  ASSUME TypeInv, OnClose, faults' \in 0 .. MaxFaults
  PROVE  TypeInv'
<1>1. /\ calls' = <<>> /\ processed' = 0 /\ hubIds' = {} /\ syncFailed' = FALSE
      /\ disconnected' = TRUE /\ cards' = LastArray
      /\ conn' \in {"Disconnected", "Connecting"}
      /\ tray' \in {"connected", "disconnected"}
  BY DEF OnClose, EndOfConnection
<1>2. LastArray \in ArrayIds
  BY LastArrayTyped DEF TypeInv
<1>3. calls' \in Seq(Calls) /\ Len(calls') = 0
  BY <1>1
<1>4. attempt' \in BOOLEAN
  BY DEF OnClose, EndOfConnection
<1>5. UNCHANGED <<epoch, opened, stopped, timers, connectionId, sessionTime,
                  arrays, provider, announcing, unsent, cardOps>>
  BY DEF OnClose, EndOfConnection, cardVars
<1>6. processed' \in 0 .. Len(calls') /\ cards' \in ArrayIds
  BY <1>1, <1>2, <1>3
<1>7. /\ hubIds' \in SUBSET Identities
      /\ syncFailed' \in BOOLEAN /\ disconnected' \in BOOLEAN
      /\ conn' \in {"Disconnected", "Connecting", "Connected", "Disconnecting"}
      /\ tray' \in {"none", "connected", "disconnected"}
  BY <1>1
<1>8. provider' <= cardOps' + 1 /\ calls' \in Seq(Calls)
  BY <1>3, <1>5 DEF TypeInv
<1>. QED BY <1>4, <1>5, <1>6, <1>7, <1>8 DEF TypeInv, TypeOK

LEMMA TypeInit == Init => TypeInv
<1>. SUFFICES ASSUME Init PROVE TypeInv
  OBVIOUS
<1>1. <<>> \in Seq(Calls) /\ Len(<<>>) = 0
  OBVIOUS
<1>2. provider \in ArrayIds /\ cards \in ArrayIds /\ provider <= cardOps + 1
  BY BoundsAssumption DEF Init, ArrayIds
<1>3. arrays \in [ArrayIds -> SUBSET Identities]
  BY DEF Init
<1>. QED BY <1>1, <1>2, <1>3, BoundsAssumption DEF Init, TypeInv, TypeOK

LEMMA TypeStep == TypeInv /\ [Next]_vars => TypeInv'
<1>. SUFFICES ASSUME TypeInv, [Next]_vars PROVE TypeInv'
  OBVIOUS
<1>. USE DEF TypeInv
<1>1. CASE Connect
  <2>1. Start(timers) /\ timers \in Nat
    BY <1>1 DEF Connect, TypeOK
  <2>. QED BY <1>1, <2>1, StartTyped DEF Connect, TypeOK, cardVars
<1>2. CASE Retry
  <2>1. Start(timers - 1) /\ timers - 1 \in Nat
    BY <1>2 DEF Retry, TypeOK
  <2>. QED BY <1>2, <2>1, StartTyped DEF Retry, TypeOK, cardVars
<1>3. CASE DialSucceeds
  <2>1. /\ connectionId' = epoch + 1
        /\ sessionTime' = (IF disconnected THEN sessionTime ELSE sessionTime + 1)
        /\ disconnected' = FALSE
    BY <1>3 DEF DialSucceeds, EnterSession
  <2>2. connectionId' \in Nat /\ sessionTime' \in Nat
    BY <2>1 DEF TypeOK
  <2>3. [arr |-> cards, ids |-> arrays[cards], by |-> "start"] \in Calls
    BY CallTyped DEF TypeOK
  <2>4. /\ calls' \in Seq(Calls) /\ Len(calls') = Len(calls) + 1
    BY <1>3, <2>3, AppendProperties DEF DialSucceeds, TypeOK
  <2>5. processed' \in 0 .. Len(calls')
    BY <1>3, <2>4, LenProperties DEF DialSucceeds, TypeOK
  <2>. QED BY <1>3, <2>1, <2>2, <2>4, <2>5 DEF DialSucceeds, TypeOK, cardVars
<1>4. CASE DialFails
  <2>1. faults' \in 0 .. MaxFaults /\ timers' \in Nat
    BY <1>4, BoundsAssumption DEF DialFails, DialFailsLeaving, TypeOK
  <2>. QED BY <1>4, <2>1 DEF DialFails, DialFailsLeaving, TypeOK, cardVars, hubVars, sessionVars
<1>5. CASE ConnectionLost
  <2>1. faults' \in 0 .. MaxFaults
    BY <1>5, BoundsAssumption DEF ConnectionLost, TypeOK
  <2>. QED BY <1>5, <2>1, OnCloseTyped DEF ConnectionLost
<1>6. CASE StopCompletes
  <2>1. faults' \in 0 .. MaxFaults
    BY <1>6 DEF StopCompletes, TypeOK
  <2>. QED BY <1>6, <2>1, OnCloseTyped DEF StopCompletes
<1>7. CASE Close
  BY <1>7 DEF Close, TypeOK, cardVars, hubVars, sessionVars
<1>8. CASE HubProcesses
  <2>1. /\ calls' = calls /\ processed' = processed + 1 /\ processed < Len(calls)
        /\ syncFailed' \in BOOLEAN
    BY <1>8 DEF HubProcesses
  <2>2. processed' \in 0 .. Len(calls')
    BY <2>1, LenProperties DEF TypeOK
  <2>3. calls[processed + 1] \in Calls
    BY <2>1, ElementOfSeq, LenProperties DEF TypeOK
  <2>4. hubIds' \in SUBSET Identities
    BY <1>8, <2>3 DEF HubProcesses, Calls, TypeOK
  <2>5. faults' \in 0 .. MaxFaults
    BY <1>8, BoundsAssumption DEF HubProcesses, TypeOK
  <2>. QED
    BY <1>8, <2>1, <2>2, <2>4, <2>5
       DEF HubProcesses, TypeOK, linkVars, sessionVars, cardVars
<1>9. CASE SyncSettles
  <2>1. processed > 0 /\ calls' = Tail(calls) /\ processed' = processed - 1
    BY <1>9 DEF SyncSettles
  <2>2. calls # <<>>
    BY <2>1 DEF TypeOK
  <2>3. /\ calls' \in Seq(Calls) /\ Len(calls') = Len(calls) - 1
        /\ Head(calls) \in Calls
    BY <2>1, <2>2, HeadTailProperties DEF TypeOK
  <2>4. processed' \in 0 .. Len(calls')
    BY <2>1, <2>3, LenProperties DEF TypeOK
  <2>5. cards' \in ArrayIds
    BY <1>9, <2>3 DEF SyncSettles, Calls
  <2>6. tray' \in {"none", "connected", "disconnected"}
    BY <1>9 DEF SyncSettles, TypeOK
  <2>. QED
    BY <1>9, <2>3, <2>4, <2>5, <2>6
       DEF SyncSettles, TypeOK, linkVars, sessionVars, cardVars
<1>10. CASE CardInserted
  <2>1. cardOps' \in 0 .. MaxCardOps /\ cardOps' = cardOps + 1 /\ announcing' \in Nat
    BY <1>10, BoundsAssumption DEF CardInserted, TypeOK
  <2>2. arrays' \in [ArrayIds -> SUBSET Identities]
    BY <1>10 DEF CardInserted, TypeOK
  <2>3. provider' <= cardOps' + 1
    BY <1>10, <2>1 DEF CardInserted, TypeOK, ArrayIds
  <2>. QED
    BY <1>10, <2>1, <2>2, <2>3 DEF CardInserted, TypeOK, linkVars, hubVars, sessionVars
<1>11. CASE UpdateToken
  <2>1. SetSessions(provider, arrays[provider], "update")
    BY <1>11 DEF UpdateToken
  <2>2. provider \in ArrayIds /\ arrays[provider] \in SUBSET Identities
    BY DEF TypeOK
  <2>3. /\ calls' \in Seq(Calls) /\ cards' \in ArrayIds
        /\ Len(calls) <= Len(calls')
    BY <2>1, <2>2, SetSessionsTyped
  <2>4. processed' \in 0 .. Len(calls')
    BY <1>11, <2>3, LenProperties DEF UpdateToken, TypeOK
  <2>5. announcing' \in Nat
    BY <1>11 DEF UpdateToken, TypeOK
  <2>. QED
    BY <1>11, <2>3, <2>4, <2>5 DEF UpdateToken, TypeOK, linkVars, sessionVars
<1>12. CASE CardRemoved
  <2>1. /\ cardOps' \in 0 .. MaxCardOps /\ cardOps' = cardOps + 1
        /\ provider' = provider + 1
    BY <1>12, BoundsAssumption DEF CardRemoved, SessionsDropped, TypeOK
  <2>2. provider' \in ArrayIds /\ provider' <= cardOps' + 1
    BY <1>12, <2>1, BoundsAssumption DEF CardRemoved, SessionsDropped, TypeOK, ArrayIds
  <2>3. PICK left \in SUBSET Identities :
          /\ arrays' = [arrays EXCEPT ![provider + 1] = left]
          /\ SetSessions(provider + 1, left, "update")
    BY <1>12 DEF CardRemoved, SessionsDropped
  <2>4. left \in SUBSET Identities
    BY DEF TypeOK
  <2>5. arrays' \in [ArrayIds -> SUBSET Identities]
    BY <2>3, <2>4 DEF TypeOK
  <2>6. /\ calls' \in Seq(Calls) /\ cards' \in ArrayIds
        /\ Len(calls) <= Len(calls')
    BY <2>1, <2>2, <2>3, <2>4, SetSessionsTyped
  <2>7. processed' \in 0 .. Len(calls')
    BY <1>12, <2>6, LenProperties DEF CardRemoved, SessionsDropped, TypeOK
  <2>. QED
    BY <1>12, <2>1, <2>2, <2>5, <2>6, <2>7
       DEF CardRemoved, SessionsDropped, TypeOK, linkVars, sessionVars
<1>13. CASE UpdateTokenFails
  <2>1. faults' \in 0 .. MaxFaults /\ announcing' \in Nat /\ unsent' \in BOOLEAN
    BY <1>13, BoundsAssumption DEF UpdateTokenFails, EmitFails, TypeOK
  <2>. QED
    BY <1>13, <2>1 DEF UpdateTokenFails, TypeOK, linkVars, hubVars, sessionVars
<1>14. CASE CardRemovedQuietly
  <2>1. PICK left \in SUBSET Identities : SessionsDropped(left)
    BY <1>14 DEF CardRemovedQuietly
  <2>2. faults' \in 0 .. MaxFaults /\ unsent' \in BOOLEAN
    BY <1>14, BoundsAssumption DEF CardRemovedQuietly, EmitFails, TypeOK
  <2>3. /\ cardOps' \in 0 .. MaxCardOps /\ provider' \in ArrayIds
        /\ provider' <= cardOps' + 1
        /\ arrays' \in [ArrayIds -> SUBSET Identities]
    BY <2>1, BoundsAssumption DEF SessionsDropped, TypeOK, ArrayIds
  <2>4. opened' = opened
    BY <1>14 DEF CardRemovedQuietly
  <2>. QED
    BY <1>14, <2>2, <2>3, <2>4
       DEF CardRemovedQuietly, TypeOK, linkVars, hubVars, sessionVars
<1>15. CASE UNCHANGED vars
  BY <1>15 DEF vars, linkVars, hubVars, sessionVars, cardVars, TypeOK
<1>. QED
  BY <1>1, <1>2, <1>3, <1>4, <1>5, <1>6, <1>7, <1>8, <1>9, <1>10, <1>11, <1>12,
     <1>13, <1>14, <1>15
     DEF Next

\* Type correctness of the hub client.
THEOREM TypeCorrect == Spec => []TypeOK
<1>1. TypeInv => TypeOK
  BY DEF TypeInv
<1>. QED BY <1>1, TypeInit, TypeStep, PTL DEF Spec

-----------------------------------------------------------------------------
(* an update-token that fails *)

\* An announcement that is not sent disturbs nothing but the provider's cards.
LEMMA FailedAnnouncement ==
  UpdateTokenFails \/ CardRemovedQuietly
    => /\ unsent' = TRUE
       /\ conn' = conn /\ attempt' = attempt /\ epoch' = epoch
       /\ calls' = calls /\ processed' = processed
       /\ hubIds' = hubIds /\ syncFailed' = syncFailed
       /\ opened' = opened /\ stopped' = stopped /\ timers' = timers
       /\ connectionId' = connectionId /\ sessionTime' = sessionTime
       /\ disconnected' = disconnected
       /\ cards' = cards /\ tray' = tray
  BY DEF UpdateTokenFails, CardRemovedQuietly, EmitFails, linkVars, hubVars, sessionVars

-----------------------------------------------------------------------------
(* the reconnection loop *)

\* start() is only ever called on a closed link with nothing under way: the
\* branch of start() that falls through without dialing is never taken.
LEMMA StartDials ==
  ASSUME TypeInv, LoopInv, Connect \/ Retry
  PROVE  /\ conn = "Disconnected" /\ ~attempt /\ calls = <<>>
         /\ conn' = "Connecting" /\ attempt' = TRUE
         /\ timers' = 0
         /\ opened' = TRUE
         /\ UNCHANGED <<epoch, calls, processed, hubIds, syncFailed, stopped,
                        connectionId, sessionTime, disconnected, cards, tray,
                        arrays, provider, announcing, unsent, cardOps>>
<1>1. conn = "Disconnected" /\ ~attempt
  BY DEF Connect, Retry, LoopInv, OneLoop
<1>2. calls = <<>>
  BY <1>1 DEF LoopInv, OneLoop
<1>3. CASE Connect
  <2>1. timers = 0
    BY <1>3 DEF Connect, LoopInv
  <2>. QED
    BY <1>1, <1>2, <1>3, <2>1 DEF Connect, Start, hubVars, sessionVars, cardVars
<1>4. CASE Retry
  <2>1. timers = 1
    BY <1>4 DEF Retry, LoopInv, OneLoop
  <2>2. opened
    BY <2>1 DEF LoopInv
  <2>3. opened' = TRUE
    BY <1>4, <2>2 DEF Retry, TypeInv, TypeOK
  <2>. QED
    BY <1>1, <1>2, <1>4, <2>1, <2>3 DEF Retry, Start, hubVars, sessionVars, cardVars
<1>. QED BY <1>3, <1>4

\* setSessions only queues a call on a live connection.
LEMMA SetSessionsQueues ==
  ASSUME NEW arr, NEW ids, NEW by, SetSessions(arr, ids, by), conn # "Connected"
  PROVE  calls' = calls /\ cards' = arr
  BY DEF SetSessions

LEMMA LoopInit == Init => LoopInv
  BY DEF Init, LoopInv, OneLoop, NeverStranded

LEMMA LoopStep == TypeInv /\ LoopInv /\ [Next]_vars => LoopInv'
<1>. SUFFICES ASSUME TypeInv, LoopInv, [Next]_vars PROVE LoopInv'
  OBVIOUS
<1>1. CASE Connect \/ Retry
  <2>1. /\ conn' = "Connecting" /\ attempt' = TRUE /\ timers' = 0
        /\ opened' = TRUE /\ calls' = <<>>
    BY <1>1, StartDials
  <2>. QED BY <2>1 DEF LoopInv, OneLoop, NeverStranded
<1>2. CASE DialSucceeds
  <2>1. timers = 0 /\ opened
    BY <1>2 DEF DialSucceeds, LoopInv, OneLoop, TypeInv, TypeOK
  <2>2. /\ conn' = "Connected" /\ attempt' = FALSE /\ timers' = timers
        /\ opened' = opened /\ stopped' = stopped
    BY <1>2 DEF DialSucceeds
  <2>. QED BY <2>1, <2>2 DEF LoopInv, OneLoop, NeverStranded
<1>3. CASE DialFails
  <2>1. timers = 0 /\ opened /\ calls = <<>>
    BY <1>3 DEF DialFails, DialFailsLeaving, LoopInv, OneLoop, TypeInv, TypeOK
  <2>2. /\ conn' = "Disconnected" /\ attempt' = FALSE /\ timers' = timers + 1
        /\ opened' = opened /\ calls' = calls
    BY <1>3 DEF DialFails, DialFailsLeaving, hubVars
  <2>. QED BY <2>1, <2>2 DEF LoopInv, OneLoop, NeverStranded
<1>4. CASE ConnectionLost \/ StopCompletes
  <2>1. OnClose /\ ~attempt /\ timers = 0 /\ opened
    BY <1>4 DEF ConnectionLost, StopCompletes, LoopInv, OneLoop, TypeInv, TypeOK
  <2>2. conn = "Disconnecting" => stopped
    BY DEF LoopInv
  <2>3. /\ timers' = 0 /\ opened' = opened /\ stopped' = stopped
        /\ calls' = <<>>
    BY <2>1 DEF OnClose, EndOfConnection
  <2>4. /\ stopped => conn' = "Disconnected" /\ ~attempt'
        /\ ~stopped => conn' = "Connecting" /\ attempt'
    BY <2>1 DEF OnClose, EndOfConnection
  <2>. QED BY <2>1, <2>3, <2>4 DEF LoopInv, OneLoop, NeverStranded
<1>5. CASE Close
  <2>1. /\ opened' = opened /\ opened /\ stopped' = TRUE /\ attempt' = attempt
        /\ timers' = timers /\ calls' = calls
    BY <1>5 DEF Close, hubVars
  <2>2. conn' = IF conn = "Disconnected" THEN conn ELSE "Disconnecting"
    BY <1>5 DEF Close
  <2>. QED BY <2>1, <2>2 DEF LoopInv, OneLoop, NeverStranded
<1>6. CASE HubProcesses \/ CardInserted
  <2>1. UNCHANGED <<conn, attempt, calls, opened, stopped, timers, sessionTime>>
    BY <1>6 DEF HubProcesses, CardInserted, linkVars, hubVars, sessionVars
  <2>. QED BY <2>1 DEF LoopInv, OneLoop, NeverStranded
<1>7. CASE SyncSettles
  <2>1. UNCHANGED <<conn, attempt, opened, stopped, timers, sessionTime>>
    BY <1>7 DEF SyncSettles, linkVars, sessionVars
  <2>2. calls # <<>>
    BY <1>7 DEF SyncSettles, TypeInv, TypeOK
  <2>. QED BY <2>1, <2>2 DEF LoopInv, OneLoop, NeverStranded
<1>8. CASE UpdateToken \/ CardRemoved
  <2>1. UNCHANGED <<conn, attempt, opened, stopped, timers, sessionTime>>
    BY <1>8 DEF UpdateToken, CardRemoved, SessionsDropped, linkVars, sessionVars
  <2>2. conn # "Connected" => calls' = calls
    BY <1>8, SetSessionsQueues DEF UpdateToken, CardRemoved, SessionsDropped
  <2>3. attempt => conn # "Connected"
    BY DEF LoopInv, OneLoop
  <2>. QED BY <2>1, <2>2, <2>3 DEF LoopInv, OneLoop, NeverStranded
<1>9. CASE UNCHANGED vars
  BY <1>9 DEF vars, linkVars, hubVars, sessionVars, LoopInv, OneLoop, NeverStranded
<1>10. CASE UpdateTokenFails \/ CardRemovedQuietly
  BY <1>10, FailedAnnouncement DEF LoopInv, OneLoop, NeverStranded
<1>. QED
  BY <1>1, <1>2, <1>3, <1>4, <1>5, <1>6, <1>7, <1>8, <1>9, <1>10 DEF Next

\* There is never more than one reconnection loop.
THEOREM SingleLoop == Spec => []OneLoop
<1>1. LoopInv => OneLoop
  BY DEF LoopInv
<1>. QED BY <1>1, TypeInit, TypeStep, LoopInit, LoopStep, PTL DEF Spec

\* The client is never left with nothing that would connect it again.
THEOREM AlwaysReconnects == Spec => []NeverStranded
<1>1. LoopInv => NeverStranded
  BY DEF LoopInv
<1>. QED BY <1>1, TypeInit, TypeStep, LoopInit, LoopStep, PTL DEF Spec

-----------------------------------------------------------------------------
(* the tray and the session's time *)

LEMMA StartPendingAfterAppend ==
  ASSUME TypeInv, NEW c \in Calls, calls' = Append(calls, c),
         StartPending \/ c.by = "start"
  PROVE  StartPending'
<1>1. /\ calls' \in Seq(Calls) /\ Len(calls') = Len(calls) + 1
      /\ \A i \in 1 .. Len(calls) : calls'[i] = calls[i]
      /\ calls'[Len(calls) + 1] = c
  BY AppendProperties DEF TypeInv, TypeOK
<1>2. DOMAIN calls' = 1 .. Len(calls) + 1 /\ DOMAIN calls = 1 .. Len(calls)
  BY <1>1, LenProperties DEF TypeInv, TypeOK
<1>3. CASE StartPending
  <2>1. PICK i \in DOMAIN calls : calls[i].by = "start"
    BY <1>3 DEF StartPending
  <2>2. i \in DOMAIN calls' /\ calls'[i].by = "start"
    BY <1>1, <1>2, <2>1, LenProperties DEF TypeInv, TypeOK
  <2>. QED BY <2>2 DEF StartPending
<1>4. CASE c.by = "start"
  <2>1. Len(calls) + 1 \in DOMAIN calls'
    BY <1>2, LenProperties DEF TypeInv, TypeOK
  <2>. QED BY <1>1, <1>4, <2>1 DEF StartPending
<1>. QED BY <1>3, <1>4

LEMMA StartPendingAfterTail ==
  ASSUME TypeInv, calls # <<>>, calls' = Tail(calls), StartPending,
         Head(calls).by # "start"
  PROVE  StartPending'
<1>1. /\ calls \in Seq(Calls) /\ calls' \in Seq(Calls)
      /\ Len(calls') = Len(calls) - 1 /\ Head(calls) = calls[1]
      /\ \A i \in 1 .. Len(Tail(calls)) : Tail(calls)[i] = calls[i + 1]
  BY HeadTailProperties DEF TypeInv, TypeOK
<1>2. /\ DOMAIN calls' = 1 .. Len(calls) - 1 /\ DOMAIN calls = 1 .. Len(calls)
      /\ Len(calls) \in Nat
  BY <1>1, LenProperties
<1>3. PICK i \in DOMAIN calls : calls[i].by = "start"
  BY DEF StartPending
<1>4. i # 1
  BY <1>1, <1>3
<1>5. i - 1 \in DOMAIN calls' /\ calls'[i - 1] = calls[i]
  BY <1>1, <1>2, <1>3, <1>4
<1>. QED BY <1>3, <1>5 DEF StartPending

LEMMA TrayInit == Init => TrayInv
  BY DEF Init, TrayInv

LEMMA TrayStep == TypeInv /\ LoopInv /\ TrayInv /\ [Next]_vars => TrayInv'
<1>. SUFFICES ASSUME TypeInv, LoopInv, TrayInv, [Next]_vars PROVE TrayInv'
  OBVIOUS
<1>1. CASE Connect \/ Retry
  <2>1. conn' = "Connecting" /\ timers' = 0
    BY <1>1, StartDials
  <2>. QED BY <2>1 DEF TrayInv
<1>2. CASE DialSucceeds
  <2>1. timers' = 0 /\ conn' = "Connected"
    BY <1>2 DEF DialSucceeds, LoopInv, OneLoop, TypeInv, TypeOK
  <2>2. connectionId' = epoch' /\ ~disconnected'
    BY <1>2 DEF DialSucceeds, EnterSession
  <2>3. [arr |-> cards, ids |-> arrays[cards], by |-> "start"] \in Calls
    BY CallTyped DEF TypeInv, TypeOK
  <2>4. StartPending'
    BY <1>2, <2>3, StartPendingAfterAppend DEF DialSucceeds
  <2>. QED BY <2>1, <2>2, <2>4 DEF TrayInv
<1>3. CASE DialFails
  BY <1>3 DEF DialFails, DialFailsLeaving, TrayInv
<1>4. CASE ConnectionLost \/ StopCompletes
  <2>1. OnClose /\ timers = 0
    BY <1>4 DEF ConnectionLost, StopCompletes, LoopInv, OneLoop, TypeInv, TypeOK
  <2>2. timers' = 0 /\ conn' # "Connected"
    BY <2>1 DEF OnClose, EndOfConnection
  <2>. QED BY <2>2 DEF TrayInv
<1>5. CASE Close
  <2>1. conn' # "Connected" /\ timers' = timers /\ tray' = tray
    BY <1>5 DEF Close
  <2>. QED BY <2>1 DEF TrayInv
<1>6. CASE HubProcesses \/ CardInserted
  <2>1. UNCHANGED <<conn, timers, tray, connectionId, epoch, disconnected, calls>>
    BY <1>6 DEF HubProcesses, CardInserted, linkVars, hubVars, sessionVars
  <2>. QED BY <2>1 DEF TrayInv, StartPending
<1>7. CASE SyncSettles
  <2>1. /\ UNCHANGED <<conn, timers, connectionId, epoch, disconnected>>
        /\ calls' = Tail(calls)
        /\ tray' = IF Head(calls).by = "start" THEN "connected" ELSE tray
    BY <1>7 DEF SyncSettles, linkVars, sessionVars
  <2>2. calls # <<>>
    BY <1>7 DEF SyncSettles, TypeInv, TypeOK
  <2>3. timers = 0
    BY <2>2 DEF LoopInv, OneLoop, TypeInv, TypeOK
  <2>4. conn' = "Connected" => StartPending' \/ tray' = "connected"
    BY <2>1, <2>2, StartPendingAfterTail DEF TrayInv
  <2>. QED BY <2>1, <2>3, <2>4 DEF TrayInv
<1>8. CASE UpdateToken \/ CardRemoved
  <2>1. UNCHANGED <<conn, timers, tray, connectionId, epoch, disconnected>>
    BY <1>8 DEF UpdateToken, CardRemoved, SessionsDropped, linkVars, sessionVars
  <2>2. ASSUME conn = "Connected" PROVE \E c \in Calls : calls' = Append(calls, c)
    <3>1. CASE UpdateToken
      <4>1. [arr |-> provider, ids |-> arrays[provider], by |-> "update"] \in Calls
        BY CallTyped DEF TypeInv, TypeOK
      <4>. QED BY <2>2, <3>1, <4>1 DEF UpdateToken, SetSessions
    <3>2. CASE CardRemoved
      <4>1. PICK left \in SUBSET Identities :
              SetSessions(provider + 1, left, "update")
        BY <3>2 DEF CardRemoved, SessionsDropped
      <4>2. provider + 1 \in ArrayIds
        BY <3>2, BoundsAssumption DEF CardRemoved, SessionsDropped, TypeInv, TypeOK, ArrayIds
      <4>3. [arr |-> provider + 1, ids |-> left,
             by |-> "update"] \in Calls
        BY <4>2, CallTyped DEF TypeInv, TypeOK
      <4>. QED BY <2>2, <4>1, <4>3 DEF SetSessions
    <3>. QED BY <1>8, <3>1, <3>2
  <2>3. ASSUME conn = "Connected", StartPending PROVE StartPending'
    BY <2>2, <2>3, StartPendingAfterAppend
  <2>. QED BY <2>1, <2>3 DEF TrayInv
<1>9. CASE UNCHANGED vars
  BY <1>9 DEF vars, linkVars, hubVars, sessionVars, TrayInv, StartPending
<1>10. CASE UpdateTokenFails \/ CardRemovedQuietly
  BY <1>10, FailedAnnouncement DEF TrayInv, StartPending
<1>. QED
  BY <1>1, <1>2, <1>3, <1>4, <1>5, <1>6, <1>7, <1>8, <1>9, <1>10 DEF Next

\* The tray shows the truth whenever the loop is at rest.
THEOREM TrayTellsTruth == Spec => []TraySettled
<1>1. TrayInv => TraySettled
  BY DEF TrayInv, TraySettled
<1>. QED
  BY <1>1, TypeInit, TypeStep, LoopInit, LoopStep, TrayInit, TrayStep, PTL DEF Spec

LEMMA RecoveryInit == Init => RecoveryInv
  BY DEF Init, RecoveryInv

LEMMA RecoveryStep ==
  TypeInv /\ LoopInv /\ TrayInv /\ RecoveryInv /\ [Next]_vars
    => RecoveryInv' /\ (sessionTime > 0 => sessionTime' = sessionTime)
<1>. SUFFICES ASSUME TypeInv, LoopInv, TrayInv, RecoveryInv, [Next]_vars
              PROVE  RecoveryInv' /\ (sessionTime > 0 => sessionTime' = sessionTime)
  OBVIOUS
<1>1. CASE Connect
  <2>1. sessionTime' = 0 /\ sessionTime = 0
    BY <1>1, StartDials DEF Connect, LoopInv
  <2>. QED BY <2>1 DEF RecoveryInv
<1>2. CASE Retry
  <2>1. sessionTime' = sessionTime /\ disconnected' = disconnected /\ timers > 0
    BY <1>2, StartDials DEF Retry
  <2>. QED BY <2>1 DEF RecoveryInv
<1>3. CASE DialSucceeds
  <2>1. timers' = 0 /\ attempt' = FALSE /\ attempt
    BY <1>3 DEF DialSucceeds, LoopInv, OneLoop, TypeInv, TypeOK
  <2>2. sessionTime > 0 => disconnected
    BY <2>1 DEF RecoveryInv
  <2>3. sessionTime > 0 => sessionTime' = sessionTime
    BY <1>3, <2>2 DEF DialSucceeds, EnterSession
  <2>. QED BY <2>1, <2>3 DEF RecoveryInv
<1>4. CASE DialFails
  <2>1. sessionTime' = sessionTime /\ disconnected' = disconnected /\ attempt
    BY <1>4 DEF DialFails, DialFailsLeaving, sessionVars
  <2>. QED BY <2>1 DEF RecoveryInv
<1>5. CASE ConnectionLost \/ StopCompletes
  <2>1. disconnected' = TRUE /\ sessionTime' = sessionTime
    BY <1>5 DEF ConnectionLost, StopCompletes, OnClose, EndOfConnection
  <2>. QED BY <2>1 DEF RecoveryInv
<1>6. CASE \/ Close \/ HubProcesses \/ SyncSettles \/ CardInserted
           \/ UpdateToken \/ CardRemoved \/ UNCHANGED vars
  <2>1. UNCHANGED <<sessionTime, disconnected, attempt, timers>>
    BY <1>6 DEF Close, HubProcesses, SyncSettles, CardInserted, UpdateToken,
                CardRemoved, SessionsDropped, vars, linkVars, sessionVars
  <2>. QED BY <2>1 DEF RecoveryInv
<1>7. CASE UpdateTokenFails \/ CardRemovedQuietly
  BY <1>7, FailedAnnouncement DEF RecoveryInv
<1>. QED BY <1>1, <1>2, <1>3, <1>4, <1>5, <1>6, <1>7 DEF Next

\* An established session keeps its time over every recovery.
THEOREM SessionTimeKept == Spec => RecoveryKeepsSessionTime
<1>1. TypeInv /\ LoopInv /\ TrayInv /\ RecoveryInv /\ [Next]_vars
        => [sessionTime > 0 => sessionTime' = sessionTime]_sessionTime
  BY RecoveryStep
<1>. QED
  BY <1>1, TypeInit, TypeStep, LoopInit, LoopStep, TrayInit, TrayStep,
     RecoveryInit, RecoveryStep, PTL DEF Spec, RecoveryKeepsSessionTime

-----------------------------------------------------------------------------
(* the cards of the session *)

LEMMA LastOfAppend ==
  ASSUME TypeInv, NEW c \in Calls, calls' = Append(calls, c)
  PROVE  /\ calls' # <<>> /\ Len(calls') = Len(calls) + 1
         /\ calls'[Len(calls')] = c
         /\ LastArray' = c.arr
<1>1. /\ Len(calls') = Len(calls) + 1 /\ calls'[Len(calls) + 1] = c
      /\ Len(calls) \in Nat /\ calls' \in Seq(Calls)
  BY AppendProperties, LenProperties DEF TypeInv, TypeOK
<1>2. calls' # <<>>
  BY <1>1
<1>. QED BY <1>1, <1>2 DEF LastArray

\* A settled call leaves its array to session.cards, so what the session ends
\* up with does not change.
LEMMA LastOfTail ==
  ASSUME TypeInv, calls # <<>>, calls' = Tail(calls), cards' = Head(calls).arr
  PROVE  /\ LastArray' = LastArray
         /\ Len(calls') = Len(calls) - 1
         /\ calls' # <<>> => calls'[Len(calls')] = calls[Len(calls)]
<1>1. /\ calls \in Seq(Calls) /\ calls' \in Seq(Calls)
      /\ Len(calls') = Len(calls) - 1 /\ Head(calls) = calls[1]
      /\ \A i \in 1 .. Len(Tail(calls)) : Tail(calls)[i] = calls[i + 1]
  BY HeadTailProperties DEF TypeInv, TypeOK
<1>2. Len(calls) \in Nat /\ Len(calls) >= 1
  BY <1>1, LenProperties, EmptySeq
<1>3. CASE Len(calls) = 1
  <2>1. calls' = <<>>
    BY <1>1, <1>3, EmptySeq
  <2>. QED BY <1>1, <1>3, <2>1 DEF LastArray
<1>4. CASE Len(calls) > 1
  <2>1. calls' # <<>>
    <3>1. Len(calls') # 0
      BY <1>1, <1>2, <1>4
    <3>. QED BY <3>1
  <2>2. calls'[Len(calls')] = calls[Len(calls)]
    <3>1. Len(Tail(calls)) = Len(calls) - 1
      BY <1>1
    <3>2. Len(calls) - 1 \in 1 .. Len(Tail(calls))
      BY <3>1, <1>2, <1>4
    <3>3. Tail(calls)[Len(calls) - 1] = calls[Len(calls) - 1 + 1]
      BY <1>1, <3>2
    <3>4. Len(calls) - 1 + 1 = Len(calls)
      BY <1>2
    <3>. QED BY <1>1, <3>3, <3>4
  <2>. QED BY <1>1, <2>1, <2>2 DEF LastArray
<1>5. Len(calls) = 1 \/ Len(calls) > 1
  BY <1>2
<1>. QED BY <1>3, <1>4, <1>5

\* What setSessions(arr) leaves behind once it has settled.
LEMMA SetSessionsLast ==
  ASSUME TypeInv, NEW arr \in ArrayIds, NEW ids \in SUBSET Identities,
         NEW by \in {"start", "update"}, SetSessions(arr, ids, by),
         conn # "Connected" => calls = <<>>
  PROVE  /\ LastArray' = arr
         /\ conn = "Connected" =>
              /\ calls' # <<>> /\ Len(calls') = Len(calls) + 1
              /\ calls'[Len(calls')].ids = ids
<1>1. CASE conn = "Connected"
  <2>1. [arr |-> arr, ids |-> ids, by |-> by] \in Calls
    BY CallTyped
  <2>2. calls' = Append(calls, [arr |-> arr, ids |-> ids, by |-> by])
    BY <1>1 DEF SetSessions
  <2>. QED BY <2>1, <2>2, LastOfAppend
<1>2. CASE conn # "Connected"
  <2>1. cards' = arr /\ calls' = <<>>
    BY <1>2 DEF SetSessions
  <2>. QED BY <1>2, <2>1 DEF LastArray
<1>. QED BY <1>1, <1>2

LEMMA CardsInit == Init => CardsInv
<1>. SUFFICES ASSUME Init PROVE arrays[LastArray] = arrays[provider]
  BY DEF Announced, CardsInv
<1>1. cards \in ArrayIds /\ provider \in ArrayIds /\ LastArray = cards
  BY BoundsAssumption DEF Init, ArrayIds, LastArray
<1>. QED BY <1>1 DEF Init

\* Once ended, always ended.
LEMMA EndedStays ==
  ASSUME TypeInv, LoopInv, [Next]_vars, Ended
  PROVE  Ended'
<1>1. CASE Connect \/ Retry
  BY <1>1 DEF Connect, Retry, Ended, LoopInv
<1>2. CASE DialSucceeds \/ DialFails
  BY <1>2 DEF DialSucceeds, DialFails, DialFailsLeaving, Ended
<1>3. CASE ConnectionLost \/ StopCompletes
  <2>1. OnClose /\ stopped /\ timers = 0
    BY <1>3 DEF ConnectionLost, StopCompletes, Ended
  <2>2. stopped' /\ timers' = 0 /\ ~attempt' /\ conn' = "Disconnected"
    BY <2>1 DEF OnClose, EndOfConnection
  <2>. QED BY <2>2 DEF Ended
<1>4. CASE \/ Close \/ HubProcesses \/ SyncSettles \/ CardInserted
           \/ UpdateToken \/ CardRemoved \/ UNCHANGED vars
  <2>1. /\ UNCHANGED <<attempt, timers>>
        /\ conn' = conn \/ conn' = "Disconnecting"
        /\ stopped => stopped'
    BY <1>4 DEF Close, HubProcesses, SyncSettles, CardInserted, UpdateToken,
                CardRemoved, SessionsDropped, vars, linkVars
  <2>. QED BY <2>1 DEF Ended
<1>5. CASE UpdateTokenFails \/ CardRemovedQuietly
  <2>1. UNCHANGED <<attempt, timers, conn, stopped>>
    BY <1>5, FailedAnnouncement
  <2>. QED BY <2>1 DEF Ended
<1>. QED BY <1>1, <1>2, <1>3, <1>4, <1>5 DEF Next

\* close() is final once nothing is left under way.
THEOREM ClosedForGood == Spec => CloseIsFinal
<1>1. TypeInv /\ LoopInv /\ [Next]_vars => [Ended => Ended']_vars
  BY EndedStays
<1>. QED
  BY <1>1, TypeInit, TypeStep, LoopInit, LoopStep, PTL DEF Spec, CloseIsFinal

LEMMA CardsStep == TypeInv /\ LoopInv /\ CardsInv /\ [Next]_vars => CardsInv'
<1>. SUFFICES ASSUME TypeInv, LoopInv, CardsInv, [Next]_vars,
                     ~Ended', Announced'
              PROVE  arrays'[LastArray'] = arrays'[provider']
  BY DEF Announced, CardsInv
<1>0. ~Ended
  BY EndedStays
<1>1. CASE Connect \/ Retry
  <2>1. UNCHANGED <<calls, cards, arrays, provider, announcing, unsent>>
    BY <1>1, StartDials
  <2>. QED BY <1>0, <2>1 DEF Announced, CardsInv, LastArray
<1>2. CASE DialSucceeds
  <2>1. UNCHANGED <<cards, arrays, provider, announcing, unsent>> /\ calls = <<>>
    BY <1>2 DEF DialSucceeds, cardVars, LoopInv, OneLoop
  <2>2. [arr |-> cards, ids |-> arrays[cards], by |-> "start"] \in Calls
    BY CallTyped DEF TypeInv, TypeOK
  <2>3. LastArray' = cards
    BY <1>2, <2>2, LastOfAppend DEF DialSucceeds
  <2>. QED BY <1>0, <2>1, <2>3 DEF Announced, CardsInv, LastArray
<1>3. CASE DialFails
  <2>1. UNCHANGED <<calls, cards, arrays, provider, announcing, unsent>>
    BY <1>3 DEF DialFails, DialFailsLeaving, hubVars, cardVars
  <2>. QED BY <1>0, <2>1 DEF Announced, CardsInv, LastArray
<1>4. CASE ConnectionLost \/ StopCompletes
  <2>1. UNCHANGED <<arrays, provider, announcing, unsent>> /\ calls' = <<>> /\ cards' = LastArray
    BY <1>4 DEF ConnectionLost, StopCompletes, OnClose, EndOfConnection, cardVars
  <2>2. LastArray' = LastArray
    BY <2>1 DEF LastArray
  <2>. QED BY <1>0, <2>1, <2>2 DEF Announced, CardsInv
<1>5. CASE Close \/ HubProcesses \/ UNCHANGED vars
  <2>1. UNCHANGED <<calls, cards, arrays, provider, announcing, unsent>>
    BY <1>5 DEF Close, HubProcesses, vars, hubVars, cardVars
  <2>. QED BY <1>0, <2>1 DEF Announced, CardsInv, LastArray
<1>6. CASE SyncSettles
  <2>1. UNCHANGED <<arrays, provider, announcing, unsent>>
    BY <1>6 DEF SyncSettles, cardVars
  <2>2. calls # <<>> /\ calls' = Tail(calls) /\ cards' = Head(calls).arr
    BY <1>6 DEF SyncSettles, TypeInv, TypeOK
  <2>3. LastArray' = LastArray
    BY <2>2, LastOfTail
  <2>. QED BY <1>0, <2>1, <2>3 DEF Announced, CardsInv
<1>7. CASE CardInserted
  <2>1. announcing' > 0
    BY <1>7 DEF CardInserted, TypeInv, TypeOK
  <2>. QED BY <2>1 DEF Announced
<1>8. ASSUME UpdateToken \/ CardRemoved
      PROVE  conn # "Connected" => calls = <<>>
  <2>1. conn = "Disconnecting" => attempt
    <3>1. ASSUME conn = "Disconnecting" PROVE timers = 0 /\ stopped
      BY <3>1 DEF LoopInv, OneLoop, TypeInv, TypeOK
    <3>. QED BY <1>0, <3>1 DEF Ended
  <2>. QED BY <2>1 DEF LoopInv, OneLoop, TypeInv, TypeOK
<1>9. CASE UpdateToken
  <2>1. SetSessions(provider, arrays[provider], "update") /\ UNCHANGED <<arrays, provider>>
    BY <1>9 DEF UpdateToken
  <2>2. LastArray' = provider
    BY <1>8, <1>9, <2>1, SetSessionsLast DEF TypeInv, TypeOK
  <2>. QED BY <2>1, <2>2
<1>10. CASE CardRemoved
  <2>1. PICK left \in SUBSET Identities :
          SetSessions(provider + 1, left, "update")
    BY <1>10 DEF CardRemoved, SessionsDropped
  <2>2. provider + 1 \in ArrayIds /\ left \in SUBSET Identities
    BY <1>10, BoundsAssumption DEF CardRemoved, SessionsDropped, TypeInv, TypeOK, ArrayIds
  <2>3. LastArray' = provider + 1
    BY <1>8, <1>10, <2>1, <2>2, SetSessionsLast
  <2>. QED BY <1>10, <2>3 DEF CardRemoved, SessionsDropped
<1>11. CASE UpdateTokenFails \/ CardRemovedQuietly
  BY <1>11, FailedAnnouncement DEF Announced
<1>. QED
  BY <1>1, <1>2, <1>3, <1>4, <1>5, <1>6, <1>7, <1>9, <1>10, <1>11 DEF Next

\* The session ends up with the provider's cards once its syncs have settled.
THEOREM SessionCardsCorrect == Spec => []SessionFollowsCards
<1>1. CardsInv => SessionFollowsCards
  BY DEF Announced, CardsInv, SessionFollowsCards, LastArray
<1>. QED
  BY <1>1, TypeInit, TypeStep, LoopInit, LoopStep, CardsInit, CardsStep, PTL DEF Spec

-----------------------------------------------------------------------------
(* the cards the hub knows *)

LEMMA HubInit == Init => HubInv
  BY DEF Announced, Init, HubInv

LEMMA HubStep ==
  TypeInv /\ LoopInv /\ CardsInv /\ HubInv /\ [Next]_vars => HubInv'
<1>. SUFFICES ASSUME TypeInv, LoopInv, CardsInv, HubInv, [Next]_vars,
                     conn' = "Connected", Announced'
              PROVE  /\ processed' < Len(calls')
                          => calls'[Len(calls')].ids = arrays'[provider']
                     /\ processed' = Len(calls') /\ ~syncFailed'
                          => hubIds' = arrays'[provider']
  BY DEF Announced, HubInv
<1>0. processed \in Nat /\ Len(calls) \in Nat /\ processed <= Len(calls)
  BY LenProperties DEF TypeInv, TypeOK
<1>1. CASE Connect \/ Retry
  BY <1>1, StartDials
<1>2. CASE DialSucceeds
  <2>1. /\ UNCHANGED <<arrays, provider, announcing, unsent, processed>>
        /\ calls = <<>> /\ ~Ended
    BY <1>2 DEF DialSucceeds, cardVars, LoopInv, OneLoop, Ended
  <2>2. arrays[cards] = arrays[provider]
    BY <2>1 DEF Announced, CardsInv, LastArray
  <2>3. [arr |-> cards, ids |-> arrays[cards], by |-> "start"] \in Calls
    BY CallTyped DEF TypeInv, TypeOK
  <2>4. /\ calls'[Len(calls')] = [arr |-> cards, ids |-> arrays[cards], by |-> "start"]
        /\ Len(calls') = Len(calls) + 1
    BY <1>2, <2>3, LastOfAppend DEF DialSucceeds
  <2>5. processed' < Len(calls')
    BY <1>0, <2>1, <2>4
  <2>. QED BY <1>0, <2>1, <2>2, <2>4, <2>5
<1>3. CASE DialFails \/ ConnectionLost \/ StopCompletes \/ Close
  <2>1. conn' # "Connected"
    BY <1>3 DEF DialFails, DialFailsLeaving, ConnectionLost, StopCompletes, Close, OnClose,
           EndOfConnection, TypeInv, TypeOK
  <2>. QED BY <2>1
<1>4. CASE HubProcesses
  <2>1. /\ UNCHANGED <<arrays, provider, announcing, unsent, calls, conn>>
        /\ processed < Len(calls) /\ processed' = processed + 1
    BY <1>4 DEF HubProcesses, cardVars, linkVars
  <2>2. calls[Len(calls)].ids = arrays[provider]
    BY <2>1 DEF Announced, HubInv
  <2>3. ASSUME processed' = Len(calls'), ~syncFailed'
        PROVE  hubIds' = arrays'[provider']
    <3>1. hubIds' = calls[processed + 1].ids
      BY <1>4, <2>3 DEF HubProcesses
    <3>2. processed + 1 = Len(calls)
      BY <2>1, <2>3
    <3>. QED BY <2>1, <2>2, <3>1, <3>2
  <2>. QED BY <2>1, <2>2, <2>3
<1>5. CASE SyncSettles
  <2>1. /\ UNCHANGED <<arrays, provider, announcing, unsent, conn, hubIds,
                  syncFailed>>
        /\ processed > 0 /\ processed' = processed - 1
        /\ calls' = Tail(calls) /\ cards' = Head(calls).arr
    BY <1>5 DEF SyncSettles, cardVars, linkVars
  <2>2. calls # <<>>
    BY <2>1 DEF TypeInv, TypeOK
  <2>3. /\ Len(calls') = Len(calls) - 1
        /\ calls' # <<>> => calls'[Len(calls')] = calls[Len(calls)]
    BY <2>1, <2>2, LastOfTail
  <2>4. ASSUME processed' < Len(calls')
        PROVE  calls'[Len(calls')].ids = arrays'[provider']
    <3>1. Len(calls') > 0
      BY <1>0, <2>1, <2>3, <2>4
    <3>2. calls' # <<>>
      BY <3>1
    <3>3. processed < Len(calls)
      BY <1>0, <2>1, <2>3, <2>4
    <3>. QED BY <2>1, <2>3, <3>2, <3>3 DEF Announced, HubInv
  <2>5. processed' = Len(calls') => processed = Len(calls)
    BY <1>0, <2>1, <2>3
  <2>. QED BY <2>1, <2>4, <2>5 DEF Announced, HubInv
<1>6. CASE CardInserted
  BY <1>6 DEF Announced, CardInserted, TypeInv, TypeOK
<1>7. ASSUME NEW arr \in ArrayIds, NEW ids \in SUBSET Identities,
             SetSessions(arr, ids, "update"), conn = "Connected",
             processed' = processed, ids = arrays'[provider']
      PROVE  /\ processed' < Len(calls')
             /\ calls'[Len(calls')].ids = arrays'[provider']
  <2>1. Len(calls') = Len(calls) + 1 /\ calls'[Len(calls')].ids = ids
    BY <1>7, SetSessionsLast
  <2>. QED BY <1>0, <1>7, <2>1
<1>8. CASE UpdateToken
  <2>1. /\ SetSessions(provider, arrays[provider], "update")
        /\ UNCHANGED <<arrays, provider, processed, conn>>
    BY <1>8 DEF UpdateToken, linkVars
  <2>2. provider \in ArrayIds /\ arrays[provider] \in SUBSET Identities
    BY DEF TypeInv, TypeOK
  <2>3. processed' < Len(calls') /\ calls'[Len(calls')].ids = arrays'[provider']
    BY <1>7, <2>1, <2>2
  <2>. QED BY <1>0, <2>1, <2>3, LenProperties
<1>9. CASE CardRemoved
  <2>1. PICK left \in SUBSET Identities :
          /\ arrays' = [arrays EXCEPT ![provider + 1] = left]
          /\ SetSessions(provider + 1, left, "update")
    BY <1>9 DEF CardRemoved, SessionsDropped
  <2>2. provider + 1 \in ArrayIds /\ left \in SUBSET Identities
    BY <1>9, BoundsAssumption DEF CardRemoved, SessionsDropped, TypeInv, TypeOK, ArrayIds
  <2>3. /\ provider' = provider + 1 /\ UNCHANGED <<processed, conn>>
        /\ arrays'[provider'] = left
    BY <1>9, <2>1, <2>2 DEF CardRemoved, SessionsDropped, linkVars, TypeInv, TypeOK
  <2>4. processed' < Len(calls') /\ calls'[Len(calls')].ids = arrays'[provider']
    BY <1>7, <2>1, <2>2, <2>3
  <2>5. Len(calls') = Len(calls) + 1
    BY <2>1, <2>2, <2>3, SetSessionsLast
  <2>. QED BY <1>0, <2>3, <2>4, <2>5
<1>10. CASE UNCHANGED vars
  BY <1>10 DEF Announced, vars, linkVars, hubVars, cardVars, HubInv
<1>11. CASE UpdateTokenFails \/ CardRemovedQuietly
  BY <1>11, FailedAnnouncement DEF Announced
<1>. QED
  BY <1>1, <1>2, <1>3, <1>4, <1>5, <1>6, <1>8, <1>9, <1>10, <1>11 DEF Next

-----------------------------------------------------------------------------
(* the whole invariant, and what follows from it *)

THEOREM Inductive == Spec => []IInv
<1>1. Init => IInv
  BY TypeInit, LoopInit, TrayInit, RecoveryInit, CardsInit, HubInit DEF IInv
<1>2. IInv /\ [Next]_vars => IInv'
  BY TypeStep, LoopStep, TrayStep, RecoveryStep, CardsStep, HubStep DEF IInv
<1>. QED BY <1>1, <1>2, PTL DEF Spec

\* With nothing in flight the hub knows exactly the cards present, unless its
\* last sync failed.
THEOREM HubKnowsTheCards == Spec => []HubKnowsCards
<1>1. IInv => HubKnowsCards
  <2>1. TypeInv /\ calls = <<>> => processed = Len(calls)
    BY DEF TypeInv, TypeOK
  <2>. QED BY <2>1 DEF Announced, IInv, HubInv, HubKnowsCards
<1>. QED BY <1>1, Inductive, PTL

\* Every step of the hub client is a step of the reconnection loop, or none.
THEOREM ImplementsLoopSafely == Spec => Loop!Init /\ [][Loop!Next]_(Loop!loopVars)
<1>1. Init => Loop!Init
  BY DEF Init, Loop!Init, Phase
<1>2. IInv /\ [Next]_vars => [Loop!Next]_(Loop!loopVars)
  <2>. SUFFICES ASSUME TypeInv, LoopInv, [Next]_vars
                PROVE  Loop!Next \/ UNCHANGED Loop!loopVars
    BY DEF IInv
  <2>. USE DEF Phase, Loop!loopVars, Loop!Next
  <2>1. CASE Connect \/ Retry
    <3>1. attempt' = TRUE /\ opened' = TRUE /\ stopped' = stopped /\ ~attempt
      BY <2>1, StartDials
    <3>2. Phase \in {"idle", "waiting"}
      BY <2>1, <3>1 DEF Connect, Retry
    <3>. QED BY <3>1, <3>2 DEF Loop!Dial
  <2>2. CASE DialSucceeds
    <3>1. /\ opened /\ opened' = opened /\ timers' = 0 /\ attempt /\ attempt' = FALSE
          /\ conn' = "Connected" /\ stopped' = stopped
      BY <2>2 DEF DialSucceeds, LoopInv, OneLoop, TypeInv, TypeOK
    <3>. QED BY <3>1 DEF Loop!Established
  <2>3. CASE DialFails
    <3>1. /\ opened /\ opened' = opened /\ timers' = 1 /\ attempt /\ attempt' = FALSE
          /\ stopped' = stopped
      BY <2>3 DEF DialFails, DialFailsLeaving, LoopInv, OneLoop, TypeInv, TypeOK
    <3>. QED BY <3>1 DEF Loop!Refused
  <2>4. CASE ConnectionLost
    <3>1. /\ opened /\ opened' = opened /\ timers = 0 /\ timers' = 0 /\ ~attempt
          /\ conn = "Connected" /\ stopped' = stopped
      BY <2>4 DEF ConnectionLost, OnClose, EndOfConnection, LoopInv, OneLoop, TypeInv, TypeOK
    <3>2. /\ stopped => conn' = "Disconnected" /\ ~attempt'
          /\ ~stopped => attempt'
      BY <2>4 DEF ConnectionLost, OnClose, EndOfConnection
    <3>. QED BY <3>1, <3>2 DEF Loop!Lost
  <2>5. CASE StopCompletes
    <3>1. /\ opened /\ opened' = opened /\ timers = 0 /\ timers' = 0 /\ ~attempt
          /\ conn = "Disconnecting" /\ stopped /\ stopped' = stopped
      BY <2>5 DEF StopCompletes, OnClose, EndOfConnection, LoopInv, OneLoop, TypeInv, TypeOK
    <3>2. conn' = "Disconnected" /\ ~attempt'
      BY <2>5, <3>1 DEF StopCompletes, OnClose, EndOfConnection
    <3>. QED BY <3>1, <3>2 DEF Loop!Closed
  <2>6. CASE Close
    <3>1. /\ opened /\ opened' = opened /\ ~stopped /\ stopped' = TRUE
          /\ attempt' = attempt /\ timers' = timers
          /\ conn' = IF conn = "Disconnected" THEN conn ELSE "Disconnecting"
      BY <2>6 DEF Close
    <3>2. attempt \/ timers > 0 \/ conn = "Connected"
      BY <3>1 DEF LoopInv, NeverStranded
    <3>. QED BY <3>1, <3>2 DEF Loop!Stop
  <2>7. CASE \/ HubProcesses \/ SyncSettles \/ CardInserted \/ UpdateToken
             \/ CardRemoved \/ UNCHANGED vars
    <3>1. UNCHANGED <<opened, attempt, timers, conn, stopped>>
      BY <2>7 DEF HubProcesses, SyncSettles, CardInserted, UpdateToken, CardRemoved,
                  SessionsDropped, vars, linkVars
    <3>. QED BY <3>1
  <2>8. CASE UpdateTokenFails \/ CardRemovedQuietly
    BY <2>8, FailedAnnouncement
  <2>. QED
    BY <2>1, <2>2, <2>3, <2>4, <2>5, <2>6, <2>7, <2>8 DEF Next
<1>. QED BY <1>1, <1>2, Inductive, PTL DEF Spec
=============================================================================
