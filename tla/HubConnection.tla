---------------------------- MODULE HubConnection ----------------------------
(***************************************************************************)
(* The client end of the signing hub: class Server of                      *)
(* main/server/connection/server.ts, together with what it drives or is    *)
(* driven by: the SignalR HubConnection (external), the tray icon's status *)
(* and the provider's array of card sessions, which the handler of         *)
(* 'update-token' in main/server/server.ts hands over by reference.        *)
(*                                                                         *)
(* JavaScript runs a callback and the promise continuations it releases to *)
(* completion before the next callback, so an action is one callback with  *)
(* all its continuations, up to the next await of I/O or of a timer.       *)
(***************************************************************************)
EXTENDS Naturals, Sequences

CONSTANTS
  Identities,   \* identity numbers found on cards
  MaxFaults,    \* bound: failed dials, lost connections, failed syncs and
                \* update-tokens
  MaxCardOps    \* bound: insertions and removals of cards

ASSUME BoundsAssumption == MaxFaults \in Nat /\ MaxCardOps \in Nat

VARIABLES
  \* the SignalR connection (external)
  conn,          \* HubConnectionState
  attempt,       \* connection.start() has been called and has not settled
  epoch,         \* connections established so far: the current connection's id
  calls,         \* SyncSessions invocations that have not settled, oldest first
  processed,     \* how many of them the hub has processed
  hubIds,        \* identities the hub knows for this connection
  syncFailed,    \* the hub failed on the last SyncSessions it processed
  \* class Server
  opened,        \* connect(address) has been called
  stopped,
  timers,        \* pending setTimeout(() => this.start(), 5000)
  connectionId,  \* session.connectionId
  sessionTime,   \* session.sessionTime: number of times it was set to now
  disconnected,  \* session.disconnected is a date
  cards,         \* session.cards: which array it refers to
  \* what it is connected to
  arrays,        \* the contents of the arrays of card sessions
  provider,      \* provider.cardSessions: which array it refers to
  announcing,    \* handlers of 'insert' that still have to emit update-token
  unsent,        \* the last update-token failed to be emitted
  tray,          \* status shown by the tray icon
  faults, cardOps

linkVars    == <<conn, attempt, epoch>>
hubVars     == <<calls, processed, hubIds, syncFailed>>
sessionVars == <<connectionId, sessionTime, disconnected>>
cardVars    == <<arrays, provider, announcing, unsent, cardOps>>
vars == <<linkVars, hubVars, opened, stopped, timers, sessionVars, cards,
          cardVars, tray, faults>>

ArrayIds == 0 .. MaxCardOps + 1

\* A SyncSessions invocation that has not settled: setSessions(arr) is waiting
\* on it; ids is the list of identities as it was when the call was made.
Calls == [arr : ArrayIds, ids : SUBSET Identities, by : {"start", "update"}]

StartPending == \E i \in DOMAIN calls : calls[i].by = "start"

LastArray == IF calls = <<>> THEN cards ELSE calls[Len(calls)].arr

TypeOK ==
  /\ conn \in {"Disconnected", "Connecting", "Connected", "Disconnecting"}
  /\ attempt \in BOOLEAN
  /\ epoch \in Nat
  /\ calls \in Seq(Calls)
  /\ processed \in 0 .. Len(calls)
  /\ hubIds \in SUBSET Identities
  /\ syncFailed \in BOOLEAN
  /\ opened \in BOOLEAN
  /\ stopped \in BOOLEAN
  /\ timers \in Nat
  /\ connectionId \in Nat
  /\ sessionTime \in Nat
  /\ disconnected \in BOOLEAN
  /\ cards \in ArrayIds
  /\ arrays \in [ArrayIds -> SUBSET Identities]
  /\ provider \in ArrayIds
  /\ announcing \in Nat
  /\ unsent \in BOOLEAN
  /\ tray \in {"none", "connected", "disconnected"}
  /\ faults \in 0 .. MaxFaults
  /\ cardOps \in 0 .. MaxCardOps

Init ==
  /\ conn = "Disconnected" /\ attempt = FALSE /\ epoch = 0
  /\ calls = <<>> /\ processed = 0 /\ hubIds = {} /\ syncFailed = FALSE
  /\ opened = FALSE /\ stopped = FALSE /\ timers = 0
  /\ connectionId = 0 /\ sessionTime = 0 /\ disconnected = FALSE /\ cards = 0
  /\ arrays = [a \in ArrayIds |-> {}] /\ provider = 1 /\ announcing = 0
  /\ unsent = FALSE
  /\ tray = "none"
  /\ faults = 0 /\ cardOps = 0

-----------------------------------------------------------------------------
(* setSessions and start *)

\* setSessions(arr): the hub is told the identities in the array as it is now;
\* session.cards follows only when the invocation has settled, at once when
\* there is no connection to invoke on.
SetSessions(arr, ids, by) ==
  IF conn = "Connected"
  THEN /\ calls' = Append(calls, [arr |-> arr, ids |-> ids, by |-> by])
       /\ UNCHANGED cards
  ELSE /\ cards' = arr
       /\ UNCHANGED calls

\* The part of start() that opens or recovers the session of a connection
\* with the given id.
EnterSession(id) ==
  /\ connectionId' = id
  /\ sessionTime' = IF disconnected THEN sessionTime ELSE sessionTime + 1
  /\ disconnected' = FALSE

\* start() up to its first await: it dials when the link is down.  Otherwise
\* it falls through to the session, having armed another retry if the link is
\* in between; OneLoop says that this never happens.
Start(armed) ==
  IF conn = "Disconnected"
  THEN /\ conn' = "Connecting"
       /\ attempt' = TRUE
       /\ timers' = armed
       /\ UNCHANGED <<epoch, hubVars, sessionVars, cards, tray>>
  ELSE /\ timers' = IF conn = "Connected" THEN armed ELSE armed + 1
       /\ EnterSession(IF conn = "Connected" THEN epoch ELSE 0)
       /\ SetSessions(cards, arrays[cards], "start")
       /\ tray' = IF conn = "Connected" THEN tray ELSE "connected"
       /\ UNCHANGED <<linkVars, processed, hubIds, syncFailed>>

Connect ==
  /\ ~opened
  /\ opened' = TRUE
  /\ Start(timers)
  /\ UNCHANGED <<stopped, cardVars, faults>>

Retry ==
  /\ timers > 0
  /\ Start(timers - 1)
  /\ UNCHANGED <<opened, stopped, cardVars, faults>>

\* Mutant: start() reports the connection without calling setSessions.
DialSucceedsUnsynced ==
  /\ attempt
  /\ conn = "Connecting"
  /\ conn' = "Connected"
  /\ attempt' = FALSE
  /\ epoch' = epoch + 1
  /\ EnterSession(epoch + 1)
  /\ tray' = "connected"
  /\ UNCHANGED <<hubVars, opened, stopped, timers, cards, cardVars, faults>>

\* connection.start() resolves, and start() goes on to its next await.
DialSucceeds ==
  /\ attempt
  /\ conn = "Connecting"
  /\ conn' = "Connected"
  /\ attempt' = FALSE
  /\ epoch' = epoch + 1
  /\ EnterSession(epoch + 1)
  /\ calls' = Append(calls, [arr |-> cards, ids |-> arrays[cards], by |-> "start"])
  /\ UNCHANGED <<processed, hubIds, syncFailed, opened, stopped, timers, cards,
                 cardVars, tray, faults>>

\* The catch clause of start() with the retry and the status it leaves behind;
\* mutants: it arms no retry, it does not report 'disconnect'.
DialFailsLeaving(armed, shown) ==
  /\ attempt
  /\ \/ conn = "Disconnecting" /\ UNCHANGED faults
     \/ conn = "Connecting" /\ faults < MaxFaults /\ faults' = faults + 1
  /\ conn' = "Disconnected"
  /\ attempt' = FALSE
  /\ tray' = shown
  /\ timers' = armed
  /\ UNCHANGED <<epoch, hubVars, opened, stopped, sessionVars, cards, cardVars>>

DialFailsForever == DialFailsLeaving(timers, "disconnected")
DialFailsSilently == DialFailsLeaving(timers + 1, tray)

\* connection.start() rejects, of itself or because stop() interrupted it: the
\* catch clause of start() reports it and arms a retry, stopped or not.
DialFails == DialFailsLeaving(timers + 1, "disconnected")

-----------------------------------------------------------------------------
(* the end of a connection *)

\* A connection ends with n calls still counted as processed, the session's
\* cards left at arr, its disconnection marked or not, armed retries, and a
\* new dial if again.
EndOfConnection(n, arr, marked, armed, again) ==
  /\ disconnected' = marked
  /\ cards' = arr
  /\ calls' = <<>>
  /\ processed' = n
  /\ hubIds' = {}
  /\ syncFailed' = FALSE
  /\ tray' = IF StartPending THEN "connected" ELSE "disconnected"
  /\ conn' = IF again THEN "Connecting" ELSE "Disconnected"
  /\ attempt' = again
  /\ timers' = armed
  /\ UNCHANGED <<epoch, opened, stopped, connectionId, sessionTime, cardVars>>

\* Mutants: rejected calls stay counted; a rejection ends setSessions early;
\* session.disconnected is not set; onclose arms a retry besides dialing;
\* onclose ignores the stopped flag.
OnCloseMiscounts == EndOfConnection(processed, LastArray, TRUE, timers, ~stopped)
OnCloseAborts == EndOfConnection(0, cards, TRUE, timers, ~stopped)
OnCloseUnmarked == EndOfConnection(0, LastArray, disconnected, timers, ~stopped)
OnCloseArms == EndOfConnection(0, LastArray, TRUE, timers + 1, ~stopped)
OnCloseInsists == EndOfConnection(0, LastArray, TRUE, timers, TRUE)

\* The onclose handler, and what the invocations rejected with the connection
\* still do after it: syncSessions swallows the rejection, so setSessions goes
\* on to set session.cards, and a start() that waited reports 'connect'.
OnClose == EndOfConnection(0, LastArray, TRUE, timers, ~stopped)

ConnectionLost ==
  /\ conn = "Connected"
  /\ faults < MaxFaults
  /\ faults' = faults + 1
  /\ OnClose

\* The hub closed the connection that close() asked to stop.
StopCompletes ==
  /\ conn = "Disconnecting"
  /\ ~attempt
  /\ OnClose
  /\ UNCHANGED faults

Close ==
  /\ opened
  /\ ~stopped
  /\ stopped' = TRUE
  /\ conn' = IF conn = "Disconnected" THEN conn ELSE "Disconnecting"
  /\ UNCHANGED <<attempt, epoch, hubVars, opened, timers, sessionVars, cards,
                 cardVars, tray, faults>>

-----------------------------------------------------------------------------
(* SyncSessions on its way to the hub and back: in the order of the calls *)

\* (A call may still be processed, or settle, while the client is closing.)
HubProcesses ==
  /\ processed < Len(calls)
  /\ \/ hubIds' = calls[processed + 1].ids /\ syncFailed' = FALSE /\ UNCHANGED faults
     \/ /\ faults < MaxFaults
        /\ faults' = faults + 1
        /\ syncFailed' = TRUE
        /\ UNCHANGED hubIds
  /\ processed' = processed + 1
  /\ UNCHANGED <<linkVars, calls, opened, stopped, timers, sessionVars, cards,
                 cardVars, tray>>

\* The oldest invocation settles (the rejection of a failed one is swallowed).
SyncSettles ==
  /\ processed > 0
  /\ cards' = Head(calls).arr
  /\ tray' = IF Head(calls).by = "start" THEN "connected" ELSE tray
  /\ calls' = Tail(calls)
  /\ processed' = processed - 1
  /\ UNCHANGED <<linkVars, hubIds, syncFailed, opened, stopped, timers,
                 sessionVars, cardVars, faults>>

-----------------------------------------------------------------------------
(* card sessions *)

\* onTokenInsert pushes the new sessions onto the provider's array, which
\* session.cards may refer to, and emits update-token some time later.
CardInserted ==
  /\ opened
  /\ cardOps < MaxCardOps
  /\ cardOps' = cardOps + 1
  /\ \E id \in Identities :
       arrays' = [arrays EXCEPT ![provider] = @ \cup {id}]
  /\ announcing' = announcing + 1
  /\ UNCHANGED <<linkVars, hubVars, opened, stopped, timers, sessionVars, cards,
                 provider, unsent, tray, faults>>

UpdateToken ==
  /\ announcing > 0
  /\ announcing' = announcing - 1
  /\ unsent' = FALSE
  /\ SetSessions(provider, arrays[provider], "update")
  /\ UNCHANGED <<linkVars, processed, hubIds, syncFailed, opened, stopped, timers,
                 sessionVars, arrays, provider, cardOps, tray, faults>>

\* update-token describes the slot of every session, which throws for a slot
\* that is empty or whose library was finalized: then it is not emitted.
EmitFails ==
  /\ faults < MaxFaults
  /\ faults' = faults + 1
  /\ unsent' = TRUE

UpdateTokenFails ==
  /\ announcing > 0
  /\ announcing' = announcing - 1
  /\ arrays[provider] # {}
  /\ EmitFails
  /\ UNCHANGED <<linkVars, hubVars, opened, stopped, timers, sessionVars, cards,
                 arrays, provider, cardOps, tray>>

\* onTokenRemove filters the sessions into a new array ...
SessionsDropped(left) ==
  /\ opened
  /\ cardOps < MaxCardOps
  /\ cardOps' = cardOps + 1
  /\ provider' = provider + 1
  /\ left \subseteq arrays[provider]
  /\ arrays' = [arrays EXCEPT ![provider + 1] = left]

\* ... and emits update-token in the same callback,
CardRemoved ==
  /\ \E left \in SUBSET Identities :
       /\ SessionsDropped(left)
       /\ SetSessions(provider + 1, left, "update")
  /\ unsent' = FALSE
  /\ UNCHANGED <<linkVars, processed, hubIds, syncFailed, opened, stopped, timers,
                 sessionVars, announcing, tray, faults>>

\* unless a session that is left cannot be described.
CardRemovedQuietly ==
  /\ \E left \in (SUBSET Identities) \ {{}} : SessionsDropped(left)
  /\ EmitFails
  /\ UNCHANGED <<linkVars, hubVars, opened, stopped, timers, sessionVars, cards,
                 announcing, tray>>

-----------------------------------------------------------------------------

Next ==
  \/ Connect \/ Retry \/ DialSucceeds \/ DialFails
  \/ ConnectionLost \/ StopCompletes \/ Close
  \/ HubProcesses \/ SyncSettles
  \/ CardInserted \/ UpdateToken \/ UpdateTokenFails
  \/ CardRemoved \/ CardRemovedQuietly

\* The application connects; timers fire; the dial, the close and a sync on a
\* live connection settle.  Cards, close() and faults come as they may.
Fairness ==
  /\ WF_vars(Connect)
  /\ WF_vars(Retry)
  /\ WF_vars(DialSucceeds \/ DialFails)
  /\ WF_vars(StopCompletes)
  /\ WF_vars(HubProcesses)
  /\ WF_vars(SyncSettles)
  /\ WF_vars(UpdateToken \/ UpdateTokenFails)

Spec == Init /\ [][Next]_vars /\ Fairness

-----------------------------------------------------------------------------
(* properties *)

\* The reconnection loop is single: of a dial, an armed retry and a live or
\* closing connection there is at most one, so start() never runs twice at a
\* time although a timer, onclose and connect() all call it.
OneLoop ==
  /\ timers > 0 => timers = 1 /\ ~attempt /\ conn = "Disconnected"
  /\ attempt => conn \in {"Connecting", "Disconnecting"}
  /\ conn = "Connecting" => attempt
  /\ attempt \/ conn = "Disconnected" => calls = <<>>

\* Until close() the client is never stranded: once opened it is connected,
\* dialing or about to dial, whatever failed before.
NeverStranded ==
  opened /\ ~stopped => attempt \/ timers > 0 \/ conn = "Connected"

\* close() took effect: nothing is left that could connect again.
Ended == stopped /\ ~attempt /\ timers = 0 /\ conn # "Connected"

\* Every change of the provider's cards has been announced.
Announced == announcing = 0 /\ ~unsent

\* When every change has been announced and every sync has settled, the session
\* that requests are served from holds the provider's cards, however
\* connections, insertions and removals interleaved with the syncs.  (Not once it
\* is closing: there setSessions returns at once and overtakes a pending sync.)
SessionFollowsCards ==
  ~Ended /\ Announced /\ calls = <<>> => arrays[cards] = arrays[provider]

\* On a live connection with nothing in flight the hub knows exactly the
\* identities of the cards present, unless it failed on the last sync (the
\* error is swallowed and nothing resends it).
HubKnowsCards ==
  conn = "Connected" /\ Announced /\ calls = <<>> /\ ~syncFailed
    => hubIds = arrays[provider]

\* The tray tells the truth whenever the loop is at rest: offline while a
\* retry is armed, online on the connection whose id the session carries.
TraySettled ==
  /\ timers > 0 => tray = "disconnected"
  /\ conn = "Connected" /\ ~StartPending
       => tray = "connected" /\ connectionId = epoch /\ ~disconnected

\* A session that was established keeps its time over every recovery.
RecoveryKeepsSessionTime ==
  [][sessionTime > 0 => sessionTime' = sessionTime]_sessionTime

\* Once ended, closed for good: the stopped flag keeps onclose from dialing.
CloseIsFinal == [][Ended => Ended']_vars

\* With finitely many faults the client ends up connected, shown as such, and
\* in agreement with the hub about the cards, unless it was closed or the last
\* change of the cards could not be announced.
Agreed ==
  /\ conn = "Connected"
  /\ tray = "connected"
  /\ unsent \/ arrays[cards] = arrays[provider]
  /\ unsent \/ syncFailed \/ hubIds = arrays[provider]
Converges == <>[](stopped \/ Agreed)

\* The abstract loop that the connection implements.
Phase ==
  IF ~opened THEN "idle"
  ELSE IF attempt THEN "dialing"
  ELSE IF timers > 0 THEN "waiting"
  ELSE IF conn = "Connected" THEN "open"
  ELSE IF conn = "Disconnecting" THEN "closing"
  ELSE "closed"

Loop == INSTANCE ReconnectLoop WITH phase <- Phase

\* HubConnection implements ReconnectLoop, its fairness included.
ImplementsLoop == Loop!Spec
=============================================================================
