---------------------------- MODULE SignatureFlow ----------------------------
(***************************************************************************)
(* Requests of the hub and their answers: a request for a signature opens  *)
(* a window of its own (renderer/containers/p11_pin), the user signs with  *)
(* a PIN or cancels, and the answer goes back as an invocation on the hub  *)
(* (requestSignature and the reply methods of connection/server.ts, their  *)
(* handlers in server/server.ts, LocalProvider.sign); a request for        *)
(* signing certificates is answered at once.                               *)
(*                                                                         *)
(* An action is one callback of the main process or of a window.  The hub, *)
(* the PKCS#11 tokens, the user and the renderer's messages are external:  *)
(* a hub processes invocations and answers them in order, and a token is   *)
(* logged in for all sessions of the application until it is logged out or *)
(* pulled.                                                                 *)
(***************************************************************************)
EXTENDS Naturals, Sequences, FiniteSets, FiniteSetsExt

CONSTANTS
  Requests,      \* message ids of the hub's requests
  Cards,         \* smart cards, each with one identity and one PIN of its own
  NoCard,        \* no card; as a PIN: empty or fewer than the four digits asked
  Slots,         \* slots of the PKCS#11 library
  MaxAttempts,   \* bound: times the user signs, in all windows
  MaxCalls,      \* bound: invocations pending when the user signs or cancels
  MaxFaults,     \* bound: lost connections, failing devices, hub and windows
  MaxCardOps     \* bound: cards inserted

ASSUME NoCardAssumption == NoCard \notin Cards
ASSUME BoundsAssumption ==
  {MaxAttempts, MaxCalls, MaxFaults, MaxCardOps} \subseteq Nat

VARIABLES
  \* the hub and the connection to it (external)
  online,        \* the connection's state is Connected
  calls,         \* invocations that have not settled, oldest first
  results,       \* outcomes of the oldest of them, which the hub has processed
  received,      \* the answers that the hub has processed without an error
  rejected,      \* the answers that failed on their way
  \* a request and its window
  asked,         \* whose signature the request is for (NoCard: not yet asked)
  window,
  attempts,      \* times that onSign was called
  successes,     \* dialogs that said it was signed
  failures,      \* dialogs that said it was not
  \* tokens and the provider
  slot,          \* the card in each slot
  loggedIn,      \* slots whose token is logged in
  sessions,      \* provider.cardSessions
  faults, cardOps

hubVars    == <<online, calls, results, received, rejected>>
toldVars   == <<attempts, successes, failures>>
cardVars   == <<slot, loggedIn, sessions>>
vars == <<hubVars, asked, window, toldVars, cardVars, faults, cardOps>>

MaybeCard == Cards \cup {NoCard}

Call(kind, r, signer, p) == [kind |-> kind, req |-> r, signer |-> signer, pin |-> p]

Calls == [kind : {"signature", "cancel", "error", "certs"}, req : Requests,
          signer : MaybeCard, pin : MaybeCard]

TypeOK ==
  /\ online \in BOOLEAN
  /\ calls \in Seq(Calls)
  /\ results \in Seq({"ok", "failed"}) /\ Len(results) <= Len(calls)
  /\ received \in SUBSET Calls /\ rejected \in SUBSET Calls
  /\ asked \in [Requests -> MaybeCard]
  /\ window \in [Requests -> {"none", "open", "closing", "closed", "killed"}]
  /\ attempts \in [Requests -> Nat]
  /\ successes \in [Requests -> Nat] /\ failures \in [Requests -> Nat]
  /\ slot \in [Slots -> MaybeCard]
  /\ loggedIn \in SUBSET {s \in Slots : slot[s] # NoCard}
  /\ sessions \in Seq([card : Cards, slot : Slots])
  /\ faults \in 0 .. MaxFaults
  /\ cardOps \in 0 .. MaxCardOps

Init ==
  /\ online = TRUE
  /\ calls = <<>> /\ results = <<>> /\ received = {} /\ rejected = {}
  /\ asked = [r \in Requests |-> NoCard]
  /\ window = [r \in Requests |-> "none"]
  /\ attempts = [r \in Requests |-> 0]
  /\ successes = [r \in Requests |-> 0]
  /\ failures = [r \in Requests |-> 0]
  /\ slot \in {f \in [Slots -> MaybeCard] :
                \A s, t \in Slots : s # t /\ f[s] = f[t] => f[s] = NoCard}
  /\ loggedIn = {} /\ sessions = <<>>
  /\ faults = 0 /\ cardOps = 0

Spend(n) == faults + n <= MaxFaults /\ faults' = faults + n

\* connection.invoke: it rejects at once without a connection.
Invoke(c) ==
  IF online THEN calls' = Append(calls, c) /\ UNCHANGED rejected
            ELSE rejected' = rejected \cup {c} /\ UNCHANGED calls

-----------------------------------------------------------------------------
(* requests *)

\* requestSigningCert and its handler: the certificates go back at once, or the
\* error that came while they were collected.
RequestSigningCert(r) ==
  /\ online
  /\ asked[r] = NoCard
  /\ \E c \in Cards : asked' = [asked EXCEPT ![r] = c]
  /\ \/ Invoke(Call("certs", r, NoCard, NoCard)) /\ UNCHANGED faults
     \/ Invoke(Call("error", r, NoCard, NoCard)) /\ Spend(1)
  /\ UNCHANGED <<online, results, received, window, toldVars, cardVars, cardOps>>

\* requestSignature and its handler: a window, or an error if there is none.
RequestSignature(r) ==
  /\ online
  /\ asked[r] = NoCard
  /\ \E c \in Cards : asked' = [asked EXCEPT ![r] = c]
  /\ \/ /\ window' = [window EXCEPT ![r] = "open"]
        /\ UNCHANGED <<calls, rejected, faults>>
     \/ /\ Invoke(Call("error", r, NoCard, NoCard))
        /\ Spend(1)
        /\ UNCHANGED window
  /\ UNCHANGED <<online, results, received, toldVars, cardVars, cardOps>>

-----------------------------------------------------------------------------
(* signing *)

Outcome(signer, in, cost) == [signer |-> signer, loggedIn |-> in, cost |-> cost]

\* Mutant: like initialize(), sign() tolerates that login was done already.
SignInSlotLenient(s, p) ==
  IF slot[s] = NoCard THEN {Outcome(NoCard, loggedIn, 0)}
  ELSE IF s \in loggedIn THEN {Outcome(slot[s], loggedIn \ {s}, 0)}
  ELSE IF p # slot[s] THEN {Outcome(NoCard, loggedIn, 0)}
  ELSE {Outcome(slot[s], loggedIn, 0), Outcome(NoCard, loggedIn, 1),
        Outcome(NoCard, loggedIn \cup {s}, 1)}

\* What can become of sign() on the token in slot s: login throws on a token
\* logged in already and on a wrong PIN; the private key's search, the
\* signature and the logout may fail.  The logout runs in any case, and its
\* failure replaces the result and leaves the token as it is.
SignInSlot(s, p) ==
  IF slot[s] = NoCard THEN {Outcome(NoCard, loggedIn, 0)}
  ELSE IF s \in loggedIn
  THEN {Outcome(NoCard, loggedIn \ {s}, 0), Outcome(NoCard, loggedIn, 1)}
  ELSE IF p # slot[s] THEN {Outcome(NoCard, loggedIn, 0)}
  ELSE {Outcome(slot[s], loggedIn, 0), Outcome(NoCard, loggedIn, 1),
        Outcome(NoCard, loggedIn \cup {s}, 1)}

\* provider.sign: the first session of the identity decides on the slot.
Sign(c, p) ==
  LET mine == {i \in DOMAIN sessions : sessions[i].card = c}
      first == CHOOSE i \in mine : \A j \in mine : i <= j
  IN  IF mine = {} THEN {Outcome(NoCard, loggedIn, 0)}
                   ELSE SignInSlot(sessions[first].slot, p)

Bump(f, r) == [f EXCEPT ![r] = @ + 1]

\* onSign of r's window: the signature goes to the hub, or a dialog says why
\* not (at once when there is no connection either).
OnSign(r, p) ==
  /\ window[r] \in {"open", "closing"}
  /\ MapThenSumSet(LAMBDA q : attempts[q], Requests) < MaxAttempts
  /\ Len(calls) < MaxCalls
  /\ attempts' = Bump(attempts, r)
  /\ \E o \in Sign(asked[r], p) :
       /\ loggedIn' = o.loggedIn
       /\ Spend(o.cost)
       /\ IF o.signer = NoCard THEN UNCHANGED <<calls, rejected>>
                               ELSE Invoke(Call("signature", r, o.signer, p))
       /\ failures' = IF o.signer = NoCard \/ ~online THEN Bump(failures, r)
                                                      ELSE failures
  /\ UNCHANGED <<online, results, received, asked, window, successes, slot,
                 sessions, cardOps>>

\* The Sign button with a PIN of four digits or more (whose PIN it is, right or
\* wrong, is the user's); it stays enabled while a signature is on its way.
Approve(r) == \E p \in Cards : OnSign(r, p)

\* The Enter key: its listener was bound when the window was mounted, and
\* signs with the empty PIN of that time whatever has been typed since.
PressEnter(r) == OnSign(r, NoCard)

-----------------------------------------------------------------------------
(* windows *)

\* The Cancel button or Esc: the answer goes out, then the window closes.
Cancel(r) ==
  /\ window[r] \in {"open", "closing"}
  /\ Len(calls) < MaxCalls
  /\ window' = [window EXCEPT ![r] = "closing"]
  /\ Invoke(Call("cancel", r, NoCard, NoCard))
  /\ UNCHANGED <<online, results, received, asked, toldVars, cardVars, faults, cardOps>>

\* The window closes itself once it hears that onSign has resolved.
CloseAfterSigning(r) ==
  /\ window[r] = "open"
  /\ successes[r] > 0
  /\ window' = [window EXCEPT ![r] = "closing"]
  /\ UNCHANGED <<hubVars, asked, toldVars, cardVars, faults, cardOps>>

\* A closing window is gone; or the desktop's close button ends one, without
\* an answer to the hub.
WindowGone(r) ==
  /\ \/ window[r] = "closing" /\ window' = [window EXCEPT ![r] = "closed"]
     \/ window[r] = "open" /\ window' = [window EXCEPT ![r] = "killed"]
  /\ UNCHANGED <<hubVars, asked, toldVars, cardVars, faults, cardOps>>

-----------------------------------------------------------------------------
(* invocations on their way to the hub and back *)

HubProcesses ==
  /\ online
  /\ Len(results) < Len(calls)
  /\ \/ /\ results' = Append(results, "ok")
        /\ received' = received \cup {calls[Len(results) + 1]}
        /\ UNCHANGED faults
     \/ /\ results' = Append(results, "failed")
        /\ Spend(1)
        /\ UNCHANGED received
  /\ UNCHANGED <<online, calls, rejected, asked, window, toldVars, cardVars, cardOps>>

\* The oldest invocation settles with result: a signature's dialog says how
\* it went, and failed certificates are followed by an error.
SettlesAs(result) ==
  LET c == Head(calls) IN
  /\ results # <<>>
  /\ successes' = IF c.kind = "signature" /\ result = "ok"
                  THEN Bump(successes, c.req) ELSE successes
  /\ failures' = IF c.kind = "signature" /\ result = "failed"
                 THEN Bump(failures, c.req) ELSE failures
  /\ rejected' = IF result = "failed" THEN rejected \cup {c} ELSE rejected
  /\ calls' = IF c.kind = "certs" /\ result = "failed"
              THEN Append(Tail(calls), Call("error", c.req, NoCard, NoCard))
              ELSE Tail(calls)
  /\ results' = Tail(results)
  /\ UNCHANGED <<online, received, asked, window, attempts, cardVars, faults, cardOps>>

\* Mutants: replySignature reports success whatever became of the invocation;
\* the reply methods leave a rejection uncaught; a result is used twice.
CallSettlesHappily == SettlesAs("ok")
CallSettlesUncaught ==
  /\ results # <<>>
  /\ calls' = Tail(calls) /\ results' = Tail(results)
  /\ successes' = IF Head(results) = "ok" /\ Head(calls).kind = "signature"
                  THEN Bump(successes, Head(calls).req) ELSE successes
  /\ UNCHANGED <<online, received, rejected, asked, window, attempts, failures,
                 cardVars, faults, cardOps>>
CallSettlesAgain ==
  /\ results # <<>> /\ calls # <<>>
  /\ calls' = Tail(calls)
  /\ UNCHANGED <<online, results, received, rejected, asked, window, toldVars,
                 cardVars, faults, cardOps>>

CallSettles == SettlesAs(Head(results))

SignaturesPending(r) ==
  Cardinality({i \in DOMAIN calls : calls[i].kind = "signature" /\ calls[i].req = r})

\* The connection is lost with every invocation on it; a rejected reply with
\* certificates is followed by an error, rejected at once.
LosingConnection(told) ==
  /\ online
  /\ Spend(1)
  /\ online' = FALSE
  /\ calls' = <<>> /\ results' = <<>>
  /\ rejected' = rejected \cup {calls[i] : i \in DOMAIN calls}
                          \cup {Call("error", calls[i].req, NoCard, NoCard) :
                                  i \in {j \in DOMAIN calls : calls[j].kind = "certs"}}
  /\ failures' = told
  /\ UNCHANGED <<received, asked, window, attempts, successes, cardVars, cardOps>>

\* Mutant: what was pending is forgotten with the connection.
ConnectionLostQuietly == LosingConnection(failures)

ConnectionLost ==
  LosingConnection([r \in Requests |-> failures[r] + SignaturesPending(r)])

Reconnected ==
  /\ ~online
  /\ online' = TRUE
  /\ UNCHANGED <<calls, results, received, rejected, asked, window, toldVars,
                 cardVars, faults, cardOps>>

-----------------------------------------------------------------------------
(* cards, and the provider's view of them, which may lag *)

\* A card comes into a slot or leaves it; a token pulled is logged out.
MoveCard(s) ==
  /\ \/ /\ slot[s] = NoCard
        /\ cardOps < MaxCardOps /\ cardOps' = cardOps + 1
        /\ \E c \in Cards : /\ \A t \in Slots : slot[t] # c
                            /\ slot' = [slot EXCEPT ![s] = c]
     \/ /\ slot[s] # NoCard
        /\ slot' = [slot EXCEPT ![s] = NoCard]
        /\ UNCHANGED cardOps
  /\ loggedIn' = loggedIn \ {s}
  /\ UNCHANGED <<hubVars, asked, window, toldVars, sessions, faults>>

\* onTokenInsert finds a card whose slot has no provider yet.
NoticeCard(s) ==
  /\ slot[s] # NoCard
  /\ \A i \in DOMAIN sessions : sessions[i].slot # s
  /\ sessions' = Append(sessions, [card |-> slot[s], slot |-> s])
  /\ UNCHANGED <<hubVars, asked, window, toldVars, slot, loggedIn, faults, cardOps>>

\* onTokenRemove drops sessions, those of cards still present included: what
\* stays is a subsequence.
NoticeRemoval ==
  /\ sessions # <<>>
  /\ \E n \in 0 .. Len(sessions) : \E at \in [1 .. n -> DOMAIN sessions] :
       /\ \A i, j \in 1 .. n : i < j => at[i] < at[j]
       /\ sessions' = [i \in 1 .. n |-> sessions[at[i]]]
  /\ UNCHANGED <<hubVars, asked, window, toldVars, slot, loggedIn, faults,
                 cardOps>>

-----------------------------------------------------------------------------

Next ==
  \/ \E r \in Requests :
       \/ RequestSigningCert(r) \/ RequestSignature(r)
       \/ Approve(r) \/ PressEnter(r)
       \/ Cancel(r) \/ CloseAfterSigning(r) \/ WindowGone(r)
  \/ HubProcesses \/ CallSettles \/ ConnectionLost \/ Reconnected
  \/ \E s \in Slots : MoveCard(s) \/ NoticeCard(s)
  \/ NoticeRemoval

\* The hub answers on a live connection, answers are delivered, and a window
\* reacts to a resolved onSign.  Nobody has to sign, cancel or close.
Fairness ==
  /\ WF_vars(HubProcesses)
  /\ WF_vars(CallSettles)
  /\ \A r \in Requests : WF_vars(CloseAfterSigning(r))

Spec == Init /\ [][Next]_vars /\ Fairness

-----------------------------------------------------------------------------
(* properties *)

Sent == {calls[i] : i \in DOMAIN calls} \cup received \cup rejected

\* Every signature that leaves the program was made by a card whose own PIN was
\* given in the very attempt that made it, although a failed logout may leave
\* a token logged in for the attempts after it.
SignedWithThePin ==
  \A x \in Sent : x.kind = "signature" => x.signer # NoCard /\ x.pin = x.signer

\* The user is told that a document was signed only when the hub has accepted
\* a signature for that request.
SuccessIsReal ==
  \A r \in Requests : successes[r] > 0 =>
    \E x \in received : x.kind = "signature" /\ x.req = r

\* The signatures for r that the hub has accepted and nobody was told of.
SignaturesAccepted(r) ==
  Cardinality({i \in DOMAIN results : /\ results[i] = "ok"
                                      /\ calls[i].kind = "signature" /\ calls[i].req = r})

Promise == INSTANCE SigningPromise WITH
  sent <- [r \in Requests |-> SignaturesPending(r) - SignaturesAccepted(r)],
  accepted <- [r \in Requests |-> SignaturesAccepted(r)]

\* SignatureFlow implements SigningPromise: each attempt is on its way or was
\* answered by one dialog, and every success is that of a signature of its own
\* that the hub has accepted, whatever becomes of the connection.
ImplementsPromise == Promise!Spec

\* Nobody is left waiting: each attempt is told, and a window whose request was
\* signed does not stay.
AttemptsSettle ==
  \A r \in Requests :
    /\ []<>(attempts[r] = successes[r] + failures[r])
    /\ successes[r] > 0 ~> window[r] \notin {"open"}

Settled(kind, r) == Call(kind, r, NoCard, NoCard) \in received \cup rejected

\* A request that opens no window is answered, with certificates or with an error
\* that came while they were collected, and after certificates that were rejected
\* the error is sent too: each answer is processed, or rejected, in the end.
CertsAnswered ==
  \A r \in Requests :
    /\ asked[r] # NoCard /\ window[r] = "none" ~> Settled("certs", r) \/ Settled("error", r)
    /\ Call("certs", r, NoCard, NoCard) \in rejected ~> Settled("error", r)
=============================================================================
