------------------------- MODULE SignatureFlowProofs -------------------------
(***************************************************************************)
(* Theorems about SignatureFlow, for any requests, cards, slots and        *)
(* bounds: what leaves the program as a signature, and what its user is    *)
(* told.  Nothing is assumed of the provider's sessions or of the tokens.  *)
(***************************************************************************)
EXTENDS SignatureFlow, FiniteSetTheorems, SequenceTheorems,
        WellFoundedInduction, TLAPS

-----------------------------------------------------------------------------
(* the invocations *)

\* Types of what the theorems are about, and the hub's part of the protocol: an
\* invocation that it accepted is one that it has received.
CallsInv ==
  /\ calls \in Seq(Calls)
  /\ results \in Seq({"ok", "failed"}) /\ Len(results) <= Len(calls)
  /\ asked \in [Requests -> MaybeCard]
  /\ window \in [Requests -> {"none", "open", "closing", "closed", "killed"}]
  /\ successes \in [Requests -> Nat]
  /\ \A i \in 1 .. Len(results) : results[i] = "ok" => calls[i] \in received

\* What an invocation does.
Invokes(c) ==
  \/ calls' = Append(calls, c) /\ rejected' = rejected
  \/ calls' = calls /\ rejected' = rejected \cup {c}

LEMMA InvokeInvokes ==
  ASSUME NEW c, Invoke(c)
  PROVE  Invokes(c)
  BY DEF Invoke, Invokes

\* An invocation adds to what was sent, and disturbs nothing that is under way.
LEMMA InvokesFacts ==
  ASSUME CallsInv, NEW c \in Calls, Invokes(c), UNCHANGED <<results, received>>
  PROVE  /\ calls' \in Seq(Calls) /\ Len(results) <= Len(calls')
         /\ \A i \in 1 .. Len(results') : results'[i] = "ok" => calls'[i] \in received'
         /\ Sent' = Sent \cup {c}
<1>1. CASE calls' = Append(calls, c) /\ rejected' = rejected
  <2>1. /\ calls' \in Seq(Calls) /\ Len(calls') = Len(calls) + 1
        /\ DOMAIN calls = 1 .. Len(calls) /\ DOMAIN calls' = 1 .. Len(calls')
        /\ \A i \in 1 .. Len(calls) : calls'[i] = calls[i]
        /\ calls'[Len(calls) + 1] = c
        /\ Len(calls) \in Nat /\ Len(results) \in Nat
    BY <1>1 DEF CallsInv
  <2>2. {calls'[i] : i \in DOMAIN calls'} = {calls[i] : i \in DOMAIN calls} \cup {c}
    BY <2>1
  <2>3. \A i \in 1 .. Len(results) : calls'[i] = calls[i]
    BY <2>1 DEF CallsInv
  <2>4. Sent' = Sent \cup {c}
    BY <1>1, <2>2, Zenon DEF Sent
  <2>5. \A i \in 1 .. Len(results') : results'[i] = "ok" => calls'[i] \in received'
    BY <2>3 DEF CallsInv
  <2> QED BY <2>1, <2>4, <2>5 DEF CallsInv
<1>2. CASE calls' = calls /\ rejected' = rejected \cup {c}
  BY <1>2 DEF CallsInv, Sent
<1> QED BY <1>1, <1>2 DEF Invokes

LEMMA CallIsCall ==
  ASSUME NEW kind \in {"signature", "cancel", "error", "certs"}, NEW r \in Requests,
         NEW s \in MaybeCard, NEW p \in MaybeCard
  PROVE  /\ Call(kind, r, s, p) \in Calls
         /\ Call(kind, r, s, p).kind = kind /\ Call(kind, r, s, p).req = r
         /\ Call(kind, r, s, p).signer = s /\ Call(kind, r, s, p).pin = p
  BY DEF Call, Calls

-----------------------------------------------------------------------------
(* signing *)

\* A signature that comes out of a slot was made by the card in it, with its PIN.
LEMMA SlotSigns ==
  ASSUME NEW s, NEW p, NEW o \in SignInSlot(s, p), o.signer # NoCard
  PROVE  o.signer = p
<1>1. CASE slot[s] = NoCard
  BY <1>1 DEF SignInSlot, Outcome
<1>2. CASE slot[s] # NoCard /\ s \in loggedIn
  BY <1>2 DEF SignInSlot, Outcome
<1>3. CASE slot[s] # NoCard /\ s \notin loggedIn /\ p # slot[s]
  BY <1>3 DEF SignInSlot, Outcome
<1>4. CASE slot[s] # NoCard /\ s \notin loggedIn /\ p = slot[s]
  BY <1>4 DEF SignInSlot, Outcome
<1> QED BY <1>1, <1>2, <1>3, <1>4

LEMMA SignSigns ==
  ASSUME NEW c, NEW p, NEW o \in Sign(c, p), o.signer # NoCard
  PROVE  o.signer = p
<1> DEFINE mine == {i \in DOMAIN sessions : sessions[i].card = c}
           first == CHOOSE i \in mine : \A j \in mine : i <= j
<1>1. CASE mine = {}
  BY <1>1 DEF Sign, Outcome
<1>2. CASE mine # {}
  <2>1. o \in SignInSlot(sessions[first].slot, p)
    BY <1>2 DEF Sign
  <2> QED BY <2>1, SlotSigns
<1> QED BY <1>1, <1>2

\* An attempt to sign sends nothing, or a signature made with the PIN it was given.
LEMMA OnSignSends ==
  ASSUME NEW r \in Requests, NEW p \in MaybeCard, OnSign(r, p)
  PROVE  /\ \/ UNCHANGED <<calls, rejected>>
            \/ p # NoCard /\ Invokes(Call("signature", r, p, p))
         /\ UNCHANGED <<results, received, asked, window, successes>>
<1>1. PICK o \in Sign(asked[r], p) :
        IF o.signer = NoCard THEN UNCHANGED <<calls, rejected>>
                             ELSE Invoke(Call("signature", r, o.signer, p))
  BY Zenon DEF OnSign
<1>2. CASE o.signer = NoCard
  BY <1>1, <1>2, Zenon DEF OnSign
<1>3. CASE o.signer # NoCard
  <2>1. o.signer = p
    BY <1>3, SignSigns
  <2>2. Invoke(Call("signature", r, p, p))
    BY <1>1, <1>3, <2>1
  <2> QED BY <1>3, <2>1, <2>2, InvokeInvokes, Zenon DEF OnSign
<1> QED BY <1>2, <1>3

-----------------------------------------------------------------------------
(* steps *)

WithItsPin(x) == x.kind = "signature" => x.signer # NoCard /\ x.pin = x.signer

\* Nothing that was sent or received is taken back, and what is sent in addition
\* has its PIN.
Grows ==
  /\ received \subseteq received' /\ Sent \subseteq Sent'
  /\ \A x \in Sent' : x \in Sent \/ WithItsPin(x)

\* Steps that send one thing, or nothing.
LEMMA SendingStep ==
  ASSUME CallsInv, UNCHANGED <<results, received>>,
         \/ UNCHANGED <<calls, rejected>>
         \/ \E c \in Calls : Invokes(c) /\ WithItsPin(c)
  PROVE  /\ calls' \in Seq(Calls) /\ Len(results') <= Len(calls')
         /\ \A i \in 1 .. Len(results') : results'[i] = "ok" => calls'[i] \in received'
         /\ Grows
<1>1. CASE UNCHANGED <<calls, rejected>>
  BY <1>1 DEF CallsInv, Grows, Sent
<1>2. ASSUME NEW c \in Calls, Invokes(c), WithItsPin(c)
      PROVE  /\ calls' \in Seq(Calls) /\ Len(results') <= Len(calls')
             /\ \A i \in 1 .. Len(results') : results'[i] = "ok" => calls'[i] \in received'
             /\ Grows
  BY <1>2, InvokesFacts DEF Grows
<1> QED BY <1>1, <1>2

LEMMA RequestStep ==
  ASSUME CallsInv, NEW r \in Requests, RequestSigningCert(r) \/ RequestSignature(r) \/ Cancel(r)
  PROVE  CallsInv' /\ Grows
<1>1. \A kind \in {"cancel", "error", "certs"} :
        LET c == Call(kind, r, NoCard, NoCard) IN c \in Calls /\ WithItsPin(c)
  BY CallIsCall DEF WithItsPin, MaybeCard
<1>2. /\ UNCHANGED <<results, received, successes>>
      /\ \/ UNCHANGED <<calls, rejected>>
         \/ \E kind \in {"cancel", "error", "certs"} : Invokes(Call(kind, r, NoCard, NoCard))
  BY InvokeInvokes, Zenon DEF RequestSigningCert, RequestSignature, Cancel, toldVars
<1>3. /\ asked' \in [Requests -> MaybeCard]
      /\ window' \in [Requests -> {"none", "open", "closing", "closed", "killed"}]
  BY DEF RequestSigningCert, RequestSignature, Cancel, CallsInv, MaybeCard
<1> QED BY <1>1, <1>2, <1>3, SendingStep DEF CallsInv

LEMMA SigningStep ==
  ASSUME CallsInv, NEW r \in Requests, Approve(r) \/ PressEnter(r)
  PROVE  CallsInv' /\ Grows
<1>1. PICK p \in MaybeCard : OnSign(r, p)
  BY Zenon DEF Approve, PressEnter, MaybeCard
<1>2. /\ \/ UNCHANGED <<calls, rejected>>
         \/ p # NoCard /\ Invokes(Call("signature", r, p, p))
      /\ UNCHANGED <<results, received, asked, window, successes>>
  BY <1>1, OnSignSends
<1>3. p # NoCard => Call("signature", r, p, p) \in Calls /\ WithItsPin(Call("signature", r, p, p))
  BY CallIsCall DEF WithItsPin
<1> QED BY <1>2, <1>3, SendingStep DEF CallsInv

\* Windows that close and cards that move send nothing.
LEMMA QuietStep ==
  ASSUME CallsInv,
         \/ \E r \in Requests : CloseAfterSigning(r) \/ WindowGone(r)
         \/ Reconnected \/ NoticeRemoval
         \/ \E s \in Slots : MoveCard(s) \/ NoticeCard(s)
         \/ UNCHANGED vars
  PROVE  CallsInv' /\ Grows
<1>1. UNCHANGED <<calls, results, received, rejected, asked, successes>>
  BY Zenon DEF CloseAfterSigning, WindowGone, Reconnected, NoticeRemoval, MoveCard, NoticeCard,
               hubVars, toldVars, vars
<1>2. window' \in [Requests -> {"none", "open", "closing", "closed", "killed"}]
  <2>1. \/ window' = window
        \/ \E r \in Requests, w \in {"closing", "closed", "killed"} :
             window' = [window EXCEPT ![r] = w]
    BY Zenon DEF CloseAfterSigning, WindowGone, Reconnected, NoticeRemoval, MoveCard, NoticeCard,
                 vars
  <2> QED BY <2>1 DEF CallsInv
<1> QED BY <1>1, <1>2, SendingStep DEF CallsInv

LEMMA ProcessStep ==
  ASSUME CallsInv, HubProcesses
  PROVE  CallsInv' /\ Grows
<1>1. PICK result \in {"ok", "failed"} :
        /\ results' = Append(results, result)
        /\ received' = received \cup (IF result = "ok" THEN {calls[Len(results) + 1]} ELSE {})
  BY DEF HubProcesses
<1>2. Len(results) < Len(calls) /\ UNCHANGED <<calls, rejected, asked, window, successes>>
  BY DEF HubProcesses, toldVars
<1>3. calls[Len(results) + 1] \in {calls[i] : i \in DOMAIN calls}
  BY <1>2 DEF CallsInv
<1>4. Sent' = Sent
  BY <1>1, <1>2, <1>3 DEF Sent
<1>5. /\ results' \in Seq({"ok", "failed"}) /\ Len(results') = Len(results) + 1
      /\ \A i \in 1 .. Len(results) : results'[i] = results[i]
      /\ results'[Len(results) + 1] = result /\ Len(results) \in Nat
  BY <1>1 DEF CallsInv
<1>6. \A i \in 1 .. Len(results') : results'[i] = "ok" => calls'[i] \in received'
  BY <1>1, <1>2, <1>5 DEF CallsInv
<1>7. received \subseteq received'
  BY <1>1
<1>8. Len(results') <= Len(calls')
  BY <1>2, <1>5 DEF CallsInv
<1> QED BY <1>2, <1>4, <1>5, <1>6, <1>7, <1>8 DEF CallsInv, Grows

LEMMA LostStep ==
  ASSUME CallsInv, ConnectionLost
  PROVE  CallsInv' /\ Grows
<1>1. /\ calls' = <<>> /\ results' = <<>> /\ UNCHANGED <<received, asked, window, successes>>
      /\ rejected' = rejected \cup {calls[i] : i \in DOMAIN calls}
                              \cup {Call("error", calls[i].req, NoCard, NoCard) :
                                      i \in {j \in DOMAIN calls : calls[j].kind = "certs"}}
  BY Zenon DEF ConnectionLost, LosingConnection
<1>2. CallsInv'
  BY <1>1 DEF CallsInv
<1>3. \A r : WithItsPin(Call("error", r, NoCard, NoCard))
  BY DEF WithItsPin, Call
<1>4. \A x \in Sent' : x \in Sent \/ WithItsPin(x)
  BY <1>1, <1>3 DEF Sent
<1>5. Sent \subseteq Sent'
  BY <1>1 DEF Sent
<1> QED BY <1>1, <1>2, <1>4, <1>5 DEF Grows

\* The oldest invocation settles: it was accepted, and then it was received, or it
\* failed, and then it is among the rejected.
LEMMA SettleStep ==
  ASSUME CallsInv, CallSettles
  PROVE  /\ CallsInv' /\ Grows
         /\ window' = window
         /\ \A r \in Requests : successes'[r] # successes[r] =>
              \E x \in received : x.kind = "signature" /\ x.req = r
<1> DEFINE c == Head(calls)  result == Head(results)
           e == Call("error", c.req, NoCard, NoCard)
<1>1. /\ results # <<>> /\ results' = Tail(results)
      /\ successes' = IF c.kind = "signature" /\ result = "ok"
                      THEN Bump(successes, c.req) ELSE successes
      /\ rejected' = IF result = "failed" THEN rejected \cup {c} ELSE rejected
      /\ calls' = IF c.kind = "certs" /\ result = "failed"
                  THEN Append(Tail(calls), e) ELSE Tail(calls)
      /\ UNCHANGED <<received, asked, window>>
  BY Zenon DEF CallSettles, SettlesAs
<1>2. /\ calls # <<>> /\ c = calls[1] /\ c \in Calls /\ 1 \in DOMAIN calls
      /\ result = results[1] /\ result \in {"ok", "failed"} /\ 1 \in 1 .. Len(results)
      /\ Len(calls) \in Nat /\ Len(results) \in Nat
  BY <1>1 DEF CallsInv
<1>3. result = "ok" => c \in received
  BY <1>2 DEF CallsInv
<1>4. e \in Calls /\ WithItsPin(e)
  <2>1. c.req \in Requests
    BY <1>2 DEF Calls
  <2> QED BY <2>1, CallIsCall DEF WithItsPin, MaybeCard
<1>5. c.req \in Requests
  BY <1>2 DEF Calls
<1> HIDE DEF c, result, e
<1>6. /\ Tail(calls) \in Seq(Calls) /\ Len(Tail(calls)) = Len(calls) - 1
      /\ \A i \in 1 .. Len(calls) - 1 : Tail(calls)[i] = calls[i + 1]
  BY <1>2 DEF CallsInv
<1>7. /\ calls' \in Seq(Calls) /\ Len(calls') \in {Len(calls) - 1, Len(calls)}
      /\ \A i \in 1 .. Len(calls) - 1 : calls'[i] = calls[i + 1]
      /\ \A i \in DOMAIN calls' : i \in 1 .. Len(calls) - 1 \/ calls'[i] = e
      /\ DOMAIN calls' = 1 .. Len(calls') /\ DOMAIN calls = 1 .. Len(calls)
  <2>1. CASE calls' = Tail(calls)
    BY <1>2, <1>6, <2>1 DEF CallsInv
  <2>2. CASE calls' = Append(Tail(calls), e)
    BY <1>2, <1>4, <1>6, <2>2 DEF CallsInv
  <2> QED BY <1>1, <2>1, <2>2
<1>8. /\ results' \in Seq({"ok", "failed"}) /\ Len(results') = Len(results) - 1
      /\ \A i \in 1 .. Len(results') : results'[i] = results[i + 1]
  BY <1>1, <1>2 DEF CallsInv
<1>9. ASSUME NEW i \in 1 .. Len(results'), results'[i] = "ok"
      PROVE  calls'[i] \in received'
  <2>1. Len(results) <= Len(calls) /\ i + 1 \in 1 .. Len(results) /\ i \in 1 .. Len(calls) - 1
    BY <1>2, <1>8 DEF CallsInv
  <2>2. results[i + 1] = "ok" /\ calls'[i] = calls[i + 1]
    BY <1>7, <1>8, <1>9, <2>1
  <2> QED BY <1>1, <2>1, <2>2 DEF CallsInv
<1>10. Len(results') <= Len(calls')
  <2>1. Len(results) <= Len(calls)
    BY DEF CallsInv
  <2>2. Len(calls') = Len(calls) - 1 \/ Len(calls') = Len(calls)
    BY <1>7
  <2> QED BY <1>2, <1>8, <2>1, <2>2
<1>11. successes' \in [Requests -> Nat]
  BY <1>1, <1>5 DEF Bump, CallsInv
<1>12. CallsInv'
  BY <1>1, <1>7, <1>8, <1>9, <1>10, <1>11 DEF CallsInv
<1>13. Sent \subseteq Sent'
  <2> SUFFICES ASSUME NEW x \in Sent PROVE x \in Sent'
    OBVIOUS
  <2>1. CASE x \in received \cup rejected
    BY <1>1, <2>1 DEF Sent
  <2>2. CASE \E i \in DOMAIN calls : x = calls[i]
    <3>1. PICK i \in DOMAIN calls : x = calls[i]
      BY <2>2
    <3>2. CASE i = 1
      BY <1>1, <1>2, <1>3, <3>1, <3>2 DEF Sent
    <3>3. CASE i # 1
      <4>1. i - 1 \in DOMAIN calls' /\ calls'[i - 1] = x
        <5>1. i \in 1 .. Len(calls)
          BY <1>7, <3>1
        <5>2. i - 1 \in 1 .. Len(calls) - 1 /\ (i - 1) + 1 = i
          BY <1>2, <3>3, <5>1
        <5>3. calls'[i - 1] = calls[(i - 1) + 1]
          BY <1>7, <5>2
        <5>4. i - 1 \in 1 .. Len(calls')
          <6>1. Len(calls') = Len(calls) - 1 \/ Len(calls') = Len(calls)
            BY <1>7
          <6> QED BY <1>2, <5>2, <6>1
        <5> QED BY <1>7, <3>1, <5>2, <5>3, <5>4
      <4> QED BY <4>1 DEF Sent
    <3> QED BY <3>2, <3>3
  <2> QED BY <2>1, <2>2 DEF Sent
<1>14. ASSUME NEW x \in Sent' PROVE x \in Sent \/ WithItsPin(x)
  <2>1. CASE x \in received' \cup rejected'
    BY <1>1, <1>2, <2>1 DEF Sent
  <2>2. CASE \E i \in DOMAIN calls' : x = calls'[i]
    <3>1. PICK i \in DOMAIN calls' : x = calls'[i]
      BY <2>2
    <3>2. CASE i \in 1 .. Len(calls) - 1
      <4>1. i + 1 \in DOMAIN calls /\ x = calls[i + 1]
        <5>1. i + 1 \in 1 .. Len(calls)
          BY <1>2, <3>2
        <5>2. calls'[i] = calls[i + 1]
          BY <1>7, <3>2
        <5> QED BY <1>7, <3>1, <5>1, <5>2
      <4> QED BY <4>1 DEF Sent
    <3> QED BY <1>4, <1>7, <3>1, <3>2
  <2> QED BY <2>1, <2>2 DEF Sent
<1>15. \A r \in Requests : successes'[r] # successes[r] =>
         \E x \in received : x.kind = "signature" /\ x.req = r
  BY <1>1, <1>3, <1>5 DEF Bump, CallsInv
<1> QED BY <1>1, <1>12, <1>13, <1>14, <1>15 DEF Grows

LEMMA NextCalls == CallsInv /\ [Next]_vars => CallsInv' /\ Grows
  BY RequestStep, SigningStep, QuietStep, ProcessStep, SettleStep, LostStep, Zenon DEF Next

LEMMA InitCalls == Init => CallsInv
  BY DEF Init, CallsInv, MaybeCard

-----------------------------------------------------------------------------
(* what the user is told *)

LEMMA NextSuccess == CallsInv /\ SuccessIsReal /\ [Next]_vars => SuccessIsReal'
<1> SUFFICES ASSUME CallsInv, SuccessIsReal, [Next]_vars PROVE SuccessIsReal'
  OBVIOUS
<1>1. received \subseteq received'
  BY NextCalls DEF Grows
<1>2. CASE CallSettles
  BY <1>1, <1>2, SettleStep DEF SuccessIsReal
<1>3. CASE UNCHANGED successes
  BY <1>1, <1>3 DEF SuccessIsReal
<1>4. CallSettles \/ UNCHANGED successes
  BY Zenon DEF Next, RequestSigningCert, RequestSignature, Approve, PressEnter, OnSign, Cancel,
     CloseAfterSigning, WindowGone, HubProcesses, ConnectionLost, LosingConnection, Reconnected,
     MoveCard, NoticeCard, NoticeRemoval, toldVars, vars
<1> QED BY <1>2, <1>3, <1>4

-----------------------------------------------------------------------------
(* the number of dialogs *)

\* The signatures for r among the invocations of s.
Pending(s, r) == {i \in DOMAIN s : s[i].kind = "signature" /\ s[i].req = r}

IsFor(c, r) == c.kind = "signature" /\ c.req = r

LEMMA PendingFinite ==
  ASSUME NEW S, NEW s \in Seq(S), NEW r
  PROVE  IsFiniteSet(Pending(s, r)) /\ Cardinality(Pending(s, r)) \in Nat
<1>1. DOMAIN s = 1 .. Len(s) /\ Len(s) \in Nat
  OBVIOUS
<1>2. IsFiniteSet(1 .. Len(s))
  BY <1>1, FS_Interval
<1>3. Pending(s, r) \in SUBSET (1 .. Len(s))
  BY <1>1 DEF Pending
<1> QED BY <1>2, <1>3, FS_Subset, FS_CardinalityType

LEMMA PendingAppend ==
  ASSUME NEW S, NEW s \in Seq(S), NEW c \in S, NEW r
  PROVE  Cardinality(Pending(Append(s, c), r)) =
           Cardinality(Pending(s, r)) + (IF IsFor(c, r) THEN 1 ELSE 0)
<1> DEFINE t == Append(s, c)
<1>1. /\ DOMAIN s = 1 .. Len(s) /\ Len(s) \in Nat /\ DOMAIN t = 1 .. Len(s) + 1
      /\ \A i \in 1 .. Len(s) : t[i] = s[i]
      /\ t[Len(s) + 1] = c
  OBVIOUS
<1> HIDE DEF t
<1>2. CASE IsFor(c, r)
  <2>1. Pending(t, r) = Pending(s, r) \cup {Len(s) + 1}
    BY <1>1, <1>2 DEF Pending, IsFor
  <2>2. Len(s) + 1 \notin Pending(s, r)
    BY <1>1 DEF Pending
  <2> QED BY <1>2, <2>1, <2>2, PendingFinite, FS_AddElement DEF t
<1>3. CASE ~IsFor(c, r)
  <2>1. Pending(t, r) = Pending(s, r)
    BY <1>1, <1>3 DEF Pending, IsFor
  <2> QED BY <1>3, <2>1, PendingFinite DEF t
<1> QED BY <1>2, <1>3

LEMMA PendingTail ==
  ASSUME NEW S, NEW s \in Seq(S), s # <<>>, NEW r
  PROVE  Cardinality(Pending(s, r)) =
           Cardinality(Pending(Tail(s), r)) + (IF IsFor(Head(s), r) THEN 1 ELSE 0)
<1> DEFINE t == Tail(s)
           rest == Pending(s, r) \ {1}
           f == [i \in rest |-> i - 1]
<1>1. /\ DOMAIN s = 1 .. Len(s) /\ Len(s) \in Nat \ {0} /\ DOMAIN t = 1 .. Len(s) - 1
      /\ \A i \in 1 .. Len(s) - 1 : t[i] = s[i + 1]
      /\ Head(s) = s[1] /\ t \in Seq(S)
  OBVIOUS
<1> HIDE DEF t
<1>2. \A i \in rest : i \in 2 .. Len(s) /\ i - 1 \in Pending(t, r)
  <2> SUFFICES ASSUME NEW i \in rest
               PROVE  i \in 2 .. Len(s) /\ i - 1 \in Pending(t, r)
    OBVIOUS
  <2>1. i \in 2 .. Len(s) /\ s[i].kind = "signature" /\ s[i].req = r
    BY <1>1 DEF Pending
  <2>2. i - 1 \in 1 .. Len(s) - 1 /\ (i - 1) + 1 = i
    BY <1>1, <2>1
  <2>3. t[i - 1] = s[i]
    BY <1>1, <2>2
  <2> QED BY <1>1, <2>1, <2>2, <2>3 DEF Pending
<1>3. \A j \in Pending(t, r) : j + 1 \in rest /\ (j + 1) - 1 = j
  BY <1>1 DEF Pending
<1>4. f \in Bijection(rest, Pending(t, r))
  <2>1. f \in [rest -> Pending(t, r)]
    BY <1>2
  <2>2. \A i, j \in rest : f[i] = f[j] => i = j
    BY <1>2
  <2>3. \A j \in Pending(t, r) : \E i \in rest : f[i] = j
    <3> SUFFICES ASSUME NEW j \in Pending(t, r) PROVE \E i \in rest : f[i] = j
      OBVIOUS
    <3>1. j + 1 \in rest /\ (j + 1) - 1 = j
      BY <1>3
    <3>2. f[j + 1] = j
      BY <3>1
    <3> QED BY <3>1, <3>2
  <2> HIDE DEF f, rest
  <2>4. DOMAIN f = rest
    BY <2>1
  <2> QED BY <2>1, <2>2, <2>3, <2>4 DEF Bijection, Injection, Surjection, IsInjective
<1>5. IsFiniteSet(Pending(s, r)) /\ Cardinality(Pending(s, r)) \in Nat
  BY PendingFinite
<1>6. IsFiniteSet(rest)
  BY <1>5, FS_RemoveElement
<1>7. Cardinality(Pending(t, r)) = Cardinality(rest)
  BY <1>4, <1>6, FS_Bijection DEF ExistsBijection
<1>8. 1 \in Pending(s, r) <=> IsFor(Head(s), r)
  BY <1>1 DEF Pending, IsFor
<1>9. Cardinality(rest) = IF 1 \in Pending(s, r) THEN Cardinality(Pending(s, r)) - 1
                                                ELSE Cardinality(Pending(s, r))
  BY <1>5, FS_RemoveElement
<1> QED BY <1>5, <1>7, <1>8, <1>9 DEF t

LEMMA PendingSignatures ==
  /\ \A r : SignaturesPending(r) = Cardinality(Pending(calls, r))
  /\ \A r : SignaturesPending(r)' = Cardinality(Pending(calls', r))
  BY DEF SignaturesPending, Pending

\* One more of a number, at one request.
LEMMA BumpFacts ==
  ASSUME NEW f \in [Requests -> Nat], NEW r \in Requests
  PROVE  /\ Bump(f, r) \in [Requests -> Nat]
         /\ \A q \in Requests : Bump(f, r)[q] = f[q] + (IF q = r THEN 1 ELSE 0)
  BY DEF Bump

\* Every attempt to sign is either still on its way to the hub or was answered
\* by exactly one dialog, whatever became of the connection in between.
EveryAttemptIsTold ==
  \A r \in Requests :
    attempts[r] = successes[r] + failures[r] + SignaturesPending(r)

\* The numbers that EveryAttemptIsTold is about.
ToldInv ==
  /\ attempts \in [Requests -> Nat] /\ failures \in [Requests -> Nat]
  /\ EveryAttemptIsTold

\* The balance is kept for each request by itself.
LEMMA Balance ==
  ASSUME CallsInv, ToldInv, attempts' \in [Requests -> Nat], failures' \in [Requests -> Nat],
         \A q \in Requests :
           attempts'[q] = successes'[q] + failures'[q] + SignaturesPending(q)'
  PROVE  ToldInv'
  BY DEF ToldInv, EveryAttemptIsTold

LEMMA Numbers ==
  ASSUME CallsInv, ToldInv, NEW q \in Requests
  PROVE  /\ attempts[q] \in Nat /\ successes[q] \in Nat /\ failures[q] \in Nat
         /\ SignaturesPending(q) \in Nat
         /\ attempts[q] = successes[q] + failures[q] + SignaturesPending(q)
<1>1. SignaturesPending(q) \in Nat
  BY PendingSignatures, PendingFinite DEF CallsInv
<1> QED BY <1>1 DEF CallsInv, ToldInv, EveryAttemptIsTold

\* Steps that send anything but a signature, and tell nobody anything.
LEMMA OtherStep ==
  ASSUME CallsInv, ToldInv, UNCHANGED <<attempts, successes, failures>>,
         \/ UNCHANGED calls
         \/ \E c \in Calls : c.kind # "signature" /\ calls' = Append(calls, c)
  PROVE  ToldInv'
<1>1. CASE UNCHANGED calls
  BY <1>1 DEF ToldInv, EveryAttemptIsTold, SignaturesPending
<1>2. ASSUME NEW c \in Calls, c.kind # "signature", calls' = Append(calls, c)
      PROVE  ToldInv'
  <2>1. \A r : Cardinality(Pending(calls', r)) = Cardinality(Pending(calls, r)) + 0
    BY <1>2, PendingAppend DEF CallsInv, IsFor
  <2>2. \A r : Cardinality(Pending(calls, r)) \in Nat
    BY PendingFinite DEF CallsInv
  <2>3. \A r : SignaturesPending(r)' = SignaturesPending(r)
    BY <2>1, <2>2, PendingSignatures
  <2> QED BY <1>2, <2>3 DEF ToldInv, EveryAttemptIsTold
<1> QED BY <1>1, <1>2

\* An attempt either sends a signature or ends in a dialog, never both.
LEMMA AttemptStep ==
  ASSUME CallsInv, ToldInv, NEW r \in Requests, NEW p \in MaybeCard, OnSign(r, p)
  PROVE  ToldInv'
<1>1. PICK o \in Sign(asked[r], p) :
        /\ IF o.signer = NoCard THEN UNCHANGED <<calls, rejected>>
                                ELSE Invoke(Call("signature", r, o.signer, p))
        /\ failures' = IF o.signer = NoCard \/ ~online THEN Bump(failures, r) ELSE failures
  BY Zenon DEF OnSign
<1>2. attempts' = Bump(attempts, r) /\ successes' = successes
  BY Zenon DEF OnSign
<1>3. \A q : SignaturesPending(q) \in Nat
  BY PendingSignatures, PendingFinite DEF CallsInv
<1>4. CASE o.signer = NoCard \/ ~online
  <2>1. calls' = calls /\ failures' = Bump(failures, r)
    BY <1>1, <1>4 DEF Invoke
  <2>2. \A q : SignaturesPending(q)' = SignaturesPending(q)
    BY <2>1, PendingSignatures
  <2>3. /\ attempts' \in [Requests -> Nat] /\ failures' \in [Requests -> Nat]
        /\ \A q \in Requests : /\ attempts'[q] = attempts[q] + (IF q = r THEN 1 ELSE 0)
                             /\ failures'[q] = failures[q] + (IF q = r THEN 1 ELSE 0)
    BY <1>2, <2>1, BumpFacts DEF ToldInv
  <2>5. ASSUME NEW q \in Requests
        PROVE  attempts'[q] = successes'[q] + failures'[q] + SignaturesPending(q)'
    BY <1>2, <2>2, <2>3, Numbers
  <2> QED BY <2>3, <2>5, Balance
<1>5. CASE o.signer # NoCard /\ online
  <2> DEFINE c == Call("signature", r, p, p)
  <2>1. c \in Calls /\ \A q : IsFor(c, q) <=> q = r
    BY CallIsCall DEF IsFor
  <2>2. calls' = Append(calls, c) /\ failures' = failures
    BY <1>1, <1>5, SignSigns DEF Invoke
  <2> HIDE DEF c
  <2>3. \A q : SignaturesPending(q)' = SignaturesPending(q) + (IF q = r THEN 1 ELSE 0)
    <3>1. \A q : Cardinality(Pending(calls', q)) =
                   Cardinality(Pending(calls, q)) + (IF IsFor(c, q) THEN 1 ELSE 0)
      BY <2>1, <2>2, PendingAppend DEF CallsInv
    <3> QED BY <2>1, <3>1, PendingSignatures
  <2>4. /\ attempts' \in [Requests -> Nat] /\ failures' \in [Requests -> Nat]
        /\ UNCHANGED <<successes, failures>>
        /\ \A q \in Requests : attempts'[q] = attempts[q] + (IF q = r THEN 1 ELSE 0)
    BY <1>2, <2>2, BumpFacts DEF ToldInv
  <2>5. ASSUME NEW q \in Requests
        PROVE  attempts'[q] = successes'[q] + failures'[q] + SignaturesPending(q)'
    BY <2>3, <2>4, Numbers
  <2> QED BY <2>2, <2>4, <2>5, Balance
<1> QED BY <1>4, <1>5

\* A call that settles is pending no longer, and an error in its place is no signature.
LEMMA PendingSettles ==
  ASSUME CallsInv, CallSettles
  PROVE  \A q : /\ SignaturesPending(q) =
                     SignaturesPending(q)' + (IF IsFor(Head(calls), q) THEN 1 ELSE 0)
               /\ SignaturesPending(q)' \in Nat
<1> DEFINE c == Head(calls)  result == Head(results)
           e == Call("error", c.req, NoCard, NoCard)
<1>1. /\ results # <<>>
      /\ calls' = IF c.kind = "certs" /\ result = "failed"
                  THEN Append(Tail(calls), e) ELSE Tail(calls)
  BY Zenon DEF CallSettles, SettlesAs
<1>2. calls # <<>> /\ c \in Calls /\ Tail(calls) \in Seq(Calls)
  BY <1>1 DEF CallsInv
<1>3. e \in Calls /\ \A q : ~IsFor(e, q)
  <2>1. c.req \in Requests
    BY <1>2 DEF Calls
  <2> QED BY <2>1, CallIsCall DEF MaybeCard, IsFor
<1>4. \A q : Cardinality(Pending(calls, q)) =
               Cardinality(Pending(Tail(calls), q)) + (IF IsFor(c, q) THEN 1 ELSE 0)
  BY <1>2, PendingTail DEF CallsInv
<1> HIDE DEF c, result, e
<1>5. \A q : /\ Cardinality(Pending(calls', q)) = Cardinality(Pending(Tail(calls), q))
             /\ Cardinality(Pending(calls', q)) \in Nat
  <2>1. \A q : Cardinality(Pending(Tail(calls), q)) \in Nat
    BY <1>2, PendingFinite
  <2>2. CASE calls' = Tail(calls)
    BY <2>1, <2>2
  <2>3. CASE calls' = Append(Tail(calls), e)
    <3>1. \A q : Cardinality(Pending(calls', q)) = Cardinality(Pending(Tail(calls), q)) + 0
      BY <1>2, <1>3, <2>3, PendingAppend
    <3> QED BY <2>1, <3>1
  <2> QED BY <1>1, <2>2, <2>3
<1>6. \A q : /\ SignaturesPending(q) = SignaturesPending(q)' + (IF IsFor(c, q) THEN 1 ELSE 0)
             /\ SignaturesPending(q)' \in Nat
  BY <1>4, <1>5, PendingSignatures
<1> QED BY <1>6 DEF c

\* A signature that settles is told of once, and is then no longer pending.
LEMMA TellStep ==
  ASSUME CallsInv, ToldInv, CallSettles
  PROVE  ToldInv'
<1> DEFINE c == Head(calls)  result == Head(results)
<1>1. /\ results # <<>> /\ UNCHANGED attempts
      /\ successes' = IF c.kind = "signature" /\ result = "ok"
                      THEN Bump(successes, c.req) ELSE successes
      /\ failures' = IF c.kind = "signature" /\ result = "failed"
                     THEN Bump(failures, c.req) ELSE failures
  BY Zenon DEF CallSettles, SettlesAs
<1>2. /\ calls # <<>> /\ c \in Calls /\ result \in {"ok", "failed"}
  BY <1>1 DEF CallsInv
<1>3. c.req \in Requests
  BY <1>2 DEF Calls
<1>4. \A q : /\ SignaturesPending(q) = SignaturesPending(q)' + (IF IsFor(c, q) THEN 1 ELSE 0)
             /\ SignaturesPending(q)' \in Nat
  BY PendingSettles
<1> HIDE DEF c, result
<1>5. CASE c.kind # "signature"
  BY <1>1, <1>4, <1>5 DEF ToldInv, EveryAttemptIsTold, IsFor
<1>6. CASE c.kind = "signature"
  <2>1. \A q : SignaturesPending(q) = SignaturesPending(q)' + (IF q = c.req THEN 1 ELSE 0)
    BY <1>4, <1>6 DEF IsFor
  <2>2. CASE result = "ok"
    <3>1. /\ UNCHANGED <<attempts, failures>>
          /\ \A q \in Requests : successes'[q] = successes[q] + (IF q = c.req THEN 1 ELSE 0)
      BY <1>1, <1>3, <1>6, <2>2, BumpFacts DEF CallsInv
    <3>2. ASSUME NEW q \in Requests
          PROVE  attempts'[q] = successes'[q] + failures'[q] + SignaturesPending(q)'
      BY <1>4, <2>1, <3>1, Numbers
    <3>3. attempts' \in [Requests -> Nat] /\ failures' \in [Requests -> Nat]
      BY <3>1 DEF ToldInv
    <3> QED BY <3>2, <3>3, Balance
  <2>3. CASE result = "failed"
    <3>1. /\ UNCHANGED <<attempts, successes>> /\ failures' \in [Requests -> Nat]
          /\ \A q \in Requests : failures'[q] = failures[q] + (IF q = c.req THEN 1 ELSE 0)
      BY <1>1, <1>3, <1>6, <2>3, BumpFacts DEF ToldInv
    <3>2. ASSUME NEW q \in Requests
          PROVE  attempts'[q] = successes'[q] + failures'[q] + SignaturesPending(q)'
      BY <1>4, <2>1, <3>1, Numbers
    <3>3. attempts' \in [Requests -> Nat] /\ failures' \in [Requests -> Nat]
      BY <3>1 DEF ToldInv
    <3> QED BY <3>2, <3>3, Balance
  <2> QED BY <1>2, <2>2, <2>3
<1> QED BY <1>5, <1>6

\* A connection that ends tells of every signature that was pending.
LEMMA LostTellsAll ==
  ASSUME CallsInv, ToldInv, ConnectionLost
  PROVE  ToldInv'
<1>1. /\ calls' = <<>> /\ UNCHANGED <<attempts, successes>>
      /\ failures' = [r \in Requests |-> failures[r] + SignaturesPending(r)]
  BY Zenon DEF ConnectionLost, LosingConnection
<1>2. \A r : SignaturesPending(r) \in Nat
  BY PendingSignatures, PendingFinite DEF CallsInv
<1>3. \A r : SignaturesPending(r)' = 0
  <2>1. \A r : Pending(calls', r) = {}
    BY <1>1 DEF Pending
  <2> QED BY <2>1, FS_EmptySet DEF SignaturesPending, Pending
<1> QED BY <1>1, <1>2, <1>3 DEF ToldInv, EveryAttemptIsTold, CallsInv

LEMMA NextTold == CallsInv /\ ToldInv /\ [Next]_vars => ToldInv'
<1> SUFFICES ASSUME CallsInv, ToldInv, [Next]_vars PROVE ToldInv'
  OBVIOUS
<1>1. ASSUME NEW r \in Requests, Approve(r) \/ PressEnter(r) PROVE ToldInv'
  <2>1. PICK p \in MaybeCard : OnSign(r, p)
    BY <1>1, Zenon DEF Approve, PressEnter, MaybeCard
  <2> QED BY <2>1, AttemptStep
<1>2. ASSUME NEW r \in Requests, RequestSigningCert(r) \/ RequestSignature(r) \/ Cancel(r)
      PROVE  ToldInv'
  <2>1. /\ UNCHANGED <<attempts, successes, failures>>
        /\ \/ UNCHANGED calls
           \/ \E kind \in {"certs", "error", "cancel"} :
                calls' = Append(calls, Call(kind, r, NoCard, NoCard))
    BY <1>2, Zenon DEF RequestSigningCert, RequestSignature, Cancel, Invoke, toldVars
  <2>2. \A kind \in {"certs", "error", "cancel"} :
          LET c == Call(kind, r, NoCard, NoCard) IN c \in Calls /\ c.kind # "signature"
    BY CallIsCall DEF MaybeCard
  <2> QED BY <2>1, <2>2, OtherStep
<1>3. CASE \/ \E r \in Requests : CloseAfterSigning(r) \/ WindowGone(r)
           \/ HubProcesses \/ Reconnected \/ NoticeRemoval
           \/ \E s \in Slots : MoveCard(s) \/ NoticeCard(s)
           \/ UNCHANGED vars
  <2>1. UNCHANGED <<attempts, successes, failures, calls>>
    BY <1>3, Zenon DEF CloseAfterSigning, WindowGone, HubProcesses, Reconnected, NoticeRemoval,
       MoveCard, NoticeCard, hubVars, toldVars, vars
  <2> QED BY <2>1, OtherStep
<1> QED BY <1>1, <1>2, <1>3, TellStep, LostTellsAll, Zenon DEF Next

LEMMA InitTold == Init => ToldInv
<1> SUFFICES ASSUME Init PROVE ToldInv
  OBVIOUS
<1>1. \A r : Pending(calls, r) = {}
  BY DEF Init, Pending
<1>2. \A r : SignaturesPending(r) = 0
  BY <1>1, PendingSignatures, FS_EmptySet
<1> QED BY <1>2 DEF Init, ToldInv, EveryAttemptIsTold

-----------------------------------------------------------------------------
(* the promise of SigningPromise *)

\* The signatures for r among the invocations of s that the outcomes t accept.
Accepted(s, t, r) ==
  {i \in DOMAIN t : t[i] = "ok" /\ s[i].kind = "signature" /\ s[i].req = r}

Fit(s, t) == s \in Seq(Calls) /\ t \in Seq({"ok", "failed"}) /\ Len(t) <= Len(s)

LEMMA AcceptedPending ==
  ASSUME NEW s, NEW t, Fit(s, t), NEW r
  PROVE  /\ Accepted(s, t, r) \subseteq Pending(s, r) /\ IsFiniteSet(Accepted(s, t, r))
         /\ Cardinality(Accepted(s, t, r)) \in Nat
         /\ Cardinality(Accepted(s, t, r)) <= Cardinality(Pending(s, r))
<1>1. /\ DOMAIN s = 1 .. Len(s) /\ DOMAIN t = 1 .. Len(t)
      /\ Len(s) \in Nat /\ Len(t) \in Nat /\ Len(t) <= Len(s)
  BY DEF Fit
<1>2. Accepted(s, t, r) \subseteq Pending(s, r)
  BY <1>1 DEF Accepted, Pending
<1>3. IsFiniteSet(Pending(s, r))
  BY PendingFinite DEF Fit
<1> QED BY <1>2, <1>3, FS_Subset, FS_CardinalityType

\* An invocation that follows is not among them.
LEMMA AcceptedAppend ==
  ASSUME NEW s, NEW t, Fit(s, t), NEW c \in Calls, NEW r
  PROVE  Fit(Append(s, c), t) /\ Accepted(Append(s, c), t, r) = Accepted(s, t, r)
<1> DEFINE u == Append(s, c)
<1>1. /\ u \in Seq(Calls) /\ Len(u) = Len(s) + 1 /\ Len(s) \in Nat /\ Len(t) \in Nat
      /\ \A i \in 1 .. Len(s) : u[i] = s[i]
      /\ DOMAIN t = 1 .. Len(t) /\ Len(t) <= Len(s) /\ t \in Seq({"ok", "failed"})
  BY DEF Fit
<1> HIDE DEF u
<1>2. \A i \in DOMAIN t : u[i] = s[i]
  BY <1>1
<1>3. Accepted(u, t, r) = Accepted(s, t, r)
  BY <1>2 DEF Accepted
<1>4. Fit(u, t)
  BY <1>1 DEF Fit
<1> QED BY <1>3, <1>4 DEF u

\* One more outcome accepts one more signature, or none.
LEMMA AcceptedGrows ==
  ASSUME NEW s, NEW t, Fit(s, t), Len(t) < Len(s), NEW o \in {"ok", "failed"}, NEW r
  PROVE  /\ Fit(s, Append(t, o))
         /\ Cardinality(Accepted(s, Append(t, o), r)) =
              Cardinality(Accepted(s, t, r)) +
                (IF o = "ok" /\ IsFor(s[Len(t) + 1], r) THEN 1 ELSE 0)
<1> DEFINE u == Append(t, o)
<1>1. /\ DOMAIN t = 1 .. Len(t) /\ Len(t) \in Nat /\ DOMAIN u = 1 .. Len(t) + 1
      /\ \A i \in 1 .. Len(t) : u[i] = t[i]
      /\ u[Len(t) + 1] = o
      /\ u \in Seq({"ok", "failed"}) /\ Len(u) = Len(t) + 1 /\ Len(s) \in Nat
  BY DEF Fit
<1> HIDE DEF u
<1>2. Fit(s, u)
  BY <1>1 DEF Fit
<1>3. CASE o = "ok" /\ IsFor(s[Len(t) + 1], r)
  <2>1. Accepted(s, u, r) = Accepted(s, t, r) \cup {Len(t) + 1}
    BY <1>1, <1>3 DEF Accepted, IsFor
  <2>2. Len(t) + 1 \notin Accepted(s, t, r)
    BY <1>1 DEF Accepted
  <2> QED BY <1>2, <1>3, <2>1, <2>2, AcceptedPending, FS_AddElement DEF u
<1>4. CASE ~(o = "ok" /\ IsFor(s[Len(t) + 1], r))
  <2>1. Accepted(s, u, r) = Accepted(s, t, r)
    BY <1>1, <1>4 DEF Accepted, IsFor
  <2> QED BY <1>2, <1>4, <2>1, AcceptedPending DEF u
<1> QED BY <1>3, <1>4

\* What an outcome makes of an invocation; only an accepted signature is one.
Granted(c, o) == [kind |-> IF o = "ok" THEN c.kind ELSE "failed", req |-> c.req]

GrantedOf(s, t) == [i \in 1 .. Len(t) |-> Granted(s[i], t[i])]

Grants == [kind : {"signature", "cancel", "error", "certs", "failed"}, req : Requests]

LEMMA AcceptedAreGranted ==
  ASSUME NEW s, NEW t, Fit(s, t)
  PROVE  /\ GrantedOf(s, t) \in Seq(Grants) /\ Len(GrantedOf(s, t)) = Len(t)
         /\ \A r : Pending(GrantedOf(s, t), r) = Accepted(s, t, r)
<1> DEFINE g == GrantedOf(s, t)
<1>1. /\ DOMAIN t = 1 .. Len(t) /\ Len(t) \in Nat
      /\ \A i \in 1 .. Len(t) : s[i] \in Calls /\ t[i] \in {"ok", "failed"}
  BY DEF Fit
<1>2. /\ DOMAIN g = 1 .. Len(t)
      /\ \A i \in 1 .. Len(t) : /\ g[i].kind = IF t[i] = "ok" THEN s[i].kind ELSE "failed"
                               /\ g[i].req = s[i].req
  BY DEF GrantedOf, Granted
<1>3. g \in Seq(Grants) /\ Len(g) = Len(t)
  <2>1. \A i \in 1 .. Len(t) : Granted(s[i], t[i]) \in Grants
    BY <1>1 DEF Granted, Grants, Calls
  <2> QED BY <1>1, <2>1 DEF GrantedOf
<1> HIDE DEF g
<1>4. \A r : Pending(g, r) = Accepted(s, t, r)
  BY <1>1, <1>2 DEF Pending, Accepted
<1> QED BY <1>3, <1>4 DEF g

\* The oldest outcome settles the oldest invocation.
LEMMA AcceptedTail ==
  ASSUME NEW s, NEW t, Fit(s, t), t # <<>>, NEW r
  PROVE  /\ Fit(Tail(s), Tail(t))
         /\ Cardinality(Accepted(s, t, r)) =
              Cardinality(Accepted(Tail(s), Tail(t), r)) +
                (IF Head(t) = "ok" /\ IsFor(Head(s), r) THEN 1 ELSE 0)
<1> DEFINE g == GrantedOf(s, t)
<1>1. /\ Len(s) \in Nat /\ Len(t) \in Nat \ {0} /\ Len(t) <= Len(s)
      /\ DOMAIN t = 1 .. Len(t) /\ s # <<>>
      /\ Tail(s) \in Seq(Calls) /\ Len(Tail(s)) = Len(s) - 1 /\ Head(s) = s[1]
      /\ \A i \in 1 .. Len(s) - 1 : Tail(s)[i] = s[i + 1]
      /\ Tail(t) \in Seq({"ok", "failed"}) /\ Len(Tail(t)) = Len(t) - 1 /\ Head(t) = t[1]
      /\ \A i \in 1 .. Len(t) - 1 : Tail(t)[i] = t[i + 1]
  BY DEF Fit
<1>2. Fit(Tail(s), Tail(t))
  BY <1>1 DEF Fit
<1>3. /\ g \in Seq(Grants) /\ Len(g) = Len(t) /\ DOMAIN g = 1 .. Len(t)
      /\ \A i \in 1 .. Len(t) : g[i] = Granted(s[i], t[i])
  BY <1>1, AcceptedAreGranted DEF GrantedOf
<1>4. g # <<>> /\ Head(g) = Granted(Head(s), Head(t))
  BY <1>1, <1>3
<1>5. Tail(g) = GrantedOf(Tail(s), Tail(t))
  <2> DEFINE h == Tail(g)  k == GrantedOf(Tail(s), Tail(t))
  <2>1. \A i \in 1 .. Len(t) - 1 : i + 1 \in 1 .. Len(t) /\ i \in 1 .. Len(s) - 1
    BY <1>1
  <2>2. /\ k \in Seq(Grants) /\ DOMAIN k = 1 .. Len(t) - 1
        /\ \A i \in 1 .. Len(t) - 1 : k[i] = Granted(Tail(s)[i], Tail(t)[i])
    BY <1>1, <1>2, AcceptedAreGranted DEF GrantedOf
  <2> HIDE DEF g, k
  <2>3. /\ h \in Seq(Grants) /\ DOMAIN h = 1 .. Len(t) - 1
        /\ \A i \in 1 .. Len(t) - 1 : h[i] = g[i + 1]
    BY <1>1, <1>3, <1>4
  <2> HIDE DEF h
  <2>4. \A i \in 1 .. Len(t) - 1 : h[i] = k[i]
    BY <1>1, <1>3, <2>1, <2>2, <2>3
  <2>5. h = k
    BY <2>2, <2>3, <2>4
  <2> QED BY <2>5 DEF h, k
<1>6. IsFor(Head(g), r) <=> Head(t) = "ok" /\ IsFor(Head(s), r)
  BY <1>4 DEF IsFor, Granted
<1>7. Cardinality(Pending(g, r)) =
        Cardinality(Pending(Tail(g), r)) + (IF IsFor(Head(g), r) THEN 1 ELSE 0)
  <2> HIDE DEF g
  <2> QED BY <1>3, <1>4, PendingTail
<1>8. /\ Pending(g, r) = Accepted(s, t, r)
      /\ Pending(Tail(g), r) = Accepted(Tail(s), Tail(t), r)
  <2>1. Pending(g, r) = Accepted(s, t, r)
    BY AcceptedAreGranted
  <2>2. Pending(GrantedOf(Tail(s), Tail(t)), r) = Accepted(Tail(s), Tail(t), r)
    BY <1>2, AcceptedAreGranted
  <2> HIDE DEF g
  <2> QED BY <1>5, <2>1, <2>2
<1> QED BY <1>2, <1>6, <1>7, <1>8

\* The numbers of a request, before and after a step.
LEMMA Counts ==
  ASSUME NEW q
  PROVE  /\ CallsInv => /\ SignaturesPending(q) \in Nat /\ SignaturesAccepted(q) \in Nat
                        /\ SignaturesAccepted(q) <= SignaturesPending(q)
         /\ CallsInv' => /\ SignaturesPending(q)' \in Nat /\ SignaturesAccepted(q)' \in Nat
                         /\ SignaturesAccepted(q)' <= SignaturesPending(q)'
<1>1. /\ SignaturesAccepted(q) = Cardinality(Accepted(calls, results, q))
      /\ SignaturesAccepted(q)' = Cardinality(Accepted(calls', results', q))
  BY DEF SignaturesAccepted, Accepted
<1>2. /\ CallsInv => Fit(calls, results)
      /\ CallsInv' => Fit(calls', results')
  BY DEF CallsInv, Fit
<1>3. /\ Fit(calls, results) => Cardinality(Pending(calls, q)) \in Nat
      /\ Fit(calls', results') => Cardinality(Pending(calls', q)) \in Nat
  BY PendingFinite DEF Fit
<1> QED BY <1>1, <1>2, <1>3, AcceptedPending, PendingSignatures

\* One more, or one less, of the numbers of one request.
LEMMA MoreOrLess ==
  ASSUME NEW f \in [Requests -> Nat], NEW g \in [Requests -> Nat], NEW r \in Requests
  PROVE  /\ (\A q \in Requests : g[q] = f[q] + (IF q = r THEN 1 ELSE 0)) =>
              g = Promise!More(f, r)
         /\ (\A q \in Requests : f[q] = g[q] + (IF q = r THEN 1 ELSE 0)) =>
              g = Promise!Less(f, r) /\ f[r] > 0
  BY DEF Promise!More, Promise!Less

\* A step that moves no signature and tells nobody is none of the promise's.
LEMMA PromiseStays ==
  ASSUME UNCHANGED <<attempts, successes, failures>>,
         \A q \in Requests : /\ SignaturesPending(q)' = SignaturesPending(q)
                             /\ SignaturesAccepted(q)' = SignaturesAccepted(q)
  PROVE  UNCHANGED Promise!promiseVars
  BY DEF Promise!promiseVars

\* An invocation that is sent is pending, and not accepted yet.
LEMMA SendingCounts ==
  ASSUME CallsInv, NEW c \in Calls, calls' = Append(calls, c), results' = results, NEW q
  PROVE  /\ SignaturesPending(q)' = SignaturesPending(q) + (IF IsFor(c, q) THEN 1 ELSE 0)
         /\ SignaturesAccepted(q)' = SignaturesAccepted(q)
<1>1. Fit(calls, results)
  BY DEF CallsInv, Fit
<1>2. Accepted(calls', results', q) = Accepted(calls, results, q)
  BY <1>1, AcceptedAppend
<1>3. Cardinality(Pending(calls', q)) =
        Cardinality(Pending(calls, q)) + (IF IsFor(c, q) THEN 1 ELSE 0)
  BY PendingAppend DEF CallsInv
<1> QED BY <1>2, <1>3, PendingSignatures DEF SignaturesAccepted, Accepted

\* An attempt sends a signature, or fails with its dialog.
LEMMA PromiseAttempt ==
  ASSUME CallsInv, ToldInv, NEW r \in Requests, NEW p \in MaybeCard, OnSign(r, p)
  PROVE  Promise!Send(r) \/ Promise!Fail(r)
<1>1. PICK o \in Sign(asked[r], p) :
        /\ IF o.signer = NoCard THEN UNCHANGED <<calls, rejected>>
                                ELSE Invoke(Call("signature", r, o.signer, p))
        /\ failures' = IF o.signer = NoCard \/ ~online THEN Bump(failures, r) ELSE failures
  BY Zenon DEF OnSign
<1>2. attempts' = Bump(attempts, r) /\ successes' = successes /\ results' = results
  BY Zenon DEF OnSign
<1>3. CASE o.signer = NoCard \/ ~online
  <2>1. calls' = calls /\ failures' = Bump(failures, r)
    BY <1>1, <1>3 DEF Invoke
  <2>2. \A q : /\ SignaturesPending(q)' = SignaturesPending(q)
               /\ SignaturesAccepted(q)' = SignaturesAccepted(q)
    BY <1>2, <2>1 DEF SignaturesPending, SignaturesAccepted
  <2>3. Promise!Fail(r)
    BY <1>2, <2>1, <2>2 DEF Promise!Fail, Promise!More, Bump
  <2> QED BY <2>3
<1>4. CASE o.signer # NoCard /\ online
  <2> DEFINE c == Call("signature", r, p, p)
  <2>1. c \in Calls /\ \A q : IsFor(c, q) <=> q = r
    BY CallIsCall DEF IsFor
  <2>2. calls' = Append(calls, c) /\ failures' = failures
    BY <1>1, <1>4, SignSigns DEF Invoke
  <2> HIDE DEF c
  <2>3. \A q \in Requests :
          /\ SignaturesPending(q)' = SignaturesPending(q) + (IF q = r THEN 1 ELSE 0)
          /\ SignaturesAccepted(q)' = SignaturesAccepted(q)
          /\ SignaturesPending(q) \in Nat /\ SignaturesAccepted(q) \in Nat
          /\ SignaturesAccepted(q) <= SignaturesPending(q)
    BY <1>2, <2>1, <2>2, SendingCounts, Counts
  <2> DEFINE S == [q \in Requests |-> SignaturesPending(q) - SignaturesAccepted(q)]
             T == [q \in Requests |-> SignaturesPending(q)' - SignaturesAccepted(q)']
  <2>4. S \in [Requests -> Nat] /\ T \in [Requests -> Nat]
    BY <2>3
  <2>5. \A q \in Requests : T[q] = S[q] + (IF q = r THEN 1 ELSE 0)
    BY <2>3
  <2>6. T = Promise!More(S, r)
    <3> HIDE DEF S, T
    <3> QED BY <2>4, <2>5, MoreOrLess
  <2>7. [q \in Requests |-> SignaturesAccepted(q)'] = [q \in Requests |-> SignaturesAccepted(q)]
    BY <2>3
  <2>8. attempts' = Promise!More(attempts, r)
    BY <1>2 DEF Promise!More, Bump
  <2>9. Promise!Send(r)
    BY <1>2, <2>2, <2>6, <2>7, <2>8, Zenon DEF Promise!Send
  <2> QED BY <2>9
<1> QED BY <1>3, <1>4

\* The hub accepts a signature, or processes what is none.
LEMMA PromiseProcess ==
  ASSUME CallsInv, HubProcesses
  PROVE  (\E r \in Requests : Promise!Accept(r)) \/ UNCHANGED Promise!promiseVars
<1> DEFINE c == calls[Len(results) + 1]
<1>1. PICK result \in {"ok", "failed"} : results' = Append(results, result)
  BY DEF HubProcesses
<1>2. Len(results) < Len(calls) /\ UNCHANGED <<calls, attempts, successes, failures>>
  BY DEF HubProcesses, toldVars
<1>3. c \in Calls /\ Fit(calls, results)
  BY <1>2 DEF CallsInv, Fit
<1> HIDE DEF c
<1>4. ASSUME NEW q
      PROVE  /\ SignaturesPending(q)' = SignaturesPending(q)
             /\ SignaturesAccepted(q)' =
                  SignaturesAccepted(q) + (IF result = "ok" /\ IsFor(c, q) THEN 1 ELSE 0)
             /\ SignaturesPending(q) \in Nat /\ SignaturesAccepted(q) \in Nat
             /\ SignaturesAccepted(q)' <= SignaturesPending(q)'
  <2>1. Cardinality(Accepted(calls', results', q)) =
          Cardinality(Accepted(calls, results, q)) +
            (IF result = "ok" /\ IsFor(c, q) THEN 1 ELSE 0)
    BY <1>1, <1>2, <1>3, AcceptedGrows DEF c
  <2>2. SignaturesPending(q)' = SignaturesPending(q)
    BY <1>2 DEF SignaturesPending
  <2>3. CallsInv'
    BY ProcessStep
  <2> QED BY <2>1, <2>2, <2>3, Counts DEF SignaturesAccepted, Accepted
<1>5. CASE result = "ok" /\ c.kind = "signature"
  <2>1. c.req \in Requests /\ \A q : IsFor(c, q) <=> q = c.req
    BY <1>3, <1>5 DEF Calls, IsFor
  <2> DEFINE S == [q \in Requests |-> SignaturesPending(q) - SignaturesAccepted(q)]
             T == [q \in Requests |-> SignaturesPending(q)' - SignaturesAccepted(q)']
             A == [q \in Requests |-> SignaturesAccepted(q)]
             B == [q \in Requests |-> SignaturesAccepted(q)']
  <2>2. /\ S \in [Requests -> Nat] /\ T \in [Requests -> Nat]
        /\ A \in [Requests -> Nat] /\ B \in [Requests -> Nat]
        /\ \A q \in Requests : /\ S[q] = T[q] + (IF q = c.req THEN 1 ELSE 0)
                              /\ B[q] = A[q] + (IF q = c.req THEN 1 ELSE 0)
    BY <1>4, <1>5, <2>1
  <2>3. T = Promise!Less(S, c.req) /\ S[c.req] > 0 /\ B = Promise!More(A, c.req)
    <3> HIDE DEF S, T, A, B
    <3> QED BY <2>1, <2>2, MoreOrLess
  <2>4. Promise!Accept(c.req)
    BY <1>2, <2>3, Zenon DEF Promise!Accept
  <2> QED BY <2>1, <2>4
<1>6. CASE ~(result = "ok" /\ c.kind = "signature")
  <2>1. \A q \in Requests : /\ SignaturesPending(q)' = SignaturesPending(q)
                            /\ SignaturesAccepted(q)' = SignaturesAccepted(q)
    BY <1>4, <1>6 DEF IsFor
  <2> QED BY <1>2, <2>1, PromiseStays
<1> QED BY <1>5, <1>6


\* A signature that settles is told of by the dialog that its outcome calls for.
LEMMA PromiseSettles ==
  ASSUME CallsInv, ToldInv, CallSettles
  PROVE  \/ \E r \in Requests : Promise!TellSuccess(r) \/ Promise!TellFailure(r)
         \/ UNCHANGED Promise!promiseVars
<1> DEFINE c == Head(calls)  result == Head(results)
           e == Call("error", c.req, NoCard, NoCard)
           S == [q \in Requests |-> SignaturesPending(q) - SignaturesAccepted(q)]
           T == [q \in Requests |-> SignaturesPending(q)' - SignaturesAccepted(q)']
           A == [q \in Requests |-> SignaturesAccepted(q)]
           B == [q \in Requests |-> SignaturesAccepted(q)']
<1>1. /\ results # <<>> /\ results' = Tail(results) /\ UNCHANGED attempts
      /\ successes' = IF c.kind = "signature" /\ result = "ok"
                      THEN Bump(successes, c.req) ELSE successes
      /\ failures' = IF c.kind = "signature" /\ result = "failed"
                     THEN Bump(failures, c.req) ELSE failures
      /\ calls' = IF c.kind = "certs" /\ result = "failed"
                  THEN Append(Tail(calls), e) ELSE Tail(calls)
  BY Zenon DEF CallSettles, SettlesAs
<1>2. /\ calls # <<>> /\ c \in Calls /\ c.req \in Requests /\ result \in {"ok", "failed"}
      /\ Fit(calls, results)
  <2>1. calls # <<>> /\ c \in Calls /\ result \in {"ok", "failed"} /\ Fit(calls, results)
    BY <1>1 DEF CallsInv, Fit
  <2> QED BY <2>1 DEF Calls
<1>3. e \in Calls
  BY <1>2, CallIsCall DEF MaybeCard
<1>4. ASSUME NEW q
      PROVE  SignaturesAccepted(q) =
               SignaturesAccepted(q)' + (IF result = "ok" /\ IsFor(c, q) THEN 1 ELSE 0)
  <2>1. /\ Fit(Tail(calls), Tail(results))
        /\ Cardinality(Accepted(calls, results, q)) =
             Cardinality(Accepted(Tail(calls), Tail(results), q)) +
               (IF result = "ok" /\ IsFor(c, q) THEN 1 ELSE 0)
    BY <1>1, <1>2, AcceptedTail
  <2> HIDE DEF c, result, e
  <2>2. Accepted(calls', results', q) = Accepted(Tail(calls), Tail(results), q)
    BY <1>1, <1>3, <2>1, AcceptedAppend
  <2> QED BY <2>1, <2>2 DEF SignaturesAccepted, Accepted
<1>5. \A q : SignaturesPending(q) = SignaturesPending(q)' + (IF IsFor(c, q) THEN 1 ELSE 0)
  BY PendingSettles
<1>6. CallsInv'
  BY SettleStep
<1> HIDE DEF c, result, e
<1>7. /\ S \in [Requests -> Nat] /\ T \in [Requests -> Nat]
      /\ A \in [Requests -> Nat] /\ B \in [Requests -> Nat]
  BY <1>6, Counts
<1>8. \A q \in Requests :
        /\ A[q] = B[q] + (IF result = "ok" /\ IsFor(c, q) THEN 1 ELSE 0)
        /\ S[q] = T[q] + (IF result # "ok" /\ IsFor(c, q) THEN 1 ELSE 0)
  BY <1>4, <1>5, <1>6, Counts
<1>9. CASE c.kind = "signature" /\ result = "ok"
  <2>1. /\ \A q \in Requests : A[q] = B[q] + (IF q = c.req THEN 1 ELSE 0)
        /\ \A q \in Requests : S[q] = T[q]
    BY <1>7, <1>8, <1>9 DEF IsFor
  <2>2. B = Promise!Less(A, c.req) /\ A[c.req] > 0 /\ T = S
    <3> HIDE DEF S, T, A, B
    <3>1. B = Promise!Less(A, c.req) /\ A[c.req] > 0
      BY <1>2, <1>7, <2>1, MoreOrLess
    <3>2. T = S
      BY <1>7, <2>1
    <3> QED BY <3>1, <3>2
  <2>3. successes' = Promise!More(successes, c.req) /\ UNCHANGED <<attempts, failures>>
    BY <1>1, <1>9 DEF Promise!More, Bump
  <2>4. Promise!TellSuccess(c.req)
    BY <2>2, <2>3, Zenon DEF Promise!TellSuccess
  <2> QED BY <1>2, <2>4
<1>10. CASE c.kind = "signature" /\ result = "failed"
  <2>1. /\ \A q \in Requests : S[q] = T[q] + (IF q = c.req THEN 1 ELSE 0)
        /\ \A q \in Requests : A[q] = B[q]
    BY <1>7, <1>8, <1>10 DEF IsFor
  <2>2. T = Promise!Less(S, c.req) /\ S[c.req] > 0 /\ B = A
    <3> HIDE DEF S, T, A, B
    <3>1. T = Promise!Less(S, c.req) /\ S[c.req] > 0
      BY <1>2, <1>7, <2>1, MoreOrLess
    <3>2. B = A
      BY <1>7, <2>1
    <3> QED BY <3>1, <3>2
  <2>3. failures' = Promise!More(failures, c.req) /\ UNCHANGED <<attempts, successes>>
    BY <1>1, <1>10 DEF Promise!More, Bump
  <2>4. Promise!TellFailure(c.req)
    BY <2>2, <2>3, Zenon DEF Promise!TellFailure
  <2> QED BY <1>2, <2>4
<1>11. CASE c.kind # "signature"
  <2>1. \A q \in Requests : /\ SignaturesPending(q)' = SignaturesPending(q)
                            /\ SignaturesAccepted(q)' = SignaturesAccepted(q)
    BY <1>4, <1>5, <1>6, <1>11, Counts DEF IsFor
  <2> QED BY <1>1, <1>11, <2>1, PromiseStays
<1> QED BY <1>2, <1>9, <1>10, <1>11

\* A connection that ends fails every signature under way, the accepted ones too.
LEMMA PromiseLost ==
  ASSUME CallsInv, ToldInv, ConnectionLost
  PROVE  Promise!LoseAll
<1>1. /\ calls' = <<>> /\ results' = <<>> /\ UNCHANGED <<attempts, successes>>
      /\ failures' = [r \in Requests |-> failures[r] + SignaturesPending(r)]
  BY Zenon DEF ConnectionLost, LosingConnection
<1>2. \A r : SignaturesPending(r)' = 0 /\ SignaturesAccepted(r)' = 0
  <2>1. \A r : Pending(calls', r) = {} /\ Accepted(calls', results', r) = {}
    BY <1>1 DEF Pending, Accepted
  <2> QED BY <2>1, FS_EmptySet DEF SignaturesPending, Pending, SignaturesAccepted, Accepted
<1> DEFINE S == [q \in Requests |-> SignaturesPending(q) - SignaturesAccepted(q)]
           A == [q \in Requests |-> SignaturesAccepted(q)]
<1>3. \A r \in Requests : failures[r] + SignaturesPending(r) = failures[r] + S[r] + A[r]
  <2>1. \A r : /\ SignaturesPending(r) \in Nat /\ SignaturesAccepted(r) \in Nat
               /\ SignaturesAccepted(r) <= SignaturesPending(r)
    BY Counts
  <2>2. \A r \in Requests : failures[r] \in Nat
    BY DEF ToldInv
  <2> QED BY <2>1, <2>2
<1>4. failures' = [r \in Requests |-> failures[r] + S[r] + A[r]]
  BY <1>1, <1>3
<1>5. /\ [r \in Requests |-> SignaturesPending(r)' - SignaturesAccepted(r)'] =
           [r \in Requests |-> 0]
      /\ [r \in Requests |-> SignaturesAccepted(r)'] = [r \in Requests |-> 0]
  BY <1>2
<1> QED BY <1>1, <1>4, <1>5, Zenon DEF Promise!LoseAll

LEMMA NextPromise == CallsInv /\ ToldInv /\ [Next]_vars => [Promise!Next]_(Promise!promiseVars)
<1> SUFFICES ASSUME CallsInv, ToldInv, [Next]_vars
             PROVE  Promise!Next \/ UNCHANGED Promise!promiseVars
  OBVIOUS
<1>1. ASSUME NEW r \in Requests, Approve(r) \/ PressEnter(r) PROVE Promise!Next
  <2>1. PICK p \in MaybeCard : OnSign(r, p)
    BY <1>1, Zenon DEF Approve, PressEnter, MaybeCard
  <2>2. Promise!Send(r) \/ Promise!Fail(r)
    BY <2>1, PromiseAttempt
  <2> QED BY <2>2, Zenon DEF Promise!Next
<1>2. ASSUME NEW r \in Requests, RequestSigningCert(r) \/ RequestSignature(r) \/ Cancel(r)
      PROVE  UNCHANGED Promise!promiseVars
  <2>1. /\ UNCHANGED <<attempts, successes, failures, results>>
        /\ \/ UNCHANGED calls
           \/ \E kind \in {"certs", "error", "cancel"} :
                calls' = Append(calls, Call(kind, r, NoCard, NoCard))
    BY <1>2, Zenon DEF RequestSigningCert, RequestSignature, Cancel, Invoke, toldVars
  <2>2. ASSUME NEW kind \in {"certs", "error", "cancel"},
               calls' = Append(calls, Call(kind, r, NoCard, NoCard))
        PROVE  UNCHANGED Promise!promiseVars
    <3> DEFINE c == Call(kind, r, NoCard, NoCard)
    <3>1. c \in Calls /\ \A q : ~IsFor(c, q)
      BY CallIsCall DEF MaybeCard, IsFor
    <3> HIDE DEF c
    <3>2. \A q : /\ SignaturesPending(q)' = SignaturesPending(q) + 0
                 /\ SignaturesAccepted(q)' = SignaturesAccepted(q)
      BY <2>1, <2>2, <3>1, SendingCounts DEF c
    <3>3. \A q : SignaturesPending(q) \in Nat
      BY Counts
    <3> QED BY <2>1, <3>2, <3>3, PromiseStays
  <2>3. CASE UNCHANGED calls
    <3>1. \A q : /\ SignaturesPending(q)' = SignaturesPending(q)
                 /\ SignaturesAccepted(q)' = SignaturesAccepted(q)
      BY <2>1, <2>3 DEF SignaturesPending, SignaturesAccepted
    <3> QED BY <2>1, <3>1, PromiseStays
  <2> QED BY <2>1, <2>2, <2>3
<1>3. CASE \/ \E r \in Requests : CloseAfterSigning(r) \/ WindowGone(r)
           \/ Reconnected \/ NoticeRemoval
           \/ \E s \in Slots : MoveCard(s) \/ NoticeCard(s)
           \/ UNCHANGED vars
  <2>1. UNCHANGED <<attempts, successes, failures, calls, results>>
    BY <1>3, Zenon DEF CloseAfterSigning, WindowGone, Reconnected, NoticeRemoval, MoveCard,
       NoticeCard, hubVars, toldVars, vars
  <2>2. \A q : /\ SignaturesPending(q)' = SignaturesPending(q)
               /\ SignaturesAccepted(q)' = SignaturesAccepted(q)
    BY <2>1 DEF SignaturesPending, SignaturesAccepted
  <2> QED BY <2>1, <2>2, PromiseStays
<1>4. HubProcesses \/ CallSettles \/ ConnectionLost =>
        Promise!Next \/ UNCHANGED Promise!promiseVars
  BY PromiseProcess, PromiseSettles, PromiseLost, Zenon DEF Promise!Next
<1> QED BY <1>1, <1>2, <1>3, <1>4, Zenon DEF Next

LEMMA InitPromise == Init => Promise!Init
<1> SUFFICES ASSUME Init PROVE Promise!Init
  OBVIOUS
<1>1. \A r : Pending(calls, r) = {} /\ Accepted(calls, results, r) = {}
  BY DEF Init, Pending, Accepted
<1>2. \A r : SignaturesPending(r) = 0 /\ SignaturesAccepted(r) = 0
  BY <1>1, FS_EmptySet DEF SignaturesPending, Pending, SignaturesAccepted, Accepted
<1>3. /\ [r \in Requests |-> SignaturesPending(r) - SignaturesAccepted(r)] =
           [r \in Requests |-> 0]
      /\ [r \in Requests |-> SignaturesAccepted(r)] = [r \in Requests |-> 0]
  BY <1>2
<1> QED BY <1>3, Zenon DEF Init, Promise!Init

-----------------------------------------------------------------------------
(* types *)

\* What of TypeOK the other invariants do not say.
HubTypes == online \in BOOLEAN /\ received \in SUBSET Calls /\ rejected \in SUBSET Calls
CardTypes ==
  /\ slot \in [Slots -> MaybeCard]
  /\ loggedIn \in SUBSET {s \in Slots : slot[s] # NoCard}
  /\ sessions \in Seq([card : Cards, slot : Slots])
BoundTypes == faults \in 0 .. MaxFaults /\ cardOps \in 0 .. MaxCardOps

RestInv == HubTypes /\ CardTypes /\ BoundTypes

LEMMA InvokesTypes ==
  ASSUME HubTypes, NEW c \in Calls, Invokes(c), UNCHANGED <<online, received>>
  PROVE  HubTypes'
  BY DEF HubTypes, Invokes

LEMMA SpendTypes ==
  ASSUME BoundTypes, NEW n \in {0, 1}, Spend(n), UNCHANGED cardOps
  PROVE  BoundTypes'
<1>1. faults + n \in 0 .. MaxFaults
  BY BoundsAssumption DEF BoundTypes, Spend
<1> QED BY <1>1 DEF BoundTypes, Spend

\* An attempt logs in at most the token of the slot that it uses.
LEMMA SlotTypes ==
  ASSUME CardTypes, NEW s \in Slots, NEW p, NEW o \in SignInSlot(s, p)
  PROVE  /\ o.loggedIn \in SUBSET {t \in Slots : slot[t] # NoCard}
         /\ o.cost \in {0, 1}
<1>1. CASE slot[s] = NoCard
  BY <1>1 DEF SignInSlot, Outcome, CardTypes
<1>2. CASE slot[s] # NoCard /\ s \in loggedIn
  BY <1>2 DEF SignInSlot, Outcome, CardTypes
<1>3. CASE slot[s] # NoCard /\ s \notin loggedIn /\ p # slot[s]
  BY <1>3 DEF SignInSlot, Outcome, CardTypes
<1>4. CASE slot[s] # NoCard /\ s \notin loggedIn /\ p = slot[s]
  BY <1>4 DEF SignInSlot, Outcome, CardTypes
<1> QED BY <1>1, <1>2, <1>3, <1>4

LEMMA SeqElements ==
  ASSUME NEW S, NEW s \in Seq(S)
  PROVE  \A k \in DOMAIN s : s[k] \in S
  OBVIOUS

LEMMA SessionTypes ==
  ASSUME CardTypes
  PROVE  \A k \in DOMAIN sessions : /\ sessions[k] \in [card : Cards, slot : Slots]
                                    /\ sessions[k].slot \in Slots
<1>1. \A k \in DOMAIN sessions : sessions[k] \in [card : Cards, slot : Slots]
  BY SeqElements DEF CardTypes
<1> QED BY <1>1

\* The first session of a card exists if any does.
LEMMA FirstSession ==
  ASSUME CardTypes, NEW c, {i \in DOMAIN sessions : sessions[i].card = c} # {}
  PROVE  LET mine == {i \in DOMAIN sessions : sessions[i].card = c}
         IN  sessions[CHOOSE i \in mine : \A j \in mine : i <= j].slot \in Slots
<1> DEFINE mine == {i \in DOMAIN sessions : sessions[i].card = c}
<1>1. mine \subseteq Nat /\ mine # {} /\ DOMAIN sessions = 1 .. Len(sessions)
  BY DEF CardTypes
<1> DEFINE Less == {ss \in Nat \X Nat : ss[1] < ss[2]}
<1>2. \E i \in mine : \A j \in mine : i <= j
  <2>1. IsWellFoundedOn(Less, Nat)
    BY NatLessThanWellFounded DEF OpToRel
  <2> HIDE DEF mine, Less
  <2>2. PICK i \in mine : \A j \in mine : <<j, i>> \notin Less
    BY <1>1, <2>1, WFMin
  <2>3. \A j \in mine : ~ (j < i)
    BY <1>1, <2>2 DEF Less
  <2> QED BY <1>1, <2>2, <2>3
<1>3. (CHOOSE i \in mine : \A j \in mine : i <= j) \in DOMAIN sessions
  BY <1>2
<1> QED BY <1>3, SessionTypes, Zenon

LEMMA SignTypes ==
  ASSUME CardTypes, NEW c, NEW p, NEW o \in Sign(c, p)
  PROVE  /\ o.loggedIn \in SUBSET {t \in Slots : slot[t] # NoCard}
         /\ o.cost \in {0, 1}
<1> DEFINE mine == {i \in DOMAIN sessions : sessions[i].card = c}
           first == CHOOSE i \in mine : \A j \in mine : i <= j
<1>1. CASE mine = {}
  BY <1>1 DEF Sign, Outcome, CardTypes
<1>2. CASE mine # {}
  <2>1. o \in SignInSlot(sessions[first].slot, p)
    BY <1>2 DEF Sign
  <2>2. sessions[first].slot \in Slots
    BY <1>2, FirstSession
  <2> QED BY <2>1, <2>2, SlotTypes
<1> QED BY <1>1, <1>2

LEMMA AttemptTypes ==
  ASSUME RestInv, NEW r \in Requests, NEW p \in MaybeCard, OnSign(r, p)
  PROVE  RestInv'
<1>1. PICK o \in Sign(asked[r], p) : loggedIn' = o.loggedIn /\ Spend(o.cost)
  BY Zenon DEF OnSign
<1>2. UNCHANGED <<online, results, received, slot, sessions, cardOps>>
  BY Zenon DEF OnSign
<1>3. /\ o.loggedIn \in SUBSET {t \in Slots : slot[t] # NoCard}
      /\ o.cost \in {0, 1}
  BY SignTypes DEF RestInv
<1>4. CardTypes'
  BY <1>1, <1>2, <1>3 DEF RestInv, CardTypes
<1>5. BoundTypes'
  BY <1>1, <1>2, <1>3, SpendTypes DEF RestInv
<1>6. HubTypes'
  <2>1. CASE UNCHANGED <<calls, rejected>>
    BY <1>2, <2>1 DEF RestInv, HubTypes
  <2>2. CASE p # NoCard /\ Invokes(Call("signature", r, p, p))
    BY <1>2, <2>2, CallIsCall, InvokesTypes DEF RestInv
  <2> QED BY <2>1, <2>2, OnSignSends
<1> QED BY <1>4, <1>5, <1>6 DEF RestInv

LEMMA RequestTypes ==
  ASSUME RestInv, NEW r \in Requests,
         RequestSigningCert(r) \/ RequestSignature(r) \/ Cancel(r)
  PROVE  RestInv'
<1>1. \A kind \in {"cancel", "error", "certs"} : Call(kind, r, NoCard, NoCard) \in Calls
  BY CallIsCall DEF MaybeCard
<1>2. /\ UNCHANGED <<online, received, slot, loggedIn, sessions, cardOps>>
      /\ \/ UNCHANGED <<calls, rejected>>
         \/ \E kind \in {"cancel", "error", "certs"} : Invokes(Call(kind, r, NoCard, NoCard))
      /\ UNCHANGED faults \/ Spend(1)
  BY InvokeInvokes, Zenon DEF RequestSigningCert, RequestSignature, Cancel, cardVars
<1>3. HubTypes'
  BY <1>1, <1>2, InvokesTypes DEF RestInv, HubTypes
<1>4. CardTypes'
  BY <1>2 DEF RestInv, CardTypes
<1>5. BoundTypes'
  BY <1>2, SpendTypes DEF RestInv, BoundTypes
<1> QED BY <1>3, <1>4, <1>5 DEF RestInv

\* The hub and the connection.
LEMMA HubTypesStep ==
  ASSUME CallsInv, RestInv, HubProcesses \/ CallSettles \/ ConnectionLost \/ Reconnected
  PROVE  RestInv'
<1>1. UNCHANGED <<slot, loggedIn, sessions, cardOps>> /\ (UNCHANGED faults \/ Spend(1))
  BY Zenon DEF HubProcesses, CallSettles, SettlesAs, ConnectionLost, LosingConnection,
     Reconnected, cardVars
<1>2. CardTypes' /\ BoundTypes'
  BY <1>1, SpendTypes DEF RestInv, CardTypes, BoundTypes
<1>3. \A i \in DOMAIN calls : calls[i] \in Calls
  BY DEF CallsInv
<1>4. CASE HubProcesses
  <2>1. Len(results) + 1 \in DOMAIN calls
    BY <1>4 DEF HubProcesses, CallsInv
  <2>2. /\ UNCHANGED <<online, rejected>>
        /\ received' = received \/ received' = received \cup {calls[Len(results) + 1]}
    BY <1>4, Zenon DEF HubProcesses
  <2> QED BY <1>2, <1>3, <2>1, <2>2 DEF RestInv, HubTypes
<1>5. CASE CallSettles
  <2>1. results # <<>> /\ UNCHANGED <<online, received>>
        /\ (rejected' = rejected \/ rejected' = rejected \cup {Head(calls)})
    BY <1>5, Zenon DEF CallSettles, SettlesAs
  <2>2. Head(calls) \in Calls
    BY <2>1 DEF CallsInv
  <2> QED BY <1>2, <2>1, <2>2 DEF RestInv, HubTypes
<1>6. CASE ConnectionLost
  <2>1. /\ online' = FALSE /\ UNCHANGED received
        /\ rejected' = rejected \cup {calls[i] : i \in DOMAIN calls}
                                \cup {Call("error", calls[i].req, NoCard, NoCard) :
                                        i \in {j \in DOMAIN calls : calls[j].kind = "certs"}}
    BY <1>6, Zenon DEF ConnectionLost, LosingConnection
  <2>2. \A i \in DOMAIN calls : Call("error", calls[i].req, NoCard, NoCard) \in Calls
    BY <1>3, CallIsCall DEF Calls, MaybeCard
  <2> QED BY <1>2, <1>3, <2>1, <2>2 DEF RestInv, HubTypes
<1>7. CASE Reconnected
  BY <1>2, <1>7 DEF Reconnected, RestInv, HubTypes
<1> QED BY <1>4, <1>5, <1>6, <1>7

LEMMA CardStep ==
  ASSUME RestInv, NEW s \in Slots, MoveCard(s) \/ NoticeCard(s)
  PROVE  RestInv'
<1>1. UNCHANGED <<online, received, rejected, faults>>
  BY Zenon DEF MoveCard, NoticeCard, hubVars
<1>2. CASE MoveCard(s)
  <2>1. slot' \in [Slots -> MaybeCard] /\ \A t \in Slots : t # s => slot'[t] = slot[t]
    BY <1>2 DEF MoveCard, RestInv, CardTypes, MaybeCard
  <2>2. loggedIn' = loggedIn \ {s} /\ UNCHANGED sessions
    BY <1>2 DEF MoveCard
  <2>3. CardTypes'
    BY <2>1, <2>2 DEF RestInv, CardTypes
  <2>4. cardOps' = cardOps \/ (cardOps < MaxCardOps /\ cardOps' = cardOps + 1)
    BY <1>2 DEF MoveCard
  <2>5. BoundTypes'
    BY <1>1, <2>4, BoundsAssumption DEF RestInv, BoundTypes
  <2> QED BY <1>1, <2>3, <2>5 DEF RestInv, HubTypes
<1>3. CASE NoticeCard(s)
  <2>1. /\ slot[s] # NoCard /\ sessions' = Append(sessions, [card |-> slot[s], slot |-> s])
        /\ UNCHANGED <<slot, loggedIn, cardOps>>
    BY <1>3 DEF NoticeCard
  <2>2. [card |-> slot[s], slot |-> s] \in [card : Cards, slot : Slots]
    BY <2>1 DEF RestInv, CardTypes, MaybeCard
  <2>3. sessions' \in Seq([card : Cards, slot : Slots])
    BY <2>1, <2>2 DEF RestInv, CardTypes
  <2> QED BY <1>1, <2>1, <2>3 DEF RestInv, HubTypes, CardTypes, BoundTypes
<1> QED BY <1>2, <1>3

LEMMA RemovalStep ==
  ASSUME RestInv, NoticeRemoval
  PROVE  RestInv'
<1>1. UNCHANGED <<online, received, rejected, slot, loggedIn, faults, cardOps>>
  BY Zenon DEF NoticeRemoval, hubVars
<1>2. PICK n \in 0 .. Len(sessions) : \E at \in [1 .. n -> DOMAIN sessions] :
        sessions' = [i \in 1 .. n |-> sessions[at[i]]]
  BY Zenon DEF NoticeRemoval
<1>3. PICK at \in [1 .. n -> DOMAIN sessions] : sessions' = [i \in 1 .. n |-> sessions[at[i]]]
  BY <1>2
<1>4. \A i \in 1 .. n : sessions[at[i]] \in [card : Cards, slot : Slots]
  BY SessionTypes, Zenon DEF RestInv
<1>5. Len(sessions) \in Nat
  BY DEF RestInv, CardTypes
<1>6. sessions' \in Seq([card : Cards, slot : Slots])
  <2> DEFINE S == [card : Cards, slot : Slots]
  <2>1. sessions' \in [1 .. n -> S] /\ n \in Nat
    BY <1>3, <1>4, <1>5
  <2> HIDE DEF S
  <2>2. sessions' \in Seq(S)
    BY <2>1, SeqDef
  <2> QED BY <2>2 DEF S
<1> QED BY <1>1, <1>6 DEF RestInv, HubTypes, CardTypes, BoundTypes

LEMMA NextRest == CallsInv /\ RestInv /\ [Next]_vars => RestInv'
<1> SUFFICES ASSUME CallsInv, RestInv, [Next]_vars PROVE RestInv'
  OBVIOUS
<1>1. ASSUME NEW r \in Requests, Approve(r) \/ PressEnter(r) PROVE RestInv'
  <2>1. PICK p \in MaybeCard : OnSign(r, p)
    BY <1>1, Zenon DEF Approve, PressEnter, MaybeCard
  <2> QED BY <2>1, AttemptTypes
<1>2. CASE \/ \E r \in Requests : CloseAfterSigning(r) \/ WindowGone(r)
           \/ UNCHANGED vars
  <2>1. UNCHANGED <<hubVars, cardVars, faults, cardOps>>
    BY <1>2, Zenon DEF CloseAfterSigning, WindowGone, vars
  <2> QED BY <2>1 DEF hubVars, cardVars, RestInv, HubTypes, CardTypes, BoundTypes
<1> QED BY <1>1, <1>2, RequestTypes, HubTypesStep, CardStep, RemovalStep, Zenon DEF Next

LEMMA InitRest == Init => RestInv
  BY BoundsAssumption DEF Init, RestInv, HubTypes, CardTypes, BoundTypes, MaybeCard

-----------------------------------------------------------------------------
(* the theorems *)

SignatureInv ==
  /\ CallsInv /\ RestInv /\ ToldInv
  /\ SignedWithThePin /\ SuccessIsReal

LEMMA InitInv == Init => SignatureInv
<1> SUFFICES ASSUME Init PROVE SignatureInv
  OBVIOUS
<1>1. Sent = {}
  BY DEF Init, Sent
<1>2. /\ \A r \in Requests : successes[r] = 0 /\ window[r] = "none"
  BY DEF Init
<1> QED BY <1>1, <1>2, InitCalls, InitRest, InitTold
        DEF SignatureInv, SignedWithThePin, SuccessIsReal

LEMMA NextPin == CallsInv /\ SignedWithThePin /\ [Next]_vars => SignedWithThePin'
  BY NextCalls DEF SignedWithThePin, Grows, WithItsPin

LEMMA NextInv == SignatureInv /\ [Next]_vars => SignatureInv'
  BY NextCalls, NextPin, NextSuccess, NextRest, NextTold, Zenon
     DEF SignatureInv

LEMMA InvHolds == Spec => []SignatureInv
  BY InitInv, NextInv, PTL DEF Spec

\* Whatever requests, cards and losses come in which order, TypeOK: the answers on
\* their way are answers, no more of them have an outcome than there are, and only
\* tokens that are in their slots are logged in.
THEOREM TypeCorrect == Spec => []TypeOK
<1>1. SignatureInv => TypeOK
  BY DEF SignatureInv, CallsInv, RestInv, HubTypes, CardTypes, BoundTypes, ToldInv, TypeOK
<1> QED BY <1>1, InvHolds, PTL

\* No signature leaves LocalProvider.sign that was not made with the PIN given in
\* that attempt, whatever the tokens and the sessions are: SignedWithThePin.
THEOREM AlwaysWithThePin == Spec => []SignedWithThePin
<1>1. SignatureInv => SignedWithThePin
  BY DEF SignatureInv
<1> QED BY <1>1, InvHolds, PTL

\* replySignature tells of a success only when the hub has accepted a signature
\* for that request: SuccessIsReal.
THEOREM SuccessesAreReal == Spec => []SuccessIsReal
<1>1. SignatureInv => SuccessIsReal
  BY DEF SignatureInv
<1> QED BY <1>1, InvHolds, PTL

\* Each attempt to sign is answered by one dialog as soon as it is no longer on its
\* way to the hub, whatever becomes of the connection: EveryAttemptIsTold.
THEOREM AttemptsAreTold == Spec => []EveryAttemptIsTold
<1>1. SignatureInv => EveryAttemptIsTold
  BY DEF SignatureInv, ToldInv
<1> QED BY <1>1, InvHolds, PTL

\* Whatever happens to cards, windows and connections, SignatureFlow does what
\* SigningPromise says: each attempt to sign is answered by a dialog of its own,
\* and "signed" only for a signature of its own that the hub has accepted.
THEOREM PromiseKept == Spec => ImplementsPromise
<1>1. Init => Promise!Init
  BY InitPromise
<1>2. SignatureInv /\ [Next]_vars => [Promise!Next]_(Promise!promiseVars)
  BY NextPromise DEF SignatureInv
<1>3. Spec => Init /\ [][Next]_vars
  BY PTL DEF Spec
<1> QED BY <1>1, <1>2, <1>3, InvHolds, PTL DEF ImplementsPromise, Promise!Spec
=============================================================================
