--------------------------- MODULE SigningPromise ---------------------------
(***************************************************************************)
(* What is promised to a user who signs: each time he signs, one signature *)
(* is sent or none, and one dialog tells him how it went.  "Signed" is     *)
(* said for a signature that the hub has accepted, and once for each, so   *)
(* an accepted signature never vouches for another attempt that failed.    *)
(* "Not signed" is a weaker word: with a lost connection it is said of     *)
(* every signature under way, those included that the hub has accepted.    *)
(* SignatureFlow implements it.                                            *)
(***************************************************************************)
EXTENDS Naturals

CONSTANT Requests

VARIABLES
  attempts,    \* times the user signed, of each request
  sent,        \* signatures on their way that the hub has not accepted
  accepted,    \* signatures that it has accepted and nobody was told of
  successes,   \* dialogs that said it was signed
  failures     \* dialogs that said it was not

promiseVars == <<attempts, sent, accepted, successes, failures>>

Init ==
  /\ attempts = [r \in Requests |-> 0]
  /\ sent = [r \in Requests |-> 0] /\ accepted = [r \in Requests |-> 0]
  /\ successes = [r \in Requests |-> 0] /\ failures = [r \in Requests |-> 0]

\* One more, or one less, of a number of r's.
More(f, r) == [f EXCEPT ![r] = @ + 1]
Less(f, r) == [f EXCEPT ![r] = @ - 1]

Send(r) ==
  /\ attempts' = More(attempts, r)
  /\ sent' = More(sent, r)
  /\ UNCHANGED <<accepted, successes, failures>>

Fail(r) ==
  /\ attempts' = More(attempts, r)
  /\ failures' = More(failures, r)
  /\ UNCHANGED <<sent, accepted, successes>>

Accept(r) ==
  /\ sent[r] > 0
  /\ sent' = Less(sent, r)
  /\ accepted' = More(accepted, r)
  /\ UNCHANGED <<attempts, successes, failures>>

TellSuccess(r) ==
  /\ accepted[r] > 0
  /\ accepted' = Less(accepted, r)
  /\ successes' = More(successes, r)
  /\ UNCHANGED <<attempts, sent, failures>>

TellFailure(r) ==
  /\ sent[r] > 0
  /\ sent' = Less(sent, r)
  /\ failures' = More(failures, r)
  /\ UNCHANGED <<attempts, accepted, successes>>

LoseAll ==
  /\ failures' = [r \in Requests |-> failures[r] + sent[r] + accepted[r]]
  /\ sent' = [r \in Requests |-> 0] /\ accepted' = [r \in Requests |-> 0]
  /\ UNCHANGED <<attempts, successes>>

Next ==
  \/ \E r \in Requests :
       Send(r) \/ Fail(r) \/ Accept(r) \/ TellSuccess(r) \/ TellFailure(r)
  \/ LoseAll

Spec == Init /\ [][Next]_promiseVars
=============================================================================
