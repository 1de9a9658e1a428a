---------------------------- MODULE ReconnectLoop ----------------------------
(***************************************************************************)
(* What the hub client promises about its reconnection: one loop of        *)
(* control that is either dialing, waiting to dial again or holding an     *)
(* open connection, never two of them at once, and that ends only after    *)
(* close() was called on an open connection.  HubConnection implements it. *)
(*                                                                         *)
(* close() does not end a loop that is dialing or waiting: the retry       *)
(* armed by start() ignores the stopped flag, so a stopped client may      *)
(* open once more, and closes for good when that connection is lost.       *)
(***************************************************************************)
VARIABLES
  phase,    \* where the loop is
  stopped   \* close() has been called

loopVars == <<phase, stopped>>

Phases == {"idle", "dialing", "waiting", "open", "closing", "closed"}

Init ==
  /\ phase = "idle"
  /\ stopped = FALSE

Dial ==
  /\ phase \in {"idle", "waiting"}
  /\ phase' = "dialing"
  /\ UNCHANGED stopped

Established ==
  /\ phase = "dialing"
  /\ phase' = "open"
  /\ UNCHANGED stopped

Refused ==
  /\ phase = "dialing"
  /\ phase' = "waiting"
  /\ UNCHANGED stopped

Lost ==
  /\ phase = "open"
  /\ phase' = IF stopped THEN "closed" ELSE "dialing"
  /\ UNCHANGED stopped

Stop ==
  /\ phase # "idle"
  /\ ~stopped
  /\ stopped' = TRUE
  /\ phase' = IF phase = "open" THEN "closing" ELSE phase

Closed ==
  /\ phase = "closing"
  /\ phase' = "closed"
  /\ UNCHANGED stopped

Next == Dial \/ Established \/ Refused \/ Lost \/ Stop \/ Closed

\* The loop keeps moving: a dial is answered, a wait ends, a close completes.
Fairness ==
  /\ WF_loopVars(Dial)
  /\ WF_loopVars(Established \/ Refused)
  /\ WF_loopVars(Closed)

Spec == Init /\ [][Next]_loopVars /\ Fairness
=============================================================================
