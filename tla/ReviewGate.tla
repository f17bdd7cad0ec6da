----------------------------- MODULE ReviewGate -----------------------------
(***************************************************************************)
(* What the distribution subsystem promises about a session, whatever way  *)
(* its messages are sent: nothing leaves before a reviewer has released    *)
(* the session, every message leaves at most once, and nothing leaves      *)
(* after the session is closed.                                            *)
(***************************************************************************)
EXTENDS Sequences, Naturals

CONSTANTS Session, Message

VARIABLES
  phase,   \* [Session -> {"draft", "released", "closed"}]
  said     \* the messages each conversation has received, in order

gateVars == <<phase, said>>

Spoken(s) == {said[s][i] : i \in DOMAIN said[s]}

GateInit ==
  /\ phase = [s \in Session |-> "draft"]
  /\ said = [s \in Session |-> <<>>]

\* A reviewer lets the session go.
Release(s) ==
  /\ phase[s] = "draft"
  /\ phase' = [phase EXCEPT ![s] = "released"]
  /\ UNCHANGED said

\* Rejected or deleted before it was released, or sent as far as it will be.
Close(s) ==
  /\ phase[s] # "closed"
  /\ phase' = [phase EXCEPT ![s] = "closed"]
  /\ UNCHANGED said

Say(s, m) ==
  /\ phase[s] = "released"
  /\ m \notin Spoken(s)
  /\ said' = [said EXCEPT ![s] = Append(@, m)]
  /\ UNCHANGED phase

GateNext ==
  \E s \in Session : \/ Release(s)
                     \/ Close(s)
                     \/ \E m \in Message : Say(s, m)

GateSpec == GateInit /\ [][GateNext]_gateVars
=============================================================================
