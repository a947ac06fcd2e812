------------------------------- MODULE MCRewake -------------------------------
(* Instances of Rewake for TLC. *)
EXTENDS Rewake, TLC

CONSTANTS c1, c2, k1, s1

\* Tool calls of one operation, in one session.
MCSessionOf  == [c \in Call |-> s1]
MCKeyOf      == [c \in Call |-> k1]
MCContractOf == [c \in Call |-> "tool"]
=============================================================================
