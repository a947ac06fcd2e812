---------------------------- MODULE MCEnforceGate ----------------------------
(* Instances of EnforceGate for TLC. *)
EXTENDS EnforceGate, TLC

CONSTANTS c1, c2, k1, s1

\* Tool calls of one operation, in one session of Claude Code.
MCSameSession == [c \in Call |-> s1]
MCSameKey     == [c \in Call |-> k1]
MCTools       == [c \in Call |-> "tool"]

MCSymmetry == Permutations(Call)
=============================================================================
