---------------------------- MODULE MCClientPost ----------------------------
(* Instance of ClientPost for TLC.                                           *)
EXTENDS ClientPost, FiniteSets

CONSTANTS c1, c2, c3, e1, e2

\* An evaluation and the flush of its spooled copy, and a call for an event
\* that does not marshal.
MCEventOf == [c \in Calls |-> IF c = c3 THEN e2 ELSE e1]

\* One call waits for an answer at a time; no more than two requests on the way
\* to core, two rows, three of both together, and three requests core has looked at.
MCBound ==
  /\ Cardinality(wire) <= 2 /\ Cardinality(stored) <= 2
  /\ Cardinality(wire) + Cardinality(stored) <= 3
  /\ Cardinality(nonces) + Cardinality(wire) <= 3
  /\ Cardinality({c \in Calls : phase[c] = "flight"}) <= 1

\* Next within the bound, action by action, so that TLC counts each of them.
MCNext ==
  \/ \E c \in Calls : \/ EmitUnbuildable(c) /\ MCBound'
                      \/ Emit(c) /\ MCBound'
                      \/ TransportError(c) /\ MCBound'
                      \/ BackoffOver(c) /\ MCBound'
                      \/ ContextDone(c) /\ MCBound'
                      \/ KillCaller(c) /\ MCBound'
  \/ \E a \in answers : ReadResponse(a) /\ MCBound'
  \/ \E q \in wire : \/ TransportReplays(q) /\ MCBound'
                     \/ CoreUnavailable(q) /\ MCBound'
                     \/ CoreRefuses(q) /\ MCBound'
                     \/ CoreEvaluates(q) /\ MCBound'
  \/ CoreShipsItsHalf /\ MCBound'

MCSpec == ClientInit /\ [][MCNext]_clientVars /\ ClientFairness
=============================================================================
