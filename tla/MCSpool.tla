------------------------------- MODULE MCSpool -------------------------------
(* Instances of Spool for TLC. *)
EXTENDS Spool, TLC

CONSTANTS s1, s2, e1, e2

\* Both events belong to one session.
MCSessionOf == [e \in Event |-> s1]

Max(k, x, f, a) == ("kill" :> k) @@ ("expire" :> x) @@ ("fault" :> f)
                   @@ ("flushall" :> a)
MCMax0000 == Max(0, 0, 0, 0)
MCMax1111 == Max(1, 1, 1, 1)

\* Either no flusher is killed, no write fails, and there is one expiry or one
\* FlushAll, or e1 is the only event and s1 the only session at work.
MCBound ==
  \/ /\ occasions["kill"] = 0 /\ occasions["fault"] = 0
     /\ occasions["expire"] + occasions["flushall"] <= 1
  \/ /\ recorded \subseteq {e1} /\ \A h \in Hook : line[h] # e2
     /\ \A d \in Drainer : own[d] # s2

\* A step stays within the bound.
MCWithin == MCBound'

MCSymmetry == Permutations(File) \cup Permutations(Drainer)
=============================================================================
