----------------------------- MODULE SpoolProofs -----------------------------
(***************************************************************************)
(* Proofs about Spool: its type invariant, that no event is lost, and that *)
(* none is sent again, or given up, against the allowance; for any number  *)
(* of sessions, events, hooks, flushers, files and mishaps.                *)
(***************************************************************************)
EXTENDS Spool, TLAPS

(***************************************************************************)
(* The processes refer to what their place in the program says they do.    *)
(***************************************************************************)
Shape ==
  /\ \A h \in Hook : fd[h] # NoFile => line[h] \in Event
  /\ \A d \in Drainer :
       /\ pc[d] \in {"read", "emit", "fill", "remove"} => cur[d] \in File
       /\ pc[d] = "fill" => out[d] \in File
       /\ pc[d] = "start" => own[d] \in Session

(***************************************************************************)
(* What a drain that still has its file under its name has secured: while  *)
(* it emits, every line is settled or in its memory; once it is about to   *)
(* remove the file, every line is settled or kept at a LATER attempt.  The *)
(* order on attempts is what makes the argument well founded: a file never *)
(* counts on one of an earlier or equal attempt, so no two drains can each *)
(* remove their file counting on the other's.                              *)
(***************************************************************************)
Secured(d, f) ==
  /\ base[d].attempt = attempt[f]
  /\ Working(d) => read[f]
  /\ pc[d] = "emit" =>
       \A e \in lines[f] : Settled(e) \/ e \in mem[d] \cup failed[d]
  /\ pc[d] = "fill" => \A e \in lines[f] : Settled(e) \/ e \in failed[d]
  /\ pc[d] = "remove" =>
       \A e \in lines[f] : Settled(e) \/ Kept(e, attempt[f] + 1)

HeldInv == \A d \in Drainer, f \in File : Holds(d, f) => Secured(d, f)

\* The carry-over file a drain is about to fill is one attempt later.
OutInv == \A d \in Drainer :
            pc[d] = "fill" /\ Live(out[d])
              => attempt[out[d]] = base[d].attempt + 1

\* What a flush has listed and nobody took yet is there.
TodoInv == \A d \in Drainer : \A f \in todo[d] : Live(f)

IInv == TypeOK /\ Shape /\ HeldInv /\ OutInv /\ TodoInv /\ NoLoss

-----------------------------------------------------------------------------
(***************************************************************************)
(* Type correctness                                                        *)
(***************************************************************************)

LEMMA TypeInit == Init => TypeOK /\ Shape
<1> SUFFICES ASSUME Init PROVE TypeOK /\ Shape
  OBVIOUS
<1> USE SpoolAssumption
<1>1. NoBase \in Base
  BY DEF NoBase, Base
<1>2. TypeOK
  BY <1>1 DEF Init, TypeOK, Kinds, PCs, Occasion
<1>3. Shape
  BY DEF Init, Shape
<1> QED BY <1>2, <1>3

LEMMA TypeNext == TypeOK /\ Shape /\ [Next]_vars => (TypeOK /\ Shape)'
<1> SUFFICES ASSUME TypeOK, Shape, [Next]_vars PROVE (TypeOK /\ Shape)'
  OBVIOUS
<1> USE SpoolAssumption DEF dirVars, hookVars, planVars, drainVars, coreVars, fateVars
<1>0. NoBase \in Base
  BY DEF NoBase, Base
<1>1. ASSUME NEW h \in Hook, NEW e \in Event, AppendOpen(h, e)
      PROVE (TypeOK /\ Shape)'
  <2>1. CASE \E f \in File : fd' = [fd EXCEPT ![h] = f] /\ UNCHANGED dirVars
    BY <1>1, <2>1 DEF TypeOK, Shape, AppendOpen
  <2>2. CASE \E f \in File : /\ Create(f, "spool", SessionOf[e], 0)
                             /\ fd' = [fd EXCEPT ![h] = f]
    <3>1. PICK f \in File : /\ Create(f, "spool", SessionOf[e], 0)
                            /\ fd' = [fd EXCEPT ![h] = f]
      BY <2>2
    <3>2. SessionOf[e] \in Session
      OBVIOUS
    <3>3. /\ kind' \in [File -> Kinds]
          /\ home' \in [File -> Session \cup {NoSession}]
          /\ attempt' \in [File -> 0..MaxRecoveryAttempts]
          /\ owner' \in [File -> Drainer \cup {Nobody}]
          /\ lines' \in [File -> SUBSET Event]
          /\ read' \in [File -> BOOLEAN]
      BY <3>1, <3>2 DEF TypeOK, Create, Kinds
    <3> QED BY <1>1, <3>1, <3>3 DEF TypeOK, Shape, AppendOpen
  <2> QED BY <1>1, <2>1, <2>2 DEF AppendOpen
<1>2. ASSUME NEW h \in Hook, AppendWrite(h)
      PROVE (TypeOK /\ Shape)'
  BY <1>2 DEF TypeOK, Shape, AppendWrite, WriteLines
<1>3. ASSUME NEW d \in Drainer, NEW s \in Session, SessionEndFlush(d, s)
      PROVE (TypeOK /\ Shape)'
  BY <1>3 DEF TypeOK, Shape, SessionEndFlush, UndeliveredLines, PCs
<1>4. ASSUME NEW d \in Drainer, NEW s \in Session, BeginFlush(d, s)
      PROVE (TypeOK /\ Shape)'
  BY <1>4 DEF TypeOK, Shape, BeginFlush, RecoveryFiles, PCs
<1>5. ASSUME NEW d \in Drainer, FlushAll(d)
      PROVE (TypeOK /\ Shape)'
  BY <1>5 DEF TypeOK, Shape, FlushAll, PCs, Happens, Occasion
<1>6. ASSUME NEW d \in Drainer, NEW s \in Session, RotateSpool(d, s)
      PROVE (TypeOK /\ Shape)'
  <2>1. CASE \E f \in File : IsSpoolOf(f, s) /\ Claim(d, f)
    <3>1. PICK f \in File : Claim(d, f)
      BY <2>1
    <3> QED
      BY <1>6, <3>1 DEF TypeOK, Shape, RotateSpool, Claim, Unlist, PCs, Kinds, Base
  <2>2. CASE UNCHANGED <<kind, owner, todo, cur, base, pc>>
    BY <1>6, <2>2 DEF TypeOK, Shape, RotateSpool
  <2> QED BY <1>6, <2>1, <2>2 DEF RotateSpool
<1>7. ASSUME NEW d \in Drainer, NEW f \in todo[d], ClaimListed(d, f)
      PROVE (TypeOK /\ Shape)'
  BY <1>7 DEF TypeOK, Shape, ClaimListed, Claim, Unlist, PCs, Kinds, Base
<1>8. ASSUME NEW d \in Drainer, FinishFlush(d)
      PROVE (TypeOK /\ Shape)'
  BY <1>8 DEF TypeOK, Shape, FinishFlush, PCs
<1>9. ASSUME NEW d \in Drainer, ReadFile(d)
      PROVE (TypeOK /\ Shape)'
  BY <1>9 DEF TypeOK, Shape, ReadFile, PCs, Bump
<1>10. ASSUME NEW d \in Drainer, ReadNothing(d)
       PROVE (TypeOK /\ Shape)'
  BY <1>10, <1>0 DEF TypeOK, Shape, ReadNothing, PCs
<1>11. ASSUME NEW d \in Drainer, NEW e \in Event, EmitEvent(d, e)
       PROVE (TypeOK /\ Shape)'
  BY <1>11 DEF TypeOK, Shape, EmitEvent
<1>12. ASSUME NEW d \in Drainer, EndDrain(d)
       PROVE (TypeOK /\ Shape)'
  BY <1>12 DEF TypeOK, Shape, EndDrain, DrainOver, Undelivered, PCs
<1>13. ASSUME NEW d \in Drainer, CreateRecovery(d)
       PROVE (TypeOK /\ Shape)'
  BY <1>13 DEF TypeOK, Shape, CreateRecovery, DrainOver, Undelivered, Create,
               GiveUp, NextAttempt, Base, PCs, Kinds
<1>14. ASSUME NEW d \in Drainer, FillRecovery(d)
       PROVE (TypeOK /\ Shape)'
  BY <1>14 DEF TypeOK, Shape, FillRecovery, WriteLines, PCs
<1>15. ASSUME NEW d \in Drainer, RecoveryFault(d)
       PROVE (TypeOK /\ Shape)'
  BY <1>15 DEF TypeOK, Shape, RecoveryFault, DrainOver, Undelivered, Happens,
               Occasion, PCs
<1>16. ASSUME NEW d \in Drainer, RemoveRotated(d)
       PROVE (TypeOK /\ Shape)'
  <2>1. CASE Unlink(cur[d])
    BY <1>16, <1>0, <2>1 DEF TypeOK, Shape, RemoveRotated, Unlink, Unlist, PCs, Kinds
  <2>2. CASE UNCHANGED <<dirVars, todo>>
    BY <1>16, <1>0, <2>2 DEF TypeOK, Shape, RemoveRotated, PCs
  <2> QED BY <1>16, <2>1, <2>2 DEF RemoveRotated
<1>17. ASSUME NEW d \in Drainer, Expire(d)
       PROVE (TypeOK /\ Shape)'
  BY <1>17 DEF TypeOK, Shape, Expire, Happens, Occasion
<1>18. ASSUME NEW d \in Drainer, Kill(d)
       PROVE (TypeOK /\ Shape)'
  BY <1>18, <1>0 DEF TypeOK, Shape, Kill, Happens, Occasion, PCs, Holds, Working
<1>19. CASE UNCHANGED vars
  BY <1>19 DEF TypeOK, Shape, vars
<1> HIDE DEF dirVars, hookVars, planVars, drainVars, coreVars, fateVars
<1>20. ASSUME NEW d \in Drainer, FlushStep(d)
       PROVE (TypeOK /\ Shape)'
  <2>1. CASE pc[d] = "start" /\ BeginFlush(d, own[d])
    BY <2>1, <1>4 DEF Shape
  <2> QED BY <1>20, <2>1, <1>6, <1>7, <1>8 DEF FlushStep
<1> QED
  BY <1>1, <1>2, <1>3, <1>4, <1>5, <1>9, <1>10, <1>11, <1>12, <1>13, <1>14,
     <1>15, <1>16, <1>17, <1>18, <1>19, <1>20
  DEF Next, HookStep, StartFlush, DrainStep

(***************************************************************************)
(* Every variable has its type in every reachable state of the spool.      *)
(***************************************************************************)
THEOREM TypeCorrect == Spec => []TypeOK
<1>1. Spec => [](TypeOK /\ Shape)
  BY TypeInit, TypeNext, PTL DEF Spec
<1> QED BY <1>1, PTL

-----------------------------------------------------------------------------
(***************************************************************************)
(* What the steps leave standing                                           *)
(***************************************************************************)

\* Every file keeps its name's attempt and its lines.
Grows == \A f \in File : Live(f) => /\ Live(f)'
                                    /\ attempt'[f] = attempt[f]
                                    /\ lines[f] \subseteq lines'[f]

\* Only the removal of a rotated file takes lines out of the directory.
LEMMA GrowsNext ==
  ASSUME TypeOK, Shape, [Next]_vars
  PROVE  Grows \/ \E d \in Drainer : RemoveRotated(d)
<1> USE DEF dirVars, planVars, Grows, Live
<1>1. ASSUME NEW h \in Hook, NEW e \in Event, AppendOpen(h, e) PROVE Grows
  BY <1>1 DEF TypeOK, AppendOpen, Create, Free
<1>2. ASSUME NEW h \in Hook, AppendWrite(h) PROVE Grows
  BY <1>2 DEF TypeOK, AppendWrite, WriteLines
<1>3. ASSUME NEW d \in Drainer, NEW s \in Session, RotateSpool(d, s) PROVE Grows
  BY <1>3 DEF TypeOK, RotateSpool, Claim
<1>4. ASSUME NEW d \in Drainer, NEW f \in todo[d], ClaimListed(d, f) PROVE Grows
  BY <1>4 DEF TypeOK, ClaimListed, Claim
<1>5. ASSUME NEW d \in Drainer, CreateRecovery(d) PROVE Grows
  BY <1>5 DEF TypeOK, CreateRecovery, Create, Free
<1>6. ASSUME NEW d \in Drainer, FillRecovery(d) PROVE Grows
  BY <1>6 DEF TypeOK, FillRecovery, WriteLines
<1>7. ASSUME NEW d \in Drainer, ReadFile(d) PROVE Grows
  BY <1>7 DEF ReadFile
<1>8. ASSUME NEW d \in Drainer,
             \/ ReadNothing(d) \/ EndDrain(d) \/ RecoveryFault(d) \/ Expire(d)
             \/ Kill(d) \/ FinishFlush(d) \/ FlushAll(d)
             \/ \E e \in Event : EmitEvent(d, e)
             \/ \E s \in Session : SessionEndFlush(d, s)
             \/ \E s \in Session \cup {own[d]} : BeginFlush(d, s)
      PROVE  Grows
  BY <1>8 DEF ReadNothing, EndDrain, RecoveryFault, Expire, Kill, FinishFlush,
     FlushAll, EmitEvent, SessionEndFlush, BeginFlush
<1>9. CASE UNCHANGED vars
  BY <1>9 DEF vars
<1> HIDE DEF dirVars, planVars, Grows, Live
<1> QED
  BY <1>1, <1>2, <1>3, <1>4, <1>5, <1>6, <1>7, <1>8, <1>9
  DEF Next, HookStep, StartFlush, FlushStep, DrainStep

\* What is settled stays settled.
LEMMA SettledStable ==
  ASSUME [Next]_vars, NEW e, Settled(e)
  PROVE  Settled(e)'
<1> DEFINE FatesGrow == /\ acked \subseteq acked' /\ dropped \subseteq dropped'
                       /\ faulted \subseteq faulted' /\ late \subseteq late'
<1>1. FatesGrow
  <2> USE DEF coreVars, fateVars
  <2>1. CASE UNCHANGED vars
    BY <2>1 DEF vars
  <2>2. ASSUME NEW h \in Hook, HookStep(h) PROVE FatesGrow
    BY <2>2 DEF HookStep, AppendOpen, AppendWrite, WriteLines
  <2>3. ASSUME NEW d \in Drainer, NEW g \in Event, EmitEvent(d, g) PROVE FatesGrow
    BY <2>3 DEF EmitEvent
  <2>4. ASSUME NEW d \in Drainer,
               \/ ReadFile(d) \/ ReadNothing(d) \/ EndDrain(d)
               \/ CreateRecovery(d) \/ FillRecovery(d) \/ RecoveryFault(d)
               \/ RemoveRotated(d)
        PROVE FatesGrow
    BY <2>4 DEF ReadFile, ReadNothing, EndDrain, CreateRecovery, FillRecovery,
       WriteLines, RecoveryFault, RemoveRotated
  <2>5. ASSUME NEW d \in Drainer,
               StartFlush(d) \/ FlushAll(d) \/ FlushStep(d) \/ Expire(d) \/ Kill(d)
        PROVE FatesGrow
    BY <2>5 DEF StartFlush, FlushAll, FlushStep, BeginFlush, SessionEndFlush,
       RotateSpool, ClaimListed, FinishFlush, Expire, Kill
  <2> HIDE DEF coreVars, fateVars
  <2> QED BY <2>1, <2>2, <2>3, <2>4, <2>5 DEF Next, DrainStep
<1> QED BY <1>1 DEF Settled

\* A kept event stays kept, or is settled.  The interesting step is the removal
\* of the very file that kept it: what that drain secured is kept later on.
LEMMA KeptStable ==
  ASSUME TypeOK, Shape, HeldInv, [Next]_vars,
         NEW e \in Event, NEW n \in Nat, Kept(e, n)
  PROVE  (Settled(e) \/ Kept(e, n))'
<1>1. PICK f \in File : Live(f) /\ attempt[f] >= n /\ e \in lines[f]
  BY DEF Kept
<1>2. CASE Grows
  BY <1>1, <1>2 DEF Grows, Kept
<1>3. ASSUME NEW d \in Drainer, RemoveRotated(d) PROVE (Settled(e) \/ Kept(e, n))'
  <2>1. CASE ~Holds(d, cur[d])
    BY <1>1, <1>3, <2>1 DEF RemoveRotated, dirVars, Kept, Live
  <2>2. CASE Holds(d, cur[d]) /\ cur[d] # f
    BY <1>1, <1>3, <2>2 DEF RemoveRotated, Unlink, Kept, Live, TypeOK
  <2>3. CASE Holds(d, cur[d]) /\ cur[d] = f
    <3>1. pc[d] = "remove"
      BY <1>3 DEF RemoveRotated
    <3>2. Settled(e) \/ Kept(e, attempt[f] + 1)
      BY <1>1, <2>3, <3>1 DEF HeldInv, Secured
    <3>3. CASE Settled(e)
      BY <3>3, SettledStable
    <3>4. CASE Kept(e, attempt[f] + 1)
      <4>1. PICK g \in File : /\ Live(g) /\ e \in lines[g]
                              /\ attempt[g] >= attempt[f] + 1
        BY <3>4 DEF Kept
      <4>2. g # f /\ attempt[g] >= n
        BY <1>1, <4>1, SpoolAssumption DEF TypeOK
      <4> QED
        BY <1>3, <2>3, <4>1, <4>2 DEF RemoveRotated, Unlink, Kept, Live, TypeOK
    <3> QED BY <3>2, <3>3, <3>4
  <2> QED BY <2>1, <2>2, <2>3
<1> QED BY <1>2, <1>3, GrowsNext

-----------------------------------------------------------------------------
(***************************************************************************)
(* The inductive invariant                                                 *)
(***************************************************************************)

\* What a drain has secured stays secured by a step that leaves the drain and
\* its file alone, but for lines that come too late for it.
LEMMA SecuredStable ==
  ASSUME TypeOK, Shape, HeldInv, [Next]_vars,
         NEW d \in Drainer, NEW f \in File, Holds(d, f),
         base'[d] = base[d], pc'[d] = pc[d],
         mem[d] \subseteq mem'[d], failed[d] \subseteq failed'[d],
         attempt'[f] = attempt[f],
         read[f] => read'[f],
         lines'[f] \subseteq Event,
         \A e \in lines'[f] : e \in lines[f] \/ (Working(d) => e \in late')
  PROVE  Secured(d, f)'
<1>1. Secured(d, f)
  BY DEF HeldInv
<1>2. \A e \in lines[f] : Settled(e) => Settled(e)'
  BY SettledStable
<1>3. \A e \in late' : Settled(e)'
  BY DEF Settled
<1>4. ASSUME NEW e \in lines[f], Kept(e, attempt[f] + 1)
      PROVE  Settled(e)' \/ Kept(e, attempt[f] + 1)'
  <2>1. attempt[f] + 1 \in Nat /\ e \in Event
    BY SpoolAssumption DEF TypeOK
  <2> QED BY <2>1, <1>4, KeptStable
<1>5. CASE pc[d] = "emit"
  BY <1>1, <1>2, <1>3, <1>5 DEF Secured, Working
<1>6. CASE pc[d] = "fill"
  BY <1>1, <1>2, <1>3, <1>6 DEF Secured, Working
<1>7. CASE pc[d] = "remove"
  BY <1>1, <1>2, <1>3, <1>4, <1>7 DEF Secured, Working, Kept, Live
<1>8. CASE pc[d] \notin {"emit", "fill", "remove"}
  BY <1>1, <1>8 DEF Secured, Working
<1> QED BY <1>5, <1>6, <1>7, <1>8

\* A step of a flusher that has no part in a drain: it starts, plans or ends.
LEMMA PlanStepHeld ==
  ASSUME IInv, [Next]_vars, NEW d \in Drainer,
         UNCHANGED <<dirVars, drainVars>>,
         \A c \in Drainer \ {d} : pc'[c] = pc[c],
         pc'[d] = pc[d] \/ pc'[d] \in {"idle", "start", "next"}
  PROVE  HeldInv'
<1> SUFFICES ASSUME NEW c \in Drainer, NEW f \in File, Holds(c, f)'
             PROVE  Secured(c, f)'
  BY DEF HeldInv
<1>1. Holds(c, f)
  BY DEF Holds, dirVars, drainVars
<1>2. CASE pc'[c] = pc[c]
  BY <1>1, <1>2, SecuredStable DEF IInv, dirVars, drainVars, TypeOK
<1>3. CASE pc'[c] \in {"idle", "start", "next"}
  <2>1. base[c].attempt = attempt[f]
    BY <1>1 DEF IInv, HeldInv, Secured
  <2> QED BY <1>3, <2>1 DEF Secured, Working, dirVars, drainVars
<1> QED BY <1>2, <1>3

\* A step of drain d that leaves the directory alone concerns d only.
LEMMA OwnStepHeld ==
  ASSUME IInv, [Next]_vars, NEW d \in Drainer,
         UNCHANGED dirVars,
         \A c \in Drainer \ {d} :
           /\ pc'[c] = pc[c] /\ cur'[c] = cur[c] /\ base'[c] = base[c]
           /\ mem'[c] = mem[c] /\ failed'[c] = failed[c],
         \A f \in File : Holds(d, f)' => Secured(d, f)'
  PROVE  HeldInv'
<1> SUFFICES ASSUME NEW c \in Drainer \ {d}, NEW f \in File, Holds(c, f)'
             PROVE  Secured(c, f)'
  BY DEF HeldInv
<1>1. Holds(c, f)
  BY DEF Holds, dirVars
<1> QED
  BY <1>1, SecuredStable DEF IInv, dirVars, TypeOK

LEMMA HeldNext == ASSUME IInv, [Next]_vars PROVE HeldInv'
<1> USE SpoolAssumption
<1>t. TypeOK /\ Shape /\ HeldInv /\ OutInv
  BY DEF IInv
<1>1. ASSUME NEW h \in Hook, NEW e \in Event, AppendOpen(h, e) PROVE HeldInv'
  <2> SUFFICES ASSUME NEW c \in Drainer, NEW f \in File, Holds(c, f)'
               PROVE  Secured(c, f)'
    BY DEF HeldInv
  <2>0. UNCHANGED <<pc, drainVars>>
    BY <1>1 DEF AppendOpen
  <2>1. CASE UNCHANGED dirVars
    <3>1. Holds(c, f)
      BY <2>0, <2>1 DEF Holds, dirVars, drainVars
    <3> QED
      BY <1>t, <2>0, <2>1, <3>1, SecuredStable DEF dirVars, drainVars, TypeOK
  <2>2. CASE \E g \in File : Create(g, "spool", SessionOf[e], 0)
    <3>1. PICK g \in File : Create(g, "spool", SessionOf[e], 0)
      BY <2>2
    <3>2. f # g /\ Holds(c, f)
      BY <1>t, <2>0, <3>1 DEF Create, Holds, drainVars, TypeOK
    <3> QED
      BY <1>t, <2>0, <3>1, <3>2, SecuredStable DEF Create, drainVars, TypeOK
  <2> QED BY <1>1, <2>1, <2>2 DEF AppendOpen
<1>2. ASSUME NEW h \in Hook, AppendWrite(h) PROVE HeldInv'
  <2> SUFFICES ASSUME NEW c \in Drainer, NEW f \in File, Holds(c, f)'
               PROVE  Secured(c, f)'
    BY DEF HeldInv
  <2>1. Holds(c, f) /\ Live(f)
    BY <1>2 DEF AppendWrite, Holds, drainVars, Live
  <2>2. Working(c) => read[f]
    BY <1>t, <2>1 DEF HeldInv, Secured
  <2>3. line[h] \in Event
    BY <1>t, <1>2 DEF Shape, AppendWrite
  <2>4. \A e \in lines'[f] : e \in lines[f] \/ (Working(c) => e \in late')
    BY <1>t, <1>2, <2>1, <2>2 DEF AppendWrite, WriteLines, TypeOK
  <2>5. lines'[f] \subseteq Event
    BY <1>t, <1>2, <2>3 DEF AppendWrite, WriteLines, TypeOK
  <2> QED
    BY <1>t, <1>2, <2>1, <2>4, <2>5, SecuredStable DEF AppendWrite, drainVars
<1>3. ASSUME NEW d \in Drainer,
             \/ FlushAll(d) \/ FinishFlush(d) \/ Expire(d)
             \/ \E s \in Session : SessionEndFlush(d, s)
             \/ \E s \in Session \cup {own[d]} : BeginFlush(d, s)
      PROVE  HeldInv'
  <2>1. /\ UNCHANGED <<dirVars, drainVars>>
        /\ \A c \in Drainer \ {d} : pc'[c] = pc[c]
        /\ pc'[d] = pc[d] \/ pc'[d] \in {"idle", "start", "next"}
    BY <1>t, <1>3 DEF FlushAll, FinishFlush, Expire, SessionEndFlush, BeginFlush, TypeOK
  <2> QED BY <2>1, PlanStepHeld
<1>4. ASSUME NEW d \in Drainer, NEW g \in File, Claim(d, g),
             UNCHANGED <<home, attempt, lines, read, mem, failed>>
      PROVE  HeldInv'
  <2> SUFFICES ASSUME NEW c \in Drainer, NEW f \in File, Holds(c, f)'
               PROVE  Secured(c, f)'
    BY DEF HeldInv
  <2>1. CASE c = d
    <3>1. f = g
      BY <1>t, <1>4, <2>1 DEF Holds, Claim, TypeOK
    <3> QED BY <1>t, <1>4, <2>1, <3>1 DEF Claim, Secured, Working, TypeOK
  <2>2. CASE c # d
    <3>1. f # g /\ Holds(c, f)
      BY <1>t, <1>4, <2>2 DEF Holds, Claim, TypeOK
    <3> QED BY <1>t, <1>4, <2>2, <3>1, SecuredStable DEF Claim, TypeOK
  <2> QED BY <2>1, <2>2
<1>5. ASSUME NEW d \in Drainer, NEW s \in Session, RotateSpool(d, s) PROVE HeldInv'
  <2>1. CASE \E f \in File : Claim(d, f)
    BY <1>4, <1>5, <2>1 DEF RotateSpool
  <2>2. CASE UNCHANGED <<kind, owner, todo, cur, base, pc>>
    <3>1. UNCHANGED <<dirVars, drainVars, pc>>
      BY <1>5, <2>2 DEF RotateSpool, dirVars, drainVars
    <3> QED BY <3>1, PlanStepHeld
  <2> QED BY <1>5, <2>1, <2>2 DEF RotateSpool
<1>6. ASSUME NEW d \in Drainer, NEW f \in todo[d], ClaimListed(d, f) PROVE HeldInv'
  <2>1. f \in File
    BY <1>t DEF TypeOK
  <2> QED BY <1>4, <1>6, <2>1 DEF ClaimListed
<1>7. ASSUME NEW d \in Drainer, ReadFile(d) PROVE HeldInv'
  <2> SUFFICES ASSUME NEW c \in Drainer, NEW f \in File, Holds(c, f)'
               PROVE  Secured(c, f)'
    BY DEF HeldInv
  <2>1. Holds(c, f)
    BY <1>7 DEF ReadFile, Holds
  <2>2. CASE c = d
    <3>1. cur[d] = f /\ base[d].attempt = attempt[f]
      BY <1>t, <2>1, <2>2 DEF HeldInv, Secured, Holds
    <3> QED BY <1>t, <1>7, <2>2, <3>1 DEF ReadFile, Secured, Working, TypeOK
  <2>3. CASE c # d
    BY <1>t, <1>7, <2>1, <2>3, SecuredStable DEF ReadFile, TypeOK
  <2> QED BY <2>2, <2>3
<1>8. ASSUME NEW d \in Drainer, ReadNothing(d) \/ Kill(d) PROVE HeldInv'
  <2>1. UNCHANGED dirVars /\ cur'[d] = NoFile
    BY <1>t, <1>8 DEF ReadNothing, Kill, TypeOK
  <2>2. \A c \in Drainer \ {d} :
           /\ pc'[c] = pc[c] /\ cur'[c] = cur[c] /\ base'[c] = base[c]
           /\ mem'[c] = mem[c] /\ failed'[c] = failed[c]
    BY <1>t, <1>8 DEF ReadNothing, Kill, TypeOK
  <2>3. \A f \in File : ~Holds(d, f)'
    BY <2>1 DEF Holds
  <2> QED BY <2>1, <2>2, <2>3, OwnStepHeld
<1>9. ASSUME NEW d \in Drainer, NEW e \in Event, EmitEvent(d, e) PROVE HeldInv'
  <2>1. /\ UNCHANGED <<dirVars, pc, cur, base>>
        /\ \A c \in Drainer \ {d} : mem'[c] = mem[c] /\ failed'[c] = failed[c]
    BY <1>t, <1>9 DEF EmitEvent, TypeOK
  <2>2. ASSUME NEW f \in File, Holds(d, f)' PROVE Secured(d, f)'
    <3>1. Holds(d, f) /\ pc[d] = "emit"
      BY <1>9, <2>1, <2>2 DEF EmitEvent, Holds, dirVars
    <3>2. /\ base[d].attempt = attempt[f] /\ read[f]
          /\ \A g \in lines[f] : Settled(g) \/ g \in mem[d] \cup failed[d]
      BY <1>t, <3>1 DEF HeldInv, Secured, Working
    <3>3. /\ mem'[d] = mem[d] \ {e} /\ failed[d] \subseteq failed'[d]
          /\ e \in failed'[d] \/ Settled(e)'
      BY <1>t, <1>9 DEF EmitEvent, TypeOK, Settled
    <3>4. \A g \in lines[f] : Settled(g)' \/ g \in mem'[d] \cup failed'[d]
      BY <3>2, <3>3, SettledStable
    <3> QED BY <2>1, <3>1, <3>2, <3>4 DEF Secured, Working, dirVars
  <2> QED BY <2>1, <2>2, OwnStepHeld
<1>10. ASSUME NEW d \in Drainer, EndDrain(d) \/ RecoveryFault(d) PROVE HeldInv'
  <2>1. /\ UNCHANGED <<dirVars, cur, base>> /\ pc[d] = "emit" /\ pc'[d] = "remove"
        /\ \A c \in Drainer \ {d} : /\ pc'[c] = pc[c] /\ mem'[c] = mem[c]
                                    /\ failed'[c] = failed[c]
    BY <1>t, <1>10 DEF EndDrain, RecoveryFault, DrainOver, TypeOK
  <2>2. \A e \in mem[d] \cup failed[d] : Settled(e)'
    BY <1>10 DEF EndDrain, RecoveryFault, Undelivered, Settled
  <2>3. ASSUME NEW f \in File, Holds(d, f)' PROVE Secured(d, f)'
    <3>1. Holds(d, f)
      BY <2>1, <2>3 DEF Holds, dirVars
    <3>2. /\ base[d].attempt = attempt[f] /\ read[f]
          /\ \A g \in lines[f] : Settled(g) \/ g \in mem[d] \cup failed[d]
      BY <1>t, <2>1, <3>1 DEF HeldInv, Secured, Working
    <3>3. \A g \in lines[f] : Settled(g)'
      BY <2>2, <3>2, SettledStable
    <3> QED BY <2>1, <3>2, <3>3 DEF Secured, Working, dirVars
  <2> QED BY <2>1, <2>3, OwnStepHeld
<1>11. ASSUME NEW d \in Drainer, CreateRecovery(d) PROVE HeldInv'
  <2>1. PICK g \in File : /\ Create(g, "recovery", base[d].session, NextAttempt(d))
                          /\ out' = [out EXCEPT ![d] = g]
    BY <1>11 DEF CreateRecovery
  <2> SUFFICES ASSUME NEW c \in Drainer, NEW f \in File, Holds(c, f)'
               PROVE  Secured(c, f)'
    BY DEF HeldInv
  <2>2. f # g /\ Holds(c, f)
    BY <1>t, <1>11, <2>1 DEF CreateRecovery, Create, Holds, TypeOK
  <2>3. /\ attempt'[f] = attempt[f] /\ lines'[f] = lines[f] /\ read'[f] = read[f]
        /\ base' = base
    BY <1>t, <1>11, <2>1, <2>2 DEF CreateRecovery, Create, TypeOK
  <2>4. CASE c = d
    <3>1. pc[d] = "emit" /\ pc'[d] = "fill" /\ failed'[d] = failed[d] \cup mem[d]
      BY <1>t, <1>11 DEF CreateRecovery, DrainOver, Undelivered, TypeOK
    <3>2. /\ base[d].attempt = attempt[f] /\ read[f]
          /\ \A e \in lines[f] : Settled(e) \/ e \in mem[d] \cup failed[d]
      BY <1>t, <2>2, <2>4, <3>1 DEF HeldInv, Secured, Working
    <3>3. \A e \in lines[f] : Settled(e)' \/ e \in failed'[d]
      BY <3>1, <3>2, SettledStable
    <3> QED BY <2>3, <2>4, <3>1, <3>2, <3>3 DEF Secured, Working
  <2>5. CASE c # d
    <3>1. pc'[c] = pc[c] /\ mem'[c] = mem[c] /\ failed'[c] = failed[c]
      BY <1>t, <1>11, <2>5 DEF CreateRecovery, TypeOK
    <3> QED BY <1>t, <2>2, <2>3, <3>1, SecuredStable DEF TypeOK
  <2> QED BY <2>4, <2>5
<1>12. ASSUME NEW d \in Drainer, FillRecovery(d) PROVE HeldInv'
  <2> SUFFICES ASSUME NEW c \in Drainer, NEW f \in File, Holds(c, f)'
               PROVE  Secured(c, f)'
    BY DEF HeldInv
  <2>1. Holds(c, f) /\ Live(f)
    BY <1>12 DEF FillRecovery, Holds, Live
  <2>2. out[d] \in File /\ pc[d] = "fill" /\ pc'[d] = "remove"
    BY <1>t, <1>12 DEF FillRecovery, Shape, TypeOK
  <2>3. UNCHANGED <<attempt, base, read, kind>>
    BY <1>12 DEF FillRecovery
  <2>4. /\ base[c].attempt = attempt[f]
        /\ Working(c) => read[f]
    BY <1>t, <2>1 DEF HeldInv, Secured
  <2>5. \A e \in lines'[f] : e \in lines[f] \/ (Working(c) => e \in late')
    BY <1>t, <1>12, <2>1, <2>2, <2>4 DEF FillRecovery, WriteLines, TypeOK
  <2>6. CASE c # d
    <3>1. pc'[c] = pc[c] /\ mem'[c] = mem[c] /\ failed'[c] = failed[c]
      BY <1>t, <1>12, <2>6 DEF FillRecovery, TypeOK
    <3>2. lines'[f] \subseteq Event
      BY <1>t, <1>12 DEF FillRecovery, WriteLines, TypeOK
    <3> QED BY <1>t, <2>1, <2>3, <2>5, <3>1, <3>2, SecuredStable
  <2>7. CASE c = d
    <3>1. /\ base[d].attempt = attempt[f] /\ read[f]
          /\ \A e \in lines[f] : Settled(e) \/ e \in failed[d]
      BY <1>t, <2>1, <2>2, <2>7 DEF HeldInv, Secured, Working
    <3>2. ASSUME NEW e \in failed[d] PROVE (Settled(e) \/ Kept(e, attempt[f] + 1))'
      <4>1. CASE Live(out[d]) /\ ~read[out[d]]
        <5>1. attempt[out[d]] = attempt[f] + 1
          BY <1>t, <2>2, <3>1, <4>1 DEF OutInv
        <5>2. e \in lines'[out[d]]
          BY <1>t, <1>12, <2>2, <4>1 DEF FillRecovery, WriteLines, TypeOK
        <5> QED
          BY <1>t, <2>2, <2>3, <4>1, <5>1, <5>2 DEF Kept, Live, TypeOK
      <4>2. CASE ~(Live(out[d]) /\ ~read[out[d]])
        BY <1>12, <4>2 DEF FillRecovery, WriteLines, Settled
      <4> QED BY <4>1, <4>2
    <3>3. \A e \in lines'[f] : (Settled(e) \/ Kept(e, attempt[f] + 1))'
      <4> SUFFICES ASSUME NEW e \in lines'[f]
                   PROVE  (Settled(e) \/ Kept(e, attempt[f] + 1))'
        OBVIOUS
      <4>1. CASE e \in late'
        BY <4>1 DEF Settled
      <4>2. CASE e \in lines[f]
        BY <3>1, <3>2, <4>2, SettledStable
      <4> QED BY <2>2, <2>5, <2>7, <4>1, <4>2 DEF Working
    <3> QED
      BY <2>2, <2>3, <2>7, <3>1, <3>3 DEF Secured, Working, Kept, Live
  <2> QED BY <2>6, <2>7
<1>13. ASSUME NEW d \in Drainer, RemoveRotated(d) PROVE HeldInv'
  <2> SUFFICES ASSUME NEW c \in Drainer, NEW f \in File, Holds(c, f)'
               PROVE  Secured(c, f)'
    BY DEF HeldInv
  <2>1. c # d
    BY <1>t, <1>13 DEF RemoveRotated, Holds, TypeOK
  <2>2. /\ pc'[c] = pc[c] /\ cur'[c] = cur[c] /\ base'[c] = base[c]
        /\ mem'[c] = mem[c] /\ failed'[c] = failed[c]
    BY <1>t, <1>13, <2>1 DEF RemoveRotated, TypeOK
  <2>3. CASE ~Holds(d, cur[d])
    <3>1. UNCHANGED dirVars
      BY <1>13, <2>3 DEF RemoveRotated
    <3> QED
      BY <1>t, <2>2, <3>1, SecuredStable DEF Holds, dirVars, TypeOK
  <2>4. CASE Holds(d, cur[d])
    <3>1. Unlink(cur[d])
      BY <1>13, <2>4 DEF RemoveRotated
    <3>2. f # cur[d] /\ Holds(c, f)
      BY <1>t, <2>2, <3>1 DEF Unlink, Holds, TypeOK
    <3> QED
      BY <1>t, <2>2, <3>1, <3>2, SecuredStable DEF Unlink, TypeOK
  <2> QED BY <2>3, <2>4
<1>14. CASE UNCHANGED vars
  <2>1. UNCHANGED <<dirVars, drainVars, pc>>
    BY <1>14 DEF vars
  <2>2. ASSUME NEW d \in Drainer PROVE HeldInv'
    BY <2>1, <2>2, PlanStepHeld
  <2> QED BY <2>2 DEF HeldInv
<1> QED
  BY <1>1, <1>2, <1>3, <1>5, <1>6, <1>7, <1>8, <1>9, <1>10, <1>11, <1>12, <1>13,
     <1>14
  DEF Next, HookStep, StartFlush, FlushStep, DrainStep

LEMMA TodoNext == ASSUME IInv, [Next]_vars PROVE TodoInv'
<1>t. TypeOK /\ Shape /\ TodoInv
  BY DEF IInv
<1> DEFINE Shrinks == \A c \in Drainer : todo'[c] \subseteq todo[c]
<1> USE DEF planVars
<1>1. ASSUME NEW d \in Drainer,
             FlushAll(d) \/ \E s \in Session \cup {own[d]} : BeginFlush(d, s)
      PROVE  TodoInv'
  <2>1. PICK F \in SUBSET {f \in File : Live(f)} : todo' = [todo EXCEPT ![d] = F]
    BY <1>1 DEF FlushAll, BeginFlush, RecoveryFiles, IsRecoveryFile, Live
  <2>2. kind' = kind
    BY <1>1 DEF FlushAll, BeginFlush, dirVars
  <2> QED BY <1>t, <2>1, <2>2 DEF TodoInv, Live, TypeOK
<1>2. ASSUME NEW d \in Drainer, RemoveRotated(d) PROVE TodoInv'
  <2>1. CASE Unlink(cur[d])
    BY <1>t, <2>1 DEF Unlink, Unlist, TodoInv, Live, TypeOK
  <2>2. CASE UNCHANGED <<dirVars, todo>>
    BY <1>t, <2>2 DEF TodoInv, Live, dirVars
  <2> QED BY <1>2, <2>1, <2>2 DEF RemoveRotated
<1>3. CASE Shrinks /\ Grows
  BY <1>t, <1>3 DEF Grows, TodoInv, TypeOK
<1>4. ASSUME NEW d \in Drainer, NEW f \in File, Claim(d, f) PROVE Shrinks
  BY <1>t, <1>4 DEF Claim, Unlist, TypeOK
<1>5. ASSUME NEW d \in Drainer,
             \/ \E s \in Session : RotateSpool(d, s)
             \/ \E f \in todo[d] : ClaimListed(d, f)
             \/ FinishFlush(d)
      PROVE  Shrinks
  BY <1>t, <1>4, <1>5 DEF RotateSpool, ClaimListed, FinishFlush, TypeOK
<1>6. ASSUME NEW d \in Drainer,
             \/ ReadFile(d) \/ ReadNothing(d) \/ EndDrain(d) \/ CreateRecovery(d)
             \/ FillRecovery(d) \/ RecoveryFault(d) \/ Expire(d) \/ Kill(d)
             \/ \E e \in Event : EmitEvent(d, e)
             \/ \E s \in Session : SessionEndFlush(d, s)
      PROVE  Shrinks
  BY <1>t, <1>6 DEF ReadFile, ReadNothing, EndDrain, CreateRecovery, FillRecovery,
     RecoveryFault, Expire, Kill, EmitEvent, SessionEndFlush, TypeOK
<1>7. ASSUME NEW h \in Hook, HookStep(h) PROVE Shrinks
  BY <1>7 DEF HookStep, AppendOpen, AppendWrite
<1>8. ASSUME UNCHANGED vars PROVE Shrinks
  BY <1>8 DEF vars
<1> HIDE DEF planVars, Shrinks
<1>9. Grows \/ \E d \in Drainer : RemoveRotated(d)
  BY <1>t, GrowsNext
<1> QED
  BY <1>1, <1>2, <1>3, <1>5, <1>6, <1>7, <1>8, <1>9
  DEF Next, StartFlush, FlushStep, DrainStep

\* What a drain that is about to fill its carry-over file knows of it.
LEMMA FillKept ==
  ASSUME TypeOK, [Next]_vars, NEW c \in Drainer, pc'[c] = "fill",
         ~ CreateRecovery(c)
  PROVE  pc[c] = "fill" /\ out'[c] = out[c] /\ base'[c] = base[c]
<1> DEFINE Same == pc[c] = "fill" /\ out'[c] = out[c] /\ base'[c] = base[c]
<1> USE DEF drainVars
<1>1. ASSUME NEW h \in Hook, HookStep(h) PROVE Same
  BY <1>1 DEF HookStep, AppendOpen, AppendWrite
<1>2. ASSUME NEW d \in Drainer,
             \/ FlushAll(d) \/ FinishFlush(d) \/ Expire(d)
             \/ \E s \in Session : SessionEndFlush(d, s)
             \/ \E s \in Session \cup {own[d]} : BeginFlush(d, s)
      PROVE  Same
  BY <1>2 DEF FlushAll, FinishFlush, Expire, SessionEndFlush, BeginFlush, TypeOK
<1>3. ASSUME NEW d \in Drainer,
             \/ \E s \in Session : RotateSpool(d, s)
             \/ \E f \in todo[d] : ClaimListed(d, f)
      PROVE  Same
  BY <1>3 DEF RotateSpool, ClaimListed, Claim, TypeOK
<1>4. ASSUME NEW d \in Drainer,
             \/ ReadFile(d) \/ ReadNothing(d) \/ RemoveRotated(d) \/ Kill(d)
             \/ \E e \in Event : EmitEvent(d, e)
      PROVE  Same
  BY <1>4 DEF ReadFile, ReadNothing, RemoveRotated, Kill, EmitEvent, TypeOK
<1>5. ASSUME NEW d \in Drainer,
             EndDrain(d) \/ RecoveryFault(d) \/ FillRecovery(d) \/ CreateRecovery(d)
      PROVE  Same
  BY <1>5 DEF EndDrain, RecoveryFault, FillRecovery, CreateRecovery, TypeOK
<1>6. ASSUME UNCHANGED vars PROVE Same
  BY <1>6 DEF vars
<1> HIDE DEF drainVars, Same
<1>7. Same
  BY <1>1, <1>2, <1>3, <1>4, <1>5, <1>6
  DEF Next, StartFlush, FlushStep, DrainStep
<1> QED BY <1>7 DEF Same

\* A file that a drain has open comes back to life by no step.
LEMMA OpenFileKept ==
  ASSUME TypeOK, Shape, TodoInv, [Next]_vars, NEW f \in File,
         \E d \in Drainer : out[d] = f, Live(f)'
  PROVE  Live(f) /\ attempt'[f] = attempt[f]
<1> DEFINE Same == Live(f) /\ attempt'[f] = attempt[f]
<1> USE DEF Live, dirVars
<1>1. ASSUME NEW k, NEW s, NEW n, NEW g \in File, Create(g, k, s, n) PROVE Same
  BY <1>1 DEF Create, Free, TypeOK
<1>2. ASSUME NEW d \in Drainer, NEW g \in File, Live(g), Claim(d, g),
             attempt' = attempt
      PROVE  Same
  BY <1>2 DEF Claim, TypeOK
<1>3. ASSUME NEW h \in Hook, HookStep(h) PROVE Same
  <2>1. CASE AppendWrite(h)
    BY <2>1 DEF AppendWrite
  <2>2. CASE \E e \in Event : AppendOpen(h, e)
    BY <1>1, <2>2 DEF AppendOpen
  <2> QED BY <1>3, <2>1, <2>2 DEF HookStep
<1>4. ASSUME NEW d \in Drainer, NEW s \in Session, RotateSpool(d, s) PROVE Same
  BY <1>2, <1>4 DEF RotateSpool, IsSpoolOf
<1>5. ASSUME NEW d \in Drainer, NEW g \in todo[d], ClaimListed(d, g) PROVE Same
  BY <1>2, <1>5 DEF ClaimListed, TodoInv, TypeOK
<1>6. ASSUME NEW d \in Drainer, CreateRecovery(d) PROVE Same
  BY <1>1, <1>6 DEF CreateRecovery
<1>7. ASSUME NEW d \in Drainer, RemoveRotated(d) PROVE Same
  BY <1>7 DEF RemoveRotated, Unlink, TypeOK
<1>8. ASSUME NEW d \in Drainer,
             \/ ReadFile(d) \/ ReadNothing(d) \/ EndDrain(d) \/ FillRecovery(d)
             \/ RecoveryFault(d) \/ Expire(d) \/ Kill(d) \/ FinishFlush(d)
             \/ FlushAll(d)
             \/ \E e \in Event : EmitEvent(d, e)
             \/ \E s \in Session : SessionEndFlush(d, s)
             \/ \E s \in Session \cup {own[d]} : BeginFlush(d, s)
      PROVE  Same
  BY <1>8 DEF ReadFile, ReadNothing, EndDrain, FillRecovery, RecoveryFault, Expire,
     Kill, FinishFlush, FlushAll, EmitEvent, SessionEndFlush, BeginFlush
<1>9. ASSUME UNCHANGED vars PROVE Same
  BY <1>9 DEF vars
<1> HIDE DEF Live, dirVars, Same
<1>10. Same
  BY <1>3, <1>4, <1>5, <1>6, <1>7, <1>8, <1>9
  DEF Next, StartFlush, FlushStep, DrainStep
<1> QED BY <1>10 DEF Same

LEMMA OutNext == ASSUME IInv, [Next]_vars PROVE OutInv'
<1> SUFFICES ASSUME NEW c \in Drainer, pc'[c] = "fill", Live(out[c])'
             PROVE  attempt'[out'[c]] = base'[c].attempt + 1
  BY DEF OutInv
<1>t. TypeOK /\ Shape /\ OutInv /\ TodoInv
  BY DEF IInv
<1>1. CASE CreateRecovery(c)
  <2>1. PICK g \in File : /\ Create(g, "recovery", base[c].session, NextAttempt(c))
                          /\ out' = [out EXCEPT ![c] = g]
    BY <1>1 DEF CreateRecovery
  <2> QED
    BY <1>t, <1>1, <2>1 DEF CreateRecovery, Create, NextAttempt, TypeOK
<1>2. CASE ~ CreateRecovery(c)
  <2>1. pc[c] = "fill" /\ out'[c] = out[c] /\ base'[c] = base[c]
    BY <1>t, <1>2, FillKept
  <2>2. out[c] \in File
    BY <1>t, <2>1 DEF Shape
  <2>3. Live(out[c])'
    BY <2>1 DEF Live
  <2>4. \A f \in File : f = out[c] /\ Live(f)' => Live(f) /\ attempt'[f] = attempt[f]
    BY <1>t, OpenFileKept
  <2>5. Live(out[c]) /\ attempt'[out[c]] = attempt[out[c]]
    BY <2>1, <2>2, <2>4 DEF Live
  <2> QED BY <1>t, <2>1, <2>5 DEF OutInv
<1> QED BY <1>1, <1>2

-----------------------------------------------------------------------------
(***************************************************************************)
(* NoLoss                                                                  *)
(***************************************************************************)

LEMMA NoLossNext == ASSUME IInv, [Next]_vars PROVE NoLoss'
<1>t. TypeOK /\ Shape /\ HeldInv /\ NoLoss
  BY DEF IInv
<1> SUFFICES ASSUME NEW e \in recorded', ~ Settled(e)' PROVE Kept(e, 0)'
  BY DEF NoLoss
<1>1. CASE e \in recorded
  <2>1. e \in Event /\ 0 \in Nat
    BY <1>t, <1>1 DEF TypeOK
  <2>2. ~ Settled(e)
    BY SettledStable
  <2>3. Kept(e, 0)
    BY <1>t, <1>1, <2>2 DEF NoLoss
  <2> QED BY <1>t, <2>1, <2>3, KeptStable
<1>2. CASE e \notin recorded
  <2>1. PICK h \in Hook : AppendWrite(h)
    BY <1>2 DEF Next, vars, HookStep, AppendOpen, StartFlush, FlushStep, DrainStep,
       SessionEndFlush, BeginFlush, FlushAll, RotateSpool, ClaimListed, FinishFlush,
       ReadFile, ReadNothing, EmitEvent, EndDrain, CreateRecovery, FillRecovery,
       RecoveryFault, RemoveRotated, Expire, Kill
  <2>2. PICK f \in File : f = fd[h]
    BY <1>t, <2>1 DEF AppendWrite, TypeOK
  <2>3. e = line[h] /\ e \notin late'
    BY <1>2, <2>1 DEF AppendWrite, Settled
  <2>4. Live(f) /\ kind' = kind /\ e \in lines'[f]
    BY <1>t, <2>1, <2>2, <2>3 DEF AppendWrite, WriteLines, TypeOK
  <2>5. attempt'[f] >= 0
    BY <1>t, <2>1, SpoolAssumption DEF AppendWrite, TypeOK
  <2> QED BY <2>4, <2>5 DEF Kept, Live
<1> QED BY <1>1, <1>2

LEMMA InitIInv == Init => IInv
<1> SUFFICES ASSUME Init PROVE IInv
  OBVIOUS
<1>1. TypeOK /\ Shape
  BY TypeInit
<1>2. \A d \in Drainer, f \in File : ~Holds(d, f)
  BY DEF Init, Holds
<1>3. OutInv /\ TodoInv /\ NoLoss
  BY DEF Init, OutInv, TodoInv, NoLoss
<1> QED BY <1>1, <1>2, <1>3 DEF IInv, HeldInv

LEMMA NextIInv == IInv /\ [Next]_vars => IInv'
<1> SUFFICES ASSUME IInv, [Next]_vars PROVE IInv'
  OBVIOUS
<1>1. (TypeOK /\ Shape)'
  BY TypeNext DEF IInv
<1> QED BY <1>1, HeldNext, OutNext, TodoNext, NoLossNext DEF IInv

(***************************************************************************)
(* A recorded event is on disk until it is settled, whatever the flushers  *)
(* do, however often they are killed, and however many there are.          *)
(***************************************************************************)
THEOREM NoLossHolds == Spec => []NoLoss
<1>1. IInv => NoLoss
  BY DEF IInv
<1> QED BY <1>1, InitIInv, NextIInv, PTL DEF Spec

-----------------------------------------------------------------------------
(***************************************************************************)
(* The retry allowance.  An event that no kill and no reclaim disturbed is *)
(* in one place at most: in a file that no drain is at work on, or in the  *)
(* hands of one drain.  The attempt in the name of that file, or of the    *)
(* file that drain has read, then tells how often the event was taken up.  *)
(***************************************************************************)

\* A drain has something in hand while it emits or fills, and then each once.
HandsInv ==
  \A d \in Drainer :
    /\ pc[d] # "emit" => mem[d] = {}
    /\ pc[d] \notin {"emit", "fill"} => failed[d] = {}
    /\ mem[d] \cap failed[d] = {}

\* What a hook may write to has not been carried over.
OpenInv ==
  /\ \A f \in File : kind[f] = "spool" => attempt[f] = 0
  /\ \A h \in Hook : fd[h] # NoFile => attempt[fd[h]] = 0

\* Each event is written by one hook, and before that it is nowhere.
NewInv ==
  /\ \A h \in Hook : fd[h] # NoFile => line[h] \notin recorded
  /\ \A g, h \in Hook : fd[g] # NoFile /\ fd[h] # NoFile /\ line[g] = line[h] => g = h
  /\ \A e \in Event \ recorded :
       /\ taken[e] = 0 /\ e \notin acked \cup dropped
       /\ \A f \in File : e \notin lines[f]
       /\ \A d \in Drainer : e \notin mem[d] \cup failed[d]

\* File f has event e, and no drain is at work on it.
Waits(f, e) ==
  Live(f) /\ e \in lines[f] /\ \A d \in Drainer : ~(Holds(d, f) /\ Working(d))

InHand(d, e) == e \in mem[d] \cup failed[d]

OnePlace(e) ==
  /\ \A f, g \in File : Waits(f, e) /\ Waits(g, e) => f = g
  /\ \A c, d \in Drainer : InHand(c, e) /\ InHand(d, e) => c = d
  /\ \A f \in File, d \in Drainer : ~(Waits(f, e) /\ InHand(d, e))
  /\ e \in acked \cup dropped => /\ \A f \in File : ~Waits(f, e)
                                 /\ \A d \in Drainer : ~InHand(d, e)

TakenTrue(e) ==
  /\ \A f \in File : Waits(f, e) => taken[e] = attempt[f]
  /\ \A d \in Drainer : InHand(d, e) => /\ taken[e] = base[d].attempt + 1
                                        /\ Holds(d, cur[d]) /\ e \in lines[cur[d]]
  /\ taken[e] <= MaxRecoveryAttempts + 1
  /\ e \in dropped => taken[e] = MaxRecoveryAttempts + 1

PlaceInv == \A e \in Event \ exposed : OnePlace(e) /\ TakenTrue(e)

AllowanceInv ==
  IInv /\ HandsInv /\ OpenInv /\ NewInv /\ PlaceInv /\ NoResend

LEMMA InitAllowance == Init => AllowanceInv
<1> SUFFICES ASSUME Init PROVE AllowanceInv
  OBVIOUS
<1>1. HandsInv /\ OpenInv /\ NewInv /\ NoResend
  BY DEF Init, HandsInv, OpenInv, NewInv, NoResend
<1>2. PlaceInv
  BY SpoolAssumption DEF Init, PlaceInv, OnePlace, TakenTrue, Waits, InHand
<1> QED BY <1>1, <1>2, InitIInv DEF AllowanceInv

LEMMA HandsNext == ASSUME TypeOK, HandsInv, [Next]_vars PROVE HandsInv'
<1> USE DEF drainVars, HandsInv
<1>1. ASSUME NEW d \in Drainer, ReadFile(d) PROVE HandsInv'
  BY <1>1 DEF ReadFile, TypeOK
<1>2. ASSUME NEW d \in Drainer, NEW e \in Event, EmitEvent(d, e) PROVE HandsInv'
  <2>1. /\ pc[d] = "emit" /\ pc' = pc
        /\ mem' = [mem EXCEPT ![d] = mem[d] \ {e}]
        /\ failed' = failed \/ failed' = [failed EXCEPT ![d] = failed[d] \cup {e}]
    BY <1>2 DEF EmitEvent
  <2> QED BY <2>1 DEF TypeOK
<1>3. ASSUME NEW d \in Drainer, EndDrain(d) \/ RecoveryFault(d) PROVE HandsInv'
  BY <1>3 DEF EndDrain, RecoveryFault, TypeOK
<1>4. ASSUME NEW d \in Drainer, CreateRecovery(d) PROVE HandsInv'
  BY <1>4 DEF CreateRecovery, TypeOK
<1>5. ASSUME NEW d \in Drainer, FillRecovery(d) PROVE HandsInv'
  <2>1. /\ pc' = [pc EXCEPT ![d] = "remove"] /\ failed' = [failed EXCEPT ![d] = {}]
        /\ mem' = mem /\ pc[d] = "fill"
    BY <1>5 DEF FillRecovery
  <2> QED BY <2>1 DEF TypeOK
<1>6. ASSUME NEW d \in Drainer, Kill(d) PROVE HandsInv'
  BY <1>6 DEF Kill, TypeOK
<1>7. CASE /\ UNCHANGED <<mem, failed>>
           /\ \A d \in Drainer : pc'[d] # "emit" => pc[d] # "emit"
           /\ \A d \in Drainer : pc'[d] \notin {"emit", "fill"} => pc[d] \notin {"emit", "fill"}
  BY <1>7
<1>8. ASSUME NEW d \in Drainer,
             \/ ReadNothing(d) \/ RemoveRotated(d) \/ Expire(d) \/ FinishFlush(d) \/ FlushAll(d)
             \/ \E s \in Session : SessionEndFlush(d, s) \/ RotateSpool(d, s)
             \/ \E s \in Session \cup {own[d]} : BeginFlush(d, s)
             \/ \E f \in todo[d] : ClaimListed(d, f)
      PROVE  HandsInv'
  BY <1>7, <1>8 DEF ReadNothing, RemoveRotated, Expire, FinishFlush, FlushAll,
     SessionEndFlush, RotateSpool, BeginFlush, ClaimListed, Claim, TypeOK
<1>9. ASSUME NEW h \in Hook, HookStep(h) PROVE HandsInv'
  BY <1>9 DEF HookStep, AppendOpen, AppendWrite
<1>10. CASE UNCHANGED vars
  BY <1>10 DEF vars
<1> HIDE DEF drainVars, HandsInv
<1> QED
  BY <1>1, <1>2, <1>3, <1>4, <1>5, <1>6, <1>8, <1>9, <1>10
  DEF Next, StartFlush, FlushStep, DrainStep

LEMMA OpenNext == ASSUME TypeOK, Shape, OpenInv, [Next]_vars PROVE OpenInv'
<1> USE DEF dirVars, hookVars, OpenInv
<1>0. \A h \in Hook : fd[h] # NoFile => fd[h] \in File
  BY DEF TypeOK
<1>1. ASSUME NEW h \in Hook, NEW e \in Event, AppendOpen(h, e) PROVE OpenInv'
  <2>1. CASE \E f \in File : /\ IsSpoolOf(f, SessionOf[e]) /\ fd' = [fd EXCEPT ![h] = f]
                             /\ UNCHANGED dirVars
    BY <2>1 DEF IsSpoolOf, TypeOK
  <2>2. CASE \E f \in File : /\ Create(f, "spool", SessionOf[e], 0)
                             /\ fd' = [fd EXCEPT ![h] = f]
    BY <1>0, <2>2 DEF Create, Free, TypeOK
  <2> QED BY <1>1, <2>1, <2>2 DEF AppendOpen
<1>2. ASSUME NEW h \in Hook, AppendWrite(h) PROVE OpenInv'
  BY <1>2, SpoolAssumption DEF AppendWrite, TypeOK
<1>3. ASSUME NEW d \in Drainer, NEW f \in File, Claim(d, f), UNCHANGED <<attempt, fd>>
      PROVE  OpenInv'
  BY <1>3 DEF Claim, TypeOK
<1>4. ASSUME NEW d \in Drainer, CreateRecovery(d) PROVE OpenInv'
  <2>1. PICK g \in File : Create(g, "recovery", base[d].session, NextAttempt(d))
    BY <1>4 DEF CreateRecovery
  <2>2. fd' = fd
    BY <1>4 DEF CreateRecovery
  <2> QED BY <1>0, <2>1, <2>2 DEF Create, Free, TypeOK
<1>5. ASSUME NEW d \in Drainer, RemoveRotated(d) PROVE OpenInv'
  BY <1>0, <1>5 DEF RemoveRotated, Unlink, TypeOK
<1>6. CASE UNCHANGED <<kind, attempt, fd>>
  BY <1>6
<1>7. ASSUME NEW d \in Drainer, NEW s \in Session, RotateSpool(d, s) PROVE OpenInv'
  BY <1>3, <1>6, <1>7 DEF RotateSpool
<1>8. ASSUME NEW d \in Drainer, NEW f \in todo[d], ClaimListed(d, f) PROVE OpenInv'
  <2>1. f \in File
    BY DEF TypeOK
  <2> QED BY <1>3, <1>8, <2>1 DEF ClaimListed
<1>9. ASSUME NEW d \in Drainer,
             \/ ReadFile(d) \/ ReadNothing(d) \/ EndDrain(d) \/ FillRecovery(d)
             \/ RecoveryFault(d) \/ Expire(d) \/ Kill(d) \/ FinishFlush(d) \/ FlushAll(d)
             \/ \E e \in Event : EmitEvent(d, e)
             \/ \E s \in Session : SessionEndFlush(d, s)
             \/ \E s \in Session \cup {own[d]} : BeginFlush(d, s)
      PROVE  OpenInv'
  BY <1>6, <1>9 DEF ReadFile, ReadNothing, EndDrain, FillRecovery, RecoveryFault, Expire,
     Kill, FinishFlush, FlushAll, EmitEvent, SessionEndFlush, BeginFlush
<1>10. CASE UNCHANGED vars
  BY <1>6, <1>10 DEF vars
<1> HIDE DEF dirVars, hookVars, OpenInv
<1> QED
  BY <1>1, <1>2, <1>4, <1>5, <1>7, <1>8, <1>9, <1>10
  DEF Next, HookStep, StartFlush, FlushStep, DrainStep

\* An event that is not recorded yet, and is not by this step, stays nowhere.
Nowhere(e) == /\ taken[e] = 0 /\ e \notin acked \cup dropped
              /\ \A f \in File : e \notin lines[f]
              /\ \A d \in Drainer : e \notin mem[d] \cup failed[d]

LEMMA NowhereNext ==
  ASSUME TypeOK, Shape, [Next]_vars, NEW e \in Event, Nowhere(e),
         \A h \in Hook : AppendWrite(h) => line[h] # e
  PROVE  Nowhere(e)'
<1> USE DEF dirVars, drainVars, coreVars, fateVars, Nowhere
<1>1. ASSUME NEW h \in Hook, NEW g \in Event, AppendOpen(h, g) PROVE Nowhere(e)'
  BY <1>1 DEF AppendOpen, Create, TypeOK
<1>2. ASSUME NEW h \in Hook, AppendWrite(h) PROVE Nowhere(e)'
  BY <1>2 DEF AppendWrite, WriteLines, TypeOK
<1>3. ASSUME NEW d \in Drainer, ReadFile(d) PROVE Nowhere(e)'
  <2>1. cur[d] \in File
    BY <1>3 DEF ReadFile, Shape
  <2> QED BY <1>3, <2>1 DEF ReadFile, TypeOK
<1>4. ASSUME NEW d \in Drainer, NEW g \in Event, EmitEvent(d, g) PROVE Nowhere(e)'
  <2>1. g # e
    BY <1>4 DEF EmitEvent
  <2>2. /\ mem' = [mem EXCEPT ![d] = mem[d] \ {g}]
        /\ failed' = failed \/ failed' = [failed EXCEPT ![d] = failed[d] \cup {g}]
        /\ acked' = acked \/ acked' = acked \cup {g}
        /\ UNCHANGED <<lines, taken, dropped>>
    BY <1>4 DEF EmitEvent
  <2> QED BY <2>1, <2>2 DEF TypeOK
<1>5. ASSUME NEW d \in Drainer, EndDrain(d) PROVE Nowhere(e)'
  BY <1>5 DEF EndDrain, Undelivered, TypeOK
<1>6. ASSUME NEW d \in Drainer, RecoveryFault(d) PROVE Nowhere(e)'
  BY <1>6 DEF RecoveryFault, TypeOK
<1>7. ASSUME NEW d \in Drainer, CreateRecovery(d) PROVE Nowhere(e)'
  BY <1>7 DEF CreateRecovery, Create, Undelivered, TypeOK
<1>8. ASSUME NEW d \in Drainer, FillRecovery(d) PROVE Nowhere(e)'
  BY <1>8 DEF FillRecovery, WriteLines, TypeOK
<1>9. ASSUME NEW d \in Drainer, RemoveRotated(d) PROVE Nowhere(e)'
  BY <1>9 DEF RemoveRotated, Unlink, TypeOK
<1>10. ASSUME NEW d \in Drainer, Kill(d) PROVE Nowhere(e)'
  BY <1>10 DEF Kill, TypeOK
<1>11. CASE UNCHANGED <<taken, acked, dropped, lines, mem, failed>>
  BY <1>11
<1>12. ASSUME NEW d \in Drainer,
              \/ ReadNothing(d) \/ Expire(d) \/ FinishFlush(d) \/ FlushAll(d)
              \/ \E s \in Session : SessionEndFlush(d, s) \/ RotateSpool(d, s)
              \/ \E s \in Session \cup {own[d]} : BeginFlush(d, s)
              \/ \E f \in todo[d] : ClaimListed(d, f)
       PROVE  Nowhere(e)'
  BY <1>11, <1>12 DEF ReadNothing, Expire, FinishFlush, FlushAll, SessionEndFlush,
     RotateSpool, BeginFlush, ClaimListed, Claim
<1>13. CASE UNCHANGED vars
  BY <1>11, <1>13 DEF vars
<1> HIDE DEF dirVars, drainVars, coreVars, fateVars, Nowhere
<1> QED
  BY <1>1, <1>2, <1>3, <1>4, <1>5, <1>6, <1>7, <1>8, <1>9, <1>10, <1>12, <1>13
  DEF Next, HookStep, StartFlush, FlushStep, DrainStep

LEMMA NewNext == ASSUME TypeOK, Shape, NewInv, [Next]_vars PROVE NewInv'
<1>0. /\ fd \in [Hook -> File \cup {NoFile}] /\ line \in [Hook -> Event \cup {NoEvent}]
      /\ \A g \in Hook : fd[g] # NoFile => line[g] \notin recorded
      /\ \A g, k \in Hook : fd[g] # NoFile /\ fd[k] # NoFile /\ line[g] = line[k] => g = k
  BY DEF NewInv, TypeOK
<1>1. ASSUME NEW h \in Hook, NEW e \in Event, AppendOpen(h, e)
      PROVE  /\ recorded' = recorded
             /\ \A g \in Hook : fd'[g] # NoFile => line'[g] \notin recorded
             /\ \A g, k \in Hook :
                  fd'[g] # NoFile /\ fd'[k] # NoFile /\ line'[g] = line'[k] => g = k
  <2>1. /\ \E f : fd' = [fd EXCEPT ![h] = f]
        /\ line' = [line EXCEPT ![h] = e] /\ recorded' = recorded
        /\ e \notin recorded /\ fd[h] = NoFile /\ \A g \in Hook : line[g] # e
    BY <1>1 DEF AppendOpen
  <2> QED BY <1>0, <2>1
<1>2. ASSUME NEW h \in Hook, AppendWrite(h)
      PROVE  /\ recorded' = recorded \cup {line[h]}
             /\ \A g \in Hook : fd'[g] # NoFile => line'[g] \notin recorded'
             /\ \A g, k \in Hook :
                  fd'[g] # NoFile /\ fd'[k] # NoFile /\ line'[g] = line'[k] => g = k
  <2>1. /\ fd' = [fd EXCEPT ![h] = NoFile] /\ line' = [line EXCEPT ![h] = NoEvent]
        /\ recorded' = recorded \cup {line[h]} /\ fd[h] # NoFile
    BY <1>2 DEF AppendWrite
  <2> QED BY <1>0, <2>1
<1>3. CASE UNCHANGED <<fd, line, recorded>>
  BY <1>3, NowhereNext DEF NewInv, Nowhere, AppendWrite
<1>4. \/ \E h \in Hook : AppendWrite(h) \/ \E e \in Event : AppendOpen(h, e)
      \/ UNCHANGED <<fd, line, recorded>>
  BY DEF Next, vars, hookVars, HookStep, StartFlush, FlushStep, DrainStep, FlushAll,
     Expire, Kill, BeginFlush, SessionEndFlush, RotateSpool, ClaimListed, FinishFlush,
     EmitEvent, ReadFile, ReadNothing, EndDrain, CreateRecovery, FillRecovery,
     RecoveryFault, RemoveRotated
<1>5. ASSUME NEW h \in Hook, AppendWrite(h) \/ \E e \in Event : AppendOpen(h, e),
             NEW e \in Event \ recorded'
      PROVE  Nowhere(e)'
  <2>1. Nowhere(e) /\ e \notin recorded
    BY <1>1, <1>2, <1>5 DEF NewInv, Nowhere
  <2>2. \A k \in Hook : AppendWrite(k) => line[k] # e
    BY <1>5 DEF AppendWrite
  <2> QED BY <2>1, <2>2, NowhereNext
<1> QED BY <1>1, <1>2, <1>3, <1>4, <1>5 DEF NewInv, Nowhere

\* An event a step does not move: it is, if anywhere, where it was.
LEMMA StaysPut ==
  ASSUME PlaceInv, NEW e \in Event, e \notin exposed, taken'[e] = taken[e],
         e \in acked' => e \in acked, e \in dropped' => e \in dropped,
         \A f \in File : Waits(f, e)' => Waits(f, e) /\ attempt'[f] = attempt[f],
         \A d \in Drainer : InHand(d, e)' => /\ InHand(d, e) /\ base'[d] = base[d]
                                             /\ Holds(d, cur[d])' /\ e \in lines'[cur'[d]]
  PROVE  OnePlace(e)' /\ TakenTrue(e)'
<1>1. OnePlace(e) /\ TakenTrue(e)
  BY DEF PlaceInv
<1>2. OnePlace(e)'
  BY <1>1 DEF OnePlace
<1>3. TakenTrue(e)'
  BY <1>1 DEF TakenTrue
<1> QED BY <1>2, <1>3

\* One that leaves the hands of the last drain that had it, or is nowhere.
LEMMA GoesAway ==
  ASSUME NEW e \in Event,
         \A f \in File : ~Waits(f, e)', \A d \in Drainer : ~InHand(d, e)',
         taken'[e] <= MaxRecoveryAttempts + 1,
         e \in dropped' => taken'[e] = MaxRecoveryAttempts + 1
  PROVE  OnePlace(e)' /\ TakenTrue(e)'
BY DEF OnePlace, TakenTrue

\* What is in the hand of a drain comes from the file it holds.
LEMMA HandFacts ==
  ASSUME AllowanceInv, NEW d \in Drainer, NEW e \in Event, InHand(d, e)
  PROVE  /\ pc[d] \in {"emit", "fill"} /\ Working(d)
         /\ e \notin exposed => /\ Holds(d, cur[d]) /\ e \in lines[cur[d]]
                                /\ taken[e] = base[d].attempt + 1
                                /\ e \notin acked \cup dropped
                                /\ \A f \in File : ~Waits(f, e)
                                /\ \A c \in Drainer : InHand(c, e) => c = d
BY DEF AllowanceInv, HandsInv, InHand, Working, PlaceInv, OnePlace, TakenTrue

\* A step that leaves the directory and what drains hold of it alone, and puts
\* nothing into the hands of a drain.
LEMMA QuietPlaces ==
  ASSUME AllowanceInv, UNCHANGED <<kind, attempt, owner, lines, cur, base, acked, dropped,
                                   taken, exposed>>,
         \A d \in Drainer : /\ Working(d) => Working(d)'
                            /\ mem'[d] \cup failed'[d] \subseteq mem[d] \cup failed[d]
  PROVE  PlaceInv'
<1> SUFFICES ASSUME NEW e \in Event, e \notin exposed PROVE OnePlace(e)' /\ TakenTrue(e)'
  BY DEF PlaceInv
<1>1. \A f \in File : Waits(f, e)' => Waits(f, e)
  BY DEF Waits, Live, Holds
<1>2. \A d \in Drainer : InHand(d, e)' => InHand(d, e)
  BY DEF InHand
<1>3. \A d \in Drainer : InHand(d, e) => Holds(d, cur[d]) /\ e \in lines[cur[d]]
  BY HandFacts
<1>4. \A d \in Drainer : Holds(d, cur[d]) => Holds(d, cur[d])'
  BY DEF Holds
<1> QED BY <1>1, <1>2, <1>3, <1>4, StaysPut DEF AllowanceInv

\* A file that is created is empty, and nobody held it.
LEMMA CreatePlaces ==
  ASSUME AllowanceInv, NEW f \in File, NEW k, NEW s, NEW n, Create(f, k, s, n),
         UNCHANGED <<cur, base, acked, dropped, taken, exposed>>,
         \A d \in Drainer : /\ Working(d) => Working(d)'
                            /\ mem'[d] \cup failed'[d] \subseteq mem[d] \cup failed[d]
  PROVE  PlaceInv'
<1> SUFFICES ASSUME NEW e \in Event, e \notin exposed PROVE OnePlace(e)' /\ TakenTrue(e)'
  BY DEF PlaceInv
<1>1. /\ kind[f] = "none" /\ lines'[f] = {}
      /\ \A g \in File \ {f} : /\ kind'[g] = kind[g] /\ attempt'[g] = attempt[g]
                               /\ owner'[g] = owner[g] /\ lines'[g] = lines[g]
  BY DEF Create, Free, Live, AllowanceInv, IInv, TypeOK
<1>2. \A g \in File : Waits(g, e)' => Waits(g, e) /\ attempt'[g] = attempt[g]
  BY <1>1 DEF Waits, Live, Holds
<1>3. ASSUME NEW d \in Drainer, InHand(d, e)'
      PROVE  InHand(d, e) /\ Holds(d, cur[d])' /\ e \in lines'[cur'[d]]
  <2>1. InHand(d, e)
    BY <1>3 DEF InHand
  <2>2. Holds(d, cur[d]) /\ e \in lines[cur[d]] /\ cur[d] \in File
    BY <2>1, HandFacts DEF AllowanceInv, IInv, Shape
  <2> QED BY <1>1, <2>1, <2>2 DEF Holds
<1> QED BY <1>2, <1>3, StaysPut DEF AllowanceInv

\* A claim: what a drain at work has read of the file it loses is exposed.
LEMMA ClaimPlaces ==
  ASSUME AllowanceInv, NEW d \in Drainer, NEW f \in File, pc[d] = "next", Claim(d, f),
         Live(f), exposed \subseteq exposed',
         \A c \in Drainer : Holds(c, f) /\ Working(c) => lines[f] \subseteq exposed',
         UNCHANGED <<attempt, lines, mem, failed, acked, dropped, taken>>
  PROVE  PlaceInv'
<1> SUFFICES ASSUME NEW e \in Event, e \notin exposed' PROVE OnePlace(e)' /\ TakenTrue(e)'
  BY DEF PlaceInv
<1>1. /\ \A g \in File \ {f} : kind'[g] = kind[g] /\ owner'[g] = owner[g]
      /\ \A c \in Drainer \ {d} : cur'[c] = cur[c] /\ base'[c] = base[c] /\ pc'[c] = pc[c]
      /\ cur'[d] = f /\ pc'[d] = "read" /\ kind'[f] = "rotated" /\ owner'[f] = d
  BY DEF Claim, AllowanceInv, IInv, TypeOK
<1>2. ASSUME NEW g \in File, Waits(g, e)' PROVE Waits(g, e)
  <2>1. Live(g) /\ e \in lines[g]
    BY <1>1, <1>2 DEF Waits, Live
  <2>2. ASSUME NEW c \in Drainer, Holds(c, g), Working(c) PROVE FALSE
    <3>1. c # d
      BY <2>2 DEF Working
    <3>2. CASE g = f
      BY <2>1, <2>2, <3>2
    <3>3. CASE g # f
      BY <1>1, <1>2, <2>2, <3>1, <3>3 DEF Waits, Holds, Working
    <3> QED BY <3>2, <3>3
  <2> QED BY <2>1, <2>2 DEF Waits
<1>3. ASSUME NEW c \in Drainer, InHand(c, e)'
      PROVE  /\ InHand(c, e) /\ base'[c] = base[c]
             /\ Holds(c, cur[c])' /\ e \in lines'[cur'[c]]
  <2>1. InHand(c, e)
    BY <1>3 DEF InHand
  <2>2. /\ Working(c) /\ Holds(c, cur[c]) /\ e \in lines[cur[c]] /\ c # d
        /\ cur[c] \in File
    BY <2>1, HandFacts DEF AllowanceInv, IInv, Shape, Working
  <2>3. cur[c] # f
    BY <2>2
  <2> QED BY <1>1, <2>1, <2>2, <2>3 DEF Holds
<1> QED BY <1>2, <1>3, StaysPut DEF AllowanceInv

LEMMA AppendPlaces ==
  ASSUME AllowanceInv, NEW h \in Hook, AppendWrite(h) PROVE PlaceInv'
<1> SUFFICES ASSUME NEW e \in Event, e \notin exposed PROVE OnePlace(e)' /\ TakenTrue(e)'
  BY DEF PlaceInv, AppendWrite
<1>1. /\ fd[h] \in File /\ line[h] \in Event /\ line[h] \notin recorded
      /\ attempt[fd[h]] = 0
  BY DEF AppendWrite, AllowanceInv, IInv, TypeOK, Shape, OpenInv, NewInv
<1>2. /\ UNCHANGED <<kind, attempt, owner, cur, base, pc, mem, failed, acked, dropped,
                     taken, exposed>>
      /\ \A f \in File : lines[f] \subseteq lines'[f]
      /\ \A f \in File \ {fd[h]} : lines'[f] = lines[f]
      /\ lines'[fd[h]] \subseteq lines[fd[h]] \cup {line[h]}
  BY <1>1 DEF AppendWrite, WriteLines, drainVars, coreVars, AllowanceInv, IInv, TypeOK
<1>3. CASE e = line[h]
  <2>1. Nowhere(e)
    BY <1>1, <1>3 DEF AllowanceInv, NewInv, Nowhere
  <2>2. \A f \in File : Waits(f, e)' => f = fd[h]
    BY <1>2, <2>1 DEF Waits, Nowhere
  <2>3. \A d \in Drainer : ~InHand(d, e)'
    BY <1>2, <2>1 DEF InHand, Nowhere
  <2>4. taken'[e] = 0 /\ e \notin acked' \cup dropped' /\ attempt'[fd[h]] = 0
    BY <1>1, <1>2, <2>1 DEF Nowhere
  <2>5. OnePlace(e)'
    BY <2>2, <2>3, <2>4 DEF OnePlace
  <2>6. TakenTrue(e)'
    BY <2>2, <2>3, <2>4, SpoolAssumption DEF TakenTrue
  <2> QED BY <2>5, <2>6
<1>4. CASE e # line[h]
  <2>1. \A f \in File : Waits(f, e)' => Waits(f, e)
    BY <1>2, <1>4 DEF Waits, Live, Holds, Working
  <2>2. ASSUME NEW d \in Drainer, InHand(d, e)'
        PROVE  InHand(d, e) /\ Holds(d, cur[d])' /\ e \in lines'[cur'[d]]
    <3>1. InHand(d, e)
      BY <1>2, <2>2 DEF InHand
    <3>2. Holds(d, cur[d]) /\ e \in lines[cur[d]] /\ cur[d] \in File
      BY <3>1, HandFacts DEF AllowanceInv, IInv, Shape
    <3> QED BY <1>2, <3>1, <3>2 DEF Holds
  <2> QED BY <1>2, <2>1, <2>2, StaysPut DEF AllowanceInv
<1> QED BY <1>3, <1>4

LEMMA ReadPlaces ==
  ASSUME AllowanceInv, NEW d \in Drainer, ReadFile(d) PROVE PlaceInv'
<1> SUFFICES ASSUME NEW e \in Event, e \notin exposed PROVE OnePlace(e)' /\ TakenTrue(e)'
  BY DEF PlaceInv, ReadFile
<1>1. PICK f \in File : f = cur[d] /\ Holds(d, f) /\ pc[d] = "read"
  BY DEF ReadFile, AllowanceInv, IInv, Shape
<1>2. /\ UNCHANGED <<kind, attempt, owner, lines, cur, base, failed, acked, dropped, exposed>>
      /\ pc' = [pc EXCEPT ![d] = "emit"] /\ mem' = [mem EXCEPT ![d] = lines[f]]
      /\ taken'[e] = IF e \in lines[f] THEN Bump(taken[e]) ELSE taken[e]
  BY <1>1 DEF ReadFile, coreVars, fateVars
<1>3. /\ Holds(d, f)' /\ Working(d)' /\ pc'[d] = "emit" /\ mem'[d] = lines[f]
      /\ failed'[d] = {} /\ ~Working(d)
      /\ \A c \in Drainer \ {d} : pc'[c] = pc[c] /\ mem'[c] = mem[c] /\ failed'[c] = failed[c]
  BY <1>1, <1>2 DEF Holds, Working, AllowanceInv, HandsInv, IInv, TypeOK
<1>4. \A g \in File : Waits(g, e)' => Waits(g, e) /\ g # f
  BY <1>2, <1>3 DEF Waits, Live, Holds, Working
<1>5. CASE e \in lines[f]
  <2>1. Waits(f, e)
    BY <1>1, <1>3, <1>5 DEF Waits, Live, Holds
  <2>2. /\ \A g \in File : Waits(g, e) => g = f
        /\ \A c \in Drainer : ~InHand(c, e)
        /\ e \notin acked \cup dropped /\ taken[e] = attempt[f]
    BY <2>1 DEF AllowanceInv, PlaceInv, OnePlace, TakenTrue
  <2>3. base[d].attempt = attempt[f] /\ attempt[f] \in 0..MaxRecoveryAttempts
    BY <1>1 DEF AllowanceInv, IInv, HeldInv, Secured, TypeOK
  <2>4. taken'[e] = attempt[f] + 1 /\ taken'[e] <= MaxRecoveryAttempts + 1
    BY <1>2, <1>5, <2>2, <2>3, SpoolAssumption DEF Bump
  <2>5. \A g \in File : ~Waits(g, e)'
    BY <1>4, <2>2
  <2>6. \A c \in Drainer : InHand(c, e)' => c = d
    BY <1>3, <2>2 DEF InHand
  <2>7. OnePlace(e)'
    BY <1>2, <2>2, <2>5, <2>6 DEF OnePlace
  <2>8. Holds(d, cur[d])' /\ e \in lines'[cur'[d]] /\ base'[d] = base[d]
    BY <1>1, <1>2, <1>3, <1>5
  <2>9. TakenTrue(e)'
    BY <1>2, <2>2, <2>3, <2>4, <2>5, <2>6, <2>8 DEF TakenTrue
  <2> QED BY <2>7, <2>9
<1>6. CASE e \notin lines[f]
  <2>1. \A c \in Drainer : InHand(c, e)' => InHand(c, e) /\ c # d
    BY <1>3, <1>6 DEF InHand
  <2>2. \A c \in Drainer : InHand(c, e) => Holds(c, cur[c]) /\ e \in lines[cur[c]]
    BY HandFacts
  <2>3. \A c \in Drainer : Holds(c, cur[c]) => Holds(c, cur[c])'
    BY <1>2 DEF Holds
  <2> QED BY <1>2, <1>4, <1>6, <2>1, <2>2, <2>3, StaysPut DEF AllowanceInv
<1> QED BY <1>5, <1>6

LEMMA EmitPlaces ==
  ASSUME AllowanceInv, NEW d \in Drainer, NEW g \in Event, EmitEvent(d, g)
  PROVE  PlaceInv'
<1> SUFFICES ASSUME NEW e \in Event, e \notin exposed PROVE OnePlace(e)' /\ TakenTrue(e)'
  BY DEF PlaceInv, EmitEvent
<1>1. /\ UNCHANGED <<kind, attempt, owner, lines, cur, base, pc, dropped, taken, exposed>>
      /\ g \in mem[d] /\ mem' = [mem EXCEPT ![d] = mem[d] \ {g}]
      /\ \/ failed' = failed /\ acked' \in {acked, acked \cup {g}}
         \/ failed' = [failed EXCEPT ![d] = failed[d] \cup {g}] /\ acked' = acked
  BY DEF EmitEvent, dirVars, fateVars, coreVars
<1>2. \A f \in File : Waits(f, e)' => Waits(f, e)
  BY <1>1 DEF Waits, Live, Holds, Working
<1>3. \A c \in Drainer : InHand(c, e)' => InHand(c, e)
  BY <1>1 DEF InHand, AllowanceInv, IInv, TypeOK
<1>4. \A c \in Drainer : InHand(c, e) => /\ Holds(c, cur[c])' /\ e \in lines'[cur'[c]]
                                         /\ base'[c] = base[c]
  <2>1. \A c \in Drainer : InHand(c, e) => Holds(c, cur[c]) /\ e \in lines[cur[c]]
    BY HandFacts
  <2> QED BY <1>1, <2>1 DEF Holds
<1>5. CASE e \in acked' => e \in acked
  BY <1>1, <1>2, <1>3, <1>4, <1>5, StaysPut DEF AllowanceInv
<1>6. CASE e \in acked' /\ e \notin acked
  <2>1. e = g /\ InHand(d, e) /\ failed' = failed
    BY <1>1, <1>6 DEF InHand
  <2>2. /\ \A f \in File : ~Waits(f, e)
        /\ \A c \in Drainer : InHand(c, e) => c = d
        /\ e \notin dropped /\ taken[e] <= MaxRecoveryAttempts + 1
    BY <2>1, HandFacts DEF AllowanceInv, PlaceInv, TakenTrue
  <2>3. ~InHand(d, e)'
    BY <1>1, <2>1 DEF InHand, AllowanceInv, HandsInv, IInv, TypeOK
  <2>4. \A f \in File : ~Waits(f, e)'
    BY <1>2, <2>2
  <2>5. \A c \in Drainer : ~InHand(c, e)'
    BY <1>3, <2>2, <2>3
  <2> QED BY <1>1, <2>2, <2>4, <2>5, GoesAway
<1> QED BY <1>5, <1>6

LEMMA EndDrainPlaces ==
  ASSUME AllowanceInv, NEW d \in Drainer, EndDrain(d) PROVE PlaceInv'
<1> SUFFICES ASSUME NEW e \in Event, e \notin exposed PROVE OnePlace(e)' /\ TakenTrue(e)'
  BY DEF PlaceInv, EndDrain
<1>1. /\ UNCHANGED <<kind, attempt, owner, lines, cur, base, acked, taken, exposed>>
      /\ pc[d] = "emit" /\ pc' = [pc EXCEPT ![d] = "remove"]
      /\ mem' = [mem EXCEPT ![d] = {}] /\ failed' = [failed EXCEPT ![d] = {}]
      /\ dropped' = dropped \cup Undelivered(d)
      /\ Undelivered(d) = {} \/ GiveUp(d)
  BY DEF EndDrain, DrainOver, dirVars, coreVars
<1>2. \A f \in File : Waits(f, e)' => Waits(f, e)
  BY <1>1 DEF Waits, Live, Holds, Working, AllowanceInv, IInv, TypeOK
<1>3. \A c \in Drainer : InHand(c, e)' => InHand(c, e) /\ c # d
  BY <1>1 DEF InHand, AllowanceInv, IInv, TypeOK
<1>4. CASE InHand(d, e)
  <2>1. /\ \A f \in File : ~Waits(f, e)
        /\ \A c \in Drainer : InHand(c, e) => c = d
        /\ taken[e] = base[d].attempt + 1
    BY <1>4, HandFacts
  <2>2. GiveUp(d)
    BY <1>1, <1>4 DEF InHand, Undelivered
  <2>3. base[d].attempt \in 0..MaxRecoveryAttempts
    BY DEF AllowanceInv, IInv, TypeOK, Base
  <2>4. taken[e] = MaxRecoveryAttempts + 1
    BY <2>1, <2>2, <2>3, SpoolAssumption DEF GiveUp, NextAttempt
  <2>5. \A f \in File : ~Waits(f, e)'
    BY <1>2, <2>1
  <2>6. \A c \in Drainer : ~InHand(c, e)'
    BY <1>3, <2>1
  <2> QED BY <1>1, <2>4, <2>5, <2>6, GoesAway, SpoolAssumption
<1>5. CASE ~InHand(d, e)
  <2>1. e \in dropped' => e \in dropped
    BY <1>1, <1>5 DEF InHand, Undelivered
  <2>2. \A c \in Drainer : InHand(c, e) => Holds(c, cur[c]) /\ e \in lines[cur[c]]
    BY HandFacts
  <2>3. \A c \in Drainer : Holds(c, cur[c]) => Holds(c, cur[c])'
    BY <1>1 DEF Holds
  <2> QED BY <1>1, <1>2, <1>3, <2>1, <2>2, <2>3, StaysPut DEF AllowanceInv
<1> QED BY <1>4, <1>5

LEMMA FillPlaces ==
  ASSUME AllowanceInv, NEW d \in Drainer, FillRecovery(d) PROVE PlaceInv'
<1> SUFFICES ASSUME NEW e \in Event, e \notin exposed PROVE OnePlace(e)' /\ TakenTrue(e)'
  BY DEF PlaceInv, FillRecovery
<1>1. PICK g \in File : g = out[d]
  BY DEF FillRecovery, AllowanceInv, IInv, Shape
<1>2. /\ UNCHANGED <<kind, attempt, owner, cur, base, mem, acked, dropped, taken, exposed>>
      /\ pc[d] = "fill" /\ pc' = [pc EXCEPT ![d] = "remove"]
      /\ failed' = [failed EXCEPT ![d] = {}]
      /\ lines' = [lines EXCEPT ![g] = IF Live(g) THEN lines[g] \cup failed[d] ELSE lines[g]]
  BY <1>1 DEF FillRecovery, WriteLines, coreVars
<1>3. /\ \A f \in File : lines[f] \subseteq lines'[f]
      /\ \A f \in File : e \in lines'[f] => e \in lines[f] \/ (f = g /\ e \in failed[d])
  BY <1>2 DEF AllowanceInv, IInv, TypeOK
<1>4. \A c \in Drainer : InHand(c, e)' => InHand(c, e) /\ (c = d => e \notin failed[d])
  BY <1>2 DEF InHand, AllowanceInv, HandsInv, IInv, TypeOK
<1>5. \A f \in File : Waits(f, e)' => Waits(f, e) \/ (f = g /\ Live(g) /\ e \in failed[d])
  BY <1>2, <1>3 DEF Waits, Live, Holds, Working, AllowanceInv, IInv, TypeOK
<1>6. CASE e \in failed[d]
  <2>1. InHand(d, e)
    BY <1>6 DEF InHand
  <2>2. /\ \A f \in File : ~Waits(f, e)
        /\ \A c \in Drainer : InHand(c, e) => c = d
        /\ taken[e] = base[d].attempt + 1 /\ e \notin acked \cup dropped
        /\ taken[e] <= MaxRecoveryAttempts + 1
    BY <2>1, HandFacts DEF AllowanceInv, PlaceInv, TakenTrue
  <2>3. \A c \in Drainer : ~InHand(c, e)'
    BY <1>4, <1>6, <2>2
  <2>4. \A f \in File : Waits(f, e)' => f = g /\ Live(g)
    BY <1>5, <2>2
  <2>5. Live(g) => attempt[g] = taken[e]
    BY <1>1, <1>2, <2>2 DEF AllowanceInv, IInv, OutInv
  <2>6. OnePlace(e)'
    BY <1>2, <2>2, <2>3, <2>4 DEF OnePlace
  <2>7. TakenTrue(e)'
    BY <1>2, <2>2, <2>3, <2>4, <2>5 DEF TakenTrue
  <2> QED BY <2>6, <2>7
<1>7. CASE e \notin failed[d]
  <2>1. \A c \in Drainer : InHand(c, e) => /\ Holds(c, cur[c]) /\ e \in lines[cur[c]]
                                           /\ cur[c] \in File
    BY HandFacts DEF AllowanceInv, IInv, Shape
  <2>2. \A c \in Drainer : Holds(c, cur[c]) => Holds(c, cur[c])'
    BY <1>2 DEF Holds
  <2>3. \A c \in Drainer : InHand(c, e) => e \in lines'[cur'[c]]
    BY <1>2, <1>3, <2>1
  <2> QED BY <1>2, <1>4, <1>5, <1>7, <2>1, <2>2, <2>3, StaysPut DEF AllowanceInv
<1> QED BY <1>6, <1>7

LEMMA RemovePlaces ==
  ASSUME AllowanceInv, NEW d \in Drainer, RemoveRotated(d) PROVE PlaceInv'
<1> SUFFICES ASSUME NEW e \in Event, e \notin exposed PROVE OnePlace(e)' /\ TakenTrue(e)'
  BY DEF PlaceInv, RemoveRotated
<1>1. /\ pc[d] = "remove" /\ UNCHANGED <<mem, failed, acked, dropped, taken, exposed>>
      /\ cur' = [cur EXCEPT ![d] = NoFile] /\ base' = [base EXCEPT ![d] = NoBase]
      /\ pc' = [pc EXCEPT ![d] = "next"]
      /\ cur[d] \in File
  BY DEF RemoveRotated, coreVars, fateVars, AllowanceInv, IInv, Shape
<1>2. \A f \in File : \/ kind'[f] = "none"
                      \/ /\ ~Holds(d, f)
                         /\ kind'[f] = kind[f] /\ attempt'[f] = attempt[f]
                         /\ owner'[f] = owner[f] /\ lines'[f] = lines[f]
  <2>1. CASE Holds(d, cur[d])
    BY <1>1, <2>1 DEF RemoveRotated, Unlink, Holds, AllowanceInv, IInv, TypeOK
  <2>2. CASE ~Holds(d, cur[d])
    BY <2>2 DEF RemoveRotated, dirVars, Holds
  <2> QED BY <2>1, <2>2
<1>3. \A c \in Drainer \ {d} : cur'[c] = cur[c] /\ base'[c] = base[c] /\ pc'[c] = pc[c]
  BY <1>1 DEF AllowanceInv, IInv, TypeOK
<1>4. \A f \in File : Waits(f, e)' => Waits(f, e) /\ attempt'[f] = attempt[f]
  BY <1>2, <1>3 DEF Waits, Live, Holds, Working
<1>5. ASSUME NEW c \in Drainer, InHand(c, e)'
      PROVE  /\ InHand(c, e) /\ base'[c] = base[c]
             /\ Holds(c, cur[c])' /\ e \in lines'[cur'[c]]
  <2>1. InHand(c, e)
    BY <1>1, <1>5 DEF InHand
  <2>2. c # d /\ Holds(c, cur[c]) /\ e \in lines[cur[c]] /\ cur[c] \in File
    BY <1>1, <2>1, HandFacts DEF AllowanceInv, IInv, Shape
  <2>3. kind'[cur[c]] # "none"
    BY <1>1, <2>2 DEF RemoveRotated, Unlink, Holds, dirVars, AllowanceInv, IInv, TypeOK
  <2> QED BY <1>2, <1>3, <2>1, <2>2, <2>3 DEF Holds
<1> QED BY <1>1, <1>4, <1>5, StaysPut DEF AllowanceInv

LEMMA KillPlaces ==
  ASSUME AllowanceInv, NEW d \in Drainer, Kill(d) PROVE PlaceInv'
<1> SUFFICES ASSUME NEW e \in Event, e \notin exposed' PROVE OnePlace(e)' /\ TakenTrue(e)'
  BY DEF PlaceInv
<1>1. /\ UNCHANGED <<kind, attempt, owner, lines, acked, dropped, taken>>
      /\ pc' = [pc EXCEPT ![d] = "idle"] /\ cur' = [cur EXCEPT ![d] = NoFile]
      /\ base' = [base EXCEPT ![d] = NoBase]
      /\ mem' = [mem EXCEPT ![d] = {}] /\ failed' = [failed EXCEPT ![d] = {}]
      /\ e \notin exposed
      /\ Working(d) /\ Holds(d, cur[d]) => e \notin lines[cur[d]]
  BY DEF Kill, dirVars, coreVars, fateVars
<1>2. \A c \in Drainer \ {d} : /\ cur'[c] = cur[c] /\ base'[c] = base[c] /\ pc'[c] = pc[c]
                              /\ mem'[c] = mem[c] /\ failed'[c] = failed[c]
  BY <1>1 DEF AllowanceInv, IInv, TypeOK
<1>3. ASSUME NEW f \in File, Waits(f, e)' PROVE Waits(f, e)
  <2>1. ~(Working(d) /\ Holds(d, f))
    BY <1>1, <1>3 DEF Holds, Waits
  <2> QED BY <1>1, <1>2, <1>3, <2>1 DEF Waits, Live, Holds, Working
<1>4. \A c \in Drainer : InHand(c, e)' => InHand(c, e) /\ c # d
  BY <1>1, <1>2 DEF InHand, AllowanceInv, IInv, TypeOK
<1>5. \A c \in Drainer : InHand(c, e) => Holds(c, cur[c]) /\ e \in lines[cur[c]]
  BY <1>1, HandFacts
<1>6. \A c \in Drainer \ {d} : Holds(c, cur[c]) => Holds(c, cur[c])'
  BY <1>1, <1>2 DEF Holds
<1> QED BY <1>1, <1>2, <1>3, <1>4, <1>5, <1>6, StaysPut DEF AllowanceInv

LEMMA ReadNothingPlaces ==
  ASSUME AllowanceInv, NEW d \in Drainer, ReadNothing(d) PROVE PlaceInv'
<1> SUFFICES ASSUME NEW e \in Event, e \notin exposed PROVE OnePlace(e)' /\ TakenTrue(e)'
  BY DEF PlaceInv, ReadNothing
<1>1. /\ UNCHANGED <<kind, attempt, owner, lines, mem, failed, acked, dropped, taken, exposed>>
      /\ pc[d] = "read" /\ ~Holds(d, cur[d])
  BY DEF ReadNothing, dirVars, coreVars, fateVars
<1>2. \A c \in Drainer \ {d} : cur'[c] = cur[c] /\ base'[c] = base[c] /\ pc'[c] = pc[c]
  BY DEF ReadNothing, AllowanceInv, IInv, TypeOK
<1>3. \A f \in File : Waits(f, e)' => Waits(f, e)
  BY <1>1, <1>2 DEF Waits, Live, Holds, Working
<1>4. \A c \in Drainer : InHand(c, e)' => InHand(c, e)
  BY <1>1 DEF InHand
<1>5. \A c \in Drainer : InHand(c, e) => Holds(c, cur[c]) /\ e \in lines[cur[c]] /\ c # d
  BY <1>1, HandFacts
<1>6. \A c \in Drainer \ {d} : Holds(c, cur[c]) => Holds(c, cur[c])'
  BY <1>1, <1>2 DEF Holds
<1> QED BY <1>1, <1>2, <1>3, <1>4, <1>5, <1>6, StaysPut DEF AllowanceInv

LEMMA PlaceNext == ASSUME AllowanceInv, [Next]_vars PROVE PlaceInv'
<1> USE DEF dirVars, hookVars, planVars, drainVars, coreVars, fateVars
<1>t. TypeOK
  BY DEF AllowanceInv, IInv
<1>1. ASSUME NEW h \in Hook, NEW e \in Event, AppendOpen(h, e) PROVE PlaceInv'
  BY <1>1, QuietPlaces, CreatePlaces DEF AppendOpen, Working
<1>2. ASSUME NEW d \in Drainer, NEW s \in Session, RotateSpool(d, s) PROVE PlaceInv'
  <2>1. ASSUME NEW f \in File, IsSpoolOf(f, s), Claim(d, f) PROVE PlaceInv'
    BY <1>2, <2>1, ClaimPlaces DEF RotateSpool, IsSpoolOf, Live, Holds
  <2>2. CASE UNCHANGED <<kind, owner, cur, pc>> /\ UNCHANGED base
    BY <1>2, <2>2, QuietPlaces DEF RotateSpool, Working
  <2> QED BY <1>2, <2>1, <2>2 DEF RotateSpool
<1>3. ASSUME NEW d \in Drainer, NEW f \in todo[d], ClaimListed(d, f) PROVE PlaceInv'
  <2>1. f \in File /\ Live(f)
    BY <1>t DEF AllowanceInv, IInv, TodoInv, TypeOK
  <2>2. /\ pc[d] = "next" /\ Claim(d, f) /\ exposed \subseteq exposed'
        /\ \A c \in Drainer : Holds(c, f) /\ Working(c) => lines[f] \subseteq exposed'
        /\ UNCHANGED <<attempt, lines, mem, failed, acked, dropped, taken>>
    BY <1>3 DEF ClaimListed
  <2> QED BY <2>1, <2>2, ClaimPlaces
<1>4. ASSUME NEW d \in Drainer, CreateRecovery(d) PROVE PlaceInv'
  <2>1. PICK g \in File : Create(g, "recovery", base[d].session, NextAttempt(d))
    BY <1>4 DEF CreateRecovery
  <2>2. /\ UNCHANGED <<cur, base, acked, dropped, taken, exposed>>
        /\ \A c \in Drainer : /\ Working(c) => Working(c)'
                              /\ mem'[c] \cup failed'[c] \subseteq mem[c] \cup failed[c]
    BY <1>4, <1>t DEF CreateRecovery, DrainOver, Undelivered, Working, TypeOK
  <2> QED BY <2>1, <2>2, CreatePlaces
<1>5. ASSUME NEW d \in Drainer,
             \/ RecoveryFault(d) \/ Expire(d) \/ FinishFlush(d) \/ FlushAll(d)
             \/ \E s \in Session : SessionEndFlush(d, s)
             \/ \E s \in Session \cup {own[d]} : BeginFlush(d, s)
      PROVE  PlaceInv'
  <2>1. UNCHANGED <<kind, attempt, owner, lines, cur, base, acked, dropped, taken, exposed>>
    BY <1>5 DEF RecoveryFault, Expire, FinishFlush, FlushAll, SessionEndFlush, BeginFlush
  <2>2. \A c \in Drainer : mem'[c] \cup failed'[c] \subseteq mem[c] \cup failed[c]
    BY <1>5, <1>t DEF RecoveryFault, Expire, FinishFlush, FlushAll, SessionEndFlush,
       BeginFlush, TypeOK
  <2>3. \A c \in Drainer : Working(c) => Working(c)'
    BY <1>5, <1>t DEF RecoveryFault, DrainOver, Expire, FinishFlush, FlushAll,
       SessionEndFlush, BeginFlush, Working, TypeOK
  <2> QED BY <2>1, <2>2, <2>3, QuietPlaces
<1>6. CASE UNCHANGED vars
  BY <1>6, QuietPlaces DEF vars, Working
<1> HIDE DEF dirVars, hookVars, planVars, drainVars, coreVars, fateVars
<1> QED
  BY <1>1, <1>2, <1>3, <1>4, <1>5, <1>6, AppendPlaces, ReadPlaces, EmitPlaces,
     EndDrainPlaces, FillPlaces, RemovePlaces, KillPlaces, ReadNothingPlaces
  DEF Next, HookStep, StartFlush, FlushStep, DrainStep

LEMMA ResendNext == ASSUME AllowanceInv, [Next]_vars PROVE NoResend'
<1>1. ASSUME NEW d \in Drainer, NEW e \in Event, EmitEvent(d, e) PROVE NoResend'
  <2>1. InHand(d, e) /\ exposed' = exposed
    BY <1>1 DEF EmitEvent, InHand
  <2>2. resent' = resent \/ (e \in acked /\ resent' = resent \cup {e})
    BY <1>1 DEF EmitEvent, coreVars
  <2>3. e \in acked => e \in exposed
    BY <2>1, HandFacts
  <2> QED BY <2>1, <2>2, <2>3 DEF AllowanceInv, NoResend
<1>2. CASE resent' = resent /\ exposed \subseteq exposed'
  BY <1>2 DEF AllowanceInv, NoResend
<1> USE DEF coreVars
<1>3. ASSUME NEW h \in Hook, HookStep(h) PROVE NoResend'
  BY <1>2, <1>3 DEF HookStep, AppendOpen, AppendWrite
<1>4. ASSUME NEW d \in Drainer,
             \/ ReadFile(d) \/ ReadNothing(d) \/ EndDrain(d) \/ CreateRecovery(d)
             \/ FillRecovery(d) \/ RecoveryFault(d) \/ RemoveRotated(d)
      PROVE  NoResend'
  BY <1>2, <1>4 DEF ReadFile, ReadNothing, EndDrain, CreateRecovery, FillRecovery,
     RecoveryFault, RemoveRotated
<1>5. ASSUME NEW d \in Drainer,
             StartFlush(d) \/ FlushAll(d) \/ FlushStep(d) \/ Expire(d) \/ Kill(d)
      PROVE  NoResend'
  BY <1>2, <1>5 DEF StartFlush, FlushAll, FlushStep, BeginFlush, SessionEndFlush,
     RotateSpool, ClaimListed, FinishFlush, Expire, Kill
<1>6. CASE UNCHANGED vars
  BY <1>2, <1>6 DEF vars
<1> QED BY <1>1, <1>3, <1>4, <1>5, <1>6 DEF Next, DrainStep

LEMMA NextAllowance == AllowanceInv /\ [Next]_vars => AllowanceInv'
<1> SUFFICES ASSUME AllowanceInv, [Next]_vars PROVE AllowanceInv'
  OBVIOUS
<1>1. IInv' /\ TypeOK /\ Shape
  BY NextIInv DEF AllowanceInv, IInv
<1>2. HandsInv' /\ OpenInv' /\ NewInv'
  BY <1>1, HandsNext, OpenNext, NewNext DEF AllowanceInv
<1> QED BY <1>1, <1>2, PlaceNext, ResendNext DEF AllowanceInv

(***************************************************************************)
(* However many flushers share the directory: an event the core has        *)
(* acknowledged is sent again only if a kill or a FlushAll disturbed the   *)
(* drain that held it (spool.go, "a delivered event is never re-sent").    *)
(***************************************************************************)
THEOREM NoResendHolds == Spec => []NoResend
<1>1. AllowanceInv => NoResend
  BY DEF AllowanceInv
<1> QED BY <1>1, InitAllowance, NextAllowance, PTL DEF Spec

(***************************************************************************)
(* And for any bound on the attempts, an undisturbed event is taken up by  *)
(* no more drains than the bound allows, and given up after no fewer.      *)
(***************************************************************************)
THEOREM RetryAllowanceHolds == Spec => []RetryAllowance
<1>1. AllowanceInv => RetryAllowance
  BY DEF AllowanceInv, PlaceInv, TakenTrue, RetryAllowance
<1> QED BY <1>1, InitAllowance, NextAllowance, PTL DEF Spec

-----------------------------------------------------------------------------
(***************************************************************************)
(* The promise of Outbox.  Nothing new has to be invariant for it: where   *)
(* an undisturbed event is (PlaceInv) says that it is due when it is taken *)
(* up, sent, given up or carried over, and what a drain has secured        *)
(* (HeldInv) why lines may leave with their file.                          *)
(***************************************************************************)

LEMMA DiskIs ==
  ASSUME TypeOK
  PROVE  Disk = {e \in Event : \E f \in File : Live(f) /\ e \in lines[f]}
<1>1. \A f \in File : attempt[f] >= 0
  BY SpoolAssumption DEF TypeOK
<1> QED BY <1>1 DEF Disk, Kept

LEMMA DiskIsNext ==
  ASSUME TypeOK'
  PROVE  Disk' = {e \in Event : \E f \in File : Live(f)' /\ e \in lines'[f]}
<1>1. \A f \in File : attempt'[f] >= 0
  BY SpoolAssumption DEF TypeOK
<1> QED BY <1>1 DEF Disk, Kept, Live

LEMMA LinesOnDisk ==
  ASSUME TypeOK, NEW f \in File, Live(f)
  PROVE  lines[f] \subseteq Disk
BY DiskIs DEF TypeOK

\* What an undisturbed event in the hands of a drain is.
LEMMA HandIsDue ==
  ASSUME AllowanceInv, NEW d \in Drainer, NEW e \in Event \ exposed, InHand(d, e)
  PROVE  /\ e \in Disk \ (acked \cup dropped) /\ Holds(d, cur[d])
         /\ taken[e] = base[d].attempt + 1
<1>1. /\ Holds(d, cur[d]) /\ e \in lines[cur[d]]
      /\ taken[e] = base[d].attempt + 1 /\ e \notin acked \cup dropped
  BY HandFacts
<1>2. TypeOK /\ Shape /\ pc[d] \in {"emit", "fill"}
  BY HandFacts DEF AllowanceInv, IInv
<1>3. cur[d] \in File /\ Live(cur[d])
  BY <1>1, <1>2 DEF Shape, Holds, Live
<1> QED BY <1>1, <1>2, <1>3, LinesOnDisk

\* A step that leaves the directory as it is, but for a new empty file.
LEMMA DiskStays ==
  ASSUME TypeOK, TypeOK', Grows,
         \A f \in File : Live(f)' => lines'[f] = {} \/ (Live(f) /\ lines'[f] = lines[f])
  PROVE  Disk' = Disk
<1>1. \A e \in Event : (\E f \in File : Live(f) /\ e \in lines[f])
                         <=> (\E f \in File : Live(f)' /\ e \in lines'[f])
  BY DEF Grows
<1> QED BY <1>1, DiskIs, DiskIsNext

Silent == UNCHANGED <<recorded, taken, accepted, acked, dropped, faulted, late, exposed>>

LEMMA SilentStep ==
  ASSUME Silent, Disk' = Disk
  PROVE  UNCHANGED O!outboxVars
BY DEF Silent, O!outboxVars

LEMMA EnterStep ==
  ASSUME AllowanceInv, AllowanceInv', NEW h \in Hook, AppendWrite(h)
  PROVE  O!Enter(line[h]) /\ line[h] \in Event
<1>t. TypeOK /\ TypeOK' /\ Shape /\ NewInv
  BY DEF AllowanceInv, IInv
<1> DEFINE e == line[h]
           f == fd[h]
<1>1. /\ f \in File /\ e \in Event /\ e \notin recorded
      /\ recorded' = recorded \cup {e}
      /\ UNCHANGED <<taken, accepted, acked, dropped, faulted, exposed, kind>>
  BY <1>t DEF AppendWrite, TypeOK, Shape, NewInv, coreVars
<1>2. WriteLines(f, {e})
  BY DEF AppendWrite
<1> HIDE DEF e, f
<1>3. late' \in {late, late \cup {e}} /\ (Live(f) \/ late' = late \cup {e})
  BY <1>2 DEF WriteLines
<1>4. Disk' = IF Live(f) THEN Disk \cup {e} ELSE Disk
  <2>1. lines' = [lines EXCEPT ![f] = IF Live(f) THEN lines[f] \cup {e} ELSE lines[f]]
    BY <1>2 DEF WriteLines
  <2>2. \A g \in File : Live(g)' = Live(g)
    BY <1>1 DEF Live
  <2>3. \A g \in File : lines'[g] = IF g = f /\ Live(f) THEN lines[g] \cup {e} ELSE lines[g]
    BY <1>t, <2>1 DEF TypeOK
  <2> QED BY <1>1, <1>t, <2>2, <2>3, DiskIs, DiskIsNext
<1>5. O!Enter(e)
  BY <1>1, <1>3, <1>4 DEF O!Enter
<1> QED BY <1>1, <1>5 DEF e

LEMMA TakeStep ==
  ASSUME AllowanceInv, AllowanceInv', NEW d \in Drainer, ReadFile(d)
  PROVE  O!Take(lines[cur[d]]) /\ lines[cur[d]] \in SUBSET Event
<1>t. TypeOK /\ TypeOK' /\ Shape /\ PlaceInv
  BY DEF AllowanceInv, IInv
<1> DEFINE f == cur[d]
<1>1. /\ pc[d] = "read" /\ Holds(d, f) /\ f \in File
      /\ taken' = [e \in Event |-> IF e \in lines[f] THEN Bump(taken[e]) ELSE taken[e]]
      /\ UNCHANGED <<kind, attempt, lines, recorded, accepted, acked, dropped, faulted, late,
                     exposed>>
  BY <1>t DEF ReadFile, Shape, coreVars, fateVars
<1> HIDE DEF f
<1>2. Live(f) /\ lines[f] \subseteq Event /\ lines[f] \subseteq Disk
  BY <1>1, <1>t, LinesOnDisk DEF Holds, Live, TypeOK
<1>3. Disk' = Disk
  BY <1>1 DEF Disk, Kept, Live
<1>4. ASSUME NEW e \in Event \ exposed, e \in lines[f]
      PROVE  /\ e \in Disk \ (acked \cup dropped)
             /\ taken[e] < MaxRecoveryAttempts + 1 /\ taken'[e] = taken[e] + 1
  <2>1. Waits(f, e)
    BY <1>1, <1>2, <1>4 DEF Waits, Holds, Working
  <2>2. OnePlace(e) /\ TakenTrue(e)
    BY <1>t DEF PlaceInv
  <2>3. e \notin acked \cup dropped /\ taken[e] = attempt[f]
    BY <1>1, <2>1, <2>2 DEF OnePlace, TakenTrue
  <2>4. attempt[f] \in 0 .. MaxRecoveryAttempts
    BY <1>1, <1>t DEF TypeOK
  <2>5. taken[e] < MaxRecoveryAttempts + 1
    BY <2>3, <2>4, SpoolAssumption
  <2>6. taken'[e] = Bump(taken[e])
    BY <1>1, <1>4
  <2> QED BY <1>2, <1>4, <2>3, <2>4, <2>5, <2>6, SpoolAssumption DEF Bump
<1>5. \A e \in Event \ exposed : e \notin lines[f] => taken'[e] = taken[e]
  BY <1>1
<1>6. taken' \in [Event -> Nat]
  BY <1>t, SpoolAssumption DEF TypeOK
<1>7. O!Take(lines[f])
  BY <1>1, <1>2, <1>3, <1>4, <1>5, <1>6 DEF O!Take, O!Due
<1> QED BY <1>2, <1>7 DEF f

LEMMA SendStep ==
  ASSUME AllowanceInv, AllowanceInv', NEW d \in Drainer, NEW e \in Event, EmitEvent(d, e)
  PROVE  O!Send(e) \/ UNCHANGED O!outboxVars
<1>t. TypeOK /\ NewInv
  BY DEF AllowanceInv, IInv
<1>1. /\ InHand(d, e) /\ Disk' = Disk
      /\ UNCHANGED <<recorded, taken, dropped, faulted, late, exposed>>
  BY DEF EmitEvent, InHand, Disk, Kept, Live, dirVars, fateVars
<1>2. CASE e \in Unbuildable
  <2>1. UNCHANGED <<accepted, acked>>
    BY <1>2 DEF EmitEvent, coreVars
  <2> QED BY <1>1, <2>1, SilentStep DEF Silent
<1>3. CASE e \notin Unbuildable
  <2>1. \/ accepted' = accepted \cup {e} /\ acked' = acked \cup {e}
        \/ accepted' \in {accepted, accepted \cup {e}} /\ acked' = acked
    BY <1>3 DEF EmitEvent
  <2>2. e \in recorded
    BY <1>1, <1>t DEF NewInv, InHand
  <2>3. e \notin exposed => e \in Disk \ (acked \cup dropped) /\ taken[e] > 0
    <3>1. base[d].attempt \in 0 .. MaxRecoveryAttempts
      BY <1>t DEF TypeOK, Base
    <3> QED BY <1>1, <3>1, HandIsDue, SpoolAssumption
  <2> QED BY <1>1, <1>3, <2>1, <2>2, <2>3 DEF O!Send, O!Due
<1> QED BY <1>2, <1>3

LEMMA GiveUpStep ==
  ASSUME AllowanceInv, AllowanceInv', NEW d \in Drainer, EndDrain(d)
  PROVE  O!GiveUp(Undelivered(d)) /\ Undelivered(d) \in SUBSET Event
<1>t. TypeOK
  BY DEF AllowanceInv, IInv
<1>1. /\ dropped' = dropped \cup Undelivered(d) /\ Disk' = Disk
      /\ UNCHANGED <<recorded, taken, accepted, acked, faulted, late, exposed>>
      /\ Undelivered(d) = {} \/ GiveUp(d)
  BY DEF EndDrain, Disk, Kept, Live, dirVars, coreVars
<1>2. Undelivered(d) \subseteq Event
  BY <1>t DEF Undelivered, TypeOK
<1>3. ASSUME NEW e \in Undelivered(d) \ exposed
      PROVE  e \in Disk \ (acked \cup dropped) /\ taken[e] = MaxRecoveryAttempts + 1
  <2>1. InHand(d, e) /\ e \in Event
    BY <1>2, <1>3 DEF InHand, Undelivered
  <2>2. /\ e \in Disk \ (acked \cup dropped) /\ taken[e] = base[d].attempt + 1
    BY <1>3, <2>1, HandIsDue
  <2>3. GiveUp(d) /\ base[d].attempt \in 0 .. MaxRecoveryAttempts
    BY <1>1, <1>3, <1>t DEF TypeOK, Base
  <2> QED BY <2>2, <2>3, SpoolAssumption DEF GiveUp, NextAttempt
<1> QED BY <1>1, <1>2, <1>3 DEF O!GiveUp, O!Due

\* What a drain carries over, and what it fails to carry over, was in its hands.
LEMMA CarriedIsDue ==
  ASSUME AllowanceInv, NEW d \in Drainer
  PROVE  /\ Undelivered(d) \subseteq Event
         /\ \A e \in Undelivered(d) \ exposed : e \in Disk \ (acked \cup dropped)
<1>1. Undelivered(d) \subseteq Event
  BY DEF AllowanceInv, IInv, Undelivered, TypeOK
<1>2. ASSUME NEW e \in Undelivered(d) \ exposed
      PROVE  e \in Disk \ (acked \cup dropped)
  <2>1. InHand(d, e) /\ e \in Event
    BY <1>1, <1>2 DEF InHand, Undelivered
  <2> QED BY <1>2, <2>1, HandIsDue
<1> QED BY <1>1, <1>2

LEMMA FillStep ==
  ASSUME AllowanceInv, AllowanceInv', NEW d \in Drainer, FillRecovery(d)
  PROVE  O!CarryOver(failed[d]) /\ failed[d] \in SUBSET Event
<1>t. TypeOK /\ TypeOK' /\ Shape
  BY DEF AllowanceInv, IInv
<1> DEFINE f == out[d]
           E == failed[d]
<1>1. /\ f \in File /\ E \subseteq Event /\ E \subseteq Undelivered(d)
      /\ UNCHANGED <<recorded, taken, accepted, acked, dropped, faulted, exposed, kind>>
  BY <1>t DEF FillRecovery, Shape, TypeOK, Undelivered, coreVars
<1>2. WriteLines(f, E)
  BY DEF FillRecovery
<1> HIDE DEF f, E
<1>3. late' \in {late, late \cup E}
  BY <1>2 DEF WriteLines
<1>4. Disk' = IF Live(f) THEN Disk \cup E ELSE Disk
  <2>1. lines' = [lines EXCEPT ![f] = IF Live(f) THEN lines[f] \cup E ELSE lines[f]]
    BY <1>2 DEF WriteLines
  <2>2. \A g \in File : Live(g)' = Live(g)
    BY <1>1 DEF Live
  <2>3. \A g \in File : lines'[g] = IF g = f /\ Live(f) THEN lines[g] \cup E ELSE lines[g]
    BY <1>t, <2>1 DEF TypeOK
  <2> QED BY <1>1, <1>t, <2>2, <2>3, DiskIs, DiskIsNext
<1>5. \A e \in E \ exposed : e \in Disk \ (acked \cup dropped)
  BY <1>1, CarriedIsDue
<1>6. O!CarryOver(E)
  <2>1. Disk' \in {Disk, Disk \cup E}
    BY <1>4
  <2>2. (faulted \cup late)' \in {faulted \cup late, (faulted \cup late) \cup E}
    BY <1>1, <1>3
  <2> QED BY <1>1, <1>5, <2>1, <2>2 DEF O!CarryOver, O!Due
<1> QED BY <1>1, <1>6 DEF E

LEMMA FaultStep ==
  ASSUME AllowanceInv, AllowanceInv', NEW d \in Drainer, RecoveryFault(d)
  PROVE  O!CarryOver(Undelivered(d)) /\ Undelivered(d) \in SUBSET Event
<1>1. /\ faulted' = faulted \cup Undelivered(d) /\ Disk' = Disk
      /\ UNCHANGED <<recorded, taken, accepted, acked, dropped, late, exposed>>
  BY DEF RecoveryFault, Disk, Kept, Live, dirVars, coreVars
<1>2. (faulted \cup late)' = (faulted \cup late) \cup Undelivered(d)
  BY <1>1
<1> QED BY <1>1, <1>2, CarriedIsDue DEF O!CarryOver, O!Due

LEMMA LeaveStep ==
  ASSUME AllowanceInv, AllowanceInv', NEW d \in Drainer, RemoveRotated(d)
  PROVE  O!Leave(Disk \ Disk') /\ (Disk \ Disk') \in SUBSET Event
<1>t. TypeOK /\ TypeOK' /\ Shape /\ HeldInv
  BY DEF AllowanceInv, IInv
<1>1. /\ pc[d] = "remove" /\ cur[d] \in File
      /\ UNCHANGED <<recorded, taken, accepted, acked, dropped, faulted, late, exposed>>
  BY <1>t DEF RemoveRotated, Shape, coreVars, fateVars
<1>2. CASE ~Holds(d, cur[d])
  <2>1. Disk' = Disk
    BY <1>2 DEF RemoveRotated, Disk, Kept, Live, dirVars
  <2> QED BY <1>1, <2>1 DEF O!Leave, Disk
<1>3. CASE Holds(d, cur[d])
  <2> DEFINE f == cur[d]
  <2>1. /\ f \in File /\ Live(f) /\ Unlink(f)
    BY <1>1, <1>3 DEF RemoveRotated, Holds, Live
  <2>2. \A e \in lines[f] : Settled(e) \/ Kept(e, attempt[f] + 1)
    BY <1>1, <1>3, <1>t DEF HeldInv, Secured
  <2> HIDE DEF f
  <2>3. /\ kind'[f] = "none"
        /\ \A g \in File : g # f => kind'[g] = kind[g] /\ lines'[g] = lines[g]
    <3>1. kind \in [File -> Kinds] /\ lines \in [File -> SUBSET Event]
      BY <1>t DEF TypeOK
    <3>2. kind' = [kind EXCEPT ![f] = "none"] /\ lines' = [lines EXCEPT ![f] = {}]
      BY <2>1 DEF Unlink
    <3> QED BY <2>1, <3>1, <3>2
  <2>4. Disk' \subseteq Disk
    <3>1. ASSUME NEW e \in Event, NEW g \in File, Live(g)', e \in lines'[g]
          PROVE  Live(g) /\ e \in lines[g]
      BY <2>3, <3>1 DEF Live
    <3> QED BY <1>t, <3>1, DiskIs, DiskIsNext
  <2>5. ASSUME NEW e \in Disk \ Disk'
        PROVE  Settled(e) /\ e \in Event
    <3>1. e \in Event /\ \E g \in File : Live(g) /\ e \in lines[g]
      BY <1>t, DiskIs
    <3>2. \A g \in File : Live(g)' => e \notin lines'[g]
      BY <1>t, <3>1, DiskIsNext
    <3>3. e \in lines[f]
      BY <2>3, <3>1, <3>2 DEF Live
    <3>4. ~Kept(e, attempt[f] + 1)
      <4>1. ASSUME NEW g \in File, Live(g), attempt[g] >= attempt[f] + 1, e \in lines[g]
            PROVE  FALSE
        <5>1. g # f
          BY <2>1, <4>1, <1>t, SpoolAssumption DEF TypeOK
        <5> QED BY <2>3, <3>2, <4>1, <5>1 DEF Live
      <4> QED BY <4>1 DEF Kept
    <3> QED BY <2>2, <3>1, <3>3, <3>4
  <2>6. Disk' = Disk \ (Disk \ Disk')
    BY <2>4
  <2>7. \A e \in Disk \ Disk' : e \in acked \cup dropped \cup (faulted \cup late) \cup Unbuildable
    BY <2>5 DEF Settled
  <2>8. O!Leave(Disk \ Disk')
    BY <1>1, <2>6, <2>7 DEF O!Leave
  <2> QED BY <2>5, <2>8
<1> QED BY <1>2, <1>3

\* A FlushAll takes a file from a drain at work, or a drain is killed at work.
LEMMA DisturbStep ==
  ASSUME AllowanceInv, NEW d \in Drainer,
         Kill(d) \/ \E f \in todo[d] : ClaimListed(d, f)
  PROVE  \E E \in SUBSET Event : O!Disturb(E)
<1>t. TypeOK /\ Shape /\ TodoInv
  BY DEF AllowanceInv, IInv
<1>1. CASE Kill(d)
  <2>1. /\ Disk' = Disk
        /\ UNCHANGED <<recorded, taken, accepted, acked, dropped, faulted, late>>
    BY <1>1 DEF Kill, Disk, Kept, Live, dirVars, coreVars, fateVars
  <2>2. CASE Working(d) /\ Holds(d, cur[d])
    <3>1. cur[d] \in File /\ Live(cur[d]) /\ exposed' = exposed \cup lines[cur[d]]
      BY <1>1, <1>t, <2>2 DEF Kill, Shape, Working, Holds, Live
    <3>2. lines[cur[d]] \subseteq Disk /\ lines[cur[d]] \subseteq Event
      BY <1>t, <3>1, LinesOnDisk DEF TypeOK
    <3>3. O!Disturb(lines[cur[d]])
      BY <2>1, <3>1, <3>2 DEF O!Disturb
    <3> QED BY <3>2, <3>3
  <2>3. CASE ~(Working(d) /\ Holds(d, cur[d]))
    <3>1. exposed' = exposed \cup {}
      BY <1>1, <2>3 DEF Kill
    <3>2. O!Disturb({})
      BY <2>1, <3>1 DEF O!Disturb
    <3> QED BY <3>2
  <2> QED BY <2>2, <2>3
<1>2. ASSUME NEW f \in todo[d], ClaimListed(d, f)
      PROVE  \E E \in SUBSET Event : O!Disturb(E)
  <2>1. f \in File /\ Live(f)
    BY <1>t DEF TypeOK, TodoInv
  <2>2. \A g \in File : Live(g)' = Live(g)
    BY <1>t, <1>2, <2>1 DEF ClaimListed, Claim, TypeOK, Live
  <2>3. /\ Disk' = Disk
        /\ UNCHANGED <<recorded, taken, accepted, acked, dropped, faulted, late>>
    BY <1>2, <2>2 DEF ClaimListed, Disk, Kept, Live, coreVars, fateVars
  <2>4. lines[f] \subseteq Disk /\ lines[f] \subseteq Event
    BY <1>t, <2>1, LinesOnDisk DEF TypeOK
  <2>5. exposed' = exposed \cup lines[f] \/ exposed' = exposed \cup {}
    BY <1>2 DEF ClaimListed
  <2>6. O!Disturb(lines[f]) \/ O!Disturb({})
    BY <2>3, <2>4, <2>5 DEF O!Disturb
  <2> QED BY <2>4, <2>6
<1> QED BY <1>1, <1>2

\* The steps of which Outbox knows nothing: they move files and processes.
SilentHook == \E h \in Hook, e \in Event : AppendOpen(h, e)

SilentDrainer ==
  \E d \in Drainer :
    \/ StartFlush(d) \/ FlushAll(d) \/ FinishFlush(d) \/ Expire(d)
    \/ pc[d] = "start" /\ BeginFlush(d, own[d])
    \/ \E s \in Session : RotateSpool(d, s)
    \/ ReadNothing(d) \/ CreateRecovery(d)

LEMMA SilentSteps ==
  ASSUME AllowanceInv, AllowanceInv', Grows, SilentHook \/ SilentDrainer
  PROVE  UNCHANGED O!outboxVars
<1>t. TypeOK /\ TypeOK'
  BY DEF AllowanceInv, IInv
<1> DEFINE SameLines == \A f \in File :
                          Live(f)' => lines'[f] = {} \/ (Live(f) /\ lines'[f] = lines[f])
<1> USE DEF dirVars, coreVars, fateVars
<1>1. ASSUME NEW h \in Hook, NEW e \in Event, AppendOpen(h, e)
      PROVE  Silent /\ SameLines
  BY <1>1, <1>t DEF AppendOpen, Create, TypeOK, Silent, Live
<1>2. ASSUME NEW d \in Drainer, CreateRecovery(d)
      PROVE  Silent /\ SameLines
  <2>1. Silent
    BY <1>2 DEF CreateRecovery, Silent
  <2>2. SameLines
    BY <1>2, <1>t DEF CreateRecovery, Create, TypeOK, Live
  <2> QED BY <2>1, <2>2
<1>3. ASSUME NEW d \in Drainer, NEW s \in Session, RotateSpool(d, s)
      PROVE  Silent /\ SameLines
  BY <1>3, <1>t DEF RotateSpool, Claim, IsSpoolOf, TypeOK, Silent, Live
<1>4. ASSUME NEW d \in Drainer,
             \/ StartFlush(d) \/ FlushAll(d) \/ FinishFlush(d) \/ Expire(d)
             \/ ReadNothing(d) \/ (pc[d] = "start" /\ BeginFlush(d, own[d]))
      PROVE  Silent /\ Disk' = Disk
  BY <1>4 DEF StartFlush, BeginFlush, SessionEndFlush, FlushAll, FinishFlush, Expire,
     ReadNothing, Silent, Disk, Kept, Live
<1>5. ASSUME Silent, SameLines PROVE UNCHANGED O!outboxVars
  BY <1>5, <1>t, DiskStays, SilentStep
<1> HIDE DEF dirVars, coreVars, fateVars, SameLines
<1> QED BY <1>1, <1>2, <1>3, <1>4, <1>5, SilentStep DEF SilentHook, SilentDrainer

LEMMA StartsAsOutbox == Init => O!OutboxInit
<1> SUFFICES ASSUME Init PROVE O!OutboxInit
  OBVIOUS
<1>1. Disk = {}
  BY DEF Init, Disk, Kept, Live
<1> QED BY <1>1 DEF Init, O!OutboxInit

LEMMA StepsAsOutbox ==
  ASSUME AllowanceInv, AllowanceInv', [Next]_vars
  PROVE  O!OutboxNext \/ UNCHANGED O!outboxVars
<1>g. Grows \/ \E d \in Drainer : RemoveRotated(d)
  BY GrowsNext DEF AllowanceInv, IInv
<1>1. ASSUME NEW h \in Hook, AppendWrite(h) PROVE O!OutboxNext
  BY <1>1, EnterStep DEF O!OutboxNext
<1>2. ASSUME NEW d \in Drainer, NEW e \in Event, EmitEvent(d, e)
      PROVE  O!OutboxNext \/ UNCHANGED O!outboxVars
  BY <1>2, SendStep DEF O!OutboxNext
<1>3. ASSUME NEW d \in Drainer, ReadFile(d) PROVE O!OutboxNext
  BY <1>3, TakeStep DEF O!OutboxNext
<1>4. ASSUME NEW d \in Drainer, EndDrain(d) PROVE O!OutboxNext
  BY <1>4, GiveUpStep DEF O!OutboxNext
<1>5. ASSUME NEW d \in Drainer, FillRecovery(d) PROVE O!OutboxNext
  BY <1>5, FillStep DEF O!OutboxNext
<1>6. ASSUME NEW d \in Drainer, RecoveryFault(d) PROVE O!OutboxNext
  BY <1>6, FaultStep DEF O!OutboxNext
<1>7. ASSUME NEW d \in Drainer, RemoveRotated(d) PROVE O!OutboxNext
  BY <1>7, LeaveStep DEF O!OutboxNext
<1>8. ASSUME NEW d \in Drainer, Kill(d) \/ \E f \in todo[d] : ClaimListed(d, f)
      PROVE  O!OutboxNext
  BY <1>8, DisturbStep DEF O!OutboxNext
<1>9. ASSUME SilentHook \/ SilentDrainer
      PROVE  O!OutboxNext \/ UNCHANGED O!outboxVars
  BY <1>7, <1>9, <1>g, SilentSteps
<1>10. CASE UNCHANGED vars
  BY <1>10 DEF vars, dirVars, coreVars, fateVars, O!outboxVars, Disk, Kept, Live
<1> QED
  BY <1>1, <1>2, <1>3, <1>4, <1>5, <1>6, <1>7, <1>8, <1>9, <1>10
  DEF Next, HookStep, FlushStep, DrainStep, SilentHook, SilentDrainer

(***************************************************************************)
(* The spool keeps the promise of Outbox, for every number of processes,   *)
(* files and events: each step of the directory or of a process is one of  *)
(* the outbox's, or none.                                                  *)
(***************************************************************************)
THEOREM ImplementsOutboxHolds == Spec => ImplementsOutbox
<1>1. AllowanceInv /\ AllowanceInv' /\ [Next]_vars => [O!OutboxNext]_(O!outboxVars)
  BY StepsAsOutbox
<1> QED
  BY <1>1, StartsAsOutbox, InitAllowance, NextAllowance, PTL
  DEF Spec, ImplementsOutbox, O!OutboxSpec

\* What the outbox alone keeps true, seen in the spool's variables.
Reasoned == \A e \in recorded : Settled(e) \/ e \in Disk

Counted == /\ taken \in [Event -> Nat]
           /\ \A e \in Event \ exposed :
                /\ taken[e] <= MaxRecoveryAttempts + 1
                /\ e \in dropped => taken[e] = MaxRecoveryAttempts + 1

LEMMA OutboxReasoned ==
  /\ O!OutboxInit => Reasoned
  /\ Reasoned /\ [O!OutboxNext]_(O!outboxVars) => Reasoned'
<1> USE DEF Reasoned, Settled
<1>1. O!OutboxInit => Reasoned
  BY DEF O!OutboxInit
<1>2. ASSUME Reasoned, [O!OutboxNext]_(O!outboxVars) PROVE Reasoned'
  <2> USE <1>2
  <2>1. CASE UNCHANGED O!outboxVars
    BY <2>1 DEF O!outboxVars
  <2>2. ASSUME NEW e \in Event, O!Enter(e) \/ O!Send(e) PROVE Reasoned'
    BY <2>2 DEF O!Enter, O!Send
  <2>3. ASSUME NEW E \in SUBSET Event,
               O!Take(E) \/ O!GiveUp(E) \/ O!CarryOver(E) \/ O!Disturb(E)
        PROVE  Reasoned'
    BY <2>3 DEF O!Take, O!GiveUp, O!CarryOver, O!Disturb
  <2>4. ASSUME NEW E \in SUBSET Event, O!Leave(E) PROVE Reasoned'
    BY <2>4 DEF O!Leave
  <2> QED BY <2>1, <2>2, <2>3, <2>4 DEF O!OutboxNext
<1> QED BY <1>1, <1>2

LEMMA OutboxCounted ==
  /\ O!OutboxInit => Counted
  /\ Counted /\ [O!OutboxNext]_(O!outboxVars) => Counted'
<1> USE SpoolAssumption DEF Counted
<1>1. O!OutboxInit => Counted
  BY DEF O!OutboxInit
<1>2. ASSUME Counted, [O!OutboxNext]_(O!outboxVars) PROVE Counted'
  <2> USE <1>2
  <2>1. CASE UNCHANGED O!outboxVars
    BY <2>1 DEF O!outboxVars
  <2>2. ASSUME NEW e \in Event, O!Enter(e) \/ O!Send(e) PROVE Counted'
    BY <2>2 DEF O!Enter, O!Send
  <2>3. ASSUME NEW E \in SUBSET Event, O!Take(E) PROVE Counted'
    BY <2>3 DEF O!Take, O!Due
  <2>4. ASSUME NEW E \in SUBSET Event, O!GiveUp(E) PROVE Counted'
    BY <2>4 DEF O!GiveUp
  <2>5. ASSUME NEW E \in SUBSET Event, O!CarryOver(E) \/ O!Leave(E) \/ O!Disturb(E)
        PROVE  Counted'
    BY <2>5 DEF O!CarryOver, O!Leave, O!Disturb
  <2> QED BY <2>1, <2>2, <2>3, <2>4, <2>5 DEF O!OutboxNext
<1> QED BY <1>1, <1>2

(***************************************************************************)
(* Outbox says enough: of whatever implements it, drained as spool.go does *)
(* or not, it follows that no event is lost and that the tries are counted *)
(* exactly.                                                                *)
(***************************************************************************)
THEOREM OutboxSuffices == ImplementsOutbox => [](NoLoss /\ RetryAllowance)
<1>1. Reasoned => NoLoss
  BY DEF Reasoned, NoLoss, Disk
<1>2. Counted => RetryAllowance
  BY DEF Counted, RetryAllowance
<1> QED
  BY <1>1, <1>2, OutboxReasoned, OutboxCounted, PTL DEF ImplementsOutbox, O!OutboxSpec

=============================================================================
