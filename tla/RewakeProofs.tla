----------------------------- MODULE RewakeProofs -----------------------------
(***************************************************************************)
(* Proofs about Rewake: the type invariant, and that no session is woken   *)
(* for nothing, for any number of calls and watchers that share a marker.  *)
(*                                                                         *)
(* The watchers see the approval record through polls only, and act on it  *)
(* one step later.  What makes that safe is that a decided request is      *)
(* never decided otherwise (StandingNext), and that a request exists only  *)
(* because the core answered some call of the operation that it must wait. *)
(***************************************************************************)
EXTENDS Rewake, EnforceGateProofs

\* A request is on record because some call of its operation had it filed.
Filed(k) == \E o \in Call : KeyOf[o] = k /\ verdict[o].verdict = "approval"

\* A call the core has answered is not answered again.
PostInv ==
  \A c \in Call : post[c] \in {"unmappable", "none", "sent"} =>
                    verdict[c].verdict # "approval"

FiledInv == \A k \in Key : approval[k] # "none" => Filed(k)

\* A watcher that goes for the claim, or has won it, has seen the decision.
ClaimInv ==
  \A c \in Watched : wpc[c] = "claim" \/ c \in woken => Decided(KeyOf[c])

WakeInv == IInv /\ WatchTypeOK /\ PostInv /\ FiledInv /\ ClaimInv

-----------------------------------------------------------------------------

\* A step leaves every variable of the gate alone but, perhaps, the markers.
GateStands ==
  UNCHANGED <<procVars, coreVars, halted, audit, spooled, hostVars>>

LEMMA StepKinds ==
  ASSUME [Next]_vars
  PROVE  \/ [GateNext]_gateVars /\ UNCHANGED watchVars
         \/ \E c \in Watched : WatcherStep(c) \/ GraceOver(c) \/ WatcherStops(c)
BY DEF Next, vars

\* What a watcher does to the gate is to remove a marker.
LEMMA WatcherKeepsGate ==
  ASSUME NEW c \in Watched, WatcherStep(c) \/ GraceOver(c) \/ WatcherStops(c)
  PROVE  GateStands /\ (marker' = marker \/ marker' = [marker EXCEPT ![KeyOf[c]] = "none"])
BY DEF WatcherStep, GraceOver, WatcherStops, AwaitMarker, WatcherFindsDecision,
   WatcherFindsClosed, WatcherFindsNothing, WatcherClaims, WatcherDrops, WatcherStats,
   RemoveMarker, GateStands, gateVars, procVars, coreVars, fileVars, hostVars

LEMMA GateInvNext == ASSUME IInv, [Next]_vars PROVE IInv'
<1>1. CASE [GateNext]_gateVars
  BY <1>1, NextIInv
<1>2. ASSUME NEW c \in Watched, WatcherStep(c) \/ GraceOver(c) \/ WatcherStops(c)
      PROVE  IInv'
  <2>1. GateStands /\ (marker' = marker \/ marker' = [marker EXCEPT ![KeyOf[c]] = "none"])
    BY <1>2, WatcherKeepsGate
  <2>2. TypeOK'
    BY <2>1 DEF IInv, TypeOK, GateStands, procVars, coreVars, hostVars
  <2>3. CallInv'
    <3>1. Standing
      BY <2>1 DEF Standing, GateStands, coreVars
    <3> SUFFICES ASSUME NEW d \in Call PROVE OneCall(d)'
      BY DEF CallInv, OneCall
    <3>2. Untouched(d)
      BY <2>1 DEF Untouched, GateStands, procVars, coreVars, hostVars
    <3> QED BY <3>1, <3>2, Frame DEF IInv, CallInv, OneCall
  <2>4. LatchOnlyByCore'
    BY <2>1 DEF IInv, LatchOnlyByCore, GateStands, procVars, coreVars, hostVars
  <2> QED BY <2>2, <2>3, <2>4 DEF IInv
<1> QED BY <1>1, <1>2, StepKinds

LEMMA WatchTypeNext == ASSUME WatchTypeOK, [Next]_vars PROVE WatchTypeOK'
<1>1. CASE UNCHANGED watchVars
  BY <1>1 DEF WatchTypeOK, watchVars
<1>2. ASSUME NEW c \in Watched, WatcherStep(c) \/ GraceOver(c) \/ WatcherStops(c)
      PROVE  WatchTypeOK'
  <2>1. CASE WatcherClaims(c)
    <3>1. c \notin woken /\ c \notin beaten
      BY <2>1 DEF WatcherClaims, WatchTypeOK
    <3>2. /\ wpc' = [wpc EXCEPT ![c] = "over"]
          /\ \/ woken' = woken \cup {c} /\ beaten' = beaten
             \/ beaten' = beaten \cup {c} /\ woken' = woken
      BY <2>1 DEF WatcherClaims
    <3> QED BY <3>1, <3>2 DEF WatchTypeOK, WPCs
  <2>2. CASE ~WatcherClaims(c)
    <3>1. /\ woken' = woken /\ beaten' = beaten
          /\ wpc[c] # "over"
          /\ \E p \in WPCs : wpc' = [wpc EXCEPT ![c] = p]
      BY <1>2, <2>2 DEF WatcherStep, GraceOver, WatcherStops, AwaitMarker,
         WatcherFindsDecision, WatcherFindsClosed, WatcherFindsNothing, WatcherDrops,
         WatcherStats, WPCs
    <3> QED BY <3>1 DEF WatchTypeOK
  <2> QED BY <2>1, <2>2
<1> QED BY <1>1, <1>2, StepKinds

LEMMA FiledNext ==
  ASSUME TypeOK, CallInv, PostInv, FiledInv, [GateNext]_gateVars
  PROVE  (PostInv /\ FiledInv)'
<1> USE GateAssumption
<1>1. ASSUME NEW c \in Call, CoreEvaluates(c) PROVE (PostInv /\ FiledInv)'
  <2>1. PICK a \in CoreAnswers(KeyOf[c]) :
          /\ verdict' = [verdict EXCEPT ![c] = a]
          /\ approval' = IF a.verdict = "approval"
                         THEN [approval EXCEPT ![KeyOf[c]] = "pending"] ELSE approval
    BY <1>1 DEF CoreEvaluates
  <2>2. /\ post[c] = "sent" /\ post' = [post EXCEPT ![c] = "stored"]
        /\ verdict[c].verdict # "approval"
    BY <1>1 DEF CoreEvaluates, PostInv
  <2>3. PostInv'
    BY <2>1, <2>2 DEF PostInv, TypeOK
  <2>4. ASSUME NEW k \in Key, Filed(k) PROVE Filed(k)'
    BY <2>1, <2>2, <2>4 DEF Filed, TypeOK
  <2>5. a.verdict = "approval" => Filed(KeyOf[c])'
    BY <2>1 DEF Filed, TypeOK
  <2> QED BY <2>1, <2>3, <2>4, <2>5 DEF FiledInv, TypeOK
<1>2. ASSUME NEW k \in Key, CoreStep(k) PROVE (PostInv /\ FiledInv)'
  <2>1. /\ UNCHANGED <<post, verdict>> /\ approval[k] = "pending"
        /\ \E a : approval' = [approval EXCEPT ![k] = a]
    BY <1>2 DEF CoreStep, ApproverDecides, WindowCloses
  <2> QED BY <2>1 DEF PostInv, FiledInv, Filed, TypeOK
<1>3. ASSUME UNCHANGED <<verdict, approval>>,
             \A c \in Call : post'[c] \in {"unmappable", "none", "sent"} =>
                               post[c] \in {"unmappable", "none", "sent"}
      PROVE  (PostInv /\ FiledInv)'
  BY <1>3 DEF PostInv, FiledInv, Filed
<1>4. \/ \E c \in Call : CoreEvaluates(c)
      \/ \E k \in Key : CoreStep(k)
      \/ \E c \in Call : StartEvaluation(c) \/ PostAnswered(c) \/ PostFails(c)
      \/ UNCHANGED <<verdict, approval, post>>
  BY DEF GateNext, GateStep, PostStep, gateVars, coreVars,
     ReplaySessionHalt, SkipEvaluation, EvaluationAnswered, EvaluationAbandoned,
     RecordPendingApproval, FillMarker, PollDecided, HoldOver, ClaimOutcome, Apply,
     WriteSessionHalt, RecordEnforcement, Finish, HostKills
<1>5. ASSUME NEW c \in Call, PostAnswered(c) \/ PostFails(c) PROVE (PostInv /\ FiledInv)'
  <2>1. UNCHANGED <<verdict, approval>> /\ post' = [post EXCEPT ![c] = "over"]
    BY <1>5 DEF PostAnswered, PostFails
  <2> QED BY <2>1, <1>3 DEF TypeOK
<1>6. ASSUME NEW c \in Call, StartEvaluation(c) PROVE (PostInv /\ FiledInv)'
  <2>1. /\ UNCHANGED <<verdict, approval>> /\ post' = [post EXCEPT ![c] = "sent"]
        /\ post[c] = "none"
    BY <1>6 DEF StartEvaluation, CallInv, Copies
  <2> QED BY <2>1, <1>3 DEF TypeOK
<1> QED BY <1>1, <1>2, <1>3, <1>4, <1>5, <1>6

LEMMA WatcherFiledNext ==
  ASSUME WakeInv, [Next]_vars PROVE (PostInv /\ FiledInv)'
<1>1. CASE [GateNext]_gateVars
  BY <1>1, FiledNext DEF WakeInv, IInv
<1>2. ASSUME NEW c \in Watched, WatcherStep(c) \/ GraceOver(c) \/ WatcherStops(c)
      PROVE  (PostInv /\ FiledInv)'
  BY <1>2, WatcherKeepsGate DEF WakeInv, PostInv, FiledInv, Filed, GateStands, coreVars
<1> QED BY <1>1, <1>2, StepKinds

LEMMA ClaimNext == ASSUME WakeInv, [Next]_vars PROVE ClaimInv'
<1>1. CASE [GateNext]_gateVars /\ UNCHANGED watchVars
  <2>1. Standing
    BY <1>1, StandingNext DEF WakeInv, IInv
  <2> QED BY <1>1, <2>1, GateAssumption
          DEF WakeInv, ClaimInv, Standing, Decided, watchVars, Watched
<1>2. ASSUME NEW c \in Watched, WatcherStep(c) \/ GraceOver(c) \/ WatcherStops(c)
      PROVE  ClaimInv'
  <2>1. approval' = approval
    BY <1>2, WatcherKeepsGate DEF GateStands, coreVars
  <2>2. /\ \A o \in Watched : o # c => wpc'[o] = wpc[o] /\ (o \in woken' <=> o \in woken)
        /\ wpc'[c] = "claim" \/ c \in woken' => Decided(KeyOf[c])
    BY <1>2 DEF WakeInv, ClaimInv, WatchTypeOK, WatcherStep, GraceOver, WatcherStops,
       AwaitMarker, WatcherFindsDecision, WatcherFindsClosed, WatcherFindsNothing,
       WatcherClaims, WatcherDrops, WatcherStats
  <2> QED BY <2>1, <2>2 DEF WakeInv, ClaimInv, Decided
<1> QED BY <1>1, <1>2, StepKinds

LEMMA InitWakeInv == Init => WakeInv
<1> SUFFICES ASSUME Init PROVE WakeInv
  OBVIOUS
<1>1. IInv
  BY InitIInv DEF Init
<1>2. WatchTypeOK /\ ClaimInv
  BY DEF Init, WatchTypeOK, ClaimInv, WPCs
<1>3. PostInv /\ FiledInv
  BY DEF Init, GateInit, PostInv, FiledInv, NoAnswer
<1> QED BY <1>1, <1>2, <1>3 DEF WakeInv

LEMMA NextWakeInv == WakeInv /\ [Next]_vars => WakeInv'
<1> SUFFICES ASSUME WakeInv, [Next]_vars PROVE WakeInv'
  OBVIOUS
<1> QED BY GateInvNext, WatchTypeNext, WatcherFiledNext, ClaimNext DEF WakeInv

LEMMA WakeInvariant == Spec => []WakeInv
BY InitWakeInv, NextWakeInv, PTL DEF Spec

-----------------------------------------------------------------------------
(***************************************************************************)
(* Every variable of the watchers keeps its type, and a watcher that woke  *)
(* the session or found the outcome claimed is over.                       *)
(***************************************************************************)
THEOREM WatchTypeCorrect == Spec => []WatchTypeOK
<1>1. WakeInv => WatchTypeOK
  BY DEF WakeInv
<1> QED BY <1>1, WakeInvariant, PTL

(***************************************************************************)
(* However many calls of an operation share a marker, and whichever of     *)
(* their gates and watchers remove it, a session is woken only for a       *)
(* request some call of the operation filed and an approver decided.       *)
(***************************************************************************)
THEOREM WakesForADecisionHolds == Spec => []WakesForADecision
<1>1. WakeInv => WakesForADecision
  <2> SUFFICES ASSUME WakeInv, NEW c \in woken
      PROVE  /\ approval[KeyOf[c]] \in {"allow", "halt"}
             /\ \E o \in Call : KeyOf[o] = KeyOf[c] /\ verdict[o].verdict = "approval"
    BY DEF WakesForADecision
  <2>1. c \in Watched /\ Decided(KeyOf[c]) /\ KeyOf[c] \in Key
    BY GateAssumption DEF WakeInv, WatchTypeOK, ClaimInv, Watched
  <2>2. Filed(KeyOf[c])
    BY <2>1 DEF WakeInv, FiledInv, Decided
  <2> QED BY <2>1, <2>2 DEF Decided, Filed
<1> QED BY <1>1, WakeInvariant, PTL

(***************************************************************************)
(* The gate keeps its promises with the watchers beside it: they take      *)
(* markers away under it, and it lets no call proceed without an answer.   *)
(***************************************************************************)
THEOREM ProceedsOnAnswerWatched == Spec => []ProceedsOnAnswer
<1>1. WakeInv => ProceedsOnAnswer
  BY ProceedsOnAnswerInv DEF WakeInv
<1> QED BY <1>1, WakeInvariant, PTL

-----------------------------------------------------------------------------
(***************************************************************************)
(* When no two calls share an operation, a marker that is gone under a     *)
(* watcher was removed by the gate of its own call.                        *)
(***************************************************************************)
OneCallEach == \A c, o \in Call : KeyOf[c] = KeyOf[o] => c = o

GateActs(c) ==
  /\ wpc[c] \in {"await", "stat", "claim"} => marker[KeyOf[c]] # "none" \/ Answered(c)
  /\ c \in beaten => Answered(c)

SilentInv == OneCallEach => \A c \in Watched : GateActs(c)

\* A gate that has the answer of the approver keeps it.
LEMMA AnsweredStays ==
  ASSUME IInv, [GateNext]_gateVars, NEW c \in Call, Answered(c)
  PROVE  Answered(c)'
<1>1. pc[c] \notin {"idle", "evaluate", "mark", "fill", "hold"}
  BY DEF IInv, CallInv, Placed, Answered
<1>2. \A d \in Decision : MarkHalt(d).source = d.source
  BY DEF MarkHalt, Decision
<1>3. ASSUME NEW o \in Call, Apply(o) PROVE Answered(c)'
  BY <1>2, <1>3 DEF Apply, Answered, IInv, TypeOK
<1>4. ASSUME NEW o \in Call,
             \/ ReplaySessionHalt(o) \/ SkipEvaluation(o) \/ EvaluationAnswered(o)
             \/ EvaluationAbandoned(o) \/ PollDecided(o) \/ HoldOver(o)
      PROVE  Answered(c)'
  <2>1. o # c /\ \E d : dec' = [dec EXCEPT ![o] = d]
    BY <1>1, <1>4 DEF ReplaySessionHalt, SkipEvaluation, EvaluationAnswered,
       EvaluationAbandoned, Obtain, PollDecided, HoldOver
  <2> QED BY <2>1 DEF Answered, IInv, TypeOK
<1>5. CASE dec' = dec
  BY <1>5 DEF Answered
<1>6. \/ \E o \in Call : \/ Apply(o) \/ ReplaySessionHalt(o) \/ SkipEvaluation(o)
                         \/ EvaluationAnswered(o) \/ EvaluationAbandoned(o)
                         \/ PollDecided(o) \/ HoldOver(o)
      \/ dec' = dec
  BY DEF GateNext, GateStep, PostStep, CoreStep, gateVars, procVars, StartEvaluation,
     RecordPendingApproval, FillMarker, ClaimOutcome, WriteSessionHalt,
     RecordEnforcement, Finish, HostKills, CoreEvaluates, PostAnswered, PostFails,
     ApproverDecides, WindowCloses
<1> QED BY <1>3, <1>4, <1>5, <1>6

\* A gate takes a marker away only to act on the answer.
LEMMA GateRemoves ==
  ASSUME IInv, OneCallEach, [GateNext]_gateVars, NEW c \in Call,
         marker[KeyOf[c]] # "none", marker'[KeyOf[c]] = "none"
  PROVE  Answered(c)'
<1> USE GateAssumption
<1>1. \E o \in Call : ClaimOutcome(o) /\ KeyOf[o] = KeyOf[c]
  <2>1. ASSUME NEW o \in Call, RecordPendingApproval(o) PROVE FALSE
    BY <2>1 DEF RecordPendingApproval, IInv, TypeOK
  <2>2. ASSUME NEW o \in Call, FillMarker(o) PROVE FALSE
    BY <2>2 DEF FillMarker, IInv, TypeOK
  <2>3. ASSUME NEW o \in Call, ClaimOutcome(o) PROVE KeyOf[o] = KeyOf[c]
    BY <2>3 DEF ClaimOutcome, IInv, TypeOK
  <2>4. \/ \E o \in Call : RecordPendingApproval(o) \/ FillMarker(o) \/ ClaimOutcome(o)
        \/ marker' = marker
    BY DEF GateNext, GateStep, PostStep, CoreStep, gateVars, fileVars,
       ReplaySessionHalt, StartEvaluation, SkipEvaluation, EvaluationAnswered,
       EvaluationAbandoned, PollDecided, HoldOver, Apply, WriteSessionHalt,
       RecordEnforcement, Finish, HostKills, CoreEvaluates, PostAnswered, PostFails,
       ApproverDecides, WindowCloses
  <2> QED BY <2>1, <2>2, <2>3, <2>4
<1>2. pc[c] = "claim"
  BY <1>1 DEF OneCallEach, ClaimOutcome
<1>3. Answered(c)
  BY <1>2 DEF IInv, CallInv, Placed, Answered
<1> QED BY <1>3, AnsweredStays

LEMMA SilentNext == WakeInv /\ SilentInv /\ [Next]_vars => SilentInv'
<1> SUFFICES ASSUME WakeInv, SilentInv, [Next]_vars, OneCallEach, NEW c \in Watched
             PROVE  GateActs(c)'
  BY DEF SilentInv
<1>1. GateActs(c) /\ IInv /\ WatchTypeOK /\ c \in Call
  BY DEF SilentInv, WakeInv, Watched
<1>2. CASE [GateNext]_gateVars /\ UNCHANGED watchVars
  BY <1>1, <1>2, AnsweredStays, GateRemoves DEF GateActs, watchVars
<1>3. ASSUME NEW o \in Watched, WatcherStep(o) \/ GraceOver(o) \/ WatcherStops(o)
      PROVE  GateActs(c)'
  <2>1. dec' = dec /\ (marker' = marker \/ marker' = [marker EXCEPT ![KeyOf[o]] = "none"])
    BY <1>3, WatcherKeepsGate DEF GateStands, procVars
  <2>2. Answered(c)' <=> Answered(c)
    BY <2>1 DEF Answered
  <2>3. CASE o # c
    <3>1. KeyOf[o] # KeyOf[c]
      BY <2>3, <1>1 DEF OneCallEach, Watched
    <3>2. wpc'[c] = wpc[c] /\ (c \in beaten' <=> c \in beaten)
      BY <1>1, <1>3, <2>3 DEF WatchTypeOK, WatcherStep, GraceOver, WatcherStops,
         AwaitMarker, WatcherFindsDecision, WatcherFindsClosed, WatcherFindsNothing,
         WatcherClaims, WatcherDrops, WatcherStats
    <3>3. marker'[KeyOf[c]] = marker[KeyOf[c]]
      BY <1>1, <2>1, <3>1, GateAssumption DEF IInv, TypeOK
    <3> QED BY <1>1, <2>2, <3>2, <3>3 DEF GateActs
  <2>4. CASE o = c
    <3>1. CASE WatcherClaims(c)
      BY <1>1, <2>2, <3>1 DEF WatcherClaims, Claims, GateActs, WatchTypeOK
    <3>2. CASE WatcherDrops(c)
      BY <1>1, <2>2, <3>2 DEF WatcherDrops, GateActs, WatchTypeOK
    <3>3. CASE /\ beaten' = beaten /\ marker' = marker
               /\ wpc'[c] \in {"await", "stat", "claim"} =>
                    wpc[c] \in {"await", "stat", "claim"} \/ marker[KeyOf[c]] # "none"
      BY <1>1, <2>2, <3>3 DEF GateActs
    <3>4. WatcherClaims(c) \/ WatcherDrops(c) \/
            /\ beaten' = beaten /\ marker' = marker
            /\ wpc'[c] \in {"await", "stat", "claim"} =>
                 wpc[c] \in {"await", "stat", "claim"} \/ marker[KeyOf[c]] # "none"
      BY <1>1, <1>3, <2>4 DEF WatchTypeOK, WatcherStep, GraceOver, WatcherStops,
         AwaitMarker, WatcherFindsDecision, WatcherFindsClosed, WatcherFindsNothing,
         WatcherStats, gateVars, fileVars
    <3> QED BY <3>1, <3>2, <3>3, <3>4
  <2> QED BY <2>3, <2>4
<1> QED BY <1>2, <1>3, StepKinds

(***************************************************************************)
(* For any number of calls of different operations: a watcher that finds   *)
(* the outcome claimed is silent because the gate acts on it (rewake.go).  *)
(* Of two calls of one operation this is not so.                           *)
(***************************************************************************)
THEOREM SilentIfActedOnHolds == Spec => [](OneCallEach => SilentIfActedOn)
<1>1. Init => SilentInv
  BY DEF Init, SilentInv, GateActs
<1>2. WakeInv /\ SilentInv => (OneCallEach => SilentIfActedOn)
  BY DEF WakeInv, WatchTypeOK, SilentInv, GateActs, SilentIfActedOn, Watched
<1> QED BY <1>1, <1>2, WakeInvariant, SilentNext, PTL DEF Spec
=============================================================================
