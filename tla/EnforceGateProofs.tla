-------------------------- MODULE EnforceGateProofs --------------------------
(***************************************************************************)
(* Proofs about EnforceGate: its type invariant and its safety properties, *)
(* for any number of calls, sessions and operations, any contracts and     *)
(* either failure policy.                                                  *)
(***************************************************************************)
EXTENDS EnforceGate, TLAPS

(***************************************************************************)
(* What the post of a call and its observe copy have to do with each other.*)
(***************************************************************************)
Copies(c) ==
  /\ pc[c] = "idle" => ~Mapped(c) \/ post[c] = "none"
  /\ delivered[c] => post[c] = "over" /\ c \in stored
  /\ post[c] = "stored" => c \in stored
  /\ c \in stored => post[c] \in {"stored", "over"}
  /\ c \in spooled => ~delivered[c] /\ (dec[c].source = "session-halt" \/ pc[c] = "done")
  /\ pc[c] = "done" /\ Mapped(c) => delivered[c] \/ c \in spooled

(***************************************************************************)
(* A decision's source tells where its verdict comes from.  This is what   *)
(* the failure policy, the hold and the halt mark rely on, each of which   *)
(* sees what the step before it made of the decision.                      *)
(***************************************************************************)
FromEvaluation(c) ==
  /\ delivered[c] /\ ~dec[c].failOpen
  /\ verdict[c] = [verdict |-> dec[c].verdict, guard |-> dec[c].guard]
  /\ dec[c].verdict # "unknown"

FromFailure(c) ==
  /\ dec[c].failOpen /\ ~dec[c].guard
  /\ dec[c].verdict = IF FailClosed THEN "halt" ELSE "unknown"

FromApprover(c) ==
  /\ delivered[c] /\ verdict[c].verdict = "approval"
  /\ dec[c].verdict \in {"allow", "halt"} /\ dec[c].verdict = approval[KeyOf[c]]
  /\ ~dec[c].guard /\ ~dec[c].failOpen

Sourced(c) ==
  /\ dec[c].source = "evaluate" => FromEvaluation(c)
  /\ dec[c].source = "evaluate:fail-open" => FromFailure(c)
  /\ dec[c].source = "approval:decided" => FromApprover(c)
  /\ dec[c].source = "approval:undecided" => delivered[c] /\ dec[c].verdict = "halt"
  /\ dec[c].source = "session-halt" => /\ dec[c].verdict = "halt"
                                       /\ post[c] \in {"none", "unmappable"}
  /\ dec[c].stops => /\ dec[c].verdict = "halt"
                     /\ dec[c].source \in {"evaluate", "session-halt"}

(***************************************************************************)
(* Where the gate is, and what it has said, fits its decision.             *)
(***************************************************************************)
Placed(c) ==
  /\ pc[c] \in {"idle", "evaluate"} => dec[c].source = ""
  /\ pc[c] \in {"mark", "fill", "hold"} =>
       dec[c].source = "evaluate" /\ dec[c].verdict = "approval"
  /\ pc[c] = "claim" => dec[c].source = "approval:decided"
  /\ pc[c] \in {"apply", "latch", "audit", "observe", "done"} =>
       dec[c].source # "" /\ dec[c].verdict # "approval"
  /\ pc[c] = "latch" =>
       told[c] = "halt" /\ dec[c].source = "evaluate" /\ dec[c].verdict = "halt"

Said(c) ==
  /\ told[c] # "none" =>
       /\ pc[c] \in {"latch", "audit", "observe", "done", "killed"}
       /\ told[c] = ApplyDecision(dec[c], ContractOf[c])
       /\ dec[c].source # "" /\ dec[c].verdict # "approval"
  /\ audit[c].applied # "ask"

CallInv == \A c \in Call : Copies(c) /\ Sourced(c) /\ Placed(c) /\ Said(c)

IInv == TypeOK /\ CallInv /\ LatchOnlyByCore

-----------------------------------------------------------------------------
(***************************************************************************)
(* The operators on decisions                                              *)
(***************************************************************************)

Answer == [verdict : Verdicts, guard : BOOLEAN]

LEMMA DecisionTypes ==
  /\ NoDecision \in Decision /\ FailOpenDecision \in Decision
  /\ SessionHaltDecision \in Decision
  /\ \A a \in Answer : EvaluationDecision(a) \in Decision
  /\ \A v \in {"allow", "halt"} : ApprovalDecision(v) \in Decision
  /\ \A d \in Decision : /\ ApplyFailurePolicy(d) \in Decision
                         /\ ApprovalUndecided(d) \in Decision
                         /\ MarkHalt(d) \in Decision
<1> USE DEF Verdicts, Sources, NoDecision
<1>1. FailOpenDecision \in Decision /\ NoDecision \in Decision
  BY DEF FailOpenDecision, Decision
<1>2. SessionHaltDecision \in Decision
  BY DEF SessionHaltDecision, Decision
<1>3. \A a \in Answer : EvaluationDecision(a) \in Decision
  BY <1>1 DEF EvaluationDecision, Answer, Decision
<1>4. \A v \in {"allow", "halt"} : ApprovalDecision(v) \in Decision
  BY DEF ApprovalDecision, Decision
<1>5. \A d \in Decision : /\ ApplyFailurePolicy(d) \in Decision
                         /\ ApprovalUndecided(d) \in Decision
                         /\ MarkHalt(d) \in Decision
  <2> SUFFICES ASSUME NEW d \in Decision
               PROVE  /\ ApplyFailurePolicy(d) \in Decision
                      /\ ApprovalUndecided(d) \in Decision
                      /\ MarkHalt(d) \in Decision
    OBVIOUS
  <2>1. [d EXCEPT !.verdict = "halt"] \in Decision
    BY DEF Decision
  <2>2. ApprovalUndecided(d) \in Decision
    BY DEF ApprovalUndecided, Decision
  <2>3. [d EXCEPT !.stops = TRUE] \in Decision
    BY DEF Decision
  <2> QED BY <2>1, <2>2, <2>3 DEF ApplyFailurePolicy, MarkHalt
<1> QED BY <1>1, <1>2, <1>3, <1>4, <1>5

LEMMA AppliedTypes ==
  ASSUME NEW d \in Decision, NEW k \in Contracts
  PROVE  ApplyDecision(d, k) \in Applied
BY DEF Decision, Verdicts, Contracts, Applied, ApplyDecision, MapVerdict, Asks, Render

\* The host is told to stop the session for a decision that says so, and no other.
LEMMA ContractHalts ==
  ASSUME NEW d \in Decision, NEW k \in Contracts, ApplyDecision(d, k) = "halt"
  PROVE  d.stops /\ d.verdict = "halt"
BY DEF Decision, Verdicts, Contracts, ApplyDecision, MapVerdict, Asks, Render

\* A call is let proceed on ALLOW and on no verdict, and if its guardrail held.
LEMMA ContractProceeds ==
  ASSUME NEW d \in Decision, NEW k \in Contracts, ApplyDecision(d, k) = ""
  PROVE  d.verdict \in {"unknown", "allow"} /\ ~d.guard
BY DEF Decision, Verdicts, Contracts, ApplyDecision, MapVerdict, Asks, Render

\* Only an approval the core asked for makes a contract ask.
LEMMA ContractAsks ==
  ASSUME NEW d \in Decision, NEW k \in Contracts, ApplyDecision(d, k) = "ask"
  PROVE  d.verdict = "approval"
BY DEF Decision, Verdicts, Contracts, ApplyDecision, MapVerdict, Asks, Render

-----------------------------------------------------------------------------
(***************************************************************************)
(* Type correctness                                                        *)
(***************************************************************************)

LEMMA ObtainTypes ==
  ASSUME TypeOK, NEW c \in Call, NEW d \in Decision, Obtain(c, d)
  PROVE  dec' \in [Call -> Decision] /\ pc' \in [Call -> PCs]
<1>1. ApplyFailurePolicy(d) \in Decision
  BY DecisionTypes
<1> QED BY <1>1 DEF TypeOK, Obtain, PCs

LEMMA TypeNext == TypeOK /\ [GateNext]_gateVars => TypeOK'
<1> SUFFICES ASSUME TypeOK, [GateNext]_gateVars PROVE TypeOK'
  OBVIOUS
<1> USE GateAssumption DEF procVars, coreVars, fileVars, hostVars
<1>1. ASSUME NEW c \in Call, ReplaySessionHalt(c) PROVE TypeOK'
  BY <1>1, DecisionTypes DEF TypeOK, ReplaySessionHalt, PCs
<1>2. ASSUME NEW c \in Call, StartEvaluation(c) PROVE TypeOK'
  BY <1>2 DEF TypeOK, StartEvaluation, PCs
<1>3. ASSUME NEW c \in Call, SkipEvaluation(c) PROVE TypeOK'
  <2>1. dec' \in [Call -> Decision] /\ pc' \in [Call -> PCs]
    BY <1>3, DecisionTypes, ObtainTypes DEF SkipEvaluation
  <2> QED BY <1>3, <2>1 DEF TypeOK, SkipEvaluation
<1>4. ASSUME NEW c \in Call, EvaluationAnswered(c) PROVE TypeOK'
  <2>1. verdict[c] \in Answer
    BY DEF TypeOK, Answer
  <2>2. dec' \in [Call -> Decision] /\ pc' \in [Call -> PCs]
    BY <1>4, <2>1, DecisionTypes, ObtainTypes DEF EvaluationAnswered
  <2> QED BY <1>4, <2>2 DEF TypeOK, EvaluationAnswered
<1>5. ASSUME NEW c \in Call, EvaluationAbandoned(c) PROVE TypeOK'
  <2>1. dec' \in [Call -> Decision] /\ pc' \in [Call -> PCs]
    BY <1>5, DecisionTypes, ObtainTypes DEF EvaluationAbandoned
  <2> QED BY <1>5, <2>1 DEF TypeOK, EvaluationAbandoned
<1>6. ASSUME NEW c \in Call, RecordPendingApproval(c) PROVE TypeOK'
  BY <1>6 DEF TypeOK, RecordPendingApproval, PCs
<1>7. ASSUME NEW c \in Call, FillMarker(c) PROVE TypeOK'
  BY <1>7 DEF TypeOK, FillMarker, PCs
<1>8. ASSUME NEW c \in Call, PollDecided(c) PROVE TypeOK'
  BY <1>8, DecisionTypes DEF TypeOK, PollDecided, Decided, PCs
<1>9. ASSUME NEW c \in Call, HoldOver(c) PROVE TypeOK'
  BY <1>9, DecisionTypes DEF TypeOK, HoldOver, PCs
<1>10. ASSUME NEW c \in Call, ClaimOutcome(c) PROVE TypeOK'
  BY <1>10 DEF TypeOK, ClaimOutcome, PCs
<1>11. ASSUME NEW c \in Call, Apply(c) PROVE TypeOK'
  <2>1. ApplyDecision(MarkHalt(dec[c]), ContractOf[c]) \in Applied
    BY DecisionTypes, AppliedTypes DEF TypeOK
  <2> QED BY <1>11, <2>1, DecisionTypes DEF TypeOK, Apply, PCs
<1>12. ASSUME NEW c \in Call, WriteSessionHalt(c) PROVE TypeOK'
  BY <1>12 DEF TypeOK, WriteSessionHalt, PCs
<1>13. ASSUME NEW c \in Call, RecordEnforcement(c) PROVE TypeOK'
  <2>1. [verdict |-> dec[c].verdict, failOpen |-> dec[c].failOpen,
         applied |-> IF told[c] = "none" THEN "" ELSE told[c]]
           \in [verdict : Verdicts, failOpen : BOOLEAN, applied : Applied \cup {"none"}]
    BY DEF TypeOK, Decision, Applied
  <2> QED BY <1>13, <2>1 DEF TypeOK, RecordEnforcement, PCs
<1>14. ASSUME NEW c \in Call, Finish(c) PROVE TypeOK'
  BY <1>14 DEF TypeOK, Finish, HostActsOn, PCs
<1>15. ASSUME NEW c \in Call, HostKills(c) PROVE TypeOK'
  BY <1>15 DEF TypeOK, HostKills, HostActsOn, PCs
<1>16. ASSUME NEW c \in Call, CoreEvaluates(c) PROVE TypeOK'
  <2>1. PICK a \in CoreAnswers(KeyOf[c]) :
          /\ verdict' = [verdict EXCEPT ![c] = a]
          /\ approval' = IF a.verdict = "approval"
                         THEN [approval EXCEPT ![KeyOf[c]] = "pending"] ELSE approval
    BY <1>16 DEF CoreEvaluates
  <2>2. a \in Answer
    BY DEF CoreAnswers, Answer, Verdicts
  <2> QED BY <1>16, <2>1, <2>2 DEF TypeOK, CoreEvaluates, Answer
<1>17. ASSUME NEW c \in Call, PostAnswered(c) PROVE TypeOK'
  BY <1>17 DEF TypeOK, PostAnswered
<1>18. ASSUME NEW c \in Call, PostFails(c) PROVE TypeOK'
  BY <1>18 DEF TypeOK, PostFails
<1>19. ASSUME NEW k \in Key, ApproverDecides(k) PROVE TypeOK'
  BY <1>19 DEF TypeOK, ApproverDecides
<1>20. ASSUME NEW k \in Key, WindowCloses(k) PROVE TypeOK'
  BY <1>20 DEF TypeOK, WindowCloses
<1>21. CASE UNCHANGED gateVars
  BY <1>21 DEF TypeOK, gateVars
<1> QED BY <1>1, <1>2, <1>3, <1>4, <1>5, <1>6, <1>7, <1>8, <1>9, <1>10, <1>11,
           <1>12, <1>13, <1>14, <1>15, <1>16, <1>17, <1>18, <1>19, <1>20, <1>21
        DEF GateNext, GateStep, PostStep, CoreStep

-----------------------------------------------------------------------------
(***************************************************************************)
(* The invariant of one call                                               *)
(***************************************************************************)

OneCall(c) == Copies(c) /\ Sourced(c) /\ Placed(c) /\ Said(c)

\* What the invariant of call c is about, apart from its approval record.
Untouched(c) ==
  /\ pc'[c] = pc[c] /\ dec'[c] = dec[c] /\ delivered'[c] = delivered[c]
  /\ post'[c] = post[c] /\ verdict'[c] = verdict[c]
  /\ told'[c] = told[c] /\ audit'[c] = audit[c]
  /\ (c \in stored' <=> c \in stored) /\ (c \in spooled' <=> c \in spooled)

\* A decided request stays as it was decided.
Standing == \A k \in Key : Decided(k) => approval'[k] = approval[k]

LEMMA StandingNext == ASSUME TypeOK, [GateNext]_gateVars PROVE Standing
<1> USE GateAssumption
<1>1. ASSUME NEW c \in Call, CoreEvaluates(c) PROVE Standing
  <2>1. PICK a \in CoreAnswers(KeyOf[c]) :
          approval' = IF a.verdict = "approval"
                      THEN [approval EXCEPT ![KeyOf[c]] = "pending"] ELSE approval
    BY <1>1 DEF CoreEvaluates
  <2>2. Decided(KeyOf[c]) => a.verdict # "approval"
    BY DEF Decided, CoreAnswers
  <2> QED BY <2>1, <2>2 DEF Standing, Decided, TypeOK
<1>2. ASSUME NEW k \in Key, CoreStep(k) PROVE Standing
  BY <1>2 DEF Standing, Decided, TypeOK, CoreStep, ApproverDecides, WindowCloses
<1>3. CASE approval' = approval
  BY <1>3 DEF Standing
<1> QED BY <1>1, <1>2, <1>3 DEF GateNext, GateStep, PostStep, gateVars, coreVars,
     ReplaySessionHalt, StartEvaluation, SkipEvaluation, EvaluationAnswered,
     EvaluationAbandoned, RecordPendingApproval, FillMarker, PollDecided, HoldOver,
     ClaimOutcome, Apply, WriteSessionHalt, RecordEnforcement, Finish, HostKills,
     PostAnswered, PostFails

LEMMA Frame ==
  ASSUME TypeOK, Standing, NEW c \in Call, OneCall(c), Untouched(c)
  PROVE  OneCall(c)'
<1>1. Sourced(c)'
  BY GateAssumption DEF OneCall, Untouched, Sourced, FromEvaluation, FromFailure,
     FromApprover, Standing, Decided
<1> QED BY <1>1 DEF OneCall, Untouched, Copies, Mapped, Placed, Said

\* After the evaluation: a decision of one of its two sources.
LEMMA ObtainOneCall ==
  ASSUME TypeOK, NEW c \in Call, OneCall(c), pc[c] \in {"idle", "evaluate"},
         NEW d \in Decision, Obtain(c, d), d.stops = FALSE,
         \/ /\ d.source = "evaluate:fail-open" /\ d.verdict = "unknown"
            /\ d.failOpen /\ ~d.guard
         \/ /\ d.source = "evaluate" /\ d.verdict # "unknown" /\ ~d.failOpen
            /\ delivered[c] /\ verdict[c] = [verdict |-> d.verdict, guard |-> d.guard],
         UNCHANGED <<delivered, coreVars, fileVars, hostVars>>
  PROVE  OneCall(c)'
<1> DEFINE e == ApplyFailurePolicy(d)
<1> USE GateAssumption DEF coreVars, fileVars, hostVars
<1>1. dec'[c] = e /\ pc'[c] \in {"mark", "apply"}
      /\ (pc'[c] = "mark" <=> e.verdict = "approval" /\ e.source = "evaluate")
  BY DEF Obtain, TypeOK
<1>2. \/ /\ e.source = "evaluate:fail-open" /\ e.failOpen /\ ~e.guard
         /\ e.verdict = IF FailClosed THEN "halt" ELSE "unknown"
      \/ /\ e.source = "evaluate" /\ e.verdict # "unknown" /\ ~e.failOpen
         /\ delivered[c] /\ verdict[c] = [verdict |-> e.verdict, guard |-> e.guard]
  BY DEF ApplyFailurePolicy, Decision
<1>3. e.stops = FALSE
  BY DEF ApplyFailurePolicy, Decision
<1> HIDE DEF e
<1>4. Copies(c)'
  BY <1>1 DEF OneCall, Copies, Placed, Mapped
<1>5. Sourced(c)'
  BY <1>1, <1>2, <1>3 DEF Sourced, FromEvaluation, FromFailure
<1>6. Placed(c)'
  BY <1>1, <1>2 DEF Placed
<1>7. Said(c)'
  BY <1>1 DEF OneCall, Said
<1> QED BY <1>4, <1>5, <1>6, <1>7 DEF OneCall

LEMMA CallNext == ASSUME TypeOK, CallInv, [GateNext]_gateVars PROVE CallInv'
<1> USE GateAssumption DEF procVars, coreVars, fileVars, hostVars
<1>s. Standing
  BY StandingNext
<1>c. \A c \in Call : OneCall(c)
  BY DEF CallInv, OneCall
<1>g. SUFFICES ASSUME NEW d \in Call PROVE OneCall(d)'
  BY DEF CallInv, OneCall
<1>1. ASSUME NEW c \in Call, ReplaySessionHalt(c) PROVE OneCall(d)'
  <2>0. /\ pc[c] = "idle" /\ dec'[c] = SessionHaltDecision /\ pc'[c] = "apply"
        /\ SessionHaltDecision.source = "session-halt"
        /\ SessionHaltDecision.verdict = "halt"
    BY <1>1 DEF ReplaySessionHalt, SessionHaltDecision, NoDecision, TypeOK
  <2>u. /\ UNCHANGED <<delivered, post, verdict, stored, told, audit>>
        /\ spooled' \in {spooled, spooled \cup {c}}
    BY <1>1 DEF ReplaySessionHalt
  <2>1. Copies(c)'
    BY <1>c, <2>0, <2>u DEF OneCall, Copies, Mapped, TypeOK
  <2>2. Sourced(c)'
    BY <1>c, <2>0, <2>u DEF OneCall, Copies, Mapped, Sourced
  <2>3. Placed(c)'
    BY <2>0 DEF Placed
  <2>4. Said(c)'
    BY <1>c, <2>0, <2>u DEF OneCall, Said
  <2>5. d # c => Untouched(d)
    BY <1>1 DEF ReplaySessionHalt, Untouched, TypeOK
  <2> QED BY <1>s, <1>c, <2>1, <2>2, <2>3, <2>4, <2>5, Frame DEF OneCall
<1>2. ASSUME NEW c \in Call, StartEvaluation(c) PROVE OneCall(d)'
  <2>a. /\ pc[c] = "idle" /\ pc'[c] = "evaluate" /\ Mapped(c) /\ post'[c] = "sent"
        /\ UNCHANGED <<dec, delivered, stored, spooled>>
    BY <1>2 DEF StartEvaluation, TypeOK
  <2>b. c \notin stored /\ c \notin spooled /\ ~delivered[c]
    BY <1>c, <2>a DEF OneCall, Copies, Placed, Mapped
  <2>1. Copies(c)'
    BY <2>a, <2>b DEF Copies, Mapped
  <2>2. Sourced(c)'
    BY <1>c, <1>s, <1>2 DEF OneCall, Copies, Sourced, Placed, FromEvaluation, FromFailure,
       FromApprover, Standing, TypeOK, StartEvaluation, Mapped
  <2>3. Placed(c)'
    BY <1>c, <1>2 DEF OneCall, Placed, TypeOK, StartEvaluation, Mapped
  <2>4. Said(c)'
    BY <1>c, <1>2 DEF OneCall, Placed, Said, TypeOK, StartEvaluation, Mapped
  <2>5. d # c => Untouched(d)
    BY <1>2 DEF StartEvaluation, Untouched, TypeOK
  <2> QED BY <1>s, <1>c, <2>1, <2>2, <2>3, <2>4, <2>5, Frame DEF OneCall
<1>3. ASSUME NEW c \in Call, SkipEvaluation(c) PROVE OneCall(d)'
  <2> DEFINE e == FailOpenDecision
  <2>1. e \in Decision /\ pc[c] \in {"idle", "evaluate"}
    BY <1>3, DecisionTypes DEF SkipEvaluation
  <2>2. /\ e.stops = FALSE /\ e.source = "evaluate:fail-open"
        /\ e.verdict = "unknown" /\ e.failOpen /\ ~e.guard
    BY DEF FailOpenDecision, NoDecision
  <2>3. Obtain(c, e) /\ UNCHANGED <<delivered, coreVars, fileVars, hostVars>>
    BY <1>3 DEF SkipEvaluation
  <2> HIDE DEF e
  <2>4. OneCall(c)'
    BY <1>c, <2>1, <2>2, <2>3, ObtainOneCall
  <2>5. d # c => Untouched(d)
    BY <2>3 DEF Obtain, Untouched, TypeOK
  <2> QED BY <1>s, <1>c, <2>4, <2>5, Frame
<1>4. ASSUME NEW c \in Call, EvaluationAnswered(c) PROVE OneCall(d)'
  <2> DEFINE e == IF delivered[c] THEN EvaluationDecision(verdict[c]) ELSE FailOpenDecision
  <2>0. verdict[c] \in Answer /\ pc[c] = "evaluate"
    BY <1>4 DEF TypeOK, Answer, EvaluationAnswered
  <2>1. e \in Decision
    BY <2>0, DecisionTypes
  <2>2. /\ e.stops = FALSE
        /\ \/ /\ e.source = "evaluate:fail-open" /\ e.verdict = "unknown"
              /\ e.failOpen /\ ~e.guard
           \/ /\ e.source = "evaluate" /\ e.verdict # "unknown" /\ ~e.failOpen
              /\ delivered[c] /\ verdict[c] = [verdict |-> e.verdict, guard |-> e.guard]
    BY <2>0 DEF EvaluationDecision, FailOpenDecision, NoDecision, Answer
  <2>3. Obtain(c, e) /\ UNCHANGED <<delivered, coreVars, fileVars, hostVars>>
    BY <1>4 DEF EvaluationAnswered
  <2> HIDE DEF e
  <2>4. OneCall(c)'
    BY <1>c, <2>0, <2>1, <2>2, <2>3, ObtainOneCall
  <2>5. d # c => Untouched(d)
    BY <2>3 DEF Obtain, Untouched, TypeOK
  <2> QED BY <1>s, <1>c, <2>4, <2>5, Frame
<1>5. ASSUME NEW c \in Call, EvaluationAbandoned(c) PROVE OneCall(d)'
  <2> DEFINE e == FailOpenDecision
  <2>1. e \in Decision /\ pc[c] \in {"idle", "evaluate"}
    BY <1>5, DecisionTypes DEF EvaluationAbandoned
  <2>2. /\ e.stops = FALSE /\ e.source = "evaluate:fail-open"
        /\ e.verdict = "unknown" /\ e.failOpen /\ ~e.guard
    BY DEF FailOpenDecision, NoDecision
  <2>3. Obtain(c, e) /\ UNCHANGED <<delivered, coreVars, fileVars, hostVars>>
    BY <1>5 DEF EvaluationAbandoned
  <2> HIDE DEF e
  <2>4. OneCall(c)'
    BY <1>c, <2>1, <2>2, <2>3, ObtainOneCall
  <2>5. d # c => Untouched(d)
    BY <2>3 DEF Obtain, Untouched, TypeOK
  <2> QED BY <1>s, <1>c, <2>4, <2>5, Frame
<1>6. ASSUME NEW c \in Call, RecordPendingApproval(c) PROVE OneCall(d)'
  <2>0. /\ pc[c] = "mark" /\ pc'[c] \in {"fill", "hold"}
        /\ UNCHANGED <<dec, delivered, coreVars, spooled, told, audit>>
    BY <1>6 DEF RecordPendingApproval, TypeOK
  <2>1. Copies(c)'
    BY <1>c, <2>0 DEF OneCall, Copies, Mapped
  <2>2. Sourced(c)'
    BY <1>c, <2>0 DEF OneCall, Sourced, FromEvaluation, FromFailure, FromApprover
  <2>3. Placed(c)'
    BY <1>c, <2>0 DEF OneCall, Placed
  <2>4. Said(c)'
    BY <1>c, <2>0 DEF OneCall, Said
  <2>5. d # c => Untouched(d)
    BY <1>6 DEF RecordPendingApproval, Untouched, TypeOK
  <2> QED BY <1>s, <1>c, <2>1, <2>2, <2>3, <2>4, <2>5, Frame DEF OneCall
<1>7. ASSUME NEW c \in Call, FillMarker(c) PROVE OneCall(d)'
  <2>0. /\ pc[c] = "fill" /\ pc'[c] = "hold"
        /\ UNCHANGED <<dec, delivered, coreVars, spooled, told, audit>>
    BY <1>7 DEF FillMarker, TypeOK
  <2>1. Copies(c)'
    BY <1>c, <2>0 DEF OneCall, Copies, Mapped
  <2>2. Sourced(c)'
    BY <1>c, <2>0 DEF OneCall, Sourced, FromEvaluation, FromFailure, FromApprover
  <2>3. Placed(c)'
    BY <1>c, <2>0 DEF OneCall, Placed
  <2>4. Said(c)'
    BY <1>c, <2>0 DEF OneCall, Said
  <2>5. d # c => Untouched(d)
    BY <1>7 DEF FillMarker, Untouched, TypeOK
  <2> QED BY <1>s, <1>c, <2>1, <2>2, <2>3, <2>4, <2>5, Frame DEF OneCall
<1>8. ASSUME NEW c \in Call, PollDecided(c) PROVE OneCall(d)'
  <2>0. /\ pc[c] = "hold" /\ pc'[c] = "claim" /\ approval[KeyOf[c]] \in {"allow", "halt"}
        /\ dec'[c] = ApprovalDecision(approval[KeyOf[c]])
        /\ UNCHANGED <<delivered, coreVars, spooled, told, audit>>
    BY <1>8 DEF PollDecided, Decided, TypeOK
  <2>a. /\ dec'[c].source = "approval:decided" /\ dec'[c].verdict = approval[KeyOf[c]]
        /\ ~dec'[c].guard /\ ~dec'[c].failOpen /\ ~dec'[c].stops
    BY <2>0 DEF ApprovalDecision, NoDecision
  <2>e. dec[c].source = "evaluate" /\ dec[c].verdict = "approval"
    BY <1>c, <2>0 DEF OneCall, Placed
  <2>f. FromEvaluation(c) /\ ~dec[c].stops
    BY <1>c, <2>e DEF OneCall, Sourced
  <2>b. delivered[c] /\ verdict[c].verdict = "approval" /\ ~dec[c].stops
    BY <2>e, <2>f DEF FromEvaluation
  <2>1. Copies(c)'
    BY <1>c, <2>0, <2>a, <2>b, <2>e DEF OneCall, Copies, Mapped
  <2>2. Sourced(c)'
    BY <2>0, <2>a, <2>b DEF Sourced, FromApprover
  <2>3. Placed(c)'
    BY <2>0, <2>a DEF Placed
  <2>4. Said(c)'
    BY <1>c, <2>0 DEF OneCall, Said
  <2>5. d # c => Untouched(d)
    BY <1>8 DEF PollDecided, Untouched, TypeOK
  <2> QED BY <1>s, <1>c, <2>1, <2>2, <2>3, <2>4, <2>5, Frame DEF OneCall
<1>9. ASSUME NEW c \in Call, HoldOver(c) PROVE OneCall(d)'
  <2>0. /\ pc[c] = "hold" /\ pc'[c] = "apply" /\ dec'[c] = ApprovalUndecided(dec[c])
        /\ UNCHANGED <<delivered, coreVars, spooled, told, audit>>
        /\ dec[c] \in Decision
    BY <1>9 DEF HoldOver, TypeOK
  <2>a. /\ dec'[c].source = "approval:undecided" /\ dec'[c].verdict = "halt"
        /\ dec'[c].stops = dec[c].stops
    BY <2>0 DEF ApprovalUndecided, Decision
  <2>e. dec[c].source = "evaluate" /\ dec[c].verdict = "approval"
    BY <1>c, <2>0 DEF OneCall, Placed
  <2>f. FromEvaluation(c) /\ ~dec[c].stops
    BY <1>c, <2>e DEF OneCall, Sourced
  <2>b. delivered[c] /\ verdict[c].verdict = "approval" /\ ~dec[c].stops
    BY <2>e, <2>f DEF FromEvaluation
  <2>1. Copies(c)'
    BY <1>c, <2>0, <2>a, <2>b, <2>e DEF OneCall, Copies, Mapped
  <2>2. Sourced(c)'
    BY <2>0, <2>a, <2>b DEF Sourced, FromApprover
  <2>3. Placed(c)'
    BY <2>0, <2>a DEF Placed
  <2>4. Said(c)'
    BY <1>c, <2>0 DEF OneCall, Said
  <2>5. d # c => Untouched(d)
    BY <1>9 DEF HoldOver, Untouched, TypeOK
  <2> QED BY <1>s, <1>c, <2>1, <2>2, <2>3, <2>4, <2>5, Frame DEF OneCall
<1>10. ASSUME NEW c \in Call, ClaimOutcome(c) PROVE OneCall(d)'
  <2>0. /\ pc[c] = "claim" /\ pc'[c] = "apply"
        /\ UNCHANGED <<dec, delivered, coreVars, spooled, told, audit>>
    BY <1>10 DEF ClaimOutcome, TypeOK
  <2>1. Copies(c)'
    BY <1>c, <2>0 DEF OneCall, Copies, Mapped
  <2>2. Sourced(c)'
    BY <1>c, <2>0 DEF OneCall, Sourced, FromEvaluation, FromFailure, FromApprover
  <2>a. dec[c].source = "approval:decided"
    BY <1>c, <2>0 DEF OneCall, Placed
  <2>b. dec[c].verdict # "approval"
    BY <1>c, <2>a DEF OneCall, Sourced, FromApprover
  <2>3. Placed(c)'
    BY <2>0, <2>a, <2>b DEF Placed
  <2>4. Said(c)'
    BY <1>c, <2>0 DEF OneCall, Said
  <2>5. d # c => Untouched(d)
    BY <1>10 DEF ClaimOutcome, Untouched, TypeOK
  <2> QED BY <1>s, <1>c, <2>1, <2>2, <2>3, <2>4, <2>5, Frame DEF OneCall
<1>11. ASSUME NEW c \in Call, Apply(c) PROVE OneCall(d)'
  <2> DEFINE e == MarkHalt(dec[c])
  <2>0. pc[c] = "apply" /\ OneCall(c) /\ e \in Decision /\ dec[c] \in Decision
    BY <1>c, <1>11, DecisionTypes DEF Apply, TypeOK
  <2>1. /\ e.verdict = dec[c].verdict /\ e.source = dec[c].source
        /\ e.guard = dec[c].guard /\ e.failOpen = dec[c].failOpen
        /\ e.stops => dec[c].stops \/ StopsSession(dec[c])
    BY <2>0 DEF MarkHalt, Decision
  <2>2. PICK a \in {ApplyDecision(e, ContractOf[c]), "none"} :
          /\ dec' = [dec EXCEPT ![c] = e]
          /\ told' = [told EXCEPT ![c] = a]
          /\ pc' = [pc EXCEPT ![c] = IF a = "halt" /\ e.source # "session-halt"
                                     THEN "latch" ELSE "audit"]
    BY <1>11 DEF Apply
  <2>3. a = "halt" => e.stops
    BY <2>0, <2>2, ContractHalts
  <2>4. /\ dec'[c] = e /\ told'[c] = a /\ pc'[c] \in {"latch", "audit"}
        /\ pc'[c] = "latch" => a = "halt" /\ e.source # "session-halt"
    BY <2>2 DEF TypeOK
  <2>u. UNCHANGED <<delivered, coreVars, fileVars>>
    BY <1>11 DEF Apply
  <2> HIDE DEF e
  <2>5. Copies(c)'
    BY <2>0, <2>1, <2>4, <2>u DEF OneCall, Copies, Mapped
  <2>6. Sourced(c)'
    BY <2>0, <2>1, <2>4, <2>u DEF OneCall, Sourced, FromEvaluation, FromFailure,
       FromApprover, StopsSession
  <2>7. Placed(c)'
    BY <2>0, <2>1, <2>3, <2>4, <2>6 DEF OneCall, Placed, Sourced
  <2>8. Said(c)'
    BY <2>0, <2>1, <2>2, <2>4, <2>u DEF OneCall, Placed, Said
  <2>9. d # c => Untouched(d)
    BY <2>2, <2>u DEF Untouched, TypeOK
  <2> QED BY <1>s, <1>c, <2>5, <2>6, <2>7, <2>8, <2>9, Frame DEF OneCall
<1>12. ASSUME NEW c \in Call, WriteSessionHalt(c) PROVE OneCall(d)'
  <2>0. /\ pc[c] = "latch" /\ pc'[c] = "audit"
        /\ UNCHANGED <<dec, delivered, coreVars, spooled, told, audit>>
    BY <1>12 DEF WriteSessionHalt, TypeOK
  <2>1. Copies(c)'
    BY <1>c, <2>0 DEF OneCall, Copies, Mapped
  <2>2. Sourced(c)'
    BY <1>c, <2>0 DEF OneCall, Sourced, FromEvaluation, FromFailure, FromApprover
  <2>3. Placed(c)'
    BY <1>c, <2>0 DEF OneCall, Placed
  <2>4. Said(c)'
    BY <1>c, <2>0 DEF OneCall, Said
  <2>5. d # c => Untouched(d)
    BY <1>12 DEF WriteSessionHalt, Untouched, TypeOK
  <2> QED BY <1>s, <1>c, <2>1, <2>2, <2>3, <2>4, <2>5, Frame DEF OneCall
<1>13. ASSUME NEW c \in Call, RecordEnforcement(c) PROVE OneCall(d)'
  <2>0. /\ pc[c] = "audit" /\ pc'[c] = "observe"
        /\ UNCHANGED <<dec, delivered, coreVars, spooled, told>>
    BY <1>13 DEF RecordEnforcement, TypeOK
  <2>1. Copies(c)'
    BY <1>c, <2>0 DEF OneCall, Copies, Mapped
  <2>2. Sourced(c)'
    BY <1>c, <2>0 DEF OneCall, Sourced, FromEvaluation, FromFailure, FromApprover
  <2>3. Placed(c)'
    BY <1>c, <2>0 DEF OneCall, Placed
  <2>a. dec[c] \in Decision /\ ContractOf[c] \in Contracts /\ Said(c)
    BY <1>c DEF OneCall, TypeOK
  <2>b. told[c] # "ask"
    BY <2>a, ContractAsks DEF Said
  <2>c. audit'[c].applied # "ask"
    BY <1>13, <2>b DEF RecordEnforcement, TypeOK
  <2>4. Said(c)'
    BY <2>0, <2>a, <2>c DEF Said
  <2>5. d # c => Untouched(d)
    BY <1>13 DEF RecordEnforcement, Untouched, TypeOK
  <2> QED BY <1>s, <1>c, <2>1, <2>2, <2>3, <2>4, <2>5, Frame DEF OneCall
<1>14. ASSUME NEW c \in Call, Finish(c) PROVE OneCall(d)'
  <2>0. /\ pc[c] = "observe" /\ pc'[c] = "done"
        /\ UNCHANGED <<dec, delivered, coreVars, told, audit>>
        /\ spooled' = IF Mapped(c) /\ ~delivered[c] THEN spooled \cup {c} ELSE spooled
    BY <1>14 DEF Finish, Observe, TypeOK
  <2>1. Copies(c)'
    BY <1>c, <2>0 DEF OneCall, Copies, Mapped
  <2>2. Sourced(c)'
    BY <1>c, <2>0 DEF OneCall, Sourced, FromEvaluation, FromFailure, FromApprover
  <2>3. Placed(c)'
    BY <1>c, <2>0 DEF OneCall, Placed
  <2>4. Said(c)'
    BY <1>c, <2>0 DEF OneCall, Said
  <2>5. d # c => Untouched(d)
    BY <1>14 DEF Finish, Untouched, TypeOK
  <2> QED BY <1>s, <1>c, <2>1, <2>2, <2>3, <2>4, <2>5, Frame DEF OneCall
<1>15. ASSUME NEW c \in Call, HostKills(c) PROVE OneCall(d)'
  <2>0. /\ pc[c] \notin {"idle", "done", "killed"} /\ pc'[c] = "killed"
        /\ UNCHANGED <<dec, delivered, coreVars, spooled, told, audit>>
    BY <1>15 DEF HostKills, TypeOK
  <2>1. Copies(c)'
    BY <1>c, <2>0 DEF OneCall, Copies, Mapped
  <2>2. Sourced(c)'
    BY <1>c, <2>0 DEF OneCall, Sourced, FromEvaluation, FromFailure, FromApprover
  <2>3. Placed(c)'
    BY <1>c, <2>0 DEF OneCall, Placed
  <2>4. Said(c)'
    BY <1>c, <2>0 DEF OneCall, Said
  <2>5. d # c => Untouched(d)
    BY <1>15 DEF HostKills, Untouched, TypeOK
  <2> QED BY <1>s, <1>c, <2>1, <2>2, <2>3, <2>4, <2>5, Frame DEF OneCall
<1>16. ASSUME NEW c \in Call, CoreEvaluates(c) PROVE OneCall(d)'
  <2>0. /\ post[c] = "sent" /\ post'[c] = "stored" /\ stored' = stored \cup {c}
        /\ UNCHANGED <<pc, dec, delivered, spooled, told, audit>>
    BY <1>16 DEF CoreEvaluates, TypeOK
  <2>a. ~delivered[c] /\ dec[c].source \notin {"evaluate", "approval:decided",
                                              "approval:undecided", "session-halt"}
    BY <1>c, <2>0 DEF OneCall, Copies, Sourced, FromEvaluation, FromApprover
  <2>1. Copies(c)'
    BY <1>c, <2>0, <2>a DEF OneCall, Copies, Mapped
  <2>2. Sourced(c)'
    BY <1>c, <2>0, <2>a DEF OneCall, Sourced, FromFailure
  <2>3. Placed(c)'
    BY <1>c, <2>0 DEF OneCall, Placed
  <2>4. Said(c)'
    BY <1>c, <2>0 DEF OneCall, Said
  <2>5. d # c => Untouched(d)
    BY <1>16 DEF CoreEvaluates, Untouched, TypeOK
  <2> QED BY <1>s, <1>c, <2>1, <2>2, <2>3, <2>4, <2>5, Frame DEF OneCall
<1>17. ASSUME NEW c \in Call, PostAnswered(c) PROVE OneCall(d)'
  <2>0. /\ post[c] = "stored" /\ post'[c] = "over" /\ pc[c] # "done" /\ delivered'[c]
        /\ UNCHANGED <<pc, dec, stored, verdict, approval, spooled, told, audit>>
    BY <1>17 DEF PostAnswered, TypeOK
  <2>a. ~delivered[c] /\ dec[c].source \notin {"evaluate", "approval:decided",
                                              "approval:undecided", "session-halt"}
    BY <1>c, <2>0 DEF OneCall, Copies, Sourced, FromEvaluation, FromApprover
  <2>b. c \in stored /\ c \notin spooled
    BY <1>c, <2>0, <2>a DEF OneCall, Copies
  <2>1. Copies(c)'
    BY <1>c, <2>0, <2>a, <2>b DEF OneCall, Copies, Mapped
  <2>2. Sourced(c)'
    BY <1>c, <2>0, <2>a DEF OneCall, Sourced, FromFailure
  <2>3. Placed(c)'
    BY <1>c, <2>0 DEF OneCall, Placed
  <2>4. Said(c)'
    BY <1>c, <2>0 DEF OneCall, Said
  <2>5. d # c => Untouched(d)
    BY <1>17 DEF PostAnswered, Untouched, TypeOK
  <2> QED BY <1>s, <1>c, <2>1, <2>2, <2>3, <2>4, <2>5, Frame DEF OneCall
<1>18. ASSUME NEW c \in Call, PostFails(c) PROVE OneCall(d)'
  <2>0. /\ post[c] \in {"sent", "stored"} /\ post'[c] = "over"
        /\ UNCHANGED <<pc, dec, delivered, stored, verdict, approval, spooled, told, audit>>
    BY <1>18 DEF PostFails, TypeOK
  <2>a. ~delivered[c] /\ dec[c].source \notin {"evaluate", "approval:decided",
                                              "approval:undecided", "session-halt"}
    BY <1>c, <2>0 DEF OneCall, Copies, Sourced, FromEvaluation, FromApprover
  <2>1. Copies(c)'
    BY <1>c, <2>0, <2>a DEF OneCall, Copies, Mapped
  <2>2. Sourced(c)'
    BY <1>c, <2>0, <2>a DEF OneCall, Sourced, FromFailure
  <2>3. Placed(c)'
    BY <1>c, <2>0 DEF OneCall, Placed
  <2>4. Said(c)'
    BY <1>c, <2>0 DEF OneCall, Said
  <2>5. d # c => Untouched(d)
    BY <1>18 DEF PostFails, Untouched, TypeOK
  <2> QED BY <1>s, <1>c, <2>1, <2>2, <2>3, <2>4, <2>5, Frame DEF OneCall
<1>19. ASSUME NEW k \in Key, CoreStep(k) PROVE OneCall(d)'
  BY <1>s, <1>c, <1>19, Frame DEF CoreStep, ApproverDecides, WindowCloses, Untouched
<1>20. CASE UNCHANGED gateVars
  BY <1>s, <1>c, <1>20, Frame DEF gateVars, Untouched
<1> QED BY <1>1, <1>2, <1>3, <1>4, <1>5, <1>6, <1>7, <1>8, <1>9, <1>10, <1>11,
           <1>12, <1>13, <1>14, <1>15, <1>16, <1>17, <1>18, <1>19, <1>20
        DEF GateNext, GateStep, PostStep

-----------------------------------------------------------------------------
(***************************************************************************)
(* The latch, and the invariant as a whole                                 *)
(***************************************************************************)

\* What a latched session rests on does not change any more.
Halts(c) == delivered[c] /\ verdict[c].verdict = "halt" /\ told[c] = "halt"

LEMMA HaltsStable ==
  ASSUME TypeOK, CallInv, [GateNext]_gateVars, NEW c \in Call, Halts(c)
  PROVE  Halts(c)'
<1> USE DEF procVars, coreVars, fileVars, hostVars
<1>1. pc[c] # "apply" /\ post[c] = "over"
  BY DEF CallInv, Copies, Said, Halts
<1>2. told'[c] = told[c]
  <2>1. ASSUME NEW o \in Call, Apply(o) PROVE told'[c] = told[c]
    <3>1. o # c
      BY <1>1, <2>1 DEF Apply
    <3>2. PICK a : told' = [told EXCEPT ![o] = a]
      BY <2>1 DEF Apply
    <3> QED BY <3>1, <3>2 DEF TypeOK
  <2>2. (\E o \in Call : Apply(o)) \/ told' = told
    BY DEF GateNext, GateStep, PostStep, CoreStep, gateVars,
       ReplaySessionHalt, StartEvaluation, SkipEvaluation, EvaluationAnswered,
       EvaluationAbandoned, RecordPendingApproval, FillMarker, PollDecided, HoldOver,
       ClaimOutcome, WriteSessionHalt, RecordEnforcement, Finish, HostKills,
       CoreEvaluates, PostAnswered, PostFails, ApproverDecides, WindowCloses
  <2> QED BY <2>1, <2>2
<1>3. verdict'[c] = verdict[c]
  <2>1. ASSUME NEW o \in Call, CoreEvaluates(o) PROVE verdict'[c] = verdict[c]
    <3>1. o # c
      BY <1>1, <2>1 DEF CoreEvaluates
    <3>2. PICK a : verdict' = [verdict EXCEPT ![o] = a]
      BY <2>1 DEF CoreEvaluates
    <3> QED BY <3>1, <3>2 DEF TypeOK
  <2>2. (\E o \in Call : CoreEvaluates(o)) \/ verdict' = verdict
    BY DEF GateNext, GateStep, PostStep, CoreStep, gateVars,
       ReplaySessionHalt, StartEvaluation, SkipEvaluation, EvaluationAnswered,
       EvaluationAbandoned, RecordPendingApproval, FillMarker, PollDecided, HoldOver,
       ClaimOutcome, Apply, WriteSessionHalt, RecordEnforcement, Finish, HostKills,
       PostAnswered, PostFails, ApproverDecides, WindowCloses
  <2> QED BY <2>1, <2>2
<1>4. delivered'[c] = delivered[c]
  <2>1. ASSUME NEW o \in Call, PostAnswered(o) PROVE delivered'[c] = delivered[c]
    BY <1>1, <2>1 DEF PostAnswered, TypeOK
  <2>2. (\E o \in Call : PostAnswered(o)) \/ delivered' = delivered
    BY DEF GateNext, GateStep, PostStep, CoreStep, gateVars,
       ReplaySessionHalt, StartEvaluation, SkipEvaluation, EvaluationAnswered,
       EvaluationAbandoned, RecordPendingApproval, FillMarker, PollDecided, HoldOver,
       ClaimOutcome, Apply, WriteSessionHalt, RecordEnforcement, Finish, HostKills,
       CoreEvaluates, PostFails, ApproverDecides, WindowCloses
  <2> QED BY <2>1, <2>2
<1> QED BY <1>2, <1>3, <1>4 DEF Halts

LEMMA LatchNext ==
  ASSUME TypeOK, CallInv, LatchOnlyByCore, [GateNext]_gateVars PROVE LatchOnlyByCore'
<1> SUFFICES ASSUME NEW s \in halted'
             PROVE  \E c \in Call : SessionOf[c] = s /\ Halts(c)'
  BY DEF LatchOnlyByCore, Halts
<1>1. CASE s \in halted
  <2>1. PICK c \in Call : SessionOf[c] = s /\ Halts(c)
    BY <1>1 DEF LatchOnlyByCore, Halts
  <2> QED BY <2>1, HaltsStable
<1>2. CASE s \notin halted
  <2>1. PICK c \in Call : WriteSessionHalt(c)
    BY <1>2 DEF GateNext, GateStep, PostStep, CoreStep, gateVars, fileVars,
       ReplaySessionHalt, StartEvaluation, SkipEvaluation, EvaluationAnswered,
       EvaluationAbandoned, RecordPendingApproval, FillMarker, PollDecided, HoldOver,
       ClaimOutcome, Apply, RecordEnforcement, Finish, HostKills,
       CoreEvaluates, PostAnswered, PostFails, ApproverDecides, WindowCloses
  <2>2. SessionOf[c] = s
    BY <1>2, <2>1 DEF WriteSessionHalt
  <2>3. told[c] = "halt" /\ dec[c].source = "evaluate" /\ dec[c].verdict = "halt"
    BY <2>1 DEF WriteSessionHalt, CallInv, Placed
  <2>4. FromEvaluation(c)
    BY <2>3 DEF CallInv, Sourced
  <2>5. Halts(c)
    BY <2>3, <2>4 DEF FromEvaluation, Halts
  <2> QED BY <2>2, <2>5, HaltsStable
<1> QED BY <1>1, <1>2

LEMMA InitIInv == GateInit => IInv
<1> SUFFICES ASSUME GateInit PROVE IInv
  OBVIOUS
<1>1. TypeOK
  <2>1. /\ NoAnswer \in [verdict : Verdicts, guard : BOOLEAN]
        /\ NoAudit \in [verdict : Verdicts, failOpen : BOOLEAN, applied : Applied \cup {"none"}]
    BY DEF NoAnswer, NoAudit, Verdicts
  <2> QED BY <2>1, DecisionTypes DEF GateInit, TypeOK, PCs
<1>2. CallInv
  BY DEF GateInit, CallInv, Copies, Mapped, Sourced, Placed, Said, NoDecision, NoAudit
<1>3. LatchOnlyByCore
  BY DEF GateInit, LatchOnlyByCore
<1> QED BY <1>1, <1>2, <1>3 DEF IInv

LEMMA NextIInv == IInv /\ [GateNext]_gateVars => IInv'
BY TypeNext, CallNext, LatchNext DEF IInv

-----------------------------------------------------------------------------
(***************************************************************************)
(* Theorems                                                                *)
(***************************************************************************)

LEMMA Invariant == GateSpec => []IInv
BY InitIInv, NextIInv, PTL DEF GateSpec

(***************************************************************************)
(* Every variable of the gate keeps its type.                              *)
(***************************************************************************)
THEOREM GateTypeCorrect == GateSpec => []TypeOK
<1>1. IInv => TypeOK
  BY DEF IInv
<1> QED BY <1>1, Invariant, PTL

LEMMA ProceedsOnAnswerInv == IInv => ProceedsOnAnswer
<1> SUFFICES ASSUME IInv, NEW c \in Call, told[c] = ""
    PROVE \/ delivered[c] /\ verdict[c] = [verdict |-> "allow", guard |-> FALSE]
          \/ /\ delivered[c] /\ verdict[c].verdict = "approval"
             /\ approval[KeyOf[c]] = "allow"
          \/ dec[c].failOpen /\ ~FailClosed
  BY DEF ProceedsOnAnswer, LetsProceed
<1>1. dec[c] \in Decision /\ ContractOf[c] \in Contracts /\ Said(c) /\ Sourced(c)
  BY GateAssumption DEF IInv, TypeOK, CallInv
<1>2. dec[c].source # "" /\ ApplyDecision(dec[c], ContractOf[c]) = ""
  BY <1>1 DEF Said
<1>3. dec[c].verdict \in {"unknown", "allow"} /\ ~dec[c].guard
  BY <1>1, <1>2, ContractProceeds
<1>4. CASE dec[c].source = "evaluate"
  <2>1. FromEvaluation(c)
    BY <1>1, <1>4 DEF Sourced
  <2>2. dec[c].guard = FALSE
    BY <1>1, <1>3 DEF Decision
  <2> QED BY <1>3, <2>1, <2>2 DEF FromEvaluation
<1>5. CASE dec[c].source = "evaluate:fail-open"
  BY <1>1, <1>3, <1>5 DEF Sourced, FromFailure
<1>6. CASE dec[c].source = "approval:decided"
  BY <1>1, <1>3, <1>6 DEF Sourced, FromApprover
<1>7. dec[c].source \notin {"approval:undecided", "session-halt"}
  BY <1>1, <1>3 DEF Sourced
<1> QED BY <1>1, <1>2, <1>4, <1>5, <1>6, <1>7 DEF Decision, Sources

(***************************************************************************)
(* The gate lets a call proceed only on an answer the core or an approver  *)
(* gave for it, or under fail-open when it obtained none.                  *)
(***************************************************************************)
THEOREM ProceedsOnAnswerHolds == GateSpec => []ProceedsOnAnswer
BY ProceedsOnAnswerInv, Invariant, PTL

(***************************************************************************)
(* Whatever the core answers, the developer is not asked to approve their  *)
(* own request.                                                            *)
(***************************************************************************)
THEOREM NeverAsksHolds == GateSpec => []NeverAsks
<1>1. IInv => NeverAsks
  <2> SUFFICES ASSUME IInv, NEW c \in Call
               PROVE  told[c] # "ask" /\ audit[c].applied # "ask"
    BY DEF NeverAsks
  <2>1. dec[c] \in Decision /\ ContractOf[c] \in Contracts /\ Said(c)
    BY GateAssumption DEF IInv, TypeOK, CallInv
  <2> QED BY <2>1, ContractAsks DEF Said
<1> QED BY <1>1, Invariant, PTL

(***************************************************************************)
(* No outage, no unanswered request and no refusal by an approver halts a  *)
(* session.                                                                *)
(***************************************************************************)
THEOREM LatchOnlyByCoreHolds == GateSpec => []LatchOnlyByCore
<1>1. IInv => LatchOnlyByCore
  BY DEF IInv
<1> QED BY <1>1, Invariant, PTL

(***************************************************************************)
(* The event of a call that ran its gate to the end is stored or spooled,  *)
(* and both only if the gate got no answer.                                *)
(***************************************************************************)
THEOREM ObservedOnceHolds == GateSpec => []ObservedOnce
<1>1. IInv => ObservedOnce
  <2> SUFFICES ASSUME IInv, NEW c \in Call, Mapped(c), pc[c] = "done"
      PROVE  /\ c \in stored \cup spooled
             /\ c \in stored \cap spooled => dec[c].source = "evaluate:fail-open"
    BY DEF ObservedOnce
  <2>1. dec[c] \in Decision /\ Copies(c) /\ Sourced(c) /\ Placed(c)
    BY DEF IInv, TypeOK, CallInv
  <2>2. c \in stored \cup spooled
    BY <2>1 DEF Copies
  <2>3. ASSUME c \in stored, c \in spooled PROVE dec[c].source = "evaluate:fail-open"
    <3>1. ~delivered[c] /\ post[c] \in {"stored", "over"} /\ dec[c].source # ""
      BY <2>1, <2>3 DEF Copies, Placed
    <3>2. dec[c].source \notin {"evaluate", "approval:decided", "approval:undecided",
                               "session-halt"}
      BY <2>1, <3>1 DEF Sourced, FromEvaluation, FromApprover
    <3> QED BY <2>1, <3>1, <3>2 DEF Decision, Sources
  <2> QED BY <2>2, <2>3
<1> QED BY <1>1, Invariant, PTL
=============================================================================
