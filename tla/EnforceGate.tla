----------------------------- MODULE EnforceGate -----------------------------
(***************************************************************************)
(* The synchronous gate a hook runs before a tool call or a prompt         *)
(* (adapters/common/hookflow: gate.go, evaluate.go, approvalhold.go,       *)
(* failurepolicy.go, sessionhalt.go and the apply cascade of enforce.go;   *)
(* the two adapters' output contracts).                                    *)
(*                                                                         *)
(* A member of Call is one hook process.  It evaluates its event with the  *)
(* core in a goroutine it may abandon, applies the failure policy, holds   *)
(* while an approval it filed is pending, writes its answer to the host,   *)
(* latches a halted session, records an audit line and spools the observe  *)
(* copy of its event.  The host may kill it anywhere in between, and then  *)
(* lets the call proceed.                                                  *)
(*                                                                         *)
(* The core keeps one approval record per operation key: two calls of the  *)
(* same operation (a re-run, or two at once) share a key and its record.   *)
(***************************************************************************)
EXTENDS Naturals, FiniteSets

CONSTANTS
  Call,         \* gated hook processes
  Session,
  Key,          \* operations: (workflow_id, run_id, activity_id)
  SessionOf,    \* the session of a call
  KeyOf,        \* the operation of a call
  ContractOf,   \* how the hook of a call spells its answer
  FailClosed    \* the failure policy of the organisation

\* Claude Code's PreToolUse and UserPromptSubmit, and Codex's PreToolUse.
Contracts == {"tool", "prompt", "codex"}

ASSUME GateAssumption ==
  /\ SessionOf \in [Call -> Session]
  /\ KeyOf \in [Call -> Key]
  /\ ContractOf \in [Call -> Contracts]
  /\ FailClosed \in BOOLEAN

VARIABLES
  \* hook processes
  pc, dec, delivered,
  \* the goroutine that posts the event (of a call that can be mapped to one),
  \* and what the core answered it
  post, stored, verdict,
  \* the core's approval records
  approval,
  \* files: pending-approval markers, halted-session latches, audit, spool
  marker, halted, audit, spooled,
  \* what the host was told, and what became of the call
  told, outcome

procVars == <<pc, dec, delivered>>
coreVars == <<post, stored, verdict, approval>>
fileVars == <<marker, halted, audit, spooled>>
hostVars == <<told, outcome>>
gateVars == <<procVars, coreVars, fileVars, hostVars>>

\* CONSTRAIN is logged and otherwise an ALLOW all along the cascade.
Verdicts == {"unknown", "allow", "block", "halt", "approval"}
Sources  == {"", "evaluate", "evaluate:fail-open", "approval:decided",
             "approval:undecided", "session-halt"}
\* guard: a failed guardrail validation; stops: it is to end the session.
Decision == [verdict : Verdicts, guard : BOOLEAN, source : Sources,
             failOpen : BOOLEAN, stops : BOOLEAN]
Applied  == {"", "deny", "ask", "block", "halt"}
NoDecision == [verdict |-> "unknown", guard |-> FALSE, source |-> "",
               failOpen |-> FALSE, stops |-> FALSE]
NoAnswer == [verdict |-> "unknown", guard |-> FALSE]
NoAudit  == [verdict |-> "unknown", failOpen |-> FALSE, applied |-> "none"]

PCs == {"idle", "evaluate", "mark", "fill", "hold", "claim", "apply", "latch",
        "audit", "observe", "done", "killed"}

(***************************************************************************)
(* Every variable has its type.                                            *)
(***************************************************************************)
TypeOK ==
  /\ pc \in [Call -> PCs]
  /\ dec \in [Call -> Decision]
  /\ delivered \in [Call -> BOOLEAN]
  /\ post \in [Call -> {"unmappable", "none", "sent", "stored", "over"}]
  /\ verdict \in [Call -> [verdict : Verdicts, guard : BOOLEAN]]
  /\ approval \in [Key -> {"none", "pending", "expired", "allow", "halt"}]
  /\ stored \subseteq Call
  /\ marker \in [Key -> {"none", "torn", "full"}]
  /\ halted \subseteq Session
  /\ audit \in [Call -> [verdict : Verdicts, failOpen : BOOLEAN,
                         applied : Applied \cup {"none"}]]
  /\ spooled \subseteq Call
  /\ told \in [Call -> Applied \cup {"none"}]
  /\ outcome \in [Call -> {"waiting", "proceeds", "refused"}]

GateInit ==
  /\ pc = [c \in Call |-> "idle"]
  /\ dec = [c \in Call |-> NoDecision]
  /\ delivered = [c \in Call |-> FALSE]
  /\ post \in [Call -> {"none", "unmappable"}]
  /\ verdict = [c \in Call |-> NoAnswer]
  /\ approval = [k \in Key |-> "none"]
  /\ stored = {}
  /\ marker = [k \in Key |-> "none"]
  /\ halted = {}
  /\ audit = [c \in Call |-> NoAudit]
  /\ spooled = {}
  /\ told = [c \in Call |-> "none"]
  /\ outcome = [c \in Call |-> "waiting"]

-----------------------------------------------------------------------------
(***************************************************************************)
(* Decisions                                                               *)
(***************************************************************************)

\* EvaluationFailOpen: no verdict was obtained.
FailOpenDecision == [NoDecision EXCEPT !.source = "evaluate:fail-open",
                                       !.failOpen = TRUE]

\* An answer without a verdict is no answer.
EvaluationDecision(a) ==
  IF a.verdict = "unknown"
  THEN FailOpenDecision
  ELSE [NoDecision EXCEPT !.verdict = a.verdict, !.guard = a.guard,
                          !.source = "evaluate"]

\* Mutant: an outage always proceeds.
ApplyFailurePolicyOpen(d) == d

\* Under fail-closed, no verdict is a refusal.
ApplyFailurePolicy(d) ==
  IF d.failOpen /\ FailClosed THEN [d EXCEPT !.verdict = "halt"] ELSE d

\* An approver's answer replaces the decision that filed the request.
ApprovalDecision(status) == [NoDecision EXCEPT !.verdict = status,
                                               !.source = "approval:decided"]

\* A request nobody answered in time is refused; the source says who refused.
ApprovalUndecided(d) == [d EXCEPT !.verdict = "halt",
                                  !.source = "approval:undecided"]

\* Mutant: any HALT ends the session.
StopsSessionAnyHalt(d) == d.verdict = "halt" /\ ~d.failOpen

\* A HALT of the core itself, and no other, ends the session.
StopsSession(d) == d.verdict = "halt" /\ d.source = "evaluate" /\ ~d.failOpen

MarkHalt(d) == IF StopsSession(d) THEN [d EXCEPT !.stops = TRUE] ELSE d

SessionHaltDecision == [NoDecision EXCEPT !.verdict = "halt", !.stops = TRUE,
                                          !.source = "session-halt"]

Asks(contract) ==
  CASE contract = "tool" -> "ask" [] contract = "prompt" -> "block"
    [] contract = "codex" -> "deny"

\* HALT, BLOCK, a failed guardrail, REQUIRE_APPROVAL: in this order.
MapVerdict(d, contract) ==
  CASE d.verdict = "halt"  -> "halt"
    [] d.verdict = "block" -> "deny"
    [] d.verdict \notin {"halt", "block"} /\ d.guard -> "deny"
    [] d.verdict = "approval" /\ ~d.guard -> Asks(contract)
    [] OTHER -> ""

\* Codex has no session stop and no prompt: what it does not know, it ignores.
Render(a, contract) ==
  CASE contract = "tool"   -> a
    [] contract = "prompt" -> IF a \in {"", "halt"} THEN a ELSE "block"
    [] contract = "codex"  -> IF a \in {"deny", "halt"} THEN "deny" ELSE ""

\* A HALT that does not end the session denies this one call.
ApplyDecision(d, contract) ==
  LET a == MapVerdict(d, contract)
  IN  Render(IF a = "halt" /\ ~d.stops THEN "deny" ELSE a, contract)

\* The payload has a session id, and the hook an identity: it maps to an event.
Mapped(c) == post[c] # "unmappable"

Latched(c) == ContractOf[c] # "codex" /\ SessionOf[c] \in halted

-----------------------------------------------------------------------------
(***************************************************************************)
(* The gate                                                                *)
(***************************************************************************)

\* A session the core halted stays halted: refused without asking again.
\* The attempt is spooled first, and the gate is not run.
ReplaySessionHalt(c) ==
  /\ pc[c] = "idle"
  /\ Latched(c)
  /\ spooled' = IF Mapped(c) THEN spooled \cup {c} ELSE spooled
  /\ dec' = [dec EXCEPT ![c] = SessionHaltDecision]
  /\ pc' = [pc EXCEPT ![c] = "apply"]
  /\ UNCHANGED <<delivered, coreVars, marker, halted, audit, hostVars>>

\* Escalate starts the goroutine that posts the event.
StartEvaluation(c) ==
  /\ pc[c] = "idle"
  /\ ~Latched(c)
  /\ Mapped(c)
  /\ post' = [post EXCEPT ![c] = "sent"]
  /\ pc' = [pc EXCEPT ![c] = "evaluate"]
  /\ UNCHANGED <<dec, delivered, stored, verdict, approval, fileVars, hostVars>>

\* What follows the evaluation: the failure policy, then the hold if the core
\* itself asks for an approval.
Obtain(c, d) ==
  LET e == ApplyFailurePolicy(d)
  IN  /\ dec' = [dec EXCEPT ![c] = e]
      /\ pc' = [pc EXCEPT ![c] = IF e.verdict = "approval" /\ e.source = "evaluate"
                                 THEN "mark" ELSE "apply"]

SkipEvaluation(c) ==
  /\ pc[c] = "idle"
  /\ ~Latched(c)
  /\ ~Mapped(c)
  /\ Obtain(c, FailOpenDecision)
  /\ UNCHANGED <<delivered, coreVars, fileVars, hostVars>>

EvaluationAnswered(c) ==
  /\ pc[c] = "evaluate"
  /\ post[c] = "over"
  /\ Obtain(c, IF delivered[c] THEN EvaluationDecision(verdict[c])
                              ELSE FailOpenDecision)
  /\ UNCHANGED <<delivered, coreVars, fileVars, hostVars>>

\* The evaluation budget runs out: the goroutine is abandoned, not stopped.
EvaluationAbandoned(c) ==
  /\ pc[c] = "evaluate"
  /\ Obtain(c, FailOpenDecision)
  /\ UNCHANGED <<delivered, coreVars, fileVars, hostVars>>

-----------------------------------------------------------------------------
(***************************************************************************)
(* awaitApproval                                                           *)
(***************************************************************************)

\* os.WriteFile: the marker is there, empty, before its content is.
RecordPendingApproval(c) ==
  /\ pc[c] = "mark"
  /\ \/ /\ marker' = [marker EXCEPT ![KeyOf[c]] = "torn"]
        /\ pc' = [pc EXCEPT ![c] = "fill"]
     \/ /\ pc' = [pc EXCEPT ![c] = "hold"]       \* it cannot be written
        /\ UNCHANGED marker
  /\ UNCHANGED <<dec, delivered, coreVars, halted, audit, spooled, hostVars>>

\* One that was removed meanwhile is written to all the same, and stays gone.
FillMarker(c) ==
  /\ pc[c] = "fill"
  /\ marker' = [marker EXCEPT ![KeyOf[c]] = IF @ = "none" THEN "none" ELSE "full"]
  /\ pc' = [pc EXCEPT ![c] = "hold"]
  /\ UNCHANGED <<dec, delivered, coreVars, halted, audit, spooled, hostVars>>

\* Mutant: an expired request counts as a decided one.
DecidedOrExpired(k) == approval[k] \in {"allow", "halt", "expired"}

Decided(k) == approval[k] \in {"allow", "halt"}

\* A poll that finds the answer.
PollDecided(c) ==
  /\ pc[c] = "hold"
  /\ Decided(KeyOf[c])
  /\ dec' = [dec EXCEPT ![c] = ApprovalDecision(approval[KeyOf[c]])]
  /\ pc' = [pc EXCEPT ![c] = "claim"]
  /\ UNCHANGED <<delivered, coreVars, fileVars, hostVars>>

\* Mutant: a gate that gives up takes its marker away.
HoldOverRemoves(c) ==
  /\ pc[c] = "hold"
  /\ dec' = [dec EXCEPT ![c] = ApprovalUndecided(@)]
  /\ marker' = [marker EXCEPT ![KeyOf[c]] = "none"]
  /\ pc' = [pc EXCEPT ![c] = "apply"]
  /\ UNCHANGED <<delivered, coreVars, halted, audit, spooled, hostVars>>

\* The hold ends without one: no budget or no client, the window is seen to be
\* closed, or the budget runs out between two polls, whatever the core has then.
HoldOver(c) ==
  /\ pc[c] = "hold"
  /\ dec' = [dec EXCEPT ![c] = ApprovalUndecided(@)]
  /\ pc' = [pc EXCEPT ![c] = "apply"]
  /\ UNCHANGED <<delivered, coreVars, fileVars, hostVars>>

\* ClaimPendingApproval; the gate does not look at whether it won.
ClaimOutcome(c) ==
  /\ pc[c] = "claim"
  /\ marker' = [marker EXCEPT ![KeyOf[c]] = "none"]
  /\ pc' = [pc EXCEPT ![c] = "apply"]
  /\ UNCHANGED <<dec, delivered, coreVars, halted, audit, spooled, hostVars>>

-----------------------------------------------------------------------------
(***************************************************************************)
(* The answer, and what follows it                                         *)
(***************************************************************************)

\* A write that fails tells the host nothing, which lets the call proceed.
Apply(c) ==
  /\ pc[c] = "apply"
  /\ LET d == MarkHalt(dec[c])
     IN  \E a \in {ApplyDecision(d, ContractOf[c]), "none"} :
           /\ dec' = [dec EXCEPT ![c] = d]
           /\ told' = [told EXCEPT ![c] = a]
           /\ pc' = [pc EXCEPT ![c] = IF a = "halt" /\ d.source # "session-halt"
                                      THEN "latch" ELSE "audit"]
  /\ UNCHANGED <<delivered, coreVars, fileVars, outcome>>

\* WriteSessionHalt, best effort.  A torn latch halts as a full one does.
WriteSessionHalt(c) ==
  /\ pc[c] = "latch"
  /\ halted' \in {halted, halted \cup {SessionOf[c]}}
  /\ pc' = [pc EXCEPT ![c] = "audit"]
  /\ UNCHANGED <<dec, delivered, coreVars, marker, audit, spooled, hostVars>>

RecordEnforcement(c) ==
  /\ pc[c] = "audit"
  /\ audit' = [audit EXCEPT ![c] =
                 [verdict |-> dec[c].verdict, failOpen |-> dec[c].failOpen,
                  applied |-> IF told[c] = "none" THEN "" ELSE told[c]]]
  /\ pc' = [pc EXCEPT ![c] = "observe"]
  /\ UNCHANGED <<dec, delivered, coreVars, marker, halted, spooled, hostVars>>

HostActsOn(c, a) ==
  outcome' = [outcome EXCEPT ![c] = IF a \in {"", "none"} THEN "proceeds"
                                                           ELSE "refused"]

\* Mutant: the observe copy is always spooled.
ObserveAlways(c) == Mapped(c)

\* The deferred SpoolObserve.
Observe(c) == Mapped(c) /\ ~delivered[c]

\* The hook process ends, and with it a goroutine that is still posting.
Finish(c) ==
  /\ pc[c] = "observe"
  /\ spooled' = IF Observe(c) THEN spooled \cup {c} ELSE spooled
  /\ pc' = [pc EXCEPT ![c] = "done"]
  /\ HostActsOn(c, told[c])
  /\ UNCHANGED <<dec, delivered, coreVars, marker, halted, audit, told>>

\* The host kills a hook at its timeout, and the call proceeds unless the host
\* honours what it was told by then.
HostKills(c) ==
  /\ pc[c] \notin {"idle", "done", "killed"}
  /\ pc' = [pc EXCEPT ![c] = "killed"]
  /\ HostActsOn(c, "") \/ HostActsOn(c, told[c])
  /\ UNCHANGED <<dec, delivered, coreVars, fileVars, told>>

-----------------------------------------------------------------------------
(***************************************************************************)
(* The post, and the core                                                  *)
(***************************************************************************)

\* What the core answers for operation k: it repeats a standing decision, asks
\* to wait for a pending one, and otherwise says what its policies say.
CoreAnswers(k) ==
  {[verdict |-> v, guard |-> g] :
     v \in IF approval[k] = "pending" THEN {"approval"}
           ELSE IF approval[k] = "allow" THEN {"allow"}
           ELSE IF approval[k] = "halt" THEN {"block", "halt"}
           ELSE Verdicts,
     g \in BOOLEAN}

\* The core stores the event and judges it; an approval is filed, or refiled.
CoreEvaluates(c) ==
  /\ post[c] = "sent"
  /\ post' = [post EXCEPT ![c] = "stored"]
  /\ \E a \in CoreAnswers(KeyOf[c]) :
       /\ verdict' = [verdict EXCEPT ![c] = a]
       /\ approval' = IF a.verdict = "approval"
                      THEN [approval EXCEPT ![KeyOf[c]] = "pending"]
                      ELSE approval
  /\ stored' = stored \cup {c}
  /\ UNCHANGED <<procVars, fileVars, hostVars>>

\* The answer arrives, and OnDelivered runs, as long as there is a process.
PostAnswered(c) ==
  /\ post[c] = "stored"
  /\ pc[c] \notin {"done", "killed"}
  /\ post' = [post EXCEPT ![c] = "over"]
  /\ delivered' = [delivered EXCEPT ![c] = TRUE]
  /\ UNCHANGED <<pc, dec, stored, verdict, approval, fileVars, hostVars>>

\* The post fails, before the core stores the event or after.
PostFails(c) ==
  /\ post[c] \in {"sent", "stored"}
  /\ post' = [post EXCEPT ![c] = "over"]
  /\ UNCHANGED <<stored, verdict, approval, procVars, fileVars, hostVars>>

\* An approver, human or not, decides; or the approval window closes first.
ApproverDecides(k) ==
  /\ approval[k] = "pending"
  /\ \E v \in {"allow", "halt"} : approval' = [approval EXCEPT ![k] = v]
  /\ UNCHANGED <<post, stored, verdict, procVars, fileVars, hostVars>>

WindowCloses(k) ==
  /\ approval[k] = "pending"
  /\ approval' = [approval EXCEPT ![k] = "expired"]
  /\ UNCHANGED <<post, stored, verdict, procVars, fileVars, hostVars>>

-----------------------------------------------------------------------------

GateStep(c) ==
  \/ ReplaySessionHalt(c) \/ StartEvaluation(c) \/ SkipEvaluation(c)
  \/ EvaluationAnswered(c) \/ EvaluationAbandoned(c)
  \/ RecordPendingApproval(c) \/ FillMarker(c) \/ PollDecided(c) \/ HoldOver(c)
  \/ ClaimOutcome(c) \/ Apply(c) \/ WriteSessionHalt(c) \/ RecordEnforcement(c)
  \/ Finish(c)

PostStep(c) == CoreEvaluates(c) \/ PostAnswered(c) \/ PostFails(c)

CoreStep(k) == ApproverDecides(k) \/ WindowCloses(k)

GateNext ==
  \/ \E c \in Call : GateStep(c) \/ PostStep(c) \/ HostKills(c)
  \/ \E k \in Key : CoreStep(k)

GateSpec == GateInit /\ [][GateNext]_gateVars

-----------------------------------------------------------------------------
(***************************************************************************)
(* Properties                                                              *)
(***************************************************************************)

\* The gate, and not a failed write or a kill, lets the call proceed.
LetsProceed(c) == told[c] = ""

(***************************************************************************)
(* The gate lets a call proceed only on an ALLOW the core gave for it, on  *)
(* an approval granted for its operation when the core asked for one, or,  *)
(* under the fail-open policy only, when it obtained no verdict.           *)
(***************************************************************************)
ProceedsOnAnswer ==
  \A c \in Call : LetsProceed(c) =>
    \/ delivered[c] /\ verdict[c] = [verdict |-> "allow", guard |-> FALSE]
    \/ delivered[c] /\ verdict[c].verdict = "approval" /\ approval[KeyOf[c]] = "allow"
    \/ dec[c].failOpen /\ ~FailClosed

(***************************************************************************)
(* Whatever the core answers, the developer is never asked to approve the  *)
(* request they filed.  (gate.go: "never the provider's own approval       *)
(* prompt".)                                                               *)
(***************************************************************************)
NeverAsks == \A c \in Call : told[c] # "ask" /\ audit[c].applied # "ask"

(***************************************************************************)
(* A session is halted by the core only: no outage under fail-closed, no   *)
(* unanswered request and no refusal by an approver latches it, and the    *)
(* host of a halted session was told so.                                   *)
(***************************************************************************)
LatchOnlyByCore ==
  \A s \in halted : \E c \in Call :
    /\ SessionOf[c] = s
    /\ delivered[c] /\ verdict[c].verdict = "halt"
    /\ told[c] = "halt"

(***************************************************************************)
(* The event of a call that ran its gate to the end is not lost, and it is *)
(* stored by the core and spooled as well only if the gate gave up on the  *)
(* evaluation or never got its answer.                                     *)
(***************************************************************************)
ObservedOnce ==
  \A c \in Call : Mapped(c) /\ pc[c] = "done" =>
    /\ c \in stored \cup spooled
    /\ c \in stored \cap spooled => dec[c].source = "evaluate:fail-open"
=============================================================================
