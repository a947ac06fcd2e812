------------------------------ MODULE Approver ------------------------------
(***************************************************************************)
(* The autonomous approver (cli/internal/approver, approveauto.go): a loop *)
(* that polls the organization's queue of approval requests and decides    *)
(* some of them, beside people who do the same (approve.go).  The backend  *)
(* applies a decision only to a request that is undecided and unexpired.   *)
(***************************************************************************)
EXTENDS Naturals, FiniteSets

CONSTANTS
  Ask,            \* approval requests
  Rules,          \* per request: the envelope's rule lists that match it,
                  \* among "deny", "approve" and "consult"
  SelfFiled,      \* requests this machine's own agent filed
  AllowSelf,      \* --allow-same-agent
  HasHost,        \* an agentic host is there to be consulted
  MaxPerHour,     \* the budget; 0 is unbounded
  Hour,           \* clock ticks in an hour
  MaxClock, MaxRuns,  \* bounds on ticks, and on runs of the loop
  NoAsk

ASSUME ApproverAssumption ==
  /\ Rules \in [Ask -> SUBSET {"deny", "approve", "consult"}]
  /\ SelfFiled \subseteq Ask /\ AllowSelf \in BOOLEAN /\ HasHost \in BOOLEAN
  /\ MaxPerHour \in Nat /\ Hour \in Nat \ {0}
  /\ MaxClock \in Nat /\ MaxRuns \in Nat
  /\ NoAsk \notin Ask

VARIABLES
  \* the backend: state of each request, who decided it and when
  status, decider, decidedAt,
  installed,      \* approver.json: [org, shadow], both FALSE if it is absent
  \* a run of the loop
  apc, shadow, listed, seen, window, cur, action, applied,
  evidence,       \* lines of the audit trail: [ask, applied]
  human,          \* the request a person has found in the list
  clock, runs,
  unsure,         \* requests whose decision was stored and its answer lost
  unwritten       \* requests decided by a run that wrote no line of it

backendVars == <<status, decider, decidedAt>>
runVars     == <<shadow, listed, seen, window, cur, action, applied>>
approverVars == <<backendVars, installed, apc, runVars, evidence, human, clock,
                  runs, unsure, unwritten>>

Acts == {"none", "approve", "reject"}

ApproverTypeOK ==
  /\ status \in [Ask -> {"unfiled", "pending", "approve", "reject", "expired"}]
  /\ decider \in [Ask -> {"nobody", "loop", "human"}]
  /\ decidedAt \in [Ask -> 0..MaxClock]
  /\ installed \in [org : BOOLEAN, shadow : BOOLEAN]
  /\ apc \in {"off", "poll", "work", "judge", "consult", "send", "append"}
  /\ shadow \in BOOLEAN /\ listed \subseteq Ask /\ seen \subseteq Ask
  /\ window \subseteq Ask \X (0..MaxClock)
  /\ cur \in Ask \cup {NoAsk} /\ action \in Acts /\ applied \in Acts
  /\ evidence \subseteq [ask : Ask, applied : Acts]
  /\ human \in Ask \cup {NoAsk}
  /\ clock \in 0..MaxClock /\ runs \in 0..MaxRuns
  /\ unsure \subseteq Ask /\ unwritten \subseteq Ask

ApproverInit ==
  /\ status = [q \in Ask |-> "unfiled"]
  /\ decider = [q \in Ask |-> "nobody"] /\ decidedAt = [q \in Ask |-> 0]
  /\ installed \in {[org |-> FALSE, shadow |-> FALSE],
                    [org |-> TRUE, shadow |-> TRUE], [org |-> TRUE, shadow |-> FALSE]}
  /\ apc = "off" /\ shadow = TRUE /\ listed = {} /\ seen = {} /\ window = {}
  /\ cur = NoAsk /\ action = "none" /\ applied = "none"
  /\ evidence = {} /\ human = NoAsk /\ clock = 0 /\ runs = 0
  /\ unsure = {} /\ unwritten = {}

-----------------------------------------------------------------------------
(* The backend and the clock. *)

FileRequest(q) ==
  /\ status[q] = "unfiled" /\ status' = [status EXCEPT ![q] = "pending"]
  /\ UNCHANGED <<decider, decidedAt, installed, apc, runVars, evidence, human,
                 clock, runs, unsure, unwritten>>

ExpireRequest(q) ==
  /\ status[q] = "pending" /\ status' = [status EXCEPT ![q] = "expired"]
  /\ UNCHANGED <<decider, decidedAt, installed, apc, runVars, evidence, human,
                 clock, runs, unsure, unwritten>>

Tick ==
  /\ clock < MaxClock /\ clock' = clock + 1
  /\ UNCHANGED <<backendVars, installed, apc, runVars, evidence, human, runs,
                 unsure, unwritten>>

\* The conditional update: whether it applies, and what it leaves.
Decidable(q) == status[q] = "pending"
DecideApproval(q, act, who) ==
  /\ status' = [status EXCEPT ![q] = act]
  /\ decider' = [decider EXCEPT ![q] = who]
  /\ decidedAt' = [decidedAt EXCEPT ![q] = clock]

-----------------------------------------------------------------------------
(* runApproveAuto and Loop. *)

\* Deciding takes --decide, or an install that says so.
InShadow(decide) == ~(decide \/ (installed.org /\ ~installed.shadow))

StartRun(decide) ==
  /\ apc = "off" /\ runs < MaxRuns
  /\ apc' = "poll" /\ runs' = runs + 1 /\ shadow' = InShadow(decide)
  /\ listed' = {} /\ seen' = {} /\ window' = {}
  /\ cur' = NoAsk /\ action' = "none" /\ applied' = "none"
  /\ UNCHANGED <<backendVars, installed, evidence, human, clock, unsure, unwritten>>

\* The list, or nothing when it cannot be read.
PollQueue ==
  /\ apc = "poll" /\ apc' = "work"
  /\ listed' \in {{q \in Ask : status[q] = "pending"}, {}}
  /\ UNCHANGED <<backendVars, installed, shadow, seen, window, cur, action,
                 applied, evidence, human, clock, runs, unsure, unwritten>>

Wanted == {q \in listed \ seen : status[q] # "expired"}

\* The pass is over: the next poll, or the end of a run with --once.
EndPass ==
  /\ apc = "work" /\ Wanted = {}
  /\ apc' \in {"poll", "off"} /\ listed' = {}
  /\ UNCHANGED <<backendVars, installed, shadow, seen, window, cur, action,
                 applied, evidence, human, clock, runs, unsure, unwritten>>

TakeRequest(q) ==
  /\ apc = "work" /\ q \in Wanted
  /\ apc' = "judge" /\ cur' = q /\ action' = "none" /\ applied' = "none"
  /\ UNCHANGED <<backendVars, installed, shadow, listed, seen, window, evidence,
                 human, clock, runs, unsure, unwritten>>

\* Deny beats approve beats consult; what nothing covers is for a person.
Classify(q) ==
  IF "deny" \in Rules[q] THEN "auto_deny"
  ELSE IF "approve" \in Rules[q] THEN "auto_approve"
  ELSE IF "consult" \in Rules[q] THEN "consult"
  ELSE "escalate"

\* The request is left for a person.
LeftAlone(q) ==
  \/ q \in SelfFiled /\ ~AllowSelf
  \/ Classify(q) = "escalate"
  \/ Classify(q) = "consult" /\ ~HasHost

JudgeRequest ==
  /\ apc = "judge"
  /\ apc' = CASE LeftAlone(cur) -> "append"
              [] Classify(cur) = "consult" /\ ~LeftAlone(cur) -> "consult"
              [] OTHER -> "send"
  /\ action' = CASE LeftAlone(cur) -> "none"
                 [] Classify(cur) = "auto_approve" /\ ~LeftAlone(cur) -> "approve"
                 [] Classify(cur) = "auto_deny" /\ ~LeftAlone(cur) -> "reject"
                 [] OTHER -> "none"
  /\ UNCHANGED <<backendVars, installed, shadow, listed, seen, window, cur,
                 applied, evidence, human, clock, runs, unsure, unwritten>>

\* Any answer but approve and deny, an error and a timeout included, escalates.
HostAnswers(says) ==
  /\ apc = "consult"
  /\ apc' = IF says = "escalate" THEN "append" ELSE "send"
  /\ action' = CASE says = "approve" -> "approve" [] says = "deny" -> "reject"
                 [] OTHER -> "none"
  /\ UNCHANGED <<backendVars, installed, shadow, listed, seen, window, cur,
                 applied, evidence, human, clock, runs, unsure, unwritten>>

\* prune: decisions of the last hour.
Recent(w) == {d \in w : d[2] + Hour > clock}
\* Mutant: one more than the budget.
OverBudgetLate == MaxPerHour > 0 /\ Cardinality(Recent(window)) > MaxPerHour
OverBudget == MaxPerHour > 0 /\ Cardinality(Recent(window)) >= MaxPerHour

Withhold ==
  /\ apc = "send" /\ (OverBudget \/ shadow)
  /\ apc' = "append" /\ window' = IF MaxPerHour > 0 THEN Recent(window) ELSE window
  /\ UNCHANGED <<backendVars, installed, shadow, listed, seen, cur, action,
                 applied, evidence, human, clock, runs, unsure, unwritten>>

\* Mutant: an answer is taken for a decision that was applied.
SendDecisionAssumed(answered) ==
  /\ apc = "send" /\ ~OverBudget /\ ~shadow
  /\ apc' = "append"
  /\ IF Decidable(cur) THEN DecideApproval(cur, action, "loop")
                       ELSE UNCHANGED backendVars
  /\ LET ok   == answered
         kept == IF MaxPerHour > 0 THEN Recent(window) ELSE window IN
     /\ applied' = IF ok THEN action ELSE "none"
     /\ window' = IF ok THEN kept \cup {<<cur, clock>>} ELSE kept
     /\ unsure' = IF Decidable(cur) /\ ~answered THEN unsure \cup {cur} ELSE unsure
  /\ unwritten' = IF Decidable(cur) THEN unwritten \cup {cur} ELSE unwritten
  /\ UNCHANGED <<installed, shadow, listed, seen, cur, action, evidence, human,
                 clock, runs>>

\* The PUT: applied and answered, applied and its answer lost, or refused.
SendDecision(answered) ==
  /\ apc = "send" /\ ~OverBudget /\ ~shadow
  /\ apc' = "append"
  /\ IF Decidable(cur) THEN DecideApproval(cur, action, "loop")
                       ELSE UNCHANGED backendVars
  /\ LET ok   == Decidable(cur) /\ answered
         kept == IF MaxPerHour > 0 THEN Recent(window) ELSE window IN
     /\ applied' = IF ok THEN action ELSE "none"
     /\ window' = IF ok THEN kept \cup {<<cur, clock>>} ELSE kept
     /\ unsure' = IF Decidable(cur) /\ ~answered THEN unsure \cup {cur} ELSE unsure
  /\ unwritten' = IF Decidable(cur) THEN unwritten \cup {cur} ELSE unwritten
  /\ UNCHANGED <<installed, shadow, listed, seen, cur, action, evidence, human,
                 clock, runs>>

\* The audit line; a write that fails is only logged.
AppendEvidence(written) ==
  /\ apc = "append" /\ apc' = "work"
  /\ seen' = seen \cup {cur}
  /\ evidence' = IF written THEN evidence \cup {[ask |-> cur, applied |-> applied]}
                 ELSE evidence
  /\ unwritten' = IF written THEN unwritten \ {cur} ELSE unwritten
  /\ cur' = NoAsk /\ action' = "none" /\ applied' = "none"
  /\ UNCHANGED <<backendVars, installed, shadow, listed, window, human, clock,
                 runs, unsure>>

\* The process is stopped: a request in hand is forgotten, and so is the budget.
KillRun ==
  /\ apc # "off" /\ apc' = "off"
  /\ listed' = {} /\ cur' = NoAsk /\ action' = "none" /\ applied' = "none"
  /\ UNCHANGED <<backendVars, installed, shadow, seen, window, evidence, human,
                 clock, runs, unsure, unwritten>>

-----------------------------------------------------------------------------
(* `openbox approve allow|deny`: find the request, then decide it. *)

HumanFinds(q) ==
  /\ human = NoAsk /\ status[q] = "pending" /\ human' = q
  /\ UNCHANGED <<backendVars, installed, apc, runVars, evidence, clock, runs,
                 unsure, unwritten>>

HumanDecides(act) ==
  /\ human # NoAsk /\ human' = NoAsk
  /\ IF Decidable(human) THEN DecideApproval(human, act, "human")
                         ELSE UNCHANGED backendVars
  /\ UNCHANGED <<installed, apc, runVars, evidence, clock, runs, unsure, unwritten>>

ApproverNext ==
  \/ \E q \in Ask : \/ FileRequest(q) \/ ExpireRequest(q) \/ TakeRequest(q)
                    \/ HumanFinds(q)
  \/ \E decide \in BOOLEAN : StartRun(decide)
  \/ Tick \/ PollQueue \/ EndPass \/ JudgeRequest \/ Withhold \/ KillRun
  \/ \E says \in {"approve", "deny", "escalate"} : HostAnswers(says)
  \/ \E ok \in BOOLEAN : SendDecision(ok) \/ AppendEvidence(ok)
  \/ \E act \in {"approve", "reject"} : HumanDecides(act)

ApproverSpec == ApproverInit /\ [][ApproverNext]_approverVars

-----------------------------------------------------------------------------
(***************************************************************************)
(* Properties                                                              *)
(***************************************************************************)

\* The loop decides at most MaxPerHour requests in any hour of a run, wherever the
\* hour begins and whatever the run has forgotten of its earlier decisions; those
\* whose answer was lost are not counted (approver.go: overBudget, prune).
BudgetKept ==
  MaxPerHour > 0 =>
    \A t \in 0..MaxClock :
      Cardinality({q \in seen \cup ({cur} \ {NoAsk}) :
                     /\ decider[q] = "loop" /\ q \notin unsure
                     /\ decidedAt[q] \in t..(t + Hour - 1)}) <= MaxPerHour

\* "Every decision is evidence" (envelope.go): what the loop decided has a line with
\* that decision, unless the run was stopped or could not write before it had one;
\* a line that claims a decision is true, and one that claims none is wrong only
\* when the answer was lost.
EvidenceTrue ==
  \A q \in Ask :
    /\ decider[q] = "loop" /\ q \notin unwritten \cup unsure =>
         [ask |-> q, applied |-> status[q]] \in evidence
    /\ \A act \in {"approve", "reject"} :
         [ask |-> q, applied |-> act] \in evidence =>
           decider[q] = "loop" /\ status[q] = act
=============================================================================
