----------------------------- MODULE SetupProofs -----------------------------
(***************************************************************************)
(* Proofs about the approver, the developer configuration, the credentials *)
(* and the installers, for any requests, rules and budget, any fields,     *)
(* commands and hooks, any agents and runs, any homes, events and settings *)
(* of earlier releases.                                                    *)
(***************************************************************************)
EXTENDS Approver, DevConfig, Credentials, LocalHooks, FiniteSetTheorems, TLAPS

-----------------------------------------------------------------------------
(***************************************************************************)
(* The approver.                                                           *)
(***************************************************************************)

Busy == {"judge", "consult", "send", "append"}

\* The request in hand is a listed one that is new to this run.
HandInv ==
  /\ cur \in Ask <=> apc \in Busy
  /\ apc \in Busy => cur \in listed \ seen
  /\ apc = "send" => action \in {"approve", "reject"}

\* Nobody but the loop, with the request in hand, decides for the loop; and what it
\* goes to write is what it did.
DecidedInv ==
  /\ \A q \in Ask : decider[q] # "nobody" <=> status[q] \in {"approve", "reject"}
  /\ \A q \in listed \ seen :
       decider[q] = "loop" => apc = "append" /\ q = cur
  /\ \A q \in unwritten \cup unsure : decider[q] = "loop"
  /\ applied # "none" =>
       apc = "append" /\ decider[cur] = "loop" /\ status[cur] = applied
  /\ apc = "append" /\ decider[cur] = "loop" /\ cur \notin unsure => applied = status[cur]

ApproverInv == ApproverTypeOK /\ HandInv /\ DecidedInv /\ EvidenceTrue

LEMMA ApproverInitInv == ApproverInit => ApproverInv
<1> SUFFICES ASSUME ApproverInit PROVE ApproverInv
  OBVIOUS
<1> USE ApproverAssumption DEF ApproverInit
<1>1. ApproverTypeOK
  <2>1. 0 \in 0..MaxClock /\ 0 \in 0..MaxRuns
    OBVIOUS
  <2>2. installed \in [org : BOOLEAN, shadow : BOOLEAN] /\ shadow \in BOOLEAN
    <3>1. \A a, b \in BOOLEAN : [org |-> a, shadow |-> b] \in [org : BOOLEAN, shadow : BOOLEAN]
      OBVIOUS
    <3>2. TRUE \in BOOLEAN /\ FALSE \in BOOLEAN
      OBVIOUS
    <3>3. \E a, b \in BOOLEAN : installed = [org |-> a, shadow |-> b]
      BY <3>2, Zenon
    <3>4. shadow \in BOOLEAN
      BY <3>2, Zenon
    <3> QED BY <3>1, <3>3, <3>4, Zenon
  <2>3. /\ status \in [Ask -> {"unfiled", "pending", "approve", "reject", "expired"}]
        /\ decider \in [Ask -> {"nobody", "loop", "human"}]
        /\ decidedAt \in [Ask -> 0..MaxClock]
    BY <2>1
  <2> QED BY <2>1, <2>2, <2>3 DEF ApproverTypeOK, Acts
<1>2. HandInv
  BY DEF HandInv, Busy
<1>3. DecidedInv /\ EvidenceTrue
  BY DEF DecidedInv, EvidenceTrue
<1> QED BY <1>1, <1>2, <1>3 DEF ApproverInv

\* The steps of the backend, the clock and a person.
LEMMA OthersStep ==
  ASSUME ApproverInv,
         \/ \E q \in Ask : FileRequest(q) \/ ExpireRequest(q) \/ HumanFinds(q)
         \/ Tick \/ \E act \in {"approve", "reject"} : HumanDecides(act)
  PROVE  ApproverInv'
<1> USE ApproverAssumption DEF ApproverInv
<1>1. ASSUME NEW q \in Ask, FileRequest(q) \/ ExpireRequest(q) PROVE ApproverInv'
  <2>1. PICK s \in {"pending", "expired"} : status' = [status EXCEPT ![q] = s]
    BY <1>1 DEF FileRequest, ExpireRequest
  <2>2. /\ status[q] \in {"unfiled", "pending"}
        /\ UNCHANGED <<decider, decidedAt, installed, apc, runVars, evidence, human,
                       clock, runs, unsure, unwritten>>
    BY <1>1 DEF FileRequest, ExpireRequest
  <2>3. ApproverTypeOK'
    BY <2>1, <2>2 DEF ApproverTypeOK, runVars
  <2>4. HandInv'
    BY <2>2 DEF HandInv, runVars
  <2>5. /\ decider[q] = "nobody" /\ status'[q] \notin {"approve", "reject"}
        /\ \A x \in Ask \ {q} : status'[x] = status[x]
    BY <2>1, <2>2 DEF ApproverTypeOK, DecidedInv
  <2>6. DecidedInv'
    BY <2>2, <2>5 DEF DecidedInv, HandInv, Busy, runVars
  <2>7. EvidenceTrue'
    BY <2>2, <2>5 DEF EvidenceTrue, DecidedInv
  <2> QED BY <2>3, <2>4, <2>6, <2>7
<1>2. ASSUME NEW q \in Ask, HumanFinds(q) PROVE ApproverInv'
  BY <1>2 DEF HumanFinds, ApproverTypeOK, HandInv, DecidedInv, EvidenceTrue, runVars,
     backendVars
<1>3. CASE Tick
  BY <1>3 DEF Tick, ApproverTypeOK, HandInv, DecidedInv, EvidenceTrue, runVars,
     backendVars
<1>4. ASSUME NEW act \in {"approve", "reject"}, HumanDecides(act) PROVE ApproverInv'
  <2>1. /\ human \in Ask /\ human' = NoAsk
        /\ UNCHANGED <<installed, apc, runVars, evidence, clock, runs, unsure, unwritten>>
    BY <1>4 DEF HumanDecides, ApproverTypeOK
  <2>2. CASE ~Decidable(human)
    BY <1>4, <2>1, <2>2 DEF HumanDecides, ApproverTypeOK, HandInv, DecidedInv,
       EvidenceTrue, runVars, backendVars
  <2>3. CASE Decidable(human)
    <3>1. /\ status[human] = "pending" /\ decider[human] = "nobody"
          /\ status' = [status EXCEPT ![human] = act]
          /\ decider' = [decider EXCEPT ![human] = "human"]
          /\ decidedAt' = [decidedAt EXCEPT ![human] = clock]
      BY <1>4, <2>1, <2>3 DEF HumanDecides, Decidable, DecideApproval, DecidedInv
    <3>2. ApproverTypeOK'
      BY <2>1, <3>1 DEF ApproverTypeOK, runVars
    <3>3. HandInv'
      BY <2>1 DEF HandInv, runVars
    <3>4. /\ status'[human] = act /\ decider'[human] = "human"
          /\ \A x \in Ask \ {human} : status'[x] = status[x] /\ decider'[x] = decider[x]
      BY <2>1, <3>1 DEF ApproverTypeOK
    <3>5. DecidedInv'
      <4>1. \A q \in Ask : decider'[q] # "nobody" <=> status'[q] \in {"approve", "reject"}
        BY <3>4 DEF DecidedInv
      <4>2. \A q \in Ask : decider'[q] = "loop" <=> decider[q] = "loop"
        BY <3>1, <3>4
      <4>3. cur # human => status'[cur] = status[cur]
        BY <2>1, <3>1 DEF ApproverTypeOK
      <4>4. apc = "append" => cur \in Ask
        BY DEF HandInv, Busy
      <4>5. /\ listed \subseteq Ask /\ seen \subseteq Ask /\ unwritten \subseteq Ask
            /\ unsure \subseteq Ask
        BY DEF ApproverTypeOK
      <4> QED BY <2>1, <3>1, <4>1, <4>2, <4>3, <4>4, <4>5 DEF DecidedInv, runVars
    <3>6. EvidenceTrue'
      <4>1. ASSUME NEW q \in Ask \ {human}
            PROVE  /\ decider'[q] = decider[q] /\ status'[q] = status[q]
                   /\ evidence' = evidence /\ unwritten' = unwritten /\ unsure' = unsure
        BY <2>1, <3>4
      <4>2. /\ decider'[human] # "loop"
            /\ \A a \in {"approve", "reject"} : [ask |-> human, applied |-> a] \notin evidence'
        BY <2>1, <3>1, <3>4 DEF EvidenceTrue
      <4> QED BY <4>1, <4>2 DEF EvidenceTrue
    <3> QED BY <3>2, <3>3, <3>5, <3>6
  <2> QED BY <2>2, <2>3
<1> QED BY <1>1, <1>2, <1>3, <1>4

\* A run starts, polls, ends a pass, takes a request or is stopped: nothing is decided.
LEMMA RunStep ==
  ASSUME ApproverInv,
         \/ \E decide \in BOOLEAN : StartRun(decide)
         \/ \E q \in Ask : TakeRequest(q)
         \/ PollQueue \/ EndPass \/ KillRun
  PROVE  ApproverInv'
<1> USE ApproverAssumption DEF ApproverInv
<1>1. /\ UNCHANGED <<backendVars, installed, evidence, human, clock, unsure, unwritten>>
      /\ applied' \in {applied, "none"} /\ action' \in {action, "none"}
      /\ seen' \in {seen, {}} /\ window' \in {window, {}}
  BY DEF StartRun, TakeRequest, PollQueue, EndPass, KillRun
<1>2. shadow' \in BOOLEAN /\ runs' \in 0..MaxRuns
  <2>1. ASSUME NEW decide \in BOOLEAN, StartRun(decide)
        PROVE  shadow' \in BOOLEAN /\ runs' \in 0..MaxRuns
    <3>1. shadow' \in BOOLEAN
      BY <2>1 DEF StartRun, InShadow
    <3>2. runs' \in 0..MaxRuns
      BY <2>1 DEF StartRun, ApproverTypeOK
    <3> QED BY <3>1, <3>2
  <2>2. CASE UNCHANGED <<shadow, runs>>
    BY <2>2 DEF ApproverTypeOK
  <2> QED BY <2>1, <2>2 DEF TakeRequest, PollQueue, EndPass, KillRun
<1>3. /\ apc' \in {"off", "poll", "work", "judge"} /\ listed' \subseteq Ask
      /\ cur' \in Ask \cup {NoAsk} /\ applied' = "none"
      /\ cur' \in Ask <=> apc' = "judge"
      /\ apc' = "judge" => cur' \in listed' \ seen'
  BY DEF StartRun, TakeRequest, Wanted, PollQueue, EndPass, KillRun, ApproverTypeOK,
     HandInv, Busy, DecidedInv
<1>4. ApproverTypeOK'
  BY <1>1, <1>2, <1>3 DEF ApproverTypeOK, backendVars, Acts
<1>5. HandInv'
  BY <1>3 DEF HandInv, Busy
<1>6. \A q \in listed' \ seen' : decider[q] # "loop"
  <2>1. CASE PollQueue
    BY <2>1 DEF PollQueue, DecidedInv
  <2>2. CASE listed' = {}
    BY <2>2
  <2>3. CASE \E q \in Ask : TakeRequest(q)
    BY <2>3 DEF TakeRequest, DecidedInv
  <2> QED BY <2>1, <2>2, <2>3 DEF StartRun, EndPass, KillRun
<1>7. DecidedInv'
  BY <1>1, <1>3, <1>6 DEF DecidedInv, backendVars
<1>8. EvidenceTrue'
  BY <1>1 DEF EvidenceTrue, backendVars
<1> QED BY <1>4, <1>5, <1>7, <1>8

\* The request in hand is judged, the host answers, or the budget holds it back.
LEMMA JudgeStep ==
  ASSUME ApproverInv,
         \/ JudgeRequest \/ Withhold
         \/ \E says \in {"approve", "deny", "escalate"} : HostAnswers(says)
  PROVE  ApproverInv'
<1> USE ApproverAssumption DEF ApproverInv
<1>1. /\ UNCHANGED <<backendVars, installed, shadow, listed, seen, cur, applied,
                     evidence, human, clock, runs, unsure, unwritten>>
      /\ window' \subseteq window
  BY DEF JudgeRequest, Withhold, HostAnswers, Recent
<1>2. apc \in {"judge", "consult", "send"} /\ apc' \in {"consult", "send", "append"}
  BY DEF JudgeRequest, Withhold, HostAnswers
<1>3. action' \in Acts /\ (apc' = "send" => action' \in {"approve", "reject"})
  <2>1. CASE JudgeRequest
    <3>1. CASE LeftAlone(cur)
      BY <2>1, <3>1 DEF JudgeRequest, Acts
    <3>2. CASE ~LeftAlone(cur)
      <4>1. Classify(cur) \in {"auto_deny", "auto_approve", "consult"}
        BY <3>2 DEF Classify, LeftAlone
      <4> QED BY <2>1, <3>2, <4>1 DEF JudgeRequest, Acts
    <3> QED BY <3>1, <3>2
  <2>2. CASE Withhold
    BY <2>2 DEF Withhold, ApproverTypeOK
  <2>3. ASSUME NEW says \in {"approve", "deny", "escalate"}, HostAnswers(says)
        PROVE  action' \in Acts /\ (apc' = "send" => action' \in {"approve", "reject"})
    BY <2>3 DEF HostAnswers, Acts
  <2> QED BY <2>1, <2>2, <2>3
<1>4. ApproverTypeOK'
  BY <1>1, <1>2, <1>3 DEF ApproverTypeOK, backendVars
<1>5. HandInv'
  BY <1>1, <1>2, <1>3 DEF HandInv, Busy
<1>6. cur \in listed \ seen /\ decider[cur] # "loop" /\ applied = "none"
  BY <1>2 DEF HandInv, DecidedInv, Busy
<1>7. DecidedInv'
  BY <1>1, <1>2, <1>6 DEF DecidedInv, backendVars
<1>8. EvidenceTrue'
  BY <1>1 DEF EvidenceTrue, backendVars
<1> QED BY <1>4, <1>5, <1>7, <1>8

LEMMA SendStep ==
  ASSUME ApproverInv, NEW answered \in BOOLEAN, SendDecision(answered)
  PROVE  ApproverInv'
<1> USE ApproverAssumption DEF ApproverInv
<1>1. /\ apc = "send" /\ apc' = "append" /\ cur \in Ask /\ cur \in listed \ seen
      /\ action \in {"approve", "reject"}
      /\ UNCHANGED <<installed, shadow, listed, seen, cur, action, evidence, human,
                     clock, runs>>
  BY DEF SendDecision, HandInv, Busy
<1>2. applied = "none" /\ decider[cur] # "loop" /\ cur \notin unwritten \cup unsure
  BY <1>1 DEF DecidedInv
<1>3. window' \subseteq Ask \X (0..MaxClock) /\ applied' \in Acts
  <2>1. window' \subseteq window \cup {<<cur, clock>>} /\ applied' \in {action, "none"}
    BY DEF SendDecision, Recent
  <2>2. <<cur, clock>> \in Ask \X (0..MaxClock)
    BY <1>1 DEF ApproverTypeOK
  <2>3. applied' \in Acts
    BY <1>1, <2>1 DEF Acts
  <2> QED BY <2>1, <2>2, <2>3 DEF ApproverTypeOK
<1>4. HandInv'
  BY <1>1 DEF HandInv, Busy
<1>5. CASE ~Decidable(cur)
  <2>1. /\ UNCHANGED <<status, decider, decidedAt, unsure, unwritten>>
        /\ applied' = "none"
    BY <1>5 DEF SendDecision, backendVars
  <2>2. ApproverTypeOK'
    BY <1>1, <1>3, <2>1 DEF ApproverTypeOK
  <2>3. DecidedInv'
    BY <1>1, <1>2, <2>1 DEF DecidedInv
  <2>4. EvidenceTrue'
    BY <1>1, <2>1 DEF EvidenceTrue
  <2> QED BY <1>4, <2>2, <2>3, <2>4
<1>6. CASE Decidable(cur)
  <2>1. /\ status' = [status EXCEPT ![cur] = action]
        /\ decider' = [decider EXCEPT ![cur] = "loop"]
        /\ decidedAt' = [decidedAt EXCEPT ![cur] = clock]
        /\ unwritten' = unwritten \cup {cur}
    BY <1>6 DEF SendDecision, DecideApproval
  <2>2. /\ unsure' = IF answered THEN unsure ELSE unsure \cup {cur}
        /\ applied' = IF answered THEN action ELSE "none"
    BY <1>6 DEF SendDecision
  <2>3. ApproverTypeOK'
    <3>1. /\ status' \in [Ask -> {"unfiled", "pending", "approve", "reject", "expired"}]
          /\ decider' \in [Ask -> {"nobody", "loop", "human"}]
          /\ decidedAt' \in [Ask -> 0..MaxClock]
      BY <1>1, <2>1 DEF ApproverTypeOK
    <3>2. unsure' \subseteq Ask /\ unwritten' \subseteq Ask
      BY <1>1, <2>1, <2>2 DEF ApproverTypeOK
    <3> QED BY <1>1, <1>3, <3>1, <3>2 DEF ApproverTypeOK
  <2>4. /\ status'[cur] = action /\ decider'[cur] = "loop"
        /\ \A x \in Ask \ {cur} : status'[x] = status[x] /\ decider'[x] = decider[x]
    BY <1>1, <2>1 DEF ApproverTypeOK
  <2>5. DecidedInv'
    <3>1. listed \subseteq Ask /\ unwritten \subseteq Ask /\ unsure \subseteq Ask
      BY DEF ApproverTypeOK
    <3>2. \A q \in Ask : decider'[q] # "nobody" <=> status'[q] \in {"approve", "reject"}
      BY <1>1, <2>4 DEF DecidedInv
    <3>3. \A q \in listed' \ seen' : decider'[q] = "loop" => q = cur
      BY <1>1, <2>4, <3>1 DEF DecidedInv
    <3>4. \A q \in unwritten' \cup unsure' : decider'[q] = "loop"
      BY <2>1, <2>2, <2>4, <3>1 DEF DecidedInv
    <3>5. /\ applied' # "none" => applied' = action
          /\ cur \notin unsure' => applied' = action
      BY <2>2
    <3> QED BY <1>1, <2>4, <3>2, <3>3, <3>4, <3>5 DEF DecidedInv
  <2>6. EvidenceTrue'
    <3>1. \A a \in {"approve", "reject"} : [ask |-> cur, applied |-> a] \notin evidence
      BY <1>1, <1>2 DEF EvidenceTrue
    <3>2. ASSUME NEW q \in Ask \ {cur}, decider[q] = "loop",
                 q \notin unwritten' \cup unsure'
          PROVE  [ask |-> q, applied |-> status[q]] \in evidence
      BY <2>1, <2>2, <3>2 DEF EvidenceTrue
    <3>3. ASSUME NEW q \in Ask, NEW a \in {"approve", "reject"},
                 [ask |-> q, applied |-> a] \in evidence
          PROVE  q # cur /\ decider[q] = "loop" /\ status[q] = a
      BY <3>1, <3>3 DEF EvidenceTrue
    <3>4. cur \in unwritten' /\ evidence' = evidence
      BY <1>1, <2>1
    <3> QED BY <2>4, <3>2, <3>3, <3>4 DEF EvidenceTrue
  <2> QED BY <1>4, <2>3, <2>5, <2>6
<1> QED BY <1>5, <1>6

LEMMA AppendStep ==
  ASSUME ApproverInv, NEW written \in BOOLEAN, AppendEvidence(written)
  PROVE  ApproverInv'
<1> USE ApproverAssumption DEF ApproverInv
<1> DEFINE line == [ask |-> cur, applied |-> applied]
<1>1. /\ apc = "append" /\ apc' = "work" /\ seen' = seen \cup {cur} /\ cur' = NoAsk
      /\ action' = "none" /\ applied' = "none" /\ cur \in Ask
      /\ UNCHANGED <<backendVars, installed, shadow, listed, window, human, clock, runs, unsure>>
  BY DEF AppendEvidence, HandInv, Busy
<1>2. /\ evidence' = IF written THEN evidence \cup {line} ELSE evidence
      /\ unwritten' = IF written THEN unwritten \ {cur} ELSE unwritten
  BY DEF AppendEvidence
<1>3. line \in [ask : Ask, applied : Acts]
  BY <1>1 DEF ApproverTypeOK
<1>4. ApproverTypeOK'
  <2>1. evidence' \subseteq [ask : Ask, applied : Acts]
    <3> HIDE DEF line
    <3> QED BY <1>2, <1>3 DEF ApproverTypeOK
  <2>2. unwritten' \subseteq Ask /\ seen' \subseteq Ask /\ cur' \in Ask \cup {NoAsk}
    BY <1>1, <1>2 DEF ApproverTypeOK
  <2> QED BY <1>1, <2>1, <2>2 DEF ApproverTypeOK, backendVars, Acts
<1>5. HandInv'
  BY <1>1 DEF HandInv, Busy
<1>6. DecidedInv'
  BY <1>1, <1>2 DEF DecidedInv, backendVars
<1>7. EvidenceTrue'
  <2>1. \A a \in {"approve", "reject"} :
          applied = a => decider[cur] = "loop" /\ status[cur] = a
    BY DEF DecidedInv
  <2>2. decider[cur] = "loop" /\ cur \notin unsure => applied = status[cur]
    BY <1>1 DEF DecidedInv
  <2>3. ASSUME NEW q \in Ask, NEW a \in {"approve", "reject"},
               [ask |-> q, applied |-> a] \in evidence'
        PROVE  decider[q] = "loop" /\ status[q] = a
    BY <1>2, <2>1, <2>3 DEF EvidenceTrue
  <2>4. ASSUME NEW q \in Ask, decider[q] = "loop", q \notin unwritten' \cup unsure
        PROVE  [ask |-> q, applied |-> status[q]] \in evidence'
    BY <1>2, <2>2, <2>4 DEF EvidenceTrue
  <2> QED BY <1>1, <2>3, <2>4 DEF EvidenceTrue, backendVars
<1> QED BY <1>4, <1>5, <1>6, <1>7

LEMMA ApproverNextInv == ApproverInv /\ [ApproverNext]_approverVars => ApproverInv'
<1>1. ApproverInv /\ UNCHANGED approverVars => ApproverInv'
  BY DEF approverVars, backendVars, runVars, ApproverInv, ApproverTypeOK, HandInv,
     DecidedInv, EvidenceTrue
<1> QED
  BY <1>1, OthersStep, RunStep, JudgeStep, SendStep, AppendStep DEF ApproverNext

\* Every variable of the approver keeps its type (approver.go, approveauto.go).
THEOREM ApproverTypeCorrect == ApproverSpec => []ApproverTypeOK
<1>1. ApproverInv => ApproverTypeOK
  BY DEF ApproverInv
<1> QED BY ApproverInitInv, ApproverNextInv, <1>1, PTL DEF ApproverSpec

\* For any requests, rules and people beside the loop: a line of the audit trail
\* tells the truth, and what the loop decided has its line (approver.go).
THEOREM EvidenceTrueHolds == ApproverSpec => []EvidenceTrue
<1>1. ApproverInv => EvidenceTrue
  BY DEF ApproverInv
<1> QED BY ApproverInitInv, ApproverNextInv, <1>1, PTL DEF ApproverSpec
-----------------------------------------------------------------------------
(***************************************************************************)
(* The budget.  The window forgets a decision an hour after it was made,   *)
(* the property does not: an hour that holds the clock is measured by the  *)
(* window, any other one is over, or empty.                                *)
(***************************************************************************)

Counted == {q \in seen \cup ({cur} \ {NoAsk}) : decider[q] = "loop" /\ q \notin unsure}

InHour(t) == {q \in Counted : decidedAt[q] \in t..(t + Hour - 1)}

\* What counts is in the window, or was decided more than an hour ago.
WindowInv ==
  /\ IsFiniteSet(window) /\ Cardinality(window) <= MaxPerHour
  /\ \A q \in Counted :
       /\ decidedAt[q] <= clock
       /\ <<q, decidedAt[q]>> \in window \/ decidedAt[q] + Hour <= clock

HoursInv == \A t \in 0..MaxClock : IsFiniteSet(InHour(t)) /\ Cardinality(InHour(t)) <= MaxPerHour

BudgetInv == MaxPerHour > 0 => WindowInv /\ HoursInv

LEMMA HoursShrink ==
  ASSUME MaxPerHour \in Nat, HoursInv,
         Counted' \subseteq Counted, \A q \in Counted' : decidedAt'[q] = decidedAt[q]
  PROVE  HoursInv'
<1> SUFFICES ASSUME NEW t \in 0..MaxClock
             PROVE  IsFiniteSet(InHour(t)') /\ Cardinality(InHour(t)') <= MaxPerHour
  BY DEF HoursInv
<1>1. InHour(t)' \in SUBSET InHour(t)
  BY DEF InHour
<1>2. IsFiniteSet(InHour(t)) /\ Cardinality(InHour(t)) <= MaxPerHour
  BY DEF HoursInv
<1>3. IsFiniteSet(InHour(t)') /\ Cardinality(InHour(t)') <= Cardinality(InHour(t))
  BY <1>1, <1>2, FS_Subset
<1>4. Cardinality(InHour(t)') \in Nat /\ Cardinality(InHour(t)) \in Nat
  BY <1>2, <1>3, FS_CardinalityType
<1> QED BY <1>2, <1>3, <1>4

\* No more of an hour counts than the window holds, if all of it is there.
LEMMA HourInWindow ==
  ASSUME NEW S, NEW W, NEW filed, IsFiniteSet(W), \A q \in S : <<q, filed[q]>> \in W
  PROVE  IsFiniteSet(S) /\ Cardinality(S) <= Cardinality(W)
<1> DEFINE f == [q \in S |-> <<q, filed[q]>>]
<1>1. f \in Injection(S, W)
  <2>1. f \in [S -> W]
    OBVIOUS
  <2>2. ASSUME NEW a \in S, NEW b \in S, f[a] = f[b] PROVE a = b
    BY <2>2
  <2> HIDE DEF f
  <2> QED BY <2>1, <2>2 DEF Injection, IsInjective
<1> HIDE DEF f
<1> QED BY <1>1, FS_Injection

LEMMA RecentFinite ==
  ASSUME IsFiniteSet(window), Cardinality(window) <= MaxPerHour, MaxPerHour \in Nat
  PROVE  /\ IsFiniteSet(Recent(window)) /\ Cardinality(Recent(window)) <= MaxPerHour
         /\ Cardinality(Recent(window)) \in Nat
<1>1. Recent(window) \in SUBSET window
  BY DEF Recent
<1>2. IsFiniteSet(Recent(window)) /\ Cardinality(Recent(window)) <= Cardinality(window)
  BY <1>1, FS_Subset
<1>3. Cardinality(Recent(window)) \in Nat /\ Cardinality(window) \in Nat
  BY <1>2, FS_CardinalityType
<1> QED BY <1>2, <1>3

\* Steps that add nothing to what counts.
LEMMA BudgetQuiet ==
  ASSUME ApproverTypeOK, ApproverTypeOK', BudgetInv, clock <= clock',
         window' \in {window, Recent(window)},
         Counted' \subseteq Counted, \A q \in Counted' : decidedAt'[q] = decidedAt[q]
  PROVE  BudgetInv'
<1> USE ApproverAssumption
<1> SUFFICES ASSUME MaxPerHour > 0 PROVE WindowInv' /\ HoursInv'
  BY DEF BudgetInv
<1>1. HoursInv'
  BY HoursShrink DEF BudgetInv
<1>2. IsFiniteSet(window') /\ Cardinality(window') <= MaxPerHour
  BY RecentFinite DEF BudgetInv, WindowInv
<1>3. ASSUME NEW q \in Counted'
      PROVE  /\ decidedAt'[q] <= clock'
             /\ <<q, decidedAt'[q]>> \in window' \/ decidedAt'[q] + Hour <= clock'
  <2>1. q \in Counted /\ decidedAt'[q] = decidedAt[q] /\ q \in Ask
    BY <1>3 DEF Counted, ApproverTypeOK
  <2>2. decidedAt[q] \in Nat /\ clock \in Nat /\ clock' \in Nat
    BY <2>1 DEF ApproverTypeOK
  <2>3. decidedAt[q] <= clock /\ (<<q, decidedAt[q]>> \in window \/ decidedAt[q] + Hour <= clock)
    BY <2>1 DEF BudgetInv, WindowInv
  <2>4. CASE decidedAt[q] + Hour <= clock
    BY <2>1, <2>2, <2>3, <2>4
  <2>5. CASE decidedAt[q] + Hour > clock
    <3>1. <<q, decidedAt[q]>> \in window
      BY <2>2, <2>3, <2>5
    <3>2. <<q, decidedAt[q]>> \in Recent(window)
      BY <2>5, <3>1 DEF Recent
    <3> QED BY <2>1, <2>2, <2>3, <3>1, <3>2
  <2> QED BY <2>2, <2>4, <2>5
<1> QED BY <1>1, <1>2, <1>3 DEF WindowInv

LEMMA BudgetInit == ApproverInit => BudgetInv
<1> SUFFICES ASSUME ApproverInit PROVE BudgetInv
  OBVIOUS
<1>1. Counted = {} /\ window = {}
  BY DEF ApproverInit, Counted
<1>2. \A t \in 0..MaxClock : InHour(t) = {}
  BY <1>1 DEF InHour
<1>3. IsFiniteSet({}) /\ Cardinality({}) = 0
  BY FS_EmptySet
<1> QED
  BY <1>1, <1>2, <1>3, ApproverAssumption DEF BudgetInv, WindowInv, HoursInv

LEMMA BudgetStart ==
  ASSUME ApproverInv, BudgetInv, NEW decide \in BOOLEAN, StartRun(decide)
  PROVE  BudgetInv'
<1>1. Counted' = {} /\ window' = {}
  BY DEF StartRun, Counted
<1>2. \A t \in 0..MaxClock : InHour(t)' = {}
  BY <1>1 DEF InHour
<1>3. IsFiniteSet({}) /\ Cardinality({}) = 0
  BY FS_EmptySet
<1>4. MaxPerHour \in Nat
  BY ApproverAssumption
<1>5. IsFiniteSet(window') /\ Cardinality(window') <= MaxPerHour
  BY <1>1, <1>3, <1>4
<1>6. WindowInv'
  BY <1>1, <1>5 DEF WindowInv
<1>7. ASSUME NEW t \in 0..MaxClock
      PROVE  IsFiniteSet(InHour(t)') /\ Cardinality(InHour(t)') <= MaxPerHour
  BY <1>2, <1>3, <1>4, <1>7
<1> QED BY <1>6, <1>7 DEF BudgetInv, HoursInv

LEMMA BudgetOthers ==
  ASSUME ApproverInv, ApproverInv', BudgetInv,
         \/ \E q \in Ask : FileRequest(q) \/ ExpireRequest(q) \/ HumanFinds(q) \/ TakeRequest(q)
         \/ Tick \/ \E act \in {"approve", "reject"} : HumanDecides(act)
         \/ PollQueue \/ EndPass \/ KillRun \/ JudgeRequest \/ Withhold
         \/ \E says \in {"approve", "deny", "escalate"} : HostAnswers(says)
         \/ \E written \in BOOLEAN : AppendEvidence(written)
         \/ UNCHANGED approverVars
  PROVE  BudgetInv'
<1> USE ApproverAssumption
<1>1. clock <= clock' /\ window' \in {window, Recent(window)}
  <2>1. clock \in Nat
    BY DEF ApproverInv, ApproverTypeOK
  <2>2. CASE Tick
    BY <2>1, <2>2 DEF Tick, runVars
  <2>3. CASE UNCHANGED clock
    <3>1. window' \in {window, Recent(window)}
      BY DEF FileRequest, ExpireRequest, HumanFinds, TakeRequest, Tick, HumanDecides,
         PollQueue, EndPass, KillRun, JudgeRequest, Withhold, HostAnswers, AppendEvidence,
         runVars, approverVars
    <3> QED BY <2>1, <2>3, <3>1
  <2>4. Tick \/ UNCHANGED clock
    BY DEF FileRequest, ExpireRequest, HumanFinds, TakeRequest, HumanDecides,
       PollQueue, EndPass, KillRun, JudgeRequest, Withhold, HostAnswers, AppendEvidence,
       approverVars
  <2> QED BY <2>2, <2>3, <2>4
<1>2. unsure' = unsure
  BY DEF FileRequest, ExpireRequest, HumanFinds, TakeRequest, Tick, HumanDecides,
     PollQueue, EndPass, KillRun, JudgeRequest, Withhold, HostAnswers, AppendEvidence,
     approverVars
<1>3. ASSUME NEW q \in Counted'
      PROVE  q \in Counted /\ decidedAt'[q] = decidedAt[q]
  <2>0. q \in Ask /\ decider'[q] = "loop" /\ q \notin unsure
    BY <1>2, <1>3 DEF Counted, ApproverInv, ApproverTypeOK
  <2>1. ASSUME NEW act \in {"approve", "reject"}, HumanDecides(act)
        PROVE  q \in Counted /\ decidedAt'[q] = decidedAt[q]
    <3>1. seen' = seen /\ cur' = cur
      BY <2>1 DEF HumanDecides, runVars
    <3>2. decider'[q] = decider[q] /\ decidedAt'[q] = decidedAt[q]
      BY <2>0, <2>1 DEF HumanDecides, DecideApproval, ApproverInv, ApproverTypeOK, backendVars
    <3> QED BY <1>2, <1>3, <3>1, <3>2 DEF Counted
  <2>2. CASE UNCHANGED <<decider, decidedAt>>
    <3>1. CASE UNCHANGED <<seen, cur>>
      BY <1>2, <1>3, <2>2, <3>1 DEF Counted
    <3>2. CASE \E x \in Ask : TakeRequest(x)
      <4>1. PICK x \in Ask : TakeRequest(x)
        BY <3>2
      <4>2. x \in listed \ seen /\ decider[x] # "loop" /\ seen' = seen /\ cur' = x
        BY <4>1 DEF TakeRequest, Wanted, ApproverInv, DecidedInv
      <4> QED BY <1>2, <1>3, <2>0, <2>2, <4>2 DEF Counted
    <3>3. CASE KillRun
      BY <1>2, <1>3, <2>2, <3>3 DEF KillRun, Counted
    <3>4. CASE \E written \in BOOLEAN : AppendEvidence(written)
      <4>1. seen' = seen \cup {cur} /\ cur' = NoAsk /\ cur \in Ask
        BY <3>4 DEF AppendEvidence, ApproverInv, HandInv, Busy
      <4> QED BY <1>2, <1>3, <2>2, <4>1 DEF Counted
    <3> QED
      BY <3>1, <3>2, <3>3, <3>4 DEF FileRequest, ExpireRequest, HumanFinds, Tick,
         HumanDecides, PollQueue, EndPass, JudgeRequest, Withhold, HostAnswers, runVars,
         approverVars
  <2> QED
    BY <2>1, <2>2 DEF FileRequest, ExpireRequest, HumanFinds, TakeRequest, Tick,
       PollQueue, EndPass, KillRun, JudgeRequest, Withhold, HostAnswers, AppendEvidence,
       backendVars, approverVars
<1> QED BY <1>1, <1>3, BudgetQuiet DEF ApproverInv

LEMMA BudgetSend ==
  ASSUME ApproverInv, ApproverInv', BudgetInv, NEW answered \in BOOLEAN,
         SendDecision(answered)
  PROVE  BudgetInv'
<1> USE ApproverAssumption
<1> DEFINE kept == IF MaxPerHour > 0 THEN Recent(window) ELSE window
<1>1. /\ apc = "send" /\ cur \in Ask /\ cur \in listed \ seen /\ decider[cur] # "loop"
      /\ UNCHANGED <<seen, cur, clock>>
  BY DEF SendDecision, HandInv, Busy, ApproverInv, DecidedInv
<1>2. clock \in Nat /\ clock \in 0..MaxClock
  BY DEF ApproverInv, ApproverTypeOK
<1>3. CASE ~(Decidable(cur) /\ answered)
  <2>1. window' \in {window, Recent(window)}
    BY <1>3 DEF SendDecision
  <2>2. ASSUME NEW q \in Counted' PROVE q \in Counted /\ decidedAt'[q] = decidedAt[q]
    <3>1. CASE ~Decidable(cur)
      BY <1>1, <2>2, <3>1 DEF SendDecision, Counted, backendVars
    <3>2. CASE Decidable(cur) /\ ~answered
      <4>1. unsure' = unsure \cup {cur}
        BY <3>2 DEF SendDecision
      <4>2. q # cur /\ q \in seen /\ q \in Ask /\ q \notin unsure
        BY <1>1, <2>2, <4>1 DEF Counted, ApproverInv, ApproverTypeOK
      <4>3. decider'[q] = decider[q] /\ decidedAt'[q] = decidedAt[q]
        BY <3>2, <4>2 DEF SendDecision, DecideApproval, ApproverInv, ApproverTypeOK
      <4> QED BY <2>2, <4>2, <4>3 DEF Counted
    <3> QED BY <1>3, <3>1, <3>2
  <2> QED BY <1>1, <1>2, <2>1, <2>2, BudgetQuiet DEF ApproverInv
<1>4. CASE Decidable(cur) /\ answered
  <2> SUFFICES ASSUME MaxPerHour > 0 PROVE WindowInv' /\ HoursInv'
    BY DEF BudgetInv
  <2>1. /\ window' = Recent(window) \cup {<<cur, clock>>} /\ unsure' = unsure
        /\ decider' = [decider EXCEPT ![cur] = "loop"]
        /\ decidedAt' = [decidedAt EXCEPT ![cur] = clock]
    BY <1>4 DEF SendDecision, DecideApproval
  <2>2. IsFiniteSet(window') /\ Cardinality(window') <= MaxPerHour /\ Cardinality(window') \in Nat
    <3>1. IsFiniteSet(Recent(window)) /\ Cardinality(Recent(window)) \in Nat
      BY RecentFinite DEF BudgetInv, WindowInv
    <3>2. Cardinality(Recent(window)) < MaxPerHour
      BY <3>1 DEF SendDecision, OverBudget
    <3>3. /\ IsFiniteSet(window')
          /\ Cardinality(window') \in {Cardinality(Recent(window)), Cardinality(Recent(window)) + 1}
      BY <2>1, <3>1, FS_AddElement
    <3> QED BY <3>1, <3>2, <3>3
  <2>3. decidedAt'[cur] = clock /\ decider'[cur] = "loop"
    BY <1>1, <2>1 DEF ApproverInv, ApproverTypeOK
  <2>4. ASSUME NEW q \in Counted', q # cur
        PROVE  q \in Counted /\ q \in Ask /\ decidedAt'[q] = decidedAt[q] /\ decidedAt[q] \in Nat
    <3>1. q \in seen /\ q \in Ask
      BY <1>1, <2>4 DEF Counted, ApproverInv, ApproverTypeOK
    <3>2. decider'[q] = decider[q] /\ decidedAt'[q] = decidedAt[q]
      BY <2>1, <2>4, <3>1 DEF ApproverInv, ApproverTypeOK
    <3>3. decidedAt[q] \in Nat
      BY <3>1 DEF ApproverInv, ApproverTypeOK
    <3> QED BY <2>1, <2>4, <3>1, <3>2, <3>3 DEF Counted
  <2>5. ASSUME NEW q \in Counted'
        PROVE  /\ decidedAt'[q] \in Nat /\ decidedAt'[q] <= clock
               /\ <<q, decidedAt'[q]>> \in window' \/ decidedAt'[q] + Hour <= clock
    <3>1. CASE q = cur
      BY <1>2, <2>1, <2>3, <3>1
    <3>2. CASE q # cur
      <4>1. /\ decidedAt[q] <= clock
            /\ <<q, decidedAt[q]>> \in window \/ decidedAt[q] + Hour <= clock
        BY <2>4, <3>2 DEF BudgetInv, WindowInv
      <4>2. CASE decidedAt[q] + Hour > clock
        <5>1. <<q, decidedAt[q]>> \in window
          BY <1>2, <2>4, <3>2, <4>1, <4>2
        <5>2. <<q, decidedAt[q]>> \in Recent(window)
          BY <4>2, <5>1 DEF Recent
        <5> QED BY <2>1, <2>4, <3>2, <4>1, <5>2
      <4>3. CASE ~(decidedAt[q] + Hour > clock)
        BY <1>2, <2>4, <3>2, <4>1, <4>3
      <4> QED BY <4>2, <4>3
    <3> QED BY <3>1, <3>2
  <2>6. WindowInv'
    BY <1>1, <2>2, <2>5 DEF WindowInv
  <2>7. ASSUME NEW t \in 0..MaxClock
        PROVE  IsFiniteSet(InHour(t)') /\ Cardinality(InHour(t)') <= MaxPerHour
    <3>1. CASE clock \in t..(t + Hour - 1)
      <4>1. ASSUME NEW q \in InHour(t)' PROVE <<q, decidedAt'[q]>> \in window'
        <5>1. q \in Counted' /\ t <= decidedAt'[q]
          BY <4>1 DEF InHour
        <5> QED BY <1>2, <2>5, <3>1, <5>1
      <4>2. IsFiniteSet(InHour(t)') /\ Cardinality(InHour(t)') <= Cardinality(window')
        BY <2>2, <4>1, HourInWindow
      <4>3. Cardinality(InHour(t)') \in Nat
        BY <4>2, FS_CardinalityType
      <4> QED BY <2>2, <4>2, <4>3
    <3>2. CASE clock \notin t..(t + Hour - 1)
      <4>1. InHour(t)' \in SUBSET InHour(t)
        BY <2>3, <2>4, <3>2 DEF InHour
      <4>2. IsFiniteSet(InHour(t)) /\ Cardinality(InHour(t)) <= MaxPerHour
        BY DEF BudgetInv, HoursInv
      <4>3. IsFiniteSet(InHour(t)') /\ Cardinality(InHour(t)') <= Cardinality(InHour(t))
        BY <4>1, <4>2, FS_Subset
      <4>4. Cardinality(InHour(t)') \in Nat /\ Cardinality(InHour(t)) \in Nat
        BY <4>2, <4>3, FS_CardinalityType
      <4> QED BY <4>2, <4>3, <4>4
    <3> QED BY <3>1, <3>2
  <2> QED BY <2>6, <2>7 DEF HoursInv
<1> QED BY <1>3, <1>4

LEMMA BudgetNext ==
  ApproverInv /\ BudgetInv /\ [ApproverNext]_approverVars => BudgetInv'
<1> SUFFICES ASSUME ApproverInv, BudgetInv, [ApproverNext]_approverVars PROVE BudgetInv'
  OBVIOUS
<1>1. ApproverInv'
  BY ApproverNextInv
<1> QED BY <1>1, BudgetStart, BudgetOthers, BudgetSend DEF ApproverNext

\* For any budget, requests and runs, kills and lost answers: no hour of a run, wherever
\* it begins, holds more decisions of the loop than the budget (approver.go).
THEOREM BudgetKeptHolds == ApproverSpec => []BudgetKept
<1>1. BudgetInv => BudgetKept
  <2> SUFFICES ASSUME BudgetInv, MaxPerHour > 0, NEW t \in 0..MaxClock
               PROVE  Cardinality({q \in seen \cup ({cur} \ {NoAsk}) :
                        /\ decider[q] = "loop" /\ q \notin unsure
                        /\ decidedAt[q] \in t..(t + Hour - 1)}) <= MaxPerHour
    BY DEF BudgetKept
  <2>1. {q \in seen \cup ({cur} \ {NoAsk}) :
                        /\ decider[q] = "loop" /\ q \notin unsure
                        /\ decidedAt[q] \in t..(t + Hour - 1)} = InHour(t)
    BY DEF InHour, Counted
  <2>2. Cardinality(InHour(t)) <= MaxPerHour
    BY DEF BudgetInv, HoursInv
  <2> QED BY <2>1, <2>2
<1> QED BY ApproverInitInv, ApproverNextInv, BudgetInit, BudgetNext, <1>1, PTL DEF ApproverSpec
-----------------------------------------------------------------------------
(***************************************************************************)
(* The configuration.                                                      *)
(***************************************************************************)

\* A hook that has not started has read nothing, and reads in the order of the code.
ViewInv ==
  \A h \in Hook :
    /\ hpc[h] = "off" => mfile[h] = None /\ ufile[h] = None
    /\ mfile[h] = None => mkeys[h] = None
    /\ mkeys[h] = None => ufile[h] = None
    /\ ufile[h] = None => ukeys[h] = None
    /\ ukeys[h] = None => \A f \in Field : posture[h][f] = None

KeysOf(m) == IF m \in {Absent, Torn} THEN {} ELSE Keys(m.set)

\* What a hook has read of the managed file, while nobody has replaced it.
ManagedInv ==
  \A h \in Hook \ pushed :
    mfile[h] \in {None, managed} /\ mkeys[h] \in {None, KeysOf(managed)}

ConfigInv == ConfigTypeOK /\ ViewInv /\ ManagedInv /\ MandateHolds

LEMMA SettingsFacts ==
  /\ NoSettings \in Settings
  /\ \A s \in Settings : Keys(s) \subseteq Field /\ Offs(s) \subseteq Field
  /\ \A f \in Field : NoSettings[f] = "unset"
  /\ \A s \in Settings, f \in Field : s[f] \in Setting
  /\ \A s, u \in Settings : Overlay(s, u) \in Settings
BY DEF NoSettings, Settings, Setting, Keys, Offs, Overlay

LEMMA MarksFacts ==
  /\ Absent # Torn /\ None # Absent /\ None # Torn
  /\ \A x \in {Absent, Torn, None} :
       /\ x \notin Settings /\ x \notin [set : Settings, locked : SUBSET Field]
       /\ x \notin Setting /\ \A s \in SUBSET Field : s # x
BY ConfigAssumption DEF Setting

LEMMA ConfigInitInv == ConfigInit => ConfigInv
<1> SUFFICES ASSUME ConfigInit PROVE ConfigInv
  OBVIOUS
<1>1. ConfigTypeOK
  <2>1. /\ legacy \in Settings \cup {Absent}
        /\ user \in Settings \cup {Absent, Torn} /\ managed \in ManagedFile
    BY ConfigAssumption DEF ManagedFile, ConfigInit
  <2>2. /\ cpc \in [Command -> {"idle", "migrate", "copy", "fillcopy", "load",
                                "truncate", "fill"}]
        /\ held \in [Command -> Settings] /\ supplied \in [Command -> Settings]
        /\ env \in [Hook -> Settings]
    BY SettingsFacts DEF ConfigInit
  <2>3. /\ hpc \in [Hook -> {"off", "pinned", "client"}]
        /\ mfile \in [Hook -> ManagedFile \cup {None}]
        /\ mkeys \in [Hook -> (SUBSET Field) \cup {None}]
        /\ path \in [Hook -> {"home", "legacy"}]
        /\ ufile \in [Hook -> Settings \cup {Torn, None}]
        /\ ukeys \in [Hook -> (SUBSET Field) \cup {None}]
        /\ posture \in [Hook -> [Field -> {"on", "off", None}]]
        /\ egress \in [Hook -> {"on", "off", None}]
    <3>1. /\ hpc = [h \in Hook |-> "off"] /\ path = [h \in Hook |-> "home"]
          /\ mfile = [h \in Hook |-> None] /\ mkeys = [h \in Hook |-> None]
          /\ ufile = [h \in Hook |-> None] /\ ukeys = [h \in Hook |-> None]
          /\ posture = [h \in Hook |-> [f \in Field |-> None]]
          /\ egress = [h \in Hook |-> None]
      BY DEF ConfigInit
    <3>2. /\ hpc \in [Hook -> {"off", "pinned", "client"}]
          /\ path \in [Hook -> {"home", "legacy"}]
          /\ egress \in [Hook -> {"on", "off", None}]
      BY <3>1
    <3>3. \A S : /\ mfile \in [Hook -> S \cup {None}] /\ mkeys \in [Hook -> S \cup {None}]
                 /\ ufile \in [Hook -> S \cup {Torn, None}]
                 /\ ukeys \in [Hook -> S \cup {None}]
      BY <3>1
    <3>6. /\ mfile \in [Hook -> ManagedFile \cup {None}]
          /\ mkeys \in [Hook -> (SUBSET Field) \cup {None}]
          /\ ufile \in [Hook -> Settings \cup {Torn, None}]
          /\ ukeys \in [Hook -> (SUBSET Field) \cup {None}]
      BY <3>3, Zenon
    <3>4. [f \in Field |-> None] \in [Field -> {"on", "off", None}]
      OBVIOUS
    <3>5. posture \in [Hook -> [Field -> {"on", "off", None}]]
      BY <3>1, <3>4, Zenon
    <3> QED BY <3>2, <3>5, <3>6
  <2>4. choice \in Settings
    BY SettingsFacts, ConfigAssumption DEF ConfigInit
  <2>5. wasOff \subseteq Field
    BY DEF Offs, ConfigInit
  <2>6. edits \in 0..MaxEdits
    BY ConfigAssumption DEF ConfigInit
  <2>7. disturbed \in BOOLEAN /\ pushed \subseteq Hook /\ apart \subseteq Hook
    BY DEF ConfigInit
  <2> QED BY <2>1, <2>2, <2>3, <2>4, <2>5, <2>6, <2>7 DEF ConfigTypeOK
<1>2. ViewInv /\ ManagedInv
  BY MarksFacts DEF ViewInv, ManagedInv, ConfigInit
<1>3. MandateHolds
  <2>1. \A h \in Hook, f \in Field : posture[h][f] = None
    BY DEF ConfigInit
  <2> QED BY <2>1 DEF MandateHolds, Keys
<1> QED BY <1>1, <1>2, <1>3 DEF ConfigInv

LEMMA ContentType ==
  ASSUME ConfigTypeOK, NEW p
  PROVE  Content(p) \in Settings \cup {Absent, Torn}
BY DEF ConfigTypeOK, Content

LEMMA ManagedType ==
  ASSUME ConfigTypeOK
  PROVE  /\ managed \notin {Absent, Torn} =>
              managed.set \in Settings /\ managed.locked \subseteq Field
         /\ KeysOf(managed) \subseteq Field
<1>1. managed \notin {Absent, Torn} => managed.set \in Settings /\ managed.locked \subseteq Field
  BY DEF ConfigTypeOK, ManagedFile
<1> QED BY <1>1, SettingsFacts DEF KeysOf

LEMMA FilledType ==
  ASSUME NEW s \in Settings PROVE Filled(s) \subseteq Settings \cup {Torn}
BY DEF Filled

\* Commands: only dev.json and what they hold change.
LEMMA CommandStep ==
  ASSUME ConfigInv, NEW c \in Command,
         \/ \E u \in Updates : StartCommand(c, u)
         \/ MigrateLegacyConfig(c) \/ Truncate(c) \/ FillCopy(c)
         \/ LoadPrior(c) \/ WriteConfig(c) \/ KillCommand(c)
  PROVE  ConfigInv' /\ UNCHANGED <<legacy, managed, hookVars, pushed, apart>>
<1> USE DEF ConfigInv
<1>1. UNCHANGED <<legacy, managed, hookVars, pushed, apart>>
  <2>1. CASE \E u \in Updates : StartCommand(c, u)
    BY <2>1 DEF StartCommand, configFileVars
  <2>2. CASE MigrateLegacyConfig(c) \/ LoadPrior(c) \/ KillCommand(c)
    BY <2>2 DEF MigrateLegacyConfig, LoadPrior, KillCommand, configFileVars, ghostVars
  <2>3. CASE Truncate(c) \/ FillCopy(c) \/ WriteConfig(c)
    BY <2>3 DEF Truncate, FillCopy, WriteConfig, ghostVars
  <2> QED BY <2>1, <2>2, <2>3
<1>2. cpc' \in [Command -> {"idle", "migrate", "copy", "fillcopy", "load", "truncate", "fill"}]
  BY DEF StartCommand, MigrateLegacyConfig, Truncate, FillCopy, LoadPrior, WriteConfig,
     KillCommand, To, ConfigTypeOK
<1>3. held' \in [Command -> Settings]
  <2>1. CASE held' = held
    BY <2>1 DEF ConfigTypeOK
  <2>2. ASSUME NEW s \in Settings, held' = [held EXCEPT ![c] = s]
        PROVE  held' \in [Command -> Settings]
    BY <2>2 DEF ConfigTypeOK
  <2>3. held' = held \/ \E s \in Settings : held' = [held EXCEPT ![c] = s]
    BY SettingsFacts DEF StartCommand, MigrateLegacyConfig, Truncate, FillCopy, LoadPrior,
       WriteConfig, KillCommand, ConfigTypeOK
  <2> QED BY <2>1, <2>2, <2>3
<1>4. supplied' \in [Command -> Settings]
  <2>1. CASE supplied' = supplied
    BY <2>1 DEF ConfigTypeOK
  <2>2. ASSUME NEW s \in Settings, supplied' = [supplied EXCEPT ![c] = s]
        PROVE  supplied' \in [Command -> Settings]
    BY <2>2 DEF ConfigTypeOK
  <2>3. supplied' = supplied \/ \E s \in Settings : supplied' = [supplied EXCEPT ![c] = s]
    BY SettingsFacts, ConfigAssumption
       DEF StartCommand, MigrateLegacyConfig, Truncate, FillCopy, LoadPrior,
       WriteConfig, KillCommand
  <2> QED BY <2>1, <2>2, <2>3
<1>5. user' \in Settings \cup {Absent, Torn}
  <2>1. CASE FillCopy(c)
    BY <2>1, FilledType DEF FillCopy, ConfigTypeOK
  <2>2. CASE WriteConfig(c)
    <3>1. Overlay(held[c], supplied[c]) \in Settings
      BY SettingsFacts DEF ConfigTypeOK
    <3> QED BY <2>2, <3>1, FilledType DEF WriteConfig
  <2>3. CASE user' \in {user, Torn}
    BY <2>3 DEF ConfigTypeOK
  <2> QED
    BY <2>1, <2>2, <2>3 DEF StartCommand, MigrateLegacyConfig, Truncate, LoadPrior,
       KillCommand, configFileVars
<1>6. choice' \in Settings /\ wasOff' \subseteq Field
  <2>1. CASE WriteConfig(c)
    <3>1. supplied[c] \in Settings
      BY DEF ConfigTypeOK
    <3> QED BY <2>1, <3>1 DEF WriteConfig, ConfigTypeOK, Settings, Offs
  <2>2. CASE UNCHANGED <<choice, wasOff>>
    BY <2>2 DEF ConfigTypeOK
  <2> QED
    BY <2>1, <2>2 DEF StartCommand, MigrateLegacyConfig, Truncate, FillCopy, LoadPrior,
       KillCommand, ghostVars
<1>7. edits' \in 0..MaxEdits
  BY ConfigAssumption DEF StartCommand, MigrateLegacyConfig, Truncate, FillCopy, LoadPrior, WriteConfig,
     KillCommand, Bounded, ConfigTypeOK, ghostVars
<1>8. disturbed' \in BOOLEAN
  <2>1. disturbed' \in {disturbed, TRUE, disturbed \/ Writing}
    BY DEF StartCommand, MigrateLegacyConfig, Truncate, FillCopy, LoadPrior, WriteConfig,
       KillCommand, ghostVars
  <2>2. disturbed \in BOOLEAN
    BY DEF ConfigTypeOK
  <2> QED BY <2>1, <2>2 DEF Writing
<1>9. ConfigTypeOK'
  BY <1>1, <1>2, <1>3, <1>4, <1>5, <1>6, <1>7, <1>8
     DEF ConfigTypeOK, hookVars, viewVars
<1>10. (ViewInv /\ ManagedInv /\ MandateHolds)'
  BY <1>1 DEF ViewInv, ManagedInv, MandateHolds, hookVars, viewVars, KeysOf
<1> QED BY <1>1, <1>9, <1>10

LEMMA EditStep ==
  ASSUME ConfigInv, NEW s \in Edits, EditByHand(s)
  PROVE  ConfigInv'
<1> USE DEF ConfigInv
<1>1. /\ UNCHANGED <<legacy, managed, cmdVars, hookVars, pushed, apart>>
      /\ user' = s /\ choice' = s /\ s \in Settings
      /\ wasOff' \subseteq Field /\ edits' \in 0..MaxEdits
  BY ConfigAssumption DEF EditByHand, Bounded, ConfigTypeOK, Offs
<1>2. disturbed' \in BOOLEAN
  BY DEF EditByHand, ConfigTypeOK, Writing
<1>3. ConfigTypeOK'
  BY <1>1, <1>2 DEF ConfigTypeOK, cmdVars, hookVars, viewVars
<1>4. (ViewInv /\ ManagedInv /\ MandateHolds)'
  BY <1>1 DEF ViewInv, ManagedInv, MandateHolds, hookVars, viewVars, KeysOf
<1> QED BY <1>3, <1>4

LEMMA PushStep ==
  ASSUME ConfigInv, NEW m \in Pushes, PushManaged(m)
  PROVE  ConfigInv'
<1> USE DEF ConfigInv
<1>1. /\ UNCHANGED <<legacy, user, cmdVars, hookVars, choice, disturbed, apart>>
      /\ managed' = m /\ managed' \in ManagedFile
      /\ wasOff' \subseteq Field /\ edits' \in 0..MaxEdits
      /\ pushed' = pushed \cup {h \in Hook : hpc[h] # "off"}
  BY ConfigAssumption DEF PushManaged, Bounded, ConfigTypeOK, Offs, ManagedFile
<1>2. ConfigTypeOK'
  BY <1>1 DEF ConfigTypeOK, cmdVars, hookVars, viewVars
<1>3. ViewInv'
  BY <1>1 DEF ViewInv, hookVars, viewVars
<1>4. ASSUME NEW h \in Hook \ pushed'
      PROVE  mfile[h] = None /\ mkeys[h] = None /\ \A f \in Field : posture[h][f] = None
  BY <1>1, <1>4 DEF ViewInv
<1>5. ManagedInv'
  BY <1>1, <1>4 DEF ManagedInv, hookVars, viewVars
<1>6. MandateHolds'
  <2>1. ASSUME NEW h \in Hook \ pushed', NEW f \in Keys(managed'.set)
        PROVE  f \in Field
    BY DEF Keys
  <2> QED BY <1>1, <1>4, <2>1 DEF MandateHolds, hookVars
<1> QED BY <1>2, <1>3, <1>5, <1>6

\* A hook starts, reads, and builds its client.
LEMMA ReadStep ==
  ASSUME ConfigInv, NEW h \in Hook,
         \/ \E e \in Envs : Pin(h, e)
         \/ LoadManaged(h) \/ ManagedKeys(h) \/ LoadUser(h)
         \/ UserKeys(h) \/ ResolveCredentials(h)
  PROVE  ConfigInv'
<1> USE DEF ConfigInv
<1>1. /\ UNCHANGED <<configFileVars, cmdVars, posture, edits, choice, disturbed, pushed>>
      /\ hpc'[h] # "off" /\ \A x \in Hook \ {h} : hpc'[x] = hpc[x]
  BY DEF Pin, LoadManaged, ManagedKeys, LoadUser, UserKeys, ResolveCredentials, ghostVars,
     reading, ConfigTypeOK
<1>2. /\ hpc' \in [Hook -> {"off", "pinned", "client"}]
      /\ env' \in [Hook -> Settings] /\ path' \in [Hook -> {"home", "legacy"}]
      /\ wasOff' \subseteq Field /\ apart' \subseteq Hook
  <2>1. hpc' \in [Hook -> {"off", "pinned", "client"}]
    <3>1. hpc' = hpc \/ \E s \in {"pinned", "client"} : hpc' = [hpc EXCEPT ![h] = s]
      BY DEF Pin, LoadManaged, ManagedKeys, LoadUser, UserKeys, ResolveCredentials
    <3> QED BY <3>1 DEF ConfigTypeOK
  <2>2. env' \in [Hook -> Settings]
    <3>1. env' = env \/ \E e \in Envs : env' = [env EXCEPT ![h] = e]
      <4>1. CASE \E e \in Envs : Pin(h, e)
        BY <4>1 DEF Pin
      <4>2. CASE LoadManaged(h) \/ ManagedKeys(h) \/ LoadUser(h)
        BY <4>2 DEF LoadManaged, ManagedKeys, LoadUser
      <4> QED BY <4>1, <4>2 DEF UserKeys, ResolveCredentials
    <3>2. Envs \subseteq Settings
      BY ConfigAssumption
    <3> QED BY <3>1, <3>2 DEF ConfigTypeOK
  <2>3. path' \in [Hook -> {"home", "legacy"}]
    BY DEF Pin, LoadManaged, ManagedKeys, LoadUser, UserKeys, ResolveCredentials, ConfigTypeOK,
       ConfigPath, viewVars
  <2>4. wasOff' \subseteq Field
    BY DEF Pin, LoadManaged, ManagedKeys, LoadUser, UserKeys, ResolveCredentials, ConfigTypeOK,
       ghostVars, Offs
  <2>5. apart' \subseteq Hook
    BY DEF Pin, LoadManaged, ManagedKeys, LoadUser, UserKeys, ResolveCredentials, ConfigTypeOK,
       ghostVars
  <2> QED BY <2>1, <2>2, <2>3, <2>4, <2>5
<1>3. /\ mfile' \in [Hook -> ManagedFile \cup {None}]
      /\ mkeys' \in [Hook -> (SUBSET Field) \cup {None}]
  <2>1. mfile' \in [Hook -> ManagedFile \cup {None}]
    <3>1. CASE LoadManaged(h)
      BY <3>1 DEF LoadManaged, ConfigTypeOK
    <3>2. CASE mfile' = mfile
      BY <3>2 DEF ConfigTypeOK
    <3>3. CASE \E e \in Envs : Pin(h, e)
      BY <3>2, <3>3 DEF Pin, viewVars
    <3>4. CASE ResolveCredentials(h)
      BY <3>2, <3>4 DEF ResolveCredentials, viewVars
    <3> QED BY <3>1, <3>2, <3>3, <3>4 DEF ManagedKeys, LoadUser, UserKeys
  <2>2. mkeys' = mkeys \/ \E k \in (SUBSET Field) \cup {None} : mkeys' = [mkeys EXCEPT ![h] = k]
    <3>1. CASE ManagedKeys(h)
      <4>1. mkeys' = [mkeys EXCEPT ![h] = KeysOf(managed)]
        BY <3>1 DEF ManagedKeys, KeysOf
      <4> QED BY <4>1, ManagedType
    <3>2. CASE LoadManaged(h)
      <4>1. mkeys' \in {[mkeys EXCEPT ![h] = {}], [mkeys EXCEPT ![h] = None]}
        BY <3>2 DEF LoadManaged
      <4>2. {} \in SUBSET Field
        OBVIOUS
      <4>3. None \in (SUBSET Field) \cup {None}
        BY Zenon
      <4> QED BY <4>1, <4>2, <4>3
    <3>3. CASE mkeys' = mkeys
      BY <3>3
    <3> QED BY <3>1, <3>2, <3>3 DEF Pin, LoadUser, UserKeys, ResolveCredentials, viewVars
  <2>3. mkeys \in [Hook -> (SUBSET Field) \cup {None}]
    BY DEF ConfigTypeOK
  <2> QED BY <2>1, <2>2, <2>3
<1>4. /\ ufile' \in [Hook -> Settings \cup {Torn, None}]
      /\ ukeys' \in [Hook -> (SUBSET Field) \cup {None}]
  <2>1. ufile' = ufile \/ \E s \in Settings \cup {Torn} : ufile' = [ufile EXCEPT ![h] = s]
    <3>1. CASE LoadUser(h)
      <4>1. Content(ConfigPath) # Absent => Content(ConfigPath) \in Settings \cup {Torn}
        BY ContentType
      <4> QED BY <3>1, <4>1, SettingsFacts DEF LoadUser
    <3> QED BY <3>1 DEF Pin, LoadManaged, ManagedKeys, UserKeys, ResolveCredentials, viewVars
  <2>2. ukeys' = ukeys \/ \E k \in SUBSET Field : ukeys' = [ukeys EXCEPT ![h] = k]
    <3>1. CASE UserKeys(h)
      <4>1. Content(path[h]) \notin {Absent, Torn} => Keys(Content(path[h])) \in SUBSET Field
        BY ContentType, SettingsFacts
      <4> QED BY <3>1, <4>1 DEF UserKeys
    <3>2. CASE LoadManaged(h) \/ ManagedKeys(h) \/ LoadUser(h)
      BY <3>2 DEF LoadManaged, ManagedKeys, LoadUser
    <3> QED BY <3>1, <3>2 DEF Pin, ResolveCredentials, viewVars
  <2>3. /\ ufile \in [Hook -> Settings \cup {Torn, None}]
        /\ ukeys \in [Hook -> (SUBSET Field) \cup {None}]
    BY DEF ConfigTypeOK
  <2>4. ufile' \in [Hook -> Settings \cup {Torn, None}]
    BY <2>1, <2>3
  <2>5. ukeys' \in [Hook -> (SUBSET Field) \cup {None}]
    BY <2>2, <2>3
  <2> QED BY <2>4, <2>5
<1>5. egress' \in [Hook -> {"on", "off", None}]
  <2>1. CASE ResolveCredentials(h)
    <3> DEFINE now == Content(ConfigPath)
               said == IF now = Absent THEN "unset" ELSE now[Capture]
    <3>1. env[h][Capture] \in Setting
      BY SettingsFacts, ConfigAssumption DEF ConfigTypeOK
    <3>2. now # Torn => said \in Setting
      BY ContentType, SettingsFacts, ConfigAssumption DEF Setting
    <3>3. now # Torn => First(env[h][Capture], said, "unset", "on") \in {"on", "off"}
      BY <3>1, <3>2 DEF First, Setting
    <3>4. \E r \in {"on", "off", None} : egress' = [egress EXCEPT ![h] = r]
      BY <2>1, <3>3 DEF ResolveCredentials
    <3> QED BY <3>4 DEF ConfigTypeOK
  <2> QED BY <2>1 DEF Pin, LoadManaged, ManagedKeys, LoadUser, UserKeys, ConfigTypeOK
<1>6. ConfigTypeOK'
  BY <1>1, <1>2, <1>3, <1>4, <1>5 DEF ConfigTypeOK, configFileVars, cmdVars
<1>7. \A x \in Hook \ {h} : /\ mfile'[x] = mfile[x] /\ mkeys'[x] = mkeys[x]
                            /\ ufile'[x] = ufile[x] /\ ukeys'[x] = ukeys[x]
  BY DEF Pin, LoadManaged, ManagedKeys, LoadUser, UserKeys, ResolveCredentials, viewVars,
     ConfigTypeOK
<1>8. /\ mfile'[h] = None => mkeys'[h] = None
      /\ mkeys'[h] = None => ufile'[h] = None
      /\ ufile'[h] = None => ukeys'[h] = None
      /\ ukeys'[h] = None => \A f \in Field : posture[h][f] = None
  <2>1. CASE UNCHANGED viewVars
    BY <2>1 DEF ViewInv, viewVars
  <2>2. CASE LoadManaged(h)
    BY <2>2, MarksFacts DEF LoadManaged, ViewInv, ConfigTypeOK, ManagedFile
  <2>3. CASE ManagedKeys(h)
    <3>1. KeysOf(managed) # None
      BY ManagedType, MarksFacts
    <3>2. mkeys' = [mkeys EXCEPT ![h] = KeysOf(managed)]
      BY <2>3 DEF ManagedKeys, KeysOf
    <3> QED BY <2>3, <3>1, <3>2 DEF ManagedKeys, ViewInv, ConfigTypeOK
  <2>4. CASE LoadUser(h)
    BY <2>4 DEF LoadUser, ViewInv, ConfigTypeOK
  <2>5. CASE UserKeys(h)
    BY <2>5 DEF UserKeys, ViewInv, ConfigTypeOK
  <2> QED BY <2>1, <2>2, <2>3, <2>4, <2>5 DEF Pin, ResolveCredentials
<1>9. ViewInv'
  BY <1>1, <1>7, <1>8 DEF ViewInv
<1>10. ManagedInv'
  <2>1. ASSUME h \notin pushed
        PROVE  mfile'[h] \in {None, managed} /\ mkeys'[h] \in {None, KeysOf(managed)}
    <3>1. CASE UNCHANGED <<mfile, mkeys>>
      BY <2>1, <3>1 DEF ManagedInv
    <3>2. CASE LoadManaged(h)
      BY <3>2 DEF LoadManaged, KeysOf, ConfigTypeOK
    <3>3. CASE ManagedKeys(h)
      <4>1. mkeys' = [mkeys EXCEPT ![h] = KeysOf(managed)] /\ mfile' = mfile
        BY <3>3 DEF ManagedKeys, KeysOf
      <4> QED BY <2>1, <4>1 DEF ManagedInv, ConfigTypeOK
    <3> QED BY <3>1, <3>2, <3>3 DEF Pin, LoadUser, UserKeys, ResolveCredentials, viewVars
  <2> QED BY <1>1, <1>7, <2>1 DEF ManagedInv, configFileVars, KeysOf
<1>11. MandateHolds'
  BY <1>1 DEF MandateHolds, configFileVars
<1> QED BY <1>6, <1>9, <1>10, <1>11

LEMMA ResolvedType ==
  ASSUME ConfigTypeOK, NEW h \in Hook, NEW f \in Field, mfile[h] # None, mkeys[h] # None,
         ufile[h] # None, ukeys[h] # None
  PROVE  ResolveBool(mfile[h], mkeys[h], ufile[h], ukeys[h], env[h], f) \in {"on", "off"}
<1>1. mfile[h] \notin {Absent, Torn} => mfile[h].set[f] \in Setting
  BY SettingsFacts DEF ConfigTypeOK, ManagedFile
<1>2. ufile[h] # Torn => ufile[h][f] \in Setting
  BY SettingsFacts DEF ConfigTypeOK
<1>3. env[h][f] \in Setting /\ Default[f] \in {"on", "off"}
  BY SettingsFacts, ConfigAssumption DEF ConfigTypeOK
<1>4. FromManaged(mfile[h], mkeys[h], f) \in Setting
  BY <1>1 DEF FromManaged, Says, Setting
<1>5. FromUser(ufile[h], ukeys[h], f) \in Setting
  BY <1>2 DEF FromUser, Says, Setting
<1> QED BY <1>3, <1>4, <1>5 DEF ResolveBool, First, Setting

LEMMA ResolveStep ==
  ASSUME ConfigInv, NEW h \in Hook, NEW f \in Field, ResolveFlag(h, f)
  PROVE  ConfigInv'
<1> USE DEF ConfigInv
<1> DEFINE v == ResolveBool(mfile[h], mkeys[h], ufile[h], ukeys[h], env[h], f)
<1>1. /\ mkeys[h] # None /\ ukeys[h] # None /\ posture' = [posture EXCEPT ![h][f] = v]
      /\ UNCHANGED <<configFileVars, cmdVars, hpc, env, viewVars, egress, edits, ghostVars>>
  BY DEF ResolveFlag
<1>2. mfile[h] # None /\ ufile[h] # None
  BY <1>1 DEF ViewInv
<1>3. v \in {"on", "off"}
  BY <1>1, <1>2, ResolvedType
<1>4. /\ posture' \in [Hook -> [Field -> {"on", "off", None}]] /\ posture'[h][f] = v
      /\ \A x \in Hook, y \in Field : x # h \/ y # f => posture'[x][y] = posture[x][y]
  <2> HIDE DEF v
  <2> QED BY <1>1, <1>3 DEF ConfigTypeOK
<1>5. ConfigTypeOK'
  BY <1>1, <1>4 DEF ConfigTypeOK, configFileVars, cmdVars, viewVars, ghostVars
<1>6. ViewInv'
  BY <1>1, <1>4 DEF ViewInv, viewVars
<1>7. ManagedInv'
  BY <1>1 DEF ManagedInv, KeysOf, viewVars, configFileVars, ghostVars
<1>8. ASSUME h \notin pushed, managed \notin {Absent, Torn},
             f \in managed.locked \cap Keys(managed.set)
      PROVE  v = managed.set[f]
  <2>1. mfile[h] = managed /\ mkeys[h] = Keys(managed.set)
    BY <1>1, <1>2, <1>8 DEF ManagedInv, KeysOf
  <2>2. managed.set[f] # "unset"
    BY <1>8 DEF Keys
  <2>3. FromManaged(mfile[h], mkeys[h], f) = managed.set[f]
    BY <1>8, <2>1, <2>2 DEF FromManaged, Says
  <2> QED BY <1>8, <2>1, <2>2, <2>3 DEF ResolveBool
<1>9. MandateHolds'
  <2> SUFFICES ASSUME NEW x \in Hook \ pushed, managed \notin {Absent, Torn},
                      NEW y \in managed.locked \cap Keys(managed.set)
               PROVE  posture'[x][y] \in {None, managed.set[y]}
    BY <1>1 DEF MandateHolds, configFileVars, ghostVars
  <2>1. y \in Field
    BY DEF Keys
  <2>2. CASE x = h /\ y = f
    BY <1>4, <1>8, <2>2
  <2>3. CASE x # h \/ y # f
    BY <1>4, <2>1, <2>3 DEF MandateHolds
  <2> QED BY <2>2, <2>3
<1> QED BY <1>5, <1>6, <1>7, <1>9

LEMMA ConfigNextInv == ConfigInv /\ [ConfigNext]_configVars => ConfigInv'
<1>1. ConfigInv /\ UNCHANGED configVars => ConfigInv'
  BY DEF configVars, configFileVars, cmdVars, hookVars, viewVars, ghostVars, ConfigInv,
     ConfigTypeOK, ViewInv, ManagedInv, KeysOf, MandateHolds
<1> QED
  BY <1>1, CommandStep, EditStep, PushStep, ReadStep, ResolveStep DEF ConfigNext

\* Every variable of the configuration keeps its type (devconfig.go, write.go).
THEOREM ConfigTypeCorrect == ConfigSpec => []ConfigTypeOK
<1>1. ConfigInv => ConfigTypeOK
  BY DEF ConfigInv
<1> QED BY ConfigInitInv, ConfigNextInv, <1>1, PTL DEF ConfigSpec

\* For any fields, files, environments and commands: what the organization locks is
\* what a hook resolves, while the managed file stays as it is (managed.go).
THEOREM MandateHoldsAlways == ConfigSpec => []MandateHolds
<1>1. ConfigInv => MandateHolds
  BY DEF ConfigInv
<1> QED BY ConfigInitInv, ConfigNextInv, <1>1, PTL DEF ConfigSpec
-----------------------------------------------------------------------------
(***************************************************************************)
(* Off only by choice.  Whatever a reader or a writer of the files has in  *)
(* hand, torn, stale or mixed from two versions: a field that was never    *)
(* off anywhere is off in none of it.                                      *)
(***************************************************************************)

NotOff(s, f) == s \in Settings => s[f] # "off"

OffInv ==
  \A f \in Field \ wasOff :
    /\ NotOff(legacy, f) /\ NotOff(user, f)
    /\ managed \notin {Absent, Torn} => managed.set[f] # "off"
    /\ \A c \in Command : held[c][f] # "off"
    /\ \A h \in Hook : /\ env[h][f] # "off" /\ NotOff(ufile[h], f)
                       /\ mfile[h] \notin {Absent, Torn, None} => mfile[h].set[f] # "off"

SafeInv == ConfigInv /\ OffInv /\ OffOnlyByChoice

LEMMA SafeInit == ConfigInit => SafeInv
<1> SUFFICES ASSUME ConfigInit PROVE SafeInv
  OBVIOUS
<1>1. ConfigInv
  BY ConfigInitInv
<1>2. \A h \in Hook : /\ mfile[h] = None /\ ufile[h] = None /\ env[h] = NoSettings
                      /\ \A f \in Field : posture[h][f] = None
  BY DEF ConfigInit
<1>3. \A c \in Command : held[c] = NoSettings
  BY DEF ConfigInit
<1>4. ASSUME NEW f \in Field \ wasOff
      PROVE  /\ NotOff(legacy, f) /\ NotOff(user, f)
             /\ managed \notin {Absent, Torn} => managed.set[f] # "off"
  BY <1>4, MarksFacts DEF ConfigInit, Offs, NotOff
<1>5. OffInv
  BY <1>2, <1>3, <1>4, SettingsFacts, MarksFacts DEF OffInv, NotOff
<1>6. OffOnlyByChoice
  <2>1. None \notin Setting
    BY MarksFacts
  <2> QED BY <1>2, <2>1 DEF OffOnlyByChoice, Setting
<1> QED BY <1>1, <1>5, <1>6 DEF SafeInv

LEMMA NotOffFilled ==
  ASSUME NEW s \in Settings, NEW f \in Field, s[f] # "off", NEW u \in Filled(s)
  PROVE  NotOff(u, f)
BY MarksFacts DEF Filled, NotOff

\* The commands, the developer and the organization: no hook changes.
LEMMA SafeWriters ==
  ASSUME SafeInv, ConfigInv',
         \/ \E c \in Command : \/ \E u \in Updates : StartCommand(c, u)
                               \/ MigrateLegacyConfig(c) \/ Truncate(c) \/ FillCopy(c)
                               \/ LoadPrior(c) \/ WriteConfig(c) \/ KillCommand(c)
         \/ \E s \in Edits : EditByHand(s)
         \/ \E m \in Pushes : PushManaged(m)
  PROVE  SafeInv'
<1> USE DEF SafeInv
<1>1. UNCHANGED <<legacy, hookVars>> /\ wasOff \subseteq wasOff'
  <2>1. CASE \E c \in Command : \/ \E u \in Updates : StartCommand(c, u)
                                \/ MigrateLegacyConfig(c) \/ LoadPrior(c) \/ KillCommand(c)
    BY <2>1 DEF StartCommand, MigrateLegacyConfig, LoadPrior, KillCommand, configFileVars,
       ghostVars
  <2>2. CASE \E c \in Command : Truncate(c) \/ FillCopy(c) \/ WriteConfig(c)
    BY <2>2 DEF Truncate, FillCopy, WriteConfig, ghostVars
  <2>3. CASE (\E s \in Edits : EditByHand(s)) \/ \E m \in Pushes : PushManaged(m)
    BY <2>3 DEF EditByHand, PushManaged
  <2> QED BY <2>1, <2>2, <2>3
<1>2. OffOnlyByChoice'
  BY <1>1 DEF OffOnlyByChoice, hookVars
<1> SUFFICES ASSUME NEW f \in Field \ wasOff'
             PROVE  /\ NotOff(user', f)
                    /\ managed' \notin {Absent, Torn} => managed'.set[f] # "off"
                    /\ \A c \in Command : held'[c][f] # "off"
  BY <1>1, <1>2 DEF OffInv, hookVars, viewVars
<1>3. /\ f \in Field \ wasOff /\ NotOff(legacy, f) /\ NotOff(user, f)
      /\ managed \notin {Absent, Torn} => managed.set[f] # "off"
      /\ \A c \in Command : held[c][f] # "off" /\ held[c] \in Settings
                            /\ supplied[c] \in Settings
  BY <1>1 DEF OffInv, ConfigInv, ConfigTypeOK
<1>4. ASSUME NEW c \in Command, NEW s, held' = [held EXCEPT ![c] = s], s[f] # "off"
      PROVE  \A d \in Command : held'[d][f] # "off"
  BY <1>3, <1>4 DEF ConfigInv, ConfigTypeOK
<1>5. ASSUME NEW c \in Command,
             (\E u \in Updates : StartCommand(c, u)) \/ KillCommand(c)
      PROVE  /\ UNCHANGED <<user, managed>>
             /\ \A d \in Command : held'[d][f] # "off"
  <2>1. UNCHANGED <<user, managed>>
    BY <1>5 DEF StartCommand, KillCommand, configFileVars
  <2>2. held' = held \/ held' = [held EXCEPT ![c] = NoSettings]
    BY <1>5 DEF StartCommand, KillCommand
  <2> QED BY <1>3, <1>4, <2>1, <2>2, SettingsFacts
<1>6. ASSUME NEW c \in Command, MigrateLegacyConfig(c) \/ LoadPrior(c)
      PROVE  /\ UNCHANGED <<user, managed>>
             /\ \A d \in Command : held'[d][f] # "off"
  <2>1. UNCHANGED <<user, managed>>
    BY <1>6 DEF MigrateLegacyConfig, LoadPrior, configFileVars
  <2>2. \/ held' = held
        \/ \E s \in {legacy, user, NoSettings} \cap Settings : held' = [held EXCEPT ![c] = s]
    BY <1>6, SettingsFacts DEF MigrateLegacyConfig, LoadPrior, ConfigInv, ConfigTypeOK
  <2>3. \A s \in {legacy, user, NoSettings} \cap Settings : s[f] # "off"
    BY <1>3, SettingsFacts DEF NotOff
  <2> QED BY <1>3, <1>4, <2>1, <2>2, <2>3
<1>7. ASSUME NEW c \in Command, Truncate(c) \/ FillCopy(c)
      PROVE  NotOff(user', f) /\ UNCHANGED <<managed, held>>
  <2>1. user' = Torn \/ user' \in Filled(held[c])
    BY <1>7 DEF Truncate, FillCopy
  <2>2. UNCHANGED <<managed, held>>
    BY <1>7 DEF Truncate, FillCopy
  <2> QED BY <1>3, <2>1, <2>2, NotOffFilled, MarksFacts DEF NotOff
<1>8. ASSUME NEW c \in Command, WriteConfig(c)
      PROVE  /\ NotOff(user', f) /\ UNCHANGED managed
             /\ \A d \in Command : held'[d][f] # "off"
  <2>1. supplied[c][f] # "off"
    BY <1>3, <1>8 DEF WriteConfig, Offs
  <2>2. /\ Overlay(held[c], supplied[c]) \in Settings
        /\ Overlay(held[c], supplied[c])[f] # "off"
    BY <1>3, <2>1, SettingsFacts DEF Overlay
  <2>3. user' \in Filled(Overlay(held[c], supplied[c])) /\ UNCHANGED managed
    BY <1>8 DEF WriteConfig
  <2>4. held' = [held EXCEPT ![c] = NoSettings]
    BY <1>8 DEF WriteConfig
  <2> QED BY <1>3, <1>4, <2>2, <2>3, <2>4, NotOffFilled, SettingsFacts
<1>9. ASSUME NEW s \in Edits, EditByHand(s)
      PROVE  NotOff(user', f) /\ UNCHANGED <<managed, held>>
  BY <1>3, <1>9 DEF EditByHand, Offs, NotOff, cmdVars
<1>10. ASSUME NEW m \in Pushes, PushManaged(m)
       PROVE  /\ UNCHANGED <<user, held>>
              /\ managed' \notin {Absent, Torn} => managed'.set[f] # "off"
  BY <1>3, <1>10 DEF PushManaged, Offs, cmdVars
<1> QED BY <1>3, <1>5, <1>6, <1>7, <1>8, <1>9, <1>10

LEMMA SafeReaders ==
  ASSUME SafeInv, ConfigInv', NEW h \in Hook,
         \/ \E e \in Envs : Pin(h, e)
         \/ LoadManaged(h) \/ ManagedKeys(h) \/ LoadUser(h)
         \/ UserKeys(h) \/ ResolveCredentials(h)
  PROVE  SafeInv'
<1> USE DEF SafeInv
<1>1. UNCHANGED <<configFileVars, cmdVars, posture>> /\ wasOff \subseteq wasOff'
  BY DEF Pin, LoadManaged, ManagedKeys, LoadUser, UserKeys, ResolveCredentials, ghostVars
<1>2. OffOnlyByChoice'
  BY <1>1 DEF OffOnlyByChoice
<1>3. \A x \in Hook \ {h} : mfile'[x] = mfile[x] /\ ufile'[x] = ufile[x] /\ env'[x] = env[x]
  BY DEF Pin, LoadManaged, ManagedKeys, LoadUser, UserKeys, ResolveCredentials, viewVars,
     ConfigInv, ConfigTypeOK
<1>4. ASSUME NEW f \in Field \ wasOff'
      PROVE  /\ env'[h][f] # "off" /\ NotOff(ufile'[h], f)
             /\ mfile'[h] \notin {Absent, Torn, None} => mfile'[h].set[f] # "off"
  <2>1. /\ env[h][f] # "off" /\ NotOff(ufile[h], f) /\ NotOff(legacy, f) /\ NotOff(user, f)
        /\ mfile[h] \notin {Absent, Torn, None} => mfile[h].set[f] # "off"
        /\ managed \notin {Absent, Torn} => managed.set[f] # "off"
    BY <1>1, <1>4 DEF OffInv
  <2>2. CASE \E e \in Envs : Pin(h, e)
    BY <1>4, <2>1, <2>2 DEF Pin, viewVars, Offs, ConfigInv, ConfigTypeOK
  <2>3. CASE LoadManaged(h)
    BY <2>1, <2>3 DEF LoadManaged, ConfigInv, ConfigTypeOK
  <2>4. CASE LoadUser(h)
    <3>1. ufile'[h] \in {legacy, user, NoSettings}
      BY <2>4 DEF LoadUser, Content, ConfigInv, ConfigTypeOK
    <3> QED BY <2>1, <2>4, <3>1, SettingsFacts DEF LoadUser, NotOff
  <2>5. CASE ManagedKeys(h) \/ UserKeys(h) \/ ResolveCredentials(h)
    BY <2>1, <2>5 DEF ManagedKeys, UserKeys, ResolveCredentials, viewVars
  <2> QED BY <2>2, <2>3, <2>4, <2>5
<1>5. OffInv'
  BY <1>1, <1>3, <1>4 DEF OffInv, configFileVars, cmdVars
<1> QED BY <1>2, <1>5

LEMMA SafeResolve ==
  ASSUME SafeInv, ConfigInv', NEW h \in Hook, NEW g \in Field, ResolveFlag(h, g)
  PROVE  SafeInv'
<1> USE DEF SafeInv
<1> DEFINE v == ResolveBool(mfile[h], mkeys[h], ufile[h], ukeys[h], env[h], g)
<1>1. /\ mkeys[h] # None /\ ukeys[h] # None /\ posture' = [posture EXCEPT ![h][g] = v]
      /\ UNCHANGED <<configFileVars, cmdVars, env, viewVars, wasOff>>
  BY DEF ResolveFlag, ghostVars
<1>2. OffInv'
  BY <1>1 DEF OffInv, configFileVars, cmdVars, viewVars
<1>3. ASSUME g \notin wasOff, Default[g] = "on" PROVE v # "off"
  <2>1. g \notin Plain
    BY <1>3, ConfigAssumption
  <2>2. /\ env[h][g] # "off" /\ NotOff(ufile[h], g)
        /\ mfile[h] \notin {Absent, Torn, None} => mfile[h].set[g] # "off"
    BY <1>3 DEF OffInv
  <2>3. mfile[h] # None /\ ufile[h] # None /\ ufile[h] \in Settings \cup {Torn, None}
    BY <1>1 DEF ConfigInv, ViewInv, ConfigTypeOK
  <2>4. FromManaged(mfile[h], mkeys[h], g) # "off"
    BY <2>1, <2>2, <2>3 DEF FromManaged, Says
  <2>5. FromUser(ufile[h], ukeys[h], g) # "off"
    BY <2>1, <2>2, <2>3 DEF FromUser, Says, NotOff
  <2> QED BY <1>3, <2>2, <2>4, <2>5 DEF ResolveBool, First
<1>4. OffOnlyByChoice'
  <2> SUFFICES ASSUME NEW x \in Hook, NEW f \in Field \ wasOff, Default[f] = "on"
               PROVE  posture'[x][f] # "off"
    BY <1>1 DEF OffOnlyByChoice
  <2> HIDE DEF v
  <2>1. CASE x = h /\ f = g
    BY <1>1, <1>3, <2>1 DEF ConfigInv, ConfigTypeOK
  <2>2. CASE x # h \/ f # g
    <3>1. posture'[x][f] = posture[x][f]
      BY <1>1, <2>2 DEF ConfigInv, ConfigTypeOK
    <3> QED BY <3>1 DEF OffOnlyByChoice
  <2> QED BY <2>1, <2>2
<1> QED BY <1>2, <1>4

LEMMA SafeNext == SafeInv /\ [ConfigNext]_configVars => SafeInv'
<1> SUFFICES ASSUME SafeInv, [ConfigNext]_configVars PROVE SafeInv'
  OBVIOUS
<1>1. ConfigInv'
  BY ConfigNextInv DEF SafeInv
<1>2. CASE UNCHANGED configVars
  BY <1>1, <1>2 DEF configVars, configFileVars, cmdVars, hookVars, viewVars, ghostVars,
     SafeInv, OffInv, OffOnlyByChoice
<1> QED BY <1>1, <1>2, SafeWriters, SafeReaders, SafeResolve DEF ConfigNext

\* Whatever is torn, killed, overlapping or read across a rewrite, with any number of
\* commands and hooks: a protection that is on by default is off for a hook only after
\* somebody has turned it off somewhere (devconfig.go, "an unreadable config enforces").
THEOREM OffOnlyByChoiceHolds == ConfigSpec => []OffOnlyByChoice
<1>1. SafeInv => OffOnlyByChoice
  BY DEF SafeInv
<1> QED BY SafeInit, SafeNext, <1>1, PTL DEF ConfigSpec
-----------------------------------------------------------------------------
(***************************************************************************)
(* What the developer chose.  Until two writers overlap or one is cut      *)
(* short there is one command at most, and dev.json, or what the command   *)
(* holds while it rewrites it, is what was chosen.                         *)
(***************************************************************************)

\* Settings are the choices, but for a false one that was written as absent.
Fits(s) == \A f \in Field : \/ s[f] = choice[f]
                            \/ f \in Plain /\ choice[f] = "off" /\ s[f] = "unset"

\* The settings that are read of dev.json, in the one place or the other.
InForce == IF user # Absent THEN user ELSE IF legacy # Absent THEN legacy ELSE NoSettings
Kept == InForce \in Settings /\ Fits(InForce)

StepKept(c) ==
  /\ cpc[c] \in {"migrate", "copy", "load"} => Kept
  /\ cpc[c] = "copy" => legacy # Absent /\ held[c] = legacy
  /\ cpc[c] = "copy" => user = Absent
  /\ cpc[c] = "load" => user # Absent \/ legacy = Absent
  /\ cpc[c] \in {"fillcopy", "truncate", "fill"} => Fits(held[c])
  /\ cpc[c] \in {"fillcopy", "fill"} => user = Torn

OneWriter == \A c, d \in Command : cpc[c] # "idle" /\ cpc[d] # "idle" => c = d

ChoiceInv ==
  /\ ConfigInv
  /\ ~disturbed => /\ OneWriter /\ \A c \in Command : StepKept(c)
                   /\ ~Writing => Kept

LEMMA FoundInForce ==
  ASSUME ConfigInv, InForce \in Settings, NEW f \in Field
  PROVE  Found(f) = InForce[f]
<1>1. /\ legacy \in Settings \cup {Absent} /\ user \in Settings \cup {Absent, Torn}
      /\ NoSettings[f] = "unset"
  BY SettingsFacts DEF ConfigInv, ConfigTypeOK
<1> QED BY <1>1, MarksFacts DEF InForce, Found, Content, ConfigPath

LEMMA ChoiceInit == ConfigInit => ChoiceInv
<1> SUFFICES ASSUME ConfigInit PROVE ChoiceInv
  OBVIOUS
<1>1. ConfigInv
  BY ConfigInitInv
<1>2. /\ legacy \in Settings \cup {Absent} /\ user = Absent
      /\ choice = IF legacy = Absent THEN NoSettings ELSE legacy
  BY ConfigAssumption DEF ConfigInit
<1>3. Kept
  BY <1>2, SettingsFacts DEF Kept, InForce, Fits
<1>4. \A c \in Command : cpc[c] = "idle"
  BY DEF ConfigInit
<1> QED BY <1>1, <1>3, <1>4 DEF ChoiceInv, OneWriter, StepKept

\* Only the writers of dev.json matter.
LEMMA ChoiceStays ==
  ASSUME ChoiceInv, ConfigInv', UNCHANGED <<legacy, user, cpc, held, choice, disturbed>>
  PROVE  ChoiceInv'
BY DEF ChoiceInv, OneWriter, StepKept, Kept, InForce, Fits, Writing

LEMMA OverlayFits ==
  ASSUME NEW s \in Settings, NEW u \in Settings, Fits(s),
         choice' = [f \in Field |-> IF u[f] = "unset" THEN choice[f] ELSE u[f]]
  PROVE  Fits(Overlay(s, u))'
<1> SUFFICES ASSUME NEW f \in Field
             PROVE  \/ Overlay(s, u)[f] = choice'[f]
                    \/ f \in Plain /\ choice'[f] = "off" /\ Overlay(s, u)[f] = "unset"
  BY DEF Fits, Overlay
<1>1. \/ s[f] = choice[f]
      \/ f \in Plain /\ choice[f] = "off" /\ s[f] = "unset"
  BY DEF Fits
<1> QED BY <1>1 DEF Overlay

\* A command that has dev.json for itself.
LEMMA ChoiceCommand ==
  ASSUME ChoiceInv, ConfigInv', NEW c \in Command,
         \/ \E u \in Updates : StartCommand(c, u)
         \/ MigrateLegacyConfig(c) \/ Truncate(c) \/ FillCopy(c)
         \/ LoadPrior(c) \/ WriteConfig(c) \/ KillCommand(c)
  PROVE  ChoiceInv'
<1> SUFFICES ASSUME ~disturbed'
             PROVE  /\ OneWriter' /\ \A d \in Command : StepKept(d)'
                    /\ (~Writing => Kept)'
  BY DEF ChoiceInv
<1>1. UNCHANGED legacy /\ ConfigInv /\ ~KillCommand(c)
  BY CommandStep DEF ChoiceInv, KillCommand
<1>2. /\ ~disturbed /\ (cpc[c] = "idle" => ~Writing)
      /\ \E s \in {"idle", "migrate", "copy", "fillcopy", "load", "truncate", "fill"} :
           cpc' = [cpc EXCEPT ![c] = s]
  <2>1. CASE \E u \in Updates : StartCommand(c, u)
    BY <2>1 DEF StartCommand, To
  <2>2. CASE MigrateLegacyConfig(c) \/ LoadPrior(c)
    BY <2>2 DEF MigrateLegacyConfig, LoadPrior, To, ghostVars
  <2>3. CASE Truncate(c) \/ FillCopy(c) \/ WriteConfig(c)
    BY <2>3 DEF Truncate, FillCopy, WriteConfig, To, ghostVars
  <2> QED BY <1>1, <2>1, <2>2, <2>3
<1>3. \A d \in Command \ {c} : cpc[d] = "idle" /\ cpc'[d] = "idle"
  BY <1>1, <1>2 DEF ChoiceInv, ConfigInv, ConfigTypeOK, OneWriter, Writing
<1>4. OneWriter' /\ \A d \in Command \ {c} : StepKept(d)'
  BY <1>3 DEF OneWriter, StepKept
<1>5. StepKept(c) /\ (~Writing => Kept)
  BY <1>2 DEF ChoiceInv
<1>6. /\ cpc \in [Command -> {"idle", "migrate", "copy", "fillcopy", "load", "truncate",
                               "fill"}]
      /\ held \in [Command -> Settings] /\ supplied \in [Command -> Settings]
      /\ legacy \in Settings \cup {Absent} /\ user \in Settings \cup {Absent, Torn}
  BY <1>1 DEF ConfigInv, ConfigTypeOK
<1>7. StepKept(c)' /\ (cpc'[c] = "idle" => Kept')
  <2>1. CASE \E u \in Updates : StartCommand(c, u)
    <3>1. /\ cpc'[c] = "migrate" /\ cpc[c] = "idle" /\ UNCHANGED <<legacy, user, choice>>
      BY <1>6, <2>1 DEF StartCommand, To, configFileVars
    <3>2. Kept'
      BY <1>2, <1>5, <3>1 DEF Kept, InForce, Fits
    <3> QED BY <3>1, <3>2 DEF StepKept
  <2>2. CASE MigrateLegacyConfig(c)
    <3>1. /\ cpc[c] = "migrate" /\ UNCHANGED <<legacy, user, choice>>
          /\ \/ user # Absent \/ legacy = Absent
             \/ user = Absent /\ legacy # Absent
          /\ IF user # Absent \/ legacy = Absent THEN cpc'[c] = "load"
             ELSE cpc'[c] = "copy" /\ held'[c] = legacy
      BY <1>6, <2>2 DEF MigrateLegacyConfig, To, configFileVars, ghostVars
    <3>2. Kept'
      BY <1>5, <3>1 DEF Kept, InForce, Fits, StepKept
    <3> QED BY <3>1, <3>2 DEF StepKept
  <2>3. CASE Truncate(c)
    <3>1. /\ cpc[c] \in {"copy", "truncate"} /\ UNCHANGED <<held, choice>> /\ user' = Torn
          /\ cpc'[c] = IF cpc[c] = "copy" THEN "fillcopy" ELSE "fill"
      BY <1>6, <2>3 DEF Truncate, To, ghostVars
    <3>2. Fits(held[c])
      BY <1>5, <3>1 DEF StepKept, Kept, InForce
    <3>3. Fits(held[c])'
      BY <3>1, <3>2 DEF Fits
    <3> QED BY <3>1, <3>3 DEF StepKept
  <2>4. CASE FillCopy(c)
    <3>1. /\ cpc[c] = "fillcopy" /\ cpc'[c] = "load" /\ UNCHANGED choice
          /\ user' \in Filled(held[c])
      BY <1>6, <2>4 DEF FillCopy, To, ghostVars
    <3>2. Fits(held[c]) /\ user = Torn
      BY <1>5, <3>1 DEF StepKept
    <3>3. user' = held[c] /\ user' \in Settings /\ user' # Absent
      BY <1>6, <3>1, <3>2, MarksFacts DEF Filled
    <3>4. Kept'
      BY <3>1, <3>2, <3>3 DEF Kept, InForce, Fits
    <3> QED BY <3>1, <3>3, <3>4 DEF StepKept
  <2>5. CASE LoadPrior(c)
    <3>1. /\ cpc[c] = "load" /\ cpc'[c] = "truncate" /\ UNCHANGED choice
          /\ held'[c] = IF user \in {Absent, Torn} THEN NoSettings ELSE user
      BY <1>6, <2>5 DEF LoadPrior, To, ghostVars
    <3>2. Kept /\ (user # Absent \/ legacy = Absent)
      BY <1>5, <3>1 DEF StepKept
    <3>3. held'[c] = InForce
      BY <3>1, <3>2, MarksFacts DEF Kept, InForce
    <3>4. Fits(held'[c])
      BY <3>2, <3>3 DEF Kept
    <3>5. Fits(held[c])'
      BY <3>1, <3>4 DEF Fits
    <3> QED BY <3>1, <3>5 DEF StepKept
  <2>6. CASE WriteConfig(c)
    <3>1. /\ cpc[c] = "fill" /\ cpc'[c] = "idle"
          /\ user' \in Filled(Overlay(held[c], supplied[c]))
          /\ choice' = [f \in Field |-> IF supplied[c][f] = "unset" THEN choice[f]
                                        ELSE supplied[c][f]]
      BY <1>6, <2>6 DEF WriteConfig, To
    <3>2. Fits(held[c]) /\ user = Torn
      BY <1>5, <3>1 DEF StepKept
    <3>3. Overlay(held[c], supplied[c]) \in Settings
      BY <1>6, SettingsFacts
    <3>4. user' = Overlay(held[c], supplied[c]) /\ user' \in Settings /\ user' # Absent
      BY <3>1, <3>2, <3>3, MarksFacts DEF Filled
    <3>5. Fits(user)'
      BY <1>6, <3>1, <3>2, <3>4, OverlayFits DEF Fits
    <3>6. Kept'
      BY <3>4, <3>5 DEF Kept, InForce
    <3> QED BY <3>1, <3>6 DEF StepKept
  <2> QED BY <1>1, <2>1, <2>2, <2>3, <2>4, <2>5, <2>6
<1> QED BY <1>3, <1>4, <1>7 DEF Writing

LEMMA ChoiceEdit ==
  ASSUME ChoiceInv, ConfigInv', NEW s \in Edits, EditByHand(s)
  PROVE  ChoiceInv'
<1>1. /\ user' = s /\ choice' = s /\ s \in Settings /\ s # Absent /\ UNCHANGED cpc
      /\ disturbed' = (disturbed \/ Writing)
  BY ConfigAssumption, MarksFacts DEF EditByHand, cmdVars
<1>2. Kept'
  BY <1>1 DEF Kept, InForce, Fits
<1> QED BY <1>1, <1>2 DEF ChoiceInv, OneWriter, StepKept, Writing

LEMMA ChoiceNext == ChoiceInv /\ [ConfigNext]_configVars => ChoiceInv'
<1> SUFFICES ASSUME ChoiceInv, [ConfigNext]_configVars PROVE ChoiceInv'
  OBVIOUS
<1>1. ConfigInv'
  BY ConfigNextInv DEF ChoiceInv
<1>2. CASE UNCHANGED configVars
  BY <1>1, <1>2, ChoiceStays DEF configVars, configFileVars, cmdVars, ghostVars
<1>3. ASSUME NEW m \in Pushes, PushManaged(m) PROVE ChoiceInv'
  BY <1>1, <1>3, ChoiceStays DEF PushManaged, cmdVars
<1>4. ASSUME NEW h \in Hook,
             \/ \E e \in Envs : Pin(h, e)
             \/ LoadManaged(h) \/ ManagedKeys(h) \/ LoadUser(h)
             \/ UserKeys(h) \/ ResolveCredentials(h) \/ \E f \in Field : ResolveFlag(h, f)
      PROVE  ChoiceInv'
  <2>1. UNCHANGED <<legacy, user, cpc, held, choice, disturbed>>
    BY <1>4 DEF Pin, LoadManaged, ManagedKeys, LoadUser, UserKeys, ResolveCredentials,
       ResolveFlag, configFileVars, cmdVars, ghostVars
  <2> QED BY <1>1, <2>1, ChoiceStays
<1> QED BY <1>1, <1>2, <1>3, <1>4, ChoiceCommand, ChoiceEdit DEF ConfigNext

\* For any fields, files, commands and edits: nothing the developer chose is lost by
\* omission (write.go), unless writers overlapped or one was cut short.
THEOREM ChoiceKeptHolds == ConfigSpec => []ChoiceKept
<1>1. ChoiceInv => ChoiceKept
  <2> SUFFICES ASSUME ChoiceInv, ~disturbed, ~Writing, NEW f \in Field
               PROVE  \/ Found(f) = choice[f]
                      \/ f \in Plain /\ choice[f] = "off" /\ Found(f) = "unset"
    BY DEF ChoiceKept
  <2> QED BY FoundInForce DEF ChoiceInv, Kept, Fits
<1> QED BY ChoiceInit, ChoiceNext, <1>1, PTL DEF ConfigSpec
-----------------------------------------------------------------------------
(***************************************************************************)
(* One posture.  What a hook has read of a file does not change under it,  *)
(* so every flag is resolved from the same settings and keys.              *)
(***************************************************************************)

\* What holds of the organization's file and the client of hook h.
ClientAgrees(h) ==
  /\ mfile[h] \notin {Torn, None}
  /\ mfile[h] # Absent => mfile[h].set[Capture] = "unset" /\ Capture \notin mkeys[h]
  /\ ~Straddled(h) /\ h \notin apart
  => CaptureEgressAgree(h)

PostureInv == ConfigInv /\ \A h \in Hook : OfOneView(h) /\ ClientAgrees(h)

\* The value of a field in the view of a hook whose keys are those of its settings.
ViewOf(h, f) ==
  LET org == IF mfile[h] \in {Absent, Torn} THEN "unset" ELSE mfile[h].set[f] IN
  IF org # "unset" /\ f \in mfile[h].locked THEN org
  ELSE First(env[h][f], IF ufile[h] = Torn THEN "unset" ELSE ufile[h][f], org, Default[f])

LEMMA OfOneViewIs ==
  ASSUME NEW h \in Hook
  PROVE  OfOneView(h) <=>
           (mkeys[h] # None /\ ukeys[h] # None /\ ~Straddled(h) =>
              \A f \in Field : posture[h][f] \in {None, ViewOf(h, f)})
BY DEF OfOneView, ViewOf

LEMMA ResolvedIsView ==
  ASSUME ConfigInv, NEW h \in Hook, NEW f \in Field, mkeys[h] # None, ukeys[h] # None,
         ~Straddled(h)
  PROVE  ResolveBool(mfile[h], mkeys[h], ufile[h], ukeys[h], env[h], f) = ViewOf(h, f)
<1>1. mfile[h] # None /\ ufile[h] # None
  BY DEF ConfigInv, ViewInv
<1>2. FromManaged(mfile[h], mkeys[h], f)
        = IF mfile[h] \in {Absent, Torn} THEN "unset" ELSE mfile[h].set[f]
  BY <1>1 DEF FromManaged, Says, Straddled, Keys
<1>3. FromUser(ufile[h], ukeys[h], f) = IF ufile[h] = Torn THEN "unset" ELSE ufile[h][f]
  BY <1>1 DEF FromUser, Says, Straddled, Keys
<1> QED BY <1>2, <1>3 DEF ResolveBool, ViewOf

LEMMA PostureInit == ConfigInit => PostureInv
<1> SUFFICES ASSUME ConfigInit PROVE PostureInv
  OBVIOUS
<1>1. ConfigInv
  BY ConfigInitInv
<1>2. \A h \in Hook : mkeys[h] = None /\ hpc[h] = "off"
  BY DEF ConfigInit
<1> QED BY <1>1, <1>2 DEF PostureInv, OfOneView, ClientAgrees, CaptureEgressAgree

\* A hook about which nothing changes, but that others may be found apart.
LEMMA PostureStays ==
  ASSUME PostureInv, NEW h \in Hook,
         /\ mfile'[h] = mfile[h] /\ mkeys'[h] = mkeys[h] /\ ufile'[h] = ufile[h]
         /\ ukeys'[h] = ukeys[h] /\ posture'[h] = posture[h] /\ env'[h] = env[h]
         /\ egress'[h] = egress[h] /\ hpc'[h] = hpc[h] /\ (h \in apart => h \in apart')
  PROVE  (OfOneView(h) /\ ClientAgrees(h))'
<1>1. OfOneView(h) /\ ClientAgrees(h)
  BY DEF PostureInv
<1>2. Straddled(h)' <=> Straddled(h)
  BY DEF Straddled
<1>3. OfOneView(h)'
  BY <1>1, <1>2 DEF OfOneView
<1>4. ClientAgrees(h)'
  BY <1>1, <1>2 DEF ClientAgrees, CaptureEgressAgree
<1> QED BY <1>3, <1>4

\* While a hook reads it has resolved nothing and has no client.
LEMMA PostureReads ==
  ASSUME PostureInv, ConfigInv', NEW h \in Hook,
         \/ \E e \in Envs : Pin(h, e)
         \/ LoadManaged(h) \/ ManagedKeys(h) \/ LoadUser(h) \/ UserKeys(h)
  PROVE  (OfOneView(h) /\ ClientAgrees(h))'
<1>1. ukeys[h] = None /\ posture'[h] = posture[h] /\ hpc'[h] = "pinned"
  <2>1. CASE \E e \in Envs : Pin(h, e)
    BY <2>1 DEF Pin, PostureInv, ConfigInv, ViewInv, ConfigTypeOK
  <2>2. CASE LoadManaged(h) \/ ManagedKeys(h)
    BY <2>2 DEF LoadManaged, ManagedKeys, reading, PostureInv, ConfigInv, ViewInv
  <2>3. CASE LoadUser(h) \/ UserKeys(h)
    BY <2>3 DEF LoadUser, UserKeys, reading, PostureInv, ConfigInv, ViewInv
  <2> QED BY <2>1, <2>2, <2>3
<1>2. \A f \in Field : posture'[h][f] = None
  BY <1>1 DEF PostureInv, ConfigInv, ViewInv
<1> QED BY <1>1, <1>2 DEF OfOneView, ClientAgrees, CaptureEgressAgree

LEMMA PostureClient ==
  ASSUME PostureInv, NEW h \in Hook, ResolveCredentials(h)
  PROVE  (OfOneView(h) /\ ClientAgrees(h))'
<1> DEFINE now == Content(ConfigPath)
<1> USE DEF PostureInv
<1>1. /\ UNCHANGED <<mfile, mkeys, ufile, ukeys, posture, env>> /\ Resolved(h)
      /\ hpc'[h] = "client"
      /\ egress'[h] = IF now = Torn THEN None
                      ELSE First(env[h][Capture],
                                 IF now = Absent THEN "unset" ELSE now[Capture],
                                 "unset", "on")
      /\ apart' = IF ufile[h] # Torn /\ Found(Capture) = ufile[h][Capture] THEN apart
                  ELSE apart \cup {h}
  BY DEF ResolveCredentials, viewVars, ConfigInv, ConfigTypeOK
<1>2. OfOneView(h)'
  BY <1>1 DEF OfOneView, Straddled
<1>3. ASSUME mfile[h] \notin {Torn, None},
             mfile[h] # Absent => mfile[h].set[Capture] = "unset",
             ~Straddled(h), h \notin apart', egress'[h] # None
      PROVE  egress'[h] = posture[h][Capture]
  <2>1. Capture \in Field /\ Default[Capture] = "on" /\ posture[h][Capture] # None
    BY <1>1, ConfigAssumption DEF Resolved
  <2>2. mkeys[h] # None /\ ukeys[h] # None
    BY <2>1 DEF ConfigInv, ViewInv
  <2>3. posture[h][Capture] = ViewOf(h, Capture)
    BY <1>3, <2>1, <2>2, OfOneViewIs
  <2>4. ufile[h] # Torn /\ Found(Capture) = ufile[h][Capture]
    BY <1>1, <1>3
  <2>5. ViewOf(h, Capture) = First(env[h][Capture], ufile[h][Capture], "unset", "on")
    BY <1>3, <2>1, <2>4 DEF ViewOf
  <2>6. egress'[h] = First(env[h][Capture], Found(Capture), "unset", "on")
    BY <1>1, <1>3 DEF Found
  <2> QED BY <2>3, <2>4, <2>5, <2>6
<1>4. ClientAgrees(h)'
  <2>1. Straddled(h)' <=> Straddled(h)
    BY <1>1 DEF Straddled
  <2> QED BY <1>1, <1>3, <2>1 DEF ClientAgrees, CaptureEgressAgree
<1> QED BY <1>2, <1>4

LEMMA PostureResolve ==
  ASSUME PostureInv, NEW h \in Hook, NEW f \in Field, ResolveFlag(h, f)
  PROVE  (OfOneView(h) /\ ClientAgrees(h))'
<1> DEFINE v == ResolveBool(mfile[h], mkeys[h], ufile[h], ukeys[h], env[h], f)
<1> USE DEF PostureInv
<1>1. /\ hpc[h] = "pinned" /\ mkeys[h] # None /\ ukeys[h] # None
      /\ posture' = [posture EXCEPT ![h][f] = v]
      /\ UNCHANGED <<mfile, mkeys, ufile, ukeys, env, hpc>>
  BY DEF ResolveFlag, reading, viewVars
<1>2. Straddled(h) \/ v = ViewOf(h, f)
  BY <1>1, ResolvedIsView
<1>3. /\ posture'[h][f] = v
      /\ \A y \in Field : y # f => posture'[h][y] = posture[h][y]
  <2> HIDE DEF v
  <2> QED BY <1>1 DEF ConfigInv, ConfigTypeOK
<1>4. ASSUME ~Straddled(h), NEW y \in Field
      PROVE  posture'[h][y] \in {None, ViewOf(h, y)}
  BY <1>1, <1>2, <1>3, <1>4, OfOneViewIs
<1>5. OfOneView(h)'
  <2>1. /\ Straddled(h)' <=> Straddled(h)
        /\ \A y : ViewOf(h, y)' = ViewOf(h, y)
    BY <1>1 DEF Straddled, ViewOf
  <2> QED BY <1>4, <2>1 DEF OfOneView, ViewOf
<1>6. ClientAgrees(h)'
  BY <1>1 DEF ClientAgrees, CaptureEgressAgree
<1> QED BY <1>5, <1>6

LEMMA PostureNext == PostureInv /\ [ConfigNext]_configVars => PostureInv'
<1> SUFFICES ASSUME PostureInv, [ConfigNext]_configVars, NEW h \in Hook
             PROVE  (OfOneView(h) /\ ClientAgrees(h))'
  BY ConfigNextInv DEF PostureInv
<1>1. CASE UNCHANGED hookVars /\ UNCHANGED apart
  BY <1>1, PostureStays DEF hookVars, viewVars
<1>2. ASSUME NEW c \in Command,
             \/ \E u \in Updates : StartCommand(c, u)
             \/ MigrateLegacyConfig(c) \/ Truncate(c) \/ FillCopy(c)
             \/ LoadPrior(c) \/ WriteConfig(c) \/ KillCommand(c)
      PROVE  (OfOneView(h) /\ ClientAgrees(h))'
  BY <1>1, <1>2, CommandStep DEF PostureInv
<1>3. ASSUME (\E s \in Edits : EditByHand(s)) \/ \E m \in Pushes : PushManaged(m)
      PROVE  (OfOneView(h) /\ ClientAgrees(h))'
  BY <1>1, <1>3 DEF EditByHand, PushManaged
<1>4. ASSUME NEW x \in Hook,
             \/ \E e \in Envs : Pin(x, e)
             \/ LoadManaged(x) \/ ManagedKeys(x) \/ LoadUser(x) \/ UserKeys(x)
      PROVE  (OfOneView(h) /\ ClientAgrees(h))'
  <2>1. CASE x = h
    BY <1>4, <2>1, PostureReads, ConfigNextInv DEF PostureInv
  <2>2. CASE x # h
    BY <1>4, <2>2, PostureStays
       DEF Pin, LoadManaged, ManagedKeys, LoadUser, UserKeys, viewVars, ghostVars,
       PostureInv, ConfigInv, ConfigTypeOK
  <2> QED BY <2>1, <2>2
<1>5. ASSUME NEW x \in Hook, ResolveCredentials(x) PROVE (OfOneView(h) /\ ClientAgrees(h))'
  <2>1. CASE x = h
    BY <1>5, <2>1, PostureClient
  <2>2. CASE x # h
    BY <1>5, <2>2, PostureStays DEF ResolveCredentials, viewVars, PostureInv, ConfigInv,
       ConfigTypeOK
  <2> QED BY <2>1, <2>2
<1>6. ASSUME NEW x \in Hook, NEW f \in Field, ResolveFlag(x, f)
      PROVE  (OfOneView(h) /\ ClientAgrees(h))'
  <2>1. CASE x = h
    BY <1>6, <2>1, PostureResolve
  <2>2. CASE x # h
    <3>1. posture'[h] = posture[h]
      BY <1>6, <2>2 DEF ResolveFlag, PostureInv, ConfigInv, ConfigTypeOK
    <3> QED BY <1>6, <3>1, PostureStays DEF ResolveFlag, viewVars, ghostVars
  <2> QED BY <2>1, <2>2
<1>7. CASE UNCHANGED configVars
  BY <1>1, <1>7 DEF configVars, ghostVars
<1> QED BY <1>2, <1>3, <1>4, <1>5, <1>6, <1>7 DEF ConfigNext

\* For any fields, files and environments: the flags of a hook are those of one version
\* of each file, unless a file changed between the two reads of its load, and its client
\* agrees with them if it found the same (cache.go, mapper.go).
THEOREM OnePostureHolds == ConfigSpec => []OnePosture
<1>1. PostureInv => OnePosture
  BY DEF PostureInv, ClientAgrees, OnePosture
<1> QED BY PostureInit, PostureNext, <1>1, PTL DEF ConfigSpec
-----------------------------------------------------------------------------
(***************************************************************************)
(* The credentials.  What is promised is promised of commands that had the *)
(* machine to themselves: for those, what a run has in hand at each step.  *)
(***************************************************************************)

\* Every registered agent has been issued its secrets, and a rotation is of one.
Issued ==
  /\ \A a \in Registered : server[a].key # 0 /\ server[a].seed # 0
  /\ \A r \in Run : rpc[r] \in {"key", "identity"} => inhand[r].agent \in Registered

\* The newest secrets of a registered agent.
IsNewest(h) == /\ h.agent \in Registered /\ h.did = h.agent
               /\ h.key = Newest(h.agent).key /\ h.seed = Newest(h.agent).seed

\* What a run that is alone has in hand, by its step.
InHand(r) ==
  /\ rpc[r] = "local" =>
       /\ kind[r] \in {"register", "init"}
       /\ ~spoilt /\ ~exported => (HasPair => Works) /\ (kind[r] = "init" => HasPair)
  /\ rpc[r] \in {"find", "create"} => kind[r] # "rotate"
  /\ rpc[r] = "identity" => inhand[r].key = Newest(inhand[r].agent).key
  /\ rpc[r] = "secrets" => IsNewest(inhand[r])
  /\ rpc[r] = "coords" =>
       \/ /\ IsNewest(inhand[r])
          /\ credfile \in {[key |-> inhand[r].key, seed |-> inhand[r].seed], Broken}
       \/ /\ kind[r] # "rotate"
          /\ inhand[r].agent = coords.agent /\ inhand[r].did = coords.did
          /\ ~spoilt /\ ~exported => Works

AloneInHand == \A r \in Run : rpc[r] # "off" /\ alone[r] => Alive = {r} /\ InHand(r)

\* While no command runs and every one so far said success, a pair in .env works.
AtRest ==
  Alive = {} /\ ~spoilt /\ ~exported => (HasPair => Works) /\ (last.ok => Works)

CredInv == /\ CredentialsTypeOK /\ Issued /\ AloneInHand /\ AtRest
           /\ RotationRecovers
           /\ ~spoilt => credfile # Broken

LEMMA NewestType ==
  ASSUME CredentialsTypeOK, Issued, NEW a \in Registered
  PROVE  /\ a \in Agent /\ Newest(a).key \in Secret /\ Newest(a).seed \in Secret
         /\ Newest(a) \in [agent : Agent \cup {Blank}, did : Agent \cup {Blank},
                           key : Secret, seed : Secret, own : BOOLEAN]
<1>1. a \in Agent
  BY DEF Registered
<1>2. server[a].key \in 1..MaxGen /\ server[a].seed \in 1..MaxGen
  BY <1>1, CredentialsAssumption DEF CredentialsTypeOK, Issued
<1> QED
  BY <1>1, <1>2 DEF Newest, NewestIn, Secret

\* A step of a run that stays alive: only what it has in hand is to be shown.
LEMMA StayStep ==
  ASSUME CredInv, NEW r \in Run, rpc[r] # "off", NEW step,
         step \in {"local", "find", "create", "key", "identity", "secrets", "coords"},
         Goto(r, step), UNCHANGED <<kind, forced, alone, last, spoilt, exported, commands>>,
         server' \in [Agent -> [made : BOOLEAN, named : BOOLEAN,
                                key : 0..MaxGen, seed : 0..MaxGen]],
         credfile' \in [key : Secret, seed : Secret] \cup {Broken},
         ~spoilt => credfile' # Broken,
         UNCHANGED coords, Issued',
         inhand' \in [Run -> [agent : Agent \cup {Blank}, did : Agent \cup {Blank},
                       key : Secret, seed : Secret, own : BOOLEAN]],
         alone[r] => InHand(r)'
  PROVE  CredInv'
<1> USE DEF CredInv
<1>1. /\ rpc' = [rpc EXCEPT ![r] = step]
      /\ rpc \in [Run -> {"off", "local", "find", "create", "key", "identity",
                      "secrets", "coords"}]
  BY DEF Goto, CredentialsTypeOK
<1>2. CredentialsTypeOK'
  BY <1>1 DEF CredentialsTypeOK
<1>3. Alive' = Alive /\ r \in Alive
  BY <1>1 DEF Alive
<1>4. AloneInHand'
  <2> SUFFICES ASSUME NEW q \in Run, rpc'[q] # "off", alone[q]
               PROVE  Alive = {q} /\ InHand(q)'
    BY <1>3 DEF AloneInHand
  <2>1. rpc[q] # "off"
    BY <1>1
  <2>2. Alive = {q}
    BY <2>1 DEF AloneInHand
  <2> QED BY <1>3, <2>2
<1>5. AtRest' /\ RotationRecovers'
  BY <1>3 DEF AtRest, RotationRecovers
<1> QED BY <1>2, <1>4, <1>5, CredentialsAssumption

\* A run that ends without success, or was not alone, promises nothing.
LEMMA FailStep ==
  ASSUME CredInv, NEW r \in Run, rpc[r] # "off", End(r, FALSE),
         UNCHANGED <<credfile, coords, exported, commands>>,
         server' \in [Agent -> [made : BOOLEAN, named : BOOLEAN,
                                key : 0..MaxGen, seed : 0..MaxGen]],
         \A a \in Registered' : server'[a].key # 0 /\ server'[a].seed # 0,
         Registered \subseteq Registered'
  PROVE  CredInv'
<1> USE DEF CredInv
<1>1. /\ rpc' = [rpc EXCEPT ![r] = "off"] /\ inhand' = [inhand EXCEPT ![r] = Empty]
      /\ kind' = [kind EXCEPT ![r] = "init"] /\ forced' = [forced EXCEPT ![r] = FALSE]
      /\ alone' = [alone EXCEPT ![r] = TRUE]
      /\ last' = [kind |-> kind[r], ok |-> FALSE, alone |-> alone[r]] /\ spoilt' = TRUE
  BY DEF End, Goto, CredentialsTypeOK
<1>2. CredentialsTypeOK'
  BY <1>1 DEF CredentialsTypeOK, Kinds, Empty, Secret
<1>3. Issued'
  <2>1. \A q \in Run : rpc'[q] \in {"key", "identity"} => inhand'[q].agent \in Registered'
    BY <1>1 DEF Issued, CredentialsTypeOK
  <2> QED BY <2>1 DEF Issued
<1>4. AloneInHand'
  <2> SUFFICES ASSUME NEW q \in Run, rpc'[q] # "off", alone'[q] PROVE FALSE
    BY DEF AloneInHand
  <2>1. q # r /\ rpc[q] # "off" /\ alone[q]
    BY <1>1 DEF CredentialsTypeOK
  <2>2. Alive = {q}
    BY <2>1 DEF AloneInHand
  <2> QED BY <2>1, <2>2 DEF Alive
<1>5. AtRest' /\ RotationRecovers'
  BY <1>1 DEF AtRest, RotationRecovers
<1> QED BY <1>1, <1>2, <1>3, <1>4, <1>5

\* A run that starts makes every run that is under way one of several.
LEMMA BeginStep ==
  ASSUME CredInv, NEW r \in Run, NEW k \in Kinds, NEW step,
         step \in {"local", "key", "secrets"},
         NEW given \in [agent : Agent \cup {Blank}, did : Agent \cup {Blank},
                       key : Secret, seed : Secret, own : BOOLEAN],
         NEW force \in BOOLEAN, Begin(r, k, step, given, force),
         step = "key" => k = "rotate" /\ given.agent \in Registered,
         step = "secrets" => IsNewest(given),
         step = "local" => k \in {"register", "init"} /\ (k = "init" => HasPair \/ exported)
  PROVE  CredInv'
<1> USE DEF CredInv
<1>1. /\ rpc[r] = "off" /\ credfile # Broken /\ commands' \in 0..MaxCommands
      /\ rpc' = [rpc EXCEPT ![r] = step] /\ inhand' = [inhand EXCEPT ![r] = given]
      /\ kind' = [kind EXCEPT ![r] = k] /\ forced' = [forced EXCEPT ![r] = force]
      /\ alone' = [x \in Run |-> IF x = r THEN Alive = {} ELSE alone[x] /\ x \notin Alive]
      /\ UNCHANGED <<server, credfile, coords, exported, last, spoilt>>
  BY CredentialsAssumption DEF Begin, Goto, CredentialsTypeOK
<1>2. CredentialsTypeOK'
  <2>1. alone' \in [Run -> BOOLEAN]
    BY <1>1 DEF CredentialsTypeOK
  <2> QED BY <1>1, <2>1 DEF CredentialsTypeOK
<1>3. Registered' = Registered /\ (Works' <=> Works) /\ (HasPair' <=> HasPair)
  BY <1>1 DEF Registered, Works, HasPair, Newest, NewestIn
<1>4. Issued'
  BY <1>1, <1>3 DEF Issued, CredentialsTypeOK
<1>5. r \in Alive'
  BY <1>1 DEF Alive, CredentialsTypeOK
<1>6. AloneInHand'
  <2> SUFFICES ASSUME NEW q \in Run, rpc'[q] # "off", alone'[q]
               PROVE  Alive' = {q} /\ InHand(q)'
    BY DEF AloneInHand
  <2>1. q = r /\ Alive = {}
    BY <1>1 DEF Alive, CredentialsTypeOK
  <2>2. Alive' = {r}
    BY <1>1, <2>1 DEF Alive, CredentialsTypeOK
  <2>3. /\ rpc'[r] = step /\ kind'[r] = k /\ inhand'[r] = given
    BY <1>1 DEF CredentialsTypeOK
  <2>4. step = "local" /\ ~spoilt' /\ ~exported' =>
          (HasPair' => Works') /\ (k = "init" => HasPair')
    BY <1>1, <1>3, <2>1 DEF AtRest
  <2>5. step = "secrets" => IsNewest(inhand[r])'
    BY <1>1, <1>3, <2>3 DEF IsNewest, Newest, NewestIn
  <2> QED BY <2>1, <2>2, <2>3, <2>4, <2>5 DEF InHand
<1>7. AtRest' /\ RotationRecovers'
  BY <1>5 DEF AtRest, RotationRecovers
<1> QED BY <1>1, <1>2, <1>4, <1>6, <1>7

LEMMA CredInitInv == CredentialsInit => CredInv
<1> SUFFICES ASSUME CredentialsInit PROVE CredInv
  OBVIOUS
<1>1. PICK old \in SUBSET Agent, own \in BOOLEAN :
        server = [a \in Agent |-> [made |-> a \in old, named |-> a \in old /\ own,
                                   key |-> IF a \in old THEN 1 ELSE 0,
                                   seed |-> IF a \in old THEN 1 ELSE 0]]
  BY DEF CredentialsInit
<1>2. /\ Registered \subseteq Agent /\ 1 \in 1..MaxGen /\ 1 \in 0..MaxGen /\ 0 \in 0..MaxGen
  BY CredentialsAssumption DEF Registered
<1>3. \A a \in Registered : server[a].key = 1 /\ server[a].seed = 1
  BY <1>1 DEF Registered
<1>4. \A a \in Registered : Newest(a).key \in Secret /\ Newest(a).seed \in Secret
  BY <1>2, <1>3 DEF Secret, Newest, NewestIn
<1>5. /\ credfile \in [key : Secret, seed : Secret]
      /\ coords \in [agent : Agent \cup {Blank}, did : Agent \cup {Blank}]
      /\ HasPair => Works
  <2>1. CASE /\ credfile = [key |-> Blank, seed |-> Blank]
             /\ \E a \in Registered \cup {Blank} : coords = [agent |-> a, did |-> a]
    BY <1>2, <2>1 DEF HasPair, Secret
  <2>2. CASE \E a \in Registered : /\ coords = [agent |-> a, did |-> a]
                 /\ credfile = [key |-> Newest(a).key, seed |-> Newest(a).seed]
    BY <1>2, <1>4, <2>2 DEF HasPair, Works
  <2>3. Registered = {x \in Agent : server[x].made}
    BY DEF Registered
  <2> QED BY <2>1, <2>2, <2>3 DEF CredentialsInit
<1>6. server \in [Agent -> [made : BOOLEAN, named : BOOLEAN, key : 0..MaxGen, seed : 0..MaxGen]]
  <2>1. \A a \in Agent : /\ (a \in old) \in BOOLEAN /\ (a \in old /\ own) \in BOOLEAN
                         /\ (IF a \in old THEN 1 ELSE 0) \in 0..MaxGen
    BY <1>2
  <2> QED BY <1>1, <2>1
<1>7. /\ last = [kind |-> "init", ok |-> FALSE, alone |-> TRUE]
      /\ rpc = [r \in Run |-> "off"] /\ kind = [r \in Run |-> "init"]
      /\ forced = [r \in Run |-> FALSE] /\ inhand = [r \in Run |-> Empty]
      /\ alone = [r \in Run |-> TRUE]
      /\ exported \in BOOLEAN /\ spoilt = FALSE /\ commands = 0
  BY DEF CredentialsInit
<1>8. CredentialsTypeOK
  <2>1. Empty \in [agent : Agent \cup {Blank}, did : Agent \cup {Blank},
                  key : Secret, seed : Secret, own : BOOLEAN]
    BY DEF Empty, Secret
  <2>2. commands \in 0..MaxCommands
    BY <1>7, CredentialsAssumption
  <2> QED BY <1>5, <1>6, <1>7, <2>1, <2>2 DEF CredentialsTypeOK, Kinds
<1>9. ~last.ok /\ \A r \in Run : rpc[r] = "off"
  BY <1>7
<1>10. Issued /\ AloneInHand /\ RotationRecovers /\ AtRest
  BY <1>3, <1>5, <1>9 DEF Issued, AloneInHand, RotationRecovers, AtRest
<1>11. credfile # Broken
  BY <1>5, CredentialsAssumption
<1> QED BY <1>8, <1>10, <1>11 DEF CredInv

LEMMA StartStep ==
  ASSUME CredInv, NEW r \in Run,
         StartRegister(r) \/ StartInit(r) \/ StartRotate(r) \/ StartCollect(r)
  PROVE  CredInv'
<1>1. Empty \in [agent : Agent \cup {Blank}, did : Agent \cup {Blank},
                 key : Secret, seed : Secret, own : BOOLEAN]
  BY DEF Empty, Secret
<1>2. CASE StartRegister(r)
  <2>1. PICK f \in BOOLEAN : Begin(r, "register", "local", Empty, f)
    BY <1>2 DEF StartRegister
  <2> QED BY <1>1, <2>1, BeginStep DEF Kinds
<1>3. CASE StartInit(r)
  <2>1. (HasPair \/ exported) /\ Begin(r, "init", "local", Empty, FALSE)
    BY <1>3 DEF StartInit, RequireCredentials
  <2> QED BY <1>1, <2>1, BeginStep DEF Kinds
<1>4. CASE StartRotate(r)
  <2>1. PICK a \in Registered, d \in {coords.did} \cup Agent :
          Begin(r, "rotate", "key", [Empty EXCEPT !.agent = a, !.did = d], FALSE)
    BY <1>4 DEF StartRotate
  <2>2. a \in Agent /\ d \in Agent \cup {Blank}
    BY DEF Registered, CredInv, CredentialsTypeOK
  <2>3. [Empty EXCEPT !.agent = a, !.did = d] \in
          [agent : Agent \cup {Blank}, did : Agent \cup {Blank},
           key : Secret, seed : Secret, own : BOOLEAN]
    BY <1>1, <2>2
  <2>4. [Empty EXCEPT !.agent = a, !.did = d].agent = a
    BY DEF Empty
  <2> QED BY <2>1, <2>3, <2>4, BeginStep DEF Kinds
<1>5. CASE StartCollect(r)
  <2>1. PICK a \in Registered : Begin(r, "collect", "secrets", Newest(a), FALSE)
    BY <1>5 DEF StartCollect
  <2>2. IsNewest(Newest(a))
    BY DEF IsNewest, Newest, NewestIn
  <2> QED BY <2>1, <2>2, BeginStep, NewestType DEF Kinds, CredInv
<1> QED BY <1>2, <1>3, <1>4, <1>5

LEMMA OwnName ==
  ASSUME NEW A, NEW S, NEW v \in BOOLEAN,
         NEW h \in [agent : A, did : A, key : S, seed : S, own : BOOLEAN]
  PROVE  [h EXCEPT !.own = v] \in [agent : A, did : A, key : S, seed : S, own : BOOLEAN]
  OBVIOUS

\* Steps that change nothing but where the run is.
LEMMA LookStep ==
  ASSUME CredInv, NEW r \in Run, ReuseLocal(r) \/ NothingLocal(r) \/ FindByName(r)
  PROVE  CredInv'
<1> USE DEF Here, Mine, CredInv
<1>1. /\ rpc[r] # "off" /\ UNCHANGED <<server, credfile, coords, exported, commands,
                                        kind, forced, alone, last, spoilt>>
  BY DEF ReuseLocal, NothingLocal, FindByName
<1>2. Registered' = Registered /\ (Works' <=> Works)
  BY <1>1 DEF Registered, Works, Newest, NewestIn
<1>3. CASE ReuseLocal(r)
  <2> DEFINE given == [Empty EXCEPT !.agent = coords.agent, !.did = coords.did]
  <2>1. /\ rpc[r] = "local" /\ HasPair /\ Goto(r, "coords")
        /\ inhand' = [inhand EXCEPT ![r] = given]
    BY <1>3 DEF ReuseLocal
  <2>2. given \in [agent : Agent \cup {Blank}, did : Agent \cup {Blank},
                   key : Secret, seed : Secret, own : BOOLEAN]
        /\ given.agent = coords.agent /\ given.did = coords.did
    BY DEF Empty, Secret, CredentialsTypeOK
  <2>3. rpc'[r] = "coords" /\ inhand'[r] = given
    BY <2>1 DEF Goto, CredentialsTypeOK
  <2>4. alone[r] => InHand(r)'
    BY <1>1, <1>2, <2>1, <2>2, <2>3 DEF AloneInHand, InHand
  <2>5. inhand' \in [Run -> [agent : Agent \cup {Blank}, did : Agent \cup {Blank},
                       key : Secret, seed : Secret, own : BOOLEAN]]
    BY <2>1, <2>2 DEF CredentialsTypeOK
  <2>6. Issued'
    BY <1>1, <1>2, <2>1 DEF Issued, Goto, CredentialsTypeOK
  <2> QED BY <1>1, <2>1, <2>4, <2>5, <2>6, StayStep DEF CredentialsTypeOK
<1>4. CASE NothingLocal(r)
  <2>1. rpc[r] = "local" /\ Goto(r, "find") /\ inhand' = inhand
    BY <1>4 DEF NothingLocal
  <2>2. rpc'[r] = "find"
    BY <2>1 DEF Goto, CredentialsTypeOK
  <2>3. alone[r] => InHand(r)'
    BY <1>1, <2>1, <2>2 DEF AloneInHand, InHand
  <2>4. Issued'
    BY <1>1, <1>2, <2>1 DEF Issued, Goto, CredentialsTypeOK
  <2> QED BY <1>1, <2>1, <2>3, <2>4, StayStep DEF CredentialsTypeOK
<1>5. CASE FindByName(r)
  <2>1. /\ rpc[r] = "find" /\ kind[r] = "register" /\ Goto(r, "create")
        /\ inhand' = [inhand EXCEPT ![r].own = ~NameTaken]
    BY <1>5 DEF FindByName
  <2>2. rpc'[r] = "create"
    BY <2>1 DEF Goto, CredentialsTypeOK
  <2>3. alone[r] => InHand(r)'
    BY <1>1, <2>1, <2>2 DEF InHand
  <2>4. inhand' \in [Run -> [agent : Agent \cup {Blank}, did : Agent \cup {Blank},
                       key : Secret, seed : Secret, own : BOOLEAN]]
    <3>1. NameTaken \in BOOLEAN
      BY DEF NameTaken
    <3>2. inhand[r] \in [agent : Agent \cup {Blank}, did : Agent \cup {Blank},
                        key : Secret, seed : Secret, own : BOOLEAN]
      BY DEF CredentialsTypeOK
    <3> QED BY <2>1, <3>1, <3>2, OwnName DEF CredentialsTypeOK
  <2>5. Issued'
    BY <1>1, <1>2, <2>1 DEF Issued, Goto, CredentialsTypeOK
  <2> QED BY <1>1, <2>1, <2>3, <2>4, <2>5, StayStep DEF CredentialsTypeOK
<1> QED BY <1>3, <1>4, <1>5

LEMMA CreateStep ==
  ASSUME CredInv, NEW r \in Run, Create(r)
  PROVE  CredInv'
<1> USE CredentialsAssumption DEF Here, Mine, CredInv
<1>1. PICK a \in Agent \ Registered :
        /\ server' = [server EXCEPT ![a] = [made |-> TRUE, named |-> inhand[r].own,
                                            key |-> 1, seed |-> 1]]
        /\ \/ /\ inhand' = [inhand EXCEPT ![r] = NewestIn(server', a)]
              /\ Goto(r, "secrets") /\ UNCHANGED <<kind, forced, alone, last, spoilt>>
           \/ End(r, FALSE)
  BY DEF Create
<1>2. rpc[r] # "off" /\ UNCHANGED <<credfile, coords, exported, commands>>
  BY DEF Create
<1>3. server' \in [Agent -> [made : BOOLEAN, named : BOOLEAN,
                            key : 0..MaxGen, seed : 0..MaxGen]]
  <2>1. [made |-> TRUE, named |-> inhand[r].own, key |-> 1, seed |-> 1] \in
          [made : BOOLEAN, named : BOOLEAN, key : 0..MaxGen, seed : 0..MaxGen]
    BY DEF CredentialsTypeOK
  <2> QED BY <1>1, <2>1 DEF CredentialsTypeOK
<1>4. Registered' = Registered \cup {a} /\ server'[a].key = 1 /\ server'[a].seed = 1
  BY <1>1 DEF Registered, CredentialsTypeOK
<1>5. \A b \in Registered' : server'[b].key # 0 /\ server'[b].seed # 0
  BY <1>1, <1>4 DEF Issued, CredentialsTypeOK
<1>6. CASE End(r, FALSE)
  BY <1>2, <1>3, <1>4, <1>5, <1>6, FailStep
<1>7. CASE ~End(r, FALSE)
  <2>1. /\ inhand' = [inhand EXCEPT ![r] = NewestIn(server', a)]
        /\ Goto(r, "secrets") /\ UNCHANGED <<kind, forced, alone, last, spoilt>>
    BY <1>1, <1>7
  <2>2. NewestIn(server', a) \in [agent : Agent \cup {Blank}, did : Agent \cup {Blank},
                                  key : Secret, seed : Secret, own : BOOLEAN]
    BY <1>4 DEF NewestIn, Secret
  <2>3. rpc'[r] = "secrets" /\ inhand'[r] = NewestIn(server', a)
    BY <2>1 DEF Goto, CredentialsTypeOK
  <2>4. InHand(r)'
    BY <1>4, <2>3 DEF InHand, IsNewest, Newest, NewestIn
  <2>5. Issued'
    BY <1>4, <1>5, <2>1 DEF Issued, Goto, CredentialsTypeOK
  <2>6. inhand' \in [Run -> [agent : Agent \cup {Blank}, did : Agent \cup {Blank},
                            key : Secret, seed : Secret, own : BOOLEAN]]
    BY <2>1, <2>2 DEF CredentialsTypeOK
  <2> QED BY <1>2, <1>3, <2>1, <2>4, <2>5, <2>6, StayStep DEF CredentialsTypeOK
<1> QED BY <1>6, <1>7

LEMMA RotateAPIKeyStep ==
  ASSUME CredInv, NEW r \in Run, RotateAPIKey(r)
  PROVE  CredInv'
<1> DEFINE a == inhand[r].agent
<1> USE CredentialsAssumption DEF Here, Mine, CredInv
<1>1. /\ rpc[r] = "key" /\ server[a].key < MaxGen
      /\ server' = [server EXCEPT ![a].key = @ + 1]
      /\ UNCHANGED <<credfile, coords, exported, commands>>
      /\ \/ /\ inhand' = [inhand EXCEPT ![r].key = NewestIn(server', a).key]
            /\ Goto(r, "identity") /\ UNCHANGED <<kind, forced, alone, last, spoilt>>
         \/ End(r, FALSE)
  BY DEF RotateAPIKey
<1>2. a \in Registered /\ a \in Agent
  BY <1>1 DEF Issued, Registered
<1>3. /\ server[a].key \in 0..MaxGen /\ server[a].key + 1 \in 1..MaxGen
      /\ server[a].key + 1 \in 0..MaxGen
  BY <1>1, <1>2 DEF CredentialsTypeOK
<1>3a. /\ server'[a].key = server[a].key + 1 /\ server'[a].seed = server[a].seed
      /\ server'[a].made = server[a].made
      /\ server' \in [Agent -> [made : BOOLEAN, named : BOOLEAN,
                               key : 0..MaxGen, seed : 0..MaxGen]]
      /\ \A b \in Agent : b # a => server'[b] = server[b]
  BY <1>1, <1>2, <1>3 DEF CredentialsTypeOK
<1>4. server' \in [Agent -> [made : BOOLEAN, named : BOOLEAN,
                            key : 0..MaxGen, seed : 0..MaxGen]]
  BY <1>3a
<1>5. /\ Registered' = Registered
      /\ \A b \in Registered : server'[b].key # 0 /\ server'[b].seed # 0
  <2>1. \A b \in Agent : server'[b].made = server[b].made
    BY <1>3a
  <2>2. Registered' = Registered
    BY <2>1 DEF Registered
  <2>3. server'[a].key # 0 /\ server'[a].seed # 0
    BY <1>2, <1>3, <1>3a DEF Issued
  <2>4. \A b \in Registered \ {a} : server'[b].key # 0 /\ server'[b].seed # 0
    BY <1>3a DEF Issued, Registered
  <2> QED BY <2>2, <2>3, <2>4
<1>6. CASE End(r, FALSE)
  BY <1>1, <1>4, <1>5, <1>6, FailStep
<1>7. CASE ~End(r, FALSE)
  <2>1. /\ inhand' = [inhand EXCEPT ![r].key = NewestIn(server', a).key]
        /\ Goto(r, "identity") /\ UNCHANGED <<kind, forced, alone, last, spoilt>>
    BY <1>1, <1>7
  <2>2. NewestIn(server', a).key \in Secret
    BY <1>2, <1>3, <1>3a DEF NewestIn, Secret
  <2>3. /\ rpc'[r] = "identity" /\ inhand'[r].key = NewestIn(server', a).key
        /\ inhand'[r].agent = a
    BY <2>1 DEF Goto, CredentialsTypeOK
  <2>4. InHand(r)'
    BY <2>3 DEF InHand, Newest
  <2>5. Issued'
    BY <1>2, <1>5, <2>1, <2>3 DEF Issued, Goto, CredentialsTypeOK
  <2>6. inhand' \in [Run -> [agent : Agent \cup {Blank}, did : Agent \cup {Blank},
                            key : Secret, seed : Secret, own : BOOLEAN]]
    BY <2>1, <2>2 DEF CredentialsTypeOK
  <2> QED BY <1>1, <1>4, <2>1, <2>4, <2>5, <2>6, StayStep DEF CredentialsTypeOK
<1> QED BY <1>6, <1>7

LEMMA RotateIdentityStep ==
  ASSUME CredInv, NEW r \in Run, RotateIdentity(r)
  PROVE  CredInv'
<1> DEFINE a == inhand[r].agent
<1> USE CredentialsAssumption DEF Here, Mine, CredInv
<1>1. /\ rpc[r] = "identity" /\ server[a].seed < MaxGen
      /\ server' = [server EXCEPT ![a].seed = @ + 1]
      /\ UNCHANGED <<credfile, coords, exported, commands>>
      /\ \/ /\ inhand' = [inhand EXCEPT ![r] = [NewestIn(server', a) EXCEPT !.key = inhand[r].key]]
            /\ Goto(r, "secrets") /\ UNCHANGED <<kind, forced, alone, last, spoilt>>
         \/ End(r, FALSE)
  BY DEF RotateIdentity
<1>2. a \in Registered /\ a \in Agent
  BY <1>1 DEF Issued, Registered
<1>3. /\ server[a].seed \in 0..MaxGen /\ server[a].seed + 1 \in 1..MaxGen
      /\ server[a].seed + 1 \in 0..MaxGen
  BY <1>1, <1>2 DEF CredentialsTypeOK
<1>3a. /\ server'[a].seed = server[a].seed + 1 /\ server'[a].key = server[a].key
      /\ server'[a].made = server[a].made
      /\ server' \in [Agent -> [made : BOOLEAN, named : BOOLEAN,
                               key : 0..MaxGen, seed : 0..MaxGen]]
      /\ \A b \in Agent : b # a => server'[b] = server[b]
  BY <1>1, <1>2, <1>3 DEF CredentialsTypeOK
<1>4. server' \in [Agent -> [made : BOOLEAN, named : BOOLEAN,
                            key : 0..MaxGen, seed : 0..MaxGen]]
  BY <1>3a
<1>5. /\ Registered' = Registered
      /\ \A b \in Registered : server'[b].key # 0 /\ server'[b].seed # 0
  <2>1. \A b \in Agent : server'[b].made = server[b].made
    BY <1>3a
  <2>2. Registered' = Registered
    BY <2>1 DEF Registered
  <2>3. server'[a].key # 0 /\ server'[a].seed # 0
    BY <1>2, <1>3, <1>3a DEF Issued
  <2>4. \A b \in Registered \ {a} : server'[b].key # 0 /\ server'[b].seed # 0
    BY <1>3a DEF Issued, Registered
  <2> QED BY <2>2, <2>3, <2>4
<1>6. CASE End(r, FALSE)
  BY <1>1, <1>4, <1>5, <1>6, FailStep
<1>7. CASE ~End(r, FALSE)
  <2> DEFINE new == [NewestIn(server', a) EXCEPT !.key = inhand[r].key]
  <2>1. /\ inhand' = [inhand EXCEPT ![r] = new]
        /\ Goto(r, "secrets") /\ UNCHANGED <<kind, forced, alone, last, spoilt>>
    BY <1>1, <1>7
  <2>2. /\ new \in [agent : Agent \cup {Blank}, did : Agent \cup {Blank},
                    key : Secret, seed : Secret, own : BOOLEAN]
        /\ new.agent = a /\ new.did = a /\ new.key = inhand[r].key
        /\ new.seed = [agent |-> a, gen |-> server'[a].seed]
    BY <1>2, <1>3, <1>3a DEF NewestIn, Secret, CredentialsTypeOK
  <2>3. rpc'[r] = "secrets" /\ inhand'[r] = new
    BY <2>1 DEF Goto, CredentialsTypeOK
  <2>4. alone[r] => InHand(r)'
    <3>1. alone[r] => inhand[r].key = [agent |-> a, gen |-> server[a].key]
      BY <1>1 DEF AloneInHand, InHand, Newest, NewestIn
    <3> QED BY <1>2, <1>3a, <1>5, <2>2, <2>3, <3>1 DEF InHand, IsNewest, Newest, NewestIn
  <2>5. Issued'
    BY <1>2, <1>5, <2>1 DEF Issued, Goto, CredentialsTypeOK
  <2>6. inhand' \in [Run -> [agent : Agent \cup {Blank}, did : Agent \cup {Blank},
                            key : Secret, seed : Secret, own : BOOLEAN]]
    BY <2>1, <2>2 DEF CredentialsTypeOK
  <2> QED BY <1>1, <1>4, <2>1, <2>4, <2>5, <2>6, StayStep DEF CredentialsTypeOK
<1> QED BY <1>6, <1>7

LEMMA WriteSecretsStep ==
  ASSUME CredInv, NEW r \in Run, WriteSecrets(r)
  PROVE  CredInv'
<1> USE DEF Mine, CredInv
<1>1. /\ rpc[r] = "secrets" /\ Goto(r, "coords")
      /\ credfile' = [key |-> inhand[r].key, seed |-> inhand[r].seed]
      /\ UNCHANGED <<server, coords, exported, commands, kind, forced, alone, last,
                     spoilt, inhand>>
  BY DEF WriteSecrets, WriteEnvFile
<1>2. credfile' \in [key : Secret, seed : Secret]
  BY <1>1 DEF CredentialsTypeOK
<1>3. rpc'[r] = "coords" /\ Registered' = Registered
  BY <1>1 DEF Goto, Registered, CredentialsTypeOK
<1>4. alone[r] => InHand(r)'
  BY <1>1, <1>3 DEF AloneInHand, InHand, IsNewest, Newest, NewestIn
<1>5. Issued'
  BY <1>1, <1>3 DEF Issued, Goto, CredentialsTypeOK
<1> QED
  BY <1>1, <1>2, <1>4, <1>5, StayStep, CredentialsAssumption DEF CredentialsTypeOK

\* The one way to end with success.
LEMMA WriteCoordinatesStep ==
  ASSUME CredInv, NEW r \in Run, WriteCoordinates(r)
  PROVE  CredInv'
<1> USE DEF CredInv
<1>1. /\ rpc[r] = "coords"
      /\ coords' = [agent |-> IF inhand[r].agent = Blank THEN coords.agent ELSE inhand[r].agent,
                    did   |-> IF inhand[r].did = Blank THEN coords.did ELSE inhand[r].did]
      /\ UNCHANGED <<server, credfile, exported, commands>>
      /\ rpc' = [rpc EXCEPT ![r] = "off"] /\ inhand' = [inhand EXCEPT ![r] = Empty]
      /\ kind' = [kind EXCEPT ![r] = "init"] /\ forced' = [forced EXCEPT ![r] = FALSE]
      /\ alone' = [alone EXCEPT ![r] = TRUE]
      /\ last' = [kind |-> kind[r], ok |-> TRUE, alone |-> alone[r]]
      /\ spoilt' = (spoilt \/ ~alone[r])
  BY DEF WriteCoordinates, End, Goto
<1>2. CredentialsTypeOK'
  <2>1. coords' \in [agent : Agent \cup {Blank}, did : Agent \cup {Blank}]
    BY <1>1 DEF CredentialsTypeOK
  <2>2. inhand' \in [Run -> [agent : Agent \cup {Blank}, did : Agent \cup {Blank},
                            key : Secret, seed : Secret, own : BOOLEAN]]
    BY <1>1 DEF CredentialsTypeOK, Empty, Secret
  <2>3. spoilt' \in BOOLEAN /\ last' \in [kind : Kinds, ok : BOOLEAN, alone : BOOLEAN]
    BY <1>1 DEF CredentialsTypeOK
  <2> QED BY <1>1, <2>1, <2>2, <2>3 DEF CredentialsTypeOK, Kinds
<1>3. Registered' = Registered
  BY <1>1 DEF Registered
<1>4. Issued'
  BY <1>1, <1>3 DEF Issued, CredentialsTypeOK
<1>5. AloneInHand'
  <2> SUFFICES ASSUME NEW q \in Run, rpc'[q] # "off", alone'[q] PROVE FALSE
    BY DEF AloneInHand
  <2>1. q # r /\ rpc[q] # "off" /\ alone[q]
    BY <1>1 DEF CredentialsTypeOK
  <2>2. Alive = {q}
    BY <2>1 DEF AloneInHand
  <2> QED BY <1>1, <2>1, <2>2 DEF Alive
<1>6. ASSUME alone[r], credfile # Broken, kind[r] = "rotate" \/ (~spoilt /\ ~exported)
      PROVE  Works'
  <2>1. CASE /\ IsNewest(inhand[r])
             /\ credfile = [key |-> inhand[r].key, seed |-> inhand[r].seed]
    <3>1. inhand[r].agent \in Registered /\ inhand[r].agent # Blank
      BY <2>1, CredentialsAssumption DEF IsNewest, Registered
    <3>2. coords' = [agent |-> inhand[r].agent, did |-> inhand[r].agent]
      BY <1>1, <2>1, <3>1 DEF IsNewest
    <3> QED BY <1>1, <1>3, <1>6, <2>1, <3>1, <3>2 DEF Works, IsNewest, Newest, NewestIn
  <2>2. CASE /\ kind[r] # "rotate" /\ Works
             /\ inhand[r].agent = coords.agent /\ inhand[r].did = coords.did
    <3>1. coords' = coords
      BY <1>1, <2>2 DEF CredentialsTypeOK
    <3> QED BY <1>1, <1>3, <2>2, <3>1 DEF Works, Newest, NewestIn
  <2> QED BY <1>1, <1>6, <2>1, <2>2 DEF AloneInHand, InHand
<1>7. AtRest'
  BY <1>1, <1>6 DEF AtRest
<1>8. RotationRecovers'
  BY <1>1, <1>6 DEF RotationRecovers
<1> QED BY <1>1, <1>2, <1>4, <1>5, <1>7, <1>8

LEMMA StopStep ==
  ASSUME CredInv, NEW r \in Run, StepFails(r) \/ KillRunOf(r)
  PROVE  CredInv'
<1>1. /\ rpc[r] # "off" /\ End(r, FALSE)
      /\ UNCHANGED <<server, credfile, coords, exported, commands>>
  BY DEF StepFails, KillRunOf, Here
<1>2. Registered' = Registered
  BY <1>1 DEF Registered
<1> QED BY <1>1, <1>2, FailStep DEF CredInv, Issued, CredentialsTypeOK

LEMMA EditCredfileStep == ASSUME CredInv, EditCredfile PROVE CredInv'
<1> USE DEF CredInv
<1>1. /\ credfile' = Broken /\ spoilt' = TRUE
      /\ UNCHANGED <<server, coords, exported, rpc, kind, forced, inhand, alone, last, commands>>
  BY DEF EditCredfile, handVars
<1>2. CredentialsTypeOK'
  BY <1>1 DEF CredentialsTypeOK
<1>3. Registered' = Registered /\ Alive' = Alive
  BY <1>1 DEF Registered, Alive
<1>4. Issued'
  BY <1>1, <1>3 DEF Issued
<1>5. AloneInHand'
  BY <1>1, <1>3 DEF AloneInHand, InHand, IsNewest, Newest, NewestIn
<1>6. AtRest' /\ RotationRecovers'
  BY <1>1 DEF AtRest, RotationRecovers
<1> QED BY <1>1, <1>2, <1>4, <1>5, <1>6

LEMMA CredNextInv == CredInv /\ [CredentialsNext]_credVars => CredInv'
<1>1. CredInv /\ UNCHANGED credVars => CredInv'
  BY DEF credVars, handVars, CredInv, CredentialsTypeOK, Issued, AloneInHand, InHand, AtRest,
     RotationRecovers, Works, HasPair, IsNewest, Newest, NewestIn, Registered, Alive
<1> QED
  BY <1>1, StartStep, LookStep, CreateStep, RotateAPIKeyStep, RotateIdentityStep,
     WriteSecretsStep, WriteCoordinatesStep, StopStep, EditCredfileStep DEF CredentialsNext

\* Every variable of the credentials keeps its type (auth.go, devinit.go).
THEOREM CredentialsTypeCorrect == CredentialsSpec => []CredentialsTypeOK
<1>1. CredInv => CredentialsTypeOK
  BY DEF CredInv
<1> QED BY CredInitInv, CredNextInv, <1>1, PTL DEF CredentialsSpec

\* For any agents and runs, killed and failing ones among them: while every command
\* ran alone and said success, the newest secrets are in .env (auth.go, devinit.go).
THEOREM NoSilentLossHolds == CredentialsSpec => []NoSilentLoss
<1>1. CredInv => NoSilentLoss
  BY DEF CredInv, AtRest, NoSilentLoss
<1> QED BY CredInitInv, CredNextInv, <1>1, PTL DEF CredentialsSpec

\* Whatever failed, was killed or overlapped before: a rotation that ran alone and
\* said success leaves a machine that works (authrotate.go).
THEOREM RotationRecoversHolds == CredentialsSpec => []RotationRecovers
<1>1. CredInv => RotationRecovers
  BY DEF CredInv
<1> QED BY CredInitInv, CredNextInv, <1>1, PTL DEF CredentialsSpec
-----------------------------------------------------------------------------
(***************************************************************************)
(* The installers.  First what the merges do to the handlers of an event,  *)
(* then what a run and its settings are at each step.                      *)
(***************************************************************************)

\* Ranks are one to one: what is kept are the elements at K, each once.
LEMMA KeepingFacts ==
  ASSUME NEW S, NEW s \in Seq(S), NEW K \in SUBSET DOMAIN s
  PROVE  /\ Keeping(s, K) \in Seq(S)
         /\ IsFiniteSet(K) /\ DOMAIN Keeping(s, K) = 1..Cardinality(K)
         /\ [n \in 1..Cardinality(K) |-> Nth(K, n)] \in Bijection(1..Cardinality(K), K)
         /\ \A n \in 1..Cardinality(K) : Nth(K, n) \in K /\ Keeping(s, K)[n] = s[Nth(K, n)]
<1> DEFINE C == Cardinality(K)
           Below(p) == {q \in K : q <= p}
           rank == [p \in K |-> Cardinality(Below(p))]
<1>1. DOMAIN s = 1..Len(s) /\ Len(s) \in Nat /\ IsFiniteSet(K) /\ K \subseteq Nat
  BY FS_Interval, FS_Subset
<1>2. C \in Nat
  BY <1>1, FS_CardinalityType
<1>3. \A p \in K : /\ IsFiniteSet(Below(p)) /\ Cardinality(Below(p)) \in 1..C
  <2> SUFFICES ASSUME NEW p \in K
               PROVE  IsFiniteSet(Below(p)) /\ Cardinality(Below(p)) \in 1..C
    OBVIOUS
  <2>1. Below(p) \subseteq K /\ p \in Below(p)
    BY <1>1
  <2>2. IsFiniteSet(Below(p)) /\ Cardinality(Below(p)) <= C
    BY <1>1, <2>1, FS_Subset
  <2>3. Cardinality(Below(p)) \in Nat /\ Cardinality(Below(p)) # 0
    BY <2>1, <2>2, FS_CardinalityType, FS_EmptySet
  <2> QED BY <1>2, <2>2, <2>3
<1>4. ASSUME NEW p \in K, NEW q \in K, p < q
      PROVE  Cardinality(Below(p)) # Cardinality(Below(q))
  <2>1. Below(p) \subseteq Below(q) /\ q \in Below(q) /\ q \notin Below(p)
    BY <1>1, <1>4
  <2> QED BY <1>3, <2>1, FS_Subset
<1>5. rank \in Injection(K, 1..C)
  <2> HIDE DEF Below, C
  <2>1. \A p, q \in K : Cardinality(Below(p)) = Cardinality(Below(q)) => p = q
    <3> SUFFICES ASSUME NEW p \in K, NEW q \in K, p # q
                 PROVE  Cardinality(Below(p)) # Cardinality(Below(q))
      OBVIOUS
    <3>1. p < q \/ q < p
      BY <1>1
    <3> QED BY <1>4, <3>1
  <2>2. rank \in [K -> 1..C]
    BY <1>3
  <2> QED BY <2>1, <2>2 DEF Injection, IsInjective
<1>6. IsFiniteSet(1..C) /\ Cardinality(1..C) = C
  BY <1>2, FS_Interval
<1>7. rank \in Surjection(K, 1..C)
  BY <1>5, <1>6, FS_Injection
<1>8. \A n \in 1..C : Nth(K, n) \in K /\ Cardinality(Below(Nth(K, n))) = n
  <2> SUFFICES ASSUME NEW n \in 1..C
               PROVE  Nth(K, n) \in K /\ Cardinality(Below(Nth(K, n))) = n
    OBVIOUS
  <2>1. \E p \in K : Cardinality(Below(p)) = n
    BY <1>7 DEF Surjection
  <2>2. Nth(K, n) = CHOOSE p \in K : Cardinality(Below(p)) = n
    BY DEF Nth
  <2> HIDE DEF Below
  <2> QED BY <2>1, <2>2
<1>9. \A p \in K : Nth(K, Cardinality(Below(p))) = p
  BY <1>3, <1>5, <1>8 DEF Injection, IsInjective
<1>10. [n \in 1..C |-> Nth(K, n)] \in Bijection(1..C, K)
  <2> DEFINE f == [n \in 1..C |-> Nth(K, n)]
  <2> HIDE DEF Below
  <2>1. \A m, n \in 1..C : f[m] = f[n] => m = n
    BY <1>8
  <2>2. \A p \in K : Cardinality(Below(p)) \in 1..C /\ f[Cardinality(Below(p))] = p
    BY <1>3, <1>9
  <2>3. f \in [1..C -> K]
    BY <1>8
  <2> HIDE DEF f
  <2>4. f \in Bijection(1..C, K)
    BY <2>1, <2>2, <2>3 DEF Bijection, Injection, Surjection, IsInjective
  <2> QED BY <2>4 DEF f
<1>11. \A n \in 1..C : Keeping(s, K)[n] = s[Nth(K, n)] /\ s[Nth(K, n)] \in S
  <2> SUFFICES ASSUME NEW n \in 1..C
               PROVE  Keeping(s, K)[n] = s[Nth(K, n)] /\ s[Nth(K, n)] \in S
    OBVIOUS
  <2>1. Nth(K, n) \in DOMAIN s
    BY <1>8
  <2> QED BY <2>1 DEF Keeping
<1>12. Keeping(s, K) \in Seq(S) /\ DOMAIN Keeping(s, K) = 1..C
  <2>1. Keeping(s, K) = [n \in 1..C |-> s[Nth(K, n)]]
    BY DEF Keeping
  <2> QED BY <1>2, <1>11, <2>1
<1> QED BY <1>1, <1>8, <1>10, <1>11, <1>12

\* The positions of the developer's own handlers.
ForeignAt(s) == {p \in DOMAIN s : s[p].engine = NoEngine}

LEMMA ForeignFinite ==
  ASSUME NEW s \in Seq(Handler)
  PROVE  IsFiniteSet(ForeignAt(s)) /\ ForeignIn(s) = Cardinality(ForeignAt(s))
                                   /\ ForeignIn(s) \in Nat
<1>1. IsFiniteSet(DOMAIN s) /\ ForeignAt(s) \subseteq DOMAIN s
  BY FS_Interval DEF ForeignAt
<1>2. IsFiniteSet(ForeignAt(s))
  BY <1>1, FS_Subset
<1> QED BY <1>2, FS_CardinalityType DEF ForeignAt, ForeignIn

\* What keeps every foreign handler keeps their number.
LEMMA KeepingForeign ==
  ASSUME NEW s \in Seq(Handler), NEW K \in SUBSET DOMAIN s, ForeignAt(s) \subseteq K
  PROVE  ForeignIn(Keeping(s, K)) = ForeignIn(s)
<1> DEFINE t == Keeping(s, K)
           b == [n \in ForeignAt(t) |-> Nth(K, n)]
           all == [n \in 1..Cardinality(K) |-> Nth(K, n)]
<1>1. /\ t \in Seq(Handler) /\ DOMAIN t = 1..Cardinality(K)
      /\ all \in Bijection(1..Cardinality(K), K)
      /\ \A n \in 1..Cardinality(K) : Nth(K, n) \in K /\ t[n] = s[Nth(K, n)]
  BY KeepingFacts
<1> HIDE DEF t
<1>2. b \in Injection(ForeignAt(t), ForeignAt(s))
  BY <1>1 DEF ForeignAt, Injection, Bijection, IsInjective
<1>3. b \in Surjection(ForeignAt(t), ForeignAt(s))
  BY <1>1 DEF ForeignAt, Surjection, Bijection
<1>4. ExistsBijection(ForeignAt(t), ForeignAt(s))
  BY <1>2, <1>3 DEF Bijection, ExistsBijection
<1>5. Cardinality(ForeignAt(t)) = Cardinality(ForeignAt(s))
  BY <1>1, <1>4, ForeignFinite, FS_Bijection
<1> QED BY <1>1, <1>5, ForeignFinite DEF t

LEMMA ConcatFacts ==
  ASSUME NEW S, NEW s \in Seq(S), NEW u \in Seq(S)
  PROVE  /\ s \o u \in Seq(S) /\ Len(s) \in Nat /\ Len(u) \in Nat
         /\ DOMAIN (s \o u) = 1..(Len(s) + Len(u)) /\ DOMAIN s = 1..Len(s)
         /\ \A p \in 1..Len(s) : (s \o u)[p] = s[p]
         /\ \A n \in 1..Len(u) : (s \o u)[Len(s) + n] = u[n]
<1>1. s \o u \in Seq(S) /\ Len(s \o u) = Len(s) + Len(u)
  OBVIOUS
<1>2. DOMAIN (s \o u) = 1..(Len(s) + Len(u))
  BY <1>1
<1>3. \A p \in 1..Len(s) : (s \o u)[p] = s[p]
  OBVIOUS
<1>4. \A n \in 1..Len(u) : (s \o u)[Len(s) + n] = u[n]
  OBVIOUS
<1> QED BY <1>1, <1>2, <1>3, <1>4

LEMMA OursAreHandlers ==
  ASSUME NEW e \in Engine
  PROVE  \A what \in {"gate", "watch"} :
           Ours(e, what) \in Handler /\ Ours(e, what).engine = e
           /\ Ours(e, what).engine # NoEngine /\ Ours(e, what).does = what
BY LocalHooksAssumption DEF Ours, Handler

\* Handlers with no foreign one among them add none.
LEMMA AppendOurs ==
  ASSUME NEW s \in Seq(Handler), NEW u \in Seq(Handler), ForeignAt(u) = {}
  PROVE  ForeignIn(s \o u) = ForeignIn(s)
<1>1. ForeignAt(s \o u) = ForeignAt(s)
  BY DEF ForeignAt
<1> QED BY <1>1 DEF ForeignIn, ForeignAt

\* An event that is gated once, at engine e, and in which nothing else is ours.
GatedBy(s, e) ==
  /\ \E p \in DOMAIN s : OursIn(s, "gate") = {p} /\ s[p] = Ours(e, "gate")
  /\ \A p \in DOMAIN s : Owned(s[p]) => s[p].engine = e

Engines(s) == {s[p].engine : p \in DOMAIN s}

\* The sweep leaves what is the developer's, and of ours one of an invocation.
LEMMA SweepFacts ==
  ASSUME NEW s \in Seq(Handler), NEW e \in Engine
  PROVE  LET t == SweepStale(s, e) IN
         /\ t \in Seq(Handler) /\ ForeignIn(t) = ForeignIn(s)
         /\ \A p \in DOMAIN t : /\ Owned(t[p]) => t[p].engine = e
                                /\ t[p].engine \in Engines(s)
         /\ \A p, q \in DOMAIN t :
              Owned(t[p]) /\ Owned(t[q]) /\ t[p].does = t[q].does => p = q
<1> DEFINE K == {p \in DOMAIN s : \/ ~Owned(s[p])
                                  \/ s[p].engine = e /\ ~\E q \in 1..(p - 1) :
                                       s[q].engine = e /\ s[q].does = s[p].does}
           t == Keeping(s, K)
<1>1. t = SweepStale(s, e)
  BY DEF SweepStale
<1>2. K \subseteq DOMAIN s /\ ForeignAt(s) \subseteq K
  BY DEF ForeignAt, Owned
<1>3. /\ t \in Seq(Handler) /\ DOMAIN t = 1..Cardinality(K)
      /\ [n \in 1..Cardinality(K) |-> Nth(K, n)] \in Bijection(1..Cardinality(K), K)
      /\ \A n \in 1..Cardinality(K) : Nth(K, n) \in K /\ t[n] = s[Nth(K, n)]
  <2> HIDE DEF K
  <2> QED BY <1>2, KeepingFacts
<1>4. ForeignIn(t) = ForeignIn(s)
  <2> HIDE DEF K
  <2> QED BY <1>2, KeepingForeign
<1>5. \A p \in K : (Owned(s[p]) => s[p].engine = e) /\ s[p].engine \in Engines(s)
  BY DEF Engines
<1>6. \A p, q \in K : Owned(s[p]) /\ Owned(s[q]) /\ s[p].does = s[q].does => p = q
  <2>1. ASSUME NEW p \in K, NEW q \in K, Owned(s[p]), Owned(s[q]), s[p].does = s[q].does,
               p < q
        PROVE  FALSE
    <3>1. p \in 1..(q - 1) /\ s[p].engine = e
      BY <2>1
    <3> QED BY <2>1, <3>1
  <2>2. \A p \in K : p \in Nat
    OBVIOUS
  <2> QED BY <2>1, <2>2
<1> HIDE DEF K, t
<1>7. \A m, n \in 1..Cardinality(K) : Nth(K, m) = Nth(K, n) => m = n
  BY <1>3 DEF Bijection, Injection, IsInjective
<1>8. \A p \in DOMAIN t : (Owned(t[p]) => t[p].engine = e) /\ t[p].engine \in Engines(s)
  BY <1>3, <1>5
<1>9. \A p, q \in DOMAIN t :
        Owned(t[p]) /\ Owned(t[q]) /\ t[p].does = t[q].does => p = q
  BY <1>3, <1>6, <1>7
<1> QED BY <1>1, <1>3, <1>4, <1>8, <1>9

\* A merge keeps what is the developer's, and gates the event once.
LEMMA MergedFacts ==
  ASSUME NEW s \in Seq(Handler), NEW ev \in Event, NEW e \in Engine
  PROVE  /\ Merged(s, ev, e) \in Seq(Handler) /\ ForeignIn(Merged(s, ev, e)) = ForeignIn(s)
         /\ GatedBy(Merged(s, ev, e), e)
         /\ Engines(Merged(s, ev, e)) \subseteq Engines(s) \cup {e}
<1> DEFINE t == SweepStale(s, e)
           m == Merged(s, ev, e)
<1>1. /\ t \in Seq(Handler) /\ ForeignIn(t) = ForeignIn(s)
      /\ \A p \in DOMAIN t : /\ Owned(t[p]) => t[p].engine = e
                             /\ t[p].engine \in Engines(s)
      /\ \A p, q \in DOMAIN t :
           Owned(t[p]) /\ Owned(t[q]) /\ t[p].does = t[q].does => p = q
  BY SweepFacts
<1>2. \A what \in {"gate", "watch"} :
        Ours(e, what) \in Handler /\ Ours(e, what).engine = e
        /\ Ours(e, what).engine # NoEngine /\ Ours(e, what).does = what
  BY OursAreHandlers
<1> HIDE DEF t
<1>3. CASE HasLocalHook(t, e)
  <2>1. m = [p \in DOMAIN t |-> IF t[p].engine = e THEN Ours(e, t[p].does) ELSE t[p]]
    BY <1>3 DEF Merged, Reconciled, t
  <2>2. \A p \in DOMAIN t : t[p] \in Handler
    BY <1>1
  <2>3. \A p \in DOMAIN t : t[p].engine = e => t[p].does \in {"gate", "watch"}
    BY <2>2, LocalHooksAssumption DEF Handler
  <2>4. DOMAIN m = DOMAIN t /\ \A p \in DOMAIN t :
          m[p] \in Handler /\ m[p].engine = t[p].engine /\ m[p].does = t[p].does
    BY <1>2, <2>1, <2>2, <2>3
  <2>5. m \in Seq(Handler)
    <3>1. DOMAIN t = 1..Len(t) /\ Len(t) \in Nat
      BY <1>1
    <3> QED BY <2>1, <2>4, <3>1
  <2>6. ForeignIn(m) = ForeignIn(s)
    BY <1>1, <2>4 DEF ForeignIn
  <2>7. GatedBy(m, e)
    <3>1. PICK p \in DOMAIN t : t[p].engine = e /\ t[p].does = "gate"
      BY <1>3 DEF HasLocalHook
    <3>2. m[p] = Ours(e, "gate") /\ p \in DOMAIN m
      BY <2>1, <3>1
    <3>3. OursIn(m, "gate") = {p}
      BY <1>1, <1>2, <2>4, <3>1 DEF OursIn, Owned
    <3> QED BY <1>1, <2>4, <3>2, <3>3 DEF GatedBy, Owned
  <2>8. Engines(m) \subseteq Engines(s)
    BY <1>1, <2>4 DEF Engines
  <2> QED BY <2>5, <2>6, <2>7, <2>8
<1>4. CASE ~HasLocalHook(t, e)
  <2> DEFINE g == <<Ours(e, "gate")>>
             w == IF ev = Gating THEN <<Ours(e, "watch")>> ELSE <<>>
             u == g \o w
  <2>1. m = t \o g \o w
    BY <1>4 DEF Merged, t
  <2>2. /\ u \in Seq(Handler) /\ Len(u) \in {1, 2} /\ u[1] = Ours(e, "gate")
        /\ Len(u) = 2 => u[2] = Ours(e, "watch")
    BY <1>2
  <2>3. m = t \o u
    BY <1>1, <1>2, <2>1
  <2> HIDE DEF u, m
  <2>4. ForeignAt(u) = {} /\ Engines(u) = {e}
    BY <1>2, <2>2 DEF ForeignAt, Engines
  <2>5. m \in Seq(Handler) /\ ForeignIn(m) = ForeignIn(s)
    <3>1. ForeignIn(t \o u) = ForeignIn(t)
      BY <1>1, <2>2, <2>4, AppendOurs
    <3> QED BY <1>1, <2>2, <2>3, <3>1
  <2>6. /\ Len(t) \in Nat /\ DOMAIN t = 1..Len(t) /\ DOMAIN m = 1..(Len(t) + Len(u))
        /\ \A p \in 1..Len(t) : m[p] = t[p]
        /\ \A n \in 1..Len(u) : m[Len(t) + n] = u[n]
    BY <1>1, <2>2, <2>3, ConcatFacts
  <2>7. \A p \in DOMAIN m : p \in DOMAIN t \/ p = Len(t) + 1 \/ (p = Len(t) + 2 /\ Len(u) = 2)
    <3>1. CASE Len(u) = 1
      BY <2>6, <3>1
    <3>2. CASE Len(u) = 2
      BY <2>6, <3>2
    <3> QED BY <2>2, <3>1, <3>2
  <2>8. \A p \in DOMAIN m : /\ p \in DOMAIN t => m[p] = t[p]
                            /\ p = Len(t) + 1 => m[p] = Ours(e, "gate")
                            /\ p = Len(t) + 2 => m[p] = Ours(e, "watch")
    <3>1. m[Len(t) + 1] = Ours(e, "gate")
      BY <2>2, <2>6
    <3>2. ASSUME Len(t) + 2 \in DOMAIN m
          PROVE  m[Len(t) + 2] = Ours(e, "watch")
      <4>1. Len(u) = 2
        BY <2>2, <2>6, <3>2
      <4> QED BY <2>2, <2>6, <4>1
    <3> QED BY <2>6, <3>1, <3>2
  <2>9. OursIn(m, "gate") = {Len(t) + 1} /\ Len(t) + 1 \in DOMAIN m
    <3>1. \A p \in DOMAIN t : ~(Owned(t[p]) /\ t[p].does = "gate")
      BY <1>1, <1>4 DEF HasLocalHook
    <3>2. Len(t) + 1 \in DOMAIN m
      BY <2>2, <2>6
    <3>3. m[Len(t) + 1].does = "gate" /\ m[Len(t) + 1].engine # NoEngine
      BY <1>2, <2>8, <3>2
    <3>4. \A p \in DOMAIN m : p = Len(t) + 2 => m[p].does # "gate"
      BY <1>2, <2>8
    <3> QED BY <2>7, <2>8, <3>1, <3>2, <3>3, <3>4 DEF OursIn, Owned
  <2>10. \A p \in DOMAIN m : /\ Owned(m[p]) => m[p].engine = e
                             /\ m[p].engine \in Engines(s) \cup {e}
    BY <1>1, <1>2, <2>7, <2>8
  <2> QED BY <2>5, <2>8, <2>9, <2>10 DEF GatedBy, Engines, m
<1> QED BY <1>3, <1>4

\* Codex: what is the developer's, and then the one that is ours.
LEMMA MergeEventFacts ==
  ASSUME NEW s \in Seq(Handler), NEW e \in Engine
  PROVE  /\ MergeEvent(s, e) \in Seq(Handler) /\ ForeignIn(MergeEvent(s, e)) = ForeignIn(s)
         /\ GatedBy(MergeEvent(s, e), e)
<1> DEFINE K == {p \in DOMAIN s : ~Owned(s[p])}
           t == Keeping(s, K)
           g == <<Ours(e, "gate")>>
           m == MergeEvent(s, e)
<1>1. K \subseteq DOMAIN s /\ ForeignAt(s) \subseteq K /\ \A p \in K : ~Owned(s[p])
  BY DEF ForeignAt, Owned
<1>2. m = t \o g
  BY DEF MergeEvent
<1>3. Ours(e, "gate") \in Handler /\ Ours(e, "gate").engine = e
      /\ Ours(e, "gate").engine # NoEngine /\ Ours(e, "gate").does = "gate"
  BY OursAreHandlers
<1> HIDE DEF K, m
<1>4. /\ t \in Seq(Handler) /\ DOMAIN t = 1..Cardinality(K) /\ ForeignIn(t) = ForeignIn(s)
      /\ \A n \in DOMAIN t : ~Owned(t[n])
  <2>1. ForeignIn(t) = ForeignIn(s)
    BY <1>1, KeepingForeign
  <2>2. /\ t \in Seq(Handler) /\ DOMAIN t = 1..Cardinality(K)
        /\ \A n \in 1..Cardinality(K) : Nth(K, n) \in K /\ t[n] = s[Nth(K, n)]
    BY <1>1, KeepingFacts
  <2> QED BY <1>1, <2>1, <2>2
<1> HIDE DEF t
<1>5. ForeignAt(g) = {} /\ g \in Seq(Handler)
  BY <1>3 DEF ForeignAt
<1>6. m \in Seq(Handler) /\ ForeignIn(m) = ForeignIn(s)
  <2>1. ForeignIn(t \o g) = ForeignIn(t) /\ t \o g \in Seq(Handler)
    <3> HIDE DEF g
    <3> QED BY <1>4, <1>5, AppendOurs
  <2> QED BY <1>2, <1>4, <2>1
<1>7. /\ DOMAIN m = 1..(Len(t) + 1) /\ m[Len(t) + 1] = Ours(e, "gate") /\ Len(t) \in Nat
      /\ \A p \in 1..Len(t) : ~Owned(m[p])
  <2>1. g \in Seq(Handler) /\ Len(g) = 1 /\ g[1] = Ours(e, "gate")
    BY <1>3
  <2> HIDE DEF g
  <2>2. /\ DOMAIN (t \o g) = 1..(Len(t) + Len(g)) /\ (t \o g)[Len(t) + 1] = g[1]
        /\ \A p \in 1..Len(t) : (t \o g)[p] = t[p]
    <3>1. /\ DOMAIN (t \o g) = 1..(Len(t) + Len(g))
          /\ \A p \in 1..Len(t) : (t \o g)[p] = t[p]
          /\ \A n \in 1..Len(g) : (t \o g)[Len(t) + n] = g[n]
      <4>1. t \in Seq(Handler) /\ g \in Seq(Handler)
        BY <1>4, <2>1
      <4> QED BY <4>1, ConcatFacts
    <3>2. 1 \in 1..Len(g)
      BY <2>1
    <3> QED BY <3>1, <3>2
  <2>3. DOMAIN t = 1..Len(t) /\ Len(t) \in Nat
    BY <1>4
  <2> QED BY <1>2, <1>4, <2>1, <2>2, <2>3
<1>8. OursIn(m, "gate") = {Len(t) + 1}
  BY <1>3, <1>7 DEF OursIn, Owned
<1> QED BY <1>3, <1>6, <1>7, <1>8 DEF GatedBy, m

InFile(i) == ipc[i] \in {"read", "write", "release"}

\* A run has an engine, which is there before its hooks are; and nobody runs
\* beside one that is lone, so the file is the one it has read, and then the one
\* it has written.
RunOK(i) ==
  /\ ipc[i] # "off" => at[i] \in Engine
  /\ target[i] = "settings" /\ InFile(i) => at[i] \in placed
  /\ target[i] = "settings" /\ ipc[i] = "write" =>
       \A ev \in Event : Engines(asread[i][ev]) \subseteq placed \cup {NoEngine}
  /\ ipc[i] # "off" /\ lone[i] =>
       /\ \A j \in Install : j # i => ipc[j] = "off"
       /\ ipc[i] = "write" => hookfile[target[i]] = asread[i]
       /\ ipc[i] = "release" => /\ hookfile[target[i]] # Garbled
                                /\ \A ev \in Event : GatedBy(hookfile[target[i]][ev], at[i])

RunInv == \A i \in Install : RunOK(i)

\* What the last run has left, while no other has started.
LatestInv == Settled =>
  /\ latest.engine \in Engine /\ hookfile[latest.file] # Garbled
  /\ \A ev \in Event : GatedBy(hookfile[latest.file][ev], latest.engine)

InstallInv == InstallTypeOK /\ RunInv /\ LatestInv /\ ForeignKept /\ EngineBeforeHooks

LEMMA NoHooksType == NoHooks \in [Event -> Seq(Handler)]
BY DEF NoHooks

LEMMA ForeignNat == ASSUME NEW s \in Seq(Handler) PROVE ForeignIn(s) \in Nat
BY ForeignFinite

\* What a run writes.
Written(i, ev) == IF target[i] = "codex" THEN MergeEvent(asread[i][ev], at[i])
                  ELSE Merged(asread[i][ev], ev, at[i])

LEMMA WrittenFacts ==
  ASSUME InstallTypeOK, RunInv, NEW i \in Install, ipc[i] = "write", NEW ev \in Event
  PROVE  /\ Written(i, ev) \in Seq(Handler)
         /\ ForeignIn(Written(i, ev)) = ForeignIn(asread[i][ev])
         /\ GatedBy(Written(i, ev), at[i])
         /\ target[i] = "settings" =>
              Engines(Written(i, ev)) \subseteq Engines(asread[i][ev]) \cup {at[i]}
<1>1. asread[i][ev] \in Seq(Handler) /\ at[i] \in Engine /\ target[i] \in {"settings", "codex"}
  BY DEF InstallTypeOK, RunInv, RunOK, Files
<1>2. CASE target[i] = "codex"
  BY <1>1, <1>2, MergeEventFacts DEF Written
<1>3. CASE target[i] = "settings"
  BY <1>1, <1>3, MergedFacts DEF Written
<1> QED BY <1>1, <1>2, <1>3

\* What an edit by hand leaves of an event.
LEMMA EditFacts ==
  ASSUME NEW s \in Seq(Handler)
  PROVE  /\ \A what \in {"other", "wrapped"} :
              /\ Append(s, Foreign(what)) \in Seq(Handler)
              /\ Engines(Append(s, Foreign(what))) \subseteq Engines(s) \cup {NoEngine}
         /\ \A p \in DOMAIN s :
              LET cut == SubSeq(s, 1, p - 1) \o SubSeq(s, p + 1, Len(s)) IN
              /\ cut \in Seq(Handler) /\ Engines(cut) \subseteq Engines(s)
              /\ Append(s, s[p]) \in Seq(Handler)
              /\ Engines(Append(s, s[p])) \subseteq Engines(s)
<1>1. ASSUME NEW h \in Handler
      PROVE  /\ Append(s, h) \in Seq(Handler)
             /\ Engines(Append(s, h)) \subseteq Engines(s) \cup {h.engine}
  <2>1. Append(s, h) \in Seq(Handler) /\ Len(Append(s, h)) = Len(s) + 1
    OBVIOUS
  <2>2. \A q \in DOMAIN Append(s, h) :
          Append(s, h)[q] = h \/ (q \in DOMAIN s /\ Append(s, h)[q] = s[q])
    BY <2>1
  <2> QED BY <2>1, <2>2 DEF Engines
<1>2. \A what \in {"other", "wrapped"} :
        Foreign(what) \in Handler /\ Foreign(what).engine = NoEngine
  BY DEF Foreign, Handler
<1>3. ASSUME NEW p \in DOMAIN s
      PROVE  LET cut == SubSeq(s, 1, p - 1) \o SubSeq(s, p + 1, Len(s)) IN
             cut \in Seq(Handler) /\ Engines(cut) \subseteq Engines(s)
  <2> DEFINE a == SubSeq(s, 1, p - 1)
             b == SubSeq(s, p + 1, Len(s))
  <2>1. p \in 1..Len(s) /\ Len(s) \in Nat /\ DOMAIN s = 1..Len(s)
    OBVIOUS
  <2>2. a \in Seq(Handler) /\ Len(a) = p - 1 /\ \A q \in 1..(p - 1) : a[q] = s[q]
    BY <2>1
  <2>3. b \in Seq(Handler) /\ Len(b) = Len(s) - p /\ \A q \in 1..(Len(s) - p) : b[q] = s[q + p]
    BY <2>1
  <2> HIDE DEF a, b
  <2>4. \A q \in DOMAIN (a \o b) : \E r \in DOMAIN s : (a \o b)[q] = s[r]
    <3> SUFFICES ASSUME NEW q \in DOMAIN (a \o b)
                 PROVE  \E r \in DOMAIN s : (a \o b)[q] = s[r]
      OBVIOUS
    <3>1. /\ DOMAIN (a \o b) = 1..(Len(a) + Len(b))
          /\ \A r \in 1..Len(a) : (a \o b)[r] = a[r]
          /\ \A r \in 1..Len(b) : (a \o b)[Len(a) + r] = b[r]
      <4>1. a \in Seq(Handler) /\ b \in Seq(Handler)
        BY <2>2, <2>3
      <4> QED BY <4>1, ConcatFacts
    <3>2. q \in 1..((p - 1) + (Len(s) - p)) /\ p \in Nat /\ q \in Nat
      <4>1. DOMAIN (a \o b) = 1..(Len(a) + Len(b)) /\ Len(a) = p - 1 /\ Len(b) = Len(s) - p
        BY <2>2, <2>3, <3>1
      <4>2. q \in 1..((p - 1) + (Len(s) - p))
        BY <4>1
      <4> QED BY <2>1, <4>2
    <3>3. CASE q <= p - 1
      <4>1. q \in 1..(p - 1) /\ q \in 1..Len(a) /\ q \in DOMAIN s
        BY <2>1, <2>2, <3>2, <3>3
      <4> QED BY <2>2, <3>1, <4>1
    <3>4. CASE q > p - 1
      <4> DEFINE r == q - (p - 1)
      <4>1. r \in 1..(Len(s) - p) /\ q = (p - 1) + r /\ r + p \in 1..Len(s)
        BY <2>1, <3>2, <3>4
      <4> HIDE DEF r
      <4>2. (a \o b)[q] = b[r]
        BY <2>2, <2>3, <3>1, <4>1
      <4>3. b[r] = s[r + p] /\ r + p \in DOMAIN s
        BY <2>1, <2>3, <4>1
      <4> QED BY <4>2, <4>3
    <3> QED BY <3>2, <3>3, <3>4
  <2>5. a \o b \in Seq(Handler)
    BY <2>2, <2>3
  <2> QED BY <2>4, <2>5 DEF a, b, Engines
<1>4. \A p \in DOMAIN s : s[p] \in Handler /\ s[p].engine \in Engines(s)
  BY DEF Engines
<1> QED BY <1>1, <1>2, <1>3, <1>4

LEMMA InstallInitInv == InstallInit => InstallInv
<1> SUFFICES ASSUME InstallInit PROVE InstallInv
  OBVIOUS
<1> USE LocalHooksAssumption DEF InstallInit
<1>1. hookfile \in [Files -> [Event -> Seq(Handler)]]
  BY NoHooksType
<1>2. placed \subseteq Engine
  BY DEF Handler
<1>3. yours \in [Files -> [Event -> Nat]]
  BY <1>1, ForeignNat
<1>4. 0 \in 0..MaxInstalls /\ 0 \in 0..MaxTouches
  OBVIOUS
<1>5. InstallTypeOK
  BY <1>1, <1>2, <1>3, <1>4, NoHooksType DEF InstallTypeOK, Disturbed, Files
<1>6. RunInv /\ LatestInv
  BY DEF RunInv, RunOK, LatestInv, InFile, Settled
<1>7. ForeignKept
  BY <1>1 DEF ForeignKept
<1>8. EngineBeforeHooks
  <2> SUFFICES ASSUME NEW ev \in Event, NEW p \in DOMAIN hookfile["settings"][ev]
               PROVE  hookfile["settings"][ev][p].engine \in placed \cup {NoEngine}
    BY DEF EngineBeforeHooks
  <2>1. hookfile["settings"][ev] \in Seq(Handler)
    BY <1>1 DEF Files
  <2>2. hookfile["settings"][ev][p] \in Handler
    BY <2>1
  <2> QED BY <2>2 DEF Handler
<1> QED BY <1>5, <1>6, <1>7, <1>8 DEF InstallInv

\* A run's next step and its engine, where an action says so.
LEMMA InstallTypeStep ==
  ASSUME InstallTypeOK, RunInv, [InstallNext]_installVars
  PROVE  InstallTypeOK'
<1> USE LocalHooksAssumption DEF InstallTypeOK
<1> DEFINE Pcs == {"off", "claim", "stat", "reclaim", "place", "read", "write", "release"}
<1>1. ASSUME NEW i \in Install, NEW ok \in BOOLEAN, EndRun(i, ok)
      PROVE  /\ ipc' \in [Install -> Pcs] /\ asread' \in [Install -> [Event -> Seq(Handler)]]
             /\ target' \in [Install -> Files] /\ at' \in [Install -> Engine \cup {NoEngine}]
             /\ lone' \in [Install -> BOOLEAN] /\ latest' \in [file : Files, engine : Engine \cup {NoEngine}]
             /\ installs' = installs /\ touches' = touches /\ yours' = yours
  BY <1>1, NoHooksType DEF EndRun, Step, Disturbed, Files
<1>2. ASSUME NEW i \in Install, StartInstall(i)
      PROVE  InstallTypeOK'
  <2>1. installs' \in 0..MaxInstalls
    BY <1>2 DEF StartInstall
  <2>2. target' \in [Install -> Files] /\ at' \in [Install -> Engine \cup {NoEngine}]
        /\ ipc' \in [Install -> Pcs]
    BY <1>2 DEF StartInstall, Step
  <2>3. lone' \in [Install -> BOOLEAN]
    BY <1>2 DEF StartInstall
  <2> QED BY <1>2, <2>1, <2>2, <2>3 DEF StartInstall
<1>3. ASSUME NEW i \in Install, ClaimInstallLock(i)
      PROVE  InstallTypeOK'
  BY <1>3 DEF ClaimInstallLock, Step, Rest
<1>4. ASSUME NEW i \in Install, StatInstallLock(i)
      PROVE  InstallTypeOK'
  BY <1>1, <1>4 DEF StatInstallLock, Step, Rest
<1>5. ASSUME NEW i \in Install, ReclaimInstallLock(i)
      PROVE  InstallTypeOK'
  BY <1>1, <1>5 DEF ReclaimInstallLock, Step, Rest
<1>6. ASSUME NEW i \in Install, PlaceEngineBinary(i)
      PROVE  InstallTypeOK'
  BY <1>6 DEF PlaceEngineBinary, Step, Rest, RunInv, RunOK
<1>7. ASSUME NEW i \in Install, ReadHooks(i)
      PROVE  InstallTypeOK'
  BY <1>7 DEF ReadHooks, Step, Rest
<1>8. ASSUME NEW i \in Install, WriteHooks(i)
      PROVE  InstallTypeOK'
  <2>1. \A ev \in Event : Written(i, ev) \in Seq(Handler)
    BY <1>8, WrittenFacts DEF WriteHooks
  <2>2. hookfile' = [hookfile EXCEPT ![target[i]] = [ev \in Event |-> Written(i, ev)]]
    BY <1>8 DEF WriteHooks, Written
  <2>3. hookfile' \in [Files -> [Event -> Seq(Handler)] \cup {Garbled}]
    BY <2>1, <2>2
  <2>4. raced' \subseteq Files
    BY <1>8 DEF WriteHooks
  <2> QED BY <1>8, <2>3, <2>4 DEF WriteHooks, Step, Rest
<1>9. ASSUME NEW i \in Install, ReleaseInstall(i)
      PROVE  InstallTypeOK'
  BY <1>1, <1>9 DEF ReleaseInstall
<1>10. ASSUME NEW i \in Install, InstallFails(i)
       PROVE  InstallTypeOK'
  BY <1>1, <1>10 DEF InstallFails
<1>11. ASSUME NEW i \in Install, KillInstall(i)
       PROVE  InstallTypeOK'
  <2>1. EndRun(i, FALSE) /\ UNCHANGED <<hookfile, placed, ilock, raced>>
    BY <1>11 DEF KillInstall
  <2>2. FALSE \in BOOLEAN
    OBVIOUS
  <2> HIDE DEF Pcs
  <2>3. /\ ipc' \in [Install -> Pcs] /\ asread' \in [Install -> [Event -> Seq(Handler)]]
        /\ target' \in [Install -> Files] /\ at' \in [Install -> Engine \cup {NoEngine}]
        /\ lone' \in [Install -> BOOLEAN]
        /\ latest' \in [file : Files, engine : Engine \cup {NoEngine}]
        /\ installs' = installs /\ touches' = touches /\ yours' = yours
    BY <1>1, <2>1, <2>2
  <2> QED BY <2>1, <2>3 DEF Pcs
<1>12. ASSUME NEW e \in Engine, LockGoesStale(e)
       PROVE  InstallTypeOK'
  BY <1>12 DEF LockGoesStale, irunVars
<1>13. ASSUME NEW f \in Files, TearFile(f)
       PROVE  InstallTypeOK'
  <2>1. touches' \in 0..MaxTouches
    BY <1>13 DEF TearFile
  <2> QED BY <1>13, <2>1 DEF TearFile, Disturbed, Files
<1>14. ASSUME NEW f \in Files, NEW ev \in Event, NEW s \in Seq(Handler), Touch(f, ev, s)
       PROVE  InstallTypeOK'
  <2>1. touches' \in 0..MaxTouches
    BY <1>14 DEF Touch
  <2>2. hookfile' \in [Files -> [Event -> Seq(Handler)] \cup {Garbled}]
    BY <1>14 DEF Touch
  <2>3. yours' \in [Files -> [Event -> Nat]]
    <3>1. ForeignIn(s) \in Nat
      BY ForeignNat
    <3> QED BY <1>14, <3>1 DEF Touch
  <2>4. latest' \in [file : Files, engine : Engine \cup {NoEngine}]
    BY <1>14 DEF Touch, Disturbed, Files
  <2> QED BY <1>14, <2>1, <2>2, <2>3, <2>4 DEF Touch
<1>15. ASSUME NEW f \in Files, NEW ev \in Event,
              AddHandler(f, ev) \/ RemoveHandler(f, ev) \/ CopyHandler(f, ev)
       PROVE  InstallTypeOK'
  <2>1. hookfile[f][ev] \in Seq(Handler)
    BY <1>15 DEF AddHandler, RemoveHandler, CopyHandler
  <2> QED BY <1>14, <1>15, <2>1, EditFacts DEF AddHandler, RemoveHandler, CopyHandler
<1>16. ASSUME UNCHANGED installVars
       PROVE  InstallTypeOK'
  BY <1>16 DEF installVars, irunVars
<1> QED
  BY <1>2, <1>3, <1>4, <1>5, <1>6, <1>7, <1>8, <1>9, <1>10, <1>11, <1>12, <1>13, <1>15, <1>16
  DEF InstallNext

LEMMA EndKeepsRuns ==
  ASSUME InstallTypeOK, RunInv, NEW i \in Install, NEW ok, EndRun(i, ok),
         UNCHANGED <<hookfile, placed>>
  PROVE  RunInv'
<1> SUFFICES ASSUME NEW k \in Install PROVE RunOK(k)'
  BY DEF RunInv
<1>1. /\ ipc' = [ipc EXCEPT ![i] = "off"] /\ asread' = [asread EXCEPT ![i] = NoHooks]
      /\ target' = [target EXCEPT ![i] = "settings"] /\ at' = [at EXCEPT ![i] = NoEngine]
      /\ lone' = [lone EXCEPT ![i] = TRUE]
  BY DEF EndRun, Step
<1>2. CASE k = i
  BY <1>1, <1>2 DEF InstallTypeOK, RunOK, InFile
<1>3. CASE k # i
  <2>1. /\ ipc'[k] = ipc[k] /\ asread'[k] = asread[k] /\ target'[k] = target[k]
        /\ at'[k] = at[k] /\ lone'[k] = lone[k]
        /\ \A j \in Install : ipc[j] = "off" => ipc'[j] = "off"
    BY <1>1, <1>3 DEF InstallTypeOK
  <2> QED BY <2>1 DEF RunInv, RunOK, InFile
<1> QED BY <1>2, <1>3

\* A step of one run is none of another; and nothing is said of a lone run that
\* another is beside.
LEMMA RunsStep ==
  ASSUME InstallTypeOK, RunInv, EngineBeforeHooks, InstallTypeOK', [InstallNext]_installVars
  PROVE  RunInv'
<1> USE DEF InstallTypeOK
<1>1. ASSUME NEW i \in Install, StartInstall(i)
      PROVE  RunInv'
  <2> SUFFICES ASSUME NEW k \in Install PROVE RunOK(k)'
    BY DEF RunInv
  <2>1. CASE k = i
    BY <1>1, <2>1 DEF StartInstall, Step, RunOK, InFile
  <2>2. CASE k # i
    <3>1. /\ ipc'[k] = ipc[k] /\ asread'[k] = asread[k] /\ target'[k] = target[k]
          /\ at'[k] = at[k] /\ (lone'[k] => ipc[k] = "off")
      BY <1>1, <2>2 DEF StartInstall, Step
    <3> QED BY <1>1, <3>1 DEF StartInstall, RunInv, RunOK, InFile
  <2> QED BY <2>1, <2>2
<1>2. ASSUME NEW i \in Install, NEW to, Step(i, to), ipc[i] # "off", to # "off",
             UNCHANGED <<hookfile, target, at, lone>>, placed \subseteq placed',
             \A k \in Install : k # i => asread'[k] = asread[k],
             RunOK(i)'
      PROVE  RunInv'
  <2> SUFFICES ASSUME NEW k \in Install, k # i PROVE RunOK(k)'
    BY <1>2 DEF RunInv
  <2>1. /\ ipc'[k] = ipc[k] /\ \A j \in Install : ipc[j] = "off" => ipc'[j] = "off"
    BY <1>2 DEF Step
  <2> QED BY <1>2, <2>1 DEF RunInv, RunOK, InFile
<1>3. ASSUME NEW i \in Install, ClaimInstallLock(i)
      PROVE  RunInv'
  BY <1>2, <1>3 DEF ClaimInstallLock, Step, Rest, RunInv, RunOK, InFile
<1>4. ASSUME NEW i \in Install, StatInstallLock(i)
      PROVE  RunInv'
  <2>1. CASE EndRun(i, FALSE)
    BY <1>4, <2>1, EndKeepsRuns DEF StatInstallLock
  <2>2. CASE ~EndRun(i, FALSE)
    <3>1. PICK to \in {"place", "reclaim"} : Step(i, to)
      BY <1>4, <2>2 DEF StatInstallLock
    <3>2. /\ ipc[i] # "off" /\ UNCHANGED <<hookfile, placed, asread, target, at, lone>>
          /\ ipc'[i] = to /\ \A k \in Install : k # i => ipc'[k] = ipc[k]
      BY <1>4, <2>2, <3>1 DEF StatInstallLock, Rest, Step
    <3>3. RunOK(i)'
      BY <3>2 DEF RunInv, RunOK, InFile
    <3> QED BY <1>2, <3>1, <3>2, <3>3
  <2> QED BY <2>1, <2>2
<1>5. ASSUME NEW i \in Install, ReclaimInstallLock(i)
      PROVE  RunInv'
  <2>1. CASE EndRun(i, FALSE)
    BY <1>5, <2>1, EndKeepsRuns DEF ReclaimInstallLock
  <2>2. CASE ~EndRun(i, FALSE)
    <3>1. PICK to \in {"place", "reclaim"} : Step(i, to)
      BY <1>5, <2>2 DEF ReclaimInstallLock
    <3>2. /\ ipc[i] # "off" /\ UNCHANGED <<hookfile, placed, asread, target, at, lone>>
          /\ ipc'[i] = to /\ \A k \in Install : k # i => ipc'[k] = ipc[k]
      BY <1>5, <2>2, <3>1 DEF ReclaimInstallLock, Rest, Step
    <3>3. RunOK(i)'
      BY <3>2 DEF RunInv, RunOK, InFile
    <3> QED BY <1>2, <3>1, <3>2, <3>3
  <2> QED BY <2>1, <2>2
<1>6. ASSUME NEW i \in Install, PlaceEngineBinary(i)
      PROVE  RunInv'
  BY <1>2, <1>6 DEF PlaceEngineBinary, Step, Rest, RunInv, RunOK, InFile
<1>7. ASSUME NEW i \in Install, ReadHooks(i)
      PROVE  RunInv'
  <2>1. /\ asread'[i] = hookfile[target[i]] /\ ipc'[i] = "write" /\ ipc[i] = "read"
        /\ UNCHANGED <<hookfile, placed, target, at, lone>>
        /\ \A k \in Install : k # i => asread'[k] = asread[k] /\ ipc'[k] = ipc[k]
    BY <1>7 DEF ReadHooks, Step, Rest
  <2>2. target[i] = "settings" =>
          \A ev \in Event : Engines(asread'[i][ev]) \subseteq placed \cup {NoEngine}
    BY <1>7, <2>1 DEF ReadHooks, EngineBeforeHooks, Engines
  <2>3. RunOK(i)'
    BY <2>1, <2>2 DEF RunInv, RunOK, InFile
  <2> QED BY <1>2, <1>7, <2>1, <2>3 DEF ReadHooks, Rest
<1>8. ASSUME NEW i \in Install, WriteHooks(i)
      PROVE  RunInv'
  <2>1. /\ ipc'[i] = "release" /\ ipc[i] = "write" /\ UNCHANGED <<placed, asread, target, at, lone>>
        /\ \A k \in Install : k # i => ipc'[k] = ipc[k]
    BY <1>8 DEF WriteHooks, Step, Rest
  <2>2. hookfile'[target[i]] = [ev \in Event |-> Written(i, ev)]
    BY <1>8 DEF WriteHooks, Written
  <2>3. \A ev \in Event : GatedBy(Written(i, ev), at[i]) /\ Written(i, ev) \in Seq(Handler)
    BY <2>1, WrittenFacts
  <2>4. hookfile'[target[i]] # Garbled
    BY <2>2, <2>3, LocalHooksAssumption
  <2>5. RunOK(i)'
    <3>1. \A ev \in Event : GatedBy(hookfile'[target[i]][ev], at[i])
      BY <2>2, <2>3
    <3>2. \A ev \in Event : GatedBy(hookfile[target[i]][ev], at[i])'
      BY <2>1, <3>1
    <3> QED BY <2>1, <2>4, <3>2 DEF RunInv, RunOK, InFile
  <2>6. \A k \in Install : k # i => RunOK(k)'
    BY <2>1 DEF RunInv, RunOK, InFile
  <2> QED BY <2>5, <2>6 DEF RunInv
<1>9. ASSUME NEW i \in Install, ReleaseInstall(i)
      PROVE  RunInv'
  BY <1>9, EndKeepsRuns DEF ReleaseInstall
<1>10. ASSUME NEW i \in Install, InstallFails(i)
       PROVE  RunInv'
  BY <1>10, EndKeepsRuns DEF InstallFails
<1>11. ASSUME NEW i \in Install, KillInstall(i)
       PROVE  RunInv'
  <2>1. EndRun(i, FALSE) /\ UNCHANGED <<hookfile, placed>>
    BY <1>11 DEF KillInstall
  <2> QED BY <2>1, EndKeepsRuns
\* An edit leaves no run lone.
<1>12. ASSUME UNCHANGED <<placed, ipc, target, at, asread>>,
              \A i \in Install : lone'[i] => ipc[i] = "off"
       PROVE  RunInv'
  BY <1>12 DEF RunInv, RunOK, InFile
<1>13. ASSUME NEW f \in Files, TearFile(f)
       PROVE  RunInv'
  BY <1>12, <1>13 DEF TearFile
<1>14. ASSUME NEW f \in Files, NEW ev \in Event,
              AddHandler(f, ev) \/ RemoveHandler(f, ev) \/ CopyHandler(f, ev)
       PROVE  RunInv'
  <2>1. PICK s : Touch(f, ev, s)
    BY <1>14 DEF AddHandler, RemoveHandler, CopyHandler
  <2> QED BY <1>12, <2>1 DEF Touch
<1>15. ASSUME UNCHANGED <<hookfile, placed, irunVars>>
       PROVE  RunInv'
  BY <1>15 DEF irunVars, RunInv, RunOK, InFile
<1>16. ASSUME NEW e \in Engine, LockGoesStale(e)
       PROVE  RunInv'
  BY <1>15, <1>16 DEF LockGoesStale
<1>17. ASSUME UNCHANGED installVars
       PROVE  RunInv'
  BY <1>15, <1>17 DEF installVars
<1> QED
  BY <1>1, <1>3, <1>4, <1>5, <1>6, <1>7, <1>8, <1>9, <1>10, <1>11, <1>13, <1>14, <1>16, <1>17
  DEF InstallNext

LEMMA LatestStep ==
  ASSUME InstallTypeOK, RunInv, LatestInv, [InstallNext]_installVars
  PROVE  LatestInv'
<1> USE DEF InstallTypeOK
<1>1. ASSUME NEW i \in Install, EndRun(i, FALSE)
      PROVE  LatestInv'
  BY <1>1 DEF EndRun, LatestInv, Settled, Disturbed
<1>2. ASSUME NEW i \in Install, ipc'[i] # "off"
      PROVE  LatestInv'
  BY <1>2 DEF LatestInv, Settled
<1>3. ASSUME NEW i \in Install, ReleaseInstall(i)
      PROVE  LatestInv'
  <2>1. CASE lone[i]
    <3>1. latest' = [file |-> target[i], engine |-> at[i]] /\ hookfile' = hookfile
      BY <1>3, <2>1 DEF ReleaseInstall, EndRun
    <3>2. /\ at[i] \in Engine /\ hookfile[target[i]] # Garbled
          /\ \A ev \in Event : GatedBy(hookfile[target[i]][ev], at[i])
      BY <1>3, <2>1 DEF ReleaseInstall, RunInv, RunOK
    <3> QED BY <3>1, <3>2 DEF LatestInv
  <2>2. CASE ~lone[i]
    BY <1>3, <2>2 DEF ReleaseInstall, EndRun, LatestInv, Settled
  <2> QED BY <2>1, <2>2
<1>4. ASSUME NEW i \in Install,
             StartInstall(i) \/ ClaimInstallLock(i) \/ PlaceEngineBinary(i)
             \/ ReadHooks(i) \/ WriteHooks(i)
      PROVE  LatestInv'
  <2>1. ipc'[i] # "off"
    BY <1>4 DEF StartInstall, ClaimInstallLock, PlaceEngineBinary, ReadHooks, WriteHooks, Step
  <2> QED BY <1>2, <2>1
<1>5. ASSUME NEW i \in Install, StatInstallLock(i) \/ ReclaimInstallLock(i)
      PROVE  LatestInv'
  <2>1. EndRun(i, FALSE) \/ ipc'[i] # "off"
    BY <1>5 DEF StatInstallLock, ReclaimInstallLock, Step
  <2> QED BY <1>1, <1>2, <2>1
<1>6. ASSUME NEW i \in Install, InstallFails(i) \/ KillInstall(i)
      PROVE  LatestInv'
  <2>1. EndRun(i, FALSE)
    BY <1>6 DEF InstallFails, KillInstall
  <2> QED BY <1>1, <2>1
<1>7. ASSUME latest' = Disturbed
      PROVE  LatestInv'
  BY <1>7 DEF LatestInv, Settled, Disturbed
<1>8. ASSUME NEW f \in Files, NEW ev \in Event,
             AddHandler(f, ev) \/ RemoveHandler(f, ev) \/ CopyHandler(f, ev)
      PROVE  LatestInv'
  BY <1>7, <1>8 DEF AddHandler, RemoveHandler, CopyHandler, Touch
<1>9. ASSUME UNCHANGED <<hookfile, latest, ipc>>
      PROVE  LatestInv'
  BY <1>9 DEF LatestInv, Settled
<1>10. ASSUME NEW e \in Engine, LockGoesStale(e)
       PROVE  LatestInv'
  BY <1>9, <1>10 DEF LockGoesStale, irunVars
<1>11. ASSUME UNCHANGED installVars
       PROVE  LatestInv'
  BY <1>9, <1>11 DEF installVars, irunVars
<1>12. ASSUME NEW f \in Files, TearFile(f)
       PROVE  LatestInv'
  BY <1>7, <1>12 DEF TearFile
<1> QED BY <1>3, <1>4, <1>5, <1>6, <1>8, <1>10, <1>11, <1>12 DEF InstallNext

\* What the steps do to the files.
LEMMA FilesStep ==
  ASSUME InstallTypeOK, [InstallNext]_installVars
  PROVE  \/ \E i \in Install : ipc[i] = "write" /\ WriteHooks(i)
         \/ \E f \in Files, ev \in Event, s \in Seq(Handler) :
              /\ Touch(f, ev, s) /\ hookfile[f] # Garbled
              /\ Engines(s) \subseteq Engines(hookfile[f][ev]) \cup {NoEngine}
         \/ \E f \in Files : TearFile(f)
         \/ UNCHANGED <<hookfile, yours, raced>> /\ placed \subseteq placed'
<1>1. ASSUME NEW f \in Files, NEW ev \in Event,
             AddHandler(f, ev) \/ RemoveHandler(f, ev) \/ CopyHandler(f, ev)
      PROVE  \E s \in Seq(Handler) :
               /\ Touch(f, ev, s) /\ hookfile[f] # Garbled
               /\ Engines(s) \subseteq Engines(hookfile[f][ev]) \cup {NoEngine}
  <2> DEFINE h == hookfile[f][ev]
  <2>1. hookfile[f] # Garbled /\ h \in Seq(Handler)
    BY <1>1 DEF AddHandler, RemoveHandler, CopyHandler, InstallTypeOK
  <2> HIDE DEF h
  <2>2. ASSUME NEW u \in Seq(Handler), Touch(f, ev, u), Engines(u) \subseteq Engines(h) \cup {NoEngine}
        PROVE  \E s \in Seq(Handler) :
                 /\ Touch(f, ev, s) /\ hookfile[f] # Garbled
                 /\ Engines(s) \subseteq Engines(h) \cup {NoEngine}
    BY <2>1, <2>2
  <2>3. ASSUME AddHandler(f, ev)
        PROVE  \E u \in Seq(Handler) :
                 Touch(f, ev, u) /\ Engines(u) \subseteq Engines(h) \cup {NoEngine}
    <3>1. PICK what \in {"other", "wrapped"} : Touch(f, ev, Append(h, Foreign(what)))
      BY <2>3 DEF AddHandler, h
    <3>2. /\ Append(h, Foreign(what)) \in Seq(Handler)
          /\ Engines(Append(h, Foreign(what))) \subseteq Engines(h) \cup {NoEngine}
      BY <2>1, EditFacts
    <3> QED BY <3>1, <3>2
  <2>4. ASSUME RemoveHandler(f, ev)
        PROVE  \E u \in Seq(Handler) :
                 Touch(f, ev, u) /\ Engines(u) \subseteq Engines(h) \cup {NoEngine}
    <3>1. PICK p \in DOMAIN h :
            Touch(f, ev, SubSeq(h, 1, p - 1) \o SubSeq(h, p + 1, Len(h)))
      BY <2>4 DEF RemoveHandler, h
    <3> DEFINE u == SubSeq(h, 1, p - 1) \o SubSeq(h, p + 1, Len(h))
    <3>2. u \in Seq(Handler) /\ Engines(u) \subseteq Engines(h)
      BY <2>1, EditFacts
    <3>3. Touch(f, ev, u)
      BY <3>1
    <3> HIDE DEF u
    <3> QED BY <3>2, <3>3
  <2>5. ASSUME CopyHandler(f, ev)
        PROVE  \E u \in Seq(Handler) :
                 Touch(f, ev, u) /\ Engines(u) \subseteq Engines(h) \cup {NoEngine}
    <3>1. PICK p \in DOMAIN h : Touch(f, ev, Append(h, h[p]))
      BY <2>5 DEF CopyHandler, h
    <3>2. /\ Append(h, h[p]) \in Seq(Handler)
          /\ Engines(Append(h, h[p])) \subseteq Engines(h)
      BY <2>1, EditFacts
    <3> QED BY <3>1, <3>2
  <2> QED BY <1>1, <2>2, <2>3, <2>4, <2>5 DEF h
<1>2. ASSUME NEW i \in Install, \/ StartInstall(i) \/ ClaimInstallLock(i) \/ StatInstallLock(i)
                                \/ ReclaimInstallLock(i) \/ PlaceEngineBinary(i) \/ ReadHooks(i)
                                \/ ReleaseInstall(i) \/ InstallFails(i) \/ KillInstall(i)
      PROVE  UNCHANGED <<hookfile, yours, raced>> /\ placed \subseteq placed'
  BY <1>2 DEF StartInstall, ClaimInstallLock, StatInstallLock, ReclaimInstallLock,
     PlaceEngineBinary, ReadHooks, ReleaseInstall, InstallFails, KillInstall, EndRun, Rest
<1>3. ASSUME NEW e \in Engine, LockGoesStale(e)
      PROVE  UNCHANGED <<hookfile, yours, raced>> /\ placed \subseteq placed'
  BY <1>3 DEF LockGoesStale
<1>4. ASSUME UNCHANGED installVars
      PROVE  UNCHANGED <<hookfile, yours, raced>> /\ placed \subseteq placed'
  BY <1>4 DEF installVars
<1>5. ASSUME NEW i \in Install, WriteHooks(i)
      PROVE  ipc[i] = "write"
  BY <1>5 DEF WriteHooks
<1> QED BY <1>1, <1>2, <1>3, <1>4, <1>5 DEF InstallNext

LEMMA ForeignStep ==
  ASSUME InstallTypeOK, RunInv, ForeignKept, [InstallNext]_installVars
  PROVE  ForeignKept'
<1> USE DEF InstallTypeOK
<1> SUFFICES ASSUME NEW f \in Files, f \notin raced', hookfile'[f] # Garbled, NEW ev \in Event
             PROVE  ForeignIn(hookfile'[f][ev]) = yours'[f][ev]
  BY DEF ForeignKept
<1>1. ASSUME NEW i \in Install, ipc[i] = "write", WriteHooks(i)
      PROVE  ForeignIn(hookfile'[f][ev]) = yours'[f][ev]
  <2>1. /\ hookfile' = [hookfile EXCEPT ![target[i]] = [e \in Event |-> Written(i, e)]]
        /\ raced \subseteq raced' /\ yours' = yours
        /\ ~lone[i] => target[i] \in raced'
    BY <1>1 DEF WriteHooks, Written, Rest
  <2>2. CASE f = target[i]
    <3>1. hookfile'[f][ev] = Written(i, ev)
      BY <2>1, <2>2
    <3>2. hookfile[f] = asread[i] /\ asread[i] # Garbled
      BY <1>1, <2>1, <2>2, LocalHooksAssumption DEF RunInv, RunOK
    <3>3. ForeignIn(asread[i][ev]) = yours[f][ev]
      BY <2>1, <3>2 DEF ForeignKept
    <3> QED BY <1>1, <2>1, <3>1, <3>3, WrittenFacts
  <2>3. CASE f # target[i]
    BY <2>1, <2>3 DEF ForeignKept
  <2> QED BY <2>2, <2>3
<1>2. ASSUME NEW g \in Files, NEW e \in Event, NEW s \in Seq(Handler), Touch(g, e, s)
      PROVE  ForeignIn(hookfile'[f][ev]) = yours'[f][ev]
  <2>1. /\ hookfile' = [hookfile EXCEPT ![g][e] = s] /\ hookfile[g] # Garbled
        /\ yours' = [yours EXCEPT ![g][e] = ForeignIn(s)] /\ raced' = raced
    BY <1>2 DEF Touch
  <2>2. CASE f = g /\ ev = e
    BY <2>1, <2>2
  <2>3. CASE f # g \/ ev # e
    <3>1. hookfile'[f][ev] = hookfile[f][ev] /\ yours'[f][ev] = yours[f][ev] /\ hookfile[f] # Garbled
      BY <2>1, <2>3
    <3> QED BY <2>1, <3>1 DEF ForeignKept
  <2> QED BY <2>2, <2>3
<1>3. ASSUME NEW g \in Files, TearFile(g)
      PROVE  ForeignIn(hookfile'[f][ev]) = yours'[f][ev]
  BY <1>3 DEF TearFile, ForeignKept
<1>4. ASSUME UNCHANGED <<hookfile, yours, raced>>
      PROVE  ForeignIn(hookfile'[f][ev]) = yours'[f][ev]
  BY <1>4 DEF ForeignKept
<1> QED BY <1>1, <1>2, <1>3, <1>4, FilesStep

LEMMA EngineStep ==
  ASSUME InstallTypeOK, RunInv, EngineBeforeHooks, [InstallNext]_installVars
  PROVE  EngineBeforeHooks'
<1> USE DEF InstallTypeOK
<1> DEFINE set == "settings"
<1> SUFFICES ASSUME hookfile'[set] # Garbled, NEW ev \in Event
             PROVE  Engines(hookfile'[set][ev]) \subseteq placed' \cup {NoEngine}
  BY DEF EngineBeforeHooks, Engines
<1>0. set \in Files /\ (hookfile[set] # Garbled =>
        \A e \in Event : Engines(hookfile[set][e]) \subseteq placed \cup {NoEngine})
  BY DEF EngineBeforeHooks, Engines, Files
<1> HIDE DEF set
<1>1. ASSUME NEW i \in Install, ipc[i] = "write", WriteHooks(i)
      PROVE  Engines(hookfile'[set][ev]) \subseteq placed' \cup {NoEngine}
  <2>1. /\ hookfile' = [hookfile EXCEPT ![target[i]] = [e \in Event |-> Written(i, e)]]
        /\ placed' = placed
    BY <1>1 DEF WriteHooks, Written, Rest
  <2>2. CASE target[i] = set
    <3>1. hookfile'[set][ev] = Written(i, ev)
      BY <1>0, <2>1, <2>2
    <3>2. Engines(Written(i, ev)) \subseteq Engines(asread[i][ev]) \cup {at[i]}
      BY <1>1, <2>2, WrittenFacts DEF set
    <3>3. Engines(asread[i][ev]) \subseteq placed \cup {NoEngine} /\ at[i] \in placed
      BY <1>1, <2>2 DEF RunInv, RunOK, InFile, set
    <3> QED BY <2>1, <3>1, <3>2, <3>3
  <2>3. CASE target[i] # set
    BY <1>0, <2>1, <2>3
  <2> QED BY <2>2, <2>3
<1>2. ASSUME NEW g \in Files, NEW e \in Event, NEW s \in Seq(Handler), Touch(g, e, s),
             Engines(s) \subseteq Engines(hookfile[g][e]) \cup {NoEngine}
      PROVE  Engines(hookfile'[set][ev]) \subseteq placed' \cup {NoEngine}
  <2>1. /\ hookfile' = [hookfile EXCEPT ![g][e] = s] /\ hookfile[g] # Garbled /\ placed' = placed
    BY <1>2 DEF Touch
  <2>2. CASE set = g /\ ev = e
    <3>1. hookfile'[set][ev] = s
      BY <1>0, <2>1, <2>2
    <3> QED BY <1>0, <1>2, <2>1, <2>2, <3>1
  <2>3. CASE set # g \/ ev # e
    <3>1. hookfile'[set][ev] = hookfile[set][ev] /\ hookfile[set] # Garbled
      BY <1>0, <2>1, <2>3
    <3> QED BY <1>0, <2>1, <3>1
  <2> QED BY <2>2, <2>3
<1>3. ASSUME NEW g \in Files, TearFile(g)
      PROVE  Engines(hookfile'[set][ev]) \subseteq placed' \cup {NoEngine}
  BY <1>0, <1>3 DEF TearFile
<1>4. ASSUME UNCHANGED hookfile, placed \subseteq placed'
      PROVE  Engines(hookfile'[set][ev]) \subseteq placed' \cup {NoEngine}
  BY <1>0, <1>4
<1> QED BY <1>1, <1>2, <1>3, <1>4, FilesStep

LEMMA InstallStep == InstallInv /\ [InstallNext]_installVars => InstallInv'
<1> SUFFICES ASSUME InstallInv, [InstallNext]_installVars PROVE InstallInv'
  OBVIOUS
<1>1. InstallTypeOK'
  BY InstallTypeStep DEF InstallInv
<1>2. RunInv'
  BY <1>1, RunsStep DEF InstallInv
<1> QED BY <1>1, <1>2, LatestStep, ForeignStep, EngineStep DEF InstallInv

LEMMA InstallInvariant == InstallSpec => []InstallInv
BY InstallInitInv, InstallStep, PTL DEF InstallSpec

\* What an installer's run is and leaves has its type.
THEOREM InstallTypeCorrect == InstallSpec => []InstallTypeOK
<1>1. InstallInv => InstallTypeOK
  BY DEF InstallInv
<1> QED BY <1>1, InstallInvariant, PTL

\* A run that nobody disturbed and that said success leaves every event gated once,
\* at its engine and in this release's shape, and doctor finds that engine alone.
THEOREM InstallGatesOnce == InstallSpec => []GatedOnceHere
<1>1. InstallInv => GatedOnceHere
  <2> SUFFICES ASSUME InstallInv, Settled PROVE GatedOnceHere
    BY DEF GatedOnceHere
  <2> DEFINE hooks == hookfile[latest.file]
  <2>1. \A ev \in Event : GatedBy(hooks[ev], latest.engine)
    BY DEF InstallInv, LatestInv
  <2> HIDE DEF hooks
  <2>2. \A ev \in Event : \E p \in DOMAIN hooks[ev] :
          OursIn(hooks[ev], "gate") = {p} /\ hooks[ev][p] = Ours(latest.engine, "gate")
    BY <2>1 DEF GatedBy
  <2>3. \A ev \in Event : \A p \in DOMAIN hooks[ev] :
          Owned(hooks[ev][p]) => hooks[ev][p].engine = latest.engine
    BY <2>1 DEF GatedBy
  <2>4. AuditLocalHooks(hooks).engines =
          UNION {{hooks[ev][p].engine : p \in {q \in DOMAIN hooks[ev] : Owned(hooks[ev][q])}}
                   : ev \in Event}
    BY DEF AuditLocalHooks
  <2>5. latest.engine \in AuditLocalHooks(hooks).engines
    <3>1. PICK p \in DOMAIN hooks[Gating] : OursIn(hooks[Gating], "gate") = {p}
      BY <2>2, LocalHooksAssumption
    <3>2. p \in {q \in DOMAIN hooks[Gating] : Owned(hooks[Gating][q])}
      BY <3>1 DEF OursIn
    <3> QED BY <2>3, <2>4, <3>2, LocalHooksAssumption
  <2>6. AuditLocalHooks(hooks).engines \subseteq {latest.engine}
    BY <2>3, <2>4
  <2> QED BY <2>2, <2>5, <2>6 DEF GatedOnceHere, hooks
<1> QED BY <1>1, InstallInvariant, PTL

\* Of any runs and edits, in any order: what is the developer's is all there, unless
\* another writer came between a run's read and its rename.
THEOREM InstallKeepsForeign == InstallSpec => []ForeignKept
<1>1. InstallInv => ForeignKept
  BY DEF InstallInv
<1> QED BY <1>1, InstallInvariant, PTL

\* Wherever a run fails or is killed, what the hooks name is there.
THEOREM InstallEngineFirst == InstallSpec => []EngineBeforeHooks
<1>1. InstallInv => EngineBeforeHooks
  BY DEF InstallInv
<1> QED BY <1>1, InstallInvariant, PTL
=============================================================================
