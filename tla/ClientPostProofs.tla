--------------------------- MODULE ClientPostProofs ---------------------------
(***************************************************************************)
(* Proofs about the client of core: for any calls, events, number of       *)
(* retries and reused connections, and either form of core's answers.      *)
(***************************************************************************)
EXTENDS ClientPost, TLAPS

-----------------------------------------------------------------------------
(* What an answer says, and how the client reads it. *)

LEMMA DecisionRead ==
  ASSUME NEW d \in Verdicts
  PROVE  LET v == ResolveVerdict(WireVerdict(d), WireAction(d))
         IN  v \in Verdicts /\ Effect(v) = Effect(d)
<1> DEFINE v == ResolveVerdict(WireVerdict(d), WireAction(d))
<1> USE DEF Verdicts
<1>1. CASE ~LegacyCore
  <2>1. \E w \in DOMAIN WireToVerdict : WireToVerdict[w] = d
    BY DEF WireToVerdict
  <2>2. WireVerdict(d) \in DOMAIN WireToVerdict /\ WireToVerdict[WireVerdict(d)] = d
    BY <1>1, <2>1 DEF WireVerdict
  <2>3. v = d
    BY <2>2 DEF ResolveVerdict
  <2> QED BY <2>3
<1>2. CASE LegacyCore
  <2>1. WireVerdict(d) \notin DOMAIN WireToVerdict
    BY <1>2 DEF WireVerdict, Absent, WireToVerdict
  <2>2. v = IF WireAction(d) \in DOMAIN LegacyActionToVerdict
            THEN LegacyActionToVerdict[WireAction(d)] ELSE Unknown
    BY <2>1 DEF ResolveVerdict
  <2>3. DOMAIN LegacyActionToVerdict = {"continue", "require-approval", "stop"}
    BY DEF LegacyActionToVerdict
  <2>4. CASE d \in {"BLOCK", "HALT"}
    <3>1. WireAction(d) = "stop"
      BY <2>4 DEF WireAction
    <3>2. v = "BLOCK"
      BY <2>2, <2>3, <3>1 DEF LegacyActionToVerdict
    <3>3. \A x \in {"BLOCK", "HALT"} : Effect(x) = "stop"
      BY DEF Effect, Unknown
    <3> QED BY <2>4, <3>2, <3>3
  <2>5. CASE d = "REQUIRE_APPROVAL"
    <3>1. WireAction(d) = "require-approval"
      BY <2>5 DEF WireAction
    <3>2. v = "REQUIRE_APPROVAL"
      BY <2>2, <2>3, <3>1 DEF LegacyActionToVerdict
    <3> QED BY <2>5, <3>2
  <2>6. CASE d \in {"ALLOW", "CONSTRAIN"}
    <3>1. WireAction(d) = "continue"
      BY <2>6 DEF WireAction
    <3>2. v = "ALLOW"
      BY <2>2, <2>3, <3>1 DEF LegacyActionToVerdict
    <3> QED BY <2>6, <3>2 DEF Effect, Unknown
  <2> QED BY <2>4, <2>5, <2>6
<1> QED BY <1>1, <1>2

\* What the client makes of an answer to a row.
Read(d, eval) == /\ eval.body \in Bodies /\ eval = ParseEvaluation(d, eval.body)

LEMMA ParsedIsEvaluation ==
  ASSUME NEW d \in Decisions, NEW body \in Bodies
  PROVE  ParseEvaluation(d, body) \in Evaluations /\ Read(d, ParseEvaluation(d, body))
<1>1. ResolveVerdict(WireVerdict(d), WireAction(d)) \in Verdicts
  BY ClientAssumption, DecisionRead
<1>2. ParseVerdict(d, body) \in Verdicts \cup {Unknown}
  BY <1>1 DEF ParseVerdict
<1> QED BY <1>2 DEF ParseEvaluation, Evaluations, Read

LEMMA ZeroIsEvaluation == ZeroEvaluation \in Evaluations
BY DEF ZeroEvaluation, Evaluations

-----------------------------------------------------------------------------
(***************************************************************************)
(* The inductive invariant.                                                *)
(***************************************************************************)

\* A request on the way to core is of an attempt that was made, and carries the
\* event of its call, twice; only a reused connection carries it a second time.
WireInv ==
  \A q \in wire :
    /\ q.call \notin Malformed
    /\ q.event = EventOf[q.call] /\ q.key = EventOf[q.call]
    /\ phase[q.call] # "idle" /\ q.attempt <= attempts[q.call]
    /\ q.call \notin Reused => q.copy = 0

\* A nonce core has seen was signed for an attempt that was made.
NonceInv ==
  /\ \A n \in nonces : phase[n[1]] # "idle" /\ n[2] <= attempts[n[1]]
  /\ RetryIsNoReplay

\* A row is of a request whose nonce core has seen, and no two are of the same
\* request, or of the same event by keys core knows.
RowInv ==
  /\ \A r \in stored : /\ r.event = EventOf[r.call] /\ r.key = r.event
                       /\ <<r.call, r.attempt>> \in nonces
  /\ \A r, s \in stored : r # s =>
       /\ r.event = s.event => ~(r.keyed /\ s.keyed)
       /\ r.call = s.call   => r.attempt # s.attempt

\* No attempt is made after a 2xx was read.
HeardInv == \A h \in heard : phase[h[1]] = "done" /\ attempts[h[1]] = h[2]

\* Attempt n of call c may be told eval.
Told(c, n, eval) ==
  \E r \in stored : /\ r.event = EventOf[c]
                    /\ r.keyed \/ (r.call = c /\ r.attempt = n)
                    /\ Read(r.verdict, eval)

\* An answer is to the attempt under way, and a good one reads a row of the event.
AnswerInv ==
  \A a \in answers :
    /\ phase[a.call] = "flight" /\ attempts[a.call] = a.attempt
    /\ a.status = "2xx" => Told(a.call, a.attempt, a.eval)

CallInv ==
  \A c \in Calls :
    /\ phase[c] # "done" => result[c] = [err |-> "none", eval |-> ZeroEvaluation]
    /\ phase[c] = "done" => result[c].err # "none"
    /\ phase[c] \in {"flight", "backoff"} => c \notin Malformed
    /\ phase[c] = "idle" => attempts[c] = 0
    /\ phase[c] = "backoff" => attempts[c] < MaxRetries
    /\ result[c].err = "ErrUnbuildable" => c \in Malformed
    /\ result[c].err = "nil" => Told(c, attempts[c], result[c].eval)
    /\ result[c].err # "nil" => result[c].eval = ZeroEvaluation

ClientInv == /\ ClientTypeOK /\ WireInv /\ NonceInv /\ RowInv /\ HeardInv
             /\ AnswerInv /\ CallInv

LEMMA ClientInitInv == ClientInit => ClientInv
<1> SUFFICES ASSUME ClientInit PROVE ClientInv
  OBVIOUS
<1> USE ClientAssumption, ZeroIsEvaluation DEF ClientInit
<1>1. ClientTypeOK
  <2>1. attempts \in [Calls -> Attempts] /\ phase \in [Calls -> Phases]
    BY DEF Phases, Attempts
  <2>2. result \in [Calls -> [err : Errors, eval : Evaluations]]
    BY DEF Errors
  <2> QED BY <2>1, <2>2 DEF ClientTypeOK
<1>2. WireInv /\ NonceInv /\ RowInv /\ HeardInv /\ AnswerInv
  BY DEF WireInv, NonceInv, RetryIsNoReplay, RowInv, HeardInv, AnswerInv
<1>3. CallInv
  BY DEF CallInv
<1> QED BY <1>1, <1>2, <1>3 DEF ClientInv

-----------------------------------------------------------------------------
(* The steps. *)

\* A call leaves an attempt, a backoff or nothing for another attempt, an answer
\* or its end.
LEMMA CallMoves ==
  ASSUME ClientInv, NEW c \in Calls, NEW p \in {"backoff", "done", "killed"},
         NEW r \in [err : Errors, eval : Evaluations], phase[c] # "done",
         phase' = [phase EXCEPT ![c] = p], result' = [result EXCEPT ![c] = r],
         p # "done" => r = [err |-> "none", eval |-> ZeroEvaluation],
         p = "done" => r.err # "none",
         p = "backoff" => attempts[c] < MaxRetries /\ c \notin Malformed,
         r.err = "ErrUnbuildable" => c \in Malformed,
         r.err = "nil" => Told(c, attempts[c], r.eval),
         r.err # "nil" => r.eval = ZeroEvaluation,
         heard' \subseteq heard \cup (IF p = "done" THEN {<<c, attempts[c]>>} ELSE {}),
         Hangup(c), UNCHANGED <<attempts, wire, core>>
  PROVE  ClientInv'
<1> USE DEF ClientInv
<1>1. UNCHANGED <<attempts, wire, nonces, stored, honours>> /\ answers' \subseteq answers
  BY DEF core, Hangup
<1>2. ClientTypeOK'
  <2>1. phase' \in [Calls -> Phases] /\ result' \in [Calls -> [err : Errors, eval : Evaluations]]
    BY DEF ClientTypeOK, Phases
  <2>2. heard' \subseteq Calls \X Attempts
    BY DEF ClientTypeOK
  <2> QED BY <1>1, <2>1, <2>2 DEF ClientTypeOK
<1>3. /\ \A x \in Calls \ {c} : phase'[x] = phase[x] /\ result'[x] = result[x]
      /\ phase'[c] = p /\ result'[c] = r
  BY DEF ClientTypeOK
<1>4. WireInv'
  BY <1>1, <1>3 DEF WireInv, ClientTypeOK, Requests
<1>5. NonceInv'
  BY <1>1, <1>3 DEF NonceInv, RetryIsNoReplay, ClientTypeOK
<1>6. RowInv'
  BY <1>1 DEF RowInv
<1>7. AnswerInv'
  <2>1. \A a \in answers' : a \in answers /\ a.call \in Calls \ {c}
    BY DEF Hangup, ClientTypeOK, Responses
  <2> QED BY <1>1, <1>3, <2>1 DEF AnswerInv, Told
<1>8. CallInv'
  BY <1>1, <1>3 DEF CallInv, Told
<1>9. HeardInv'
  <2>1. ASSUME NEW h \in heard' PROVE phase'[h[1]] = "done" /\ attempts[h[1]] = h[2]
    <3>1. CASE h \in heard
      BY <1>3, <3>1 DEF HeardInv, ClientTypeOK
    <3>2. CASE h \notin heard
      BY <1>3, <2>1, <3>2
    <3> QED BY <3>1, <3>2
  <2> QED BY <1>1, <2>1 DEF HeardInv
<1> QED BY <1>2, <1>4, <1>5, <1>6, <1>7, <1>8, <1>9

\* A call makes an attempt it has not made.
LEMMA AttemptInv ==
  ASSUME ClientInv, NEW c \in Calls \ Malformed, NEW n \in Attempts, Attempt(c, n),
         phase[c] = "idle" \/ (phase[c] = "backoff" /\ attempts[c] < n)
  PROVE  ClientInv'
<1> USE DEF ClientInv
<1> DEFINE q == [call |-> c, attempt |-> n, event |-> EventOf[c],
                 key |-> EventOf[c], copy |-> 0]
<1>1. /\ phase' = [phase EXCEPT ![c] = "flight"] /\ attempts' = [attempts EXCEPT ![c] = n]
      /\ wire' = wire \cup {q} /\ UNCHANGED <<result, answers, nonces, stored, honours, heard>>
  BY DEF Attempt, core, IdempotencyKey
<1>2. ClientTypeOK'
  <2>1. q \in Requests
    BY ClientAssumption DEF Requests
  <2>2. phase' \in [Calls -> Phases] /\ attempts' \in [Calls -> Attempts]
    BY <1>1 DEF ClientTypeOK, Phases
  <2> HIDE DEF q
  <2> QED BY <1>1, <2>1, <2>2 DEF ClientTypeOK
<1>3. /\ \A x \in Calls \ {c} : phase'[x] = phase[x] /\ attempts'[x] = attempts[x]
      /\ phase'[c] = "flight" /\ attempts'[c] = n
  BY <1>1 DEF ClientTypeOK
<1>4. phase[c] # "idle" => attempts[c] <= n
  BY DEF ClientTypeOK, Attempts
<1>5. WireInv'
  <2>1. ASSUME NEW w \in wire
        PROVE  phase'[w.call] # "idle" /\ w.attempt <= attempts'[w.call]
    <3>1. /\ w.call \in Calls /\ w.attempt \in Nat /\ attempts[w.call] \in Nat /\ n \in Nat
          /\ phase[w.call] # "idle" /\ w.attempt <= attempts[w.call]
      BY <2>1, ClientAssumption DEF WireInv, ClientTypeOK, Requests, Attempts
    <3> QED BY <1>3, <1>4, <3>1
  <2>2. q.attempt <= attempts'[q.call] /\ phase'[q.call] # "idle"
    BY <1>3 DEF Attempts
  <2> QED BY <1>1, <2>1, <2>2 DEF WireInv
<1>6. NonceInv'
  <2>1. ASSUME NEW m \in nonces PROVE phase'[m[1]] # "idle" /\ m[2] <= attempts'[m[1]]
    <3>1. /\ m[1] \in Calls /\ m[2] \in Nat /\ attempts[m[1]] \in Nat /\ n \in Nat
          /\ phase[m[1]] # "idle" /\ m[2] <= attempts[m[1]]
      BY <2>1, ClientAssumption DEF NonceInv, ClientTypeOK, Attempts
    <3> QED BY <1>3, <1>4, <3>1
  <2>2. <<c, n>> \notin nonces
    BY DEF NonceInv, ClientTypeOK, Attempts
  <2>3. RetryIsNoReplay'
    BY <1>1, <2>2 DEF NonceInv, RetryIsNoReplay, NonceOf
  <2> QED BY <1>1, <2>1, <2>3 DEF NonceInv
<1>7. RowInv' /\ HeardInv'
  BY <1>1, <1>3 DEF RowInv, HeardInv, ClientTypeOK
<1>8. AnswerInv'
  <2>1. \A a \in answers : a.call \in Calls \ {c}
    BY DEF AnswerInv, ClientTypeOK, Responses
  <2> QED BY <1>1, <1>3, <2>1 DEF AnswerInv, Told
<1>9. CallInv'
  BY <1>1, <1>3 DEF CallInv, Told, ClientTypeOK
<1> QED BY <1>2, <1>5, <1>6, <1>7, <1>8, <1>9

\* Core takes a request, with or without its nonce, a row and an answer.
LEMMA CoreMoves ==
  ASSUME ClientInv, NEW q \in wire, NEW status \in Statuses, NEW eval \in Evaluations,
         Taken(q), Answer(q, status, eval), UNCHANGED <<phase, attempts, result>>,
         nonces' \in {nonces, nonces \cup {NonceOf(q)}},
         UNCHANGED <<honours, heard>>,
         stored \subseteq stored', RowInv', stored' \subseteq Rows,
         status = "2xx" => Told(q.call, q.attempt, eval)'
  PROVE  ClientInv'
<1> USE DEF ClientInv
<1>1. /\ q.call \in Calls /\ q.attempt \in Attempts /\ wire' \subseteq wire
      /\ phase[q.call] # "idle" /\ q.attempt <= attempts[q.call]
  BY DEF ClientTypeOK, Requests, Taken, WireInv
<1>2. ASSUME NEW a \in answers', a \notin answers
      PROVE  /\ a = [call |-> q.call, attempt |-> q.attempt, status |-> status, eval |-> eval]
             /\ phase[q.call] = "flight" /\ attempts[q.call] = q.attempt
  BY <1>2 DEF Answer
<1>3. ClientTypeOK'
  <2>1. answers' \subseteq Responses
    BY <1>1, <1>2 DEF ClientTypeOK, Responses
  <2>2. nonces' \subseteq Calls \X Attempts
    BY <1>1 DEF ClientTypeOK, NonceOf
  <2> QED BY <1>1, <2>1, <2>2 DEF ClientTypeOK
<1>4. WireInv'
  BY <1>1 DEF WireInv
<1>5. NonceInv'
  <2>1. \A n \in nonces' : phase[n[1]] # "idle" /\ n[2] <= attempts[n[1]]
    BY <1>1 DEF NonceInv, NonceOf
  <2>2. ASSUME NEW w \in wire', w.call \notin Reused PROVE NonceOf(w) \notin nonces'
    <3>1. w \in wire /\ w # q
      BY <2>2 DEF Taken
    <3>2. NonceOf(w) \notin nonces
      BY <2>2, <3>1 DEF NonceInv, RetryIsNoReplay
    <3>3. ASSUME NonceOf(w) = NonceOf(q) PROVE FALSE
      <4>1. w.call = q.call /\ w.attempt = q.attempt
        BY <3>3 DEF NonceOf
      <4>2. w.event = q.event /\ w.key = q.key /\ w.copy = 0 /\ q.copy = 0
        BY <2>2, <3>1, <4>1 DEF WireInv
      <4>3. w \in Requests /\ q \in Requests
        BY <3>1 DEF ClientTypeOK
      <4> QED BY <3>1, <4>1, <4>2, <4>3 DEF Requests
    <3> QED BY <3>2, <3>3
  <2> QED BY <2>1, <2>2 DEF NonceInv, RetryIsNoReplay
<1>6. \A c, m, e : Told(c, m, e) => Told(c, m, e)'
  BY DEF Told
<1>7. AnswerInv'
  BY <1>2, <1>6 DEF AnswerInv
<1>8. CallInv' /\ HeardInv'
  BY <1>6 DEF CallInv, HeardInv
<1> QED BY <1>3, <1>4, <1>5, <1>7, <1>8

\* The row a request finds or makes: one of its event, and of itself unless core
\* knew the key; with it the rows are still told apart.
RowTaken(q, r) ==
  /\ r \in Rows /\ r.event = EventOf[q.call]
  /\ r.keyed \/ (r.call = q.call /\ r.attempt = q.attempt)
  /\ RowInv'

LEMMA TakesRow ==
  ASSUME ClientInv, NEW q \in wire, NonceOf(q) \notin nonces,
         NEW r \in IF Known(q) = {} THEN Fresh(q) ELSE Known(q),
         stored' = stored \cup {r}, nonces' = nonces \cup {NonceOf(q)}
  PROVE  RowTaken(q, r)
<1>1. /\ q \in Requests /\ q.event = EventOf[q.call] /\ q.key = q.event
  BY DEF ClientInv, ClientTypeOK, WireInv
<1>2. CASE Known(q) # {}
  <2>1. r \in stored /\ r.keyed /\ r.key = q.key
    BY <1>2 DEF Known
  <2>2. r \in Rows /\ r.event = EventOf[q.call] /\ stored' = stored
    BY <1>1, <2>1 DEF ClientInv, ClientTypeOK, RowInv
  <2>3. RowInv'
    BY <2>2 DEF ClientInv, RowInv
  <2> QED BY <2>1, <2>2, <2>3 DEF RowTaken
<1>3. CASE Known(q) = {}
  <2>1. PICK d \in Decisions :
          r = [call |-> q.call, attempt |-> q.attempt, copy |-> q.copy, event |-> q.event,
               key |-> q.key, keyed |-> honours, verdict |-> d]
    BY <1>3 DEF Fresh
  <2>2. /\ r \in Rows /\ r.event = EventOf[q.call] /\ r.key = r.event
        /\ r.call = q.call /\ r.attempt = q.attempt /\ <<r.call, r.attempt>> = NonceOf(q)
        /\ r.keyed = honours
    BY <1>1, <2>1 DEF Requests, Rows, NonceOf, ClientInv, ClientTypeOK
  <2>3. ASSUME NEW s \in stored
        PROVE  /\ r.event = s.event => ~(r.keyed /\ s.keyed)
               /\ r.call = s.call   => r.attempt # s.attempt
    <3>1. s.key = s.event /\ <<s.call, s.attempt>> \in nonces
      BY DEF ClientInv, RowInv
    <3>2. ~(honours /\ s.keyed /\ s.key = q.key)
      BY <1>3 DEF Known
    <3> QED BY <1>1, <2>2, <3>1, <3>2
  <2>4. RowInv'
    BY <2>2, <2>3 DEF ClientInv, RowInv
  <2> QED BY <2>2, <2>4 DEF RowTaken
<1> QED BY <1>2, <1>3

\* A failed attempt ends the call with an error or puts it into its backoff.
LEMMA FailedMoves ==
  ASSUME ClientInv, NEW c \in Calls, NEW retryable \in BOOLEAN, phase[c] = "flight",
         Failed(c, retryable), Hangup(c), UNCHANGED <<attempts, wire, core, heard>>
  PROVE  ClientInv'
<1> USE ZeroIsEvaluation DEF ClientInv, CallInv
<1>1. CASE retryable /\ attempts[c] < MaxRetries
  <2>1. /\ phase' = [phase EXCEPT ![c] = "backoff"]
        /\ result' = [result EXCEPT ![c] = [err |-> "none", eval |-> ZeroEvaluation]]
    BY <1>1 DEF Failed, ClientTypeOK
  <2> QED BY <1>1, <2>1, CallMoves DEF Errors
<1>2. CASE ~(retryable /\ attempts[c] < MaxRetries)
  <2>1. /\ phase' = [phase EXCEPT ![c] = "done"]
        /\ result' = [result EXCEPT ![c] = [err |-> "ErrDelivery", eval |-> ZeroEvaluation]]
    BY <1>2 DEF Failed, Return
  <2> QED BY <2>1, CallMoves DEF Errors
<1> QED BY <1>1, <1>2

\* No answer is on its way to a call that makes no attempt.
LEMMA NobodyAnswers ==
  ASSUME ClientInv, NEW c \in Calls, phase[c] # "flight", UNCHANGED answers
  PROVE  Hangup(c)
BY DEF ClientInv, AnswerInv, Hangup

LEMMA ClientNextInv == ClientInv /\ [ClientNext]_clientVars => ClientInv'
<1> SUFFICES ASSUME ClientInv, [ClientNext]_clientVars PROVE ClientInv'
  OBVIOUS
<1>1. ASSUME NEW c \in Calls, EmitUnbuildable(c) PROVE ClientInv'
  <2>1. /\ phase[c] = "idle" /\ c \in Malformed /\ phase' = [phase EXCEPT ![c] = "done"]
        /\ result' = [result EXCEPT ![c] = [err |-> "ErrUnbuildable", eval |-> ZeroEvaluation]]
        /\ UNCHANGED <<attempts, wire, answers, core, heard>>
    BY <1>1 DEF EmitUnbuildable, Return
  <2> QED BY <2>1, NobodyAnswers, CallMoves, ZeroIsEvaluation DEF Errors
<1>2. ASSUME NEW c \in Calls, Emit(c) PROVE ClientInv'
  <2>1. 0 \in Attempts
    BY ClientAssumption DEF Attempts
  <2> QED BY <1>2, <2>1, AttemptInv DEF Emit
<1>3. ASSUME NEW c \in Calls, TransportError(c) PROVE ClientInv'
  BY <1>3, FailedMoves DEF TransportError
<1>4. ASSUME NEW c \in Calls, BackoffOver(c) PROVE ClientInv'
  <2>1. attempts[c] + 1 \in Attempts /\ attempts[c] < attempts[c] + 1 /\ c \notin Malformed
    BY <1>4, ClientAssumption DEF BackoffOver, ClientInv, ClientTypeOK, CallInv, Attempts
  <2> QED BY <1>4, <2>1, AttemptInv DEF BackoffOver
<1>5. ASSUME NEW c \in Calls, ContextDone(c) PROVE ClientInv'
  <2>1. /\ phase[c] = "backoff" /\ phase' = [phase EXCEPT ![c] = "done"]
        /\ result' = [result EXCEPT ![c] = [err |-> "ErrDelivery", eval |-> ZeroEvaluation]]
        /\ UNCHANGED <<attempts, wire, answers, core, heard>>
    BY <1>5 DEF ContextDone, Return
  <2> QED BY <2>1, NobodyAnswers, CallMoves, ZeroIsEvaluation DEF Errors
<1>6. ASSUME NEW c \in Calls, KillCaller(c) PROVE ClientInv'
  <2>1. /\ phase' = [phase EXCEPT ![c] = "killed"]
        /\ result' = [result EXCEPT ![c] = [err |-> "none", eval |-> ZeroEvaluation]]
        /\ phase[c] # "done" /\ Hangup(c) /\ UNCHANGED <<attempts, wire, core, heard>>
    BY <1>6 DEF KillCaller, ClientInv, CallInv, ClientTypeOK
  <2> QED BY <2>1, CallMoves, ZeroIsEvaluation DEF Errors
<1>7. ASSUME NEW a \in answers, ReadResponse(a) PROVE ClientInv'
  <2>1. a.call \in Calls /\ a.eval \in Evaluations
    BY DEF ClientInv, ClientTypeOK, Responses
  <2>2. CASE a.status = "2xx"
    <3>1. /\ phase' = [phase EXCEPT ![a.call] = "done"]
          /\ result' = [result EXCEPT ![a.call] = [err |-> "nil", eval |-> a.eval]]
          /\ Hangup(a.call) /\ UNCHANGED <<attempts, wire, core>>
          /\ phase[a.call] = "flight" /\ heard' = heard \cup {<<a.call, attempts[a.call]>>}
      BY <1>7, <2>2 DEF ReadResponse, Return, Heard
    <3>2. Told(a.call, attempts[a.call], a.eval)
      BY <2>2 DEF ClientInv, AnswerInv
    <3> QED BY <2>1, <3>1, <3>2, CallMoves DEF Errors
  <2>3. CASE a.status # "2xx"
    <3>1. Retryable(a.status) \in BOOLEAN
      BY DEF Retryable
    <3> QED BY <1>7, <2>1, <2>3, <3>1, FailedMoves DEF ReadResponse, Heard
  <2> QED BY <2>2, <2>3
<1>8. ASSUME NEW q \in wire, TransportReplays(q) PROVE ClientInv'
  <2> DEFINE w == [q EXCEPT !.copy = 1]
  <2>1. /\ wire' = wire \cup {w} /\ q.call \in Reused /\ Hangup(q.call)
        /\ UNCHANGED <<phase, attempts, result, nonces, stored, honours, heard>>
    BY <1>8 DEF TransportReplays, core
  <2>2. /\ w \in Requests /\ w.call = q.call /\ w.attempt = q.attempt /\ w.event = q.event
        /\ w.key = q.key
    BY DEF ClientInv, ClientTypeOK, Requests
  <2> HIDE DEF w
  <2>3. ClientTypeOK'
    BY <2>1, <2>2 DEF ClientInv, ClientTypeOK, Hangup
  <2>4. WireInv'
    BY <2>1, <2>2 DEF ClientInv, WireInv
  <2>5. NonceInv'
    BY <2>1, <2>2 DEF ClientInv, NonceInv, RetryIsNoReplay, NonceOf
  <2>6. RowInv' /\ CallInv' /\ HeardInv'
    BY <2>1 DEF ClientInv, RowInv, CallInv, Told, HeardInv
  <2>7. AnswerInv'
    BY <2>1 DEF ClientInv, AnswerInv, Hangup, Told
  <2> QED BY <2>3, <2>4, <2>5, <2>6, <2>7 DEF ClientInv
<1>9. ASSUME NEW q \in wire, CoreUnavailable(q) \/ CoreRefuses(q) PROVE ClientInv'
  <2>1. PICK status \in {"429", "4xx", "5xx"} : Answer(q, status, ZeroEvaluation)
    BY <1>9 DEF CoreUnavailable, CoreRefuses
  <2>2. /\ Taken(q) /\ UNCHANGED <<phase, attempts, result, stored, honours, heard>>
        /\ nonces' \in {nonces, nonces \cup {NonceOf(q)}}
    BY <1>9 DEF CoreUnavailable, CoreRefuses, core
  <2>3. RowInv' /\ stored' \subseteq Rows
    BY <2>2 DEF ClientInv, RowInv, ClientTypeOK
  <2>4. status \in Statuses /\ status # "2xx" /\ stored \subseteq stored'
    BY <2>2 DEF Statuses
  <2> QED BY <2>1, <2>2, <2>3, <2>4, ZeroIsEvaluation, CoreMoves
<1>10. ASSUME NEW q \in wire, CoreEvaluates(q) PROVE ClientInv'
  <2>1. /\ Taken(q) /\ NonceOf(q) \notin nonces /\ nonces' = nonces \cup {NonceOf(q)}
        /\ UNCHANGED <<phase, attempts, result, honours, heard>>
    BY <1>10 DEF CoreEvaluates
  <2>2. PICK r \in IF Known(q) = {} THEN Fresh(q) ELSE Known(q) :
          /\ stored' = stored \cup {r}
          /\ \/ \E body \in Bodies : Answer(q, "2xx", ParseEvaluation(r.verdict, body))
             \/ Answer(q, "5xx", ZeroEvaluation)
    BY <1>10 DEF CoreEvaluates
  <2>3. RowTaken(q, r)
    BY <2>1, <2>2, TakesRow
  <2>4. RowInv' /\ stored \subseteq stored' /\ stored' \subseteq Rows
    BY <2>1, <2>2, <2>3 DEF RowTaken, ClientInv, ClientTypeOK
  <2>5. ASSUME NEW body \in Bodies, Answer(q, "2xx", ParseEvaluation(r.verdict, body))
        PROVE  ClientInv'
    <3>1. /\ ParseEvaluation(r.verdict, body) \in Evaluations
          /\ Read(r.verdict, ParseEvaluation(r.verdict, body))
      BY <2>3, ParsedIsEvaluation DEF RowTaken, Rows
    <3>2. Told(q.call, q.attempt, ParseEvaluation(r.verdict, body))'
      BY <2>2, <2>3, <3>1 DEF Told, RowTaken
    <3> QED BY <2>1, <2>4, <2>5, <3>1, <3>2, CoreMoves DEF Statuses
  <2>6. ASSUME Answer(q, "5xx", ZeroEvaluation) PROVE ClientInv'
    BY <2>1, <2>4, <2>6, ZeroIsEvaluation, CoreMoves DEF Statuses
  <2> QED BY <2>2, <2>5, <2>6
<1>12. CASE CoreShipsItsHalf
  BY <1>12 DEF CoreShipsItsHalf, ClientInv, ClientTypeOK, WireInv, NonceInv, RetryIsNoReplay,
     RowInv, HeardInv, AnswerInv, CallInv, Told
<1>11. CASE UNCHANGED clientVars
  BY <1>11 DEF clientVars, ClientInv, ClientTypeOK, WireInv, NonceInv, RetryIsNoReplay,
     RowInv, HeardInv, AnswerInv, CallInv, Told
<1> QED
  BY <1>1, <1>2, <1>3, <1>4, <1>5, <1>6, <1>7, <1>8, <1>9, <1>10, <1>11, <1>12 DEF ClientNext

-----------------------------------------------------------------------------
(***************************************************************************)
(* What the client promises.                                               *)
(***************************************************************************)

\* An answer read off a row reads as strict as the row, unless it was cut short.
LEMMA ToldEffect ==
  ASSUME ClientTypeOK, NEW r \in stored, NEW eval, Read(r.verdict, eval)
  PROVE  Effect(eval.verdict) = IF eval.body = "cut" THEN "none" ELSE Effect(r.verdict)
<1>1. r.verdict \in Verdicts
  BY ClientAssumption DEF ClientTypeOK, Rows
<1>2. eval.verdict = ParseVerdict(r.verdict, eval.body)
  BY DEF Read, ParseEvaluation
<1>3. CASE eval.body = "cut"
  <2>1. eval.verdict = Unknown
    BY <1>2, <1>3 DEF ParseVerdict
  <2>2. Effect(Unknown) = "none"
    BY DEF Effect, Unknown
  <2> QED BY <1>3, <2>1, <2>2
<1>4. CASE eval.body # "cut"
  <2>1. eval.verdict = ResolveVerdict(WireVerdict(r.verdict), WireAction(r.verdict))
    BY <1>2, <1>4 DEF ParseVerdict
  <2> QED BY <1>1, <1>4, <2>1, DecisionRead
<1> QED BY <1>3, <1>4

LEMMA InvDoubled == ClientInv => DoubledOnlyUnheard
<1> SUFFICES ASSUME ClientInv, NEW r \in stored, NEW s \in stored, r # s,
                    r.call = s.call, r.attempt < s.attempt
             PROVE  <<r.call, r.attempt>> \notin heard
  BY DEF DoubledOnlyUnheard, ClientInv, RowInv
<1>1. <<s.call, s.attempt>> \in nonces
  BY DEF ClientInv, RowInv
<1>2. s.attempt <= attempts[s.call]
  BY <1>1 DEF ClientInv, NonceInv
<1>3. s.call \in Calls /\ s.attempt \in Nat /\ r.attempt \in Nat /\ attempts[s.call] \in Nat
  BY ClientAssumption DEF ClientInv, ClientTypeOK, Rows, Attempts
<1>4. attempts[r.call] # r.attempt
  BY <1>2, <1>3
<1> QED BY <1>4 DEF ClientInv, HeardInv

LEMMA InvPromises == ClientInv => DoubledOnlyUnheard /\ RetryIsNoReplay /\ VerdictKept
<1> SUFFICES ASSUME ClientInv PROVE VerdictKept
  BY InvDoubled DEF ClientInv, NonceInv
<1>1. ASSUME NEW c \in Calls, result[c].err = "nil"
      PROVE  \E r \in ToldOf(c) :
               Effect(result[c].eval.verdict) =
                 IF result[c].eval.body = "cut" THEN "none" ELSE Effect(r.verdict)
  <2>1. PICK r \in stored : /\ r.event = EventOf[c]
                            /\ r.keyed \/ (r.call = c /\ r.attempt = attempts[c])
                            /\ Read(r.verdict, result[c].eval)
    BY <1>1 DEF ClientInv, CallInv, Told
  <2>2. r \in ToldOf(c)
    BY <2>1 DEF ToldOf
  <2> QED BY <2>1, <2>2, ToldEffect DEF ClientInv
<1> QED BY <1>1 DEF VerdictKept

\* Every variable of the client, the network and core's cache keeps its type:
\* no call makes more attempts than it may (client.go, post).
THEOREM ClientTypeCorrect == ClientSpec => []ClientTypeOK
<1>1. ClientInv => ClientTypeOK
  BY DEF ClientInv
<1> QED BY ClientInitInv, ClientNextInv, <1>1, PTL DEF ClientSpec

\* Whether and whenever core begins to know the keys it is sent: a second row of
\* a call is of an attempt made after another whose 2xx was lost, the copies of
\* one attempt make one row, and rows made with known keys are one an event
\* (client.go: post, attempt; ADR-0009).
THEOREM DoubledOnlyUnheardHolds == ClientSpec => []DoubledOnlyUnheard
BY ClientInitInv, ClientNextInv, InvPromises, PTL DEF ClientSpec

\* No retry is refused as a replay: only a repeat below the client can be
\* (client.go: attempt signs, post does not).
THEOREM RetryIsNoReplayHolds == ClientSpec => []RetryIsNoReplay
BY ClientInitInv, ClientNextInv, InvPromises, PTL DEF ClientSpec

\* A verdict that was returned is as strict as the row the last attempt made or
\* found, in either form of the answer (verdict.go).
THEOREM VerdictKeptHolds == ClientSpec => []VerdictKept
BY ClientInitInv, ClientNextInv, InvPromises, PTL DEF ClientSpec

-----------------------------------------------------------------------------
(***************************************************************************)
(* The client implements Delivery.                                         *)
(***************************************************************************)

\* What Delivery sees of the calls: their outcomes and the verdicts they returned.
Outcomes == [c \in Calls |-> OutcomeOf(c)]
Returned == [c \in Calls |-> result[c].eval.verdict]

\* ... and of a row.
RowSeen(r) == [call |-> r.call, try |-> r.attempt, once |-> r.keyed, verdict |-> r.verdict]
RowsSeen == {RowSeen(r) : r \in stored}

LEMMA StartsAsDelivery == ClientInit => D!DeliveryInit
BY DEF ClientInit, D!DeliveryInit, ZeroEvaluation, OutcomeOf

LEMMA DeliveryStutters ==
  ASSUME UNCHANGED <<stored, honours, attempts, Outcomes, Returned>>
  PROVE  UNCHANGED D!deliveryVars
BY DEF D!deliveryVars, Outcomes, Returned

\* A call is refused or fails.
LEMMA DeliveryFails ==
  ASSUME NEW c \in Calls,
         \/ Outcomes[c] = "none" /\ Outcomes' = [Outcomes EXCEPT ![c] = "refused"]
         \/ Outcomes[c] = "running" /\ Outcomes' = [Outcomes EXCEPT ![c] = "failed"],
         UNCHANGED <<stored, honours, attempts, Returned>>
  PROVE  D!DeliveryNext
<1>1. D!Refuse(c) \/ D!Fail(c)
  BY DEF D!Refuse, D!Fail, Outcomes, Returned
<1> QED BY <1>1 DEF D!DeliveryNext

\* A step of one call: what it does to Outcomes ...
LEMMA CallSeen ==
  ASSUME ClientInv, NEW c \in Calls,
         \A x \in Calls \ {c} : phase'[x] = phase[x] /\ result'[x] = result[x]
  PROVE  /\ Outcomes' = [Outcomes EXCEPT ![c] = OutcomeOf(c)']
         /\ result'[c].eval = result[c].eval => Returned' = Returned
<1>1. \A x \in Calls \ {c} : OutcomeOf(x)' = OutcomeOf(x)
  BY DEF OutcomeOf
<1> QED BY <1>1 DEF Outcomes, Returned

\* ... and to Returned.
LEMMA VerdictSeen ==
  ASSUME NEW c \in Calls, NEW v, result'[c].eval.verdict = v,
         \A x \in Calls \ {c} : result'[x] = result[x]
  PROVE  Returned' = [Returned EXCEPT ![c] = v]
<1> DEFINE of(x)  == result[x].eval.verdict
           new(x) == result'[x].eval.verdict
<1>1. new(c) = v /\ \A x \in Calls \ {c} : new(x) = of(x)
  OBVIOUS
<1> HIDE DEF of, new
<1>2. [x \in Calls |-> new(x)] = [[x \in Calls |-> of(x)] EXCEPT ![c] = v]
  BY <1>1
<1> QED BY <1>2 DEF Returned, of, new

\* A call ends with an error: before its first attempt if it cannot be built, and
\* only then.
LEMMA CallFails ==
  ASSUME ClientInv, NEW c \in Calls, phase[c] \notin {"done", "killed"},
         \A x \in Calls \ {c} : phase'[x] = phase[x] /\ result'[x] = result[x],
         \/ phase'[c] = "killed" /\ phase[c] # "idle"
         \/ phase'[c] = "done" /\ phase[c] # "idle" /\ result'[c].err = "ErrDelivery"
         \/ phase'[c] = "done" /\ phase[c] = "idle" /\ result'[c].err = "ErrUnbuildable",
         result'[c].eval = ZeroEvaluation, UNCHANGED <<stored, honours, attempts>>
  PROVE  D!DeliveryNext
<1>1. result[c].eval = ZeroEvaluation
  BY DEF ClientInv, CallInv
<1>2. /\ phase[c] \in {"idle", "flight", "backoff"}
      /\ Outcomes[c] = OutcomeOf(c)
  BY DEF ClientInv, ClientTypeOK, Phases, Outcomes
<1>3. \/ OutcomeOf(c) = "none" /\ OutcomeOf(c)' = "refused"
      \/ OutcomeOf(c) = "running" /\ OutcomeOf(c)' = "failed"
  BY <1>2 DEF OutcomeOf
<1>4. Returned' = Returned /\ Outcomes' = [Outcomes EXCEPT ![c] = OutcomeOf(c)']
  BY <1>1, CallSeen
<1> QED BY <1>2, <1>3, <1>4, DeliveryFails

\* A call that is under way before and after: what Delivery sees of it.
LEMMA CallGoesOn ==
  ASSUME ClientInv, NEW c \in Calls, UNCHANGED result,
         \A x \in Calls \ {c} : phase'[x] = phase[x],
         phase[c] \in {"flight", "backoff"}, phase'[c] \in {"flight", "backoff"}
  PROVE  Outcomes' = Outcomes /\ Returned' = Returned /\ Outcomes[c] = "running"
<1>1. \A x \in Calls : OutcomeOf(x)' = OutcomeOf(x)
  BY DEF OutcomeOf
<1>2. OutcomeOf(c) = "running"
  BY DEF OutcomeOf
<1> QED BY <1>1, <1>2 DEF Outcomes, Returned

LEMMA FailedSeen ==
  ASSUME ClientInv, NEW c \in Calls, NEW retryable \in BOOLEAN, phase[c] = "flight",
         Failed(c, retryable), UNCHANGED <<stored, honours, attempts>>
  PROVE  [D!DeliveryNext]_(D!deliveryVars)
<1>1. CASE retryable /\ attempts[c] < MaxRetries
  <2>1. phase' = [phase EXCEPT ![c] = "backoff"] /\ result' = result
    BY <1>1 DEF Failed
  <2>2. phase'[c] = "backoff" /\ \A x \in Calls \ {c} : phase'[x] = phase[x]
    BY <2>1 DEF ClientInv, ClientTypeOK
  <2> QED BY <2>1, <2>2, CallGoesOn, DeliveryStutters
<1>2. CASE ~(retryable /\ attempts[c] < MaxRetries)
  <2>1. /\ phase' = [phase EXCEPT ![c] = "done"]
        /\ result' = [result EXCEPT ![c] = [err |-> "ErrDelivery", eval |-> ZeroEvaluation]]
    BY <1>2 DEF Failed, Return
  <2>2. /\ phase'[c] = "done" /\ result'[c] = [err |-> "ErrDelivery", eval |-> ZeroEvaluation]
        /\ \A x \in Calls \ {c} : phase'[x] = phase[x] /\ result'[x] = result[x]
    BY <2>1 DEF ClientInv, ClientTypeOK
  <2> QED BY <2>2, CallFails
<1> QED BY <1>1, <1>2

\* A call that is told of a row succeeds.
LEMMA CallSucceeds ==
  ASSUME ClientInv, NEW c \in Calls, Outcomes[c] = "running",
         UNCHANGED <<stored, honours, attempts>>,
         Outcomes' = [Outcomes EXCEPT ![c] = "ok"],
         NEW r \in stored, r.event = EventOf[c],
         r.keyed \/ (r.call = c /\ r.attempt = attempts[c]),
         NEW v \in {Unknown, Reading[r.verdict]},
         Returned' = [Returned EXCEPT ![c] = v]
  PROVE  D!DeliveryNext
<1> DEFINE rows == {[call |-> s.call, try |-> s.attempt, once |-> s.keyed,
                     verdict |-> s.verdict] : s \in stored}
           row  == [call |-> r.call, try |-> r.attempt, once |-> r.keyed,
                    verdict |-> r.verdict]
<1>1. /\ row \in rows /\ EventOf[row.call] = EventOf[c]
      /\ row.once \/ (row.call = c /\ row.try = attempts[c])
      /\ v \in {Unknown, Reading[row.verdict]}
  BY DEF ClientInv, RowInv
<1>2. rows' = rows
  OBVIOUS
<1>3. \E s \in rows : /\ EventOf[s.call] = EventOf[c]
                      /\ s.once \/ (s.call = c /\ s.try = attempts[c])
                      /\ Returned' \in {[Returned EXCEPT ![c] = w] : w \in {Unknown, Reading[s.verdict]}}
  BY <1>1
<1>4. D!Succeed(c)
  BY <1>2, <1>3 DEF D!Succeed, Outcomes, Returned
<1> QED BY <1>4 DEF D!DeliveryNext

\* Core makes a row.
LEMMA RowMade ==
  ASSUME ClientInv, NEW q \in wire, NonceOf(q) \notin nonces, Known(q) = {},
         NEW r \in Fresh(q), stored' = stored \cup {r},
         UNCHANGED <<phase, attempts, result, honours>>
  PROVE  D!DeliveryNext
<1> DEFINE c == q.call
           t == q.attempt
<1>1. /\ c \in Calls /\ t \in D!Tries /\ t <= attempts[c] /\ q.event = EventOf[c]
      /\ q.key = q.event /\ c \notin Malformed /\ phase[c] # "idle"
  BY DEF ClientInv, ClientTypeOK, Requests, WireInv, Attempts, D!Tries
<1>2. PICK d \in Decisions :
        r = [call |-> q.call, attempt |-> q.attempt, copy |-> q.copy, event |-> q.event,
             key |-> q.key, keyed |-> honours, verdict |-> d]
  BY DEF Fresh
<1>3. RowsSeen' = RowsSeen \cup {[call |-> c, try |-> t, once |-> honours, verdict |-> d]}
  <2>1. RowSeen(r) = [call |-> c, try |-> t, once |-> honours, verdict |-> d]
    BY <1>2 DEF RowSeen
  <2>2. RowsSeen' = RowsSeen \cup {RowSeen(r)}
    BY DEF RowsSeen, RowSeen
  <2> QED BY <2>1, <2>2
<1>4. \A s \in RowsSeen : ~(s.call = c /\ s.try = t)
  <2>1. ASSUME NEW s \in stored PROVE ~(s.call = c /\ s.attempt = t)
    BY DEF ClientInv, RowInv, NonceOf
  <2> QED BY <2>1 DEF RowsSeen, RowSeen
<1>5. honours => \A s \in RowsSeen : s.once => EventOf[s.call] # EventOf[c]
  <2>1. ASSUME honours, NEW s \in stored, s.keyed PROVE EventOf[s.call] # EventOf[c]
    BY <1>1, <2>1 DEF ClientInv, RowInv, Known
  <2> QED BY <2>1 DEF RowsSeen, RowSeen
<1>6. OutcomeOf(c) \in {"running", "ok", "failed"}
  <2>1. phase[c] \in {"flight", "backoff", "killed", "done"} /\ result[c].err # "ErrUnbuildable"
    BY <1>1 DEF ClientInv, ClientTypeOK, Phases, CallInv
  <2> QED BY <2>1 DEF OutcomeOf
<1>7. Outcomes[c] = OutcomeOf(c) /\ Outcomes' = Outcomes /\ Returned' = Returned
  BY <1>1 DEF Outcomes, Returned, OutcomeOf
<1> HIDE DEF c, t
<1>8. D!Store(c, t)
  BY <1>1, <1>3, <1>4, <1>5, <1>6, <1>7
     DEF D!Store, Outcomes, Returned, RowsSeen, RowSeen
<1> QED BY <1>1, <1>8 DEF D!DeliveryNext

LEMMA StepsAsDelivery ==
  ClientInv /\ [ClientNext]_clientVars => [D!DeliveryNext]_(D!deliveryVars)
<1> SUFFICES ASSUME ClientInv, [ClientNext]_clientVars
             PROVE  [D!DeliveryNext]_(D!deliveryVars)
  OBVIOUS
<1>t. /\ phase \in [Calls -> Phases] /\ result \in [Calls -> [err : Errors, eval : Evaluations]]
      /\ attempts \in [Calls -> Attempts]
  BY DEF ClientInv, ClientTypeOK
<1>1. ASSUME NEW c \in Calls, EmitUnbuildable(c) \/ ContextDone(c) PROVE D!DeliveryNext
  <2>1. PICK err \in {"ErrUnbuildable", "ErrDelivery"} :
          /\ result' = [result EXCEPT ![c] = [err |-> err, eval |-> ZeroEvaluation]]
          /\ phase[c] = IF err = "ErrUnbuildable" THEN "idle" ELSE "backoff"
    BY <1>1 DEF EmitUnbuildable, ContextDone, Return
  <2>2. /\ phase' = [phase EXCEPT ![c] = "done"]
        /\ UNCHANGED <<stored, honours, attempts>>
    BY <1>1 DEF EmitUnbuildable, ContextDone, Return, core
  <2>3. /\ phase'[c] = "done" /\ result'[c] = [err |-> err, eval |-> ZeroEvaluation]
        /\ \A x \in Calls \ {c} : phase'[x] = phase[x] /\ result'[x] = result[x]
    BY <1>t, <2>1, <2>2
  <2> QED BY <2>1, <2>2, <2>3, CallFails
<1>2. ASSUME NEW c \in Calls, Emit(c) PROVE D!DeliveryNext
  <2>1. /\ phase[c] = "idle" /\ phase' = [phase EXCEPT ![c] = "flight"]
        /\ attempts' = [attempts EXCEPT ![c] = 0] /\ UNCHANGED <<result, stored, honours>>
    BY <1>2 DEF Emit, Attempt, core
  <2>2. phase'[c] = "flight" /\ \A x \in Calls \ {c} : phase'[x] = phase[x]
    BY <1>t, <2>1
  <2>3. OutcomeOf(c) = "none" /\ OutcomeOf(c)' = "running" /\ Outcomes[c] = OutcomeOf(c)
    BY <2>1, <2>2 DEF OutcomeOf, Outcomes
  <2>4. Outcomes' = [Outcomes EXCEPT ![c] = "running"] /\ Returned' = Returned
    BY <2>1, <2>2, <2>3, CallSeen
  <2>5. attempts' = attempts
    BY <1>t, <2>1 DEF ClientInv, CallInv
  <2>6. D!Start(c)
    BY <2>1, <2>3, <2>4, <2>5 DEF D!Start, Outcomes, Returned
  <2> QED BY <2>6 DEF D!DeliveryNext
<1>3. ASSUME NEW c \in Calls, TransportError(c) PROVE [D!DeliveryNext]_(D!deliveryVars)
  BY <1>3, FailedSeen DEF TransportError, core
<1>4. ASSUME NEW c \in Calls, BackoffOver(c) PROVE D!DeliveryNext
  <2>1. /\ phase[c] = "backoff" /\ phase' = [phase EXCEPT ![c] = "flight"]
        /\ attempts' = [attempts EXCEPT ![c] = attempts[c] + 1]
        /\ UNCHANGED <<result, stored, honours>>
    BY <1>4 DEF BackoffOver, Attempt, core
  <2>2. Outcomes' = Outcomes /\ Returned' = Returned /\ Outcomes[c] = "running"
    BY <1>t, <2>1, CallGoesOn
  <2>3. attempts[c] < MaxRetries
    BY <2>1 DEF ClientInv, CallInv
  <2>4. D!Retry(c)
    BY <2>1, <2>2, <2>3 DEF D!Retry, Outcomes, Returned
  <2> QED BY <2>4 DEF D!DeliveryNext
<1>5. ASSUME NEW c \in Calls, KillCaller(c) PROVE D!DeliveryNext
  <2>1. /\ phase[c] \in {"flight", "backoff"} /\ phase' = [phase EXCEPT ![c] = "killed"]
        /\ UNCHANGED <<result, stored, honours, attempts>>
    BY <1>5 DEF KillCaller, core
  <2>2. result'[c].eval = ZeroEvaluation
    BY <2>1 DEF ClientInv, CallInv
  <2>3. phase'[c] = "killed" /\ \A x \in Calls \ {c} : phase'[x] = phase[x] /\ result'[x] = result[x]
    BY <1>t, <2>1
  <2> QED BY <2>1, <2>2, <2>3, CallFails
<1>6. ASSUME NEW a \in answers, ReadResponse(a) PROVE [D!DeliveryNext]_(D!deliveryVars)
  <2>1. a.call \in Calls /\ phase[a.call] = "flight" /\ UNCHANGED <<stored, honours, attempts>>
    BY <1>6 DEF ReadResponse, core, ClientInv, ClientTypeOK, Responses
  <2>2. CASE a.status # "2xx"
    <3>1. Retryable(a.status) \in BOOLEAN
      BY DEF Retryable
    <3> QED BY <1>6, <2>1, <2>2, <3>1, FailedSeen DEF ReadResponse
  <2>3. CASE a.status = "2xx"
    <3> DEFINE c == a.call
    <3>1. /\ phase' = [phase EXCEPT ![c] = "done"]
          /\ result' = [result EXCEPT ![c] = [err |-> "nil", eval |-> a.eval]]
      BY <1>6, <2>3 DEF ReadResponse, Return
    <3>2. /\ phase'[c] = "done" /\ result'[c] = [err |-> "nil", eval |-> a.eval]
          /\ \A x \in Calls \ {c} : phase'[x] = phase[x] /\ result'[x] = result[x]
      BY <1>t, <2>1, <3>1
    <3>3. PICK r \in stored : /\ r.event = EventOf[c]
                              /\ r.keyed \/ (r.call = c /\ r.attempt = attempts[c])
                              /\ Read(r.verdict, a.eval)
      BY <2>3 DEF ClientInv, AnswerInv, Told
    <3>4. OutcomeOf(c) = "running" /\ OutcomeOf(c)' = "ok" /\ Outcomes[c] = OutcomeOf(c)
      BY <2>1, <3>2 DEF OutcomeOf, Outcomes
    <3>5. Outcomes' = [Outcomes EXCEPT ![c] = "ok"]
      BY <2>1, <3>2, <3>4, CallSeen
    <3>6. Returned' = [Returned EXCEPT ![c] = a.eval.verdict]
      BY <2>1, <3>2, VerdictSeen
    <3>7. r.verdict \in Decisions
      BY DEF ClientInv, ClientTypeOK, Rows
    <3>8. a.eval.verdict \in {Unknown, Reading[r.verdict]}
      BY <3>3, <3>7 DEF Read, ParseEvaluation, ParseVerdict, Reading
    <3>9. Outcomes[c] = "running" /\ c \in Calls /\ UNCHANGED <<stored, honours, attempts>>
      BY <2>1, <3>4
    <3> HIDE DEF c
    <3> QED BY <3>3, <3>5, <3>6, <3>8, <3>9, CallSucceeds
  <2> QED BY <2>2, <2>3
<1>7. ASSUME NEW q \in wire, TransportReplays(q) \/ CoreUnavailable(q) \/ CoreRefuses(q)
      PROVE  UNCHANGED D!deliveryVars
  <2>1. UNCHANGED <<phase, attempts, result, stored, honours>>
    BY <1>7 DEF TransportReplays, CoreUnavailable, CoreRefuses, core
  <2> QED BY <2>1 DEF D!deliveryVars, OutcomeOf
<1>8. ASSUME NEW q \in wire, CoreEvaluates(q) PROVE [D!DeliveryNext]_(D!deliveryVars)
  <2>1. NonceOf(q) \notin nonces /\ UNCHANGED <<phase, attempts, result, honours>>
    BY <1>8 DEF CoreEvaluates
  <2>2. PICK r \in IF Known(q) = {} THEN Fresh(q) ELSE Known(q) : stored' = stored \cup {r}
    BY <1>8 DEF CoreEvaluates
  <2>3. CASE Known(q) = {}
    BY <2>1, <2>2, <2>3, RowMade
  <2>4. CASE Known(q) # {}
    <3>1. stored' = stored
      BY <2>2, <2>4 DEF Known
    <3> QED BY <2>1, <3>1 DEF D!deliveryVars, OutcomeOf
  <2> QED BY <2>3, <2>4
<1>9. CASE CoreShipsItsHalf
  <2>1. ~honours /\ honours' = TRUE /\ UNCHANGED <<phase, attempts, result, stored>>
    BY <1>9 DEF CoreShipsItsHalf
  <2>2. D!KnowEvents
    BY <2>1 DEF D!KnowEvents, OutcomeOf
  <2> QED BY <2>2 DEF D!DeliveryNext
<1>10. CASE UNCHANGED clientVars
  BY <1>10 DEF clientVars, D!deliveryVars, OutcomeOf
<1> QED
  BY <1>1, <1>2, <1>3, <1>4, <1>5, <1>6, <1>7, <1>8, <1>9, <1>10 DEF ClientNext

\* Whatever the network and core do, the client keeps the promise of Delivery to
\* every caller: at least once, a row a try, no try after the outcome, and no
\* success without a row of the last try or of a key core knows (client.go, Emit).
THEOREM ImplementsDeliveryHolds == ClientSpec => ImplementsDelivery
BY StartsAsDelivery, StepsAsDelivery, ClientInitInv, ClientNextInv, PTL
   DEF ClientSpec, ImplementsDelivery, D!DeliverySpec
===============================================================================
