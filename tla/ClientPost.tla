------------------------------ MODULE ClientPost ------------------------------
(***************************************************************************)
(* The shared client of core (client/): one Emit builds a payload, signs   *)
(* it and POSTs it with bounded retries (client.go), and reads the answer  *)
(* (verdict.go).                                                           *)
(*                                                                         *)
(* The other side is core and the network, both outside the repository:    *)
(* a request may be lost, may reach core after the client gave up on it,   *)
(* and may reach it twice, because the HTTP transport itself repeats a     *)
(* request that carries an Idempotency-Key when a reused connection        *)
(* breaks.  Core refuses a nonce it has seen.  What it does with a key it  *)
(* has seen depends on when one asks: it makes another row, until core     *)
(* ships its half of ADR-0009 and answers with the verdict it gave first.  *)
(* The client is the same on both sides of that day, so core may ship its  *)
(* half at any step, or never.                                             *)
(***************************************************************************)
EXTENDS Naturals

CONSTANTS
  Events,       \* event ids: the Idempotency-Keys
  Calls,        \* calls of Emit, in one process or several
  EventOf,      \* the event of each call: an inline evaluation and the
                \* spooled copy of the same event are two calls
  Malformed,  \* calls whose event does not marshal
  MaxRetries,   \* Config.MaxRetries
  Reused,       \* calls made over a reused connection; bound: one repeat
  Decisions,    \* what core may decide
  LegacyCore    \* core answers with the legacy `action` field alone

Verdicts == {"ALLOW", "CONSTRAIN", "REQUIRE_APPROVAL", "BLOCK", "HALT"}

ASSUME ClientAssumption ==
  /\ EventOf \in [Calls -> Events]
  /\ Malformed \subseteq Calls
  /\ MaxRetries \in Nat
  /\ Decisions \subseteq Verdicts
  /\ Reused \subseteq Calls
  /\ LegacyCore \in BOOLEAN

VARIABLES
  phase,     \* where a call of Emit is
  attempts,  \* number of the current attempt of post
  result,    \* what Emit returned: [err, verdict]
  wire,      \* requests on the way to core
  answers,   \* answers on the way back
  nonces,    \* core's replay cache
  stored,    \* the rows core holds, each with the request that made it
  honours,   \* core knows a key again
  heard      \* history: the attempts whose 2xx was read

clientVars == <<phase, attempts, result, wire, answers, nonces, stored, honours, heard>>

-----------------------------------------------------------------------------
(* Verdicts: what core decides, how it writes it, how the client reads it.  *)

Unknown == "UNKNOWN"
Absent == "absent"

WireToVerdict == [allow |-> "ALLOW", constrain |-> "CONSTRAIN",
                  require_approval |-> "REQUIRE_APPROVAL",
                  block |-> "BLOCK", halt |-> "HALT"]

LegacyActionToVerdict ==
  [a \in {"continue", "require-approval", "stop"} |->
     IF a = "continue" THEN "ALLOW" ELSE IF a = "stop" THEN "BLOCK" ELSE "REQUIRE_APPROVAL"]

ResolveVerdict(verdict, action) ==
  IF verdict \in DOMAIN WireToVerdict THEN WireToVerdict[verdict]
  ELSE IF action \in DOMAIN LegacyActionToVerdict THEN LegacyActionToVerdict[action]
  ELSE Unknown

\* The answer to a row: a current core writes `verdict`, an older one only
\* `action`, which has no word for CONSTRAIN and stops on BLOCK and HALT.
WireVerdict(d) == IF LegacyCore THEN Absent
                  ELSE CHOOSE v \in DOMAIN WireToVerdict : WireToVerdict[v] = d
WireAction(d) == CASE d \in {"BLOCK", "HALT"} -> "stop"
                   [] d = "REQUIRE_APPROVAL"  -> "require-approval"
                   [] OTHER                   -> "continue"

\* How the body of a 2xx arrives: whole, with one sibling field of a type the
\* rich decode refuses, or cut short (the read error of the body is dropped).
Bodies == {"whole", "mistyped", "cut"}

\* Mutant: only the rich decode, as it once was.
ParseVerdictRich(d, body) == IF body # "whole" THEN Unknown
                             ELSE ResolveVerdict(WireVerdict(d), WireAction(d))

ParseVerdict(d, body) == IF body = "cut" THEN Unknown
                         ELSE ResolveVerdict(WireVerdict(d), WireAction(d))

\* The sibling fields (reason, risk, guardrail, the approval's reference) come
\* with a whole body only.
ParseEvaluation(d, body) == [verdict |-> ParseVerdict(d, body), body |-> body]
ZeroEvaluation == [verdict |-> Unknown, body |-> Absent]

-----------------------------------------------------------------------------
Phases == {"idle", "flight", "backoff", "done", "killed"}
Errors == {"none", "ErrUnbuildable", "ErrDelivery", "nil"}
Statuses == {"2xx", "429", "4xx", "5xx"}

Evaluations == [verdict : Verdicts \cup {Unknown}, body : Bodies \cup {Absent}]

Attempts == 0 .. MaxRetries

\* A request is the bytes of one attempt: the nonce, and the Idempotency-Key.
\* Each signature draws a fresh nonce, so the attempt names it.
Requests == [call : Calls, attempt : Attempts, event : Events, key : Events,
             copy : {0, 1}]
\* Mutant: one signature for all attempts.
NonceOfCall(q) == <<q.call, 0>>
NonceOf(q) == <<q.call, q.attempt>>

\* keyed: core knows the row's key again.
Rows == [call : Calls, attempt : Attempts, copy : {0, 1}, event : Events,
         key : Events, keyed : BOOLEAN, verdict : Decisions]

Responses == [call : Calls, attempt : Attempts, status : Statuses,
              eval : Evaluations]

ClientTypeOK ==
  /\ phase \in [Calls -> Phases]
  /\ attempts \in [Calls -> Attempts]
  /\ result \in [Calls -> [err : Errors, eval : Evaluations]]
  /\ wire \subseteq Requests
  /\ answers \subseteq Responses
  /\ nonces \subseteq Calls \X Attempts
  /\ stored \subseteq Rows /\ honours \in BOOLEAN
  /\ heard \subseteq Calls \X Attempts

ClientInit ==
  /\ phase = [c \in Calls |-> "idle"]
  /\ attempts = [c \in Calls |-> 0]
  /\ result = [c \in Calls |-> [err |-> "none", eval |-> ZeroEvaluation]]
  /\ wire = {} /\ answers = {} /\ nonces = {} /\ stored = {}
  /\ honours = FALSE /\ heard = {}

core == <<nonces, stored, honours>>

Return(c, err, eval) ==
  /\ phase' = [phase EXCEPT ![c] = "done"]
  /\ result' = [result EXCEPT ![c] = [err |-> err, eval |-> eval]]

\* The connection of a call is over: what is still to come on it is read by
\* nobody.  What is on its way to core may still arrive.
Hangup(c) == answers' = {a \in answers : a.call # c}

-----------------------------------------------------------------------------
(* The client. *)

\* Emit with an event that does not marshal: dropped, and said so.
EmitUnbuildable(c) ==
  /\ phase[c] = "idle" /\ c \in Malformed
  /\ Return(c, "ErrUnbuildable", ZeroEvaluation)
  /\ UNCHANGED <<attempts, wire, answers, core, heard>>

\* Mutant: a key of its own for every attempt.
KeyPerAttempt(c, n) == <<EventOf[c], n>>

\* The key is the event's id, whatever attempt carries it.
IdempotencyKey(c, n) == EventOf[c]

\* attempt: a fresh nonce and timestamp, the same body and key every time.
Attempt(c, n) ==
  /\ phase' = [phase EXCEPT ![c] = "flight"]
  /\ attempts' = [attempts EXCEPT ![c] = n]
  /\ wire' = wire \cup {[call |-> c, attempt |-> n, event |-> EventOf[c],
                         key |-> IdempotencyKey(c, n), copy |-> 0]}
  /\ UNCHANGED <<result, answers, core, heard>>

\* Emit builds the payload once and hands it to post.
Emit(c) ==
  /\ phase[c] = "idle" /\ c \notin Malformed
  /\ Attempt(c, 0)

\* net/http repeats a request with an Idempotency-Key by itself when a reused
\* connection fails under it: the same bytes, so the same nonce.
TransportReplays(q) ==
  /\ phase[q.call] = "flight" /\ attempts[q.call] = q.attempt
  /\ q.call \in Reused /\ q.copy = 0
  /\ wire' = wire \cup {[q EXCEPT !.copy = 1]}
  /\ Hangup(q.call)
  /\ UNCHANGED <<phase, attempts, result, core, heard>>

\* Mutant: the last failure is swallowed.
FailedOpen(c, retryable) ==
  IF retryable /\ attempts[c] < MaxRetries
  THEN /\ phase' = [phase EXCEPT ![c] = "backoff"]
       /\ UNCHANGED result
  ELSE Return(c, "nil", ZeroEvaluation)

\* After a failed attempt: the next one after its backoff, or the error.
Failed(c, retryable) ==
  IF retryable /\ attempts[c] < MaxRetries
  THEN /\ phase' = [phase EXCEPT ![c] = "backoff"]
       /\ UNCHANGED result
  ELSE Return(c, "ErrDelivery", ZeroEvaluation)

\* A transport error, or the timeout of the HTTP client.
TransportError(c) ==
  /\ phase[c] = "flight"
  /\ Failed(c, TRUE)
  /\ Hangup(c)
  /\ UNCHANGED <<attempts, wire, core, heard>>

Retryable(status) == status \in {"5xx", "429"}

Heard(a) == heard' = IF a.status = "2xx" THEN heard \cup {<<a.call, a.attempt>>}
                     ELSE heard

\* Mutant: a body that was cut short is a failed attempt.
ReadResponseWhole(a) ==
  /\ phase[a.call] = "flight" /\ attempts[a.call] = a.attempt
  /\ IF a.status = "2xx" /\ a.eval.body # "cut"
     THEN Return(a.call, "nil", a.eval)
     ELSE Failed(a.call, a.status = "2xx" \/ Retryable(a.status))
  /\ Heard(a) /\ Hangup(a.call)
  /\ UNCHANGED <<attempts, wire, core>>

ReadResponse(a) ==
  /\ phase[a.call] = "flight" /\ attempts[a.call] = a.attempt
  /\ IF a.status = "2xx" THEN Return(a.call, "nil", a.eval)
                         ELSE Failed(a.call, Retryable(a.status))
  /\ Heard(a) /\ Hangup(a.call)
  /\ UNCHANGED <<attempts, wire, core>>

\* Mutant: the attempt is not counted.
BackoffUncounted(c) ==
  /\ phase[c] = "backoff"
  /\ Attempt(c, attempts[c])

\* The linear backoff has passed: the next attempt of post.
BackoffOver(c) ==
  /\ phase[c] = "backoff"
  /\ Attempt(c, attempts[c] + 1)

\* The caller's context ends while the call waits.
ContextDone(c) ==
  /\ phase[c] = "backoff"
  /\ Return(c, "ErrDelivery", ZeroEvaluation)
  /\ UNCHANGED <<attempts, wire, answers, core, heard>>

\* The process dies in the call.
KillCaller(c) ==
  /\ phase[c] \in {"flight", "backoff"}
  /\ phase' = [phase EXCEPT ![c] = "killed"]
  /\ Hangup(c)
  /\ UNCHANGED <<attempts, result, wire, core, heard>>

-----------------------------------------------------------------------------
(* Core and the network: a request that is lost is one core never takes. *)

Answer(q, status, eval) ==
  answers' = IF phase[q.call] = "flight" /\ attempts[q.call] = q.attempt
             THEN answers \cup {[call |-> q.call, attempt |-> q.attempt,
                                 status |-> status, eval |-> eval]}
             ELSE answers

Taken(q) == wire' = wire \ {q}

\* Overloaded or down: nothing is read of the request.
CoreUnavailable(q) ==
  /\ Taken(q)
  /\ \E status \in {"429", "5xx"} : Answer(q, status, ZeroEvaluation)
  /\ UNCHANGED <<phase, attempts, result, core, heard>>

\* The identity check: a nonce core has seen, a clock or a key it rejects; or
\* a payload it does not accept.
CoreRefuses(q) ==
  /\ Taken(q)
  /\ Answer(q, "4xx", ZeroEvaluation)
  /\ nonces' = nonces \cup {NonceOf(q)}
  /\ UNCHANGED <<phase, attempts, result, stored, honours, heard>>

\* The rows a key is known by, and those a request may make.
Known(q) == {r \in stored : honours /\ r.keyed /\ r.key = q.key}
Fresh(q) == {[call |-> q.call, attempt |-> q.attempt, copy |-> q.copy, event |-> q.event,
              key |-> q.key, keyed |-> honours, verdict |-> d] : d \in Decisions}

\* A new nonce: a known key finds its row, any other makes one; core may still
\* fail after that.
CoreEvaluates(q) ==
  /\ NonceOf(q) \notin nonces
  /\ Taken(q)
  /\ nonces' = nonces \cup {NonceOf(q)}
  /\ \E r \in IF Known(q) = {} THEN Fresh(q) ELSE Known(q) :
       /\ stored' = stored \cup {r}
       /\ \/ \E body \in Bodies : Answer(q, "2xx", ParseEvaluation(r.verdict, body))
          \/ Answer(q, "5xx", ZeroEvaluation)
  /\ UNCHANGED <<phase, attempts, result, honours, heard>>

\* Core ships its half of ADR-0009: from now on it knows the keys it is sent.
CoreShipsItsHalf ==
  /\ ~honours /\ honours' = TRUE
  /\ UNCHANGED <<phase, attempts, result, wire, answers, nonces, stored, heard>>

ClientNext ==
  \/ \E c \in Calls : \/ EmitUnbuildable(c) \/ Emit(c)
                      \/ TransportError(c) \/ BackoffOver(c) \/ ContextDone(c)
                      \/ KillCaller(c)
  \/ \E a \in answers : ReadResponse(a)
  \/ \E q \in wire : \/ TransportReplays(q) \/ CoreUnavailable(q)
                     \/ CoreRefuses(q) \/ CoreEvaluates(q)
  \/ CoreShipsItsHalf

\* The timeout of the HTTP client ends an attempt, a timer ends a backoff, and
\* a process that is not killed goes on; core and the network owe nothing.
ClientFairness ==
  \A c \in Calls : WF_clientVars(TransportError(c) \/ BackoffOver(c))

ClientSpec == ClientInit /\ [][ClientNext]_clientVars

FairClientSpec == ClientSpec /\ ClientFairness

-----------------------------------------------------------------------------
Effect(v) == CASE v \in {"BLOCK", "HALT"} -> "stop"
               [] v = "REQUIRE_APPROVAL"  -> "ask"
               [] v = Unknown             -> "none"
               [] OTHER                   -> "go"

\* What a call may have been told: of the row its last attempt made, or of the
\* one core knows its key by.
ToldOf(c) == {r \in stored : /\ r.event = EventOf[c]
                             /\ r.keyed \/ (r.call = c /\ r.attempt = attempts[c])}

\* A decision that reached the client is the decision that is taken: whatever
\* the form of the answer (an older core's action, a sibling field of a wrong
\* type), only a body that was cut short loses the verdict, and none is read as
\* weaker or stricter than core wrote it, or taken from another attempt than
\* the last (parseVerdict, resolveVerdict, post).
VerdictKept ==
  \A c \in Calls : result[c].err = "nil" =>
    \E r \in ToldOf(c) :
      Effect(result[c].eval.verdict) =
        IF result[c].eval.body = "cut" THEN "none" ELSE Effect(r.verdict)

\* No row is counted twice but for the reason ADR-0009 gives, an answer that was
\* lost before core had its half.  Once core knows the keys, the retries of a
\* call and the calls of other processes for the same event make one row, for
\* they all carry the event's id (post, attempt: INV-5).  Before that, an
\* attempt makes one row however often the transport sends it, for its copies
\* are one signed request; and a call goes on to a second row only when it has
\* not read the 2xx of the first.
DoubledOnlyUnheard ==
  \A r, s \in stored : r # s =>
    /\ r.event = s.event => ~(r.keyed /\ s.keyed)
    /\ r.call = s.call   => /\ r.attempt # s.attempt
                            /\ r.attempt < s.attempt => <<r.call, r.attempt>> \notin heard

\* A retry is never taken for a replay: every attempt is signed anew, so only
\* a repeat made below the client, on a reused connection, can carry a nonce
\* core has seen (attempt signs, post does not; validate.go says why it matters).
RetryIsNoReplay ==
  \A q \in wire : q.call \notin Reused => NonceOf(q) \notin nonces

\* Every Emit of a process that lives ends, within its attempts, whatever core
\* and the network do (post's bound, the client's timeout).
EmitEnds == \A c \in Calls : phase[c] = "flight" ~> phase[c] \in {"done", "killed"}

\* The client keeps the promise of Delivery.
Reading == [d \in Decisions |-> ResolveVerdict(WireVerdict(d), WireAction(d))]

OutcomeOf(c) == CASE phase[c] = "idle"               -> "none"
                  [] phase[c] \in {"flight", "backoff"} -> "running"
                  [] phase[c] = "killed"             -> "failed"
                  [] OTHER -> CASE result[c].err = "nil"            -> "ok"
                                [] result[c].err = "ErrUnbuildable" -> "refused"
                                [] OTHER                            -> "failed"

D == INSTANCE Delivery WITH
       rows    <- {[call |-> r.call, try |-> r.attempt, once |-> r.keyed,
                    verdict |-> r.verdict] : r \in stored},
       once    <- honours,
       try     <- attempts,
       outcome <- [c \in Calls |-> OutcomeOf(c)],
       verdict <- [c \in Calls |-> result[c].eval.verdict]

ImplementsDelivery == D!DeliverySpec
=============================================================================
