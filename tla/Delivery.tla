------------------------------ MODULE Delivery ------------------------------
(***************************************************************************)
(* What the control-plane client promises its callers, whatever the        *)
(* network and core do: at-least-once delivery with a bounded number of    *)
(* tries.  A try makes at most one row, a row is made only by a try that   *)
(* was begun, and no try is begun for a call whose outcome is known.  A    *)
(* call that returns without an error was about an event that has a row,   *)
(* and the verdict it returns is that of its last try's row, or none.  A   *)
(* call may fail at any moment, before or after its rows exist: the error  *)
(* of Emit is advisory and says nothing about them.                        *)
(*                                                                         *)
(* Core makes a second row of an event it is sent twice, until some day it *)
(* does not any more (`once`); from then on an event gets one row, and the *)
(* verdict a call returns may be that of the row another try made.         *)
(***************************************************************************)
EXTENDS Naturals

CONSTANTS Events,     \* identities of events (DevEvent.EventID)
          Calls,      \* calls of Emit
          EventOf,    \* the event a call delivers
          MaxRetries, \* tries of a call after its first
          Decisions,  \* what core can decide of a row
          Verdicts,   \* what a caller can be told
          Reading,    \* how each decision reads once it is on the wire
          Unknown     \* no verdict

VARIABLES rows,     \* the rows core holds
          once,     \* core makes one row of an event
          try,      \* the current try of a call
          outcome,  \* what the caller of Emit has been told
          verdict   \* the verdict it was told

deliveryVars == <<rows, once, try, outcome, verdict>>

Tries == 0 .. MaxRetries

DeliveryTypeOK ==
  /\ rows \subseteq [call : Calls, try : Tries, once : BOOLEAN, verdict : Decisions]
  /\ once \in BOOLEAN
  /\ try \in [Calls -> Tries]
  /\ outcome \in [Calls -> {"none", "running", "ok", "refused", "failed"}]
  /\ verdict \in [Calls -> Verdicts \cup {Unknown}]

DeliveryInit == /\ rows = {} /\ once = FALSE
                /\ try = [c \in Calls |-> 0]
                /\ outcome = [c \in Calls |-> "none"]
                /\ verdict = [c \in Calls |-> Unknown]

Start(c) == /\ outcome[c] = "none"
            /\ outcome' = [outcome EXCEPT ![c] = "running"]
            /\ UNCHANGED <<rows, once, try, verdict>>

\* The event cannot be built: it is never sent.
Refuse(c) == /\ outcome[c] = "none"
             /\ outcome' = [outcome EXCEPT ![c] = "refused"]
             /\ UNCHANGED <<rows, once, try, verdict>>

Retry(c) == /\ outcome[c] = "running" /\ try[c] < MaxRetries
            /\ try' = [try EXCEPT ![c] = @ + 1]
            /\ UNCHANGED <<rows, once, outcome, verdict>>

\* Core may store an event of a call whose caller has already given up, and of
\* an earlier try than the last.
Store(c, t) ==
  /\ outcome[c] \in {"running", "ok", "failed"} /\ t <= try[c]
  /\ \A r \in rows : ~(r.call = c /\ r.try = t)
  /\ once => \A r \in rows : r.once => EventOf[r.call] # EventOf[c]
  /\ \E d \in Decisions :
       rows' = rows \cup {[call |-> c, try |-> t, once |-> once, verdict |-> d]}
  /\ UNCHANGED <<once, try, outcome, verdict>>

\* Core begins to know the events it has rows of.
KnowEvents == /\ ~once /\ once' = TRUE
              /\ UNCHANGED <<rows, try, outcome, verdict>>

Succeed(c) == /\ outcome[c] = "running"
              /\ outcome' = [outcome EXCEPT ![c] = "ok"]
              /\ \E r \in rows :
                   /\ EventOf[r.call] = EventOf[c]
                   /\ r.once \/ (r.call = c /\ r.try = try[c])
                   /\ verdict' \in {[verdict EXCEPT ![c] = v] :
                                      v \in {Unknown, Reading[r.verdict]}}
              /\ UNCHANGED <<rows, once, try>>

Fail(c) == /\ outcome[c] = "running"
           /\ outcome' = [outcome EXCEPT ![c] = "failed"]
           /\ UNCHANGED <<rows, once, try, verdict>>

DeliveryNext == \/ \E c \in Calls : \/ Start(c) \/ Refuse(c) \/ Retry(c)
                                    \/ Succeed(c) \/ Fail(c)
                                    \/ \E t \in Tries : Store(c, t)
                \/ KnowEvents

DeliverySpec == DeliveryInit /\ [][DeliveryNext]_deliveryVars
=============================================================================
