-------------------------------- MODULE Rewake --------------------------------
(***************************************************************************)
(* The rewake channel (adapters/common/hookflow/rewake.go and the          *)
(* RunRewake hook of adapters/claude-code/rewake.go), beside the gate of   *)
(* EnforceGate.                                                            *)
(*                                                                         *)
(* With every gated tool call Claude Code starts two processes: the gate,  *)
(* and in the background a watcher, which waits for the gate to leave a    *)
(* pending-approval marker, then polls until the request is decided and    *)
(* wakes the session.  The marker belongs to the OPERATION: the gates and  *)
(* the watchers of two calls of one operation share it.                    *)
(***************************************************************************)
EXTENDS EnforceGate

VARIABLES
  wpc,      \* where the watcher of a call is
  woken,    \* calls whose watcher woke the session
  beaten    \* calls whose watcher found the outcome claimed by another

watchVars == <<wpc, woken, beaten>>
vars == <<gateVars, watchVars>>

\* Codex has no such channel, and a prompt has no watcher.
Watched == {c \in Call : ContractOf[c] = "tool"}

WPCs == {"grace", "await", "stat", "claim", "drop", "over"}

(***************************************************************************)
(* Every variable has its type, and a watcher is over once it has woken    *)
(* the session or found the outcome claimed.                               *)
(***************************************************************************)
WatchTypeOK ==
  /\ wpc \in [Watched -> WPCs]
  /\ woken \cup beaten \subseteq {c \in Watched : wpc[c] = "over"}
  /\ woken \cap beaten = {}

Init ==
  /\ GateInit
  /\ wpc = [c \in Watched |-> IF Mapped(c) THEN "grace" ELSE "over"]
  /\ woken = {}
  /\ beaten = {}

-----------------------------------------------------------------------------

\* One read of the marker.  A torn one ends the watcher.
AwaitMarker(c) ==
  /\ wpc[c] = "grace"
  /\ marker[KeyOf[c]] # "none"
  /\ wpc' = [wpc EXCEPT ![c] = IF marker[KeyOf[c]] = "full" THEN "await" ELSE "over"]
  /\ UNCHANGED <<woken, beaten, gateVars>>

\* The grace period ends before there is a marker.
GraceOver(c) ==
  /\ wpc[c] = "grace"
  /\ marker[KeyOf[c]] = "none"
  /\ wpc' = [wpc EXCEPT ![c] = "over"]
  /\ UNCHANGED <<woken, beaten, gateVars>>

\* One poll: the request is decided; its window is closed; or there is nothing
\* to do yet, as when the poll fails.
WatcherFindsDecision(c) ==
  /\ wpc[c] = "await"
  /\ Decided(KeyOf[c])
  /\ wpc' = [wpc EXCEPT ![c] = "claim"]
  /\ UNCHANGED <<woken, beaten, gateVars>>

WatcherFindsClosed(c) ==
  /\ wpc[c] = "await"
  /\ approval[KeyOf[c]] = "expired"
  /\ wpc' = [wpc EXCEPT ![c] = "drop"]
  /\ UNCHANGED <<woken, beaten, gateVars>>

WatcherFindsNothing(c) ==
  /\ wpc[c] = "await"
  /\ wpc' = [wpc EXCEPT ![c] = "stat"]
  /\ UNCHANGED <<woken, beaten, gateVars>>

\* ClaimPendingApproval: removing the marker is the claim.
Claims(k) == marker[k] # "none"

RemoveMarker(k) == marker' = [marker EXCEPT ![k] = "none"]

WatcherClaims(c) ==
  /\ wpc[c] = "claim"
  /\ IF Claims(KeyOf[c])
     THEN woken' = woken \cup {c} /\ UNCHANGED beaten
     ELSE beaten' = beaten \cup {c} /\ UNCHANGED woken
  /\ RemoveMarker(KeyOf[c])
  /\ wpc' = [wpc EXCEPT ![c] = "over"]
  /\ UNCHANGED <<procVars, coreVars, halted, audit, spooled, hostVars>>

\* The window closed: the marker goes, and nobody is woken.
WatcherDrops(c) ==
  /\ wpc[c] = "drop"
  /\ RemoveMarker(KeyOf[c])
  /\ wpc' = [wpc EXCEPT ![c] = "over"]
  /\ UNCHANGED <<woken, beaten, procVars, coreVars, halted, audit, spooled, hostVars>>

\* The gate answering removes the marker: then there is nothing to wait for.
WatcherStats(c) ==
  /\ wpc[c] = "stat"
  /\ wpc' = [wpc EXCEPT ![c] = IF marker[KeyOf[c]] = "none" THEN "over" ELSE "await"]
  /\ UNCHANGED <<woken, beaten, gateVars>>

\* No client, the longest wait is over, or the host kills the watcher.
WatcherStops(c) ==
  /\ wpc[c] \in {"await", "stat"}
  /\ wpc' = [wpc EXCEPT ![c] = "over"]
  /\ UNCHANGED <<woken, beaten, gateVars>>

WatcherStep(c) ==
  \/ AwaitMarker(c) \/ WatcherFindsDecision(c) \/ WatcherFindsClosed(c)
  \/ WatcherFindsNothing(c) \/ WatcherClaims(c) \/ WatcherDrops(c) \/ WatcherStats(c)

Next ==
  \/ GateNext /\ UNCHANGED watchVars
  \/ \E c \in Watched : WatcherStep(c) \/ GraceOver(c) \/ WatcherStops(c)

Spec == Init /\ [][Next]_vars

(***************************************************************************)
(* The same without watchers that stop by themselves.  The two processes   *)
(* keep running, and a poll that keeps being made does not fail for ever.  *)
(***************************************************************************)
PatientNext ==
  \/ GateNext /\ UNCHANGED watchVars
  \/ \E c \in Watched : WatcherStep(c) \/ GraceOver(c)

PatientSpec ==
  /\ Init /\ [][PatientNext]_vars
  /\ \A c \in Watched : /\ WF_vars(WatcherStep(c))
                        /\ SF_vars(WatcherFindsDecision(c))
  /\ \A c \in Call : WF_vars(GateStep(c) /\ UNCHANGED watchVars)

-----------------------------------------------------------------------------
(***************************************************************************)
(* Properties                                                              *)
(***************************************************************************)

\* The answer an approver gave has reached call c, which acts on it.
Answered(c) == dec[c].source = "approval:decided"

(***************************************************************************)
(* A session is woken only for a request some call of this operation has   *)
(* filed and an approver has decided, never for one that expired or that   *)
(* nobody filed (AwaitRewake).                                             *)
(***************************************************************************)
WakesForADecision ==
  \A c \in woken : /\ approval[KeyOf[c]] \in {"allow", "halt"}
                   /\ \E o \in Call : /\ KeyOf[o] = KeyOf[c]
                                      /\ verdict[o].verdict = "approval"

(***************************************************************************)
(* A watcher that finds the outcome claimed is right to be silent: a gate  *)
(* of the operation acts on it, or another watcher woke its session.       *)
(* (rewake.go: "the gate got there first; the call already saw it".)       *)
(***************************************************************************)
SilentIfActedOn ==
  \A c \in beaten : \E o \in Call :
    KeyOf[o] = KeyOf[c] /\ (Answered(o) \/ o \in woken)

(***************************************************************************)
(* A decision that is made while a watcher waits for it reaches the        *)
(* session: the watcher wakes it, or the gate acts on it (or is killed on  *)
(* its way to).                                                            *)
(***************************************************************************)
DecisionReaches ==
  \A c \in Watched :
    (wpc[c] = "await" /\ Decided(KeyOf[c]))
      ~> (c \in woken \/ (Answered(c) /\ pc[c] \in {"done", "killed"}))
=============================================================================
