------------------------------ MODULE FlushLock ------------------------------
(***************************************************************************)
(* The realtime trigger of one session (realtime.go), the flushers it      *)
(* starts (runFlush of claude-code/hookrun.go), and the lock file they     *)
(* share (TouchFlushLock, ReleaseFlushLock of spool.go).  The existence    *)
(* and the age of the file are the whole protocol: "fresh" is younger than *)
(* the debounce window, "stale" is not.  What a flush does to the events   *)
(* is module Spool's; here it takes all there is (`spooled` becomes FALSE).*)
(***************************************************************************)
EXTENDS Naturals

CONSTANTS
  Nudger,      \* hook processes that spool an event and nudge
  MaxFaults,   \* bound on kills, failed spawns and flushes without credentials
  Flusher      \* flusher processes: detached, or the SessionEnd hook itself

ASSUME LockAssumption == MaxFaults \in Nat

VARIABLES
  lock,        \* the lock file: "none", "fresh", "stale"
  npc,         \* where each hook process is in Append and Maybe
  fpc,         \* where each flusher is in runFlush
  spooled,     \* an event waits in the session's spool
  leaked,      \* the last claim of the lock was left by a process that died
  faults       \* faults so far

lockVars == <<lock, npc, fpc, spooled, leaked, faults>>

LockTypeOK ==
  /\ lock \in {"none", "fresh", "stale"}
  /\ npc \in [Nudger -> {"idle", "claim", "stat", "takeover", "spawn"}]
  /\ fpc \in [Flusher -> {"none", "spawned", "drain", "release"}]
  /\ spooled \in BOOLEAN /\ leaked \in BOOLEAN /\ faults \in 0..MaxFaults

LockInit ==
  /\ lock = "none"
  /\ npc = [h \in Nudger |-> "idle"]
  /\ fpc = [d \in Flusher |-> "none"]
  /\ spooled = FALSE /\ leaked = FALSE /\ faults = 0

Go(h, step)  == npc' = [npc EXCEPT ![h] = step]
Run(d, step) == fpc' = [fpc EXCEPT ![d] = step]

\* Write and remove the file; a new claim is nobody's leftover.
Claimed  == lock' = "fresh" /\ leaked' = FALSE
Unlinked == lock' = "none" /\ leaked' = FALSE

Fault == faults < MaxFaults /\ faults' = faults + 1

-----------------------------------------------------------------------------
(* A hook process: the event is spooled, then Maybe runs. *)

SpoolEvent(h) ==
  /\ npc[h] = "idle"
  /\ Go(h, "claim") /\ spooled' = TRUE
  /\ UNCHANGED <<lock, fpc, leaked, faults>>

\* The exclusive create of the lock file.
ClaimLock(h) ==
  /\ npc[h] = "claim"
  /\ IF lock = "none" THEN Go(h, "spawn") /\ Claimed
                      ELSE Go(h, "stat") /\ UNCHANGED <<lock, leaked>>
  /\ UNCHANGED <<fpc, spooled, faults>>

\* Mutant: a stale claim is debounced like a fresh one.
StatLockAnyAge(h) ==
  /\ npc[h] = "stat"
  /\ Go(h, "idle")
  /\ UNCHANGED <<lock, fpc, spooled, leaked, faults>>

\* The file is there: gone by now, debounced, or a stale claim.
StatLock(h) ==
  /\ npc[h] = "stat"
  /\ Go(h, IF lock = "stale" THEN "takeover" ELSE "idle")
  /\ UNCHANGED <<lock, fpc, spooled, leaked, faults>>

\* Chtimes on the path: it may have been removed, or refreshed, since the stat.
TakeOver(h) ==
  /\ npc[h] = "takeover"
  /\ IF lock = "none" THEN Go(h, "idle") /\ UNCHANGED <<lock, leaked>>
                      ELSE Go(h, "spawn") /\ Claimed
  /\ UNCHANGED <<fpc, spooled, faults>>

Spawn(h, d) ==
  /\ npc[h] = "spawn" /\ fpc[d] = "none"
  /\ Go(h, "idle") /\ Run(d, "spawned")
  /\ UNCHANGED <<lock, spooled, leaked, faults>>

\* The claim is dropped with whatever file has the path.
SpawnFails(h) ==
  /\ npc[h] = "spawn"
  /\ Go(h, "idle") /\ Unlinked
  /\ Fault
  /\ UNCHANGED <<fpc, spooled>>

-----------------------------------------------------------------------------
(* A flusher, detached or run by the SessionEnd hook. *)

SessionEndRunsFlush(d) ==
  /\ fpc[d] = "none"
  /\ Run(d, "spawned")
  /\ UNCHANGED <<lock, npc, spooled, leaked, faults>>

\* No credentials or no client: it returns before it touches the lock.
FlushSkipped(d) ==
  /\ fpc[d] = "spawned"
  /\ Run(d, "none") /\ leaked' = TRUE
  /\ Fault
  /\ UNCHANGED <<lock, npc, spooled>>

TouchFlushLock(d) ==
  /\ fpc[d] = "spawned"
  /\ Run(d, "drain") /\ Claimed
  /\ UNCHANGED <<npc, spooled, faults>>

Drain(d) ==
  /\ fpc[d] = "drain"
  /\ Run(d, "release") /\ spooled' = FALSE
  /\ UNCHANGED <<lock, npc, leaked, faults>>

\* Mutant: the lock is left behind.
ReleaseForgets(d) ==
  /\ fpc[d] = "release"
  /\ Run(d, "none")
  /\ UNCHANGED <<lock, npc, spooled, leaked, faults>>

\* The deferred remove: of whatever file has the path by now.
ReleaseFlushLock(d) ==
  /\ fpc[d] = "release"
  /\ Run(d, "none") /\ Unlinked
  /\ UNCHANGED <<npc, spooled, faults>>

-----------------------------------------------------------------------------
(* The environment. *)

\* A debounce window passes.
WindowPasses ==
  /\ lock = "fresh" /\ lock' = "stale"
  /\ UNCHANGED <<npc, fpc, spooled, leaked, faults>>

KillNudger(h) ==
  /\ npc[h] # "idle"
  /\ Go(h, "idle") /\ leaked' = (leaked \/ npc[h] = "spawn")
  /\ Fault
  /\ UNCHANGED <<lock, fpc, spooled>>

KillFlusher(d) ==
  /\ fpc[d] # "none"
  /\ Run(d, "none") /\ leaked' = TRUE
  /\ Fault
  /\ UNCHANGED <<lock, npc, spooled>>

LockNext ==
  \/ \E h \in Nudger : \/ SpoolEvent(h) \/ ClaimLock(h) \/ StatLock(h)
                       \/ TakeOver(h) \/ SpawnFails(h) \/ KillNudger(h)
                       \/ \E d \in Flusher : Spawn(h, d)
  \/ \E d \in Flusher : \/ SessionEndRunsFlush(d) \/ FlushSkipped(d)
                        \/ TouchFlushLock(d) \/ Drain(d) \/ ReleaseFlushLock(d)
                        \/ KillFlusher(d)
  \/ WindowPasses

LockSpec == LockInit /\ [][LockNext]_lockVars

\* Windows pass, hooks go on spooling, and processes run: after the last fault,
\* a hook that nudges and a flusher that was started take their steps.
LockFairness ==
  /\ \A h \in Nudger :
       WF_lockVars(\/ SpoolEvent(h) \/ ClaimLock(h) \/ StatLock(h) \/ TakeOver(h)
                   \/ \E d \in Flusher : Spawn(h, d))
  /\ \A d \in Flusher :
       WF_lockVars(TouchFlushLock(d) \/ Drain(d) \/ ReleaseFlushLock(d))
  /\ WF_lockVars(WindowPasses)

FairLockSpec == LockSpec /\ LockFairness

-----------------------------------------------------------------------------
(***************************************************************************)
(* Properties                                                              *)
(***************************************************************************)

\* "debounced: a flush is pending or running" (realtime.go): a fresh lock, the
\* only ground on which a hook leaves its event to others, stands for a flusher
\* that is alive or about to be, or for one that died since.
FreshMeansFlush ==
  lock = "fresh" => \/ \E h \in Nudger : npc[h] = "spawn"
                    \/ \E d \in Flusher : fpc[d] # "none"
                    \/ leaked

\* Whatever is left behind by processes that die, the lock never keeps the
\* session's events from a flusher for good.
EventsReachAFlusher == spooled ~> ~spooled
==============================================================================
