---------------------------- MODULE MCLocalFiles ----------------------------
(* Instances of the small file protocols for TLC: a behaviour runs one of     *)
(* them.                                                                     *)
EXTENDS Spool, FlushLock, FindingsCursor, DurationStash, TLC

CONSTANTS t1, t2, t3, s1, s2, e1

VARIABLE part   \* the protocol this behaviour runs

MCvars == <<vars, lockVars, findingsVars, stashVars, part>>

MCInit == /\ Init /\ LockInit /\ FindingsInit /\ StashInit
          /\ part \in {"spool", "lock", "findings", "stash"}

Spools   == part = "spool" /\ UNCHANGED <<lockVars, findingsVars, stashVars, part>>
Locks    == part = "lock" /\ UNCHANGED <<vars, findingsVars, stashVars, part>>
Findings == part = "findings" /\ UNCHANGED <<vars, lockVars, stashVars, part>>
Stashes  == part = "stash" /\ UNCHANGED <<vars, lockVars, findingsVars, part>>

MCNext ==
  \/ Spools /\ Next
  \/ \E h \in Nudger : Locks /\ SpoolEvent(h)
  \/ \E h \in Nudger : Locks /\ ClaimLock(h)
  \/ \E h \in Nudger : Locks /\ StatLock(h)
  \/ \E h \in Nudger : Locks /\ TakeOver(h)
  \/ \E h \in Nudger : Locks /\ SpawnFails(h)
  \/ \E h \in Nudger : Locks /\ KillNudger(h)
  \/ \E h \in Nudger, d \in Flusher : Locks /\ Spawn(h, d)
  \/ \E d \in Flusher : Locks /\ SessionEndRunsFlush(d)
  \/ \E d \in Flusher : Locks /\ FlushSkipped(d)
  \/ \E d \in Flusher : Locks /\ TouchFlushLock(d)
  \/ \E d \in Flusher : Locks /\ Drain(d)
  \/ \E d \in Flusher : Locks /\ ReleaseFlushLock(d)
  \/ \E d \in Flusher : Locks /\ KillFlusher(d)
  \/ Locks /\ WindowPasses
  \/ Findings /\ RecordAdvisory
  \/ Findings /\ TearAdvisory
  \/ \E r \in Reader : Findings /\ ReadCursor(r)
  \/ \E r \in Reader : Findings /\ NothingNew(r)
  \/ \E r \in Reader : Findings /\ ReadDelta(r)
  \/ \E r \in Reader : Findings /\ WriteFindings(r)
  \/ \E r \in Reader : Findings /\ AdvanceCursor(r)
  \/ \E r \in Reader : Findings /\ CutShort(r)
  \/ \E t \in Tool : Stashes /\ WriteTemp(t)
  \/ \E t \in Tool : Stashes /\ PutStart(t)
  \/ \E t \in Tool : Stashes /\ PutFails(t)
  \/ \E t \in Tool : Stashes /\ NeverCompletes(t)
  \/ \E t \in Tool : Stashes /\ ReadStart(t)
  \/ \E t \in Tool : Stashes /\ RemoveStart(t)
  \/ Stashes /\ ClearStash

\* The fairness of Spool and of FlushLock, for the behaviours that run them.
MCFairness == /\ part = "spool" => SpoolFairness
              /\ part = "lock" => LockFairness

MCSpec == MCInit /\ [][MCNext]_MCvars /\ MCFairness

\* One event of one of two sessions at work; an expiry and a failed write.
MCSessionOf == [e \in {e1} |-> s1]
MCMax0110 == ("kill" :> 0) @@ ("expire" :> 1) @@ ("fault" :> 1) @@ ("flushall" :> 0)

\* Two hooks of one provider.
MCAgentOf == [r \in Reader |-> "provider"]

\* One operation: a call with an id, and two of a host that gives none.
MCOperationOf  == [t \in Tool |-> "op"]
MCInvocationOf == [t \in Tool |-> IF t = t1 THEN "id" ELSE NoInvocation]
=============================================================================
