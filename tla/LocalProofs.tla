----------------------------- MODULE LocalProofs -----------------------------
(***************************************************************************)
(* Proofs about the three small file protocols of a hook: the flush lock,  *)
(* the findings cursor and the duration stash, for any number of processes *)
(* and of tool calls, and files of any length.                             *)
(***************************************************************************)
EXTENDS FlushLock, FindingsCursor, DurationStash, TLAPS

(***************************************************************************)
(* The flush lock.                                                         *)
(***************************************************************************)

LockInv == LockTypeOK /\ FreshMeansFlush

LEMMA LockInitInv == LockInit => LockInv
<1>1. LockInit => LockTypeOK
  <2>1. LockInit => faults \in 0..MaxFaults
    BY LockAssumption DEF LockInit
  <2> QED BY <2>1 DEF LockInit, LockTypeOK
<1>2. LockInit => FreshMeansFlush
  BY DEF LockInit, FreshMeansFlush
<1> QED BY <1>1, <1>2 DEF LockInv

LEMMA LockTypeNext == LockTypeOK /\ [LockNext]_lockVars => LockTypeOK'
<1> SUFFICES ASSUME LockTypeOK, [LockNext]_lockVars PROVE LockTypeOK'
  OBVIOUS
<1> USE LockAssumption DEF LockTypeOK
<1>1. ASSUME NEW h \in Nudger,
             SpoolEvent(h) \/ ClaimLock(h) \/ StatLock(h) \/ TakeOver(h)
      PROVE  LockTypeOK'
  BY <1>1 DEF SpoolEvent, ClaimLock, StatLock, TakeOver, Go, Claimed
<1>2. ASSUME NEW h \in Nudger, SpawnFails(h) \/ KillNudger(h) PROVE LockTypeOK'
  <2>1. /\ npc' \in [Nudger -> {"idle", "claim", "stat", "takeover", "spawn"}]
        /\ fpc' = fpc /\ spooled' = spooled
        /\ lock' \in {"none", "fresh", "stale"}
    BY <1>2 DEF SpawnFails, KillNudger, Go, Unlinked
  <2>2. leaked' \in BOOLEAN
    BY <1>2 DEF SpawnFails, KillNudger, Unlinked
  <2>3. faults' \in 0..MaxFaults
    BY <1>2 DEF SpawnFails, KillNudger, Fault
  <2> QED BY <2>1, <2>2, <2>3
<1>3. ASSUME NEW h \in Nudger, NEW d \in Flusher, Spawn(h, d) PROVE LockTypeOK'
  BY <1>3 DEF Spawn, Go, Run
<1>4. ASSUME NEW d \in Flusher,
             \/ SessionEndRunsFlush(d) \/ FlushSkipped(d) \/ TouchFlushLock(d)
             \/ Drain(d) \/ ReleaseFlushLock(d) \/ KillFlusher(d)
      PROVE  LockTypeOK'
  <2>1. fpc' \in [Flusher -> {"none", "spawned", "drain", "release"}] /\ npc' = npc
    BY <1>4 DEF SessionEndRunsFlush, FlushSkipped, TouchFlushLock, Drain,
       ReleaseFlushLock, KillFlusher, Run
  <2>2. lock' \in {"none", "fresh", "stale"} /\ leaked' \in BOOLEAN
    BY <1>4 DEF SessionEndRunsFlush, FlushSkipped, TouchFlushLock, Drain,
       ReleaseFlushLock, KillFlusher, Claimed, Unlinked
  <2>3. spooled' \in BOOLEAN
    BY <1>4 DEF SessionEndRunsFlush, FlushSkipped, TouchFlushLock, Drain,
       ReleaseFlushLock, KillFlusher
  <2>4. faults' \in 0..MaxFaults
    BY <1>4 DEF SessionEndRunsFlush, FlushSkipped, TouchFlushLock, Drain,
       ReleaseFlushLock, KillFlusher, Fault
  <2> QED BY <2>1, <2>2, <2>3, <2>4
<1>5. CASE WindowPasses
  BY <1>5 DEF WindowPasses
<1>6. CASE UNCHANGED lockVars
  BY <1>6 DEF lockVars
<1> QED BY <1>1, <1>2, <1>3, <1>4, <1>5, <1>6 DEF LockNext

\* Who leaves "spawn" or dies as a flusher hands the claim on, removes the lock,
\* or leaves a leftover behind.
LEMMA FreshNext == LockInv /\ [LockNext]_lockVars => FreshMeansFlush'
<1> SUFFICES ASSUME LockInv, [LockNext]_lockVars, lock' = "fresh"
             PROVE  \/ \E h \in Nudger : npc'[h] = "spawn"
                    \/ \E d \in Flusher : fpc'[d] # "none"
                    \/ leaked'
  BY DEF FreshMeansFlush
<1> USE DEF LockInv, LockTypeOK, FreshMeansFlush
<1>1. ASSUME NEW h \in Nudger, SpoolEvent(h) \/ StatLock(h)
      PROVE  \/ \E g \in Nudger : npc'[g] = "spawn"
             \/ \E d \in Flusher : fpc'[d] # "none"
             \/ leaked'
  BY <1>1 DEF SpoolEvent, StatLock, Go
<1>2. ASSUME NEW h \in Nudger, ClaimLock(h) \/ TakeOver(h)
      PROVE  \/ \E g \in Nudger : npc'[g] = "spawn"
             \/ \E d \in Flusher : fpc'[d] # "none"
             \/ leaked'
  BY <1>2 DEF ClaimLock, TakeOver, Go, Claimed
<1>3. ASSUME NEW h \in Nudger, SpawnFails(h) PROVE FALSE
  BY <1>3 DEF SpawnFails, Unlinked
<1>4. ASSUME NEW h \in Nudger, KillNudger(h)
      PROVE  \/ \E g \in Nudger : npc'[g] = "spawn"
             \/ \E d \in Flusher : fpc'[d] # "none"
             \/ leaked'
  BY <1>4 DEF KillNudger, Go
<1>5. ASSUME NEW h \in Nudger, NEW d \in Flusher, Spawn(h, d)
      PROVE  fpc'[d] # "none"
  BY <1>5 DEF Spawn, Run
<1>6. ASSUME NEW d \in Flusher, SessionEndRunsFlush(d) \/ TouchFlushLock(d) \/ Drain(d)
      PROVE  fpc'[d] # "none"
  BY <1>6 DEF SessionEndRunsFlush, TouchFlushLock, Drain, Run
<1>7. ASSUME NEW d \in Flusher, FlushSkipped(d) \/ KillFlusher(d) PROVE leaked'
  BY <1>7 DEF FlushSkipped, KillFlusher
<1>8. ASSUME NEW d \in Flusher, ReleaseFlushLock(d) PROVE FALSE
  BY <1>8 DEF ReleaseFlushLock, Unlinked
<1>9. CASE WindowPasses
  BY <1>9 DEF WindowPasses
<1>10. CASE UNCHANGED lockVars
  BY <1>10 DEF lockVars
<1> QED
  BY <1>1, <1>2, <1>3, <1>4, <1>5, <1>6, <1>7, <1>8, <1>9, <1>10 DEF LockNext

\* Every variable of the flush lock keeps its type (realtime.go, runFlush).
THEOREM LockTypeCorrect == LockSpec => []LockTypeOK
<1>1. LockInit => LockTypeOK
  BY LockInitInv DEF LockInv
<1> QED BY <1>1, LockTypeNext, PTL DEF LockSpec

\* A fresh lock, on which a hook leaves its event to others, always stands for
\* a flusher that is alive or about to be, or for one that died since (realtime.go).
THEOREM FreshLockMeansFlush == LockSpec => []FreshMeansFlush
<1>1. LockInv /\ [LockNext]_lockVars => LockInv'
  BY LockTypeNext, FreshNext DEF LockInv
<1>2. LockInv => FreshMeansFlush
  BY DEF LockInv
<1> QED BY LockInitInv, <1>1, <1>2, PTL DEF LockSpec

-----------------------------------------------------------------------------
(***************************************************************************)
(* The findings cursor.                                                    *)
(***************************************************************************)

\* What a hook holds was the cursor's when it read it, so all before it was told;
\* when it goes to move the cursor, all before the new place was told too.
Holds(r) ==
  /\ Summarized(0, from[r]) \subseteq shown[AgentOf[r]]
  /\ rpc[r] = "advance" => Summarized(0, upto[r]) \subseteq shown[AgentOf[r]]
  /\ rpc[r] \in {"write", "advance"} => from[r] <= upto[r]

HoldsInv == \A r \in Reader : Holds(r)

\* While no two hooks of a provider overlap and none is cut short: one hook at
\* most is under way, from where the cursor is, and nothing beyond the cursor
\* was told but by the hook that goes to move it.
AloneInv ==
  \A a \in Agent \ disturbed :
    /\ reshown[a] = {}
    /\ \A r, q \in Reader :
         AgentOf[r] = a /\ AgentOf[q] = a /\ rpc[r] # "idle" /\ rpc[q] # "idle" => r = q
    /\ \A r \in Reader : AgentOf[r] = a /\ rpc[r] # "idle" => from[r] = cursor[a]
    /\ \A k \in shown[a] :
         \/ k <= cursor[a]
         \/ \E r \in Reader : AgentOf[r] = a /\ rpc[r] = "advance" /\ k <= upto[r]

FindingsInv == FindingsTypeOK /\ NoFindingSkipped /\ HoldsInv /\ AloneInv

LEMMA FindingsInitInv == FindingsInit => FindingsInv
<1> SUFFICES ASSUME FindingsInit PROVE FindingsInv
  OBVIOUS
<1> USE FindingsAssumption DEF FindingsInit
<1>1. Len(sink) = 0 /\ sink \in Seq(BOOLEAN)
  OBVIOUS
<1>2. FindingsTypeOK
  <2>1. /\ cursor \in [Agent -> 0..Len(sink)]
        /\ from \in [Reader -> 0..Len(sink)] /\ upto \in [Reader -> 0..Len(sink)]
    BY <1>1
  <2>2. /\ rpc \in [Reader -> {"idle", "read", "write", "advance"}]
        /\ shown \in [Agent -> SUBSET (1..Len(sink))]
        /\ reshown \in [Agent -> SUBSET (1..Len(sink))]
    OBVIOUS
  <2> QED BY <1>1, <2>1, <2>2 DEF FindingsTypeOK
<1>3. Summarized(0, 0) = {}
  BY DEF Summarized
<1>4. NoFindingSkipped
  BY <1>3 DEF NoFindingSkipped
<1>5. HoldsInv
  BY <1>3 DEF HoldsInv, Holds
<1>6. AloneInv
  BY DEF AloneInv
<1> QED BY <1>2, <1>4, <1>5, <1>6 DEF FindingsInv

\* The file only grows, and a line that is there stays as it is.
LEMMA OneMore ==
  ASSUME NEW S, NEW s \in Seq(S), NEW e \in S
  PROVE  /\ Append(s, e) \in Seq(S) /\ Len(Append(s, e)) = Len(s) + 1
         /\ \A i \in 1..Len(s) : Append(s, e)[i] = s[i]
OBVIOUS

LEMMA SinkGrows ==
  ASSUME FindingsTypeOK, RecordAdvisory
  PROVE  /\ sink' \in Seq(BOOLEAN) /\ Len(sink') = Len(sink) + 1
         /\ \A i \in 1..Len(sink) : sink'[i] = sink[i]
         /\ torn' \in BOOLEAN /\ UNCHANGED readerVars
<1>1. sink \in Seq(BOOLEAN) /\ (~torn) \in BOOLEAN
  BY DEF FindingsTypeOK
<1>2. sink' = Append(sink, ~torn) /\ torn' = FALSE /\ UNCHANGED readerVars
  BY DEF RecordAdvisory
<1> QED BY <1>1, <1>2, OneMore, Zenon

LEMMA SameSummary ==
  ASSUME FindingsTypeOK, RecordAdvisory, NEW i \in Nat, NEW j \in 0..Len(sink)
  PROVE  Summarized(i, j)' = Summarized(i, j)
<1>1. \A k \in (i + 1)..j : k \in 1..Len(sink)
  BY DEF FindingsTypeOK
<1>2. \A k \in (i + 1)..j : sink'[k] = sink[k]
  BY <1>1, SinkGrows
<1> QED BY <1>2 DEF Summarized
ReaderStep(r) == \/ ReadCursor(r) \/ NothingNew(r) \/ ReadDelta(r)
                 \/ WriteFindings(r) \/ AdvanceCursor(r) \/ CutShort(r)

LEMMA FindingsKinds ==
  ASSUME [FindingsNext]_findingsVars
  PROVE  \/ RecordAdvisory
         \/ UNCHANGED <<sink, readerVars>> /\ (torn' = TRUE \/ torn' = torn)
         \/ \E r \in Reader : ReaderStep(r)
BY DEF FindingsNext, TearAdvisory, findingsVars, readerVars, ReaderStep

LEMMA FindingsTypeNext ==
  FindingsTypeOK /\ [FindingsNext]_findingsVars => FindingsTypeOK'
<1> SUFFICES ASSUME FindingsTypeOK, [FindingsNext]_findingsVars PROVE FindingsTypeOK'
  OBVIOUS
<1> USE FindingsAssumption
<1>1. CASE RecordAdvisory
  <2> DEFINE L == Len(sink)
  <2>1. L \in Nat /\ Len(sink') = L + 1
    BY <1>1, SinkGrows DEF FindingsTypeOK
  <2>2. 0..L \subseteq 0..(L + 1) /\ 1..L \subseteq 1..(L + 1)
    BY <2>1
  <2>3. /\ cursor' \in [Agent -> 0..L] /\ from' \in [Reader -> 0..L]
        /\ upto' \in [Reader -> 0..L] /\ shown' \in [Agent -> SUBSET (1..L)]
        /\ reshown' \in [Agent -> SUBSET (1..L)]
        /\ rpc' \in [Reader -> {"idle", "read", "write", "advance"}]
        /\ disturbed' \subseteq Agent
    BY <1>1, SinkGrows DEF FindingsTypeOK, readerVars
  <2>4. /\ cursor' \in [Agent -> 0..(L + 1)] /\ from' \in [Reader -> 0..(L + 1)]
        /\ upto' \in [Reader -> 0..(L + 1)]
    BY <2>2, <2>3
  <2>5. /\ shown' \in [Agent -> SUBSET (1..(L + 1))]
        /\ reshown' \in [Agent -> SUBSET (1..(L + 1))]
    <3> HIDE DEF L
    <3>1. SUBSET (1..L) \subseteq SUBSET (1..(L + 1))
      BY <2>2
    <3> QED BY <3>1, <2>3
  <2> QED BY <1>1, SinkGrows, <2>1, <2>3, <2>4, <2>5 DEF FindingsTypeOK
<1>2. CASE UNCHANGED <<sink, readerVars>> /\ (torn' = TRUE \/ torn' = torn)
  BY <1>2 DEF FindingsTypeOK, readerVars
<1>3. ASSUME NEW r \in Reader, ReaderStep(r) PROVE FindingsTypeOK'
  <2>1. /\ UNCHANGED <<sink, torn>>
        /\ rpc' \in [Reader -> {"idle", "read", "write", "advance"}]
    BY <1>3 DEF FindingsTypeOK, ReaderStep, ReadCursor, NothingNew, ReadDelta,
       WriteFindings, AdvanceCursor, CutShort, ToStep, Exits
  <2>2. AgentOf[r] \in Agent /\ Len(sink) \in Nat
    BY DEF FindingsTypeOK
  <2>3. cursor' \in [Agent -> 0..Len(sink)]
    BY <1>3, <2>2 DEF FindingsTypeOK, ReaderStep, ReadCursor, NothingNew, ReadDelta,
       WriteFindings, AdvanceCursor, CutShort
  <2>4. from' \in [Reader -> 0..Len(sink)]
    BY <1>3, <2>2 DEF FindingsTypeOK, ReaderStep, ReadCursor, NothingNew, ReadDelta,
       WriteFindings, AdvanceCursor, CutShort, Exits
  <2>5. upto' \in [Reader -> 0..Len(sink)]
    <3>1. CASE ReadDelta(r)
      <4>1. PICK j \in (from[r] + 1)..Len(sink) : upto' = [upto EXCEPT ![r] = j]
        BY <3>1 DEF ReadDelta
      <4>2. j \in 0..Len(sink)
        BY <2>2 DEF FindingsTypeOK
      <4> QED BY <4>1, <4>2 DEF FindingsTypeOK
    <3>2. CASE ~ReadDelta(r)
      <4>1. upto' = upto \/ upto' = [upto EXCEPT ![r] = 0]
        BY <1>3, <3>2 DEF ReaderStep, ReadCursor, NothingNew, WriteFindings,
           AdvanceCursor, CutShort, Exits
      <4>2. 0 \in 0..Len(sink)
        BY <2>2
      <4> QED BY <4>1, <4>2 DEF FindingsTypeOK
    <3> QED BY <3>1, <3>2
  <2>6. /\ shown' \in [Agent -> SUBSET (1..Len(sink))]
        /\ reshown' \in [Agent -> SUBSET (1..Len(sink))]
    <3>1. CASE WriteFindings(r)
      <4> DEFINE new == Summarized(from[r], upto[r])
      <4>1. new \subseteq 1..Len(sink)
        BY <2>2 DEF FindingsTypeOK, Summarized
      <4>2. /\ reshown' = [reshown EXCEPT ![AgentOf[r]] = @ \cup (new \cap shown[AgentOf[r]])]
            /\ shown' = [shown EXCEPT ![AgentOf[r]] = @ \cup new]
        BY <3>1 DEF WriteFindings
      <4> HIDE DEF new
      <4> QED BY <4>1, <4>2, <2>2 DEF FindingsTypeOK
    <3>2. CASE ~WriteFindings(r)
      BY <1>3, <3>2 DEF FindingsTypeOK, ReaderStep, ReadCursor, NothingNew, ReadDelta,
         AdvanceCursor, CutShort
    <3> QED BY <3>1, <3>2
  <2>7. disturbed' \subseteq Agent
    BY <1>3, <2>2 DEF FindingsTypeOK, ReaderStep, ReadCursor, NothingNew, ReadDelta,
       WriteFindings, AdvanceCursor, CutShort
  <2> QED BY <2>1, <2>3, <2>4, <2>5, <2>6, <2>7 DEF FindingsTypeOK
<1> QED BY <1>1, <1>2, <1>3, FindingsKinds

LEMMA SummaryParts ==
  ASSUME NEW i \in Nat, NEW j \in Nat
  PROVE  Summarized(0, j) \subseteq Summarized(0, i) \cup Summarized(i, j)
BY DEF Summarized

\* What a step of a hook does to the providers' cursors, told lines and deltas:
\* the one lemma the two invariants below take from the actions.
LEMMA ReaderStepCases ==
  ASSUME FindingsTypeOK, NEW r \in Reader, ReaderStep(r)
  PROVE  /\ sink' = sink
         /\ \A a \in Agent : shown[a] \subseteq shown'[a]
         /\ \A a \in Agent \ {AgentOf[r]} : /\ cursor'[a] = cursor[a] /\ shown'[a] = shown[a]
                                            /\ reshown'[a] = reshown[a]
         /\ \A q \in Reader \ {r} : /\ rpc'[q] = rpc[q] /\ from'[q] = from[q]
                                     /\ upto'[q] = upto[q]
         /\ disturbed \subseteq disturbed'
<1> USE DEF FindingsTypeOK
<1>1. CASE WriteFindings(r)
  BY <1>1 DEF WriteFindings, ToStep
<1>2. CASE ReadDelta(r)
  BY <1>2 DEF ReadDelta, ToStep
<1>3. CASE ReadCursor(r)
  BY <1>3 DEF ReadCursor, ToStep
<1>4. CASE NothingNew(r) \/ CutShort(r)
  BY <1>4 DEF NothingNew, CutShort, ToStep, Exits
<1>5. CASE AdvanceCursor(r)
  BY <1>5 DEF AdvanceCursor, ToStep, Exits
<1> QED BY <1>1, <1>2, <1>3, <1>4, <1>5 DEF ReaderStep

LEMMA HoldsNext ==
  ASSUME FindingsInv, NEW r \in Reader, ReaderStep(r)
  PROVE  Holds(r)' /\ (Summarized(0, cursor[AgentOf[r]]) \subseteq shown[AgentOf[r]])'
<1> DEFINE a == AgentOf[r]
<1>1. a \in Agent
  BY FindingsAssumption
<1>2. /\ FindingsTypeOK /\ Holds(r) /\ Summarized(0, cursor[a]) \subseteq shown[a]
  BY <1>1 DEF FindingsInv, NoFindingSkipped, HoldsInv
<1>3. Summarized(0, 0)' = {} /\ \A i, j : Summarized(i, j)' = Summarized(i, j)
  <2>1. sink' = sink
    BY <1>2, ReaderStepCases
  <2> QED BY <2>1 DEF Summarized
<1>4. CASE ReadCursor(r)
  BY <1>1, <1>2, <1>3, <1>4 DEF ReadCursor, ToStep, Holds, FindingsTypeOK
<1>5. CASE NothingNew(r) \/ CutShort(r)
  BY <1>1, <1>2, <1>3, <1>5 DEF NothingNew, CutShort, ToStep, Exits, Holds, FindingsTypeOK
<1>6. CASE ReadDelta(r)
  <2>1. PICK j \in (from[r] + 1)..Len(sink) :
          /\ upto' = [upto EXCEPT ![r] = j]
          /\ ToStep(r, IF Summarized(from[r], j) = {} THEN "advance" ELSE "write")
    BY <1>6 DEF ReadDelta
  <2>2. from[r] \in Nat /\ j \in Nat /\ from[r] <= j
    BY <1>2 DEF FindingsTypeOK
  <2>3. /\ upto'[r] = j /\ from' = from /\ shown' = shown /\ cursor' = cursor
        /\ rpc'[r] = IF Summarized(from[r], j) = {} THEN "advance" ELSE "write"
    BY <1>2, <1>6, <2>1 DEF ReadDelta, ToStep, FindingsTypeOK
  <2>4. rpc'[r] = "advance" => Summarized(0, j) \subseteq shown[a]
    BY <1>2, <2>2, <2>3, SummaryParts DEF Holds
  <2> QED BY <1>2, <1>3, <2>2, <2>3, <2>4 DEF Holds
<1>7. CASE WriteFindings(r)
  <2>1. /\ rpc[r] = "write" /\ rpc'[r] = "advance" /\ from' = from /\ upto' = upto
        /\ cursor' = cursor
        /\ shown'[a] = shown[a] \cup Summarized(from[r], upto[r])
    BY <1>1, <1>2, <1>7 DEF WriteFindings, ToStep, FindingsTypeOK
  <2>2. from[r] \in Nat /\ upto[r] \in Nat
    BY <1>2 DEF FindingsTypeOK
  <2>3. Summarized(0, upto[r]) \subseteq shown'[a]
    BY <1>2, <2>1, <2>2, SummaryParts DEF Holds
  <2> QED BY <1>2, <1>3, <2>1, <2>3 DEF Holds
<1>8. CASE AdvanceCursor(r)
  <2>1. /\ rpc[r] = "advance" /\ rpc'[r] = "idle" /\ from'[r] = 0 /\ upto'[r] = 0
        /\ shown' = shown /\ cursor'[a] = upto[r]
    BY <1>1, <1>2, <1>8 DEF AdvanceCursor, ToStep, Exits, FindingsTypeOK
  <2> QED BY <1>2, <1>3, <2>1 DEF Holds
<1> QED BY <1>4, <1>5, <1>6, <1>7, <1>8 DEF ReaderStep

LEMMA SkippedNext ==
  FindingsInv /\ [FindingsNext]_findingsVars => (NoFindingSkipped /\ HoldsInv)'
<1> SUFFICES ASSUME FindingsInv, [FindingsNext]_findingsVars
             PROVE  (NoFindingSkipped /\ HoldsInv)'
  OBVIOUS
<1> USE DEF FindingsInv
<1>1. CASE RecordAdvisory
  <2>1. UNCHANGED readerVars
    BY <1>1, SinkGrows
  <2>2. \A j \in 0..Len(sink) : Summarized(0, j)' = Summarized(0, j)
    BY <1>1, SameSummary
  <2>3. NoFindingSkipped'
    BY <2>1, <2>2 DEF readerVars, NoFindingSkipped, FindingsTypeOK
  <2>4. HoldsInv'
    BY <2>1, <2>2 DEF readerVars, HoldsInv, Holds, FindingsTypeOK
  <2> QED BY <2>3, <2>4
<1>2. CASE UNCHANGED <<sink, readerVars>>
  BY <1>2 DEF NoFindingSkipped, HoldsInv, Holds, Summarized, readerVars
<1>3. ASSUME NEW r \in Reader, ReaderStep(r) PROVE (NoFindingSkipped /\ HoldsInv)'
  <2>1. /\ \A i, j : Summarized(i, j)' = Summarized(i, j)
        /\ \A a \in Agent : shown[a] \subseteq shown'[a]
        /\ \A a \in Agent \ {AgentOf[r]} : cursor'[a] = cursor[a]
        /\ \A q \in Reader \ {r} : /\ rpc'[q] = rpc[q] /\ from'[q] = from[q]
                                    /\ upto'[q] = upto[q]
    BY <1>3, ReaderStepCases DEF Summarized
  <2>2. Holds(r)' /\ (Summarized(0, cursor[AgentOf[r]]) \subseteq shown[AgentOf[r]])'
    BY <1>3, HoldsNext
  <2>3. NoFindingSkipped'
    BY <2>1, <2>2 DEF NoFindingSkipped
  <2>4. ASSUME NEW q \in Reader \ {r} PROVE Holds(q)'
    <3>1. AgentOf[q] \in Agent /\ Holds(q)
      BY FindingsAssumption DEF HoldsInv
    <3> QED BY <2>1, <3>1 DEF Holds
  <2> QED BY <2>2, <2>3, <2>4 DEF HoldsInv
<1> QED BY <1>1, <1>2, <1>3, FindingsKinds

LEMMA AloneNext ==
  FindingsInv /\ [FindingsNext]_findingsVars => AloneInv'
<1> SUFFICES ASSUME FindingsInv, [FindingsNext]_findingsVars PROVE AloneInv'
  OBVIOUS
<1>1. CASE UNCHANGED readerVars
  BY <1>1 DEF FindingsInv, AloneInv, readerVars
<1>2. ASSUME NEW r \in Reader, ReaderStep(r), NEW a \in Agent \ disturbed'
      PROVE  /\ reshown'[a] = {}
             /\ \A q, p \in Reader :
                  AgentOf[q] = a /\ AgentOf[p] = a /\ rpc'[q] # "idle" /\ rpc'[p] # "idle"
                    => q = p
             /\ \A q \in Reader : AgentOf[q] = a /\ rpc'[q] # "idle" => from'[q] = cursor'[a]
             /\ \A k \in shown'[a] :
                  \/ k <= cursor'[a]
                  \/ \E q \in Reader : AgentOf[q] = a /\ rpc'[q] = "advance" /\ k <= upto'[q]
  <2>1. FindingsTypeOK /\ a \in Agent \ disturbed
    BY <1>2, ReaderStepCases DEF FindingsInv
  <2>2. /\ reshown[a] = {}
        /\ \A q, p \in Reader :
             AgentOf[q] = a /\ AgentOf[p] = a /\ rpc[q] # "idle" /\ rpc[p] # "idle" => q = p
        /\ \A q \in Reader : AgentOf[q] = a /\ rpc[q] # "idle" => from[q] = cursor[a]
        /\ \A k \in shown[a] :
             \/ k <= cursor[a]
             \/ \E q \in Reader : AgentOf[q] = a /\ rpc[q] = "advance" /\ k <= upto[q]
    BY <2>1 DEF FindingsInv, AloneInv
  <2>3. \A q \in Reader \ {r} : /\ rpc'[q] = rpc[q] /\ from'[q] = from[q]
                               /\ upto'[q] = upto[q]
    BY <1>2, <2>1, ReaderStepCases
  <2>4. CASE AgentOf[r] # a
    <3>1. cursor'[a] = cursor[a] /\ shown'[a] = shown[a] /\ reshown'[a] = reshown[a]
      BY <1>2, <2>1, <2>4, ReaderStepCases
    <3> QED BY <2>2, <2>3, <2>4, <3>1
  <2>5. CASE AgentOf[r] = a
    <3>1. CASE ReadCursor(r)
      <4>1. \A q \in Reader : AgentOf[q] = a => rpc[q] = "idle"
        BY <2>1, <2>5, <3>1 DEF ReadCursor
      <4>2. /\ rpc'[r] = "read" /\ from'[r] = cursor[a] /\ cursor' = cursor
            /\ shown' = shown /\ reshown' = reshown
        BY <2>1, <2>5, <3>1 DEF ReadCursor, ToStep, FindingsTypeOK
      <4> QED BY <2>2, <2>3, <4>1, <4>2
    <3>2. CASE CutShort(r)
      BY <2>5, <3>2 DEF CutShort
    <3>3. CASE NothingNew(r)
      <4>1. /\ rpc[r] = "read" /\ rpc'[r] = "idle" /\ cursor' = cursor
            /\ shown' = shown /\ reshown' = reshown
        BY <2>1, <3>3 DEF NothingNew, Exits, ToStep, FindingsTypeOK
      <4> QED BY <2>2, <2>3, <2>5, <4>1
    <3>4. CASE ReadDelta(r)
      <4>1. /\ rpc[r] = "read" /\ rpc'[r] # "idle" /\ cursor' = cursor /\ from' = from
            /\ shown' = shown /\ reshown' = reshown
        BY <2>1, <3>4 DEF ReadDelta, ToStep, FindingsTypeOK
      <4> QED BY <2>2, <2>3, <2>5, <4>1
    <3>5. CASE WriteFindings(r)
      <4>1. /\ rpc[r] = "write" /\ rpc'[r] = "advance" /\ cursor' = cursor
            /\ from' = from /\ upto' = upto
            /\ shown'[a] = shown[a] \cup Summarized(from[r], upto[r])
            /\ reshown'[a] = reshown[a] \cup (Summarized(from[r], upto[r]) \cap shown[a])
        BY <2>1, <2>5, <3>5 DEF WriteFindings, ToStep, FindingsTypeOK
      <4>2. \A k \in shown[a] : k <= cursor[a]
        BY <2>2, <2>5, <4>1
      <4>3. from[r] = cursor[a] /\ cursor[a] \in Nat /\ upto[r] \in Nat
        BY <2>1, <2>2, <2>5, <4>1 DEF FindingsTypeOK
      <4>4. \A k \in Summarized(from[r], upto[r]) : k \in Nat /\ k > cursor[a] /\ k <= upto[r]
        BY <4>3 DEF Summarized
      <4>5. reshown'[a] = {}
        BY <2>2, <4>1, <4>2, <4>3, <4>4
      <4>6. \A q \in Reader : AgentOf[q] = a /\ rpc'[q] # "idle" => q = r
        BY <2>2, <2>3, <2>5, <4>1
      <4> QED BY <2>2, <2>5, <4>1, <4>2, <4>3, <4>4, <4>5, <4>6
    <3>6. CASE AdvanceCursor(r)
      <4>1. /\ rpc[r] = "advance" /\ rpc'[r] = "idle" /\ cursor'[a] = upto[r]
            /\ shown' = shown /\ reshown' = reshown
        BY <2>1, <2>5, <3>6 DEF AdvanceCursor, ToStep, Exits, FindingsTypeOK
      <4>2. from[r] = cursor[a] /\ from[r] <= upto[r]
        BY <2>2, <2>5, <4>1 DEF FindingsInv, HoldsInv, Holds
      <4>3. cursor[a] \in Nat /\ upto[r] \in Nat /\ \A k \in shown[a] : k \in Nat
        BY <2>1 DEF FindingsTypeOK
      <4>4. \A k \in shown[a] : k <= upto[r]
        BY <2>2, <2>5, <4>1, <4>2, <4>3
      <4>5. \A q \in Reader : AgentOf[q] = a => rpc'[q] = "idle"
        BY <2>2, <2>3, <2>5, <4>1
      <4> QED BY <2>2, <4>1, <4>4, <4>5
    <3> QED BY <1>2, <3>1, <3>2, <3>3, <3>4, <3>5, <3>6 DEF ReaderStep
  <2> QED BY <2>4, <2>5
<1>3. RecordAdvisory => UNCHANGED readerVars
  BY DEF RecordAdvisory
<1> QED BY <1>1, <1>2, <1>3, FindingsKinds DEF AloneInv

\* Every variable of the findings loop keeps its type, and no cursor or delta
\* reaches beyond the end of the advisory file (findings.go, advisory.go).
THEOREM FindingsTypeCorrect == FindingsSpec => []FindingsTypeOK
<1>1. FindingsInit => FindingsTypeOK
  BY FindingsInitInv DEF FindingsInv
<1> QED BY <1>1, FindingsTypeNext, PTL DEF FindingsSpec

\* However many hooks race over however many lines, a cursor passes only what was
\* told, and tells twice only after hooks overlapped or one was cut short (findings.go).
THEOREM FindingsToldOnceHolds == FindingsSpec => []FindingsToldOnce
<1>1. FindingsInv /\ [FindingsNext]_findingsVars => FindingsInv'
  BY FindingsTypeNext, SkippedNext, AloneNext DEF FindingsInv
<1>2. FindingsInv => FindingsToldOnce
  BY DEF FindingsInv, FindingsToldOnce, AloneInv, NoFindingTwice
<1> QED BY FindingsInitInv, <1>1, <1>2, PTL DEF FindingsSpec

-----------------------------------------------------------------------------
(***************************************************************************)
(* The duration stash.                                                     *)
(***************************************************************************)

InFlight(t) == tpc[t] \in {"temp", "running", "taken"}

\* A record lies under the key of its call; a call whose start was recorded has
\* gone past the recording; calls of one key that are in flight together know of
\* each other; and a record that was put stays the call's own until it is read,
\* unless another call of the key was in flight with it.
StashInv ==
  /\ StashTypeOK
  /\ \A k \in Keys : record[k] \in Tool => ToolCallStartKey(record[k]) = k
  /\ \A t \in put : ~(tpc[t] \in {"new", "temp"})
  /\ \A t, u \in Tool :
       t # u /\ ToolCallStartKey(t) = ToolCallStartKey(u) /\ InFlight(t) /\ InFlight(u)
         => t \in crossed
  /\ \A t \in put : tpc[t] = "running" =>
       record[ToolCallStartKey(t)] \in {t, NoTool} \/ t \in crossed
  /\ \A t \in Tool : startedAt[t] # NoTool => tpc[t] \in {"taken", "over"}
  /\ OwnStart

LEMMA StashInitInv == StashInit => StashInv
BY StashAssumption DEF StashInit, StashInv, StashTypeOK, InFlight, OwnStart

LEMMA StashNextInv == StashInv /\ [StashNext]_stashVars => StashInv'
<1> SUFFICES ASSUME StashInv, [StashNext]_stashVars PROVE StashInv'
  OBVIOUS
<1> USE StashAssumption DEF StashInv, StashTypeOK, InFlight, OwnStart
<1>1. \A t \in Tool : ToolCallStartKey(t) \in Keys
  BY DEF Keys
<1>2. ASSUME NEW t \in Tool, WriteTemp(t) PROVE StashInv'
  <2>1. /\ tpc[t] = "new" /\ tpc' = [tpc EXCEPT ![t] = "temp"]
        /\ UNCHANGED <<record, startedAt, put>> /\ stashDir' = TRUE
    BY <1>2 DEF WriteTemp, At
  <2>2. /\ crossed' \subseteq Tool /\ crossed \subseteq crossed'
        /\ \A u \in Tool \ {t} :
             ToolCallStartKey(t) = ToolCallStartKey(u) /\ InFlight(u)
               => t \in crossed' /\ u \in crossed'
    BY <1>2 DEF WriteTemp, Rivals
  <2> QED BY <2>1, <2>2
<1>3. ASSUME NEW t \in Tool, PutStart(t) PROVE StashInv'
  <2>1. /\ tpc[t] = "temp" /\ tpc' = [tpc EXCEPT ![t] = "running"]
        /\ UNCHANGED <<stashDir, startedAt, crossed>>
    BY <1>3 DEF PutStart, At
  <2>2. CASE stashDir
    <3>1. record' = [record EXCEPT ![ToolCallStartKey(t)] = t] /\ put' = put \cup {t}
      BY <1>3, <2>2 DEF PutStart
    <3> QED BY <1>1, <2>1, <3>1
  <2>3. CASE ~stashDir
    <3>1. UNCHANGED <<record, put>>
      BY <1>3, <2>3 DEF PutStart
    <3> QED BY <1>1, <2>1, <3>1
  <2> QED BY <2>2, <2>3
<1>4. ASSUME NEW t \in Tool, PutFails(t) \/ NeverCompletes(t) PROVE StashInv'
  BY <1>4 DEF PutFails, NeverCompletes, At
<1>5. ASSUME NEW t \in Tool, ReadStart(t) PROVE StashInv'
  <2>1. /\ tpc[t] = "running" /\ tpc' = [tpc EXCEPT ![t] = "taken"]
        /\ startedAt' = [startedAt EXCEPT ![t] = record[ToolCallStartKey(t)]]
        /\ UNCHANGED <<record, stashDir, put, crossed>>
    BY <1>5 DEF ReadStart, At
  <2>2. record[ToolCallStartKey(t)] \in Tool \cup {NoTool}
    BY <1>1
  <2>3. ASSUME record[ToolCallStartKey(t)] \notin {t, NoTool}
        PROVE  InvocationOf[t] = NoInvocation /\ (t \in crossed \/ t \notin put)
    <3>1. PICK u \in Tool : u = record[ToolCallStartKey(t)] /\ u # t
      BY <2>2, <2>3
    <3>2. ToolCallStartKey(u) = ToolCallStartKey(t)
      BY <1>1, <3>1
    <3>3. InvocationOf[u] = InvocationOf[t]
      BY <3>2 DEF ToolCallStartKey
    <3> QED BY <2>1, <2>3, <3>1, <3>3
  <2> QED BY <2>1, <2>2, <2>3
<1>6. ASSUME NEW t \in Tool, RemoveStart(t) PROVE StashInv'
  <2>1. /\ tpc[t] = "taken" /\ tpc' = [tpc EXCEPT ![t] = "over"]
        /\ \/ record' = record
           \/ record' = [record EXCEPT ![ToolCallStartKey(t)] = NoTool]
        /\ UNCHANGED <<stashDir, startedAt, put, crossed>>
    BY <1>6 DEF RemoveStart, At
  <2> QED BY <1>1, <2>1
<1>7. CASE ClearStash
  <2>1. /\ record' = [k \in Keys |-> NoTool] /\ stashDir' = FALSE /\ put' = {}
        /\ UNCHANGED <<tpc, startedAt, crossed>>
    BY <1>7 DEF ClearStash
  <2> QED BY <2>1
<1>8. CASE UNCHANGED stashVars
  BY <1>8 DEF stashVars
<1> QED BY <1>2, <1>3, <1>4, <1>5, <1>6, <1>7, <1>8 DEF StashNext

\* Every variable of the duration stash keeps its type (duration.go).
THEOREM StashTypeCorrect == StashSpec => []StashTypeOK
<1>1. StashInv => StashTypeOK
  BY DEF StashInv
<1> QED BY StashInitInv, StashNextInv, <1>1, PTL DEF StashSpec

\* For any tool calls, ids and keys: a completed event carries the start of its own
\* call, but for calls without an id that cross or whose start was not recorded
\* (duration.go).
THEOREM OwnStartHolds == StashSpec => []OwnStart
<1>1. StashInv => OwnStart
  BY DEF StashInv
<1> QED BY StashInitInv, StashNextInv, <1>1, PTL DEF StashSpec
==============================================================================
