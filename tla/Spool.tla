-------------------------------- MODULE Spool --------------------------------
(***************************************************************************)
(* The event spool (adapters/common/hookflow/spool.go and the two Flush    *)
(* entry points of engine.go): hook processes append events to one         *)
(* <session>.jsonl file per session, flusher processes rotate a file away, *)
(* deliver its events to the core one by one, carry what was not delivered *)
(* over to a .rec<N>- file, and remove the rotated file.  The processes    *)
(* share nothing but the directory.                                        *)
(*                                                                         *)
(* A member of File is an inode.  Its directory entry is (kind, owner):    *)
(*   "spool"    the live <session>.jsonl of session home[f]                *)
(*   "recovery" a bare <session>.rec<N>-<id>.jsonl, N = attempt[f]         *)
(*   "rotated"  a <name>.flushing.<id>[.reclaim.<id>]; the random id is    *)
(*              the process that minted it, owner[f]                       *)
(*   "none"     no directory entry (never created, or unlinked)            *)
(* The lines of a file are kept as a set: a drain tries them in an order   *)
(* the model leaves open, which includes the order of the file.            *)
(***************************************************************************)
EXTENDS Naturals, FiniteSets

CONSTANTS
  Session,              \* session ids
  Event,                \* events; each one is recorded at most once
  Hook,                 \* hook processes, the callers of Append
  Drainer,              \* flusher processes: detached, SessionEnd, manual
  File,                 \* inodes
  SessionOf,            \* the session of an event
  Unbuildable,          \* events that never serialize (client.ErrUnbuildable)
  MaxRecoveryAttempts,  \* drains a line survives undelivered (5 in the code)
  MaxOccasions,         \* bound on kills, expiries, write faults, FlushAlls
  Nobody, NoFile, NoEvent, NoSession

\* What happens only so often: each is bounded by MaxOccasions.
Occasion == {"kill", "expire", "fault", "flushall"}

ASSUME SpoolAssumption ==
  /\ SessionOf \in [Event -> Session]
  /\ Unbuildable \subseteq Event
  /\ MaxRecoveryAttempts \in Nat
  /\ MaxOccasions \in [Occasion -> Nat]
  /\ Nobody \notin Drainer
  /\ NoFile \notin File
  /\ NoEvent \notin Event
  /\ NoSession \notin Session

VARIABLES
  \* the spool directory
  kind, home, attempt, owner, lines,
  \* hook processes: the line an open Append is about to write, and where
  line, fd,
  \* flusher processes
  pc, own, names, todo, cur, base, out, mem, failed, expired,
  \* the core and what a flusher was told by it
  accepted, acked,
  \* observation: what was recorded, and by which way an event left the spool
  recorded, dropped, faulted, late, read,
  exposed, resent, taken, reported,
  \* occasions so far
  occasions

dirVars    == <<kind, home, attempt, owner, lines, read>>
hookVars   == <<line, fd>>
planVars   == <<own, names, todo, expired>>
drainVars  == <<cur, base, out, mem, failed>>
coreVars   == <<accepted, acked, resent>>
fateVars   == <<dropped, faulted, late>>
vars == <<dirVars, hookVars, pc, planVars, drainVars, coreVars, fateVars,
          recorded, exposed, taken, reported, occasions>>

Kinds == {"none", "spool", "recovery", "rotated"}
\* What a drain knows of its file from the name it had: session and attempt.
Base   == [session : Session \cup {NoSession}, attempt : 0..MaxRecoveryAttempts]
NoBase == [session |-> NoSession, attempt |-> 0]
PCs   == {"idle", "start", "next", "read", "emit", "fill", "remove"}

(***************************************************************************)
(* Every variable has its type.                                            *)
(***************************************************************************)
TypeOK ==
  /\ kind \in [File -> Kinds]
  /\ home \in [File -> Session \cup {NoSession}]
  /\ attempt \in [File -> 0..MaxRecoveryAttempts]
  /\ owner \in [File -> Drainer \cup {Nobody}]
  /\ lines \in [File -> SUBSET Event]
  /\ read \in [File -> BOOLEAN]
  /\ line \in [Hook -> Event \cup {NoEvent}]
  /\ fd \in [Hook -> File \cup {NoFile}]
  /\ pc \in [Drainer -> PCs]
  /\ own \in [Drainer -> Session \cup {NoSession}]
  /\ names \in [Drainer -> SUBSET Session]
  /\ todo \in [Drainer -> SUBSET File]
  /\ cur \in [Drainer -> File \cup {NoFile}]
  /\ base \in [Drainer -> Base]
  /\ out \in [Drainer -> File \cup {NoFile}]
  /\ mem \in [Drainer -> SUBSET Event]
  /\ failed \in [Drainer -> SUBSET Event]
  /\ expired \in [Drainer -> BOOLEAN]
  /\ accepted \subseteq Event /\ acked \subseteq Event /\ resent \subseteq Event
  /\ dropped \subseteq Event /\ faulted \subseteq Event /\ late \subseteq Event
  /\ recorded \subseteq Event /\ exposed \subseteq Event /\ reported \subseteq Event
  /\ taken \in [Event -> 0..(MaxRecoveryAttempts + 2)]
  /\ occasions \in [Occasion -> Nat]

Init ==
  /\ kind = [f \in File |-> "none"]
  /\ home = [f \in File |-> NoSession]
  /\ attempt = [f \in File |-> 0]
  /\ owner = [f \in File |-> Nobody]
  /\ lines = [f \in File |-> {}]
  /\ read = [f \in File |-> FALSE]
  /\ line = [h \in Hook |-> NoEvent]
  /\ fd = [h \in Hook |-> NoFile]
  /\ pc = [d \in Drainer |-> "idle"]
  /\ own = [d \in Drainer |-> NoSession]
  /\ names = [d \in Drainer |-> {}]
  /\ todo = [d \in Drainer |-> {}]
  /\ cur = [d \in Drainer |-> NoFile]
  /\ base = [d \in Drainer |-> NoBase]
  /\ out = [d \in Drainer |-> NoFile]
  /\ mem = [d \in Drainer |-> {}]
  /\ failed = [d \in Drainer |-> {}]
  /\ expired = [d \in Drainer |-> FALSE]
  /\ accepted = {} /\ acked = {} /\ resent = {}
  /\ dropped = {} /\ faulted = {} /\ late = {}
  /\ recorded = {} /\ exposed = {} /\ reported = {}
  /\ taken = [e \in Event |-> 0]
  /\ occasions = [m \in Occasion |-> 0]

-----------------------------------------------------------------------------
(***************************************************************************)
(* The directory                                                           *)
(***************************************************************************)

Live(f) == kind[f] # "none"

\* An inode that nothing names and nobody has open: what a create may use.
Free(f) ==
  /\ ~Live(f)
  /\ \A h \in Hook : fd[h] # f
  /\ \A d \in Drainer : out[d] # f

IsSpoolOf(f, s) == kind[f] = "spool" /\ home[f] = s

IsRecoveryFile(f) == kind[f] = "recovery"

\* The file still has the name drain d gave it.
Holds(d, f) == cur[d] = f /\ kind[f] = "rotated" /\ owner[f] = d

\* The old name of f is gone: a flush that listed it will find nothing there.
Unlist(f) == [d \in Drainer |-> todo[d] \ {f}]

Happens(m) ==
  /\ occasions[m] < MaxOccasions[m]
  /\ occasions' = [occasions EXCEPT ![m] = @ + 1]

\* Adds ls to f.  What goes into a file that a drain has already read, or that
\* has no name any more, is late: nobody is going to look at it again.
WriteLines(f, ls) ==
  /\ lines' = [lines EXCEPT ![f] = IF Live(f) THEN @ \cup ls ELSE @]
  /\ late' = IF Live(f) /\ ~read[f] THEN late ELSE late \cup ls

\* Creates file f of session s; empty until its writer's write.
Create(f, k, s, n) ==
  /\ Free(f)
  /\ kind' = [kind EXCEPT ![f] = k]
  /\ home' = [home EXCEPT ![f] = s]
  /\ attempt' = [attempt EXCEPT ![f] = n]
  /\ owner' = [owner EXCEPT ![f] = Nobody]
  /\ lines' = [lines EXCEPT ![f] = {}]
  /\ read' = [read EXCEPT ![f] = FALSE]

Unlink(f) ==
  /\ kind' = [kind EXCEPT ![f] = "none"]
  /\ home' = [home EXCEPT ![f] = NoSession]
  /\ attempt' = [attempt EXCEPT ![f] = 0]
  /\ owner' = [owner EXCEPT ![f] = Nobody]
  /\ lines' = [lines EXCEPT ![f] = {}]
  /\ read' = [read EXCEPT ![f] = FALSE]
  /\ todo' = Unlist(f)

-----------------------------------------------------------------------------
(***************************************************************************)
(* Append: open (O_CREATE | O_APPEND), then one write.  A file that is     *)
(* rotated in between is still the one that is written.                    *)
(***************************************************************************)

AppendOpen(h, e) ==
  /\ fd[h] = NoFile
  /\ e \notin recorded /\ \A g \in Hook : line[g] # e
  /\ \/ \E f \in File : /\ IsSpoolOf(f, SessionOf[e])
                        /\ fd' = [fd EXCEPT ![h] = f]
                        /\ UNCHANGED dirVars
     \/ /\ \A f \in File : ~IsSpoolOf(f, SessionOf[e])
        /\ \E f \in File : /\ Create(f, "spool", SessionOf[e], 0)
                           /\ fd' = [fd EXCEPT ![h] = f]
  /\ line' = [line EXCEPT ![h] = e]
  /\ UNCHANGED <<pc, planVars, drainVars, coreVars, fateVars, recorded,
                 exposed, taken, reported, occasions>>

AppendWrite(h) ==
  /\ fd[h] # NoFile
  /\ WriteLines(fd[h], {line[h]})
  /\ recorded' = recorded \cup {line[h]}
  /\ fd' = [fd EXCEPT ![h] = NoFile]
  /\ line' = [line EXCEPT ![h] = NoEvent]
  /\ UNCHANGED <<kind, home, attempt, owner, read, pc, planVars, drainVars,
                 coreVars, dropped, faulted, exposed, taken, reported, occasions>>

-----------------------------------------------------------------------------
(***************************************************************************)
(* Starting a flush                                                        *)
(***************************************************************************)

\* UndeliveredCount looks at the bare recovery files.
UndeliveredLines == UNION {lines[f] : f \in {g \in File : IsRecoveryFile(g)}}

\* SessionEnd first records how much is undelivered, then flushes.
SessionEndFlush(d, s) ==
  /\ pc[d] = "idle"
  /\ pc' = [pc EXCEPT ![d] = "start"]
  /\ own' = [own EXCEPT ![d] = s]
  /\ reported' = reported \cup UndeliveredLines
  /\ UNCHANGED <<dirVars, hookVars, names, todo, expired, drainVars, coreVars,
                 fateVars, recorded, exposed, taken, occasions>>

\* Mutant: a sweep of the session's own carry-over only.
RecoveryFilesOwn(s) == {f \in File : IsRecoveryFile(f) /\ home[f] = s}

\* The carry-over files there are when a flush starts, of every session.
RecoveryFiles(s) == {f \in File : IsRecoveryFile(f)}

\* Flush: the carry-over set is listed before the session's own spool is
\* drained, so that files this flush writes are left for the next one.
BeginFlush(d, s) ==
  /\ \/ pc[d] = "start" /\ own[d] = s      \* SessionEnd, with its count taken
     \/ pc[d] = "idle"                      \* the flusher of a RealtimeTrigger
  /\ pc' = [pc EXCEPT ![d] = "next"]
  /\ own' = [own EXCEPT ![d] = s]
  /\ names' = [names EXCEPT ![d] = {s}]
  /\ todo' = [todo EXCEPT ![d] = RecoveryFiles(s)]
  /\ UNCHANGED <<dirVars, hookVars, expired, drainVars, coreVars, fateVars,
                 recorded, exposed, taken, reported, occasions>>

\* FlushAll lists the whole directory: live spools, carry-over files, and every
\* rotated file, which it takes to be the orphan of a killed drain.
FlushAll(d) ==
  /\ pc[d] = "idle"
  /\ Happens("flushall")
  /\ pc' = [pc EXCEPT ![d] = "next"]
  /\ own' = [own EXCEPT ![d] = NoSession]
  /\ names' = [names EXCEPT ![d] =
                 {s \in Session : \E f \in File : IsSpoolOf(f, s)}]
  /\ todo' = [todo EXCEPT ![d] =
                {f \in File : kind[f] \in {"recovery", "rotated"}}]
  /\ UNCHANGED <<dirVars, hookVars, expired, drainVars, coreVars, fateVars,
                 recorded, exposed, taken, reported>>

-----------------------------------------------------------------------------
(***************************************************************************)
(* Claiming a file: an atomic rename to a name only this drain knows.      *)
(***************************************************************************)

Claim(d, f) ==
  /\ kind' = [kind EXCEPT ![f] = "rotated"]
  /\ owner' = [owner EXCEPT ![f] = d]
  /\ todo' = Unlist(f)
  /\ cur' = [cur EXCEPT ![d] = f]
  /\ base' = [base EXCEPT ![d] = [session |-> home[f], attempt |-> attempt[f]]]
  /\ pc' = [pc EXCEPT ![d] = "read"]

\* FlushSession drains without looking at its context; FlushAll stops on it.
MayRotate(d) == own[d] # NoSession \/ ~expired[d]

\* drainFile of a live spool; a spool that is gone yields nothing.
RotateSpool(d, s) ==
  /\ pc[d] = "next"
  /\ s \in names[d]
  /\ MayRotate(d)
  /\ names' = [names EXCEPT ![d] = @ \ {s}]
  /\ \/ \E f \in File : IsSpoolOf(f, s) /\ Claim(d, f)
     \/ /\ \A f \in File : ~IsSpoolOf(f, s)
        /\ UNCHANGED <<kind, owner, todo, cur, base, pc>>
  /\ UNCHANGED <<home, attempt, lines, read, hookVars, own, expired, out, mem,
                 failed, coreVars, fateVars, recorded, exposed, taken, reported,
                 occasions>>

\* sweepRecovery takes the ending session's carry-over before the others'.
IsTurnOf(d, f) ==
  \/ own[d] = NoSession
  \/ /\ names[d] = {}
     /\ home[f] = own[d] \/ \A g \in todo[d] : home[g] # own[d]

\* A drain that has read its file and still works on what it read.
Working(d) == pc[d] \in {"emit", "fill", "remove"}

\* Claims a listed file.  One that another drain claimed first is no longer
\* listed: that rename fails and the file is left to its drain.  A rotated file
\* is claimed all the same (the .reclaim. rename), whether its drain was killed
\* or is at work.
ClaimListed(d, f) ==
  /\ pc[d] = "next"
  /\ f \in todo[d]
  /\ ~expired[d]
  /\ IsTurnOf(d, f)
  /\ Claim(d, f)
  /\ exposed' = IF \E c \in Drainer : Holds(c, f) /\ Working(c)
                THEN exposed \cup lines[f]
                ELSE exposed
  /\ UNCHANGED <<home, attempt, lines, read, hookVars, own, names, expired, out,
                 mem, failed, coreVars, fateVars, recorded, taken, reported,
                 occasions>>

\* The flush is over: everything was taken, or the budget ran out.
FinishFlush(d) ==
  /\ pc[d] = "next"
  /\ \/ names[d] = {} /\ todo[d] = {}
     \/ expired[d] /\ (names[d] = {} \/ ~MayRotate(d))
  /\ pc' = [pc EXCEPT ![d] = "idle"]
  /\ own' = [own EXCEPT ![d] = NoSession]
  /\ names' = [names EXCEPT ![d] = {}]
  /\ todo' = [todo EXCEPT ![d] = {}]
  /\ expired' = [expired EXCEPT ![d] = FALSE]
  /\ UNCHANGED <<dirVars, hookVars, drainVars, coreVars, fateVars, recorded,
                 exposed, taken, reported, occasions>>

-----------------------------------------------------------------------------
(***************************************************************************)
(* drainRotated                                                            *)
(***************************************************************************)

\* The counter saturates: what matters is whether the bound is exceeded.
Bump(n) == IF n > MaxRecoveryAttempts + 1 THEN n ELSE n + 1

\* The whole file is read up front.
ReadFile(d) ==
  /\ pc[d] = "read"
  /\ Holds(d, cur[d])
  /\ mem' = [mem EXCEPT ![d] = lines[cur[d]]]
  /\ read' = [read EXCEPT ![cur[d]] = TRUE]
  /\ taken' = [e \in Event |-> IF e \in lines[cur[d]] THEN Bump(taken[e])
                                                      ELSE taken[e]]
  /\ pc' = [pc EXCEPT ![d] = "emit"]
  /\ UNCHANGED <<kind, home, attempt, owner, lines, hookVars, planVars, cur, base,
                 out, failed, coreVars, fateVars, recorded, exposed, reported,
                 occasions>>

\* Another drain reclaimed it between the rename and the read.
ReadNothing(d) ==
  /\ pc[d] = "read"
  /\ ~Holds(d, cur[d])
  /\ cur' = [cur EXCEPT ![d] = NoFile]
  /\ base' = [base EXCEPT ![d] = NoBase]
  /\ pc' = [pc EXCEPT ![d] = "next"]
  /\ UNCHANGED <<dirVars, hookVars, planVars, out, mem, failed, coreVars,
                 fateVars, recorded, exposed, taken, reported, occasions>>

\* One call of fn, that is of Emit.  The core stores the event or not, and the
\* answer arrives or not: a stored event whose answer is lost is an error here.
EmitEvent(d, e) ==
  /\ pc[d] = "emit"
  /\ e \in mem[d]
  /\ ~expired[d]
  /\ mem' = [mem EXCEPT ![d] = @ \ {e}]
  /\ \/ /\ e \in Unbuildable
        /\ UNCHANGED <<failed, coreVars>>
     \/ /\ e \notin Unbuildable
        /\ resent' = IF e \in acked THEN resent \cup {e} ELSE resent
        /\ \/ /\ accepted' = accepted \cup {e}
              /\ acked' = acked \cup {e}
              /\ UNCHANGED failed
           \/ /\ accepted' \in {accepted, accepted \cup {e}}
              /\ failed' = [failed EXCEPT ![d] = @ \cup {e}]
              /\ UNCHANGED acked
  /\ UNCHANGED <<dirVars, hookVars, pc, planVars, cur, base, out, fateVars,
                 recorded, exposed, taken, reported, occasions>>

\* Mutants: the tail is forgotten; delivered lines are written again.
UndeliveredFailed(d) == failed[d]
UndeliveredWhole(d)  == failed[d] \cup mem[d] \cup lines[cur[d]]

\* What the drain did not deliver: what failed, and the tail it never tried.
Undelivered(d) == failed[d] \cup mem[d]

DrainOver(d) == pc[d] = "emit" /\ (mem[d] = {} \/ expired[d])

\* Mutant: a name without a counter.
NextAttemptUncounted(d) == 1

\* The attempt a carry-over file is named for, read off the drained file's name.
NextAttempt(d) == base[d].attempt + 1

\* writeRecovery's bounded give-up.
GiveUp(d) == NextAttempt(d) > MaxRecoveryAttempts

EndDrain(d) ==
  /\ DrainOver(d)
  /\ Undelivered(d) = {} \/ GiveUp(d)
  /\ dropped' = dropped \cup Undelivered(d)
  /\ mem' = [mem EXCEPT ![d] = {}]
  /\ failed' = [failed EXCEPT ![d] = {}]
  /\ pc' = [pc EXCEPT ![d] = "remove"]
  /\ UNCHANGED <<dirVars, hookVars, planVars, cur, base, out, coreVars, faulted,
                 late, recorded, exposed, taken, reported, occasions>>

\* writeRecovery is os.WriteFile: the file is there, empty, before its content.
CreateRecovery(d) ==
  /\ DrainOver(d)
  /\ Undelivered(d) # {} /\ ~GiveUp(d)
  /\ \E g \in File :
       /\ Create(g, "recovery", base[d].session, NextAttempt(d))
       /\ out' = [out EXCEPT ![d] = g]
  /\ failed' = [failed EXCEPT ![d] = Undelivered(d)]
  /\ mem' = [mem EXCEPT ![d] = {}]
  /\ pc' = [pc EXCEPT ![d] = "fill"]
  /\ UNCHANGED <<hookVars, planVars, cur, base, coreVars, fateVars, recorded,
                 exposed, taken, reported, occasions>>

FillRecovery(d) ==
  /\ pc[d] = "fill"
  /\ WriteLines(out[d], failed[d])
  /\ failed' = [failed EXCEPT ![d] = {}]
  /\ out' = [out EXCEPT ![d] = NoFile]
  /\ pc' = [pc EXCEPT ![d] = "remove"]
  /\ UNCHANGED <<kind, home, attempt, owner, read, hookVars, planVars, cur, base,
                 mem, coreVars, dropped, faulted, recorded, exposed, taken, reported,
                 occasions>>

\* A write that fails, as on a full disk: the error is discarded, and the drain
\* goes on to remove the rotated file.
RecoveryFault(d) ==
  /\ DrainOver(d)
  /\ Undelivered(d) # {} /\ ~GiveUp(d)
  /\ \/ Happens("fault")
     \/ (\A f \in File : ~Free(f)) /\ UNCHANGED occasions
  /\ faulted' = faulted \cup Undelivered(d)
  /\ mem' = [mem EXCEPT ![d] = {}]
  /\ failed' = [failed EXCEPT ![d] = {}]
  /\ pc' = [pc EXCEPT ![d] = "remove"]
  /\ UNCHANGED <<dirVars, hookVars, planVars, cur, base, out, coreVars, dropped,
                 late, recorded, exposed, taken, reported>>

\* The deferred os.Remove, by the name this drain gave the file.
RemoveRotated(d) ==
  /\ pc[d] = "remove"
  /\ IF Holds(d, cur[d]) THEN Unlink(cur[d]) ELSE UNCHANGED <<dirVars, todo>>
  /\ cur' = [cur EXCEPT ![d] = NoFile]
  /\ base' = [base EXCEPT ![d] = NoBase]
  /\ pc' = [pc EXCEPT ![d] = "next"]
  /\ UNCHANGED <<hookVars, own, names, expired, out, mem, failed, coreVars,
                 fateVars, recorded, exposed, taken, reported, occasions>>

-----------------------------------------------------------------------------
(***************************************************************************)
(* The environment                                                         *)
(***************************************************************************)

\* The flush budget (context.WithTimeout) runs out.
Expire(d) ==
  /\ pc[d] # "idle" /\ ~expired[d]
  /\ Happens("expire")
  /\ expired' = [expired EXCEPT ![d] = TRUE]
  /\ UNCHANGED <<dirVars, hookVars, pc, own, names, todo, drainVars, coreVars,
                 fateVars, recorded, exposed, taken, reported>>

\* A flusher is killed: its file stays behind under the rotated name.
Kill(d) ==
  /\ pc[d] # "idle"
  /\ Happens("kill")
  /\ exposed' = IF Working(d) /\ Holds(d, cur[d])
                THEN exposed \cup lines[cur[d]]
                ELSE exposed
  /\ pc' = [pc EXCEPT ![d] = "idle"]
  /\ own' = [own EXCEPT ![d] = NoSession]
  /\ names' = [names EXCEPT ![d] = {}]
  /\ todo' = [todo EXCEPT ![d] = {}]
  /\ expired' = [expired EXCEPT ![d] = FALSE]
  /\ cur' = [cur EXCEPT ![d] = NoFile]
  /\ base' = [base EXCEPT ![d] = NoBase]
  /\ out' = [out EXCEPT ![d] = NoFile]
  /\ mem' = [mem EXCEPT ![d] = {}]
  /\ failed' = [failed EXCEPT ![d] = {}]
  /\ UNCHANGED <<dirVars, hookVars, coreVars, fateVars, recorded, taken, reported>>

-----------------------------------------------------------------------------

DrainStep(d) ==
  \/ \E e \in Event : EmitEvent(d, e)
  \/ ReadFile(d) \/ ReadNothing(d) \/ EndDrain(d) \/ CreateRecovery(d) \/ FillRecovery(d)
  \/ RecoveryFault(d) \/ RemoveRotated(d)

FlushStep(d) ==
  \/ pc[d] = "start" /\ BeginFlush(d, own[d])
  \/ \E s \in Session : RotateSpool(d, s)
  \/ \E f \in todo[d] : ClaimListed(d, f)
  \/ FinishFlush(d)

StartFlush(d) ==
  /\ pc[d] = "idle"
  /\ \E s \in Session : BeginFlush(d, s) \/ SessionEndFlush(d, s)

HookStep(h) == AppendWrite(h) \/ \E e \in Event : AppendOpen(h, e)

Next ==
  \/ \E h \in Hook : HookStep(h)
  \/ \E d \in Drainer : StartFlush(d) \/ FlushAll(d) \/ FlushStep(d)
                        \/ DrainStep(d) \/ Expire(d) \/ Kill(d)

Spec == Init /\ [][Next]_vars

-----------------------------------------------------------------------------
(***************************************************************************)
(* Fairness: the operating system runs every process, and hooks keep       *)
(* starting flushes (of whichever sessions are then at work).  FlushAll is *)
(* a command a person may never type, so it gets none.                     *)
(***************************************************************************)
SpoolFairness ==
  /\ \A h \in Hook : WF_vars(AppendWrite(h))
  /\ \A d \in Drainer : WF_vars(FlushStep(d)) /\ WF_vars(DrainStep(d))
  /\ WF_vars(\E d \in Drainer : StartFlush(d))

FairSpec == Spec /\ SpoolFairness

-----------------------------------------------------------------------------
(***************************************************************************)
(* Properties                                                              *)
(***************************************************************************)

\* How an event may leave the spool: acknowledged, never serializable,
\* given up after the bounded retries, lost with a failed carry-over write, or
\* written into a file after a drain had read it.
Settled(e) == \/ e \in acked \cup dropped \cup faulted \cup late
              \/ e \in Unbuildable

\* An event some file of the directory still holds, at attempt n or later.
Kept(e, n) == \E f \in File : Live(f) /\ attempt[f] >= n /\ e \in lines[f]

(***************************************************************************)
(* A recorded event is on disk until it is settled: no interleaving of     *)
(* appends, rotations, sweeps, reclaims and removals, and no kill, leaves  *)
(* it nowhere.  (spool.go: "the tail is not dropped".)                     *)
(***************************************************************************)
NoLoss == \A e \in recorded : Settled(e) \/ Kept(e, 0)

(***************************************************************************)
(* An event the core acknowledged is sent again only if the drain that     *)
(* held it was killed, or had its file reclaimed under it by FlushAll.     *)
(* (spool.go: "a delivered event is never re-sent".)                       *)
(***************************************************************************)
NoResend == resent \subseteq exposed

(***************************************************************************)
(* The retry allowance is exact: an undisturbed event is taken up by at    *)
(* most MaxRecoveryAttempts + 1 drains, and is not given up before it was  *)
(* taken up by that many.                                                  *)
(***************************************************************************)
RetryAllowance ==
  \A e \in Event \ exposed :
    /\ taken[e] <= MaxRecoveryAttempts + 1
    /\ e \in dropped => taken[e] = MaxRecoveryAttempts + 1

(***************************************************************************)
(* The directory and its processes keep the promise of Outbox: whatever    *)
(* they interleave, the spool is one box of entries that are tried in      *)
(* turn and leave it only with a reason.                                   *)
(***************************************************************************)
Disk == {e \in Event : Kept(e, 0)}

O == INSTANCE Outbox WITH
       Entries <- Event, Hopeless <- Unbuildable, Tries <- MaxRecoveryAttempts + 1,
       known <- recorded, waiting <- Disk, tries <- taken,
       stored <- accepted, confirmed <- acked, abandoned <- dropped,
       missed <- faulted \cup late, disturbed <- exposed

ImplementsOutbox == O!OutboxSpec

(***************************************************************************)
(* A carry-over file has no trigger of its own: still, as long as some     *)
(* session flushes, what is in one is settled in the end.                  *)
(***************************************************************************)
InRecovery(e) == \E f \in File : IsRecoveryFile(f) /\ e \in lines[f]

CarryOverSettles == \A e \in Event : InRecovery(e) ~> Settled(e)

(***************************************************************************)
(* A claim of the documentation that the code does not keep.               *)
(***************************************************************************)

\* FlushSession: "It rotates the spool file first (atomic rename) so late
\* appends land in a fresh file"; RealtimeTrigger: "bounded staleness, never
\* loss".  No recorded event is lost before the retries are used up.
LateAppendsSurvive ==
  \A e \in recorded : e \in late => Kept(e, 0) \/ e \in accepted \cup dropped
=============================================================================
