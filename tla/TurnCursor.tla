----------------------------- MODULE TurnCursor -----------------------------
(***************************************************************************)
(* Per-turn usage of one session (adapters/common/hookflow/turncursor.go,  *)
(* emitTurn of adapters/claude-code/hookrun.go, readTurnUsage of usage.go).*)
(*                                                                         *)
(* The provider appends lines to the session's transcript.  At the end of  *)
(* a turn it runs a hook (Stop for the main thread, SubagentStop for a     *)
(* subagent), which reads the lines since its cursor, spools their usage   *)
(* as turn number Index, and only then moves the cursor.  A window of      *)
(* turns is the main thread or one subagent; each has its cursor, and at   *)
(* most one hook at a time.  A session that ended may be resumed.          *)
(*                                                                         *)
(* Only complete lines with usage are modelled, and of the two halves of   *)
(* a turn only TurnCompleted, which carries the usage.                     *)
(***************************************************************************)
EXTENDS Naturals, Sequences

CONSTANTS
  Main,      \* the main thread
  Agent,     \* subagents
  MaxLines,  \* bound on the transcript
  MaxEnds    \* bound on SessionEnds

Window == {Main} \cup Agent

ASSUME TurnAssumption ==
  /\ Main \notin Agent
  /\ MaxLines \in Nat
  /\ MaxEnds \in Nat

VARIABLES
  transcript,  \* the lines, each by the side of the partition it is on
  cursor,      \* the recorded position of each window
  pc, pos, next,  \* the hook of each window: where it is, from where, to where
  spooled,     \* turns appended to the spool
  delivered,   \* turns the core was sent
  stored,      \* and those of them it stored
  ends,        \* how often the session has ended
  replayed     \* windows that have reported a turn and not moved their cursor

hookVars == <<pc, pos, next>>
coreVars == <<delivered, stored>>
vars == <<transcript, cursor, hookVars, spooled, coreVars, ends, replayed>>

\* A line is on one side: a subagent's (isSidechain) or the main thread's.
Sides == {"main", "side"}

SideOf(w) == IF w = Main THEN "main" ELSE "side"

Pos  == [offset : Nat, index : Nat]
Turn == [window : Window, index : Nat, from : Nat, upto : Nat]

\* A cursor that is not there, or cannot be read, is one of the very start.
NoPos == [offset |-> 0, index |-> 0]

(***************************************************************************)
(* Every variable has its type.                                            *)
(***************************************************************************)
TypeOK ==
  /\ transcript \in Seq(Sides)
  /\ cursor \in [Window -> Pos]
  /\ pc \in [Window -> {"idle", "spool", "move"}]
  /\ pos \in [Window -> Pos] /\ next \in [Window -> Pos]
  /\ spooled \subseteq Turn /\ delivered \subseteq spooled /\ stored \subseteq delivered
  /\ ends \in Nat
  /\ replayed \subseteq Window

Init ==
  /\ transcript = <<>>
  /\ cursor = [w \in Window |-> NoPos]
  /\ pc = [w \in Window |-> "idle"]
  /\ pos = [w \in Window |-> NoPos]
  /\ next = [w \in Window |-> NoPos]
  /\ spooled = {} /\ delivered = {} /\ stored = {}
  /\ ends = 0
  /\ replayed = {}

-----------------------------------------------------------------------------

\* The lines of window w among those after a and up to b.
Lines(w, a, b) == {i \in 1..Len(transcript) : a < i /\ i <= b /\ transcript[i] = SideOf(w)}

LinesOf(t) == Lines(t.window, t.from, t.upto)

\* The provider writes a line.
Grow(side) ==
  /\ Len(transcript) < MaxLines
  /\ transcript' = Append(transcript, side)
  /\ UNCHANGED <<cursor, hookVars, spooled, coreVars, ends, replayed>>

\* A hook fires: it reads its cursor, and the transcript from there on.  Lines
\* of the other side are consumed too; if there are no others, no turn is made.
\* The transcript does not shrink: the re-read if it did is left out.
ReadTurnUsage(w) ==
  /\ pc[w] = "idle"
  /\ Len(transcript) > cursor[w].offset
  /\ pos' = [pos EXCEPT ![w] = cursor[w]]
  /\ next' = [next EXCEPT ![w] = [cursor[w] EXCEPT !.offset = Len(transcript)]]
  /\ pc' = [pc EXCEPT ![w] = IF Lines(w, cursor[w].offset, Len(transcript)) = {}
                             THEN "move" ELSE "spool"]
  /\ UNCHANGED <<transcript, cursor, spooled, coreVars, ends, replayed>>

TurnRead(w) == [window |-> w, index |-> pos[w].index,
                from |-> pos[w].offset, upto |-> next[w].offset]

\* Mutant: the turn's number is not counted on.
NextIndexSame(w) == pos[w].index

NextIndex(w) == pos[w].index + 1

\* Mutant: an append that fails does not keep the cursor from moving.
RecordTurnLoosely(w) ==
  /\ pc[w] = "spool"
  /\ spooled' \in {spooled, spooled \cup {TurnRead(w)}}
  /\ next' = [next EXCEPT ![w].index = NextIndex(w)]
  /\ pc' = [pc EXCEPT ![w] = "move"]
  /\ UNCHANGED <<transcript, cursor, pos, coreVars, ends, replayed>>

\* The turn is spooled.
RecordTurn(w) ==
  /\ pc[w] = "spool"
  /\ spooled' = spooled \cup {TurnRead(w)}
  /\ next' = [next EXCEPT ![w].index = NextIndex(w)]
  /\ pc' = [pc EXCEPT ![w] = "move"]
  /\ UNCHANGED <<transcript, cursor, pos, coreVars, ends, replayed>>

HookReturns(w) ==
  /\ pc' = [pc EXCEPT ![w] = "idle"]
  /\ pos' = [pos EXCEPT ![w] = NoPos]
  /\ next' = [next EXCEPT ![w] = NoPos]

\* Mutant: only the number is written back.
MovedCursorIndexOnly(w) == [next[w] EXCEPT !.offset = pos[w].offset]

MovedCursor(w) == next[w]

\* TurnCursor.Write, an atomic rename.
MoveCursor(w) ==
  /\ pc[w] = "move"
  /\ cursor' = [cursor EXCEPT ![w] = MovedCursor(w)]
  /\ HookReturns(w)
  /\ UNCHANGED <<transcript, spooled, coreVars, ends, replayed>>

\* The hook gives up before its cursor has moved: an append or the cursor's
\* write fails, or the host kills it.
GiveUp(w) ==
  /\ pc[w] \in {"spool", "move"}
  /\ HookReturns(w)
  /\ replayed' = IF pc[w] = "move" /\ TurnRead(w) \in spooled
                 THEN replayed \cup {w} ELSE replayed
  /\ UNCHANGED <<transcript, cursor, spooled, coreVars, ends>>

\* SessionEnd sweeps the cursors of all its windows.
ClearSession ==
  /\ ends < MaxEnds
  /\ ends' = ends + 1
  /\ cursor' = [w \in Window |-> NoPos]
  /\ UNCHANGED <<transcript, hookVars, spooled, coreVars, replayed>>

-----------------------------------------------------------------------------
(***************************************************************************)
(* The flush, in any order, and the core, which keeps the first of all     *)
(* turns with one activity id.                                             *)
(***************************************************************************)

SameActivity(t, u) == t.window = u.window /\ t.index = u.index

Deliver(t) ==
  /\ t \in spooled \ delivered
  /\ delivered' = delivered \cup {t}
  /\ stored' = IF \E u \in stored : SameActivity(t, u) THEN stored
                                                       ELSE stored \cup {t}
  /\ UNCHANGED <<transcript, cursor, hookVars, spooled, ends, replayed>>

Next ==
  \/ \E side \in Sides : Grow(side)
  \/ \E w \in Window : ReadTurnUsage(w) \/ RecordTurn(w) \/ MoveCursor(w) \/ GiveUp(w)
  \/ \E t \in spooled : Deliver(t)
  \/ ClearSession

Spec == Init /\ [][Next]_vars

-----------------------------------------------------------------------------
(***************************************************************************)
(* Properties                                                              *)
(***************************************************************************)

\* Line i is counted, for window w, in turn t.
Counts(t, w, i) == t.window = w /\ i \in LinesOf(t)

(***************************************************************************)
(* A cursor never passes a line whose usage is not in the spool, whatever  *)
(* fails and wherever a hook is killed.  (turncursor.go: "the caller       *)
(* spools the events FIRST and advances the cursor SECOND".)               *)
(***************************************************************************)
SpooledFirst ==
  \A w \in Window : \A i \in Lines(w, 0, cursor[w].offset) :
    \E t \in spooled : Counts(t, w, i)

(***************************************************************************)
(* The core counts no line twice: not when a turn is reported again after  *)
(* a crash, nor for the main thread and a subagent.  It does when a        *)
(* session is resumed, and for two subagents of one transcript.            *)
(***************************************************************************)
CountedOnce ==
  ends = 0 =>
    \A t, u \in stored : t # u /\ LinesOf(t) \cap LinesOf(u) # {}
                           => {t.window, u.window} \subseteq Agent /\ t.window # u.window

(***************************************************************************)
(* The core counts every line it is sent, as long as its window has not    *)
(* reported a turn and failed to move its cursor, and no session resumed.  *)
(***************************************************************************)
DeliveredCounted ==
  \A t \in delivered : ends = 0 /\ t.window \notin replayed =>
    \A i \in LinesOf(t) : \E u \in stored : Counts(u, t.window, i)

(***************************************************************************)
(* A claim of the documentation that the code does not keep: a crash       *)
(* before the cursor moves makes the hook "over-report into a server that  *)
(* deduplicates; never under-report into nothing".                         *)
(***************************************************************************)
NeverUnderReported ==
  \A t \in delivered : \A i \in LinesOf(t) : \E u \in stored : Counts(u, t.window, i)
=============================================================================
