------------------------------ MODULE HookProofs ------------------------------
(***************************************************************************)
(* Proofs about TurnCursor: its type, that a cursor never passes a line    *)
(* whose usage is not in the spool, and that the core counts no line twice *)
(* and, but for the stated exceptions, every line it was sent.  And about  *)
(* HookSession: whose the events are that the core was given, what their   *)
(* ids and activities name, and that no words are in them without leave.   *)
(***************************************************************************)
EXTENDS TurnCursor, HookSession, TLAPS

\* The lines of window w up to b are in turns of the spool.
Covered(w, b) == \A i \in Lines(w, 0, b) : \E t \in spooled : Counts(t, w, i)

\* No position lies beyond the transcript.
InTranscript ==
  \A w \in Window : /\ cursor[w].offset <= Len(transcript)
                    /\ pos[w].offset <= Len(transcript)
                    /\ next[w].offset <= Len(transcript)

\* What a hook started from is covered, and what it would move the cursor to
\* is once it has spooled its turn.
HooksCovered ==
  \A w \in Window : /\ Covered(w, pos[w].offset)
                    /\ pc[w] = "move" => Covered(w, next[w].offset)

CursorsCovered == \A w \in Window : Covered(w, cursor[w].offset)

IInv == TypeOK /\ InTranscript /\ HooksCovered /\ CursorsCovered

-----------------------------------------------------------------------------

\* TypeOK is kept by every step.
LEMMA TypeInductive == TypeOK /\ [Next]_vars => TypeOK'
<1> SUFFICES ASSUME TypeOK, [Next]_vars PROVE TypeOK'
  OBVIOUS
<1> USE DEF TypeOK, hookVars, coreVars
<1>1. ASSUME NEW side \in Sides, Grow(side) PROVE TypeOK'
  BY <1>1 DEF Grow
<1>2. ASSUME NEW w \in Window, ReadTurnUsage(w) PROVE TypeOK'
  <2>1. cursor[w] \in Pos /\ [cursor[w] EXCEPT !.offset = Len(transcript)] \in Pos
    <3>1. cursor[w] \in Pos /\ Len(transcript) \in Nat
      OBVIOUS
    <3> QED BY <3>1 DEF Pos
  <2> QED BY <1>2, <2>1 DEF ReadTurnUsage
<1>3. ASSUME NEW w \in Window, RecordTurn(w) PROVE TypeOK'
  <2>1. TurnRead(w) \in Turn
    BY DEF TurnRead, Turn, Pos
  <2>2. [next EXCEPT ![w].index = NextIndex(w)] \in [Window -> Pos]
    <3>1. next[w] \in Pos /\ pos[w].index + 1 \in Nat
      BY DEF Pos
    <3>2. [next[w] EXCEPT !.index = pos[w].index + 1] \in Pos
      BY <3>1 DEF Pos
    <3> QED BY <3>2 DEF NextIndex
  <2> QED BY <1>3, <2>1, <2>2 DEF RecordTurn
<1>4. ASSUME NEW w \in Window, MoveCursor(w) PROVE TypeOK'
  BY <1>4 DEF MoveCursor, MovedCursor, HookReturns, NoPos, Pos
<1>5. ASSUME NEW w \in Window, GiveUp(w) PROVE TypeOK'
  BY <1>5 DEF GiveUp, HookReturns, NoPos, Pos
<1>6. ASSUME NEW t \in spooled, Deliver(t) PROVE TypeOK'
  BY <1>6 DEF Deliver
<1>7. ASSUME ClearSession PROVE TypeOK'
  BY <1>7 DEF ClearSession, NoPos, Pos
<1>8. ASSUME UNCHANGED vars PROVE TypeOK'
  BY <1>8 DEF vars
<1> QED BY <1>1, <1>2, <1>3, <1>4, <1>5, <1>6, <1>7, <1>8 DEF Next

\* What is covered stays covered: turns are only added, lines only appended.
LEMMA CoveredStays ==
  ASSUME TypeOK, NEW w \in Window, NEW b \in Nat, b <= Len(transcript),
         spooled \subseteq spooled',
         \/ transcript' = transcript
         \/ \E side \in Sides : transcript' = Append(transcript, side),
         Covered(w, b)
  PROVE  Covered(w, b)' /\ b <= Len(transcript)'
<1>1. /\ Len(transcript) \in Nat /\ Len(transcript') \in Nat
      /\ Len(transcript) <= Len(transcript')
      /\ \A i \in 1..Len(transcript) : transcript'[i] = transcript[i]
  BY DEF TypeOK
<1>2. ASSUME NEW i \in Lines(w, 0, b)' PROVE \E t \in spooled' : Counts(t, w, i)'
  <2>1. i \in Lines(w, 0, b)
    BY <1>1, <1>2 DEF Lines
  <2>2. PICK t \in spooled : Counts(t, w, i)
    BY <2>1 DEF Covered
  <2>3. Counts(t, w, i)'
    BY <1>1, <2>2 DEF Counts, LinesOf, Lines
  <2> QED BY <2>2, <2>3
<1> QED BY <1>1, <1>2 DEF Covered

\* A turn from the end of what is covered covers all up to its own end.
LEMMA CoveredExtends ==
  ASSUME TypeOK, NEW w \in Window, NEW a \in Nat, NEW b \in Nat,
         Covered(w, a),
         \A i \in Lines(w, a, b) : \E t \in spooled : Counts(t, w, i)
  PROVE  Covered(w, b)
<1>1. ASSUME NEW i \in Lines(w, 0, b) PROVE i \in Lines(w, 0, a) \/ i \in Lines(w, a, b)
  BY <1>1 DEF Lines, TypeOK
<1> QED BY <1>1 DEF Covered

LEMMA CoveredNothing == ASSUME NEW w PROVE Covered(w, 0)
BY DEF Covered, Lines

\* What the four parts of IInv say of one window.
LEMMA OfWindow ==
  ASSUME IInv, NEW w \in Window
  PROVE  /\ Covered(w, pos[w].offset) /\ Covered(w, cursor[w].offset)
         /\ pc[w] = "move" => Covered(w, next[w].offset)
         /\ pos[w].offset \in Nat /\ cursor[w].offset \in Nat /\ next[w].offset \in Nat
         /\ pos[w].offset <= Len(transcript) /\ cursor[w].offset <= Len(transcript)
         /\ next[w].offset <= Len(transcript)
BY DEF IInv, TypeOK, InTranscript, HooksCovered, CursorsCovered, Pos

\* IInv is kept by every step.
LEMMA Inductive == IInv /\ [Next]_vars => IInv'
<1> SUFFICES ASSUME IInv, [Next]_vars PROVE IInv'
  OBVIOUS
<1>1. TypeOK /\ TypeOK'
  BY TypeInductive DEF IInv
<1>2. /\ spooled \subseteq spooled'
      /\ \/ transcript' = transcript
         \/ \E side \in Sides : transcript' = Append(transcript, side)
  BY DEF Next, vars, hookVars, coreVars, Grow, ReadTurnUsage, RecordTurn, MoveCursor,
         GiveUp, Deliver, ClearSession
<1>3. ASSUME NEW w \in Window, NEW b \in Nat, b <= Len(transcript), Covered(w, b)
      PROVE  Covered(w, b)' /\ b <= Len(transcript)'
  BY <1>1, <1>2, <1>3, CoveredStays
<1>4. ASSUME NEW w \in Window
      PROVE  Covered(w, 0)' /\ 0 <= Len(transcript)'
  BY <1>1, <1>3, <1>4, CoveredNothing DEF TypeOK
<1> DEFINE
  \* What is to be shown of the positions of one window.
  Good(w) == /\ cursor[w].offset <= Len(transcript) /\ Covered(w, cursor[w].offset)
             /\ pos[w].offset <= Len(transcript) /\ Covered(w, pos[w].offset)
             /\ next[w].offset <= Len(transcript)
             /\ pc[w] = "move" => Covered(w, next[w].offset)
<1>5. ASSUME NEW w \in Window,
             cursor'[w] = cursor[w], pos'[w] = pos[w], next'[w].offset = next[w].offset,
             pc'[w] = "move" => pc[w] = "move"
      PROVE  Good(w)'
  <2>1. /\ cursor[w].offset \in Nat /\ cursor[w].offset <= Len(transcript)
        /\ Covered(w, cursor[w].offset)
        /\ pos[w].offset \in Nat /\ pos[w].offset <= Len(transcript)
        /\ Covered(w, pos[w].offset)
    BY OfWindow
  <2>2. /\ next[w].offset \in Nat /\ next[w].offset <= Len(transcript)
        /\ pc[w] = "move" => Covered(w, next[w].offset)
    BY OfWindow
  <2>3. /\ Covered(w, cursor[w].offset)' /\ cursor'[w].offset <= Len(transcript')
        /\ Covered(w, pos[w].offset)' /\ pos'[w].offset <= Len(transcript')
    BY <1>3, <1>5, <2>1
  <2>4. next'[w].offset <= Len(transcript')
    BY <1>1, <1>2, <1>5, <2>2 DEF TypeOK
  <2>5. pc'[w] = "move" => Covered(w, next[w].offset)'
    BY <1>3, <1>5, <2>2
  <2> QED BY <1>5, <2>3, <2>4, <2>5 DEF Covered
<1>6. SUFFICES ASSUME NEW w \in Window PROVE Good(w)'
  BY <1>1 DEF IInv, InTranscript, HooksCovered, CursorsCovered
\* The positions of w before the step, and what is still true of them after it.
<1>7. PICK c \in Nat, p \in Nat, n \in Nat :
         c = cursor[w].offset /\ p = pos[w].offset /\ n = next[w].offset
  BY OfWindow
<1>8. /\ c <= Len(transcript) /\ Covered(w, c)
      /\ p <= Len(transcript) /\ Covered(w, p)
      /\ n <= Len(transcript) /\ (pc[w] = "move" => Covered(w, n))
  BY <1>7, OfWindow
<1>9. /\ c <= Len(transcript)' /\ Covered(w, c)'
      /\ p <= Len(transcript)' /\ Covered(w, p)'
      /\ n <= Len(transcript)' /\ (pc[w] = "move" => Covered(w, n)')
  <2>1. n <= Len(transcript)'
    BY <1>1, <1>2, <1>8 DEF TypeOK
  <2> QED BY <1>3, <1>8, <2>1
<1> USE DEF TypeOK, hookVars, coreVars
<1>10. ASSUME NEW side \in Sides, Grow(side) PROVE Good(w)'
  BY <1>5, <1>10 DEF Grow
<1>11. ASSUME NEW v \in Window, ReadTurnUsage(v) PROVE Good(w)'
  <2>1. CASE v # w
    BY <1>5, <1>11, <2>1 DEF ReadTurnUsage
  <2>2. CASE v = w
    <3>1. cursor[w] \in Pos /\ Len(transcript) \in Nat
      BY <1>1
    <3>2. [cursor[w] EXCEPT !.offset = Len(transcript)].offset = Len(transcript)
      BY <3>1 DEF Pos
    <3>3. /\ transcript' = transcript /\ spooled' = spooled /\ cursor' = cursor
          /\ pos'[w] = cursor[w] /\ next'[w].offset = Len(transcript)
          /\ pc'[w] = "move" => Lines(w, cursor[w].offset, Len(transcript)) = {}
      BY <1>1, <1>11, <2>2, <3>2 DEF ReadTurnUsage
    <3>4. ASSUME pc'[w] = "move" PROVE Covered(w, Len(transcript))
      <4>1. Lines(w, c, Len(transcript)) = {}
        BY <1>7, <3>3, <3>4
      <4> QED BY <1>1, <1>8, <3>1, <4>1, CoveredExtends
    <3>5. /\ cursor'[w].offset = c /\ pos'[w].offset = c
          /\ next'[w].offset = Len(transcript)
      BY <1>7, <3>3
    <3>6. ASSUME pc'[w] = "move" PROVE Covered(w, next[w].offset)'
      BY <3>3, <3>4, <3>6 DEF Covered, Lines, Counts, LinesOf
    <3> QED BY <1>9, <3>1, <3>3, <3>5, <3>6 DEF Covered
  <2> QED BY <2>1, <2>2
<1>12. ASSUME NEW v \in Window, RecordTurn(v) PROVE Good(w)'
  <2>1. CASE v # w
    BY <1>5, <1>12, <2>1 DEF RecordTurn
  <2>2. CASE v = w
    <3>1. next[w] \in Pos
      BY <1>1
    <3>2. [next[w] EXCEPT !.index = NextIndex(w)].offset = n
      BY <1>7, <3>1 DEF Pos
    <3>3. /\ transcript' = transcript /\ cursor' = cursor /\ pos' = pos
          /\ spooled' = spooled \cup {TurnRead(w)}
          /\ next'[w].offset = n
      BY <1>1, <1>12, <2>2, <3>2 DEF RecordTurn
    <3>4. Covered(w, n)'
      <4>1. ASSUME NEW i \in Lines(w, p, n)' PROVE Counts(TurnRead(w), w, i)'
        BY <1>7, <3>3, <4>1 DEF Lines, Counts, LinesOf, TurnRead
      <4>2. TurnRead(w)' \in spooled'
        BY <1>7, <3>3 DEF TurnRead
      <4>3. ASSUME NEW i \in Lines(w, 0, n)' PROVE i \in Lines(w, 0, p)' \/ i \in Lines(w, p, n)'
        BY <1>1, <4>3 DEF Lines
      <4> QED BY <1>9, <4>1, <4>2, <4>3 DEF Covered
    <3> QED BY <1>7, <1>9, <3>3, <3>4 DEF Covered
  <2> QED BY <2>1, <2>2
<1>13. ASSUME NEW v \in Window, MoveCursor(v) PROVE Good(w)'
  <2>1. CASE v # w
    BY <1>5, <1>13, <2>1 DEF MoveCursor, HookReturns
  <2>2. CASE v = w
    <3>1. /\ cursor'[w].offset = n /\ pc[w] = "move" /\ pc'[w] = "idle"
          /\ pos'[w].offset = 0 /\ next'[w].offset = 0
      BY <1>1, <1>7, <1>13, <2>2 DEF MoveCursor, MovedCursor, HookReturns, NoPos
    <3> QED BY <1>4, <1>9, <3>1 DEF Covered
  <2> QED BY <2>1, <2>2
<1>14. ASSUME NEW v \in Window, GiveUp(v) PROVE Good(w)'
  <2>1. CASE v # w
    BY <1>5, <1>14, <2>1 DEF GiveUp, HookReturns
  <2>2. CASE v = w
    <3>1. /\ cursor'[w].offset = c /\ pc'[w] = "idle"
          /\ pos'[w].offset = 0 /\ next'[w].offset = 0
      BY <1>1, <1>7, <1>14, <2>2 DEF GiveUp, HookReturns, NoPos
    <3> QED BY <1>4, <1>9, <3>1 DEF Covered
  <2> QED BY <2>1, <2>2
<1>15. ASSUME NEW t \in spooled, Deliver(t) PROVE Good(w)'
  BY <1>5, <1>15 DEF Deliver
<1>16. ASSUME ClearSession PROVE Good(w)'
  <2>1. /\ cursor'[w].offset = 0
        /\ pos'[w].offset = p /\ next'[w].offset = n /\ pc' = pc
    BY <1>7, <1>16 DEF ClearSession, NoPos
  <2> QED BY <1>4, <1>9, <2>1 DEF Covered
<1>17. ASSUME UNCHANGED vars PROVE Good(w)'
  BY <1>5, <1>17 DEF vars
<1> QED BY <1>10, <1>11, <1>12, <1>13, <1>14, <1>15, <1>16, <1>17 DEF Next

LEMMA InitInductive == Init => IInv
<1> SUFFICES ASSUME Init PROVE IInv
  OBVIOUS
<1>1. TypeOK
  BY DEF Init, TypeOK, NoPos, Pos, Turn
<1>2. \A w \in Window : cursor[w].offset = 0 /\ pos[w].offset = 0 /\ next[w].offset = 0
  BY DEF Init, NoPos
<1> QED BY <1>1, <1>2, CoveredNothing
       DEF Init, IInv, InTranscript, HooksCovered, CursorsCovered

-----------------------------------------------------------------------------
(***************************************************************************)
(* The variables of the turn cursor (turncursor.go and the hook around it) *)
(* keep their types.                                                       *)
(***************************************************************************)
THEOREM TurnTypeCorrect == Spec => []TypeOK
<1>1. IInv => TypeOK
  BY DEF IInv
<1> QED BY <1>1, InitInductive, Inductive, PTL DEF Spec

(***************************************************************************)
(* For any number of subagents, of lines and of SessionEnds, and wherever  *)
(* emitTurn fails or is killed: a cursor never passes a line whose usage   *)
(* is not in the spool.                                                    *)
(***************************************************************************)
THEOREM SpooledFirstHolds == Spec => []SpooledFirst
<1>1. IInv => SpooledFirst
  BY DEF IInv, CursorsCovered, Covered, SpooledFirst
<1> QED BY <1>1, InitInductive, Inductive, PTL DEF Spec

-----------------------------------------------------------------------------
(***************************************************************************)
(* What the core counts.  It keeps one turn of a number, so what is needed *)
(* is how the numbers of the turns of a window go with their lines, until  *)
(* a session ends and the numbers begin anew.                              *)
(***************************************************************************)

\* A turn is of lines that are there, one at least.
TurnsTrue == \A t \in spooled : t.upto <= Len(transcript) /\ LinesOf(t) # {}

\* A turn of a lower number ends where a later one begins, or before.
TurnsInOrder ==
  \A t, u \in spooled : t.window = u.window /\ t.index < u.index => t.upto <= u.from

\* The turns of window w end before its cursor, but for those of the number
\* the cursor is at: they begin there.
NumberedByCursor(w) ==
  \A t \in spooled : t.window = w =>
    \/ t.index < cursor[w].index /\ t.upto <= cursor[w].offset
    \/ t.index = cursor[w].index /\ t.from = cursor[w].offset

\* The hook of window w started from the cursor, and has read all that turns
\* reported before.
HookTrue(w) ==
  pc[w] # "idle" =>
    /\ pos[w] = cursor[w] /\ next[w].offset <= Len(transcript)
    /\ \A t \in spooled : t.window = w => t.upto <= next[w].offset
    /\ pc[w] = "spool" => Lines(w, pos[w].offset, next[w].offset) # {}
    /\ pc[w] = "move" => \/ next[w].index = pos[w].index + 1
                         \/ /\ next[w].index = pos[w].index
                            /\ Lines(w, pos[w].offset, next[w].offset) = {}

\* A turn of the cursor's number is the one its hook has just reported, unless
\* one was reported and the cursor not moved.
ReportedByHook(w) ==
  w \notin replayed =>
    \A t \in spooled : t.window = w /\ t.index = cursor[w].index =>
      pc[w] = "move" /\ t = TurnRead(w)

\* So that a number stands for one turn.
NumbersOnce ==
  \A t, u \in spooled : SameActivity(t, u) /\ t.window \notin replayed => t = u

\* The core keeps one turn of each number it was sent.
StoredOnePer ==
  /\ \A t, u \in stored : SameActivity(t, u) => t = u
  /\ \A t \in delivered : \E u \in stored : SameActivity(t, u)

Numbered ==
  /\ TurnsTrue /\ TurnsInOrder /\ NumbersOnce
  /\ \A w \in Window : NumberedByCursor(w) /\ HookTrue(w) /\ ReportedByHook(w)

CountInv == TypeOK /\ StoredOnePer /\ (ends = 0 => Numbered)

\* Lines once read stay as they are.
LEMMA LinesStay ==
  ASSUME TypeOK, NEW w \in Window, NEW a \in Nat, NEW b \in Nat, b <= Len(transcript),
         NEW side \in Sides, transcript' = Append(transcript, side)
  PROVE  Lines(w, a, b)' = Lines(w, a, b)
<1>1. /\ Len(transcript) \in Nat /\ Len(transcript') = Len(transcript) + 1
      /\ \A i \in 1..Len(transcript) : transcript'[i] = transcript[i]
  BY DEF TypeOK
<1> QED BY <1>1 DEF Lines

LEMMA TurnType ==
  ASSUME TypeOK, NEW t \in spooled
  PROVE  /\ t.window \in Window /\ t.index \in Nat /\ t.from \in Nat /\ t.upto \in Nat
         /\ t = [window |-> t.window, index |-> t.index, from |-> t.from, upto |-> t.upto]
BY DEF TypeOK, Turn

LEMMA PosType ==
  ASSUME TypeOK, NEW w \in Window
  PROVE  /\ cursor[w] \in Pos /\ pos[w] \in Pos /\ next[w] \in Pos
         /\ cursor[w].index \in Nat /\ cursor[w].offset \in Nat
         /\ pos[w].index \in Nat /\ pos[w].offset \in Nat
         /\ next[w].index \in Nat /\ next[w].offset \in Nat
         /\ Len(transcript) \in Nat
BY DEF TypeOK, Pos

LEMMA GrowNumbers ==
  ASSUME TypeOK, Numbered, NEW side \in Sides, Grow(side)
  PROVE  Numbered'
<1>1. /\ transcript' = Append(transcript, side) /\ UNCHANGED <<cursor, pc, pos, next, spooled, replayed>>
      /\ Len(transcript) \in Nat /\ Len(transcript') = Len(transcript) + 1
  BY DEF Grow, hookVars, TypeOK
<1>2. TurnsTrue'
  <2>1. ASSUME NEW t \in spooled
        PROVE  t.upto <= Len(transcript)' /\ LinesOf(t)' # {}
    <3>1. t.upto <= Len(transcript) /\ LinesOf(t) # {}
      BY DEF Numbered, TurnsTrue
    <3>2. LinesOf(t)' = LinesOf(t)
      BY <1>1, <3>1, TurnType, LinesStay DEF LinesOf
    <3> QED BY <1>1, <3>1, <3>2, TurnType
  <2> QED BY <1>1, <2>1 DEF TurnsTrue
<1>3. ASSUME NEW w \in Window PROVE HookTrue(w)'
  <2>1. SUFFICES ASSUME pc[w] # "idle" PROVE HookTrue(w)'
    BY <1>1 DEF HookTrue
  <2>2. HookTrue(w) /\ next[w].offset <= Len(transcript)
    BY <2>1 DEF Numbered, HookTrue
  <2>3. Lines(w, pos[w].offset, next[w].offset)' = Lines(w, pos[w].offset, next[w].offset)
    BY <1>1, <2>2, PosType, LinesStay DEF Lines
  <2>4. next[w].offset <= Len(transcript)'
    BY <1>1, <2>2, PosType
  <2> QED BY <1>1, <2>1, <2>2, <2>3, <2>4 DEF HookTrue
<1>4. \A w \in Window : NumberedByCursor(w)' /\ ReportedByHook(w)'
  BY <1>1 DEF Numbered, NumberedByCursor, ReportedByHook, TurnRead
<1>5. TurnsInOrder' /\ NumbersOnce'
  BY <1>1 DEF Numbered, TurnsInOrder, NumbersOnce
<1> QED BY <1>2, <1>3, <1>4, <1>5 DEF Numbered

\* What is to be shown of a step that spools nothing and writes no line: the
\* windows one by one.
LEMMA WindowsNumber ==
  ASSUME Numbered, UNCHANGED <<transcript, spooled>>, replayed \subseteq replayed',
         \A w \in Window : NumberedByCursor(w)' /\ HookTrue(w)' /\ ReportedByHook(w)'
  PROVE  Numbered'
<1>1. TurnsTrue'
  BY DEF Numbered, TurnsTrue, LinesOf, Lines
<1>2. TurnsInOrder' /\ NumbersOnce'
  BY DEF Numbered, TurnsInOrder, NumbersOnce
<1> QED BY <1>1, <1>2 DEF Numbered

\* A window the step is not about.
LEMMA OtherWindow ==
  ASSUME Numbered, NEW w \in Window, UNCHANGED transcript,
         cursor'[w] = cursor[w], pc'[w] = pc[w], pos'[w] = pos[w], next'[w] = next[w],
         w \in replayed => w \in replayed',
         \A t \in spooled' : t.window = w => t \in spooled
  PROVE  NumberedByCursor(w)' /\ HookTrue(w)' /\ ReportedByHook(w)'
<1>1. NumberedByCursor(w) /\ HookTrue(w) /\ ReportedByHook(w)
  BY DEF Numbered
<1>2. Lines(w, pos[w].offset, next[w].offset)' = Lines(w, pos[w].offset, next[w].offset)
  BY DEF Lines
<1>3. TurnRead(w)' = TurnRead(w)
  BY DEF TurnRead
<1> QED BY <1>1, <1>2, <1>3 DEF NumberedByCursor, HookTrue, ReportedByHook

LEMMA ReadNumbers ==
  ASSUME TypeOK, Numbered, NEW w \in Window, ReadTurnUsage(w)
  PROVE  Numbered'
<1>1. /\ pc[w] = "idle" /\ UNCHANGED <<transcript, cursor, spooled, replayed>>
      /\ pos' = [pos EXCEPT ![w] = cursor[w]]
      /\ next' = [next EXCEPT ![w] = [cursor[w] EXCEPT !.offset = Len(transcript)]]
      /\ pc' = [pc EXCEPT ![w] = IF Lines(w, cursor[w].offset, Len(transcript)) = {}
                                 THEN "move" ELSE "spool"]
  BY DEF ReadTurnUsage
<1>2. /\ pos'[w] = cursor[w] /\ next'[w].index = cursor[w].index
      /\ next'[w].offset = Len(transcript) /\ Len(transcript) \in Nat
      /\ pc'[w] = IF Lines(w, cursor[w].offset, Len(transcript)) = {} THEN "move" ELSE "spool"
  BY <1>1, PosType DEF TypeOK, Pos
<1>3. HookTrue(w)'
  <2>1. \A t \in spooled : t.upto <= Len(transcript)
    BY DEF Numbered, TurnsTrue
  <2>2. Lines(w, cursor[w].offset, Len(transcript))' = Lines(w, cursor[w].offset, Len(transcript))
    BY <1>1 DEF Lines
  <2> QED BY <1>1, <1>2, <2>1, <2>2 DEF HookTrue, Lines
<1>4. NumberedByCursor(w)'
  BY <1>1 DEF Numbered, NumberedByCursor
<1>5. ReportedByHook(w)'
  <2>1. ReportedByHook(w)
    BY DEF Numbered
  <2> QED BY <1>1, <2>1 DEF ReportedByHook
<1>6. ASSUME NEW v \in Window, v # w
      PROVE  NumberedByCursor(v)' /\ HookTrue(v)' /\ ReportedByHook(v)'
  BY <1>1, <1>6, OtherWindow DEF TypeOK
<1> QED BY <1>1, <1>3, <1>4, <1>5, <1>6, WindowsNumber

LEMMA RecordNumbers ==
  ASSUME TypeOK, Numbered, NEW w \in Window, RecordTurn(w)
  PROVE  Numbered'
<1> DEFINE new == TurnRead(w)
<1>1. /\ pc[w] = "spool" /\ UNCHANGED <<transcript, cursor, pos, replayed>>
      /\ spooled' = spooled \cup {new}
      /\ next' = [next EXCEPT ![w].index = NextIndex(w)]
      /\ pc' = [pc EXCEPT ![w] = "move"]
  BY DEF RecordTurn
<1>2. /\ next'[w].index = pos[w].index + 1 /\ next'[w].offset = next[w].offset
      /\ pc'[w] = "move"
  BY <1>1, PosType DEF TypeOK, Pos, NextIndex
<1>3. /\ pos[w] = cursor[w] /\ next[w].offset <= Len(transcript)
      /\ \A t \in spooled : t.window = w => t.upto <= next[w].offset
      /\ Lines(w, pos[w].offset, next[w].offset) # {}
  BY <1>1 DEF Numbered, HookTrue
<1>4. /\ new.window = w /\ new.index = cursor[w].index
      /\ new.from = cursor[w].offset /\ new.upto = next[w].offset
  BY <1>3 DEF TurnRead
<1>5. \A t \in spooled : t.window = w =>
        \/ t.index < new.index /\ t.upto <= new.from
        \/ t.index = new.index /\ t.from = new.from /\ w \in replayed
  BY <1>1, <1>4 DEF Numbered, NumberedByCursor, ReportedByHook
<1> HIDE DEF new
<1>6. TurnsTrue'
  <2>1. \A t \in spooled' : LinesOf(t)' = LinesOf(t)
    BY <1>1 DEF LinesOf, Lines
  <2>2. LinesOf(new) # {} /\ new.upto <= Len(transcript)
    BY <1>3, <1>4 DEF LinesOf
  <2> QED BY <1>1, <2>1, <2>2 DEF Numbered, TurnsTrue
<1>7. TurnsInOrder'
  <2>1. ASSUME NEW t \in spooled', NEW u \in spooled', t.window = u.window, t.index < u.index
        PROVE  t.upto <= u.from
    <3>1. CASE t \in spooled /\ u \in spooled
      BY <2>1, <3>1 DEF Numbered, TurnsInOrder
    <3>2. CASE t \in spooled /\ u = new
      BY <1>4, <1>5, <2>1, <3>2, TurnType, PosType
    <3>3. CASE t = new
      BY <1>1, <1>4, <1>5, <2>1, <3>3, TurnType, PosType
    <3> QED BY <1>1, <3>1, <3>2, <3>3
  <2> QED BY <2>1 DEF TurnsInOrder
<1>8. NumbersOnce'
  <2>1. ASSUME NEW t \in spooled', NEW u \in spooled', SameActivity(t, u), t.window \notin replayed
        PROVE  t = u
    <3>1. CASE t \in spooled /\ u \in spooled
      BY <2>1, <3>1 DEF Numbered, NumbersOnce
    <3>2. CASE t \in spooled /\ u = new
      BY <1>4, <1>5, <2>1, <3>2, TurnType, PosType DEF SameActivity
    <3>3. CASE t = new /\ u \in spooled
      BY <1>4, <1>5, <2>1, <3>3, TurnType, PosType DEF SameActivity
    <3> QED BY <1>1, <3>1, <3>2, <3>3
  <2> QED BY <1>1, <2>1 DEF NumbersOnce
<1>9. NumberedByCursor(w)'
  BY <1>1, <1>4 DEF Numbered, NumberedByCursor
<1>10. HookTrue(w)'
  BY <1>1, <1>2, <1>3, <1>4, PosType DEF HookTrue
<1>11. ReportedByHook(w)'
  <2>1. new = TurnRead(w)'
    BY <1>1, <1>2 DEF new, TurnRead
  <2>2. \A t \in spooled : t.window = w /\ t.index = cursor[w].index => w \in replayed
    BY <1>1 DEF Numbered, ReportedByHook
  <2> QED BY <1>1, <1>2, <2>1, <2>2 DEF ReportedByHook
<1>12. ASSUME NEW v \in Window, v # w
       PROVE  NumberedByCursor(v)' /\ HookTrue(v)' /\ ReportedByHook(v)'
  BY <1>1, <1>4, <1>12, OtherWindow DEF TypeOK
<1> QED BY <1>6, <1>7, <1>8, <1>9, <1>10, <1>11, <1>12 DEF Numbered

LEMMA MoveNumbers ==
  ASSUME TypeOK, Numbered, NEW w \in Window, MoveCursor(w)
  PROVE  Numbered'
<1>1. /\ pc[w] = "move" /\ UNCHANGED <<transcript, spooled, replayed>>
      /\ cursor' = [cursor EXCEPT ![w] = next[w]]
      /\ pc' = [pc EXCEPT ![w] = "idle"]
      /\ pos' = [pos EXCEPT ![w] = NoPos] /\ next' = [next EXCEPT ![w] = NoPos]
  BY DEF MoveCursor, MovedCursor, HookReturns
<1>2. /\ pos[w] = cursor[w]
      /\ \A t \in spooled : t.window = w => t.upto <= next[w].offset
      /\ \/ next[w].index = cursor[w].index + 1
         \/ /\ next[w].index = cursor[w].index
            /\ Lines(w, cursor[w].offset, next[w].offset) = {}
  BY <1>1 DEF Numbered, HookTrue
<1>3. ASSUME NEW t \in spooled, t.window = w
      PROVE  t.index < next[w].index /\ t.upto <= next[w].offset
  <2>1. \/ t.index < cursor[w].index
        \/ t.index = cursor[w].index /\ t.from = cursor[w].offset
    BY <1>3 DEF Numbered, NumberedByCursor
  <2>2. CASE next[w].index = cursor[w].index + 1
    BY <1>2, <1>3, <2>1, <2>2, TurnType, PosType
  <2>3. CASE /\ next[w].index = cursor[w].index
             /\ Lines(w, cursor[w].offset, next[w].offset) = {}
    <3>1. PICK i \in LinesOf(t) : TRUE
      BY DEF Numbered, TurnsTrue
    <3>2. t.upto <= next[w].offset /\ t.upto \in Nat
      BY <1>2, <1>3, TurnType
    <3>3. t.from # cursor[w].offset
      BY <1>3, <2>3, <3>1, <3>2, PosType DEF LinesOf, Lines
    <3> QED BY <2>1, <2>3, <3>2, <3>3
  <2> QED BY <1>2, <2>2, <2>3
<1>4. cursor'[w] = next[w] /\ pc'[w] = "idle"
  BY <1>1 DEF TypeOK
<1>5. NumberedByCursor(w)' /\ HookTrue(w)'
  BY <1>1, <1>3, <1>4 DEF NumberedByCursor, HookTrue
<1>6. ReportedByHook(w)'
  <2>1. \A t \in spooled : t.window = w => t.index # next[w].index
    BY <1>3, TurnType, PosType
  <2> QED BY <1>1, <1>4, <2>1 DEF ReportedByHook
<1>7. ASSUME NEW v \in Window, v # w
      PROVE  NumberedByCursor(v)' /\ HookTrue(v)' /\ ReportedByHook(v)'
  BY <1>1, <1>7, OtherWindow DEF TypeOK
<1> QED BY <1>1, <1>5, <1>6, <1>7, WindowsNumber

LEMMA GiveUpNumbers ==
  ASSUME TypeOK, Numbered, NEW w \in Window, GiveUp(w)
  PROVE  Numbered'
<1>1. /\ UNCHANGED <<transcript, cursor, spooled>>
      /\ pc' = [pc EXCEPT ![w] = "idle"]
      /\ pos' = [pos EXCEPT ![w] = NoPos] /\ next' = [next EXCEPT ![w] = NoPos]
      /\ replayed' = IF pc[w] = "move" /\ TurnRead(w) \in spooled
                     THEN replayed \cup {w} ELSE replayed
  BY DEF GiveUp, HookReturns
<1>2. pc'[w] = "idle" /\ replayed \subseteq replayed'
  BY <1>1 DEF TypeOK
<1>3. NumberedByCursor(w)' /\ HookTrue(w)'
  BY <1>1, <1>2 DEF Numbered, NumberedByCursor, HookTrue
<1>4. ReportedByHook(w)'
  BY <1>1, <1>2 DEF Numbered, ReportedByHook
<1>5. ASSUME NEW v \in Window, v # w
      PROVE  NumberedByCursor(v)' /\ HookTrue(v)' /\ ReportedByHook(v)'
  BY <1>1, <1>2, <1>5, OtherWindow DEF TypeOK
<1> QED BY <1>1, <1>2, <1>3, <1>4, <1>5, WindowsNumber

LEMMA CountInductive == CountInv /\ [Next]_vars => CountInv'
<1> SUFFICES ASSUME CountInv, [Next]_vars PROVE CountInv'
  OBVIOUS
<1>1. TypeOK /\ TypeOK'
  BY TypeInductive DEF CountInv
<1>2. StoredOnePer'
  <2>1. ASSUME NEW t \in spooled, Deliver(t) PROVE StoredOnePer'
    BY <2>1 DEF CountInv, StoredOnePer, Deliver, SameActivity
  <2>2. CASE UNCHANGED <<delivered, stored>>
    BY <2>2 DEF CountInv, StoredOnePer
  <2> QED
    BY <2>1, <2>2 DEF Next, vars, coreVars, Grow, ReadTurnUsage, RecordTurn, MoveCursor,
                      GiveUp, ClearSession
<1>3. ASSUME ends' = 0 PROVE Numbered'
  <2>1. CASE ClearSession
    BY <1>1, <1>3, <2>1 DEF ClearSession, TypeOK
  <2>2. CASE ~ClearSession
    <3>1. ends = 0 /\ Numbered
      BY <1>3, <2>2 DEF CountInv, Next, vars, coreVars, Grow, ReadTurnUsage, RecordTurn,
                        MoveCursor, GiveUp, Deliver
    <3>2. CASE UNCHANGED <<transcript, cursor, pc, pos, next, spooled, replayed>>
      BY <1>1, <3>1, <3>2, OtherWindow, WindowsNumber
    <3> QED
      BY <1>1, <2>2, <3>1, <3>2, GrowNumbers, ReadNumbers, RecordNumbers, MoveNumbers,
         GiveUpNumbers DEF Next, vars, hookVars, Deliver
  <2> QED BY <2>1, <2>2
<1> QED BY <1>1, <1>2, <1>3 DEF CountInv

LEMMA InitCounts == Init => CountInv
BY InitInductive DEF IInv, Init, CountInv, StoredOnePer, Numbered, TurnsTrue, TurnsInOrder,
   NumberedByCursor, HookTrue, ReportedByHook, NumbersOnce

\* Turns of one window, of different numbers, share no line.
LEMMA NumbersApart ==
  ASSUME TypeOK, Numbered, NEW t \in spooled, NEW u \in spooled,
         t.window = u.window, t.index # u.index
  PROVE  LinesOf(t) \cap LinesOf(u) = {}
<1>1. t.upto <= u.from \/ u.upto <= t.from
  BY TurnType DEF Numbered, TurnsInOrder
<1> QED BY <1>1, TurnType DEF LinesOf, Lines, TypeOK

\* Neither do turns of the two sides.
LEMMA SidesApart ==
  ASSUME TypeOK, NEW t \in spooled, NEW u \in spooled, t.window = Main, u.window # Main
  PROVE  LinesOf(t) \cap LinesOf(u) = {}
BY DEF LinesOf, Lines, SideOf

-----------------------------------------------------------------------------
(***************************************************************************)
(* For any number of subagents and of lines, and wherever emitTurn fails   *)
(* or is killed: the core counts no line of the transcript twice, but for  *)
(* resumed sessions and two subagents of one transcript.                   *)
(***************************************************************************)
THEOREM CountedOnceHolds == Spec => []CountedOnce
<1>1. ASSUME CountInv PROVE CountedOnce
  <2> SUFFICES ASSUME ends = 0, NEW t \in stored, NEW u \in stored, t # u,
                      LinesOf(t) \cap LinesOf(u) # {}
               PROVE  {t.window, u.window} \subseteq Agent /\ t.window # u.window
    BY DEF CountedOnce
  <2>1. TypeOK /\ Numbered /\ t \in spooled /\ u \in spooled /\ ~SameActivity(t, u)
    BY <1>1 DEF CountInv, StoredOnePer, TypeOK
  <2>2. t.window # u.window
    BY <2>1, NumbersApart DEF SameActivity
  <2>3. t.window # Main /\ u.window # Main
    BY <2>1, <2>2, SidesApart
  <2>4. t.window \in Window /\ u.window \in Window
    BY <2>1, TurnType
  <2> QED BY <2>2, <2>3, <2>4 DEF Window
<1> QED BY <1>1, InitCounts, CountInductive, PTL DEF Spec

(***************************************************************************)
(* And it counts every line it was sent, in a session not resumed, unless  *)
(* the line's window reported a turn and did not move its cursor.          *)
(***************************************************************************)
THEOREM DeliveredCountedHolds == Spec => []DeliveredCounted
<1>1. ASSUME CountInv PROVE DeliveredCounted
  <2> SUFFICES ASSUME NEW t \in delivered, ends = 0, t.window \notin replayed,
                      NEW i \in LinesOf(t)
               PROVE  \E u \in stored : Counts(u, t.window, i)
    BY DEF DeliveredCounted
  <2>1. PICK u \in stored : SameActivity(t, u)
    BY <1>1 DEF CountInv, StoredOnePer
  <2>2. t \in spooled /\ u \in spooled /\ NumbersOnce
    BY <1>1 DEF CountInv, Numbered, TypeOK
  <2>3. u = t
    BY <2>1, <2>2 DEF NumbersOnce
  <2> QED BY <2>3 DEF Counts
<1> QED BY <1>1, InitCounts, CountInductive, PTL DEF Spec

-----------------------------------------------------------------------------
(***************************************************************************)
(* What the hooks of a session say of it.  First the events and their      *)
(* bytes, then whose they are.                                             *)
(***************************************************************************)

EventKeys == {"provider", "type", "session", "tool", "at", "span", "content", "status",
              "tokens", "index", "agent", "rollup", "thread", "meta"}

ToolType(p) == CASE p.hook = "PreToolUse"       -> "ToolCall"
                 [] p.hook = "PermissionDenied" -> "PermissionDenied"
                 [] OTHER                       -> "ToolResult"

SpanOf(by, p) == MapTool(by, p, IF p.hook = "PreToolUse" THEN "started" ELSE "completed")

\* The parts of an event that the bytes are made of.
ToolParts(ev, by, p) ==
  /\ DOMAIN ev = EventKeys
  /\ ev.type = ToolType(p) /\ ev.session = p.session
  /\ ev.tool = p.tool /\ ev.at = p.at /\ ev.span = SpanOf(by, p)
  /\ ev.content = NoContent /\ ev.index = NoIndex /\ ev.agent = "" /\ ev.rollup = FALSE
  /\ ev.thread = ThreadOf(by, p)

PromptContent(p, on) == IF p.hook = "UserPromptSubmit" /\ on
                        THEN [NoContent EXCEPT !.prompt = p.text] ELSE NoContent

LifecycleParts(ev, by, p, on) ==
  /\ DOMAIN ev = EventKeys
  /\ ev.type = LifecycleType[p.hook] /\ ev.session = p.session /\ ev.at = p.at
  /\ ev.span = NoSpan /\ ev.index = NoIndex /\ ev.agent = "" /\ ev.rollup = FALSE
  /\ ev.content = PromptContent(p, on)

AnswerContent(h, by, p, on) == IF h = 2 /\ by = Claude /\ on
                               THEN [NoContent EXCEPT !.output = p.text] ELSE NoContent

TurnParts(ev, h, by, p, on) ==
  /\ DOMAIN ev = EventKeys
  /\ ev.type = IF h = 1 THEN "TurnStarted" ELSE "TurnCompleted"
  /\ ev.session = p.session /\ ev.at = p.at /\ ev.span = NoSpan
  /\ ev.index = IF by = Claude THEN p.index ELSE NoIndex
  /\ ev.agent = IF by = Claude THEN p.agent ELSE ""
  /\ ev.rollup = (by = Codex)
  /\ ev.content = AnswerContent(h, by, p, on)

LEMMA ToolEvent == \A by, p : ToolParts(MapToolHook(by, p), by, p)
BY DEF MapToolHook, BlankEvent, EventKeys, ToolType, SpanOf, ToolParts

LEMMA LifecycleEvent == \A by, p, on : LifecycleParts(MapLifecycle(by, p, on), by, p, on)
BY DEF MapLifecycle, BlankEvent, EventKeys, LifecycleParts, PromptContent

LEMMA TurnEvents ==
  ASSUME NEW by, NEW p, NEW on
  PROVE  \A h \in {1, 2} : TurnParts(MapTurn(by, p, on)[h], h, by, p, on)
<1> DEFINE half == [BlankEvent(by, p) EXCEPT
                      !.tool = [name |-> by, server |-> "", function |-> ""],
                      !.index = IF by = Claude THEN p.index ELSE NoIndex,
                      !.agent = IF by = Claude THEN p.agent ELSE "",
                      !.rollup = by = Codex,
                      !.meta = IF by = Claude THEN {"turn_index"} \cup SubagentMetadata
                                              ELSE {"usage_scope"}]
<1>1. /\ DOMAIN half = EventKeys /\ half.session = p.session /\ half.at = p.at
      /\ half.span = NoSpan /\ half.content = NoContent
      /\ half.index = IF by = Claude THEN p.index ELSE NoIndex
      /\ half.agent = IF by = Claude THEN p.agent ELSE ""
      /\ half.rollup = (by = Codex)
  BY DEF BlankEvent, EventKeys
<1>2. /\ MapTurn(by, p, on)[1] = [half EXCEPT !.type = "TurnStarted"]
      /\ MapTurn(by, p, on)[2] =
           [half EXCEPT !.type = "TurnCompleted", !.tokens = TRUE,
                        !.content = IF by = Claude /\ on
                                    THEN [NoContent EXCEPT !.output = p.text] ELSE NoContent]
  BY DEF MapTurn
<1> HIDE DEF half
<1>3. TurnParts(MapTurn(by, p, on)[1], 1, by, p, on)
  BY <1>1, <1>2 DEF EventKeys, TurnParts, AnswerContent
<1>4. TurnParts(MapTurn(by, p, on)[2], 2, by, p, on)
  BY <1>1, <1>2 DEF EventKeys, TurnParts, AnswerContent
<1> QED BY <1>3, <1>4

LEMMA NoContentFields ==
  /\ NoContent.prompt = "" /\ NoContent.output = "" /\ NoContent.toolInput = ""
  /\ DOMAIN NoContent = {"prompt", "output", "toolInput"}
  /\ \A x : LET c == [NoContent EXCEPT !.prompt = x] IN
       /\ c.prompt = x /\ c.output = "" /\ c.toolInput = ""
       /\ DOMAIN c = {"prompt", "output", "toolInput"}
  /\ \A x : LET c == [NoContent EXCEPT !.output = x] IN
       c.prompt = "" /\ c.output = x /\ c.toolInput = ""
BY DEF NoContent

\* The inline evaluation's event is the observed one, but for the input.
SameButInput(ev, m) ==
  /\ DOMAIN ev = EventKeys
  /\ ev.type = m.type /\ ev.session = m.session /\ ev.tool = m.tool /\ ev.at = m.at
  /\ ev.span = m.span /\ ev.thread = m.thread /\ ev.index = m.index
  /\ ev.agent = m.agent /\ ev.rollup = m.rollup
  /\ ev.content.prompt = m.content.prompt /\ ev.content.output = m.content.output

LEMMA EvaluationOf ==
  ASSUME NEW by, NEW p, NEW on, DOMAIN Map(by, p, on) = EventKeys,
         DOMAIN Map(by, p, on).content = {"prompt", "output", "toolInput"}
  PROVE  SameButInput(EvaluationEvent(by, p, on), Map(by, p, on))
BY DEF EvaluationEvent, EventKeys, SameButInput

\* What is stripped is content; the other bytes are the event's, either way.
WireParts(w, ev, on) ==
  /\ w.event = DeriveId(ev) /\ w.type = WireTypeFor(ev.type)[1]
  /\ w.activity = WireActivityId(ev)
  /\ w.args = IF on THEN BuildSignalArgs(ev) ELSE {}
  /\ w.input = IF on THEN StructuralActivityInput(ev) ELSE {}
  /\ w.spans = IF on THEN TurnAssistantSpan(ev) ELSE {}
  /\ w.meta = IF on THEN ev.meta ELSE ev.meta \ ContentMetadataKeys

LEMMA WireFields ==
  ASSUME NEW ev, NEW on \in BOOLEAN, DOMAIN ev = EventKeys
  PROVE  WireParts(Wire(ev, on), ev, on)
<1> DEFINE st == StripContent(ev)
<1>1. /\ \A key \in EventKeys \ {"content", "meta"} : st[key] = ev[key]
      /\ st.content = NoContent /\ st.meta = ev.meta \ ContentMetadataKeys
  BY DEF StripContent, EventKeys
<1>2. /\ st.type = ev.type /\ st.session = ev.session /\ st.tool = ev.tool /\ st.at = ev.at
      /\ st.span = ev.span /\ st.thread = ev.thread /\ st.index = ev.index
      /\ st.agent = ev.agent /\ st.rollup = ev.rollup
  BY <1>1 DEF EventKeys
<1> HIDE DEF st
<1>3. DeriveId(st) = DeriveId(ev)
  BY <1>2 DEF DeriveId
<1>4. WireActivityId(st) = WireActivityId(ev)
  BY <1>2 DEF WireActivityId, ActivityIdFor, ActivityPairKey, TurnActivityIdFor
<1>5. BuildSignalArgs(st) = {} /\ StructuralActivityInput(st) = {} /\ TurnAssistantSpan(st) = {}
  <2>1. st.content.prompt = "" /\ st.content.output = "" /\ st.content.toolInput = ""
    BY <1>1, NoContentFields
  <2> QED BY <2>1 DEF BuildSignalArgs, StructuralActivityInput, TurnAssistantSpan
<1>6. Wire(ev, on) = IF on THEN BuildPayload(ev) ELSE BuildPayload(st)
  BY DEF Wire, st
<1>7. CASE on
  BY <1>6, <1>7 DEF BuildPayload, WireParts
<1>8. CASE ~on
  <2>1. Wire(ev, on) = BuildPayload(st)
    BY <1>6, <1>8
  <2> QED BY <1>1, <1>2, <1>3, <1>4, <1>5, <1>8, <2>1 DEF BuildPayload, WireParts
<1> QED BY <1>7, <1>8

-----------------------------------------------------------------------------
\* What a process under capture setting c makes of a payload.
TurnHook(by, p) == (by = Claude /\ p.hook \in TurnHooks) \/ (by = Codex /\ p.hook = "SessionEnd")

EventsOf(by, p, c) ==
  (IF Mappable(by, p) THEN {Map(by, p, c)} ELSE {}) \cup
  (IF TurnHook(by, p) THEN {MapTurn(by, p, c)[h] : h \in {1, 2}} ELSE {})

\* What core is given of a payload, in a batch or by the gate.
Observed(s, by, p, c) ==
  s.inline = FALSE /\ \E ev \in EventsOf(by, p, c) : s.wire = Wire(ev, s.emitCapture)

Evaluated(s, by, p, c) ==
  /\ s.inline = TRUE /\ Mappable(by, p)
  /\ s.wire = Wire(EvaluationEvent(by, p, c), s.emitCapture)

HookTypes == /\ provider \in {Claude, Codex} /\ script \in Scripts
             /\ hook \in [Firings -> HookStates] /\ pinned \in [Firings -> BOOLEAN]
             /\ latched \in BOOLEAN

GateInv == \A f \in Firings :
  hook[f] \in {"gate", "unobserved"} => Mappable(provider, script[f])

\* What is in the spool is of a firing whose setting is frozen; and core was given
\* that, or the inline variant of it.
SpoolInv == \A r \in spool :
  /\ r.of \in Firings /\ hook[r.of] # "idle"
  /\ r.ev \in EventsOf(provider, script[r.of], pinned[r.of])

SentInv == \A s \in sent :
  /\ s.of \in Firings /\ hook[s.of] # "idle"
  /\ s.emitCapture \in BOOLEAN /\ s.hookCapture = pinned[s.of]
  /\ \/ Observed(s, provider, script[s.of], pinned[s.of])
     \/ Evaluated(s, provider, script[s.of], pinned[s.of])

Prompts == {script[f].text : f \in {g \in Firings : script[g].hook = "UserPromptSubmit"}}

SessionInv == HookTypes /\ GateInv /\ SpoolInv /\ SentInv /\ goal \subseteq Prompts

\* A mapped event is of a tool hook or of a lifecycle hook.
MappedParts(m, by, p, on) ==
  /\ DOMAIN m = EventKeys /\ DOMAIN m.content = {"prompt", "output", "toolInput"}
  /\ m.content.output = "" /\ m.content.toolInput = ""
  /\ m.content.prompt # "" => on /\ p.hook = "UserPromptSubmit" /\ m.content.prompt = p.text
  /\ IF p.hook \in ToolHooks THEN ToolParts(m, by, p)
     ELSE p.hook \in DOMAIN LifecycleType /\ LifecycleParts(m, by, p, on)

LEMMA MappedEvent ==
  ASSUME NEW by, NEW p, NEW on \in BOOLEAN, Mappable(by, p)
  PROVE  MappedParts(Map(by, p, on), by, p, on)
<1> DEFINE m == Map(by, p, on)
<1>1. CASE p.hook \in ToolHooks
  <2>1. ToolParts(m, by, p)
    BY <1>1, ToolEvent DEF Map
  <2>2. m.content = NoContent /\ DOMAIN m = EventKeys
    BY <2>1 DEF ToolParts
  <2> HIDE DEF m
  <2>3. MappedParts(m, by, p, on)
    BY <1>1, <2>1, <2>2, NoContentFields DEF MappedParts
  <2> QED BY <2>3 DEF m
<1>2. CASE p.hook \notin ToolHooks
  <2>1. LifecycleParts(m, by, p, on)
    BY <1>2, LifecycleEvent DEF Map
  <2>2. p.hook \in DOMAIN LifecycleType
    BY <1>2 DEF Mappable
  <2> HIDE DEF m
  <2>3. /\ DOMAIN m = EventKeys
        /\ m.content = PromptContent(p, on)
    BY <2>1 DEF LifecycleParts
  <2>4. MappedParts(m, by, p, on)
    <3>1. CASE p.hook = "UserPromptSubmit" /\ on
      <4>1. m.content = [NoContent EXCEPT !.prompt = p.text]
        BY <2>3, <3>1 DEF PromptContent
      <4> QED BY <1>2, <2>1, <2>2, <2>3, <3>1, <4>1, NoContentFields DEF MappedParts
    <3>2. CASE ~(p.hook = "UserPromptSubmit" /\ on)
      <4>1. m.content = NoContent
        BY <2>3, <3>2 DEF PromptContent
      <4> QED BY <1>2, <2>1, <2>2, <2>3, <4>1, NoContentFields DEF MappedParts
    <3> QED BY <3>1, <3>2
  <2> QED BY <2>4 DEF m
<1> QED BY <1>1, <1>2

\* Of any event of a firing: how its words come to be in it.
WordsOf(ev, p, on) ==
  /\ DOMAIN ev = EventKeys
  /\ ev.content.prompt # "" => on /\ p.hook = "UserPromptSubmit" /\ ev.content.prompt = p.text
  /\ ev.content.output # "" => on
  /\ ev.content.toolInput = ""

LEMMA EventsWords ==
  ASSUME NEW by, NEW p, NEW c \in BOOLEAN, NEW ev \in EventsOf(by, p, c)
  PROVE  WordsOf(ev, p, c)
<1>1. ASSUME Mappable(by, p), ev = Map(by, p, c)
      PROVE  WordsOf(ev, p, c)
  <2>1. MappedParts(ev, by, p, c)
    BY <1>1, MappedEvent
  <2> QED BY <2>1 DEF MappedParts, WordsOf
<1>2. ASSUME NEW h \in {1, 2}, ev = MapTurn(by, p, c)[h]
      PROVE  WordsOf(ev, p, c)
  <2>1. TurnParts(ev, h, by, p, c)
    BY <1>2, TurnEvents
  <2>2. DOMAIN ev = EventKeys /\ ev.content = AnswerContent(h, by, p, c)
    BY <2>1 DEF TurnParts
  <2>3. CASE h = 2 /\ by = Claude /\ c
    <3>1. ev.content = [NoContent EXCEPT !.output = p.text]
      BY <2>2, <2>3 DEF AnswerContent
    <3> QED BY <2>2, <2>3, <3>1, NoContentFields DEF WordsOf
  <2>4. CASE ~(h = 2 /\ by = Claude /\ c)
    <3>1. ev.content = NoContent
      BY <2>2, <2>4 DEF AnswerContent
    <3> QED BY <2>2, <3>1, NoContentFields DEF WordsOf
  <2> QED BY <2>3, <2>4
<1>3. \/ Mappable(by, p) /\ ev = Map(by, p, c)
      \/ \E h \in {1, 2} : ev = MapTurn(by, p, c)[h]
  BY DEF EventsOf
<1> QED BY <1>1, <1>2, <1>3

LEMMA EvaluationSame ==
  ASSUME NEW by, NEW p, NEW on \in BOOLEAN, Mappable(by, p)
  PROVE  SameButInput(EvaluationEvent(by, p, on), Map(by, p, on))
<1>1. MappedParts(Map(by, p, on), by, p, on)
  BY MappedEvent
<1>2. /\ DOMAIN Map(by, p, on) = EventKeys
      /\ DOMAIN Map(by, p, on).content = {"prompt", "output", "toolInput"}
  BY <1>1 DEF MappedParts
<1> QED BY <1>2, EvaluationOf

LEMMA SessionInitInv == SessionInit => SessionInv
<1> SUFFICES ASSUME SessionInit PROVE SessionInv
  OBVIOUS
<1>1. provider \in {Claude, Codex}
  BY SessionAssumption DEF SessionInit, WellFormed
<1>2. HookTypes
  BY <1>1 DEF SessionInit, HookTypes, HookStates
<1> QED BY <1>2 DEF SessionInit, SessionInv, GateInv, SpoolInv, SentInv

\* What a step does to the processes: each keeps its place in the script, and what
\* it has frozen.
LEMMA FrozenStep ==
  ASSUME HookTypes, [SessionNext]_sessionVars
  PROVE  /\ HookTypes' /\ UNCHANGED <<provider, script>>
         /\ \A f \in Firings : hook[f] # "idle" => hook'[f] # "idle" /\ pinned'[f] = pinned[f]
<1> USE DEF HookTypes, HookStates, Firings
<1>1. ASSUME NEW f \in Firings, NEW state \in HookStates \ {"idle"}, Step(f, state),
             \/ pinned' = pinned
             \/ hook[f] = "idle" /\ \E on \in BOOLEAN : Freeze(f, on),
             UNCHANGED <<provider, script>>, latched' \in BOOLEAN
      PROVE  /\ HookTypes' /\ UNCHANGED <<provider, script>>
             /\ \A g \in Firings : hook[g] # "idle" => hook'[g] # "idle" /\ pinned'[g] = pinned[g]
  BY <1>1 DEF Step, Freeze
<1>2. ASSUME NEW f \in Firings, NEW on \in BOOLEAN,
             \/ HookUnmappable(f) \/ Observe(f, on) \/ EmitTurn(f, on)
             \/ ReplayHalt(f, on) \/ EnterGate(f, on) \/ NotSent(f)
             \/ EvaluateInline(f, on) \/ SpoolObserve(f)
      PROVE  /\ HookTypes' /\ UNCHANGED <<provider, script>>
             /\ \A g \in Firings : hook[g] # "idle" => hook'[g] # "idle" /\ pinned'[g] = pinned[g]
  <2>1. /\ \E state \in HookStates \ {"idle"} : Step(f, state)
        /\ pinned' = pinned \/ (hook[f] = "idle" /\ Freeze(f, on))
        /\ UNCHANGED <<provider, script>> /\ latched' \in BOOLEAN
    BY <1>2 DEF HookUnmappable, Observe, EmitTurn, ReplayHalt, EnterGate, NotSent,
                EvaluateInline, SpoolObserve, Ready
  <2> QED BY <1>1, <2>1
<1>3. ASSUME NEW r \in spool, NEW on \in BOOLEAN, FlushEvent(r, on)
      PROVE  HookTypes' /\ UNCHANGED <<provider, script, hook, pinned>>
  BY <1>3 DEF FlushEvent
<1>4. ASSUME UNCHANGED sessionVars
      PROVE  HookTypes' /\ UNCHANGED <<provider, script, hook, pinned>>
  BY <1>4 DEF sessionVars
<1> QED BY <1>2, <1>3, <1>4 DEF SessionNext

\* What is new in the spool, and what core is newly given.
LEMMA SpoolStep ==
  ASSUME SessionInv, [SessionNext]_sessionVars
  PROVE  SpoolInv' /\ GateInv'
<1>0. /\ HookTypes /\ HookTypes' /\ UNCHANGED <<provider, script>>
      /\ \A f \in Firings : hook[f] # "idle" => hook'[f] # "idle" /\ pinned'[f] = pinned[f]
  BY FrozenStep DEF SessionInv
<1>1. ASSUME \A r \in spool' \ spool :
               /\ r.of \in Firings /\ hook'[r.of] # "idle"
               /\ r.ev \in EventsOf(provider, script[r.of], pinned'[r.of])
      PROVE  SpoolInv'
  BY <1>0, <1>1 DEF SpoolInv, SessionInv, Firings
<1>2. ASSUME \A f \in Firings : hook'[f] \in {"gate", "unobserved"} =>
               hook[f] \in {"gate", "unobserved"} \/ Mappable(provider, script[f])
      PROVE  GateInv'
  BY <1>0, <1>2 DEF GateInv, SessionInv, Firings
<1>3. ASSUME NEW f \in Firings, NEW state, Step(f, state)
      PROVE  hook'[f] = state /\ \A g \in Firings : g # f => hook'[g] = hook[g]
  BY <1>0, <1>3 DEF Step, HookTypes
<1>4. ASSUME NEW f \in Firings, NEW on \in BOOLEAN, Freeze(f, on)
      PROVE  pinned'[f] = on
  BY <1>0, <1>4 DEF Freeze, HookTypes
<1>5. ASSUME NEW f \in Firings, HookUnmappable(f)
      PROVE  SpoolInv' /\ GateInv'
  BY <1>1, <1>2, <1>3, <1>5 DEF HookUnmappable
<1>6. ASSUME NEW f \in Firings, NEW on \in BOOLEAN, Observe(f, on)
      PROVE  SpoolInv' /\ GateInv'
  <2>1. /\ Step(f, "done") /\ Freeze(f, on) /\ Mappable(provider, script[f])
        /\ \A r \in spool' \ spool :
             /\ r.of = f
             /\ \/ r.ev = Map(provider, script[f], on)
                \/ /\ provider = Codex /\ script[f].hook = "SessionEnd"
                   /\ \E h \in {1, 2} : r.ev = MapTurn(provider, script[f], on)[h]
    BY <1>6 DEF Observe, P
  <2>2. \A r \in spool' \ spool : r.ev \in EventsOf(provider, script[f], on)
    BY <2>1 DEF EventsOf, TurnHook
  <2> QED BY <1>1, <1>2, <1>3, <1>4, <2>1, <2>2
<1>7. ASSUME NEW f \in Firings, NEW on \in BOOLEAN, EmitTurn(f, on)
      PROVE  SpoolInv' /\ GateInv'
  <2>1. /\ Step(f, "done") /\ Freeze(f, on) /\ provider = Claude /\ script[f].hook \in TurnHooks
        /\ \A r \in spool' \ spool :
             r.of = f /\ \E h \in {1, 2} : r.ev = MapTurn(provider, script[f], on)[h]
    <3>1. /\ Step(f, "done") /\ Freeze(f, on) /\ provider = Claude /\ script[f].hook \in TurnHooks
          /\ spool' = spool \cup
               {[ev |-> MapTurn(provider, script[f], on)[h], of |-> f] : h \in {1, 2}}
      BY <1>7 DEF EmitTurn, P
    <3>2. ASSUME NEW r \in spool' \ spool
          PROVE  r.of = f /\ \E h \in {1, 2} : r.ev = MapTurn(provider, script[f], on)[h]
      <4>1. PICK h \in {1, 2} :
              r = [ev |-> MapTurn(provider, script[f], on)[h], of |-> f]
        BY <3>1
      <4> QED BY <4>1
    <3> QED BY <3>1, <3>2
  <2>2. \A r \in spool' \ spool : r.ev \in EventsOf(provider, script[f], on)
    BY <2>1 DEF EventsOf, TurnHook
  <2> QED BY <1>1, <1>2, <1>3, <1>4, <2>1, <2>2
<1>8. ASSUME NEW f \in Firings, NEW on \in BOOLEAN, ReplayHalt(f, on)
      PROVE  SpoolInv' /\ GateInv'
  <2>1. /\ Step(f, "done") /\ Freeze(f, on) /\ Mappable(provider, script[f])
        /\ \A r \in spool' \ spool : r.of = f /\ r.ev = Map(provider, script[f], on)
    BY <1>8 DEF ReplayHalt, P
  <2>2. \A r \in spool' \ spool : r.ev \in EventsOf(provider, script[f], on)
    BY <2>1 DEF EventsOf
  <2> QED BY <1>1, <1>2, <1>3, <1>4, <2>1, <2>2
<1>9. ASSUME NEW f \in Firings, NEW on \in BOOLEAN, EnterGate(f, on)
      PROVE  SpoolInv' /\ GateInv'
  <2>1. Step(f, "gate") /\ spool' = spool /\ Mappable(provider, script[f])
    BY <1>9 DEF EnterGate, P
  <2> QED BY <1>1, <1>2, <1>3, <2>1
<1>10. ASSUME NEW f \in Firings, NotSent(f)
       PROVE  SpoolInv' /\ GateInv'
  BY <1>1, <1>2, <1>3, <1>10 DEF NotSent
<1>11. ASSUME NEW f \in Firings, NEW on \in BOOLEAN, EvaluateInline(f, on)
       PROVE  SpoolInv' /\ GateInv'
  <2>1. hook[f] = "gate" /\ spool' = spool /\ \E state \in {"done", "unobserved"} : Step(f, state)
    BY <1>11 DEF EvaluateInline
  <2> QED BY <1>1, <1>2, <1>3, <2>1
<1>12. ASSUME NEW f \in Firings, SpoolObserve(f)
       PROVE  SpoolInv' /\ GateInv'
  <2>1. /\ hook[f] = "unobserved" /\ Step(f, "done") /\ pinned' = pinned
        /\ \A r \in spool' \ spool : r.of = f /\ r.ev = Map(provider, script[f], pinned[f])
    BY <1>12 DEF SpoolObserve, P
  <2>2. Mappable(provider, script[f])
    BY <2>1 DEF SessionInv, GateInv
  <2>3. \A r \in spool' \ spool : r.ev \in EventsOf(provider, script[f], pinned[f])
    BY <2>1, <2>2 DEF EventsOf
  <2> QED BY <1>1, <1>2, <1>3, <2>1, <2>3
<1>13. ASSUME spool' \subseteq spool, UNCHANGED hook
       PROVE  SpoolInv' /\ GateInv'
  BY <1>1, <1>2, <1>13
<1>14. ASSUME NEW r \in spool, NEW on \in BOOLEAN, FlushEvent(r, on)
       PROVE  spool' \subseteq spool /\ UNCHANGED hook
  BY <1>14 DEF FlushEvent
<1>15. ASSUME UNCHANGED sessionVars
       PROVE  spool' \subseteq spool /\ UNCHANGED hook
  BY <1>15 DEF sessionVars
<1> QED
  BY <1>5, <1>6, <1>7, <1>8, <1>9, <1>10, <1>11, <1>12, <1>13, <1>14, <1>15 DEF SessionNext

\* Only the gate and the flush give core anything.
LEMMA SentStep ==
  ASSUME SessionInv, [SessionNext]_sessionVars
  PROVE  SentInv' /\ (goal \subseteq Prompts)'
<1>0. /\ HookTypes /\ HookTypes' /\ UNCHANGED <<provider, script>>
      /\ \A f \in Firings : hook[f] # "idle" => hook'[f] # "idle" /\ pinned'[f] = pinned[f]
  BY FrozenStep DEF SessionInv
<1>1. ASSUME NEW new, sent' \subseteq sent \cup {new},
             /\ new.of \in Firings /\ hook[new.of] # "idle"
             /\ new.emitCapture \in BOOLEAN /\ new.hookCapture = pinned[new.of]
             /\ \/ Observed(new, provider, script[new.of], pinned[new.of])
                \/ Evaluated(new, provider, script[new.of], pinned[new.of])
      PROVE  SentInv'
  BY <1>0, <1>1 DEF SentInv, SessionInv, Firings
<1>2. ASSUME sent' = sent
      PROVE  SentInv'
  BY <1>0, <1>2 DEF SentInv, SessionInv, Firings
<1>3. ASSUME goal' = goal \/ goal' \subseteq Prompts
      PROVE  (goal \subseteq Prompts)'
  BY <1>0, <1>3 DEF SessionInv, Prompts, Firings
\* What core takes of an event with a firing's words.
<1>4. ASSUME NEW f \in Firings, NEW ev, NEW inline \in BOOLEAN, NEW on \in BOOLEAN, NEW c,
             DOMAIN ev = EventKeys,
             ev.content.prompt # "" =>
               script[f].hook = "UserPromptSubmit" /\ ev.content.prompt = script[f].text,
             Receive(ev, f, inline, c, on)
      PROVE  (goal \subseteq Prompts)'
  <2>1. WireParts(Wire(ev, on), ev, on)
    BY <1>4, WireFields
  <2>2. Wire(ev, on).args \subseteq Prompts
    BY <1>4, <2>1 DEF WireParts, BuildSignalArgs, Prompts
  <2> QED BY <1>3, <1>4, <2>2 DEF Receive
<1>5. ASSUME NEW f \in Firings, NEW on \in BOOLEAN, EvaluateInline(f, on)
      PROVE  SentInv' /\ (goal \subseteq Prompts)'
  <2> DEFINE ev == EvaluationEvent(provider, script[f], pinned[f])
             m == Map(provider, script[f], pinned[f])
             new == [wire |-> Wire(ev, on), of |-> f, inline |-> TRUE,
                     hookCapture |-> pinned[f], emitCapture |-> on]
  <2>1. /\ hook[f] = "gate" /\ Mappable(provider, script[f]) /\ pinned[f] \in BOOLEAN
        /\ Receive(ev, f, TRUE, pinned[f], on)
    BY <1>0, <1>5 DEF EvaluateInline, P, SessionInv, GateInv, HookTypes
  <2>2. sent' = sent \cup {new}
    BY <2>1 DEF Receive
  <2>3. SentInv'
    <3>1. /\ new.of = f /\ new.emitCapture = on /\ new.hookCapture = pinned[f]
          /\ new.inline = TRUE /\ new.wire = Wire(ev, on)
      OBVIOUS
    <3> HIDE DEF new
    <3>2. Evaluated(new, provider, script[f], pinned[f])
      BY <2>1, <3>1 DEF Evaluated
    <3> QED BY <1>1, <2>1, <2>2, <3>1, <3>2
  <2>4. SameButInput(ev, m) /\ MappedParts(m, provider, script[f], pinned[f])
    BY <2>1, EvaluationSame, MappedEvent
  <2> HIDE DEF ev, m
  <2>5. DOMAIN ev = EventKeys /\ (ev.content.prompt # "" =>
          script[f].hook = "UserPromptSubmit" /\ ev.content.prompt = script[f].text)
    BY <2>4 DEF SameButInput, MappedParts
  <2> QED BY <1>4, <2>1, <2>3, <2>5
<1>6. ASSUME NEW r \in spool, NEW on \in BOOLEAN, FlushEvent(r, on)
      PROVE  SentInv' /\ (goal \subseteq Prompts)'
  <2> DEFINE new == [wire |-> Wire(r.ev, on), of |-> r.of, inline |-> FALSE,
                     hookCapture |-> pinned[r.of], emitCapture |-> on]
  <2>1. /\ r.of \in Firings /\ hook[r.of] # "idle" /\ pinned[r.of] \in BOOLEAN
        /\ r.ev \in EventsOf(provider, script[r.of], pinned[r.of])
        /\ Receive(r.ev, r.of, FALSE, pinned[r.of], on)
    BY <1>0, <1>6 DEF FlushEvent, SessionInv, SpoolInv, HookTypes
  <2>2. sent' = sent \cup {new}
    BY <2>1 DEF Receive
  <2>3. SentInv'
    <3>1. /\ new.of = r.of /\ new.emitCapture = on /\ new.hookCapture = pinned[r.of]
          /\ new.inline = FALSE /\ new.wire = Wire(r.ev, on)
      OBVIOUS
    <3> HIDE DEF new
    <3>2. Observed(new, provider, script[r.of], pinned[r.of])
      BY <2>1, <3>1 DEF Observed
    <3> QED BY <1>1, <2>1, <2>2, <3>1, <3>2
  <2>4. WordsOf(r.ev, script[r.of], pinned[r.of])
    BY <2>1, EventsWords
  <2>5. DOMAIN r.ev = EventKeys /\ (r.ev.content.prompt # "" =>
          script[r.of].hook = "UserPromptSubmit" /\ r.ev.content.prompt = script[r.of].text)
    BY <2>4 DEF WordsOf
  <2> QED BY <1>4, <2>1, <2>3, <2>5
<1>7. ASSUME UNCHANGED <<sent, goal>>
      PROVE  SentInv' /\ (goal \subseteq Prompts)'
  BY <1>2, <1>3, <1>7
<1>8. ASSUME NEW f \in Firings, NEW on \in BOOLEAN,
             \/ HookUnmappable(f) \/ Observe(f, on) \/ EmitTurn(f, on)
             \/ ReplayHalt(f, on) \/ EnterGate(f, on) \/ NotSent(f) \/ SpoolObserve(f)
      PROVE  UNCHANGED <<sent, goal>>
  BY <1>8 DEF HookUnmappable, Observe, EmitTurn, ReplayHalt, EnterGate, NotSent, SpoolObserve
<1>9. ASSUME UNCHANGED sessionVars
      PROVE  UNCHANGED <<sent, goal>>
  BY <1>9 DEF sessionVars
<1> QED BY <1>5, <1>6, <1>7, <1>8, <1>9 DEF SessionNext

LEMMA SessionStep == SessionInv /\ [SessionNext]_sessionVars => SessionInv'
<1> SUFFICES ASSUME SessionInv, [SessionNext]_sessionVars PROVE SessionInv'
  OBVIOUS
<1>1. HookTypes'
  BY FrozenStep DEF SessionInv
<1> QED BY <1>1, SpoolStep, SentStep DEF SessionInv

LEMMA SessionInvariant == SessionSpec => []SessionInv
BY SessionInitInv, SessionStep, PTL DEF SessionSpec

-----------------------------------------------------------------------------
\* What core was given of a firing is one of its events, as far as its identity,
\* its type and its activity go.
BytesOf(w, ev) ==
  w.event = DeriveId(ev) /\ w.type = WireTypeFor(ev.type)[1] /\ w.activity = WireActivityId(ev)

GivenOf(w, by, p, c) ==
  \/ Mappable(by, p) /\ BytesOf(w, Map(by, p, c))
  \/ TurnHook(by, p) /\ \E h \in {1, 2} : BytesOf(w, MapTurn(by, p, c)[h])

LEMMA SentGiven ==
  ASSUME SessionInv, NEW s \in sent
  PROVE  GivenOf(s.wire, provider, script[s.of], pinned[s.of])
<1> DEFINE p == script[s.of]
           c == pinned[s.of]
<1>1. /\ c \in BOOLEAN /\ s.emitCapture \in BOOLEAN
      /\ Observed(s, provider, p, c) \/ Evaluated(s, provider, p, c)
  BY DEF SessionInv, SentInv, HookTypes
<1> HIDE DEF p, c
<1>2. CASE Observed(s, provider, p, c)
  <2>1. PICK ev \in EventsOf(provider, p, c) : s.wire = Wire(ev, s.emitCapture)
    BY <1>2 DEF Observed
  <2>2. WordsOf(ev, p, c)
    BY <1>1, EventsWords
  <2>3. WireParts(s.wire, ev, s.emitCapture)
    BY <1>1, <2>1, <2>2, WireFields DEF WordsOf
  <2>4. BytesOf(s.wire, ev)
    BY <2>3 DEF WireParts, BytesOf
  <2> QED BY <2>1, <2>4 DEF EventsOf, GivenOf, p, c
<1>3. CASE Evaluated(s, provider, p, c)
  <2> DEFINE ev == EvaluationEvent(provider, p, c)
             m == Map(provider, p, c)
  <2>1. Mappable(provider, p) /\ s.wire = Wire(ev, s.emitCapture)
    BY <1>3 DEF Evaluated
  <2>2. SameButInput(ev, m)
    BY <1>1, <2>1, EvaluationSame
  <2> HIDE DEF ev, m
  <2>3. WireParts(s.wire, ev, s.emitCapture)
    BY <1>1, <2>1, <2>2, WireFields DEF SameButInput
  <2>4. DeriveId(ev) = DeriveId(m) /\ WireActivityId(ev) = WireActivityId(m) /\ ev.type = m.type
    BY <2>2 DEF SameButInput, DeriveId, WireActivityId, ActivityIdFor, ActivityPairKey,
                TurnActivityIdFor
  <2>5. BytesOf(s.wire, m)
    BY <2>3, <2>4 DEF WireParts, BytesOf
  <2> QED BY <2>1, <2>5 DEF GivenOf, m, p, c
<1> QED BY <1>1, <1>2, <1>3

\* A call of a tool: what tells it apart, and what names its operation.
ToolKey(by, p) == <<p.session, p.tool, SpanOf(by, p).path, SpanOf(by, p).function,
                    OperationId(ClassifyTool(by, p.tool).kind, p)>>

ToolGiven(w, by, p) ==
  /\ p.hook \in ToolHooks
  /\ w.event[1] = p.session /\ w.event[2] = ToolType(p) /\ w.event[4] = p.at /\ w.event[7] = p.call
  /\ w.type = IF p.hook = "PreToolUse" THEN "ActivityStarted"
              ELSE IF p.hook = "PermissionDenied" THEN "SignalReceived" ELSE "ActivityCompleted"
  /\ w.activity = IF p.hook = "PermissionDenied" THEN <<>> ELSE <<"act", ToolKey(by, p)>>

LifecycleGiven(w, p) ==
  /\ p.hook \in DOMAIN LifecycleType
  /\ w.event[1] = p.session /\ w.event[2] = LifecycleType[p.hook] /\ w.event[4] = p.at
  /\ w.type = WireTypeFor(LifecycleType[p.hook])[1]
  /\ w.type \in {"WorkflowStarted", "WorkflowCompleted", "SignalReceived"}
  /\ w.activity = <<>>

TurnGiven(w, h, by, p) ==
  /\ TurnHook(by, p) /\ h \in {1, 2}
  /\ w.event[1] = p.session /\ w.event[4] = p.at
  /\ w.event[2] = IF h = 1 THEN "TurnStarted" ELSE "TurnCompleted"
  /\ by = Claude => w.event[9] = p.index /\ w.event[10] = p.agent
  /\ w.type = IF h = 1 THEN "ActivityStarted" ELSE "ActivityCompleted"
  /\ w.activity = IF by = Codex THEN <<"rollup", p.session>>
                  ELSE IF p.index = NoIndex THEN <<>>
                  ELSE <<"turn", <<p.session, p.agent, p.index>>>>

LEMMA SpanFields ==
  \A by, p : SpanOf(by, p).invocation = p.call
             /\ SpanOf(by, p).operation = OperationId(ClassifyTool(by, p.tool).kind, p)
BY DEF SpanOf, MapTool, NoSpan

LEMMA GivenParts ==
  ASSUME NEW w, NEW by \in {Claude, Codex}, NEW p, NEW c \in BOOLEAN, GivenOf(w, by, p, c)
  PROVE  ToolGiven(w, by, p) \/ LifecycleGiven(w, p) \/ \E h \in {1, 2} : TurnGiven(w, h, by, p)
<1>1. ASSUME Mappable(by, p), BytesOf(w, Map(by, p, c))
      PROVE  ToolGiven(w, by, p) \/ LifecycleGiven(w, p)
  <2> DEFINE m == Map(by, p, c)
  <2>1. MappedParts(m, by, p, c) /\ BytesOf(w, m)
    BY <1>1, MappedEvent
  <2> HIDE DEF m
  <2>2. CASE p.hook \in ToolHooks
    <3>1. ToolParts(m, by, p)
      BY <2>1, <2>2 DEF MappedParts
    <3>2. /\ m.type = ToolType(p) /\ m.session = p.session /\ m.tool = p.tool /\ m.at = p.at
          /\ m.span = SpanOf(by, p)
      BY <3>1 DEF ToolParts
    <3>3. /\ w.event[1] = p.session /\ w.event[2] = ToolType(p) /\ w.event[4] = p.at
          /\ w.event[7] = p.call
      BY <2>1, <3>2, SpanFields DEF BytesOf, DeriveId
    <3>4. w.type = IF p.hook = "PreToolUse" THEN "ActivityStarted"
                   ELSE IF p.hook = "PermissionDenied" THEN "SignalReceived" ELSE "ActivityCompleted"
      BY <2>1, <2>2, <3>2 DEF BytesOf, WireTypeFor, ToolType
    <3>5. ActivityIdFor(m) = <<"act", ToolKey(by, p)>>
      BY <3>2, SpanFields DEF ActivityIdFor, ActivityPairKey, ToolKey
    <3>6. w.activity = IF p.hook = "PermissionDenied" THEN <<>> ELSE <<"act", ToolKey(by, p)>>
      BY <2>1, <2>2, <3>2, <3>5 DEF BytesOf, WireActivityId, ToolType
    <3> QED BY <2>2, <3>3, <3>4, <3>6 DEF ToolGiven
  <2>3. CASE p.hook \notin ToolHooks
    <3>1. p.hook \in DOMAIN LifecycleType /\ LifecycleParts(m, by, p, c)
      BY <2>1, <2>3 DEF MappedParts
    <3>2. m.type = LifecycleType[p.hook] /\ m.session = p.session /\ m.at = p.at
      BY <3>1 DEF LifecycleParts
    <3>3. LifecycleType[p.hook] \in {"SessionStarted", "PromptSubmitted", "SubagentStarted",
                                     "APIError", "SessionEnded"}
      BY <3>1 DEF LifecycleType
    <3>4. w.event[1] = p.session /\ w.event[2] = LifecycleType[p.hook] /\ w.event[4] = p.at
      BY <2>1, <3>2 DEF BytesOf, DeriveId
    <3>5. /\ w.type = WireTypeFor(LifecycleType[p.hook])[1]
          /\ w.type \in {"WorkflowStarted", "WorkflowCompleted", "SignalReceived"}
      <4>1. w.type = WireTypeFor(LifecycleType[p.hook])[1]
        BY <2>1, <3>2 DEF BytesOf
      <4> QED BY <3>3, <4>1 DEF WireTypeFor
    <3>6. w.activity = <<>>
      BY <2>1, <3>2, <3>3 DEF BytesOf, WireActivityId
    <3> QED BY <3>1, <3>4, <3>5, <3>6 DEF LifecycleGiven
  <2> QED BY <2>2, <2>3
<1>2. ASSUME TurnHook(by, p), NEW h \in {1, 2}, BytesOf(w, MapTurn(by, p, c)[h])
      PROVE  TurnGiven(w, h, by, p)
  <2> DEFINE t == MapTurn(by, p, c)[h]
  <2>1. TurnParts(t, h, by, p, c) /\ BytesOf(w, t)
    BY <1>2, TurnEvents
  <2> HIDE DEF t
  <2>2. /\ t.type = IF h = 1 THEN "TurnStarted" ELSE "TurnCompleted"
        /\ t.session = p.session /\ t.at = p.at
        /\ t.index = IF by = Claude THEN p.index ELSE NoIndex
        /\ t.agent = IF by = Claude THEN p.agent ELSE ""
        /\ t.rollup = (by = Codex)
    BY <2>1 DEF TurnParts
  <2>3. /\ w.event[1] = p.session /\ w.event[4] = p.at /\ w.event[2] = t.type
        /\ w.event[9] = t.index /\ w.event[10] = t.agent
    <3>1. /\ w.event[1] = t.session /\ w.event[4] = t.at /\ w.event[2] = t.type
          /\ w.event[9] = t.index /\ w.event[10] = t.agent
      BY <2>1 DEF BytesOf, DeriveId
    <3> QED BY <2>2, <3>1
  <2>4. w.type = IF h = 1 THEN "ActivityStarted" ELSE "ActivityCompleted"
    BY <2>1, <2>2 DEF BytesOf, WireTypeFor
  <2>5. w.activity = TurnActivityIdFor(t)
    BY <2>1, <2>2 DEF BytesOf, WireActivityId
  <2>6. TurnActivityIdFor(t) = IF by = Codex THEN <<"rollup", p.session>>
                               ELSE IF p.index = NoIndex THEN <<>>
                               ELSE <<"turn", <<p.session, p.agent, p.index>>>>
    BY <2>2 DEF TurnActivityIdFor, Claude, Codex
  <2> QED BY <1>2, <2>2, <2>3, <2>4, <2>5, <2>6 DEF TurnGiven
<1> QED BY <1>1, <1>2 DEF GivenOf

\* Two firings that are one kind of event are told apart by the script.
LEMMA ScriptApart ==
  ASSUME HookTypes, NEW f \in Firings, NEW g \in Firings, Kind(script[f]) = Kind(script[g]),
         script[f].at = script[g].at \/ script[f].hook \in TurnHooks,
         script[f].hook \in ToolHooks => script[f].call = script[g].call,
         script[f].hook \in TurnHooks => /\ script[f].session = script[g].session
                                         /\ script[f].agent = script[g].agent
                                         /\ script[f].index = script[g].index
  PROVE  f = g
BY SessionAssumption DEF HookTypes, WellFormed, Firings, ToolHooks, TurnHooks

LEMMA EventIsOf ==
  ASSUME SessionInv, NEW s \in sent, NEW t \in sent, s.wire.event = t.wire.event
  PROVE  s.of = t.of /\ s.wire.type = t.wire.type
<1> DEFINE p == script[s.of]
           q == script[t.of]
<1>1. /\ HookTypes /\ provider \in {Claude, Codex} /\ s.of \in Firings /\ t.of \in Firings
      /\ pinned[s.of] \in BOOLEAN /\ pinned[t.of] \in BOOLEAN
  BY DEF SessionInv, SentInv, HookTypes
<1>2. /\ GivenOf(s.wire, provider, p, pinned[s.of])
      /\ GivenOf(t.wire, provider, q, pinned[t.of])
  BY SentGiven
<1> HIDE DEF p, q
<1>3. /\ \/ ToolGiven(s.wire, provider, p) \/ LifecycleGiven(s.wire, p)
         \/ \E h \in {1, 2} : TurnGiven(s.wire, h, provider, p)
      /\ \/ ToolGiven(t.wire, provider, q) \/ LifecycleGiven(t.wire, q)
         \/ \E h \in {1, 2} : TurnGiven(t.wire, h, provider, q)
  BY <1>1, <1>2, GivenParts
<1>4. /\ ToolGiven(s.wire, provider, p) =>
           s.wire.event[2] \in {"ToolCall", "PermissionDenied", "ToolResult"}
      /\ LifecycleGiven(s.wire, p) =>
           s.wire.event[2] \in {"SessionStarted", "PromptSubmitted", "SubagentStarted",
                                "APIError", "SessionEnded"}
  BY DEF ToolGiven, ToolType, LifecycleGiven, LifecycleType
<1>5. /\ ToolGiven(t.wire, provider, q) =>
           t.wire.event[2] \in {"ToolCall", "PermissionDenied", "ToolResult"}
      /\ LifecycleGiven(t.wire, q) =>
           t.wire.event[2] \in {"SessionStarted", "PromptSubmitted", "SubagentStarted",
                                "APIError", "SessionEnded"}
  BY DEF ToolGiven, ToolType, LifecycleGiven, LifecycleType
<1>6. /\ \A h \in {1, 2} : TurnGiven(s.wire, h, provider, p) =>
                             s.wire.event[2] \in {"TurnStarted", "TurnCompleted"}
      /\ \A h \in {1, 2} : TurnGiven(t.wire, h, provider, q) =>
                             t.wire.event[2] \in {"TurnStarted", "TurnCompleted"}
  BY DEF TurnGiven
<1>7. CASE ToolGiven(s.wire, provider, p) /\ ToolGiven(t.wire, provider, q)
  <2>1. ToolType(p) = ToolType(q) /\ p.at = q.at /\ p.call = q.call
        /\ p.hook \in ToolHooks /\ q.hook \in ToolHooks
    BY <1>7 DEF ToolGiven
  <2>2. Kind(p) = Kind(q)
    BY <2>1 DEF Kind, ToolType, ToolHooks, TurnHooks
  <2>3. p.hook \notin TurnHooks
    BY <2>1 DEF ToolHooks, TurnHooks
  <2>4. s.of = t.of
    BY <1>1, <2>1, <2>2, <2>3, ScriptApart DEF p, q
  <2>5. s.wire.type = t.wire.type
    BY <1>7, <2>1 DEF ToolGiven, ToolType, ToolHooks
  <2> QED BY <2>4, <2>5
<1>8. CASE LifecycleGiven(s.wire, p) /\ LifecycleGiven(t.wire, q)
  <2>1. /\ LifecycleType[p.hook] = LifecycleType[q.hook] /\ p.at = q.at
        /\ p.hook \in DOMAIN LifecycleType /\ q.hook \in DOMAIN LifecycleType
    BY <1>8 DEF LifecycleGiven
  <2>2. p.hook = q.hook /\ p.hook \notin ToolHooks /\ p.hook \notin TurnHooks
    BY <2>1 DEF LifecycleType, ToolHooks, TurnHooks
  <2>3. s.of = t.of
    BY <1>1, <2>1, <2>2, ScriptApart DEF p, q, Kind
  <2> QED BY <1>8, <2>1, <2>3 DEF LifecycleGiven
<1>9. ASSUME NEW h \in {1, 2}, NEW k \in {1, 2},
             TurnGiven(s.wire, h, provider, p), TurnGiven(t.wire, k, provider, q)
      PROVE  s.of = t.of /\ s.wire.type = t.wire.type
  <2>1. h = k /\ s.wire.type = t.wire.type
    BY <1>9 DEF TurnGiven
  <2>2. CASE provider = Claude
    <3>1. p.hook \in TurnHooks /\ q.hook \in TurnHooks
      BY <1>9, <2>2 DEF TurnGiven, TurnHook, Claude, Codex
    <3>2. p.session = q.session /\ p.agent = q.agent /\ p.index = q.index
      BY <1>9, <2>2 DEF TurnGiven
    <3>3. Kind(p) = Kind(q) /\ p.hook \notin ToolHooks
      BY <3>1 DEF Kind, TurnHooks, ToolHooks
    <3> QED BY <1>1, <2>1, <3>1, <3>2, <3>3, ScriptApart DEF p, q
  <2>3. CASE provider = Codex
    <3>1. p.hook = "SessionEnd" /\ q.hook = "SessionEnd" /\ p.at = q.at
      BY <1>9, <2>3 DEF TurnGiven, TurnHook, Claude, Codex
    <3>2. Kind(p) = Kind(q) /\ p.hook \notin ToolHooks /\ p.hook \notin TurnHooks
      BY <3>1 DEF Kind, TurnHooks, ToolHooks
    <3> QED BY <1>1, <2>1, <3>1, <3>2, ScriptApart DEF p, q
  <2> QED BY <1>1, <2>2, <2>3
<1> QED BY <1>3, <1>4, <1>5, <1>6, <1>7, <1>8, <1>9

LEMMA OfIsEvent ==
  ASSUME SessionInv, NEW s \in sent, NEW t \in sent, s.of = t.of, s.wire.type = t.wire.type
  PROVE  s.wire.event = t.wire.event
<1> DEFINE p == script[s.of]
           c == pinned[s.of]
<1>1. provider \in {Claude, Codex} /\ c \in BOOLEAN
  BY DEF SessionInv, SentInv, HookTypes
<1>2. GivenOf(s.wire, provider, p, c) /\ GivenOf(t.wire, provider, p, c)
  BY SentGiven
<1> HIDE DEF p, c
<1>3. ASSUME NEW w, TurnHook(provider, p), NEW h \in {1, 2}, BytesOf(w, MapTurn(provider, p, c)[h])
      PROVE  w.type = IF h = 1 THEN "ActivityStarted" ELSE "ActivityCompleted"
  <2>1. TurnParts(MapTurn(provider, p, c)[h], h, provider, p, c)
    BY TurnEvents
  <2> QED BY <1>3, <2>1 DEF TurnParts, BytesOf, WireTypeFor
<1>4. ASSUME NEW w, TurnHook(provider, p), Mappable(provider, p), BytesOf(w, Map(provider, p, c))
      PROVE  w.type = "WorkflowCompleted"
  <2>1. MappedParts(Map(provider, p, c), provider, p, c)
    BY <1>1, <1>4, MappedEvent
  <2>2. p.hook = "SessionEnd"
    BY <1>1, <1>4 DEF TurnHook, Mappable, TurnHooks, ToolHooks, LifecycleType
  <2> DEFINE m == Map(provider, p, c)
  <2> HIDE DEF m
  <2>3. LifecycleParts(m, provider, p, c)
    BY <2>1, <2>2 DEF MappedParts, ToolHooks, m
  <2>4. m.type = "SessionEnded"
    <3>1. m.type = LifecycleType["SessionEnd"]
      BY <2>2, <2>3 DEF LifecycleParts
    <3> QED BY <3>1 DEF LifecycleType
  <2>5. w.type = WireTypeFor(m.type)[1]
    BY <1>4 DEF BytesOf, m
  <2> QED BY <2>4, <2>5 DEF WireTypeFor
<1>5. CASE BytesOf(s.wire, Map(provider, p, c)) /\ BytesOf(t.wire, Map(provider, p, c))
  BY <1>5 DEF BytesOf
<1>6. ASSUME TurnHook(provider, p), NEW h \in {1, 2}, BytesOf(s.wire, MapTurn(provider, p, c)[h])
      PROVE  s.wire.event = t.wire.event
  <2>1. CASE Mappable(provider, p) /\ BytesOf(t.wire, Map(provider, p, c))
    BY <1>3, <1>4, <1>6, <2>1
  <2>2. ASSUME NEW k \in {1, 2}, BytesOf(t.wire, MapTurn(provider, p, c)[k])
        PROVE  s.wire.event = t.wire.event
    <3>1. h = k
      BY <1>3, <1>6, <2>2
    <3> QED BY <1>6, <2>2, <3>1 DEF BytesOf
  <2> QED BY <1>2, <2>1, <2>2 DEF GivenOf
<1>7. CASE Mappable(provider, p) /\ BytesOf(s.wire, Map(provider, p, c))
  <2>1. ASSUME TurnHook(provider, p), NEW k \in {1, 2}, BytesOf(t.wire, MapTurn(provider, p, c)[k])
        PROVE  s.wire.event = t.wire.event
    BY <1>3, <1>4, <1>7, <2>1
  <2> QED BY <1>2, <1>5, <1>7, <2>1 DEF GivenOf
<1> QED BY <1>2, <1>6, <1>7 DEF GivenOf

\* All copies of an event carry one id, and two events never do.
THEOREM EventIdentityHolds == SessionSpec => []EventIdentity
<1>1. SessionInv => EventIdentity
  BY EventIsOf, OfIsEvent DEF EventIdentity
<1> QED BY <1>1, SessionInvariant, PTL

\* A call of a tool has one session, tool, input and path, and so one operation.
LEMMA CallIsOperation ==
  ASSUME HookTypes, NEW f \in Firings, NEW g \in Firings,
         script[f].hook \in ToolHooks, script[g].hook \in ToolHooks,
         script[f].call = script[g].call
  PROVE  ToolKey(provider, script[f]) = ToolKey(provider, script[g])
<1> DEFINE p == script[f]
           q == script[g]
<1>1. p.session = q.session /\ p.tool = q.tool /\ p.input = q.input /\ p.path = q.path
      /\ p.call = q.call
  BY SessionAssumption DEF HookTypes, WellFormed, Firings
<1> HIDE DEF p, q
<1>2. OperationId(ClassifyTool(provider, p.tool).kind, p)
        = OperationId(ClassifyTool(provider, q.tool).kind, q)
  BY <1>1 DEF OperationId, OperationForCommand, OperationForArgs, ByInvocation
<1>3. /\ SpanOf(provider, p).path = SpanOf(provider, q).path
      /\ SpanOf(provider, p).function = SpanOf(provider, q).function
  BY <1>1 DEF SpanOf, MapTool, NoSpan
<1>4. ToolKey(provider, p) = ToolKey(provider, q)
  BY <1>1, <1>2, <1>3 DEF ToolKey
<1> QED BY <1>4 DEF p, q

\* The halves of a call meet, whoever built and sent them.
THEOREM HalvesMeetHolds == SessionSpec => []HalvesMeet
<1>1. ASSUME SessionInv, NEW s \in sent, NEW t \in sent,
             script[s.of].hook \in ToolHooks, script[t.of].hook \in ToolHooks,
             script[s.of].call = script[t.of].call,
             s.wire.type = "ActivityStarted", t.wire.type = "ActivityCompleted"
      PROVE  s.wire.activity = t.wire.activity
  <2>1. /\ HookTypes /\ provider \in {Claude, Codex} /\ s.of \in Firings /\ t.of \in Firings
        /\ pinned[s.of] \in BOOLEAN /\ pinned[t.of] \in BOOLEAN
    BY <1>1 DEF SessionInv, SentInv, HookTypes
  <2>2. ASSUME NEW r \in sent, script[r.of].hook \in ToolHooks, pinned[r.of] \in BOOLEAN
        PROVE  ToolGiven(r.wire, provider, script[r.of])
    <3>1. GivenOf(r.wire, provider, script[r.of], pinned[r.of])
      BY <1>1, <2>2, SentGiven
    <3>2. ~TurnHook(provider, script[r.of]) /\ script[r.of].hook \notin DOMAIN LifecycleType
      BY <2>2 DEF TurnHook, ToolHooks, TurnHooks, LifecycleType
    <3> QED BY <2>1, <2>2, <3>1, <3>2, GivenParts DEF LifecycleGiven, TurnGiven
  <2>3. /\ ToolGiven(s.wire, provider, script[s.of])
        /\ ToolGiven(t.wire, provider, script[t.of])
    BY <1>1, <2>1, <2>2
  <2>4. /\ s.wire.activity = <<"act", ToolKey(provider, script[s.of])>>
        /\ t.wire.activity = <<"act", ToolKey(provider, script[t.of])>>
    BY <1>1, <2>3 DEF ToolGiven
  <2> QED BY <1>1, <2>1, <2>4, CallIsOperation
<1>2. SessionInv => HalvesMeet
  BY <1>1 DEF HalvesMeet, IsTool, P
<1> QED BY <1>2, SessionInvariant, PTL

\* A key of an operation is of calls that one approval may cover.
LEMMA KeyIsOperation ==
  ASSUME NEW f, NEW g, ToolKey(provider, script[f]) = ToolKey(provider, script[g])
  PROVE  SameOperation(script[f], script[g])
<1> DEFINE p == script[f]
           q == script[g]
           kind == ClassifyTool(provider, p.tool).kind
<1>1. p.session = q.session /\ p.tool = q.tool
  BY DEF ToolKey
<1>2. OperationId(kind, p) = OperationId(kind, q)
  BY <1>1 DEF ToolKey
<1>3. kind = ClassOf(p)
  BY DEF ClassOf
<1> HIDE DEF p, q, kind
<1>4. ASSUME kind = "shell", p.input # ""
      PROVE  SameOperation(p, q)
  <2>1. OperationId(kind, p) = <<"cmd", p.input>>
    BY <1>4 DEF OperationId, OperationForCommand
  <2>2. OperationId(kind, q) \in {<<"cmd", q.input>>, <<"call", q.call>>}
    BY <1>4 DEF OperationId, OperationForCommand, ByInvocation
  <2>3. p.input = q.input
    BY <1>2, <2>1, <2>2
  <2> QED BY <1>1, <1>3, <1>4, <2>3 DEF SameOperation
<1>5. ASSUME kind = "mcp"
      PROVE  SameOperation(p, q)
  <2>1. OperationForArgs(p) = OperationForArgs(q)
    BY <1>2, <1>5 DEF OperationId
  <2>2. p.input = q.input
    BY <2>1 DEF OperationForArgs
  <2> QED BY <1>1, <1>3, <1>5, <2>2 DEF SameOperation
<1>6. ASSUME ~(kind = "shell" /\ p.input # ""), kind # "mcp"
      PROVE  SameOperation(p, q)
  <2>1. OperationId(kind, p) = <<"call", p.call>>
    BY <1>6 DEF OperationId, ByInvocation
  <2>2. OperationId(kind, q) \in {<<"cmd", q.input>>, <<"call", q.call>>}
    BY <1>6 DEF OperationId, OperationForCommand, ByInvocation
  <2>3. p.call = q.call
    BY <1>2, <2>1, <2>2
  <2> QED BY <1>1, <2>3 DEF SameOperation
<1>7. SameOperation(p, q)
  BY <1>4, <1>5, <1>6
<1> QED BY <1>7 DEF p, q

LEMMA PairParts ==
  ASSUME NEW a, NEW b, NEW c, NEW d, <<a, b>> = <<c, d>>
  PROVE  a = c /\ b = d
OBVIOUS

\* One activity is one operation with its retries, or one turn.
THEOREM ActivityNamesOneThingHolds == SessionSpec => []ActivityNamesOneThing
<1>1. ASSUME SessionInv, NEW s \in sent, NEW t \in sent,
             s.wire.activity = t.wire.activity, s.wire.activity # <<>>
      PROVE  \/ s.of = t.of
             \/ /\ script[s.of].hook \in ToolHooks /\ script[t.of].hook \in ToolHooks
                /\ SameOperation(script[s.of], script[t.of])
  <2> DEFINE p == script[s.of]
             q == script[t.of]
  <2>1. /\ HookTypes /\ provider \in {Claude, Codex} /\ s.of \in Firings /\ t.of \in Firings
        /\ pinned[s.of] \in BOOLEAN /\ pinned[t.of] \in BOOLEAN
    BY <1>1 DEF SessionInv, SentInv, HookTypes
  <2>2. /\ GivenOf(s.wire, provider, p, pinned[s.of])
        /\ GivenOf(t.wire, provider, q, pinned[t.of])
    BY <1>1, SentGiven
  <2> HIDE DEF p, q
  <2>3. /\ \/ ToolGiven(s.wire, provider, p)
           \/ \E h \in {1, 2} : TurnGiven(s.wire, h, provider, p)
        /\ \/ ToolGiven(t.wire, provider, q)
           \/ \E h \in {1, 2} : TurnGiven(t.wire, h, provider, q)
    <3>1. ~LifecycleGiven(s.wire, p) /\ ~LifecycleGiven(t.wire, q)
      BY <1>1 DEF LifecycleGiven
    <3> QED BY <2>1, <2>2, <3>1, GivenParts
  <2>4. CASE ToolGiven(s.wire, provider, p) /\ ToolGiven(t.wire, provider, q)
    <3>1. /\ p.hook \in ToolHooks /\ q.hook \in ToolHooks
          /\ s.wire.activity = <<"act", ToolKey(provider, p)>>
          /\ t.wire.activity = <<"act", ToolKey(provider, q)>>
      BY <1>1, <2>4 DEF ToolGiven
    <3>2. <<"act", ToolKey(provider, p)>> = <<"act", ToolKey(provider, q)>>
      BY <1>1, <3>1
    <3>3. ToolKey(provider, p) = ToolKey(provider, q)
      BY <3>2, PairParts
    <3> QED BY <3>1, <3>3, KeyIsOperation DEF p, q
  <2>5. ASSUME NEW h \in {1, 2}, NEW k \in {1, 2},
               TurnGiven(s.wire, h, provider, p), TurnGiven(t.wire, k, provider, q)
        PROVE  s.of = t.of
    <3>1. CASE provider = Claude
      <4>1. /\ p.hook \in TurnHooks /\ q.hook \in TurnHooks
            /\ s.wire.activity = <<"turn", <<p.session, p.agent, p.index>>>>
            /\ t.wire.activity = <<"turn", <<q.session, q.agent, q.index>>>>
        BY <1>1, <2>5, <3>1 DEF TurnGiven, TurnHook, Claude, Codex
      <4>2. p.session = q.session /\ p.agent = q.agent /\ p.index = q.index
        <5>1. <<"turn", <<p.session, p.agent, p.index>>>>
                = <<"turn", <<q.session, q.agent, q.index>>>>
          BY <1>1, <4>1
        <5>2. <<p.session, p.agent, p.index>> = <<q.session, q.agent, q.index>>
          BY <5>1, PairParts
        <5> QED BY <5>2
      <4>3. Kind(p) = Kind(q) /\ p.hook \notin ToolHooks
        BY <4>1 DEF Kind, TurnHooks, ToolHooks
      <4> QED BY <2>1, <4>1, <4>2, <4>3, ScriptApart DEF p, q
    <3>2. CASE provider = Codex
      <4>1. /\ p.hook = "SessionEnd" /\ q.hook = "SessionEnd"
            /\ s.wire.activity = <<"rollup", p.session>>
            /\ t.wire.activity = <<"rollup", q.session>>
        BY <1>1, <2>5, <3>2 DEF TurnGiven, TurnHook, Claude, Codex
      <4>2. p.session = q.session
        <5>1. <<"rollup", p.session>> = <<"rollup", q.session>>
          BY <1>1, <4>1
        <5> QED BY <5>1, PairParts
      <4> QED BY <2>1, <4>1, <4>2, SessionAssumption DEF HookTypes, WellFormed, Firings, p, q
    <3> QED BY <2>1, <3>1, <3>2
  <2>6. ASSUME NEW w, NEW v, NEW a, NEW b, NEW h \in {1, 2},
               ToolGiven(w, provider, a), TurnGiven(v, h, provider, b),
               w.activity = v.activity
        PROVE  w.activity = <<>>
    BY <2>6 DEF ToolGiven, TurnGiven
  <2> QED BY <1>1, <2>3, <2>4, <2>5, <2>6 DEF p, q
<1>2. SessionInv => ActivityNamesOneThing
  BY <1>1 DEF ActivityNamesOneThing, IsTool, P
<1> QED BY <1>2, SessionInvariant, PTL

\* Words leave only with leave of the hook that took them and of the client that
\* sends them.
THEOREM NoUnauthorizedContentHolds == SessionSpec => []NoUnauthorizedContent
<1>1. ASSUME SessionInv, NEW s \in sent
      PROVE  /\ s.wire.args \cup s.wire.spans # {} => s.hookCapture /\ s.emitCapture
             /\ s.wire.input # {} => s.emitCapture /\ s.inline
             /\ ~ s.emitCapture => s.wire.meta \cap ContentMetadataKeys = {}
  <2> DEFINE p == script[s.of]
             c == pinned[s.of]
  <2>1. /\ c \in BOOLEAN /\ s.emitCapture \in BOOLEAN /\ s.hookCapture = c
        /\ Observed(s, provider, p, c) \/ Evaluated(s, provider, p, c)
    BY <1>1 DEF SessionInv, SentInv, HookTypes
  <2> HIDE DEF p, c
  <2>2. ASSUME NEW ev, WireParts(s.wire, ev, s.emitCapture),
               ev.content.prompt # "" => c, ev.content.output # "" => c
        PROVE  /\ s.wire.args \cup s.wire.spans # {} => s.hookCapture /\ s.emitCapture
               /\ s.wire.input # {} => s.emitCapture /\ ev.content.toolInput # ""
               /\ ~ s.emitCapture => s.wire.meta \cap ContentMetadataKeys = {}
    BY <2>1, <2>2 DEF WireParts, BuildSignalArgs, StructuralActivityInput, TurnAssistantSpan
  <2>3. CASE Observed(s, provider, p, c)
    <3>1. PICK ev \in EventsOf(provider, p, c) : s.wire = Wire(ev, s.emitCapture)
      BY <2>3 DEF Observed
    <3>2. WordsOf(ev, p, c)
      BY <2>1, EventsWords
    <3>3. WireParts(s.wire, ev, s.emitCapture)
      BY <2>1, <3>1, <3>2, WireFields DEF WordsOf
    <3> QED BY <2>2, <3>2, <3>3 DEF WordsOf
  <2>4. CASE Evaluated(s, provider, p, c)
    <3> DEFINE ev == EvaluationEvent(provider, p, c)
               m == Map(provider, p, c)
    <3>1. /\ Mappable(provider, p) /\ s.wire = Wire(ev, s.emitCapture) /\ s.inline
      BY <2>4 DEF Evaluated
    <3>2. SameButInput(ev, m) /\ MappedParts(m, provider, p, c)
      BY <2>1, <3>1, EvaluationSame, MappedEvent
    <3> HIDE DEF ev, m
    <3>3. WireParts(s.wire, ev, s.emitCapture)
      BY <2>1, <3>1, <3>2, WireFields DEF SameButInput
    <3>4. (ev.content.prompt # "" => c) /\ (ev.content.output # "" => c)
      BY <3>2 DEF SameButInput, MappedParts
    <3> QED BY <2>2, <3>1, <3>3, <3>4
  <2> QED BY <2>1, <2>3, <2>4
<1>2. SessionInv => NoUnauthorizedContent
  BY <1>1 DEF NoUnauthorizedContent
<1> QED BY <1>2, SessionInvariant, PTL

\* No signal but a prompt sets the goal of the session.
THEOREM GoalIsPromptHolds == SessionSpec => []GoalIsPrompt
<1>1. SessionInv => GoalIsPrompt
  BY DEF SessionInv, GoalIsPrompt, Prompts, P
<1> QED BY <1>1, SessionInvariant, PTL

\* Every variable of the session keeps its type.
THEOREM SessionTypeCorrect == SessionSpec => []SessionTypeOK
<1>1. ASSUME SessionInv, NEW s \in sent
      PROVE  s.of \in Firings /\ s.wire.type \in
               {"WorkflowStarted", "WorkflowCompleted", "SignalReceived",
                "ActivityStarted", "ActivityCompleted"}
  <2>1. /\ s.of \in Firings /\ provider \in {Claude, Codex} /\ pinned[s.of] \in BOOLEAN
    BY <1>1 DEF SessionInv, SentInv, HookTypes
  <2>2. GivenOf(s.wire, provider, script[s.of], pinned[s.of])
    BY <1>1, SentGiven
  <2> QED BY <2>1, <2>2, GivenParts DEF ToolGiven, LifecycleGiven, TurnGiven
<1>2. SessionInv => SessionTypeOK
  BY <1>1 DEF SessionInv, SpoolInv, HookTypes, SessionTypeOK
<1> QED BY <1>2, SessionInvariant, PTL
===============================================================================
