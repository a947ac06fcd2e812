--------------------------- MODULE FindingsCursor ---------------------------
(***************************************************************************)
(* The findings loop (findings.go): flushers append advisory records to    *)
(* one file of the developer (advisory.go), and the hooks of a provider    *)
(* surface what lies beyond the provider's cursor into the session they    *)
(* run in, then move the cursor.  Offsets count lines.                     *)
(***************************************************************************)
EXTENDS Naturals, Sequences, FiniteSets

CONSTANTS
  Agent,         \* provider names; each has a cursor of its own
  Reader,        \* hook processes that surface findings
  AgentOf,       \* the provider of a hook process
  MaxDelta,      \* lines one read takes at most (4 MiB in the code)
  MaxSink        \* bound on lines and torn writes

ASSUME FindingsAssumption ==
  /\ AgentOf \in [Reader -> Agent]
  /\ MaxDelta \in Nat \ {0} /\ MaxSink \in Nat

VARIABLES
  sink,          \* advisories.jsonl, line by line: does it parse
  torn,          \* the file ends in a fragment: a write was cut short
  cursor,        \* the cursor file of each provider
  rpc, from, upto, \* per hook process: its step, and the delta it has read
  shown,         \* per provider: the lines whose summary reached some session
  reshown,       \* those that reached one twice
  disturbed      \* providers two hooks of which overlapped, or one was cut short

findingsVars == <<sink, torn, cursor, rpc, from, upto, shown, reshown,
                  disturbed>>

FindingsTypeOK ==
  /\ sink \in Seq(BOOLEAN) /\ torn \in BOOLEAN
  /\ cursor \in [Agent -> 0..Len(sink)]
  /\ rpc \in [Reader -> {"idle", "read", "write", "advance"}]
  /\ from \in [Reader -> 0..Len(sink)] /\ upto \in [Reader -> 0..Len(sink)]
  /\ shown \in [Agent -> SUBSET (1..Len(sink))]
  /\ reshown \in [Agent -> SUBSET (1..Len(sink))]
  /\ disturbed \subseteq Agent

FindingsInit ==
  /\ sink = <<>> /\ torn = FALSE
  /\ cursor = [a \in Agent |-> 0]
  /\ rpc = [r \in Reader |-> "idle"]
  /\ from = [r \in Reader |-> 0] /\ upto = [r \in Reader |-> 0]
  /\ shown = [a \in Agent |-> {}] /\ reshown = [a \in Agent |-> {}]
  /\ disturbed = {}

readerVars == <<cursor, rpc, from, upto, shown, reshown, disturbed>>
ToStep(r, step) == rpc' = [rpc EXCEPT ![r] = step]
Exits(r) == /\ ToStep(r, "idle")
            /\ from' = [from EXCEPT ![r] = 0] /\ upto' = [upto EXCEPT ![r] = 0]

-----------------------------------------------------------------------------
(* A flusher records the advisory of an event: one append of a whole line. *)

\* Behind a fragment even a whole line does not parse.
RecordAdvisory ==
  /\ Len(sink) < MaxSink
  /\ sink' = Append(sink, ~torn)
  /\ torn' = FALSE
  /\ UNCHANGED readerVars

TearAdvisory ==
  /\ ~torn /\ Len(sink) < MaxSink
  /\ torn' = TRUE
  /\ UNCHANGED <<sink, readerVars>>

-----------------------------------------------------------------------------
(* SurfaceFindings, step by step. *)

\* What the summary of lines i+1..j covers: the lines that parse.
Summarized(i, j) == {k \in (i + 1)..j : sink[k]}

ReadCursor(r) ==
  /\ rpc[r] = "idle"
  /\ ToStep(r, "read")
  /\ from' = [from EXCEPT ![r] = cursor[AgentOf[r]]]
  /\ disturbed' = IF \E q \in Reader : AgentOf[q] = AgentOf[r] /\ rpc[q] # "idle"
                  THEN disturbed \cup {AgentOf[r]} ELSE disturbed
  /\ UNCHANGED <<sink, torn, cursor, upto, shown, reshown>>

NothingNew(r) ==
  /\ rpc[r] = "read" /\ Len(sink) = from[r]
  /\ Exits(r)
  /\ UNCHANGED <<sink, torn, cursor, shown, reshown,
                 disturbed>>

\* Complete lines only, and at most MaxDelta of them; a delta with nothing to
\* report is passed over.
ReadDelta(r) ==
  /\ rpc[r] = "read"
  /\ \E j \in (from[r] + 1)..Len(sink) :
       /\ j = Len(sink) \/ j = from[r] + MaxDelta
       /\ j <= from[r] + MaxDelta
       /\ upto' = [upto EXCEPT ![r] = j]
       /\ ToStep(r, IF Summarized(from[r], j) = {} THEN "advance" ELSE "write")
  /\ UNCHANGED <<sink, torn, cursor, from, shown, reshown, disturbed>>

WriteFindings(r) ==
  LET a   == AgentOf[r]
      new == Summarized(from[r], upto[r]) IN
  /\ rpc[r] = "write"
  /\ ToStep(r, "advance")
  /\ reshown' = [reshown EXCEPT ![a] = @ \cup (new \cap shown[a])]
  /\ shown' = [shown EXCEPT ![a] = @ \cup new]
  /\ UNCHANGED <<sink, torn, cursor, from, upto, disturbed>>

\* Mutant: the cursor is moved to the end of the file as it is now.
AdvanceCursorToEnd(r) ==
  /\ rpc[r] = "advance"
  /\ Exits(r)
  /\ cursor' = [cursor EXCEPT ![AgentOf[r]] = Len(sink)]
  /\ UNCHANGED <<sink, torn, shown, reshown, disturbed>>

\* Temporary file and rename.
AdvanceCursor(r) ==
  /\ rpc[r] = "advance"
  /\ Exits(r)
  /\ cursor' = [cursor EXCEPT ![AgentOf[r]] = upto[r]]
  /\ UNCHANGED <<sink, torn, shown, reshown, disturbed>>

\* The hook is killed, its output or its cursor cannot be written.
CutShort(r) ==
  /\ rpc[r] # "idle"
  /\ Exits(r)
  /\ disturbed' = disturbed \cup {AgentOf[r]}
  /\ UNCHANGED <<sink, torn, cursor, shown, reshown>>

FindingsNext ==
  \/ RecordAdvisory
  \/ TearAdvisory
  \/ \E r \in Reader : \/ ReadCursor(r) \/ NothingNew(r) \/ ReadDelta(r)
                       \/ WriteFindings(r) \/ AdvanceCursor(r) \/ CutShort(r)

FindingsSpec == FindingsInit /\ [][FindingsNext]_findingsVars

-----------------------------------------------------------------------------
(***************************************************************************)
(* Properties                                                              *)
(***************************************************************************)

\* "Never lost" (findings.go): the cursor of a provider passes a record only once
\* its summary has reached a session of that provider, whichever hooks race,
\* move the cursor back, or die.
NoFindingSkipped ==
  \A a \in Agent : Summarized(0, cursor[a]) \subseteq shown[a]

\* "At most once" (findings.go): a provider surfaces a record again only after two
\* of its hooks overlapped or one was cut short.
NoFindingTwice == \A a \in Agent \ disturbed : reshown[a] = {}

\* What the findings loop promises of every advisory: it is told, and told once.
FindingsToldOnce == NoFindingSkipped /\ NoFindingTwice
=============================================================================
