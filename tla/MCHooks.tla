------------------------------ MODULE MCHooks ------------------------------
(* Instances, for TLC, of what the hooks of a session say of it: the events   *)
(* of the scripts below, or the usage of its turns.                          *)
EXTENDS HookSession, TurnCursor, FiniteSets

CONSTANT a1

VARIABLE part   \* which of the two this behaviour runs

Blank(by, h, at, after) ==
  [provider |-> by, hook |-> h, session |-> "s1", at |-> at, after |-> after,
   tool |-> [name |-> "", server |-> "", function |-> ""], input |-> "", path |-> "",
   call |-> "", agent |-> "", text |-> "", index |-> 0, usage |-> FALSE, thread |-> ""]

Named(n) == [name |-> n, server |-> "", function |-> ""]
Mcp(s, f) == [name |-> "mcp", server |-> s, function |-> f]

Call(by, h, at, after, tool, call, input, path) ==
  [Blank(by, h, at, after) EXCEPT !.tool = tool, !.call = call, !.input = input, !.path = path]
Prompt(by, at, after, text) == [Blank(by, "UserPromptSubmit", at, after) EXCEPT !.text = text]
TurnEnd(h, at, after, agent, index, text) ==
  [Blank(Claude, h, at, after) EXCEPT !.agent = agent, !.index = index, !.text = text]

\* A prompt, and two writes of one file in one instant: one ends well, one not.
TwoWrites ==
  << Prompt(Claude, 1, {}, "do"),
     Call(Claude, "PreToolUse", 2, {1}, Named("Write"), "call1", "text1", "file"),
     Call(Claude, "PreToolUse", 2, {1}, Named("Write"), "call2", "text2", "file"),
     Call(Claude, "PostToolUse", 3, {2}, Named("Write"), "call1", "text1", "file"),
     Call(Claude, "PostToolUseFailure", 3, {3}, Named("Write"), "call2", "text2", "file") >>

\* A command, its retry after an approval, and one that runs nothing.
Commands ==
  << Call(Claude, "PreToolUse", 1, {}, Named("Bash"), "call1", "make", ""),
     Call(Claude, "PostToolUse", 2, {1}, Named("Bash"), "call1", "make", ""),
     Call(Claude, "PreToolUse", 3, {2}, Named("Bash"), "call2", "make", ""),
     Call(Claude, "PreToolUse", 3, {2}, Named("Bash"), "call3", "", ""),
     Call(Claude, "PermissionDenied", 4, {4}, Named("Bash"), "call3", "", "") >>

\* A turn and a subagent's turn that close in one instant, among the
\* lifecycle hooks.
TurnEnds ==
  << Blank(Claude, "SessionStart", 1, {}),
     Blank(Claude, "SubagentStart", 2, {1}),
     TurnEnd("Stop", 3, {1}, "", 0, "answer"),
     TurnEnd("SubagentStop", 3, {2}, "agent1", 0, "report"),
     [Blank(Claude, "SessionEnd", 4, {3, 4}) EXCEPT !.usage = TRUE] >>

\* One function of two MCP servers with the same arguments, the same without
\* any, and an API error.
Remote ==
  << Call(Claude, "PreToolUse", 1, {}, Mcp("tracker", "create"), "call1", "args1", ""),
     Call(Claude, "PreToolUse", 1, {}, Mcp("notes", "create"), "call2", "args1", ""),
     Call(Claude, "PreToolUse", 1, {}, Mcp("tracker", "create"), "call3", "", ""),
     Call(Claude, "PostToolUse", 2, {1}, Mcp("tracker", "create"), "call1", "args1", ""),
     Blank(Claude, "StopFailure", 3, {4}) >>

\* Codex: a patch, a command, hooks it does not map, two threads of one session.
CodexSession ==
  << Prompt(Codex, 1, {}, "do"),
     [Call(Codex, "PreToolUse", 2, {1}, Named("apply_patch"), "call1", "patch", "") EXCEPT
        !.thread = "s1"],
     [Call(Codex, "PreToolUse", 2, {1}, Named("Bash"), "call2", "make", "") EXCEPT
        !.thread = "s2"],
     Call(Codex, "PostToolUse", 3, {2}, Named("apply_patch"), "call1", "patch", ""),
     Blank(Codex, "SubagentStart", 3, {2}),
     [Blank(Codex, "SessionEnd", 4, {4}) EXCEPT !.usage = TRUE] >>

MCScripts == {TwoWrites, Commands, TurnEnds, Remote, CodexSession}

MCvars == <<sessionVars, vars, part>>

MCInit == /\ SessionInit /\ Init
          /\ part \in {"events", "turns"}
          \* what does not run has one first state
          /\ part = "turns" => script = Commands

Events == part = "events" /\ UNCHANGED <<vars, part>>
Turns  == part = "turns" /\ UNCHANGED <<sessionVars, part>>

MCNext ==
  \/ \E f \in Firings : Events /\ HookUnmappable(f)
  \/ \E f \in Firings, on \in BOOLEAN : Events /\ Observe(f, on)
  \/ \E f \in Firings, on \in BOOLEAN : Events /\ EmitTurn(f, on)
  \/ \E f \in Firings, on \in BOOLEAN : Events /\ ReplayHalt(f, on)
  \/ \E f \in Firings, on \in BOOLEAN : Events /\ EnterGate(f, on)
  \/ \E f \in Firings : Events /\ NotSent(f)
  \/ \E f \in Firings, on \in BOOLEAN : Events /\ EvaluateInline(f, on)
  \/ \E f \in Firings : Events /\ SpoolObserve(f)
  \/ \E r \in spool, on \in BOOLEAN : Events /\ FlushEvent(r, on)
  \/ \E side \in Sides : Turns /\ Grow(side)
  \/ \E w \in Window : Turns /\ ReadTurnUsage(w)
  \/ \E w \in Window : Turns /\ RecordTurn(w)
  \/ \E w \in Window : Turns /\ MoveCursor(w)
  \/ \E w \in Window : Turns /\ GiveUp(w)
  \/ \E t \in spooled : Turns /\ Deliver(t)
  \/ Turns /\ ClearSession

\* Bound: the hooks read one setting and the clients one, the same or not; at
\* most one of them all reads another than the rest of its kind.
OddOnes == 1
MCBound ==
  \E hooks, clients \in BOOLEAN :
    Cardinality({f \in Firings : hook'[f] # "idle" /\ pinned'[f] # hooks})
      + Cardinality({s \in sent' : s.emitCapture # clients}) <= OddOnes

\* What tells states apart: the one that runs.
Running == <<part, IF part = "events" THEN sessionVars ELSE vars>>

MCSpec == MCInit /\ [][MCNext /\ MCBound]_MCvars
=============================================================================
