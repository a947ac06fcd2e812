------------------------------- MODULE HookWire -------------------------------
(***************************************************************************)
(* From a hook payload to the bytes core stores, as pure definitions: the  *)
(* providers' mappers (claude-code/mapper.go, codex/mapper.go), the inline *)
(* evaluation's variant of an event (enforcetarget.go, promptgate.go), and *)
(* the client's wire payload (payload.go, operation.go, turnspan.go).      *)
(*                                                                         *)
(* Hashes are the tuples they hash.  A text (prompt, answer, tool input)   *)
(* is a name, and "" is an absent string everywhere, as in the code.       *)
(***************************************************************************)
EXTENDS Integers, Sequences

Claude == "claude-code"
Codex  == "codex"

-----------------------------------------------------------------------------
(* Tools: an MCP name is its server and function, the others a plain name.  *)

CatchAll == [kind |-> "shell", sem |-> "internal", op |-> "", server |-> "", function |-> ""]
FileTool(sem, op) == [CatchAll EXCEPT !.kind = "file", !.sem = sem, !.op = op]

ClaudeTools ==
  [t \in {"Write", "Edit", "MultiEdit", "NotebookEdit", "Read", "NotebookRead", "Glob", "Grep"} |->
     CASE t = "Write"                               -> FileTool("file_write", "write")
       [] t \in {"Edit", "MultiEdit", "NotebookEdit"} -> FileTool("file_write", "edit")
       [] t \in {"Read", "NotebookRead"}              -> FileTool("file_read", "read")
       [] OTHER                                       -> FileTool("internal", "")]

CodexTools == [t \in {"apply_patch"} |-> FileTool("file_write", "edit")]

BuiltinTools(provider) == IF provider = Claude THEN ClaudeTools ELSE CodexTools

\* A malformed MCP name, without a server, is the catch-all like an unknown tool.
ClassifyTool(provider, tool) ==
  IF tool.name = "mcp" /\ tool.server # ""
  THEN [CatchAll EXCEPT !.kind = "mcp", !.sem = "mcp_tool_call",
                        !.server = tool.server, !.function = tool.function]
  ELSE IF tool.name \in DOMAIN BuiltinTools(provider)
       THEN BuiltinTools(provider)[tool.name]
       ELSE CatchAll

IsFileSemantic(sem) == sem \in {"file_read", "file_write", "file_open", "file_delete"}

\* What is being done, the same for a retry of it: the command, the arguments,
\* or the invocation itself where nothing else tells two operations apart.
ByInvocation(p) == <<"call", p.call>>
OperationForCommand(p) == <<"cmd", p.input>>
OperationForArgs(p)    == IF p.input = "" THEN <<"", "">> ELSE <<"args", p.input>>

\* Mutant: no fallback for the classes without a discriminator.
OperationIdBare(kind, p) ==
  CASE kind = "shell" -> OperationForCommand(p)
    [] OTHER          -> OperationForArgs([p EXCEPT !.input = ""])

OperationId(kind, p) ==
  CASE kind = "shell" /\ p.input # "" -> OperationForCommand(p)
    [] kind = "mcp"                   -> OperationForArgs(p)
    [] OTHER                          -> ByInvocation(p)

-----------------------------------------------------------------------------
(* Events. *)

NoSpan == [path |-> "", op |-> "", server |-> "", function |-> "", stage |-> "",
           invocation |-> "", operation |-> <<"", "">>]

MapTool(provider, p, stage) ==
  LET c == ClassifyTool(provider, p.tool)
  IN [NoSpan EXCEPT
        !.stage = stage,
        !.path = IF provider = Claude /\ IsFileSemantic(c.sem) THEN p.path ELSE "",
        !.op = IF c.kind = "file" /\ (provider = Codex \/ IsFileSemantic(c.sem)) THEN c.op ELSE "",
        !.server = c.server, !.function = c.function,
        !.invocation = p.call, !.operation = OperationId(c.kind, p)]

NoContent == [prompt |-> "", output |-> "", toolInput |-> ""]
NoIndex == -1

\* The fields every event of a payload shares.
BlankEvent(provider, p) ==
  [provider |-> provider, type |-> "", session |-> p.session, tool |-> p.tool,
   at |-> p.at, span |-> NoSpan,
   content |-> NoContent, status |-> "", tokens |-> FALSE, index |-> NoIndex,
   agent |-> "", rollup |-> FALSE, thread |-> "", meta |-> {}]

\* The forked thread's link, on Codex only.
ThreadOf(provider, p) ==
  IF provider = Codex /\ p.thread # p.session THEN p.thread ELSE ""

ToolMetadata == {"permission_mode", "tool_use_id", "agent_id", "agent_type"}
SubagentMetadata == {"agent_id", "agent_type"}

\* SessionStart, UserPromptSubmit, SessionEnd and the other lifecycle hooks.
LifecycleType ==
  [SessionStart |-> "SessionStarted", UserPromptSubmit |-> "PromptSubmitted",
   SubagentStart |-> "SubagentStarted", StopFailure |-> "APIError",
   SessionEnd |-> "SessionEnded"]

CodexHooks == {"SessionStart", "UserPromptSubmit", "PreToolUse", "PostToolUse", "SessionEnd"}
TurnHooks  == {"Stop", "SubagentStop"}
ToolHooks  == {"PreToolUse", "PostToolUse", "PostToolUseFailure", "PermissionDenied"}

\* Whether Map makes an event of the payload at all.
Mappable(provider, p) ==
  /\ p.session # ""
  /\ p.hook \in ToolHooks \cup DOMAIN LifecycleType
  /\ provider = Codex => p.hook \in CodexHooks

\* Which hook fired is the outcome; only Claude Code has a hook for each.
StatusOfHook(provider, hook) ==
  CASE provider = Claude /\ hook = "PostToolUse"        -> "completed"
    [] provider = Claude /\ hook = "PostToolUseFailure" -> "failed"
    [] OTHER                                            -> ""

MapToolHook(provider, p) ==
  LET stage == IF p.hook = "PreToolUse" THEN "started" ELSE "completed"
  IN [BlankEvent(provider, p) EXCEPT
        !.type = CASE p.hook = "PreToolUse"       -> "ToolCall"
                   [] p.hook = "PermissionDenied" -> "PermissionDenied"
                   [] OTHER                       -> "ToolResult",
        !.span = MapTool(provider, p, stage),
        !.status = StatusOfHook(provider, p.hook),
        !.meta = ToolMetadata,
        !.thread = ThreadOf(provider, p)]

LifecycleMetadata(provider, hook) ==
  CASE hook = "SessionStart"     -> {"provider", "source", "model", "cwd", "posture"}
    [] hook = "UserPromptSubmit" -> {"permission_mode"} \cup
                                    IF provider = Claude THEN SubagentMetadata ELSE {}
    [] hook = "SubagentStart"    -> SubagentMetadata
    [] hook = "StopFailure"      -> {"error_type"} \cup SubagentMetadata
    [] hook = "SessionEnd"       -> {"reason", "evidence_state"}

MapLifecycle(provider, p, capture) ==
  [BlankEvent(provider, p) EXCEPT
     !.type = LifecycleType[p.hook],
     !.tool = [name |-> provider, server |-> "", function |-> ""],
     !.tokens = p.hook = "SessionEnd" /\ p.usage,
     !.content = IF p.hook = "UserPromptSubmit" /\ capture
                 THEN [NoContent EXCEPT !.prompt = p.text] ELSE NoContent,
     !.meta = LifecycleMetadata(provider, p.hook),
     !.thread = ThreadOf(provider, p)]

Map(provider, p, capture) ==
  IF p.hook \in ToolHooks THEN MapToolHook(provider, p)
                          ELSE MapLifecycle(provider, p, capture)

\* The pair of one model turn (Claude Code) or of one session's usage (Codex).
\* Only the completed half carries the usage and the answer.
MapTurn(provider, p, capture) ==
  LET half == [BlankEvent(provider, p) EXCEPT
                 !.tool = [name |-> provider, server |-> "", function |-> ""],
                 !.index = IF provider = Claude THEN p.index ELSE NoIndex,
                 !.agent = IF provider = Claude THEN p.agent ELSE "",
                 !.rollup = provider = Codex,
                 !.meta = IF provider = Claude THEN {"turn_index"} \cup SubagentMetadata
                                               ELSE {"usage_scope"}]
  IN <<[half EXCEPT !.type = "TurnStarted"],
       [half EXCEPT !.type = "TurnCompleted", !.tokens = TRUE,
                    !.content = IF provider = Claude /\ capture
                                THEN [NoContent EXCEPT !.output = p.text] ELSE NoContent]>>

\* Mutant: the invocation is left out of the identity.
DeriveIdBare(ev) ==
  <<ev.session, ev.type, ev.tool, ev.at, ev.span.path, ev.span.function,
    ev.thread, ev.index, ev.agent>>

\* The idempotency key: the structural fields, the pinned instant, what tells
\* two calls of one tool apart, and for a turn its index and agent.
DeriveId(ev) ==
  <<ev.session, ev.type, ev.tool, ev.at, ev.span.path, ev.span.function,
    ev.span.invocation, ev.thread, ev.index, ev.agent>>

\* The same event for the inline evaluation: a tool call also carries its input.
EvaluationEvent(provider, p, capture) ==
  LET ev == Map(provider, p, capture)
  IN IF p.hook = "PreToolUse" THEN [ev EXCEPT !.content.toolInput = p.input] ELSE ev

-----------------------------------------------------------------------------
(* The wire payload. *)

\* Mutant: a type core does not take goes out as it is.
WireTypeAsIs(type) == <<type, "">>

WireTypeFor(type) ==
  CASE type = "SessionStarted"                  -> <<"WorkflowStarted", "">>
    [] type = "SessionEnded"                    -> <<"WorkflowCompleted", "">>
    [] type = "PromptSubmitted"                 -> <<"SignalReceived", "prompt_submitted">>
    [] type = "SubagentStarted"                 -> <<"SignalReceived", "subagent_started">>
    [] type = "PermissionDenied"                -> <<"SignalReceived", "permission_denied">>
    [] type = "APIError"                        -> <<"SignalReceived", "api_error">>
    [] type \in {"ToolCall", "TurnStarted"}     -> <<"ActivityStarted", "">>
    [] type \in {"ToolResult", "TurnCompleted"} -> <<"ActivityCompleted", "">>

\* Mutant: the stage is part of the operation.
ActivityPairKeyStaged(ev) ==
  <<ev.session, ev.tool, ev.span.path, ev.span.function, ev.span.operation, ev.span.stage>>

\* The operation an approval is filed for: no stage and no instant in it.
ActivityPairKey(ev) ==
  <<ev.session, ev.tool, ev.span.path, ev.span.function, ev.span.operation>>

ActivityIdFor(ev) == <<"act", ActivityPairKey(ev)>>

\* Mutant: the agent of a turn is left out.
TurnActivityIdOfSession(ev) ==
  IF ev.rollup THEN <<"rollup", ev.session>> ELSE <<"turn", <<ev.session, ev.index>>>>

TurnActivityIdFor(ev) ==
  IF ev.rollup THEN <<"rollup", ev.session>>
  ELSE IF ev.index = NoIndex THEN <<>>
  ELSE <<"turn", <<ev.session, ev.agent, ev.index>>>>

WireActivityId(ev) ==
  CASE ev.type \in {"ToolCall", "ToolResult"}       -> ActivityIdFor(ev)
    [] ev.type \in {"TurnStarted", "TurnCompleted"} -> TurnActivityIdFor(ev)
    [] OTHER                                        -> <<>>

\* The key a hold polls.
ApprovalKeyFor(ev) == ActivityIdFor(ev)

\* Mutant: the status of any event is forwarded as it is.
StatusForAny(ev) == IF ev.span.stage = "completed" THEN "completed" ELSE ev.status

StatusFor(ev) ==
  IF ev.type = "ToolResult" /\ ev.status \in {"completed", "failed"} THEN ev.status ELSE ""

\* Mutant: every signal carries what its metadata knows.
SignalArgsOfAll(ev) == IF ev.content.prompt # "" THEN {ev.content.prompt} ELSE ev.meta

BuildSignalArgs(ev) ==
  IF ev.type = "PromptSubmitted" /\ ev.content.prompt # "" THEN {ev.content.prompt} ELSE {}

StructuralActivityInput(ev) ==
  IF ev.type = "ToolCall" /\ ev.content.toolInput # "" THEN {ev.content.toolInput} ELSE {}

\* The one span, on the completed half of a turn with its answer.
TurnAssistantSpan(ev) ==
  IF ev.type = "TurnCompleted" /\ ev.content.output # "" THEN {ev.content.output} ELSE {}

ContentMetadataKeys == {"message", "prompt", "output", "content", "command"}

\* Mutant: the content stays when capture is off.
StripSpanOnly(ev) == [ev EXCEPT !.meta = @ \ ContentMetadataKeys]

StripContent(ev) == [ev EXCEPT !.content = NoContent, !.meta = @ \ ContentMetadataKeys]

BuildPayload(ev) ==
  [event    |-> DeriveId(ev),
   type     |-> WireTypeFor(ev.type)[1],
   signal   |-> WireTypeFor(ev.type)[2],
   workflow |-> <<ev.provider, ev.session>>,
   activity |-> WireActivityId(ev),
   args     |-> BuildSignalArgs(ev),
   input    |-> StructuralActivityInput(ev),
   usage    |-> ev.type = "TurnCompleted" /\ ev.tokens,
   status   |-> StatusFor(ev),
   spans    |-> TurnAssistantSpan(ev),
   meta     |-> ev.meta]

\* Emit: content leaves only with the client's capture on.
Wire(ev, contentOn) == BuildPayload(IF contentOn THEN ev ELSE StripContent(ev))
=============================================================================
