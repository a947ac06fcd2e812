----------------------------- MODULE HookSession -----------------------------
(***************************************************************************)
(* The hook processes of one provider session (RunHook of                  *)
(* claude-code/hookrun.go and codex/hookrun.go) and what core ends up with.*)
(* A script says which hooks the provider fires and which of them it waits *)
(* for; everything it does not order runs concurrently.  The decisions of  *)
(* the gate are module EnforceGate's, the files of the spool Spool's, the  *)
(* retries of Emit ClientPost's: here an emission arrives, or does not, or *)
(* arrives although its sender was told it did not.                        *)
(*                                                                         *)
(* Content capture is read in two places that need not agree.  A hook      *)
(* freezes what the managed file, dev.json and its environment said when   *)
(* it started (devconfig.Pin).  The client of an emission, the hook's own  *)
(* or a flusher's, reads dev.json and the environment of its process again *)
(* (ResolveCredentials, past the pin and without the managed file).  Both  *)
(* files and each environment change at any time, so each read gives       *)
(* either value.                                                           *)
(***************************************************************************)
EXTENDS HookWire

CONSTANT
  Scripts      \* what may be fired: sequences of payloads

\* One kind of event, whichever hook reports it.
Kind(p) == CASE p.hook \in {"PostToolUse", "PostToolUseFailure"} -> "result"
             [] p.hook \in TurnHooks                            -> "turn"
             [] OTHER                                           -> p.hook

\* What the provider tells apart: the calls of a session, by a tool_use_id that
\* stands for one call; its turns, by agent and number (module TurnCursor says
\* when); of anything else, no two in one instant.  A session ends once.
WellFormed(s) ==
  /\ 1 \in DOMAIN s
  /\ \A f \in DOMAIN s : s[f].provider \in {Claude, Codex} /\ s[f].provider = s[1].provider
  /\ \A f, g \in DOMAIN s : f # g /\ Kind(s[f]) = Kind(s[g]) =>
       \/ s[f].at # s[g].at /\ s[f].hook \notin TurnHooks
       \/ s[f].hook \in ToolHooks /\ s[f].call # s[g].call
       \/ /\ s[f].hook \in TurnHooks
          /\ <<s[f].session, s[f].agent, s[f].index>> # <<s[g].session, s[g].agent, s[g].index>>
  /\ \A f, g \in DOMAIN s :
       s[f].hook \in ToolHooks /\ s[g].hook \in ToolHooks /\ s[f].call = s[g].call =>
         /\ s[f].session = s[g].session /\ s[f].tool = s[g].tool
         /\ s[f].input = s[g].input /\ s[f].path = s[g].path
  /\ \A f, g \in DOMAIN s :
       s[f].hook = "SessionEnd" /\ s[g].hook = "SessionEnd" /\ s[f].session = s[g].session => f = g

ASSUME SessionAssumption == \A s \in Scripts : WellFormed(s)

VARIABLES
  provider,    \* the runtime whose hooks run
  script,      \* the payloads it fires
  hook,        \* where the process of each firing is
  pinned,      \* the capture setting each process froze (devconfig.Pin)
  latched,     \* the session is halted
  spool,       \* events waiting: [ev, of]
  sent,        \* what core was given: [wire, of, inline, hookCapture, emitCapture]
  goal         \* the user goal core derives from the session's signals

sessionVars == <<provider, script, hook, pinned, latched, spool, sent, goal>>

Firings == DOMAIN script
P(f) == script[f]

HookStates == {"idle", "gate", "unobserved", "done"}

SessionTypeOK ==
  /\ provider \in {Claude, Codex}
  /\ script \in Scripts
  /\ hook \in [Firings -> HookStates]
  /\ pinned \in [Firings -> BOOLEAN]
  /\ latched \in BOOLEAN
  /\ \A r \in spool : r.of \in Firings /\ hook[r.of] # "idle"
  /\ \A s \in sent : s.of \in Firings /\ s.wire.type \in
       {"WorkflowStarted", "WorkflowCompleted", "SignalReceived",
        "ActivityStarted", "ActivityCompleted"}

SessionInit ==
  /\ script \in Scripts
  /\ provider = script[1].provider
  /\ hook = [f \in Firings |-> "idle"]
  /\ pinned = [f \in Firings |-> FALSE]
  /\ latched = FALSE
  /\ spool = {} /\ sent = {} /\ goal = {}

\* The provider has waited for the hooks this one follows.
Ready(f) == /\ hook[f] = "idle"
            /\ \A g \in P(f).after : hook[g] = "done"

Gated(f) == \/ P(f).hook = "PreToolUse"
            \/ P(f).hook = "UserPromptSubmit" /\ provider = Claude

Step(f, state) == hook' = [hook EXCEPT ![f] = state]

\* devconfig.Pin and ResolveContentCapture: one setting for the hook's life.
Freeze(f, on) == pinned' = [pinned EXCEPT ![f] = on]

\* Core takes a payload; a signal's arguments, when it has any, replace the
\* goal of the session.
Receive(ev, f, inline, hookCapture, contentOn) ==
  LET w == Wire(ev, contentOn)
  IN /\ sent' = sent \cup {[wire |-> w, of |-> f, inline |-> inline,
                            hookCapture |-> hookCapture, emitCapture |-> contentOn]}
     /\ goal' = IF w.type = "SignalReceived" /\ w.args # {} THEN w.args ELSE goal

-----------------------------------------------------------------------------
\* Map has no event for it, or its payload is unusable: dropped, never an error.
\* (Nor is there a turn where no usage is new.)
HookUnmappable(f) ==
  /\ Ready(f) /\ ~ Mappable(provider, P(f))
  /\ Step(f, "done")
  /\ UNCHANGED <<provider, script, pinned, latched, spool, sent, goal>>

\* Mutants: the deferred copy is never written; the two maps of a hook read
\* the clock twice.
SpoolNothing(f) ==
  /\ hook[f] = "unobserved"
  /\ Step(f, "done")
  /\ UNCHANGED <<provider, script, pinned, latched, spool, sent, goal>>

SpoolLater(f) ==
  /\ hook[f] = "unobserved"
  /\ spool' = spool \cup {[ev |-> [Map(provider, P(f), pinned[f]) EXCEPT !.at = @ + 100], of |-> f]}
  /\ Step(f, "done")
  /\ UNCHANGED <<provider, script, pinned, latched, sent, goal>>

\* A hook that only observes: spool the event, and at the end of a Codex
\* session its usage pair.
Observe(f, on) ==
  /\ Ready(f) /\ Mappable(provider, P(f)) /\ ~ Gated(f)
  /\ Freeze(f, on)
  /\ spool' = spool \cup
       {[ev |-> Map(provider, P(f), on), of |-> f]} \cup
       (IF provider = Codex /\ P(f).hook = "SessionEnd" /\ P(f).usage
        THEN {[ev |-> MapTurn(provider, P(f), on)[h], of |-> f] : h \in {1, 2}}
        ELSE {})
  /\ Step(f, "done")
  /\ UNCHANGED <<provider, script, latched, sent, goal>>

\* Stop and SubagentStop: both halves of the turn, and nothing on stdout.  A
\* subagent without a name would share the cursor of the main thread.
EmitTurn(f, on) ==
  /\ Ready(f) /\ provider = Claude /\ P(f).hook \in TurnHooks
  /\ P(f).session # "" /\ (P(f).hook = "SubagentStop" => P(f).agent # "")
  /\ Freeze(f, on)
  /\ spool' = spool \cup {[ev |-> MapTurn(provider, P(f), on)[h], of |-> f] : h \in {1, 2}}
  /\ Step(f, "done")
  /\ UNCHANGED <<provider, script, latched, sent, goal>>

\* The latch answers a gated hook of a halted session; the attempt is observed.
ReplayHalt(f, on) ==
  /\ Ready(f) /\ Mappable(provider, P(f)) /\ Gated(f)
  /\ latched /\ provider = Claude
  /\ Freeze(f, on)
  /\ spool' = spool \cup {[ev |-> Map(provider, P(f), on), of |-> f]}
  /\ Step(f, "done")
  /\ UNCHANGED <<provider, script, latched, sent, goal>>

\* A gated hook: the observe copy is deferred into the gate.
EnterGate(f, on) ==
  /\ Ready(f) /\ Mappable(provider, P(f)) /\ Gated(f)
  /\ ~ (latched /\ provider = Claude)
  /\ Freeze(f, on)
  /\ Step(f, "gate")
  /\ UNCHANGED <<provider, script, latched, spool, sent, goal>>

\* The inline evaluation never leaves: no client, no time, no answer.
NotSent(f) ==
  /\ hook[f] = "gate"
  /\ Step(f, "unobserved")
  /\ UNCHANGED <<provider, script, pinned, latched, spool, sent, goal>>

\* It reaches core, and is confirmed (then it is the observe copy) or not: the
\* gate may give up on a request core stores.  The event is the hook's, under
\* what it froze; its client has read the setting again.  A confirmed HALT
\* latches the session where the provider can be stopped.
EvaluateInline(f, contentOn) ==
  /\ hook[f] = "gate"
  /\ Receive(EvaluationEvent(provider, P(f), pinned[f]), f, TRUE, pinned[f], contentOn)
  /\ \/ Step(f, "done") /\ latched' \in {latched, latched \/ provider = Claude}
     \/ Step(f, "unobserved") /\ UNCHANGED latched
  /\ UNCHANGED <<provider, script, pinned, spool>>

\* The observe copy, for an event that was not confirmed inline.
SpoolObserve(f) ==
  /\ hook[f] = "unobserved"
  /\ spool' = spool \cup {[ev |-> Map(provider, P(f), pinned[f]), of |-> f]}
  /\ Step(f, "done")
  /\ UNCHANGED <<provider, script, pinned, latched, sent, goal>>

\* A flusher emits a spooled event under the setting of its own client, in the
\* order of no hook: realtime flushes and recovery files overtake each other.
FlushEvent(r, contentOn) ==
  /\ Receive(r.ev, r.of, FALSE, pinned[r.of], contentOn)
  /\ spool' = spool \ {r}
  /\ UNCHANGED <<provider, script, hook, pinned, latched>>

SessionNext ==
  \/ \E f \in Firings : HookUnmappable(f) \/ NotSent(f) \/ SpoolObserve(f)
  \/ \E f \in Firings, on \in BOOLEAN : \/ Observe(f, on) \/ EmitTurn(f, on)
                                       \/ ReplayHalt(f, on) \/ EnterGate(f, on)
  \/ \E f \in Firings, contentOn \in BOOLEAN : EvaluateInline(f, contentOn)
  \/ \E r \in spool, contentOn \in BOOLEAN : FlushEvent(r, contentOn)

SessionSpec == SessionInit /\ [][SessionNext]_sessionVars

-----------------------------------------------------------------------------
IsTool(p) == p.hook \in ToolHooks
ClassOf(p) == ClassifyTool(provider, p.tool).kind

\* What an approver who granted p has granted: the same call, and for a shell
\* or an MCP tool the same command or arguments again.
SameOperation(p, q) ==
  /\ p.session = q.session /\ p.tool = q.tool
  /\ \/ p.call = q.call
     \/ /\ ClassOf(p) \in {"shell", "mcp"} /\ p.input = q.input
        /\ ClassOf(p) = "shell" => p.input # ""

\* One activity id names one thing: an operation with its retries, which is
\* what an approval given for it may cover, or one turn of one agent.  Two
\* operations, two turns, or a turn and an operation never share one
\* (activityPairKey, operationID, turnActivityIDFor).
ActivityNamesOneThing ==
  \A s, t \in sent : (s.wire.activity = t.wire.activity /\ s.wire.activity # <<>>) =>
    \/ s.of = t.of
    \/ IsTool(P(s.of)) /\ IsTool(P(t.of)) /\ SameOperation(P(s.of), P(t.of))

\* The two halves of a call, built by two processes and perhaps flushed by two
\* more, meet in one row (activity_id "pairs them onto one timeline row").
HalvesMeet ==
  \A s, t \in sent :
    /\ IsTool(P(s.of)) /\ IsTool(P(t.of))
    /\ P(s.of).call = P(t.of).call
    /\ s.wire.type = "ActivityStarted" /\ t.wire.type = "ActivityCompleted"
    => s.wire.activity = t.wire.activity

\* All copies of an event (inline, spooled, flushed again) carry one id, and
\* two events never do, not even calls of one tool in one instant: the id is
\* the Idempotency-Key (deriveID, the pinned clock of RunHook).
EventIdentity ==
  \A s, t \in sent :
    (s.wire.event = t.wire.event) <=> (s.of = t.of /\ s.wire.type = t.wire.type)

\* A prompt or an answer leaves the machine only when content capture was on
\* both for the hook that took it and for the client that sends it, whatever
\* the two read and when; the input of a tool only on the inline evaluation of
\* that call, under the setting of the client alone, for the hook attaches it
\* without asking (INV-2: Map, EvaluationEvent, stripContent, the observe copy).
NoUnauthorizedContent ==
  \A s \in sent :
    /\ s.wire.args \cup s.wire.spans # {} => s.hookCapture /\ s.emitCapture
    /\ s.wire.input # {} => s.emitCapture /\ s.inline
    /\ ~ s.emitCapture => s.wire.meta \cap ContentMetadataKeys = {}

\* The goal core measures the session against is only ever a prompt of its
\* developer: no other signal of a session carries arguments
\* (buildSignalArgs; event.go on EventSubagentStarted).
GoalIsPrompt ==
  goal \subseteq {P(f).text : f \in {g \in Firings : P(g).hook = "UserPromptSubmit"}}
=============================================================================
