# Formal models of OpenBox Shift-Left

TLA+ modules for the Go code of this repository, TLC configurations that
model-check them on small instances, and TLAPS proofs of what matters most.
Paths below are relative to the repository root.

## 1. The system

Shift-Left governs coding agents (Claude Code, Codex). The agent's host starts a
short-lived **hook process** at each lifecycle point: session start, prompt, before
and after a tool call, end of turn, session end. There is no daemon. All
coordination between hook processes, detached flushers and background watchers
goes through files under `~/.openbox` and through the **core** (a remote service
that stores events, judges them, and keeps approval records). Commands of a
person (`openbox auth`, `init`, `approve`) write the files the hooks live by.

```
 auth, init ──▶ dev.json, .env, settings.json        managed file ◀── organization
                     │                                    │
 host ──▶ hook process ──▶ gate ──POST /evaluate──▶ core ◀── approver (human / `approve auto`)
             │  │            │                        ▲
             │  │            └─ marker ──▶ watcher ───┘ (polls, wakes the session)
             │  └─ turn cursor ◀── transcript (written by the host)
             ▼
          <session>.jsonl ──▶ flusher processes ──POST──▶ core ──▶ advisories.jsonl ──▶ hooks
```

### Inventory

| Component (source) | State it keeps | Operations | What is hard | What makes it correct |
|---|---|---|---|---|
| Event spool (`adapters/common/hookflow/spool.go`, `engine.go`) | one append file per session, rotated files, carry-over files whose name counts attempts | Append, FlushSession, SweepRecovery, FlushAll, writeRecovery | hooks and flushers share only a directory; kills; expired budgets; failed writes; lost answers | no event is nowhere; delivered ones are not sent again; the retry bound is exact; carry-over settles |
| Realtime flush trigger (`realtime.go`, `spool.go`) | a lock file: its existence and its age | Maybe (claim, stat, take over, spawn), touch, release | takeover by two hooks, kills, a failed spawn | a fresh lock stands for a flusher; no lock left behind keeps events for good |
| Enforcement gate (`gate.go`, `evaluate.go`, `approvalhold.go`, `failurepolicy.go`, `enforce.go`) | the decision of one call, audit file, spool | Run: evaluate, failure policy, hold, apply, latch, audit, observe | an abandoned goroutine that still posts; a decision that is rewritten three times before it is applied; kills | a call proceeds only on an answer; each event is observed |
| Session-halt latch (`sessionhalt.go`) | one latch file per session | write, test, replay | written after the answer, best effort | only a HALT of the core latches |
| Rewake watcher (`rewake.go` of hookflow and of claude-code) | the marker file, used as a claim token | await marker, poll, claim, wake | races the gate, and other calls of the same operation | an outcome is acted on |
| Approval records (`client/approval.go`; core) | pending, decided, expired, per operation | file, poll, decide | decided between two polls, refiled after expiry | see gate and watcher |
| Output contracts (`outputcontract.go`) | none | Render | three spellings of an answer | never the host's own prompt |
| Turn cursor (`turncursor.go`, `claude-code/usage.go`, `emitTurn`) | offset and index per session and agent | read, spool the turn, move the cursor, sweep | a crash between spool and cursor; resumed sessions | every line's usage is counted, once |
| Duration stash (`duration.go`) | one start record per tool call | put, take, sweep | the hooks before and after a call are processes | a completed call gets its own start |
| Findings surface (`findings.go`, `advisory.go`) | findings file, a cursor per provider | append, read a delta, surface, advance | concurrent hooks, torn lines | no finding is skipped, none told twice by hooks in turn |
| Hooks and mappers (`mapper.go`, `hookevent.go`, `hookrun.go` of both providers) | none; a process per firing | map a payload to events, ids and halves; evaluate inline; spool | the halves of one call are mapped by different processes; retries; two calls in one instant | ids agree where they must and differ where they must |
| Wire payload (`client/payload.go`, `operation.go`, `turnspan.go`) | none | signals, activities, content stripping | the setting that governs content changes between hook and flusher | nothing is sent without leave; the goal is the prompt |
| Control-plane client (`client/client.go`, `verdict.go`, `signing.go`) | none | Emit: build, sign, POST with retries, read the verdict | a retry after a stored POST; the transport's own repeats; older cores; a core that does not know a key again, and one that does | a second row only for an answer that was lost; the verdict told is the row's |
| Developer configuration (`devconfig/*.go`) | `dev.json`, its legacy place, the managed file, pins | migrate, load, write, pin, resolve | unlocked rewrites, a file read twice, pins | a choice survives; a mandate holds; one version at a time |
| Credentials (`auth.go`, `authrotate.go`, `devinit`, `envfile.go`, `backend`) | `.env`, coordinates in `dev.json`, the server's newest secrets | register, rotate, collect, reuse | a secret is shown once and kills the one before; each step may fail | success means it works; a rotation repairs |
| Installers (`claude-code/installer.go`, `localhooks.go`, `codex/installer.go`) | install lock, engine binary, handlers in settings files | lock, place, merge, audit | earlier releases, several homes, hand edits, no lock on the file | gated once, foreign handlers kept, engine before hooks |
| Autonomous approver (`cli/internal/approver`, `approveauto.go`) | seen set, hourly window, audit trail | poll, judge, consult, decide, append, prune | people decide beside it; answers are lost; clock | the trail is true; the budget holds in every hour |
| Git attribution (`adapters/common/git/*.go`) | session registry, trailers in messages, two notes refs | touch, remove, resolve, stamp, mirror, attest | sessions and git processes in one repository; a hook after the commit looks everything up again; commits and lines come in from elsewhere; history rewrites | the hooks add only sessions present around the commit; an attestation is about what was signed |
| Git action: resolution (`actions/openbox-git-action/resolve.go`) | none | scope, gather claims, verify, attach attestations | rewritten messages, copied notes, two caps | a stamped message heals what rewrites did to its sessions; evidence fits the claim |
| The rest | see section 6 | | | |

## 2. The modules

### Hooks and flushers: `Spool`, `Outbox`, `FlushLock`, `FindingsCursor`, `DurationStash`

`Spool`: a member of `File` is an inode and `kind`, `home`, `attempt`, `owner` are its
directory entry (live spool, carry-over, rotated or none; session; the number in
its name; the process that minted the random part). Lines are sets of events.
Actions follow the code's system calls: `AppendOpen`/`AppendWrite`;
`SessionEndFlush`/`BeginFlush`/`FlushAll` (list the directory);
`RotateSpool`/`ClaimListed` (the atomic rename, with `FlushAll`'s `.reclaim.`
rename of a file that may be in use); `ReadFile`/`ReadNothing`; `EmitEvent` (one
POST: stored or not, answered or not); `EndDrain`, `CreateRecovery`,
`FillRecovery`, `RecoveryFault` (`writeRecovery`: give up, create, fill, fail);
`RemoveRotated` (the deferred remove). `Expire` and `Kill` are the environment's.
Everything a hook or a flusher remembers is per process and dies with it.

`Outbox` is what all of this promises whoever records an event, without files or
processes: at-least-once delivery with bounded effort. An entry waits, is taken up,
sent and carried over so often, and leaves only when it is acknowledged, given up,
unsendable or missed by a write; an acknowledged one is not due any more. `Spool`
implements it (`ImplementsOutbox`): `waiting` is the union of the files' lines,
`missed` is `faulted \cup late`, `disturbed` is `exposed`, and of a disturbed entry
`Outbox` promises only that it does not leave without a reason.

`FlushLock`: the lock file is none, fresh or stale. A hook spools its event, then
claims the lock, stats it if it is there, takes over a stale one and spawns
(`SpoolEvent`, `ClaimLock`, `StatLock`, `TakeOver`, `Spawn`, `SpawnFails`); a
flusher, detached or the SessionEnd hook itself, touches, drains and releases
(`TouchFlushLock`, `Drain`, `ReleaseFlushLock`, `FlushSkipped` without
credentials). What a drain does is `Spool`'s business: here it takes all there is.

`FindingsCursor`: offsets count lines. `RecordAdvisory`/`TearAdvisory` append a line
or a fragment; a hook reads its provider's cursor, a bounded delta, writes the
findings and moves the cursor, and may be `CutShort` between any two of these.

`DurationStash`: `WriteTemp`/`PutStart` (temporary file and rename), `ReadStart`/
`RemoveStart`, `ClearStash`; a start time is written as the call it belongs to.

### The gate: `EnforceGate`, `Rewake`

A member of `Call` is one gated hook process; its event is posted by a goroutine
(`post`) it may abandon. The actions are the steps of `EnforceGate.Run` in their
order: `ReplaySessionHalt` or `StartEvaluation`/`SkipEvaluation`;
`EvaluationAnswered`/`EvaluationAbandoned`, each with the failure policy and the
choice to hold (`Obtain`); `RecordPendingApproval` and `FillMarker` (not atomic);
`PollDecided`/`HoldOver`; `ClaimOutcome`; `Apply` (halt mark, verdict cascade,
rendering by contract); `WriteSessionHalt`; `RecordEnforcement`; `Finish` (the
deferred observe copy). The core keeps one approval record per operation `Key`,
so two calls of one operation share it. `HostKills` may fall between any two
steps. Budgets are expiries that may happen at any time.

`Rewake` extends the gate with one watcher process per gated tool call and the marker
as claim token. `PatientSpec` is the same without watchers that stop on their own,
for the liveness property.

### What a session says of itself: `TurnCursor`, `HookWire`, `HookSession`

`TurnCursor`: one session's transcript, a cursor per window (main thread or subagent),
the hook steps `ReadTurnUsage`, `RecordTurn`, `MoveCursor`, and `GiveUp` between any two
of them; `ClearSession` at session end, after which a session may be resumed; a core
that keeps the first event with an activity id.

`HookWire` is definitions only: the providers' tool tables and `Map`, the identities of
an event (`event id`, `activity id`, `operation id`; a hash is the tuple it hashes), the
inline variant of an event, and the wire payload with what content capture strips.

`HookSession` runs a script of hooks with them, a process per firing; the script says
only which firings the host waits for. A process maps (`HookUnmappable`, `Observe`,
`EmitTurn`), or enters the gate (`ReplayHalt`, `EnterGate`, `EvaluateInline`, `NotSent`)
and spools its copy (`SpoolObserve`); `FlushEvent` sends spooled events in any order.
The capture setting is read afresh by each of them, as BOOLEAN of any value: a hook
freezes what the managed file, `dev.json` and the environment say (`Freeze`), while the
client of a flusher, and the client a hook builds for its own inline evaluation, reads
`dev.json` and the environment past that pin (`EvaluateInline`, `FlushEvent`). So the
hook may read off and its client on, whether the managed file differs or somebody has
edited `dev.json` in between. `SessionAssumption` is what the provider promises of a script
(`WellFormed`): one runtime; a tool_use_id stands for one call, whose hooks agree on the
session, tool, input and path; a turn number per agent stands for one turn, as
`TurnCursor` proves of a session that was neither resumed nor had a turn's hook cut
short; any other two hooks of one kind come in two instants; a Codex session, whose usage
pair has one activity id, ends once. The theorems hold for every such script.

### The client: `ClientPost`, `Delivery`

`ClientPost` is `Emit` (`EmitUnbuildable` if the event does not marshal): an attempt is
signed with a nonce of its own and carries the event id as Idempotency-Key; it is lost
(`TransportError`, which may leave it on its way), repeated by net/http
(`TransportReplays`), answered by core (`CoreEvaluates`, `CoreRefuses`,
`CoreUnavailable`) and read (`ReadResponse`), and tried again (`BackoffOver`) until the
retries or the caller's context (`ContextDone`) are used up. The verdict is read from
bodies of both generations of core, cut or mistyped ones included.

Core is an environment, and the repository does not agree on it: some lines say that it
dedupes on the Idempotency-Key, more of them that it does not yet (section 5). The model
takes neither side. Core makes another row for a key it has seen, until, at any moment or
never, `CoreShipsItsHalf`: from then on it knows the keys of the rows it makes
(`honours`, and `keyed` of a row) and answers a known one with its first verdict.

`Delivery` is what the client promises either way, at-least-once delivery with a bounded
number of tries: a try makes at most one row, no try is begun once the outcome is known,
a success is about a row of the last try or, once core knows the events (`once`), of
another; a failure says nothing of the rows. `ImplementsDelivery` is the refinement:
`rows`, `once`, `try`, `outcome` and `verdict` are mapped to the stored requests,
`honours`, and the attempt, phase and result of a call.

### Setting up and deciding beside: `DevConfig`, `Credentials`, `LocalHooks`, `Approver`

`DevConfig`: a file is absent, torn or a record of settings. A command migrates the
legacy file, truncates and fills its copy, loads, and truncates and fills the file in
place (`StartCommand` ... `WriteConfig`), without a lock; a hook pins its view in the reads the
code makes (`Pin`, `LoadManaged`, `ManagedKeys`, `LoadUser`, `UserKeys`), then resolves
one flag after another (`ResolveFlag`) and the credentials, which are read past the pin
(`ResolveCredentials`). The organization pushes its file, the developer edits the other.

`Credentials`: a secret is [agent, gen] and the server accepts the newest. A run is
`auth` (register, rotate, collect) or the registration `init` makes; its steps are the
calls of the control plane and the two writes, and it fails or is killed between them.

`LocalHooks`: handlers of an event are a sequence; a merge (`Merged`, `MergeEvent`) is an
operator on it, applied between a read and a rename of the file; the Claude Code
installer holds the install lock of its home meanwhile, the Codex one none.

`Approver`: the loop lists the queue, judges by the envelope's rules or asks a host,
sends the decision, appends a line. People and expiries act on the same requests.

### Git: `Attribution`, `DeployResolution`

`rec` is the registry, `now` counts touches and `cutoff` is the oldest touch that
is still fresh. A message is the set of sessions its lines name (`text`) and the
part git's trailer parser sees (`block`). prepare-commit-msg and the creation of
the commit are one step, as git holds the index lock over both: `CommitNew`,
`CherryPick`, `Amend`, `Squash`, `MergeFrom` only differ in the parents and in the
messages the new one is made of. Lines come in from elsewhere: a pick, a rebase or an
amend takes the message of a commit made in another worktree (`MoveHead` is the
fast-forward, reset or checkout that puts it at HEAD, with no hook of this package), and
a person writes any line into any message (`H`), where the hook sees it (`-m`, `-F`) or
after it ran (the editor). `Message` stamps the result, leaves it as git wrote it (no
hook installed), or has its lines deleted in the editor. Four histories are kept for the
properties: `brought`, the lines a commit has from elsewhere or by hand; `homes`, the
worktrees it, or a commit whose note git copied to it, was at HEAD in; `stamped`, the
commits the hook stamped; `owed`, the sessions the hook found for a commit or for one
whose message went into it.

post-commit runs unlocked in
two steps, `WriteNoteMirror` (resolve again, note on HEAD) and `WriteAttestation`
(sign HEAD), so that commits of two processes interleave; `SkipPostCommit` ends
it anywhere. `CopyNotes` is git's `notes.rewriteRef`. `WriteSessionRecord` is any
hook of a session, a late one after its SessionEnd included.

`DeployResolution` extends it with what the git action computes from a checkout, as pure
operators: `Scope` (range, merge or single commit, capped), `Candidates` (the
trailer, body and note passes), `Gathered` (every outcome of the session cap; the
order of lines within one message is left open) and `Evidence`.

### `MC*` and `*Proofs`

The `MC` modules define constant values, symmetry sets and bounds on steps. Components
that do not act on each other's state share a run: `MCLocalFiles`, `MCHooks` and
`MCSetup` extend all of theirs, and a variable `part`, chosen once, says which of them a
behaviour runs; the others stay in one initial state.

How components meet: `Rewake` extends `EnforceGate` and `DeployResolution` extends
`Attribution` with the state they share. Elsewhere one module states what the next
assumes: `Delivery` is what `EmitEvent` of `Spool` and the emissions of `HookSession`
take for granted (a POST is stored or not, and answered or not);
`FlushLock` says when `Spool`'s flushes start; `HookSession` leaves decisions to
`EnforceGate`.

## 3. Runs

Passing (type invariants are proved where a module has proofs, see section 4):

| Run | Instance | Shows |
|---|---|---|
| `spool_mishaps` | 2 flushers, 3 files, 2 attempts; one event with one kill, expiry, write fault and `FlushAll` each, or two events (one never serializes) and two sessions with an expiry or a `FlushAll` | `NoLoss`: an event is on disk until it is settled, and that core has it without having said so does not settle it; `ImplementsOutbox` (refinement): outside the two admitted cases a delivered one is neither sent again nor carried over; `RetryAllowance`: exactly so many attempts |
| `gate_calls` | 2 tool calls, one session, one operation, fail-closed | `ProceedsOnAnswer`, `LatchOnlyByCore`, `ObservedOnce` |
| `rewake_alone` | 1 call and its watcher, `PatientSpec` | `WakesForADecision`, `SilentIfActedOn`, and `DecisionReaches`: a decision made while it waits reaches the session |
| `attribution_commits` | 2 sessions, 2 worktrees, 2 git processes, 3 commits, 3 touches, picks, moves of HEAD and lines by hand | `TreesApart`: the hooks add to a commit only sessions present around it, whatever came in from elsewhere, and only such sessions are noted or signed; `HealedAsTrailer`: a session a hook once found is claimed as a trailer again as soon as the hook stamps the message its lines ended up in; `EvidenceBound`: an attestation counts only for what was signed |
| `local_files` | one of: the spool with two sessions, an expiry and a write fault; 2 hooks, 2 flushers and 2 faults on one lock; 2 hooks of one provider over 3 advisories; 3 calls of one operation, one of them with an id | `CarryOverSettles`; `FreshMeansFlush` and `EventsReachAFlusher`; `FindingsToldOnce`; `OwnStart` |
| `client_post` | an evaluation, the flush of the same event's spooled copy over a reused connection, and a call that does not marshal; one retry; an older core, which ships its half of ADR-0009 at any step or never | `ImplementsDelivery` (refinement), `DoubledOnlyUnheard`: a second row of an event only before core has its half, and of one call only for an answer it has not read; `RetryIsNoReplay`, `VerdictKept`, `EmitEnds` |
| `hooks` | five scripts of five or six firings, their hooks and clients reading two capture settings, the same or not, and one of them another; or a main thread and a subagent, 3 lines, one session end | `ActivityNamesOneThing`, `HalvesMeet`, `EventIdentity`, `NoUnauthorizedContent`, `GoalIsPrompt`; `SpooledFirst`, `CountedOnce`, `DeliveredCounted` |
| `setup` | one of: 2 commands, 2 settings, 2 edits, pushes or kills and a hook; 2 runs, 2 agents, 3 commands on the credentials; 2 installs of 2 homes and one edit; 2 requests, 3 clock ticks, a budget of 1 | `ChoiceKept`, `MandateHolds`, `OnePosture`; `NoSilentLoss`, `RotationRecovers`; `GatedOnceHere`, `ForeignKept`, `EngineBeforeHooks`; `BudgetKept`, `EvidenceTrue` |

Violations: each checks one statement made in the repository, and TLC finds a
behaviour of the code against it. These are the findings of PROJECT.json.

| Run | Statement | What happens instead |
|---|---|---|
| `spool_late_append` | late appends land in a fresh file; "never loss" (`spool.go`, `realtime.go`) | a hook that opened the spool before the rename writes after the drain has read, and the line goes with the file |
| `turn_under_report` | "never under-report into nothing" (`turncursor.go`, `hookrun.go`) | the re-read turn is longer, has the old id, and is dropped as a duplicate |
| `init_env_credentials` | "`init` performs NO registration", and credentials may be environment variables (`main.go`, `scope.go`) | with the environment only, `init` finds none in `.env` and looks its agent up through a client it was not given |
| `install_watcher` | the watcher rides alongside the gate; a re-init never duplicates (`localhooks.go`) | the merge looks for the gate alone: an older gate never gets its watcher, a lone watcher gets a second one |

### Bounds, and why they are enough

* Two flushers are what a race needs; one event shows all that can happen to an
  event, two show a drain cut in the middle. Three files hold a spool, its
  carry-over and a fresh spool; when no inode is free, `RecoveryFault` covers it,
  and a fourth file adds 3 % of states. `MCWithin` keeps two events and two
  sessions apart from kills and write faults (an action constraint of the run).
  `MaxOccasions` bounds kills, expiries, faults and
  `FlushAll`s to one each, so a run covers all orders of one of each kind.
  `MaxRecoveryAttempts` is 1 or 2 instead of 5: the counter is only incremented
  and compared. `NoLoss` is proved without any of these bounds.
* Two hooks and two flushers are what a takeover of a lock needs; two faults let
  both the claimer and the flusher it started die. Ages are two, as the code only
  compares with the debounce window.
* Two readers race for a cursor; three lines with a delta of at most two leave a
  rest for the next read. Three calls under one operation are a call with an id and
  two that share a key.
* Two calls of one operation are what shares a record, a marker and a latch. Other
  contracts and fail-open are covered by the theorems, which hold for all values
  of `ContractOf` and `FailClosed`.
* An event that has two calls of `Emit` is the inline evaluation and its spooled
  copy; one retry shows every order of two attempts, and one repeat per call what
  the transport adds. `MCClientPost!MCBound` lets one call wait for an answer at a time
  and counts requests under way and rows: up to two rows of one event, made by two
  attempts, two calls or both sides of `CoreShipsItsHalf`, beside a request that is still
  to arrive. The theorems hold for any `MaxRetries` and `Reused`, and without that bound.
* The scripts of `MCHooks` hold what identities could confuse: two writes of one
  file in one instant, one of which fails; a command, its retry and an empty one;
  turns that end in one instant; MCP calls of one function of two servers, and one
  without arguments; and the Codex counterparts. Any hook the script does not order runs concurrently.
  Of the hooks and of the clients of a behaviour each reads the same setting (on or off,
  the two kinds the same or not), but one process of either kind may read another
  (`OddOnes`): that is the managed file that differs from `dev.json`, and one rewrite at
  any moment.
* Three transcript lines let a turn be reported, re-read longer, and followed by
  another; one session end is one resumption.
* `MaxEdits` 2: two events among commands, edits, pushes and kills, with all their
  steps interleaved; one pointer setting and one plain bool are the two ways the
  code stores a flag. `MaxCommands` 3 and `MaxGen` 3: a machine is damaged, a second
  run overlaps, a third repairs. `MaxInstalls` 2 and `MaxTouches` 1: a settings file
  of an earlier release, two homes, a hand edit; merges are per event, so one event
  suffices. `Hour` 2, `MaxClock` 2: a budget that is spent and freed again within
  one run of the approver. The environment holds no credentials in `setup`;
  `InitCredentials.cfg` has the other case.
* Three commits are a chain whose end is squashed, or one that is amended twice, picked
  into another worktree and amended there, or merged; two touches by two sessions decide
  recency. `MCAttribution!MCBound` trades them against each other: up to two commits and
  three commits and touches together, with two processes, the environment naming
  sessions and ageing records; or with one process and two extras (a commit with lines
  from elsewhere, a commit at HEAD of a second worktree); or four together with none,
  or with one where nothing is noted yet. Lines are written by hand into the first
  commit. Worktrees are not nested in the passing run; the theorems hold for any
  `Nested`, any lines and moves, and without the bound. Walk and session caps of 2 are
  both reached.
* Runs that may stop (`CHECK_DEADLOCK FALSE`) are those whose calls, scripts, commits or
  bounded occasions end. The spool run never stops and checks deadlock.

### Fairness

* `Spool!SpoolFairness`: weak fairness for an open append's write, for each flusher's
  flush and drain steps, and for starting some flush: the operating system runs
  every process, and as long as people work, hooks start flushes. Nothing is
  assumed of `FlushAll`, which is a command, of which session flushes, or of the
  core storing anything.
* `FlushLock!LockFairness`: weak fairness for the steps of each hook and flusher, and for
  the debounce window passing, which is time. No fairness for what may fail: a kill,
  a failed spawn or missing credentials are steps nothing forces, and hooks go on
  spooling, as people work.
* `Rewake!PatientSpec`: weak fairness for the steps of gate and watcher, and
  strong fairness for a watcher's poll that finds a decision: a poll that is
  repeated does not fail for ever. A watcher that reaches its own longest wait is
  excluded there, as `DecisionReaches` is about decisions made while one waits.
* `ClientPost!FairClientSpec`: weak fairness, per call, for a request ending in a
  transport error or a backoff being over: the HTTP client has a timeout and the
  backoff a timer. Core need not answer anything.

## 4. Proofs

All theorems hold for every value of the constants that satisfies the named
assumption of the module.

* **`SpoolProofs`: `TypeCorrect`, `NoLossHolds`, `NoResendHolds`, `RetryAllowanceHolds`,
  `ImplementsOutboxHolds`, `OutboxSuffices`.** `NoLoss` alone is not inductive: a drain may remove its file because another copy exists, and two
  drains could count on each other's. `HeldInv` says what a drain that still has
  its file has secured at each program point, and orders copies by attempt: a
  file that is about to be removed counts only on copies of a *later* attempt.
  `OutInv` gives the attempt of a carry-over being filled, `TodoInv` that listed
  files are there, `Shape` what the program counter implies of the references.
  For an event no occasion exempts, `PlaceInv` says it is in at most one place, a file
  no drain works on or the hands of one drain, and that the attempt in that file's name
  is how often it was taken up: so it is neither sent again nor given up early.
  `HandsInv`, `OpenInv` and `NewInv` say where the hands' events come from.
  The refinement needs no further invariant: `PlaceInv` makes what a drain takes up,
  sends, gives up or carries over due, and `HeldInv` is the reason for which lines leave
  with their file (`LeaveStep`); renames and new empty files are stutters (`DiskStays`).
  `OutboxSuffices` derives `NoLoss` and `RetryAllowance` from `Outbox` alone.
* **`LocalProofs`: `LockTypeCorrect`, `FreshLockMeansFlush`, `FindingsTypeCorrect`,
  `FindingsToldOnceHolds`, `StashTypeCorrect`, `OwnStartHolds`.** The lock's property is
  inductive with its types. For the findings, `HoldsInv` says what a hook has in hand
  (a delta all before which was told) and `AloneInv` that, of a
  provider nobody disturbed, only one hook is at work and it stands at the cursor.
  `StashInv` ties each record to the calls of its key that are in flight.
* **`EnforceGateProofs`: `GateTypeCorrect`, `ProceedsOnAnswerHolds`,
  `NeverAsksHolds`, `LatchOnlyByCoreHolds`, `ObservedOnceHolds`.** The invariant
  is per call: the source of a decision tells where its verdict comes from
  (`Sourced`), what is true at each program counter (`Placed`), where the event is
  (`Copies`), what the host was told (`Said`). A frame lemma says another call's
  step leaves it alone but for the shared record, which stands once decided
  (`Standing`).
* **`RewakeProofs`: `WatchTypeCorrect`, `WakesForADecisionHolds`,
  `ProceedsOnAnswerWatched`, `SilentIfActedOnHolds`.** The gate's invariant, kept by watcher steps, which
  write only the marker; a record that exists was filed by some call
  (`FiledInv`), and a watcher that claims has seen a standing decision
  (`ClaimInv`). The last theorem is for calls of different operations (`OneCallEach`):
  with two calls of one operation it is false (section 5). `SilentInv` says that the
  marker of a watcher's call stays until the watcher or the gate of that call, which
  then has the answer, takes it away.
* **`HookProofs`, of `TurnCursor`: `TurnTypeCorrect`, `SpooledFirstHolds`, `CountedOnceHolds`,
  `DeliveredCountedHolds`.** What a hook
  started from is covered by spooled turns, what it would move the cursor to is
  once its turn is spooled (`HooksCovered`), and no position lies beyond the
  transcript (`InTranscript`), which only grows. `CountInv` says, until a
  session ends, that the turns of a window have disjoint lines in the order of their
  numbers, that all end before its cursor but those of the cursor's own number, and
  that a number stands for one turn; and that core keeps one turn per number.
* **`HookProofs`, of `HookSession`: `SessionTypeCorrect`, `EventIdentityHolds`,
  `ActivityNamesOneThingHolds`, `HalvesMeetHolds`, `NoUnauthorizedContentHolds`,
  `GoalIsPromptHolds`.** None of the properties is inductive: they say nothing of what
  waits in the spool or in the gate. `SessionInv` does: a process that has fired has
  frozen its setting, what is spooled is one of the `EventsOf` its payload under that
  setting, and what core was given is the bytes of one of these, or of the inline
  variant, under whatever setting its sender read (`Observed`,
  `Evaluated`). The rest is about bytes: `WireFields` says stripping changes neither
  id nor activity, `EvaluationSame` that the inline variant differs by the input only,
  `GivenParts` what the id and the activity of each of the three sorts of event
  (tool, lifecycle, turn) are made of. Two equal ids then give one sort, one instant and
  one invocation or turn, and the script has one such firing (`ScriptApart`); two equal
  activities give one operation (`KeyIsOperation`), and one call has one (`CallIsOperation`).
* **`ClientPostProofs`: `ClientTypeCorrect`, `DoubledOnlyUnheardHolds`,
  `RetryIsNoReplayHolds`, `VerdictKeptHolds`, `ImplementsDeliveryHolds`.** `WireInv`
  and `NonceInv` say of every request on the wire, and of every nonce core has seen,
  that the attempt of its call has been made; `RowInv` that a row is filed under its
  event and that the nonce that made it is seen, so that copies of one attempt make one
  row; `AnswerInv` that an answer of success is about a row the call may be told of and
  carries its verdict; `CallInv` the same of a call that has returned. An attempt that
  was heard is the last of its call. The refinement maps each step to a step of
  `Delivery` or a stutter. Nothing of it assumes that core dedupes.
* **`SetupProofs`: `ApproverTypeCorrect`, `EvidenceTrueHolds`, `BudgetKeptHolds`,
  `ConfigTypeCorrect`, `MandateHoldsAlways`, `OffOnlyByChoiceHolds`, `ChoiceKeptHolds`,
  `OnePostureHolds`, `CredentialsTypeCorrect`, `NoSilentLossHolds`,
  `RotationRecoversHolds`, `InstallTypeCorrect`, `InstallGatesOnce`,
  `InstallKeepsForeign`, `InstallEngineFirst`.** For the audit trail, `HandInv` says which request a run has in hand at each step, and
  `DecidedInv` who has decided it when. The budget is the proof with an idea: the
  loop forgets decisions older than an hour, and the property speaks of every hour,
  wherever it begins. `WindowInv` says the window holds the instants of all decisions
  of this run within the last hour; the decisions of an hour that includes the present
  map one to one into the window, and an hour that ended gains none (`HoursInv`).
  For mandates, `ViewInv` says what a hook's pinned view is at each of its reads and
  `ManagedInv` that, unless the file was replaced since, it is the file's. `OffInv`
  says that no file, view or command's hand has a protection off that nobody
  turned off: torn files and half-done migrations included. `ChoiceInv` follows the
  choices through a command that has the file to itself: they are in the file or,
  while it is torn, in the command's hand. `PostureInv` says of each hook what
  `OnePosture` does; what it needs is that a view is read before any flag is resolved.
  What is promised of the credentials is promised of commands that had the machine to
  themselves, so `InHand`
  says step by step what such a run has in hand, `AloneInHand` that it is the only run
  alive while it lasts, `AtRest` what holds between commands, and `Issued` that no
  secret is newer than the server's.
  A merge of hooks keeps the elements at some positions of a sequence; `Keeping` says which by
  cardinality (`Nth`), and lemmas about it say what a merge keeps, drops and counts.
  `RunInv` says what each install has read and placed at each of its steps (`RunOK`): of
  a lone one, that what it read is what is still there. `LatestInv` says that the file of
  the run that last said success, unless disturbed, gates every event once at its engine.
* **`AttributionProofs`: `TypeCorrect`, `TreesApartHolds`, `EvidenceBoundHolds`,
  `HealedAsTrailerHolds`.** `TreesApart` is about finished commits; what makes it
  inductive is that a record says where its session worked (`RecordsTrue`), that what a
  process knows between its hooks is of sessions present in its own worktree
  (`HooksApart`), that a commit's lines are of its worktree or brought in, also for the
  messages that become the next one (`LinesApart`, `LinesOf`), and that a worktree
  is among the homes of the commit at its HEAD (`NotesApart`). One lemma covers every way to make a
  commit, as they only differ in parents and messages. `EvidenceBound` follows from
  `SignedInv`: whatever note says an attestation was signed, it was. `HealedAsTrailer`
  rests on `Kept`: who is owed to a commit is among its lines, through every pick, amend
  and squash, and in its block once it was stamped; the passes and the cap do the rest.

Every invariant the passing runs check is proved. Only model-checked are the liveness
properties `CarryOverSettles`, `EventsReachAFlusher`, `DecisionReaches` and `EmitEnds`:
the prover does not do fairness or ENABLED.

## 5. Observations that are not runs

Spool and lock

* `writeRecovery` gives events up in the detached flushers' drains too, where nobody
  counts them (`spool.go:375-377`): only SessionEnd reports a count, although the
  comment says give-ups are "counted, not silent".
* `FlushAll` takes every rotated file for an orphan. If its drain is alive, the
  rest of the file is sent twice; `Outbox`, `NoResend` and `RetryAllowance` except it
  (`exposed`). `realtime.go:47-49` says "two flushers can never both send one spooled event".
* A flusher that is killed leaves a rotated file only `FlushAll` ever picks up.
* A finishing flusher removes the flush lock whoever has claimed it, and two hooks may
  take over one stale lock: `FreshMeansFlush` promises a flusher, not a single one.

Gate and watcher

* The gate holds on any REQUIRE_APPROVAL and the approver's answer replaces the
  whole decision, a failed guardrail included (`gate.go:158`,
  `approvalhold.go:134-143`); `enforce.go:430-433` checks the guardrail first so
  that it is "never silently swallowed by an approval flow".
* Gate and watcher can both act on one decision, as the gate does not look at whether
  it won the claim (`gate.go:219` against `rewake.go:127-130`, "never both"); and a
  watcher can be beaten by the watcher of an earlier, expired request of the same
  operation, not by the gate (`rewake.go:163-169`).

Turns, findings, wire

* A resumed session starts its turns at index 0 over the old transcript and mints
  old ids again (`engine.go:113`): the core drops or double counts.
  `CountedOnce` and `DeliveredCounted` speak of sessions that were not resumed.
* Two subagents whose lines land in one transcript each count the other's lines
  (`usage.go:325` has no agent id): `CountedOnce` excepts them.
* The findings cursor is the provider's, so a finding of one session is surfaced into
  whichever session of the provider has a hook running first.
* A SubagentStart carries nothing of its invocation but the instant, so two of them in
  one instant have one event id. `HookSession` models an enforcing session.

Core and the Idempotency-Key

* `client.go:163-164` says of a retry that "the server returns the original verdict for
  a key it has already seen instead of counting the event twice", and
  `docs/architecture.md:59-61` likewise; `claude-code/mapper.go:756-761` ("a client
  retry after a lost 200 can still be stored twice"), `payload.go:492-496`,
  `evaluate.go:74-80`, `signing.go:32-36` and ADR-0009 (lines 40-42: "Until core ships
  its half, a retry after a lost 200 can double-count") say that it does not yet. `ClientPost`
  holds on both sides of that day. Before it, an event of which one answer was lost has
  two rows: `DoubledOnlyUnheard` says that there is no other reason for one call, and
  that the two calls of one event (the evaluation and its spooled copy) may each make one,
  which is what `OnDelivered` of the gate is there to avoid (`ObservedOnce`).
* `TurnCursor` is about a core that keeps one row of a turn's activity id, as
  `hookrun.go:339-341` says of turns ("a server that deduplicates"); with a core that
  keeps both rows, the re-read turn of `turn_under_report` is counted twice instead.

Configuration and credentials

* `mapper.go:57-61` says the hook's capture setting and the client's egress "always
  agree". The client's is read by `ResolveCredentials` (`devconfig.go:583-598`) from
  `dev.json` and the environment alone, the hook's from the managed file first. With
  `content_capture` false in the managed file only, the mapper strips and the client
  does not, and the inline evaluation's tool input is governed by the client, against
  `docs/upgrading-to-inline-evaluation.md:18` ("Set content_capture: false and no body
  is sent"). `OnePosture` asks for agreement where the managed file leaves the field
  alone.
* A setting that is a plain bool cannot be saved as false: it is written as absent.
* A register that is killed between the secrets and the coordinates leaves new secrets
  beside the old agent; a second one "reuses" them and says success
  (`devinit.go:256-276`), which is why `NoSilentLoss` starts from commands that all
  succeeded. `readLocalCredentials`' parse error is dropped there too, against
  `credfile.go:27-29`.
* Two rotations at once each kill the other's secrets, and both report success.
* `devinit.go:265` says an empty field "would ERASE it"; `WriteConfig` carries blank
  fields forward.
* What a developer changes in the settings between an installer's read and its rename
  is lost (`raced` excepts it from `ForeignKept`). The release of the install lock
  removes whoever's lock it is.
* A decision of the approver whose answer was lost is neither in the audit trail as
  applied nor counted in the budget.

Git

* Everything beneath the top of a worktree counts as in it, a nested worktree too
  (`session.go:233`), where `registry.go:23-24` says sessions of two worktrees never
  collide; `TreesApart` therefore says *within*.
* post-commit resolves once more (`hookrun.go:47`): a commit for which
  prepare-commit-msg found no session is mirrored and attested with one that
  started since, while its message names nobody.
* Two processes that commit in one worktree may mirror and attest one's commit
  with the other's session: `TreesApart` promises the worktree, not the process.
* `attestation.go` says the signed sessions are those "being claimed, in trailer
  order"; sessions healed out of a squash are in the trailer and not signed.

## 6. Not modelled, and why

* Secret redaction, wording, logging, file modes, JSON parsing, truncation caps, the
  hash input of spans: pattern matching and layout of data, without state.
* The re-read of a transcript that shrank and torn last lines of a transcript: the
  hosts only append whole lines. The SessionEnd rollup of usage sums what the turns
  summed.
* Codex usage (`adapters/codex`): a lookup in files the host owns, which keeps nothing.
  The gate of Codex is `EnforceGate` with its contract.
* Of the developer configuration, settings that are not boolean take the same path. Of
  the installers, the plugin bundle, uninstall and the git hooks path; of the
  credentials, prompts and permissions.
* Of the approver, the patterns of rules (a table per request) and the text of the
  host's answer. `SelfFiled` is empty in the run: the check is one conjunct, and the
  theorems hold for any.
* Of git attribution, hook installation, signature bytes, messages git
  itself rejects as empty, the amending of a merge. Of the action, its status texts,
  truncated reads, ownership lookup and deploy event: a sequential command.
* The managed-settings generator, the command shell and the event contract validator:
  templates, flags, printing, and a schema check that tests use.

## 7. Plan

Modelled so far, in this order: spool, gate, watcher, turn cursor, attribution and
resolution; then lock, findings, stash, client and its refinement, hooks and wire,
configuration, credentials, installers, approver. What is left:

* The SessionEnd rollup and the Codex usage lookup beside the turn cursor.
