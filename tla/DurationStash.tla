---------------------------- MODULE DurationStash ----------------------------
(***************************************************************************)
(* The start times of one session's tool calls (duration.go), put by the   *)
(* hook before a call and taken by the hook after it (ThreadDuration of    *)
(* engine.go).  A call is named by itself; its start time is written as    *)
(* the call.  A record's file name is the key of its call, and calls may   *)
(* share one: the same operation tried again by a host that gives no id.   *)
(***************************************************************************)
EXTENDS Naturals

CONSTANTS
  Tool,          \* tool calls of the session
  Operation,     \* tool name, file, function and operation id of a call
  OperationOf,
  Invocation,    \* invocation ids
  InvocationOf,  \* the id the host gave the call, or NoInvocation
  NoInvocation,
  NoTool

ASSUME StashAssumption ==
  /\ OperationOf \in [Tool -> Operation]
  /\ InvocationOf \in [Tool -> Invocation \cup {NoInvocation}]
  /\ NoTool \notin Tool
  \* the host gives an id to one call
  /\ \A t, u \in Tool : InvocationOf[t] = InvocationOf[u] => t = u \/ InvocationOf[t] = NoInvocation

\* Mutant: the id of the invocation is left out.
ToolCallStartKeyShared(t) == <<OperationOf[t], NoInvocation>>

\* The same for the started and the completed event of a call.
ToolCallStartKey(t) == <<OperationOf[t], InvocationOf[t]>>
Keys == {ToolCallStartKey(t) : t \in Tool}

VARIABLES
  record,        \* record file per key: the call whose start it holds, or NoTool
  stashDir,      \* the session's directory exists
  tpc,           \* where each call and its two hooks are
  startedAt,     \* start time of each completed event, named by its call
  put,           \* calls whose start was recorded, and not swept since
  crossed        \* calls another call of their key was in flight with

stashVars == <<record, stashDir, tpc, startedAt, put, crossed>>

StashTypeOK ==
  /\ record \in [Keys -> Tool \cup {NoTool}] /\ stashDir \in BOOLEAN
  /\ tpc \in [Tool -> {"new", "temp", "running", "taken", "over"}]
  /\ startedAt \in [Tool -> Tool \cup {NoTool}]
  /\ put \subseteq Tool /\ crossed \subseteq Tool

StashInit ==
  /\ record = [k \in Keys |-> NoTool] /\ stashDir = FALSE
  /\ tpc = [t \in Tool |-> "new"]
  /\ startedAt = [t \in Tool |-> NoTool]
  /\ put = {} /\ crossed = {}

At(t, here, there) == tpc[t] = here /\ tpc' = [tpc EXCEPT ![t] = there]
Rivals(t) == {u \in Tool \ {t} : /\ ToolCallStartKey(u) = ToolCallStartKey(t)
                                 /\ tpc[u] \notin {"new", "over"}}

\* PutStart up to the temporary file.
WriteTemp(t) ==
  /\ At(t, "new", "temp")
  /\ stashDir' = TRUE
  /\ crossed' = IF Rivals(t) = {} THEN crossed ELSE crossed \cup Rivals(t) \cup {t}
  /\ UNCHANGED <<record, startedAt, put>>

\* The rename; the directory may be gone with the temporary file in it.
PutStart(t) ==
  /\ At(t, "temp", "running")
  /\ IF stashDir THEN /\ record' = [record EXCEPT ![ToolCallStartKey(t)] = t]
                      /\ put' = put \cup {t}
                 ELSE UNCHANGED <<record, put>>
  /\ UNCHANGED <<stashDir, startedAt, crossed>>

\* The disk is full or the hook is killed; the tool may run all the same.
PutFails(t) ==
  /\ At(t, "temp", "running")
  /\ UNCHANGED <<record, stashDir, startedAt, put, crossed>>

\* The gate denies the call, or the host never tells of its end.
NeverCompletes(t) ==
  /\ At(t, "running", "over")
  /\ UNCHANGED <<record, stashDir, startedAt, put, crossed>>

\* TakeStart reads ...
ReadStart(t) ==
  /\ At(t, "running", "taken")
  /\ startedAt' = [startedAt EXCEPT ![t] = record[ToolCallStartKey(t)]]
  /\ UNCHANGED <<record, stashDir, put, crossed>>

\* ... and removes, if there was something to read.
RemoveStart(t) ==
  /\ At(t, "taken", "over")
  /\ record' = IF startedAt[t] = NoTool THEN record
               ELSE [record EXCEPT ![ToolCallStartKey(t)] = NoTool]
  /\ UNCHANGED <<stashDir, startedAt, put, crossed>>

\* SessionEnd, after which a session may be resumed.
ClearStash ==
  /\ stashDir
  /\ record' = [k \in Keys |-> NoTool] /\ stashDir' = FALSE /\ put' = {}
  /\ UNCHANGED <<tpc, startedAt, crossed>>

StashNext ==
  \/ \E t \in Tool : \/ WriteTemp(t) \/ PutStart(t) \/ PutFails(t)
                     \/ NeverCompletes(t) \/ ReadStart(t) \/ RemoveStart(t)
  \/ ClearStash

StashSpec == StashInit /\ [][StashNext]_stashVars

-----------------------------------------------------------------------------
(***************************************************************************)
(* Properties                                                              *)
(***************************************************************************)

\* "The recovered start time lands on the right completed event" (duration.go): a
\* completed event carries no start but its own call's. Calls that share a key, for
\* want of an id, are the exception: while two of them are in flight, and for a call
\* whose own start could not be recorded.
OwnStart ==
  \A t \in Tool :
    startedAt[t] \in {NoTool, t}
      \/ (InvocationOf[t] = NoInvocation /\ (t \in crossed \/ t \notin put))
=============================================================================
