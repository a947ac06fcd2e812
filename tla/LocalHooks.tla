----------------------------- MODULE LocalHooks -----------------------------
(***************************************************************************)
(* `openbox init` as an installer: the Claude Code one (installer.go,      *)
(* localhooks.go) places the engine under an install lock of its plugin    *)
(* directory and merges its hooks into a project's settings; the Codex one *)
(* (codex/installer.go) merges into hooks.json without a lock.             *)
(*                                                                         *)
(* Runs under different homes have different engines and different locks,  *)
(* and share the settings.  A file is Garbled or, per event, the handlers.    *)
(***************************************************************************)
EXTENDS Naturals, Sequences, FiniteSets

CONSTANTS
  Install,        \* processes
  Engine,         \* engine paths, one per home
  Event,          \* hook events
  Gating,         \* the event that has a watcher beside its gate
  Previous,       \* settings earlier releases have left
  MaxInstalls, MaxTouches,  \* bounds on runs, and on the developer's edits
  Garbled, NoEngine

Files   == {"settings", "codex"}
Handler == [engine : Engine, does : {"gate", "watch"}, shape : {"old", "new"}] \cup
           [engine : {NoEngine}, does : {"other", "wrapped"}, shape : {"old"}]
Ours(e, what)  == [engine |-> e, does |-> what, shape |-> "new"]
Foreign(what)  == [engine |-> NoEngine, does |-> what, shape |-> "old"]

ASSUME LocalHooksAssumption ==
  /\ Gating \in Event /\ MaxInstalls \in Nat /\ MaxTouches \in Nat
  /\ Previous \subseteq [Event -> Seq(Handler)]
  /\ NoEngine \notin Engine /\ Garbled \notin [Event -> Seq(Handler)]

VARIABLES
  hookfile,       \* per file: the handlers of each event, in order, or Garbled
  placed,         \* engine paths that hold an engine
  ilock,          \* per engine, .install.lock: "none", "fresh" or "stale"
  ipc, target, at, asread,  \* a run: its step, file, engine, and what it has read
  lone,           \* no other run and no edit since it started
  installs, touches,
  latest,         \* what the last run did, if nobody disturbed it and it said success
  yours,          \* per file and event, how many foreign handlers the developer has put there
  raced           \* files some merge of which was not lone

irunVars   == <<ipc, target, at, asread, lone>>
installVars == <<hookfile, placed, ilock, irunVars, installs, touches, latest, yours, raced>>

InstallTypeOK ==
  /\ hookfile \in [Files -> [Event -> Seq(Handler)] \cup {Garbled}]
  /\ asread \in [Install -> [Event -> Seq(Handler)]]
  /\ placed \subseteq Engine /\ ilock \in [Engine -> {"none", "fresh", "stale"}]
  /\ ipc \in [Install -> {"off", "claim", "stat", "reclaim", "place", "read", "write", "release"}]
  /\ target \in [Install -> Files] /\ at \in [Install -> Engine \cup {NoEngine}]
  /\ lone \in [Install -> BOOLEAN]
  /\ installs \in 0..MaxInstalls /\ touches \in 0..MaxTouches
  /\ latest \in [file : Files, engine : Engine \cup {NoEngine}]
  /\ yours \in [Files -> [Event -> Nat]] /\ raced \subseteq Files

ForeignIn(s) == Cardinality({p \in DOMAIN s : s[p].engine = NoEngine})
Disturbed == [file |-> "settings", engine |-> NoEngine]
NoHooks == [ev \in Event |-> <<>>]

InstallInit ==
  /\ hookfile \in [Files -> Previous \cup {NoHooks}] /\ hookfile["codex"] = NoHooks
  /\ placed = {e \in Engine : \E ev \in Event : \E p \in DOMAIN hookfile["settings"][ev] :
                                hookfile["settings"][ev][p].engine = e}
  /\ ilock = [e \in Engine |-> "none"]
  /\ ipc = [i \in Install |-> "off"] /\ target = [i \in Install |-> "settings"]
  /\ at = [i \in Install |-> NoEngine]
  /\ asread = [i \in Install |-> NoHooks] /\ lone = [i \in Install |-> TRUE]
  /\ installs = 0 /\ touches = 0 /\ raced = {}
  /\ latest = Disturbed
  /\ yours = [f \in Files |-> [ev \in Event |-> ForeignIn(hookfile[f][ev])]]

-----------------------------------------------------------------------------
(* The merges. *)

\* What is left of a sequence when the elements at positions K are kept, in order.
Nth(K, n) == CHOOSE p \in K : Cardinality({q \in K : q <= p}) = n
Keeping(s, K) == [n \in 1..Cardinality(K) |-> s[Nth(K, n)]]

\* Mutant: ours is a command that has an invocation of ours in it.
OwnedIfContained(h) == h.does # "other"

\* Ours is a command that is nothing but one engine and one invocation.
Owned(h) == h.engine # NoEngine

\* Ours at another engine go, and a second copy of an invocation at this one.
SweepStale(s, e) ==
  Keeping(s, {p \in DOMAIN s : \/ ~Owned(s[p])
                               \/ s[p].engine = e /\ ~\E q \in 1..(p - 1) :
                                    s[q].engine = e /\ s[q].does = s[p].does})

HasLocalHook(s, e) == \E p \in DOMAIN s : s[p].engine = e /\ s[p].does = "gate"

\* Mutant: what is ours already is left as it is.
ReconciledNot(s, e) == s

Reconciled(s, e) == [p \in DOMAIN s |-> IF s[p].engine = e THEN Ours(e, s[p].does) ELSE s[p]]

Merged(s, ev, e) ==
  LET swept == SweepStale(s, e) IN
  IF HasLocalHook(swept, e) THEN Reconciled(swept, e)
  ELSE swept \o <<Ours(e, "gate")>> \o
       (IF ev = Gating THEN <<Ours(e, "watch")>> ELSE <<>>)

\* Codex: all of ours go, and the new one is the last.
MergeEvent(s, e) ==
  Keeping(s, {p \in DOMAIN s : ~Owned(s[p])}) \o <<Ours(e, "gate")>>

-----------------------------------------------------------------------------
(* A run. *)

Step(i, to) == ipc' = [ipc EXCEPT ![i] = to]

Rest == <<target, at, lone, installs, touches, latest, yours>>

EndRun(i, ok) ==
  /\ Step(i, "off") /\ asread' = [asread EXCEPT ![i] = NoHooks]
  /\ latest' = IF ok /\ lone[i] THEN [file |-> target[i], engine |-> at[i]] ELSE Disturbed
  /\ target' = [target EXCEPT ![i] = "settings"] /\ at' = [at EXCEPT ![i] = NoEngine]
  /\ lone' = [lone EXCEPT ![i] = TRUE] /\ UNCHANGED <<installs, touches, yours>>

StartInstall(i) ==
  /\ ipc[i] = "off" /\ installs < MaxInstalls /\ installs' = installs + 1
  /\ \E f \in Files, e \in Engine :
       /\ target' = [target EXCEPT ![i] = f] /\ at' = [at EXCEPT ![i] = e]
       /\ Step(i, IF f = "settings" THEN "claim" ELSE "read")
  /\ lone' = [j \in Install |-> IF j = i THEN \A k \in Install : ipc[k] = "off"
                                ELSE lone[j] /\ ipc[j] = "off"]
  /\ UNCHANGED <<hookfile, placed, ilock, asread, touches, latest, yours, raced>>

\* The exclusive create.  (One that cannot be created at all is not modelled.)
ClaimInstallLock(i) ==
  /\ ipc[i] = "claim"
  /\ IF ilock[at[i]] = "none"
     THEN ilock' = [ilock EXCEPT ![at[i]] = "fresh"] /\ Step(i, "place")
     ELSE ilock' = ilock /\ Step(i, "stat")
  /\ UNCHANGED <<hookfile, placed, asread, raced, Rest>>

\* A fresh lock refuses; one that has vanished, or is stale, does not.
StatInstallLock(i) ==
  /\ ipc[i] = "stat"
  /\ \/ ilock[at[i]] = "fresh" /\ EndRun(i, FALSE)
     \/ ilock[at[i]] = "none" /\ Step(i, "place") /\ UNCHANGED <<asread, Rest>>
     \/ ilock[at[i]] = "stale" /\ Step(i, "reclaim") /\ UNCHANGED <<asread, Rest>>
  /\ UNCHANGED <<hookfile, placed, ilock, raced>>

ReclaimInstallLock(i) ==
  /\ ipc[i] = "reclaim"
  /\ \/ /\ ilock[at[i]] # "none" /\ Step(i, "place")
        /\ ilock' = [ilock EXCEPT ![at[i]] = "fresh"] /\ UNCHANGED <<asread, Rest>>
     \/ ilock[at[i]] = "none" /\ EndRun(i, FALSE) /\ UNCHANGED ilock
  /\ UNCHANGED <<hookfile, placed, raced>>

\* Mutant: hooks first, the engine after them.
PlaceEngineLater(i) ==
  /\ ipc[i] = "place" /\ Step(i, "read")
  /\ UNCHANGED <<hookfile, placed, ilock, asread, raced, Rest>>

\* The bundle, the engine (one rename) and dev.json.
PlaceEngineBinary(i) ==
  /\ ipc[i] = "place" /\ placed' = placed \cup {at[i]} /\ Step(i, "read")
  /\ UNCHANGED <<hookfile, ilock, asread, raced, Rest>>

\* A file that does not parse is refused.
ReadHooks(i) ==
  /\ ipc[i] = "read" /\ hookfile[target[i]] # Garbled
  /\ asread' = [asread EXCEPT ![i] = hookfile[target[i]]] /\ Step(i, "write")
  /\ UNCHANGED <<hookfile, placed, ilock, raced, Rest>>

\* One rename of the whole file, as it was read and merged.
WriteHooks(i) ==
  LET f == target[i]  e == at[i] IN
  /\ ipc[i] = "write"
  /\ hookfile' = [hookfile EXCEPT ![f] = [ev \in Event |->
       IF f = "codex" THEN MergeEvent(asread[i][ev], e) ELSE Merged(asread[i][ev], ev, e)]]
  /\ raced' = IF lone[i] THEN raced ELSE raced \cup {f}
  /\ Step(i, "release")
  /\ UNCHANGED <<placed, ilock, asread, Rest>>

\* The deferred remove of the lock, whoever's it is by now.
ReleaseInstall(i) ==
  /\ ipc[i] = "release"
  /\ ilock' = IF target[i] = "settings" THEN [ilock EXCEPT ![at[i]] = "none"] ELSE ilock
  /\ EndRun(i, TRUE) /\ UNCHANGED <<hookfile, placed, raced>>

\* A step fails: the run removes the lock and says so.
InstallFails(i) ==
  /\ ipc[i] \in {"place", "read", "write"}
  /\ ilock' = IF target[i] = "settings" THEN [ilock EXCEPT ![at[i]] = "none"] ELSE ilock
  /\ EndRun(i, FALSE) /\ UNCHANGED <<hookfile, placed, raced>>

KillInstall(i) ==
  /\ ipc[i] # "off" /\ EndRun(i, FALSE)
  /\ UNCHANGED <<hookfile, placed, ilock, raced>>

\* More than installLockStale passes over a lock nobody touches.
LockGoesStale(e) ==
  /\ ilock[e] = "fresh" /\ ilock' = [ilock EXCEPT ![e] = "stale"]
  /\ UNCHANGED <<hookfile, placed, irunVars, installs, touches, latest, yours, raced>>

-----------------------------------------------------------------------------
(* The developer edits a file by hand. *)

Touch(f, ev, s) ==
  /\ hookfile[f] # Garbled /\ touches < MaxTouches /\ touches' = touches + 1
  /\ hookfile' = [hookfile EXCEPT ![f][ev] = s]
  /\ yours' = [yours EXCEPT ![f][ev] = ForeignIn(s)]
  /\ lone' = [i \in Install |-> lone[i] /\ ipc[i] = "off"]
  /\ latest' = Disturbed
  /\ UNCHANGED <<placed, ilock, ipc, target, at, asread, installs, raced>>

AddHandler(f, ev) == hookfile[f] # Garbled /\ \E what \in {"other", "wrapped"} :
  Touch(f, ev, Append(hookfile[f][ev], Foreign(what)))

RemoveHandler(f, ev) == hookfile[f] # Garbled /\ \E p \in DOMAIN hookfile[f][ev] :
  Touch(f, ev, SubSeq(hookfile[f][ev], 1, p - 1) \o
               SubSeq(hookfile[f][ev], p + 1, Len(hookfile[f][ev])))

CopyHandler(f, ev) == hookfile[f] # Garbled /\ \E p \in DOMAIN hookfile[f][ev] :
  Touch(f, ev, Append(hookfile[f][ev], hookfile[f][ev][p]))

TearFile(f) ==
  /\ hookfile[f] # Garbled /\ touches < MaxTouches /\ touches' = touches + 1
  /\ hookfile' = [hookfile EXCEPT ![f] = Garbled]
  /\ lone' = [i \in Install |-> lone[i] /\ ipc[i] = "off"]
  /\ latest' = Disturbed
  /\ UNCHANGED <<placed, ilock, ipc, target, at, asread, installs, yours, raced>>

InstallNext ==
  \/ \E i \in Install :
       \/ StartInstall(i) \/ ClaimInstallLock(i) \/ StatInstallLock(i)
       \/ ReclaimInstallLock(i) \/ PlaceEngineBinary(i) \/ ReadHooks(i)
       \/ WriteHooks(i) \/ ReleaseInstall(i) \/ InstallFails(i) \/ KillInstall(i)
  \/ \E e \in Engine : LockGoesStale(e)
  \/ \E f \in Files : TearFile(f) \/ \E ev \in Event :
       AddHandler(f, ev) \/ RemoveHandler(f, ev) \/ CopyHandler(f, ev)

InstallSpec == InstallInit /\ [][InstallNext]_installVars

-----------------------------------------------------------------------------
OursIn(s, what) == {p \in DOMAIN s : Owned(s[p]) /\ s[p].does = what}

\* What doctor says of the settings: the engines that are ours in it, and the
\* events that hold an invocation more than once.
AuditLocalHooks(hooks) ==
  [engines    |-> UNION {{hooks[ev][p].engine : p \in {q \in DOMAIN hooks[ev] : Owned(hooks[ev][q])}}
                          : ev \in Event},
   duplicates |-> {ev \in Event : \E what \in {"gate", "watch"} :
                     Cardinality(OursIn(hooks[ev], what)) > 1}]

\* A run that nobody disturbed and that said success.
Settled == latest # Disturbed /\ \A i \in Install : ipc[i] = "off"

\* It leaves every event gated once, at its engine and in the shape of this
\* release, whatever earlier releases, homes and edits had left in the file; so
\* doctor, which reads the same file, finds that engine and no other.
GatedOnceHere == Settled =>
  /\ \A ev \in Event : LET s == hookfile[latest.file][ev] IN
       \E p \in DOMAIN s : OursIn(s, "gate") = {p} /\ s[p] = Ours(latest.engine, "gate")
  /\ AuditLocalHooks(hookfile[latest.file]).engines = {latest.engine}

\* No merge loses or multiplies a developer's own handler, unless another
\* writer came between its read and its rename.
ForeignKept == \A f \in Files \ raced : hookfile[f] # Garbled =>
  \A ev \in Event : ForeignIn(hookfile[f][ev]) = yours[f][ev]

\* Wherever a run is cut short, hooks name an engine that is there.
EngineBeforeHooks == hookfile["settings"] # Garbled =>
  \A ev \in Event : \A p \in DOMAIN hookfile["settings"][ev] :
    hookfile["settings"][ev][p].engine \in placed \cup {NoEngine}

\* Said at localhooks.go:141: the watcher rides alongside the gate, and at 460:
\* a re-init never duplicates, which doctor would report.
WatcherBesideGate == (Settled /\ latest.file = "settings") =>
  /\ OursIn(hookfile["settings"][Gating], "watch") # {}
  /\ AuditLocalHooks(hookfile["settings"]).duplicates = {}
=============================================================================
