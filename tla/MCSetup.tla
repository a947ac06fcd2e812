------------------------------ MODULE MCSetup ------------------------------
(* Instances, for TLC, of what sets a machine up and what runs beside it:  *)
(* the configuration, the credentials, the installers and the approver,    *)
(* one at a time.                                                          *)
EXTENDS DevConfig, Approver, Credentials, LocalHooks, TLC

CONSTANTS q1, q2

VARIABLE part   \* the component this behaviour runs

MCvars == <<configVars, approverVars, credVars, installVars, part>>

MCInit == /\ ConfigInit /\ ApproverInit /\ CredentialsInit /\ InstallInit
          /\ part \in {"config", "approver", "credentials", "installer"}
          /\ ~exported                  \* InitCredentials.cfg has the other case
          \* what does not run has one first state
          /\ part # "config" => legacy = Absent /\ managed = Absent
          /\ part # "approver" => ~installed.org
          /\ part # "credentials" => coords.agent = Blank /\ Registered = {}
          /\ part # "installer" => hookfile["settings"] = NoHooks

Config    == /\ part = "config"
             /\ UNCHANGED <<approverVars, credVars, installVars, part>>
Approvals == /\ part = "approver"
             /\ UNCHANGED <<configVars, credVars, installVars, part>>
Secrets   == /\ part = "credentials"
             /\ UNCHANGED <<configVars, approverVars, installVars, part>>
Installs  == /\ part = "installer"
             /\ UNCHANGED <<configVars, approverVars, credVars, part>>

MCNext ==
  \/ \E c \in Command, u \in Updates : Config /\ StartCommand(c, u)
  \/ \E c \in Command : Config /\ MigrateLegacyConfig(c)
  \/ \E c \in Command : Config /\ Truncate(c)
  \/ \E c \in Command : Config /\ FillCopy(c)
  \/ \E c \in Command : Config /\ LoadPrior(c)
  \/ \E c \in Command : Config /\ WriteConfig(c)
  \/ \E c \in Command : Config /\ KillCommand(c)
  \/ \E s \in Edits : Config /\ EditByHand(s)
  \/ \E m \in Pushes : Config /\ PushManaged(m)
  \/ \E h \in Hook, e \in Envs : Config /\ Pin(h, e)
  \/ \E h \in Hook : Config /\ LoadManaged(h)
  \/ \E h \in Hook : Config /\ ManagedKeys(h)
  \/ \E h \in Hook : Config /\ LoadUser(h)
  \/ \E h \in Hook : Config /\ UserKeys(h)
  \/ \E h \in Hook : Config /\ ResolveCredentials(h)
  \/ \E h \in Hook, f \in Field : Config /\ ResolveFlag(h, f)
  \/ \E q \in Ask : Approvals /\ FileRequest(q)
  \/ \E q \in Ask : Approvals /\ ExpireRequest(q)
  \/ \E q \in Ask : Approvals /\ TakeRequest(q)
  \/ \E q \in Ask : Approvals /\ HumanFinds(q)
  \/ \E decide \in BOOLEAN : Approvals /\ StartRun(decide)
  \/ Approvals /\ Tick
  \/ Approvals /\ PollQueue
  \/ Approvals /\ EndPass
  \/ Approvals /\ JudgeRequest
  \/ Approvals /\ Withhold
  \/ Approvals /\ KillRun
  \/ \E says \in {"approve", "deny", "escalate"} : Approvals /\ HostAnswers(says)
  \/ \E ok \in BOOLEAN : Approvals /\ SendDecision(ok)
  \/ \E ok \in BOOLEAN : Approvals /\ AppendEvidence(ok)
  \/ \E act \in {"approve", "reject"} : Approvals /\ HumanDecides(act)
  \/ \E r \in Run : Secrets /\ StartRegister(r)
  \/ \E r \in Run : Secrets /\ StartInit(r)
  \/ \E r \in Run : Secrets /\ StartRotate(r)
  \/ \E r \in Run : Secrets /\ StartCollect(r)
  \/ \E r \in Run : Secrets /\ StepFails(r)
  \/ \E r \in Run : Secrets /\ ReuseLocal(r)
  \/ \E r \in Run : Secrets /\ NothingLocal(r)
  \/ \E r \in Run : Secrets /\ FindByName(r)
  \/ \E r \in Run : Secrets /\ Create(r)
  \/ \E r \in Run : Secrets /\ RotateAPIKey(r)
  \/ \E r \in Run : Secrets /\ RotateIdentity(r)
  \/ \E r \in Run : Secrets /\ WriteSecrets(r)
  \/ \E r \in Run : Secrets /\ WriteCoordinates(r)
  \/ \E r \in Run : Secrets /\ KillRunOf(r)
  \/ Secrets /\ EditCredfile
  \/ \E i \in Install : Installs /\ StartInstall(i)
  \/ \E i \in Install : Installs /\ ClaimInstallLock(i)
  \/ \E i \in Install : Installs /\ StatInstallLock(i)
  \/ \E i \in Install : Installs /\ ReclaimInstallLock(i)
  \/ \E i \in Install : Installs /\ PlaceEngineBinary(i)
  \/ \E i \in Install : Installs /\ ReadHooks(i)
  \/ \E i \in Install : Installs /\ WriteHooks(i)
  \/ \E i \in Install : Installs /\ ReleaseInstall(i)
  \/ \E i \in Install : Installs /\ InstallFails(i)
  \/ \E i \in Install : Installs /\ KillInstall(i)
  \/ \E e \in Engine : Installs /\ LockGoesStale(e)
  \/ \E f \in Files : Installs /\ TearFile(f)
  \/ \E f \in Files, ev \in Event : Installs /\ AddHandler(f, ev)
  \/ \E f \in Files, ev \in Event : Installs /\ RemoveHandler(f, ev)
  \/ \E f \in Files, ev \in Event : Installs /\ CopyHandler(f, ev)

MCSpec == MCInit /\ [][MCNext]_MCvars

\* Two settings: one a pointer, one a plain bool.
Both(c, f)  == [x \in Field |-> IF x = "content_capture" THEN c ELSE f]
MCDefault   == Both("on", "off")
MCUpdates   == {Both("off", "unset"), Both("on", "unset")}
MCEdits     == {Both("off", "off"), Both("unset", "on")}
MCPushes    == {Absent, [set |-> Both("on", "off"), locked |-> {"content_capture"}],
                [set |-> Both("off", "on"), locked |-> {}]}
MCLegacies  == {Absent, Both("off", "on")}
MCEnvs      == {Both("unset", "unset"), Both("off", "unset")}

\* A request the rules both deny and approve, and one for the host.
MCRules == [q \in Ask |-> IF q = q1 THEN {"deny", "approve"} ELSE {"consult"}]

\* An older engine with its gate and no watcher; a copied one beside a wrapper.
MCPrevious ==
  {[ev \in Event |-> <<[engine |-> "e1", does |-> "gate", shape |-> "old"]>>],
   [ev \in Event |-> <<Foreign("wrapped"), Ours("e1", "gate"), Ours("e1", "gate")>>]}

\* What tells states apart: the component that runs.
Running == <<part, CASE part = "config"      -> configVars
                     [] part = "approver"    -> approverVars
                     [] part = "credentials" -> credVars
                     [] part = "installer"   -> installVars>>

Alike == Permutations(Command) \cup Permutations(Run) \cup Permutations(Install)
=============================================================================
