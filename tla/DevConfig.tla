------------------------------ MODULE DevConfig ------------------------------
(***************************************************************************)
(* The developer configuration (adapters/common/devconfig): the file       *)
(* dev.json and its legacy place, the managed file of the organization,    *)
(* the environment of a hook, the commands that rewrite the file without   *)
(* a lock, and the hooks that resolve their flags from all of them.        *)
(*                                                                         *)
(* A file is Absent, Torn (it does not parse) or the settings in it.       *)
(***************************************************************************)
EXTENDS FiniteSets, Naturals

CONSTANTS
  Field,          \* boolean settings, by their JSON names
  Plain,          \* those that are a bool of DevConfig, not a pointer to one
  Default,        \* the built-in value of each
  Capture,        \* the field content_capture
  Command,        \* auth and init processes
  Updates,        \* what a command may supply (Update): [Field -> Setting]
  Edits,          \* what a developer may make of the file by hand
  Pushes,         \* managed files of the organization, [set, locked], or Absent
  Legacies,       \* files of the legacy directory
  Hook,           \* hook processes
  Envs,           \* their environments: [Field -> Setting]
  MaxEdits,       \* bound on commands, edits, pushes and kills
  Absent, Torn, None

Setting  == {"unset", "on", "off"}
Settings == [Field -> Setting]
NoSettings == [f \in Field |-> "unset"]

ASSUME ConfigAssumption ==
  /\ Plain \subseteq Field /\ Capture \in Field \ Plain
  /\ Default \in [Field -> {"on", "off"}] /\ Default[Capture] = "on"
  /\ Updates \subseteq Settings /\ Edits \subseteq Settings
  /\ Envs \subseteq Settings /\ Legacies \subseteq Settings \cup {Absent}
  /\ Pushes \subseteq [set : Settings, locked : SUBSET Field] \cup {Absent}
  /\ MaxEdits \in Nat
  /\ \A f \in Plain : Default[f] = "off"
  \* the three marks are no settings, managed file, set of keys or flag
  /\ \A x \in {Absent, Torn, None} :
       /\ x \notin Settings /\ x \notin [set : Settings, locked : SUBSET Field]
       /\ x \notin Setting /\ \A s \in SUBSET Field : s # x
  /\ Absent # Torn /\ None \notin {Absent, Torn}

VARIABLES
  legacy,         \* dev.json of the legacy directory; nobody writes it
  user,           \* dev.json of the OpenBox home
  managed,        \* /etc/openbox/dev.json
  cpc, held, supplied,  \* a command: its step, what it has read, what it was given
  hpc,            \* a hook: its step
  env,            \* its environment
  mfile, mkeys,   \* its view of the managed file: the settings, the keys present
  path, ufile, ukeys,   \* the same of dev.json, and where it reads it
  posture,        \* the flags it has resolved; None is not yet
  egress,         \* what its client makes of content; None is no client
  edits,
  choice,         \* the last explicit choice of the developer, per field
  disturbed,      \* writers of dev.json overlapped, or one was cut short
  wasOff,         \* fields some file or environment has had off
  pushed,         \* hooks in whose life the managed file was replaced
  apart           \* hooks whose client found another dev.json than their flags

configFileVars  == <<legacy, user, managed>>
cmdVars   == <<cpc, held, supplied>>
viewVars  == <<mfile, mkeys, path, ufile, ukeys>>
hookVars  == <<hpc, env, viewVars, posture, egress>>
ghostVars == <<choice, disturbed, wasOff, pushed, apart>>
configVars == <<configFileVars, cmdVars, hookVars, edits, ghostVars>>

ManagedFile == [set : Settings, locked : SUBSET Field] \cup {Absent, Torn}

ConfigTypeOK ==
  /\ legacy \in Settings \cup {Absent}
  /\ user \in Settings \cup {Absent, Torn} /\ managed \in ManagedFile
  /\ cpc \in [Command -> {"idle", "migrate", "copy", "fillcopy", "load",
                          "truncate", "fill"}]
  /\ held \in [Command -> Settings] /\ supplied \in [Command -> Settings]
  /\ hpc \in [Hook -> {"off", "pinned", "client"}] /\ env \in [Hook -> Settings]
  /\ mfile \in [Hook -> ManagedFile \cup {None}]
  /\ mkeys \in [Hook -> (SUBSET Field) \cup {None}]
  /\ path \in [Hook -> {"home", "legacy"}]
  /\ ufile \in [Hook -> Settings \cup {Torn, None}]
  /\ ukeys \in [Hook -> (SUBSET Field) \cup {None}]
  /\ posture \in [Hook -> [Field -> {"on", "off", None}]]
  /\ egress \in [Hook -> {"on", "off", None}]
  /\ edits \in 0..MaxEdits /\ choice \in Settings
  /\ disturbed \in BOOLEAN /\ wasOff \subseteq Field
  /\ pushed \subseteq Hook /\ apart \subseteq Hook

Offs(s) == {f \in Field : s[f] = "off"}
Keys(s) == {f \in Field : s[f] # "unset"}

ConfigInit ==
  /\ legacy \in Legacies /\ user = Absent /\ managed \in Pushes
  /\ cpc = [c \in Command |-> "idle"]
  /\ held = [c \in Command |-> NoSettings]
  /\ supplied = [c \in Command |-> NoSettings]
  /\ hpc = [h \in Hook |-> "off"] /\ env = [h \in Hook |-> NoSettings]
  /\ mfile = [h \in Hook |-> None] /\ mkeys = [h \in Hook |-> None]
  /\ path = [h \in Hook |-> "home"]
  /\ ufile = [h \in Hook |-> None] /\ ukeys = [h \in Hook |-> None]
  /\ posture = [h \in Hook |-> [f \in Field |-> None]]
  /\ egress = [h \in Hook |-> None]
  /\ edits = 0
  /\ choice = IF legacy = Absent THEN NoSettings ELSE legacy
  /\ disturbed = FALSE /\ pushed = {} /\ apart = {}
  /\ wasOff = (IF legacy = Absent THEN {} ELSE Offs(legacy))
              \cup (IF managed = Absent THEN {} ELSE Offs(managed.set))

Bounded == edits < MaxEdits /\ edits' = edits + 1
Writing == \E c \in Command : cpc[c] # "idle"

-----------------------------------------------------------------------------
(* auth and init: migrate, then read, overlay and write. *)

To(c, step) == cpc' = [cpc EXCEPT ![c] = step]

\* Every command that writes the configuration migrates first.
StartCommand(c, u) ==
  /\ cpc[c] = "idle" /\ Bounded
  /\ To(c, "migrate")
  /\ supplied' = [supplied EXCEPT ![c] = u]
  /\ disturbed' = (disturbed \/ Writing)
  /\ UNCHANGED <<configFileVars, held, hookVars, choice, wasOff, pushed, apart>>

\* Mutant: the presence of the new file is not looked at.
MigrateLegacyConfigAgain(c) ==
  /\ cpc[c] = "migrate"
  /\ IF legacy = Absent
     THEN To(c, "load") /\ held' = held
     ELSE To(c, "copy") /\ held' = [held EXCEPT ![c] = legacy]
  /\ UNCHANGED <<configFileVars, supplied, hookVars, edits, ghostVars>>

\* "Presence of the new file always wins", and of a torn one too.
MigrateLegacyConfig(c) ==
  /\ cpc[c] = "migrate"
  /\ IF user # Absent \/ legacy = Absent
     THEN To(c, "load") /\ held' = held
     ELSE To(c, "copy") /\ held' = [held EXCEPT ![c] = legacy]
  /\ UNCHANGED <<configFileVars, supplied, hookVars, edits, ghostVars>>

\* os.WriteFile truncates, then fills.
Truncate(c) ==
  /\ cpc[c] \in {"copy", "truncate"}
  /\ To(c, IF cpc[c] = "copy" THEN "fillcopy" ELSE "fill")
  /\ user' = Torn
  /\ UNCHANGED <<legacy, managed, held, supplied, hookVars, edits, ghostVars>>

\* What is in the file when another command filled it in between: one of the two,
\* or the longer one's tail behind the shorter one.
Filled(s) == IF user = Torn THEN {s} ELSE {s, Torn}

FillCopy(c) ==
  /\ cpc[c] = "fillcopy"
  /\ To(c, "load")
  /\ user' \in Filled(held[c])
  /\ UNCHANGED <<legacy, managed, held, supplied, hookVars, edits, ghostVars>>

\* Load: what does not parse is taken for an empty configuration.
LoadPrior(c) ==
  /\ cpc[c] = "load"
  /\ To(c, "truncate")
  /\ held' = [held EXCEPT ![c] = IF user \in {Absent, Torn} THEN NoSettings ELSE user]
  /\ UNCHANGED <<configFileVars, supplied, hookVars, edits, ghostVars>>

\* The overlay as it is marshalled: a plain bool that is false has no key.
Overlay(prior, u) ==
  [f \in Field |-> LET v == IF u[f] = "unset" THEN prior[f] ELSE u[f] IN
                   IF f \in Plain /\ v = "off" THEN "unset" ELSE v]

WriteConfig(c) ==
  /\ cpc[c] = "fill"
  /\ To(c, "idle")
  /\ user' \in Filled(Overlay(held[c], supplied[c]))
  /\ choice' = [f \in Field |-> IF supplied[c][f] = "unset" THEN choice[f]
                                ELSE supplied[c][f]]
  /\ wasOff' = wasOff \cup Offs(supplied[c])
  /\ held' = [held EXCEPT ![c] = NoSettings]
  /\ supplied' = [supplied EXCEPT ![c] = NoSettings]
  /\ UNCHANGED <<legacy, managed, hookVars, edits, disturbed, pushed, apart>>

\* Killed, or the disk is full.
KillCommand(c) ==
  /\ cpc[c] # "idle" /\ Bounded
  /\ To(c, "idle") /\ disturbed' = TRUE
  /\ held' = [held EXCEPT ![c] = NoSettings]
  /\ supplied' = [supplied EXCEPT ![c] = NoSettings]
  /\ UNCHANGED <<configFileVars, hookVars, choice, wasOff, pushed, apart>>

-----------------------------------------------------------------------------
(* The developer's editor, and the organization's push. *)

EditByHand(s) ==
  /\ Bounded
  /\ user' = s /\ choice' = s /\ wasOff' = wasOff \cup Offs(s)
  /\ disturbed' = (disturbed \/ Writing)
  /\ UNCHANGED <<legacy, managed, cmdVars, hookVars, pushed, apart>>

PushManaged(m) ==
  /\ m # managed /\ Bounded
  /\ managed' = m
  /\ wasOff' = wasOff \cup (IF m \in {Absent, Torn} THEN {} ELSE Offs(m.set))
  /\ pushed' = pushed \cup {h \in Hook : hpc[h] # "off"}
  /\ UNCHANGED <<legacy, user, cmdVars, hookVars, choice, disturbed, apart>>

-----------------------------------------------------------------------------
(* A hook: it pins its view of the files, resolves its flags, builds a client. *)

Pin(h, e) ==
  /\ hpc[h] = "off"
  /\ hpc' = [hpc EXCEPT ![h] = "pinned"]
  /\ env' = [env EXCEPT ![h] = e]
  /\ wasOff' = wasOff \cup Offs(e)
  /\ UNCHANGED <<configFileVars, cmdVars, viewVars, posture, egress, edits, choice,
                 disturbed, pushed, apart>>

reading(h) == hpc[h] = "pinned"

\* loadManagedUncached reads the file for the settings and, if it parses, once
\* more for the keys.
LoadManaged(h) ==
  /\ reading(h) /\ mfile[h] = None
  /\ mfile' = [mfile EXCEPT ![h] = managed]
  /\ mkeys' = [mkeys EXCEPT ![h] = IF managed \in {Absent, Torn} THEN {} ELSE None]
  /\ UNCHANGED <<configFileVars, cmdVars, hpc, env, path, ufile, ukeys, posture, egress,
                 edits, ghostVars>>

ManagedKeys(h) ==
  /\ reading(h) /\ mfile[h] # None /\ mkeys[h] = None
  /\ mkeys' = [mkeys EXCEPT ![h] = IF managed \in {Absent, Torn} THEN {}
                                    ELSE Keys(managed.set)]
  /\ UNCHANGED <<configFileVars, cmdVars, hpc, env, mfile, path, ufile, ukeys, posture,
                 egress, edits, ghostVars>>

\* resolveConfigPath: the legacy file while there is no other.
ConfigPath == IF user = Absent /\ legacy # Absent THEN "legacy" ELSE "home"
Content(p) == IF p = "legacy" THEN legacy ELSE user

\* What a hook that starts now finds of a field in dev.json.
Found(f) == LET now == Content(ConfigPath) IN
            IF now \in {Absent, Torn} THEN "unset" ELSE now[f]

\* Load, for which an absent file is an empty one.
LoadUser(h) ==
  /\ reading(h) /\ mkeys[h] # None /\ ufile[h] = None
  /\ path' = [path EXCEPT ![h] = ConfigPath]
  /\ ufile' = [ufile EXCEPT ![h] = IF Content(ConfigPath) = Absent THEN NoSettings
                                   ELSE Content(ConfigPath)]
  /\ UNCHANGED <<configFileVars, cmdVars, hpc, env, mfile, mkeys, ukeys, posture, egress,
                 edits, ghostVars>>

UserKeys(h) ==
  /\ reading(h) /\ ufile[h] # None /\ ukeys[h] = None
  /\ ukeys' = [ukeys EXCEPT ![h] = IF Content(path[h]) \in {Absent, Torn} THEN {}
                                    ELSE Keys(Content(path[h]))]
  /\ UNCHANGED <<configFileVars, cmdVars, hpc, env, mfile, mkeys, path, ufile, posture,
                 egress, edits, ghostVars>>

\* What a file says of a field whose key is present: nil for a pointer, and false
\* for a plain bool, if the settings were read without it.
Says(s, f) == IF s[f] = "unset" /\ f \in Plain THEN "off" ELSE s[f]

FromManaged(m, keys, f) ==
  IF m \in {Absent, Torn} \/ f \notin keys THEN "unset" ELSE Says(m.set, f)
FromUser(u, keys, f) ==
  IF u = Torn \/ f \notin keys THEN "unset" ELSE Says(u, f)

\* The first of a sequence of sources that has it set.
First(a, b, c, d) ==
  IF a # "unset" THEN a ELSE IF b # "unset" THEN b ELSE IF c # "unset" THEN c ELSE d

\* Mutant: the environment beats a mandate.
ResolveBoolEnvFirst(m, mk, u, uk, e, f) ==
  First(e[f], FromUser(u, uk, f), FromManaged(m, mk, f), Default[f])

\* resolveBoolWithSource.
ResolveBool(m, mk, u, uk, e, f) ==
  LET org == FromManaged(m, mk, f) IN
  IF org # "unset" /\ f \in m.locked THEN org
  ELSE First(e[f], FromUser(u, uk, f), org, Default[f])

\* Mutant: the view is not pinned, and the next flag reads again.
ResolveFlagUnpinned(h, f) ==
  /\ reading(h) /\ mkeys[h] # None /\ ukeys[h] # None /\ posture[h][f] = None
  /\ posture' = [posture EXCEPT ![h][f] =
                   ResolveBool(mfile[h], mkeys[h], ufile[h], ukeys[h], env[h], f)]
  /\ mfile' = [mfile EXCEPT ![h] = managed]
  /\ mkeys' = [mkeys EXCEPT ![h] = IF managed \in {Absent, Torn} THEN {}
                                    ELSE Keys(managed.set)]
  /\ UNCHANGED <<configFileVars, cmdVars, hpc, env, path, ufile, ukeys, egress, edits,
                 ghostVars>>

ResolveFlag(h, f) ==
  /\ reading(h) /\ mkeys[h] # None /\ ukeys[h] # None /\ posture[h][f] = None
  /\ posture' = [posture EXCEPT ![h][f] =
                   ResolveBool(mfile[h], mkeys[h], ufile[h], ukeys[h], env[h], f)]
  /\ UNCHANGED <<configFileVars, cmdVars, hpc, env, viewVars, egress, edits, ghostVars>>

\* EffectivePosture: every flag resolved.
Resolved(h) == \A f \in Field : posture[h][f] # None

\* ResolveCredentials reads dev.json again, past the pin, and no managed file; what
\* does not parse leaves the hook without a client.
ResolveCredentials(h) ==
  LET now == Content(ConfigPath) IN
  /\ reading(h) /\ Resolved(h)
  /\ hpc' = [hpc EXCEPT ![h] = "client"]
  /\ egress' = [egress EXCEPT ![h] =
       IF now = Torn THEN None
       ELSE First(env[h][Capture],
                  IF now = Absent THEN "unset" ELSE now[Capture], "unset", "on")]
  /\ apart' = IF ufile[h] # Torn /\ Found(Capture) = ufile[h][Capture] THEN apart
              ELSE apart \cup {h}
  /\ UNCHANGED <<configFileVars, cmdVars, env, viewVars, posture, edits, choice,
                 disturbed, wasOff, pushed>>

ConfigNext ==
  \/ \E c \in Command : \/ \E u \in Updates : StartCommand(c, u)
                        \/ MigrateLegacyConfig(c) \/ Truncate(c) \/ FillCopy(c)
                        \/ LoadPrior(c) \/ WriteConfig(c) \/ KillCommand(c)
  \/ \E s \in Edits : EditByHand(s)
  \/ \E m \in Pushes : PushManaged(m)
  \/ \E h \in Hook : \/ \E e \in Envs : Pin(h, e)
                     \/ LoadManaged(h) \/ ManagedKeys(h) \/ LoadUser(h)
                     \/ UserKeys(h) \/ ResolveCredentials(h)
                     \/ \E f \in Field : ResolveFlag(h, f)

ConfigSpec == ConfigInit /\ [][ConfigNext]_configVars

-----------------------------------------------------------------------------
(***************************************************************************)
(* Properties                                                              *)
(***************************************************************************)

\* "Nothing is lost by omission" (write.go): what the developer last chose of a
\* field, on the command line or by hand, before the upgrade or after, is what the
\* next hook finds, whatever commands ran since, unless two writers overlapped or
\* one was cut short. False of a plain bool is found as absent.
ChoiceKept ==
  ~disturbed /\ ~Writing =>
    \A f \in Field :
      \/ Found(f) = choice[f]
      \/ f \in Plain /\ choice[f] = "off" /\ Found(f) = "unset"

\* "An unreadable config enforces" (devconfig.go): torn files, interrupted writes
\* and reads across a rewrite turn no protection off: what is on by default is off
\* for a hook only if somebody, at some time, has chosen off.
OffOnlyByChoice ==
  \A h \in Hook : \A f \in Field \ wasOff :
    Default[f] = "on" => posture[h][f] # "off"

\* A mandate beats the developer's file and environment (managed.go): while the
\* managed file stays as it is, a hook resolves its locked fields as it says.
MandateHolds ==
  \A h \in Hook \ pushed :
    managed \notin {Absent, Torn} =>
      \A f \in managed.locked \cap Keys(managed.set) :
        posture[h][f] \in {None, managed.set[f]}

\* Two versions of a file: one for its settings, one for its keys.
Straddled(h) ==
  \/ mfile[h] \notin {Absent, Torn, None} /\ mkeys[h] # Keys(mfile[h].set)
  \/ ufile[h] \notin {Torn, None} /\ ukeys[h] # Keys(ufile[h])

OfOneView(h) ==
  mkeys[h] # None /\ ukeys[h] # None /\ ~Straddled(h) =>
    \A f \in Field :
      posture[h][f] \in {None,
        LET org == IF mfile[h] \in {Absent, Torn} THEN "unset" ELSE mfile[h].set[f] IN
        IF org # "unset" /\ f \in mfile[h].locked THEN org
        ELSE First(env[h][f], IF ufile[h] = Torn THEN "unset" ELSE ufile[h][f], org,
                   Default[f])}

\* "Capture and egress always agree" (mapper.go): the client strips the content of
\* an event exactly when the mapper was told not to capture it.
CaptureEgressAgree(h) ==
  hpc[h] = "client" /\ egress[h] # None => egress[h] = posture[h][Capture]

\* "One coherent view" (cache.go): the flags of a hook, resolved one after another
\* while both files change, are those of one version of each, provided neither
\* changed between the two reads of its load; and its client, which reads dev.json
\* once more, agrees with them if it found the same there, and the organization's
\* file, which it does not read, leaves the field alone.
OnePosture ==
  \A h \in Hook :
    /\ OfOneView(h)
    /\ /\ mfile[h] \notin {Torn, None}
       /\ mfile[h] # Absent => mfile[h].set[Capture] = "unset" /\ Capture \notin mkeys[h]
       /\ ~Straddled(h) /\ h \notin apart
       => CaptureEgressAgree(h)
=============================================================================
