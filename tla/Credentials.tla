----------------------------- MODULE Credentials -----------------------------
(***************************************************************************)
(* The credentials of a machine: `openbox auth` (auth.go, authrotate.go),  *)
(* the registration it runs (devinit.go) and the one `openbox init`        *)
(* reuses, over .env (the two secrets), dev.json (the coordinates) and the *)
(* control plane, which shows a secret once and kills the one before it.   *)
(*                                                                         *)
(* A secret is [agent, gen]: the server accepts the newest of an agent.    *)
(* Runs take no lock; each may fail or be killed between its steps.        *)
(***************************************************************************)
EXTENDS Naturals

CONSTANTS
  Agent,          \* agents the organization may come to have
  Run,            \* processes
  MaxCommands, MaxGen,    \* bounds on commands, and on issues of a secret
  Broken,         \* a credential file that does not parse
  Blank

Secret == [agent : Agent, gen : 1..MaxGen] \cup {Blank}

ASSUME CredentialsAssumption ==
  /\ MaxCommands \in Nat /\ MaxGen \in Nat \ {0} /\ Blank \notin Agent
  /\ Broken \notin [key : Secret, seed : Secret]

VARIABLES
  server,         \* per agent: registered, under the machine's own name, newest secrets
  credfile,       \* .env: the key and the seed in it, or Broken
  coords,         \* dev.json: agent id and DID (which is derived from the id)
  exported,       \* the environment holds a key and a seed
  rpc, kind, forced, inhand,  \* a run: its step, command, --force, what it has in hand
  alone,          \* no other run was alive in its life
  last,           \* the command that ended last
  spoilt,         \* some command failed, was killed, or was not alone
  commands

handVars  == <<rpc, kind, forced, inhand, alone>>
credVars == <<server, credfile, coords, exported, handVars, last, spoilt, commands>>

Kinds  == {"register", "rotate", "collect", "init"}
Empty  == [agent |-> Blank, did |-> Blank, key |-> Blank, seed |-> Blank, own |-> FALSE]
NewestIn(s, a) == [agent |-> a, did |-> a, own |-> FALSE,
                   key  |-> [agent |-> a, gen |-> s[a].key],
                   seed |-> [agent |-> a, gen |-> s[a].seed]]
Newest(a) == NewestIn(server, a)

CredentialsTypeOK ==
  /\ server \in [Agent -> [made : BOOLEAN, named : BOOLEAN,
                           key : 0..MaxGen, seed : 0..MaxGen]]
  /\ credfile \in [key : Secret, seed : Secret] \cup {Broken}
  /\ coords \in [agent : Agent \cup {Blank}, did : Agent \cup {Blank}]
  /\ exported \in BOOLEAN
  /\ rpc \in [Run -> {"off", "local", "find", "create", "key", "identity",
                      "secrets", "coords"}]
  /\ kind \in [Run -> Kinds] /\ forced \in [Run -> BOOLEAN] /\ alone \in [Run -> BOOLEAN]
  /\ inhand \in [Run -> [agent : Agent \cup {Blank}, did : Agent \cup {Blank},
                       key : Secret, seed : Secret, own : BOOLEAN]]
  /\ last \in [kind : Kinds, ok : BOOLEAN, alone : BOOLEAN]
  /\ spoilt \in BOOLEAN /\ commands \in 0..MaxCommands

\* A fresh machine; one set up; one whose secrets are gone.
CredentialsInit ==
  /\ \E old \in SUBSET Agent, own \in BOOLEAN :
       server = [a \in Agent |-> [made |-> a \in old, named |-> a \in old /\ own,
                                  key |-> IF a \in old THEN 1 ELSE 0,
                                  seed |-> IF a \in old THEN 1 ELSE 0]]
  /\ \/ /\ credfile = [key |-> Blank, seed |-> Blank]
        /\ \E a \in {x \in Agent : server[x].made} \cup {Blank} :
             coords = [agent |-> a, did |-> a]
     \/ \E a \in Agent :
          /\ server[a].made /\ coords = [agent |-> a, did |-> a]
          /\ credfile = [key |-> Newest(a).key, seed |-> Newest(a).seed]
  /\ exported \in BOOLEAN
  /\ rpc = [r \in Run |-> "off"] /\ kind = [r \in Run |-> "init"]
  /\ forced = [r \in Run |-> FALSE] /\ inhand = [r \in Run |-> Empty]
  /\ alone = [r \in Run |-> TRUE]
  /\ last = [kind |-> "init", ok |-> FALSE, alone |-> TRUE]
  /\ spoilt = FALSE /\ commands = 0

-----------------------------------------------------------------------------
Alive == {r \in Run : rpc[r] # "off"}
Registered == {a \in Agent : server[a].made}
NameTaken == \E a \in Agent : server[a].named
HasPair == credfile # Broken /\ credfile.key # Blank /\ credfile.seed # Blank

Goto(r, step) == rpc' = [rpc EXCEPT ![r] = step]

End(r, ok) ==
  /\ Goto(r, "off") /\ inhand' = [inhand EXCEPT ![r] = Empty]
  /\ last' = [kind |-> kind[r], ok |-> ok, alone |-> alone[r]]
  /\ spoilt' = (spoilt \/ ~ok \/ ~alone[r])
  /\ kind' = [kind EXCEPT ![r] = "init"] /\ forced' = [forced EXCEPT ![r] = FALSE]
  /\ alone' = [alone EXCEPT ![r] = TRUE]

Begin(r, k, step, given, force) ==
  /\ rpc[r] = "off" /\ commands < MaxCommands /\ commands' = commands + 1
  /\ credfile # Broken              \* both commands refuse a file they cannot read
  /\ Goto(r, step) /\ kind' = [kind EXCEPT ![r] = k]
  /\ inhand' = [inhand EXCEPT ![r] = given] /\ forced' = [forced EXCEPT ![r] = force]
  /\ alone' = [x \in Run |-> IF x = r THEN Alive = {}
                             ELSE alone[x] /\ x \notin Alive]
  /\ UNCHANGED <<server, credfile, coords, exported, last, spoilt>>

\* A blank agent id: register, whatever dev.json names.
StartRegister(r) == \E f \in BOOLEAN : Begin(r, "register", "local", Empty, f)

\* In the file, or in the environment.
RequireCredentials == HasPair \/ exported

StartInit(r) == RequireCredentials /\ Begin(r, "init", "local", Empty, FALSE)

\* The id is given or the one of dev.json; so is the DID.
StartRotate(r) ==
  \E a \in Registered, d \in {coords.did} \cup Agent :
    /\ d \in {coords.did, a}
    /\ Begin(r, "rotate", "key", [Empty EXCEPT !.agent = a, !.did = d], FALSE)

\* The developer pastes what the dashboard shows of an agent.
StartCollect(r) ==
  \E a \in Registered : Begin(r, "collect", "secrets", Newest(a), FALSE)

-----------------------------------------------------------------------------
(* The steps of a command.  One that fails there says so, and changes no   *)
(* more; an init has no registrar, and the look-up of its register panics. *)

Here == <<credfile, coords, exported, commands>>
Mine == <<kind, forced, alone, last, spoilt>>

StepFails(r) ==
  /\ rpc[r] \notin {"off", "local"} /\ End(r, FALSE)
  /\ UNCHANGED <<server, Here>>

\* Both secrets are in the file: reuse them, with the coordinates of dev.json.
ReuseLocal(r) ==
  /\ rpc[r] = "local" /\ HasPair
  /\ inhand' = [inhand EXCEPT ![r] = [Empty EXCEPT !.agent = coords.agent, !.did = coords.did]]
  /\ Goto(r, "coords") /\ UNCHANGED <<server, Here, Mine>>

\* Not both, or the file does not parse any more: that error is dropped.
NothingLocal(r) ==
  /\ rpc[r] = "local" /\ ~HasPair
  /\ Goto(r, "find") /\ UNCHANGED <<server, Here, Mine, inhand>>

\* The machine's own name is free, or --force finds another one.
FindByName(r) ==
  /\ rpc[r] = "find" /\ kind[r] = "register" /\ (NameTaken => forced[r])
  /\ inhand' = [inhand EXCEPT ![r].own = ~NameTaken]
  /\ Goto(r, "create") /\ UNCHANGED <<server, Here, Mine>>

\* The server makes the agent, unless the name is taken by now; the reply is
\* complete, or it is lost, or it lacks a secret.
Create(r) ==
  /\ rpc[r] = "create" /\ ~(inhand[r].own /\ NameTaken)
  /\ \E a \in Agent \ Registered :
       /\ server' = [server EXCEPT ![a] = [made |-> TRUE, named |-> inhand[r].own,
                                           key |-> 1, seed |-> 1]]
       /\ \/ /\ inhand' = [inhand EXCEPT ![r] = NewestIn(server', a)]
             /\ Goto(r, "secrets") /\ UNCHANGED Mine
          \/ End(r, FALSE)
  /\ UNCHANGED Here

\* A new key, and the one before it is dead; the reply may be lost.
RotateAPIKey(r) ==
  LET a == inhand[r].agent IN
  /\ rpc[r] = "key" /\ server[a].key < MaxGen
  /\ server' = [server EXCEPT ![a].key = @ + 1]
  /\ \/ /\ inhand' = [inhand EXCEPT ![r].key = NewestIn(server', a).key]
        /\ Goto(r, "identity") /\ UNCHANGED Mine
     \/ End(r, FALSE)
  /\ UNCHANGED Here

\* The DID of the reply is the agent's; it must be the one the run was given.
SameDid(r) == inhand[r].did \in {Blank, inhand[r].agent}

\* Mutant: an identity rotation that fails is not the end of the run.
RotateIdentityBestEffort(r) ==
  LET a == inhand[r].agent IN
  /\ rpc[r] = "identity" /\ server[a].seed < MaxGen
  /\ server' = [server EXCEPT ![a].seed = @ + 1]
  /\ SameDid(r)
  /\ \E s \in {NewestIn(server', a).seed} \cup
              (IF credfile = Broken THEN {} ELSE {credfile.seed}) :
       inhand' = [inhand EXCEPT ![r].seed = s, ![r].did = inhand[r].agent]
  /\ Goto(r, "secrets") /\ UNCHANGED <<Here, Mine>>

\* A new seed.  An unusable reply, or another DID, stops it before it writes.
RotateIdentity(r) ==
  LET a == inhand[r].agent IN
  /\ rpc[r] = "identity" /\ server[a].seed < MaxGen
  /\ server' = [server EXCEPT ![a].seed = @ + 1]
  /\ \/ /\ SameDid(r)
        /\ inhand' = [inhand EXCEPT ![r] = [NewestIn(server', a) EXCEPT !.key = inhand[r].key]]
        /\ Goto(r, "secrets") /\ UNCHANGED Mine
     \/ End(r, FALSE)
  /\ UNCHANGED Here

\* One rename of the pair; a file it cannot parse is left alone.
WriteEnvFile(k, s) == credfile # Broken /\ credfile' = [key |-> k, seed |-> s]

WriteSecrets(r) ==
  /\ rpc[r] = "secrets" /\ WriteEnvFile(inhand[r].key, inhand[r].seed)
  /\ Goto(r, "coords")
  /\ UNCHANGED <<server, coords, exported, commands, Mine, inhand>>

\* Mutant: a rotation keeps the agent and the DID, so it writes neither.
WriteCoordinatesOfNew(r) ==
  /\ rpc[r] = "coords"
  /\ coords' = IF kind[r] = "rotate" \/ inhand[r].agent = Blank THEN coords
               ELSE [agent |-> inhand[r].agent, did |-> inhand[r].did]
  /\ End(r, TRUE) /\ UNCHANGED <<server, credfile, exported, commands>>

\* The coordinates, a blank one left as it is.
WriteCoordinates(r) ==
  /\ rpc[r] = "coords"
  /\ coords' = [agent |-> IF inhand[r].agent = Blank THEN coords.agent ELSE inhand[r].agent,
                did   |-> IF inhand[r].did = Blank THEN coords.did ELSE inhand[r].did]
  /\ End(r, TRUE) /\ UNCHANGED <<server, credfile, exported, commands>>

KillRunOf(r) ==
  /\ rpc[r] # "off" /\ End(r, FALSE) /\ UNCHANGED <<server, Here>>

\* The developer edits .env, and makes a mistake, or mends it.
EditCredfile ==
  /\ credfile # Broken /\ commands < MaxCommands
  /\ credfile' = Broken /\ spoilt' = TRUE
  /\ UNCHANGED <<server, coords, exported, handVars, last, commands>>

CredentialsNext ==
  \/ \E r \in Run :
       \/ StartRegister(r) \/ StartInit(r) \/ StartRotate(r) \/ StartCollect(r)
       \/ StepFails(r) \/ ReuseLocal(r) \/ NothingLocal(r) \/ FindByName(r)
       \/ Create(r) \/ RotateAPIKey(r) \/ RotateIdentity(r)
       \/ WriteSecrets(r) \/ WriteCoordinates(r) \/ KillRunOf(r)
  \/ EditCredfile

CredentialsSpec == CredentialsInit /\ [][CredentialsNext]_credVars

-----------------------------------------------------------------------------
\* The server takes what .env holds, and dev.json names the same agent.
Works == \E a \in Registered :
  /\ credfile # Broken
  /\ credfile = [key |-> Newest(a).key, seed |-> Newest(a).seed]
  /\ coords = [agent |-> a, did |-> a]

\* A machine is not stranded without a word: while every command so far ran
\* alone and said success, the newest secrets are in .env beside the agent
\* they belong to (one atomic write of the pair, guards before any write).
\* An init that had its credentials from the environment is about no file.
NoSilentLoss ==
  (~spoilt /\ Alive = {} /\ last.ok /\ ~exported) => Works

\* A rotation that ran alone and said success repairs the machine, whatever
\* commands failed, were killed or overlapped before it (authrotate.go: the
\* recovery path for an agent whose credentials are gone).
RotationRecovers ==
  (Alive = {} /\ last.kind = "rotate" /\ last.ok /\ last.alone /\ credfile # Broken)
    => Works

\* Said of it at main.go:484 and scope.go:112: init makes no registration, and
\* the environment may hold the credentials.  So it never looks an agent up.
InitLooksNothingUp == \A r \in Run : ~(kind[r] = "init" /\ rpc[r] = "find")
=============================================================================
