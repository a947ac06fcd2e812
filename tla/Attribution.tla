---------------------------- MODULE Attribution ----------------------------
(***************************************************************************)
(* How a commit comes to name the sessions that made it                    *)
(* (src/adapters/common/git).                                              *)
(*                                                                         *)
(* Every hook of a session touches the session's record in the registry;   *)
(* SessionEnd removes it.  git runs two hooks of this package around a     *)
(* commit: prepare-commit-msg resolves the sessions in scope and writes    *)
(* them into the message, post-commit resolves them AGAIN, looks up HEAD   *)
(* and mirrors them in a note, then looks HEAD up once more and signs an   *)
(* attestation.  The index lock covers prepare-commit-msg and the creation *)
(* of the commit, which are one step here; it is released before           *)
(* post-commit, so commits of two processes in one worktree interleave.    *)
(*                                                                         *)
(* A message is the set of sessions its OpenBox-Session lines name (text)  *)
(* and the part of it that git's trailer parser sees (block).  Lines come  *)
(* in from elsewhere: a commit of another worktree is picked, rebased or   *)
(* amended here, and anyone may write any line by hand.  Commits are       *)
(* numbered in the order they are made; 0 is the commit all worktrees      *)
(* start from.                                                             *)
(***************************************************************************)
EXTENDS Integers, FiniteSets

CONSTANTS
  Session, Worktree, Committer,
  Nested,       \* <<v, w>>: the directory of worktree v lies beneath that of w
  Outside,      \* a working directory in no worktree
  Garbage,      \* a value ValidateSessionID rejects
  NoId,         \* CODEX_THREAD_ID is not set
  Envs,         \* the environments a git process may run in
  MaxCommits, MaxTouches

Env   == [thread : Session \cup {Garbage, NoId}, named : SUBSET (Session \cup {Garbage})]
NoEnv == [thread |-> NoId, named |-> {}]

ASSUME AttributionAssumption ==
  /\ Garbage \notin Session /\ NoId \notin Session /\ Garbage # NoId
  /\ Nested \subseteq Worktree \X Worktree /\ Outside \notin Worktree
  /\ Envs \subseteq Env /\ NoEnv \in Envs
  /\ MaxCommits \in Nat /\ MaxTouches \in Nat

Commit  == 1..MaxCommits
Base    == 0
Commits == Base..MaxCommits

NoRecord == [tree |-> Outside, at |-> 0]
NoAtt    == [commit |-> Base, sessions |-> {}]

VARIABLES
  rec, now, cutoff,           \* the registry, its clock, and the oldest fresh time
  n,                          \* how many commits there are
  head,                       \* HEAD of each worktree
  tree, first, anc, merge,    \* of a commit: where it was made, parent, ancestors
  block, text,                \* ... and its message
  from,                       \* ... the rewritten commits whose notes git may copy
  note, att,                  \* refs/notes/openbox and refs/notes/openbox-attest
  pc, place, env, found,      \* of a committer: its step, worktree, environment, sessions
  visited, named,             \* history: who worked, and who was named, in a worktree
  signed,                     \* history: what was signed
  brought,                    \* history: lines in a commit from elsewhere or by hand
  homes,                      \* history: worktrees a commit, or its copied note, was in
  stamped, owed               \* history: stamped commits, and whom hooks found for one

registryVars == <<rec, now, cutoff>>
commitVars   == <<n, tree, first, anc, merge, block, text, brought, stamped, owed>>
notesVars    == <<note, att, signed>>
hookVars     == <<pc, place, env, found>>
headVars     == <<head, homes>>
vars == <<registryVars, commitVars, headVars, from, notesVars, hookVars, visited, named>>

(***************************************************************************)
(* Every variable has its type: in particular nothing but a well-formed id *)
(* ever gets into a message, a note or an attestation (trailer.go:239).    *)
(***************************************************************************)
TypeOK ==
  /\ rec \in [Session -> [tree : Worktree \cup {Outside}, at : 0..MaxTouches]]
  /\ now \in 0..MaxTouches /\ cutoff \in 0..(MaxTouches + 1)
  /\ n \in Commits
  /\ head \in [Worktree -> Commits]
  /\ tree \in [Commit -> Worktree \cup {Outside}]
  /\ first \in [Commits -> Commits]
  /\ anc \in [Commits -> SUBSET Commits]
  /\ merge \subseteq Commit
  /\ block \in [Commits -> SUBSET Session] /\ text \in [Commits -> SUBSET Session]
  /\ from \in [Commit -> SUBSET Commit]
  /\ note \in [Commits -> SUBSET Session]
  /\ att \in [Commits -> [commit : Commits, sessions : SUBSET Session]]
  /\ signed \subseteq Commits \X Session
  /\ pc \in [Committer -> {"idle", "post", "attest"}]
  /\ place \in [Committer -> Worktree \cup {Outside}]
  /\ env \in [Committer -> Env]
  /\ found \in [Committer -> SUBSET Session]
  /\ visited \in [Worktree -> SUBSET Session] /\ named \in [Worktree -> SUBSET Session]
  /\ brought \in [Commit -> SUBSET Session] /\ owed \in [Commit -> SUBSET Session]
  /\ homes \in [Commits -> SUBSET Worktree]
  /\ stamped \subseteq Commit

Init ==
  /\ rec = [s \in Session |-> NoRecord] /\ now = 0 /\ cutoff = 1
  /\ n = 0
  /\ head = [w \in Worktree |-> Base]
  /\ tree = [c \in Commit |-> Outside]
  /\ first = [c \in Commits |-> Base]
  /\ anc = [c \in Commits |-> IF c = Base THEN {Base} ELSE {}]
  /\ merge = {}
  /\ block = [c \in Commits |-> {}] /\ text = [c \in Commits |-> {}]
  /\ from = [c \in Commit |-> {}]
  /\ note = [c \in Commits |-> {}] /\ att = [c \in Commits |-> NoAtt]
  /\ signed = {}
  /\ pc = [k \in Committer |-> "idle"]
  /\ place = [k \in Committer |-> Outside]
  /\ env = [k \in Committer |-> NoEnv]
  /\ found = [k \in Committer |-> {}]
  /\ visited = [w \in Worktree |-> {}] /\ named = [w \in Worktree |-> {}]
  /\ brought = [c \in Commit |-> {}] /\ owed = [c \in Commit |-> {}]
  /\ homes = [c \in Commits |-> IF c = Base THEN Worktree ELSE {}]
  /\ stamped = {}

-----------------------------------------------------------------------------
(***************************************************************************)
(* The registry                                                            *)
(***************************************************************************)

\* Any hook of session s but SessionEnd, in working directory d.  A late hook
\* of a session that has ended brings its record back.
WriteSessionRecord(s, d) ==
  /\ now < MaxTouches
  /\ now' = now + 1
  /\ rec' = [rec EXCEPT ![s] = [tree |-> d, at |-> now + 1]]
  /\ visited' = [w \in Worktree |-> IF w = d THEN visited[w] \cup {s} ELSE visited[w]]
  /\ UNCHANGED <<cutoff, commitVars, headVars, from, notesVars, hookVars, named>>

\* SessionEnd.
RemoveSessionRecord(s) ==
  /\ rec[s].at > 0
  /\ rec' = [rec EXCEPT ![s] = NoRecord]
  /\ UNCHANGED <<now, cutoff, commitVars, headVars, from, notesVars, hookVars, visited, named>>

\* Records older than the TTL stop counting.
RecordsAge ==
  /\ \E t \in (cutoff + 1)..(now + 1) : cutoff' = t
  /\ UNCHANGED <<rec, now, commitVars, headVars, from, notesVars, hookVars, visited, named>>

Fresh(s) == rec[s].at > 0 /\ rec[s].at >= cutoff

\* Mutant: the freshest session anywhere.
FreshestAnywhere(w) ==
  {s \in Session : /\ Fresh(s)
                   /\ \A r \in Session : Fresh(r) => rec[r].at <= rec[s].at}

\* withinWorktree: the worktree itself and what lies beneath it.
Within(w) == {w} \cup {v \in Worktree : <<v, w>> \in Nested}

\* resolveFromRegistry: the freshest live session within the worktree, if any.
Freshest(w) ==
  LET Live(s) == Fresh(s) /\ rec[s].tree \in Within(w)
  IN  {s \in Session : Live(s) /\ \A r \in Session : Live(r) => rec[r].at <= rec[s].at}

\* Resolve: the thread id Codex sets wins outright, be it valid or not; then what
\* OPENBOX_SESSION names; then the registry.
Resolve(w, e) ==
  CASE e.thread # NoId -> {e.thread}
    [] e.thread = NoId /\ e.named # {} -> e.named
    [] OTHER -> Freshest(w)

\* validSessionIDs.
Valid(ids) == ids \ {Garbage}

-----------------------------------------------------------------------------
(***************************************************************************)
(* Making a commit                                                         *)
(***************************************************************************)

\* The session lines a message made of the messages of M starts with.
Lines(M) == UNION {text[q] : q \in M}

\* The trailer parser sees the block at the end of the last message only.
LastBlock(M) ==
  UNION {block[q] : q \in {p \in M : \A o \in M : o <= p}}

\* Mutant: interpret-trailers alone, without the harvest.
StampedAtEnd(M, seen, ids) == Valid(LastBlock(M) \cup seen \cup ids)

\* StampMessageFile: every session line of the message, wherever it is, and the
\* resolved ids end up in the trailing block.
Stamped(M, seen, ids) == Valid(Lines(M) \cup seen \cup ids)

\* The message of the next commit, made in worktree w and environment e out of
\* the messages of M and of lines written by hand, H: stamped by the hook, which
\* sees the lines of -m, -F or a template but not those of the editor; as git
\* wrote it, where the hook is not installed or failed; or with its session lines
\* deleted in the editor.  The sessions owed to it are those the hook found, for
\* it or for a commit whose message went into it.
Message(w, e, M, H) ==
  LET c == n + 1
      ids == Resolve(w, e)
      Put(b, t) == /\ block' = [block EXCEPT ![c] = b]
                   /\ text' = [text EXCEPT ![c] = t]
      Owe(o)    == owed' = [owed EXCEPT ![c] = o]
      before    == UNION {owed[q] : q \in M}
  IN  \/ /\ \E seen \in {{}, H} : LET b == Stamped(M, seen, ids)
                                  IN  Put(b, Lines(M) \cup b \cup H)
         /\ Owe(before \cup Valid(ids))
         /\ stamped' = stamped \cup {c}
      \/ /\ \E b \in {LastBlock(M), LastBlock(M) \cup H} : Put(b, Lines(M) \cup H)
         /\ Owe(before)
         /\ UNCHANGED stamped
      \/ Put({}, {}) /\ Owe({}) /\ UNCHANGED stamped

\* What the lines of M bring into worktree w that no commit made there found.
Foreign(w, M) ==
  UNION {IF tree[q] = w THEN brought[q] ELSE text[q] : q \in M}

\* Committer k makes the next commit in worktree w, on parent p and, if it is a
\* merge, on q; its message is made of those of M and of lines by hand, H, and it
\* replaces the commits of R.
MakeCommit(k, w, p, q, M, H, R) ==
  LET c == n + 1 IN
  /\ pc[k] = "idle" /\ n < MaxCommits
  /\ n' = c
  /\ head' = [head EXCEPT ![w] = c]
  /\ homes' = [homes EXCEPT ![c] = @ \cup {w}]
  /\ tree' = [tree EXCEPT ![c] = w]
  /\ first' = [first EXCEPT ![c] = p]
  /\ anc' = [anc EXCEPT ![c] = {c} \cup anc[p] \cup anc[q]]
  /\ merge' = IF p = q THEN merge ELSE merge \cup {c}
  /\ brought' = [brought EXCEPT ![c] = H \cup Foreign(w, M)]
  /\ from' = [from EXCEPT ![c] = R]
  /\ pc' = [pc EXCEPT ![k] = "post"]
  /\ place' = [place EXCEPT ![k] = w]
  /\ \E e \in Envs :
       /\ Message(w, e, M, H)
       /\ env' = [env EXCEPT ![k] = e]
       /\ named' = [named EXCEPT ![w] = @ \cup ((e.named \cup {e.thread}) \cap Session)]
  /\ UNCHANGED <<registryVars, notesVars, found, visited>>

\* A new message on top of HEAD.
CommitNew(k, w, H) == MakeCommit(k, w, head[w], head[w], {}, H, {})

\* A commit made anywhere is picked onto HEAD; a rebase also replaces it.
CherryPick(k, w, c, H) ==
  /\ c \in 1..n /\ c \notin merge
  /\ \E R \in {{}, {c}} : MakeCommit(k, w, head[w], head[w], {c}, H, R)

\* HEAD, wherever it was made, is replaced: --amend or a reword, keeping its
\* message or with a new one (-m).
Amend(k, w, H) ==
  LET c == head[w] IN
  /\ c # Base /\ c \notin merge
  /\ \E M \in {{c}, {}} : MakeCommit(k, w, first[c], first[c], M, H, {c})

\* HEAD and its parent become one commit, with both messages (squash) or with
\* the parent's only (fixup).
Squash(k, w, H) ==
  LET c == head[w]
      p == first[c]
  IN
  /\ c # Base /\ c \notin merge
  /\ p # Base /\ p \notin merge
  /\ \E M \in {{c, p}, {p}} : MakeCommit(k, w, first[p], first[p], M, H, {c, p})

\* What another worktree has is merged into HEAD by a commit.
MergeFrom(k, w, v, H) ==
  /\ head[v] \notin anc[head[w]]
  /\ MakeCommit(k, w, head[w], head[v], {}, H, {})

\* HEAD moves to a commit made anywhere, by a fast-forward, a reset or the start
\* of a rebase: nothing is committed, and no hook of this package runs.
MoveHead(w, c) ==
  /\ c \in 0..n /\ c # head[w]
  /\ head' = [head EXCEPT ![w] = c]
  /\ homes' = [homes EXCEPT ![c] = @ \cup {w}]
  /\ UNCHANGED <<registryVars, commitVars, from, notesVars, hookVars, visited, named>>

-----------------------------------------------------------------------------
(***************************************************************************)
(* post-commit                                                             *)
(***************************************************************************)

\* The hooks of committer k are over.
EndHooks(k) ==
  /\ pc' = [pc EXCEPT ![k] = "idle"]
  /\ place' = [place EXCEPT ![k] = Outside]
  /\ env' = [env EXCEPT ![k] = NoEnv]
  /\ found' = [found EXCEPT ![k] = {}]

\* The sessions are resolved once more and mirrored on what is HEAD by now.
WriteNoteMirror(k) ==
  /\ pc[k] = "post"
  /\ LET ids == Valid(Resolve(place[k], env[k])) IN
       \/ /\ ids = {} /\ EndHooks(k)
          /\ UNCHANGED note
       \/ /\ ids # {}
          /\ found' = [found EXCEPT ![k] = ids]
          /\ \/ note' = [note EXCEPT ![head[place[k]]] = ids]
             \/ UNCHANGED note      \* git could not write it: logged only
          /\ pc' = [pc EXCEPT ![k] = "attest"]
          /\ UNCHANGED <<place, env>>
  /\ UNCHANGED <<registryVars, commitVars, headVars, from, att, signed, visited, named>>

\* writeAttestation signs what is HEAD by then, with those sessions.
WriteAttestation(k) ==
  /\ pc[k] = "attest"
  /\ LET c == head[place[k]] IN
       /\ att' = [att EXCEPT ![c] = [commit |-> c, sessions |-> found[k]]]
       /\ signed' = signed \cup ({c} \X found[k])
  /\ EndHooks(k)
  /\ UNCHANGED <<registryVars, commitVars, headVars, from, note, visited, named>>

\* The hook is not installed, has no credentials, or is killed.
SkipPostCommit(k) ==
  /\ pc[k] # "idle"
  /\ EndHooks(k)
  /\ UNCHANGED <<registryVars, commitVars, headVars, from, notesVars, visited, named>>

\* git copies the notes of a rewritten commit to the commit that replaces it
\* (notes.rewriteRef).  Two attestations in one note are not JSON any more, and
\* read as none.
CopyNotes(c, q) ==
  /\ q \in from[c]
  /\ from' = [from EXCEPT ![c] = @ \ {q}]
  /\ note' = [note EXCEPT ![c] = @ \cup note[q]]
  /\ att' = [att EXCEPT ![c] = IF @ = NoAtt THEN att[q]
                               ELSE IF att[q] = NoAtt THEN @ ELSE NoAtt]
  /\ homes' = [homes EXCEPT ![c] = @ \cup homes[q]]
  /\ UNCHANGED <<registryVars, commitVars, head, signed, hookVars, visited, named>>

-----------------------------------------------------------------------------

Next ==
  \/ \E s \in Session : \/ \E d \in Worktree \cup {Outside} : WriteSessionRecord(s, d)
                        \/ RemoveSessionRecord(s)
  \/ RecordsAge
  \/ \E k \in Committer, w \in Worktree, H \in SUBSET Session :
       \/ CommitNew(k, w, H)
       \/ \E c \in Commit : CherryPick(k, w, c, H)
       \/ Amend(k, w, H)
       \/ Squash(k, w, H)
       \/ \E v \in Worktree : MergeFrom(k, w, v, H)
  \/ \E w \in Worktree, c \in Commits : MoveHead(w, c)
  \/ \E k \in Committer : \/ WriteNoteMirror(k)
                          \/ WriteAttestation(k)
                          \/ SkipPostCommit(k)
  \/ \E c, q \in Commit : CopyNotes(c, q)

Spec == Init /\ [][Next]_vars

-----------------------------------------------------------------------------
(***************************************************************************)
(* Properties                                                              *)
(***************************************************************************)

\* The sessions that worked within w, nested worktrees included, or that a commit
\* made there named by its environment.
Around(w)  == UNION {visited[v] : v \in Within(w)}
Present(w) == Around(w) \cup named[w]

(***************************************************************************)
(* The hooks add to a commit only sessions present around it: a session of *)
(* its message was present in the worktree it was made in, or a line of a  *)
(* message from elsewhere or of the person brought it in; and what vouches *)
(* for a session beyond such a line, the note and the attestation, names   *)
(* only sessions present in a worktree that had the commit at HEAD, or one *)
(* whose note git copied to it.  It holds through picks and rewrites of    *)
(* commits made elsewhere, moves of a session or of HEAD from one worktree *)
(* to another, and hooks that find another commit at HEAD than their own:  *)
(* a line "anyone can write" (attestation.go:14) is never signed for it.   *)
(***************************************************************************)
TreesApart ==
  /\ \A c \in 1..n : block[c] \cup text[c] \subseteq brought[c] \cup Present(tree[c])
  /\ \A c \in 0..n :
       note[c] \cup att[c].sessions \subseteq UNION {Present(w) : w \in homes[c]}
=============================================================================
