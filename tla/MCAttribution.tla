--------------------------- MODULE MCAttribution ---------------------------
(* Instances of DeployResolution for TLC. *)
EXTENDS DeployResolution, TLC

CONSTANTS s1, s2, w1, w2

\* Nothing, what cannot be an id, or two sessions in the environment.
MCEnvs == {NoEnv,
           [thread |-> Garbage, named |-> {s1, s2}],
           [thread |-> NoId, named |-> {s1, s2}]}

\* Lines are written by hand into the first commit only, for one session.
MCHands == IF n = 0 THEN {{}} \cup {{s} : s \in Session} ELSE {{}}

\* What came into a worktree from outside it: lines, and commits at HEAD.
Outsiders == {c \in Commit : brought[c] # {}}
Visitors  == {c \in Commit : Cardinality(homes[c]) > 1}
Extras    == Cardinality(Outsiders) + Cardinality(Visitors)

\* One process commits, the environment has no say, no record ages.
AtWork == Cardinality({k \in Committer : pc[k] # "idle"})
Calm   == /\ \A k \in Committer : env[k] = NoEnv
          /\ \A w \in Worktree : named[w] = {}
          /\ cutoff = 1

NoNotes == signed = {} /\ \A c \in Commits : note[c] = {}

\* HEAD has not gone back to an earlier commit of its worktree.
Forward == \A c \in 1..n : c <= head[tree[c]]

\* Commits and touches of the registry, three in all: with two processes, the
\* environment and ageing, or with up to two extras; or four, with one extra
\* only where nothing is noted.
MCBound ==
  LET all == n + now IN
  \/ n <= 2 /\ all <= 3 /\ Extras = 0 /\ Forward
  \/ n <= 2 /\ all <= 3 /\ Extras <= 2 /\ AtWork <= 1 /\ Calm
  \/ all <= 4 /\ Extras = 0 /\ AtWork <= 1 /\ Calm /\ Forward
  \/ all <= 4 /\ Extras <= 1 /\ AtWork <= 1 /\ Calm /\ Forward /\ now <= 1 /\ NoNotes

\* Whether a step may fit that makes so many commits, or touches the registry:
\* it saves TLC the steps that do not.
Fits(commits) ==
  /\ n + now <= 3
  /\ n + now = 3 \/ n + commits = 3 => Extras <= 1
  /\ n + now = 3 \/ n + commits = 3 \/ Extras > 0 => Calm /\ AtWork + commits <= 1
  /\ n + now = 3 /\ Extras = 1 => NoNotes /\ (commits = 1 \/ now = 0)

\* Next within the bound, action by action, so that TLC counts each of them.
MCNext ==
  \/ \E s \in Session, d \in Worktree \cup {Outside} :
       Fits(0) /\ WriteSessionRecord(s, d) /\ MCBound'
  \/ \E s \in Session : RemoveSessionRecord(s) /\ MCBound'
  \/ RecordsAge /\ MCBound'
  \/ \E k \in Committer, w \in Worktree, H \in MCHands : Fits(1) /\ CommitNew(k, w, H) /\ MCBound'
  \/ \E k \in Committer, w \in Worktree, c \in Commit :
       Fits(1) /\ CherryPick(k, w, c, {}) /\ MCBound'
  \/ \E k \in Committer, w \in Worktree : Fits(1) /\ Amend(k, w, {}) /\ MCBound'
  \/ \E k \in Committer, w \in Worktree : Fits(1) /\ Squash(k, w, {}) /\ MCBound'
  \/ \E k \in Committer, w, v \in Worktree : Fits(1) /\ MergeFrom(k, w, v, {}) /\ MCBound'
  \/ \E w \in Worktree, c \in Commit : MoveHead(w, c) /\ MCBound'
  \/ \E k \in Committer : WriteNoteMirror(k) /\ MCBound'
  \/ \E k \in Committer : WriteAttestation(k) /\ MCBound'
  \/ \E k \in Committer : SkipPostCommit(k) /\ MCBound'
  \/ \E c, q \in Commit : CopyNotes(c, q) /\ MCBound'
MCSpec == Init /\ [][MCNext]_vars

MCSymmetry ==
  Permutations(Committer) \cup Permutations(Worktree) \cup Permutations(Session)
=============================================================================
