------------------------- MODULE AttributionProofs -------------------------
(***************************************************************************)
(* Theorems about Attribution and DeployResolution, for any sessions,      *)
(* worktrees, processes, environments, and any number of commits.          *)
(***************************************************************************)
EXTENDS DeployResolution, TLAPS

-----------------------------------------------------------------------------
(***************************************************************************)
(* The strengthening of TreesApart.                                        *)
(***************************************************************************)

\* Who was present where c, or a commit whose note it got, was at HEAD.
Holders(c) == UNION {Present(w) : w \in homes[c]}

\* A commit was made in a worktree, and its lines are of sessions present there or
\* brought in.
LinesApart ==
  \A c \in Commit :
    /\ c \in 1..n => tree[c] \in Worktree
    /\ tree[c] \in Worktree => block[c] \cup text[c] \subseteq brought[c] \cup Present(tree[c])

\* Notes and attestations are of sessions present where the commit was, and it has
\* been where it is.
NotesApart ==
  /\ \A c \in Commits : note[c] \cup att[c].sessions \subseteq Holders(c)
  /\ \A w \in Worktree : w \in homes[head[w]]

\* A record is of a session that worked where the record says.
RecordsTrue == \A s \in Session : \A w \in Worktree : rec[s].tree = w => s \in visited[w]

\* A process in its hooks is in a worktree, and knows only sessions present
\* there; one that is not in its hooks knows none.
HooksApart ==
  \A k \in Committer :
    /\ pc[k] = "idle" => found[k] = {}
    /\ pc[k] # "idle" =>
         /\ place[k] \in Worktree
         /\ (env[k].named \cup {env[k].thread}) \cap Session \subseteq named[place[k]]
         /\ found[k] \subseteq Present(place[k])

\* A message keeps who is owed to it, and once stamped has them in its block.
Kept ==
  /\ stamped \subseteq 1..n
  /\ \A c \in Commit : /\ owed[c] \subseteq text[c] /\ block[c] \subseteq text[c]
                       /\ c \in stamped => owed[c] \subseteq block[c]

IInv == TypeOK /\ LinesApart /\ NotesApart /\ RecordsTrue /\ HooksApart /\ Kept

(***************************************************************************)
(* What an attestation says was signed.                                    *)
(***************************************************************************)
SignedInv == \A c \in Commits : {att[c].commit} \X att[c].sessions \subseteq signed

-----------------------------------------------------------------------------
(***************************************************************************)
(* Lemmas                                                                  *)
(***************************************************************************)

\* Commits are numbered from one, after the one all worktrees start from.
LEMMA CommitTypes ==
  ASSUME AttributionAssumption
  PROVE  /\ Commit \subseteq Commits /\ \A c \in Commits : c # Base => c \in Commit
         /\ \A m \in Commits : 0..m \subseteq Commits /\ 1..m \subseteq Commit
BY DEF AttributionAssumption, Commit, Commits, Base

\* Who is around grows with who worked.
LEMMA AroundGrows ==
  ASSUME \A v \in Worktree : visited[v] \subseteq visited'[v]
  PROVE  \A w \in Worktree : Around(w) \subseteq Around(w)'
<1> SUFFICES ASSUME NEW w \in Worktree PROVE Around(w) \subseteq Around(w)'
  OBVIOUS
<1>1. Around(w)' = UNION {visited'[v] : v \in Within(w)}
  BY DEF Around, Within
<1>2. Within(w) \subseteq Worktree
  BY DEF Within
<1> QED BY <1>1, <1>2 DEF Around

LEMMA AroundSame ==
  ASSUME visited' = visited
  PROVE  \A w \in Worktree : Around(w)' = Around(w)
BY DEF Around, Within

\* Who is present grows with who worked and who was named; Holders with both,
\* and with where a commit has been.
LEMMA PresentGrows ==
  ASSUME \A v \in Worktree : visited[v] \subseteq visited'[v] /\ named[v] \subseteq named'[v]
  PROVE  \A w \in Worktree : Present(w) \subseteq Present(w)'
BY AroundGrows DEF Present

LEMMA HoldersGrow ==
  ASSUME TypeOK, NEW c \in Commits, homes[c] \subseteq homes'[c],
         \A w \in Worktree : Present(w) \subseteq Present(w)'
  PROVE  Holders(c) \subseteq Holders(c)'
<1>1. Holders(c)' = UNION {Present(w)' : w \in homes'[c]}
  BY DEF Holders
<1>2. homes[c] \subseteq Worktree
  BY DEF TypeOK
<1> QED BY <1>1, <1>2 DEF Holders

\* A step that makes no commit and changes no note or HEAD keeps both apart, for
\* who is present only grows.
LEMMA ApartFrame ==
  ASSUME IInv, UNCHANGED <<commitVars, headVars, note, att>>,
         \A v \in Worktree : visited[v] \subseteq visited'[v] /\ named[v] \subseteq named'[v]
  PROVE  LinesApart' /\ NotesApart' /\ Kept'
<1> USE DEF commitVars, headVars
<1>1. \A w \in Worktree : Present(w) \subseteq Present(w)'
  BY PresentGrows
<1>2. LinesApart'
  <2> SUFFICES ASSUME NEW c \in Commit, tree[c] \in Worktree
               PROVE  block[c] \cup text[c] \subseteq brought[c] \cup Present(tree[c])'
    BY DEF LinesApart, IInv
  <2>1. PICK w \in Worktree : w = tree[c]
    OBVIOUS
  <2>2. block[c] \cup text[c] \subseteq brought[c] \cup Present(w)
    BY <2>1 DEF IInv, LinesApart
  <2>3. Present(tree[c])' = Present(w)'
    BY <2>1
  <2> QED BY <2>1, <2>2, <2>3, <1>1
<1>3. NotesApart'
  <2>1. ASSUME NEW c \in Commits PROVE note'[c] \cup att'[c].sessions \subseteq Holders(c)'
    <3>1. Holders(c) \subseteq Holders(c)'
      BY <1>1, HoldersGrow DEF IInv
    <3> QED BY <3>1 DEF IInv, NotesApart
  <2> QED BY <2>1 DEF IInv, NotesApart
<1>4. Kept'
  BY DEF IInv, Kept
<1> QED BY <1>2, <1>3, <1>4

\* What is resolved is sessions, and what cannot be an id.
LEMMA ResolveType ==
  ASSUME AttributionAssumption, NEW w, NEW e \in Env
  PROVE  Resolve(w, e) \subseteq Session \cup {Garbage}
<1>1. Freshest(w) \subseteq Session
  BY DEF Freshest
<1>2. e.thread \in Session \cup {Garbage, NoId} /\ e.named \subseteq Session \cup {Garbage}
  BY DEF Env
<1>3. CASE e.thread # NoId
  <2>1. Resolve(w, e) = {e.thread}
    BY <1>3 DEF Resolve
  <2> QED BY <2>1, <1>2, <1>3
<1>4. CASE e.thread = NoId /\ e.named # {}
  <2>1. Resolve(w, e) = e.named
    BY <1>4 DEF Resolve
  <2> QED BY <2>1, <1>2
<1>5. CASE e.thread = NoId /\ e.named = {}
  <2>1. Resolve(w, e) = Freshest(w)
    BY <1>5 DEF Resolve
  <2> QED BY <2>1, <1>1
<1> QED BY <1>3, <1>4, <1>5

\* What is resolved in a worktree worked there or is named by the environment.
LEMMA ResolveApart ==
  ASSUME AttributionAssumption, RecordsTrue, NEW w \in Worktree, NEW e \in Env
  PROVE  Valid(Resolve(w, e)) \subseteq
           Around(w) \cup ((e.named \cup {e.thread}) \cap Session)
<1>1. Freshest(w) \subseteq Around(w)
  BY DEF Freshest, RecordsTrue, Within, Around
<1>2. Valid(Resolve(w, e)) \subseteq Session
  BY ResolveType DEF Valid
<1>3. Resolve(w, e) \subseteq Freshest(w) \cup e.named \cup {e.thread}
  <2>1. CASE e.thread # NoId
    BY <2>1 DEF Resolve
  <2>2. CASE e.thread = NoId /\ e.named # {}
    BY <2>2 DEF Resolve
  <2>3. CASE e.thread = NoId /\ e.named = {}
    BY <2>3 DEF Resolve
  <2> QED BY <2>1, <2>2, <2>3
<1>4. Valid(Resolve(w, e)) \subseteq Resolve(w, e)
  BY DEF Valid
<1> QED BY <1>1, <1>2, <1>3, <1>4

\* The messages a message is made of are of sessions present in w or foreign to it,
\* and keep who is owed to them.
LEMMA LinesOf ==
  ASSUME AttributionAssumption, IInv, NEW w \in Worktree, NEW M \in SUBSET Commit
  PROVE  /\ LastBlock(M) \subseteq Lines(M) /\ Lines(M) \subseteq Session
         /\ Foreign(w, M) \subseteq Session
         /\ UNION {owed[q] : q \in M} \subseteq Lines(M)
         /\ Lines(M) \subseteq Foreign(w, M) \cup Present(w)
<1>1. \A q \in M : /\ text[q] \subseteq Session /\ brought[q] \subseteq Session
                   /\ block[q] \subseteq text[q] /\ owed[q] \subseteq text[q]
  <2>1. Commit \subseteq Commits
    BY CommitTypes
  <2> QED BY <2>1 DEF IInv, TypeOK, Kept
<1>2. ASSUME NEW q \in M PROVE text[q] \subseteq Foreign(w, M) \cup Present(w)
  <2>1. (IF tree[q] = w THEN brought[q] ELSE text[q]) \subseteq Foreign(w, M)
    BY DEF Foreign
  <2>2. tree[q] = w => text[q] \subseteq brought[q] \cup Present(w)
    BY DEF IInv, LinesApart
  <2> QED BY <2>1, <2>2
<1>3. Foreign(w, M) \subseteq Session
  BY <1>1 DEF Foreign
<1>4. LastBlock(M) \subseteq Lines(M)
  BY <1>1 DEF LastBlock, Lines
<1>5. Lines(M) \subseteq Session /\ UNION {owed[q] : q \in M} \subseteq Lines(M)
  BY <1>1 DEF Lines
<1>6. Lines(M) \subseteq Foreign(w, M) \cup Present(w)
  BY <1>2 DEF Lines
<1> QED BY <1>3, <1>4, <1>5, <1>6

\* The next message: of sessions present, foreign, written by hand or named by the
\* environment; what is owed to it is in it, and once it is stamped in its block.
MessageFits(w, e, M, H, b, t, o) ==
  /\ b \in SUBSET Session /\ t \in SUBSET Session /\ o \in SUBSET Session
  /\ block' = [block EXCEPT ![n + 1] = b] /\ text' = [text EXCEPT ![n + 1] = t]
  /\ owed' = [owed EXCEPT ![n + 1] = o]
  /\ stamped' = stamped \/ (stamped' = stamped \cup {n + 1} /\ o \subseteq b)
  /\ b \subseteq t /\ o \subseteq t
  /\ t \subseteq (H \cup Foreign(w, M)) \cup
                 (Present(w) \cup ((e.named \cup {e.thread}) \cap Session))

\* Whatever Message writes for the next commit fits.
LEMMA MessageParts ==
  ASSUME AttributionAssumption, IInv, NEW w \in Worktree, NEW e \in Env,
         NEW M \in SUBSET Commit, NEW H \in SUBSET Session, Message(w, e, M, H)
  PROVE  \E b, t, o \in SUBSET Session : MessageFits(w, e, M, H, b, t, o)
<1> DEFINE ids == Valid(Resolve(w, e))
           before == UNION {owed[q] : q \in M}
           here == Present(w) \cup ((e.named \cup {e.thread}) \cap Session)
           L == Lines(M)
<1>1. ids \subseteq Session
  BY ResolveType DEF Valid
<1>2. ids \subseteq here
  BY ResolveApart DEF IInv, Present
<1>3. /\ LastBlock(M) \subseteq L /\ L \subseteq Session /\ before \subseteq L
      /\ L \subseteq Foreign(w, M) \cup Present(w)
  BY LinesOf
<1>4. \A seen \in {{}, H} : Stamped(M, seen, Resolve(w, e)) = L \cup seen \cup ids
  BY <1>3, AttributionAssumption DEF Stamped, Valid, AttributionAssumption
<1>h. Present(w) \subseteq here
  OBVIOUS
<1>d. \A b, t, o :
        /\ b \in SUBSET Session /\ t \in SUBSET Session /\ o \in SUBSET Session
        /\ block' = [block EXCEPT ![n + 1] = b] /\ text' = [text EXCEPT ![n + 1] = t]
        /\ owed' = [owed EXCEPT ![n + 1] = o]
        /\ stamped' = stamped \/ (stamped' = stamped \cup {n + 1} /\ o \subseteq b)
        /\ b \subseteq t /\ o \subseteq t
        /\ t \subseteq (H \cup Foreign(w, M)) \cup here
        => MessageFits(w, e, M, H, b, t, o)
  BY DEF MessageFits
<1> HIDE DEF ids, before, here, L
<1>5. \/ \E seen \in {{}, H} :
           /\ block' = [block EXCEPT ![n + 1] = L \cup seen \cup ids]
           /\ text' = [text EXCEPT ![n + 1] = L \cup (L \cup seen \cup ids) \cup H]
           /\ owed' = [owed EXCEPT ![n + 1] = before \cup ids]
           /\ stamped' = stamped \cup {n + 1}
      \/ \E b \in {LastBlock(M), LastBlock(M) \cup H} :
           /\ block' = [block EXCEPT ![n + 1] = b]
           /\ text' = [text EXCEPT ![n + 1] = L \cup H]
           /\ owed' = [owed EXCEPT ![n + 1] = before]
           /\ stamped' = stamped
      \/ /\ block' = [block EXCEPT ![n + 1] = {}]
         /\ text' = [text EXCEPT ![n + 1] = {}]
         /\ owed' = [owed EXCEPT ![n + 1] = {}]
         /\ stamped' = stamped
  BY <1>4 DEF Message, ids, before, L
<1>6. ASSUME NEW seen \in {{}, H},
             /\ block' = [block EXCEPT ![n + 1] = L \cup seen \cup ids]
             /\ text' = [text EXCEPT ![n + 1] = L \cup (L \cup seen \cup ids) \cup H]
             /\ owed' = [owed EXCEPT ![n + 1] = before \cup ids]
             /\ stamped' = stamped \cup {n + 1}
      PROVE  \E b, t, o \in SUBSET Session : MessageFits(w, e, M, H, b, t, o)
  <2> DEFINE b == L \cup seen \cup ids
             t == L \cup (L \cup seen \cup ids) \cup H
             o == before \cup ids
  <2>1. b \in SUBSET Session /\ t \in SUBSET Session /\ o \in SUBSET Session
    BY <1>1, <1>3, <1>6
  <2>2. b \subseteq t /\ o \subseteq t /\ o \subseteq b
    BY <1>3, <1>6
  <2>3. t \subseteq (H \cup Foreign(w, M)) \cup here
    BY <1>2, <1>3, <1>6, <1>h
  <2>4. /\ block' = [block EXCEPT ![n + 1] = b] /\ text' = [text EXCEPT ![n + 1] = t]
        /\ owed' = [owed EXCEPT ![n + 1] = o] /\ stamped' = stamped \cup {n + 1}
    BY <1>6
  <2> HIDE DEF b, t, o
  <2>5. MessageFits(w, e, M, H, b, t, o)
    BY <1>d, <2>1, <2>2, <2>3, <2>4
  <2> QED BY <2>1, <2>5
<1>7. ASSUME NEW b \in {LastBlock(M), LastBlock(M) \cup H},
             /\ block' = [block EXCEPT ![n + 1] = b]
             /\ text' = [text EXCEPT ![n + 1] = L \cup H]
             /\ owed' = [owed EXCEPT ![n + 1] = before]
             /\ stamped' = stamped
      PROVE  \E x, t, o \in SUBSET Session : MessageFits(w, e, M, H, x, t, o)
  <2> DEFINE t == L \cup H
  <2>1. b \in SUBSET Session /\ t \in SUBSET Session /\ before \in SUBSET Session
    BY <1>3, <1>7
  <2>2. b \subseteq t /\ before \subseteq t
    BY <1>3, <1>7
  <2>3. t \subseteq (H \cup Foreign(w, M)) \cup here
    BY <1>3, <1>h
  <2>4. text' = [text EXCEPT ![n + 1] = t]
    BY <1>7
  <2> HIDE DEF t
  <2>5. MessageFits(w, e, M, H, b, t, before)
    BY <1>d, <1>7, <2>1, <2>2, <2>3, <2>4
  <2> QED BY <2>1, <2>5
<1>8. ASSUME /\ block' = [block EXCEPT ![n + 1] = {}]
             /\ text' = [text EXCEPT ![n + 1] = {}]
             /\ owed' = [owed EXCEPT ![n + 1] = {}]
             /\ stamped' = stamped
      PROVE  \E b, t, o \in SUBSET Session : MessageFits(w, e, M, H, b, t, o)
  <2>1. {} \in SUBSET Session /\ {} \subseteq (H \cup Foreign(w, M)) \cup here
    OBVIOUS
  <2>2. MessageFits(w, e, M, H, {}, {}, {})
    BY <1>d, <1>8, <2>1
  <2> QED BY <2>1, <2>2
<1> QED BY <1>5, <1>6, <1>7, <1>8

-----------------------------------------------------------------------------
(***************************************************************************)
(* Commits preserve the invariant                                          *)
(***************************************************************************)

\* A commit on any parents, of any messages, whoever made them where.
LEMMA MakeCommitInv ==
  ASSUME AttributionAssumption, IInv, NEW k \in Committer, NEW w \in Worktree,
         NEW p \in Commits, NEW q \in Commits, NEW M \in SUBSET Commit,
         NEW H \in SUBSET Session, NEW R \in SUBSET Commit,
         MakeCommit(k, w, p, q, M, H, R)
  PROVE  IInv'
<1> USE DEF Base
<1>0. PICK c : c = n + 1
  OBVIOUS
<1>n. n \in Nat /\ c \in Commit /\ c \in Commits /\ c \notin 1..n
      /\ n' = c /\ 1..c = (1..n) \cup {c}
  <2>1. n \in Nat /\ MaxCommits \in Nat
    BY DEF IInv, TypeOK, Commits, AttributionAssumption
  <2>2. n < MaxCommits /\ n' = c
    BY <1>0 DEF MakeCommit
  <2>3. c \in Commit /\ c \in Commits
    BY <1>0, <2>1, <2>2 DEF Commit, Commits
  <2>4. c \notin 1..n /\ 1..c = (1..n) \cup {c}
    BY <1>0, <2>1
  <2> QED BY <2>1, <2>2, <2>3, <2>4
<1>c. Commit \subseteq Commits
  BY DEF Commits, Commit
<1>1. PICK e \in Envs :
        /\ Message(w, e, M, H)
        /\ env' = [env EXCEPT ![k] = e]
        /\ named' = [named EXCEPT ![w] = @ \cup ((e.named \cup {e.thread}) \cap Session)]
  BY DEF MakeCommit
<1>e. e \in Env
  BY <1>1 DEF AttributionAssumption
<1>2. PICK b \in SUBSET Session, t \in SUBSET Session, o \in SUBSET Session :
        /\ block' = [block EXCEPT ![c] = b] /\ text' = [text EXCEPT ![c] = t]
        /\ owed' = [owed EXCEPT ![c] = o]
        /\ stamped' = stamped \/ (stamped' = stamped \cup {c} /\ o \subseteq b)
        /\ b \subseteq t /\ o \subseteq t
        /\ t \subseteq (H \cup Foreign(w, M)) \cup
                       (Present(w) \cup ((e.named \cup {e.thread}) \cap Session))
  <2>1. PICK b \in SUBSET Session, t \in SUBSET Session, o \in SUBSET Session :
          MessageFits(w, e, M, H, b, t, o)
    BY <1>1, <1>e, MessageParts
  <2> QED BY <1>0, <2>1 DEF MessageFits
<1>3. /\ tree' = [tree EXCEPT ![c] = w] /\ brought' = [brought EXCEPT ![c] = H \cup Foreign(w, M)]
      /\ head' = [head EXCEPT ![w] = c] /\ homes' = [homes EXCEPT ![c] = @ \cup {w}]
      /\ note' = note /\ att' = att /\ signed' = signed /\ found' = found
      /\ visited' = visited /\ rec' = rec /\ now' = now /\ cutoff' = cutoff
      /\ pc[k] = "idle" /\ pc' = [pc EXCEPT ![k] = "post"] /\ place' = [place EXCEPT ![k] = w]
  BY <1>0 DEF MakeCommit, notesVars, registryVars
<1>f. H \cup Foreign(w, M) \in SUBSET Session
  BY LinesOf
<1>4. TypeOK'
  <2>1. n' \in Commits /\ head' \in [Worktree -> Commits]
        /\ tree' \in [Commit -> Worktree \cup {Outside}]
        /\ first' \in [Commits -> Commits] /\ merge' \subseteq Commit
    BY <1>0, <1>n DEF MakeCommit, IInv, TypeOK
  <2>2. anc' \in [Commits -> SUBSET Commits]
    <3>1. {c} \cup anc[p] \cup anc[q] \in SUBSET Commits
      BY <1>n DEF IInv, TypeOK
    <3>2. anc' = [anc EXCEPT ![c] = {c} \cup anc[p] \cup anc[q]]
      BY <1>0 DEF MakeCommit
    <3> QED BY <3>1, <3>2, <1>n DEF IInv, TypeOK
  <2>3. block' \in [Commits -> SUBSET Session] /\ text' \in [Commits -> SUBSET Session]
        /\ owed' \in [Commit -> SUBSET Session] /\ stamped' \subseteq Commit
    BY <1>n, <1>2 DEF IInv, TypeOK
  <2>4. from' \in [Commit -> SUBSET Commit]
    BY <1>0, <1>n DEF MakeCommit, IInv, TypeOK
  <2>5. pc' \in [Committer -> {"idle", "post", "attest"}]
        /\ place' \in [Committer -> Worktree \cup {Outside}]
    BY <1>3 DEF IInv, TypeOK
  <2>6. env' \in [Committer -> Env] /\ named' \in [Worktree -> SUBSET Session]
    BY <1>1, <1>e DEF IInv, TypeOK
  <2>7. brought' \in [Commit -> SUBSET Session]
    BY <1>3, <1>f, <1>n DEF IInv, TypeOK
  <2>8. homes' \in [Commits -> SUBSET Worktree]
    BY <1>3, <1>n DEF IInv, TypeOK
  <2> QED BY <2>1, <2>2, <2>3, <2>4, <2>5, <2>6, <2>7, <2>8, <1>3 DEF IInv, TypeOK
<1>5. /\ \A v \in Worktree : named[v] \subseteq named'[v] /\ Present(v) \subseteq Present(v)'
      /\ Present(w) \cup ((e.named \cup {e.thread}) \cap Session) \subseteq Present(w)'
  <2>1. \A v \in Worktree : named[v] \subseteq named'[v] /\ visited[v] \subseteq visited'[v]
    BY <1>1, <1>3 DEF IInv, TypeOK
  <2>2. \A v \in Worktree : Present(v) \subseteq Present(v)'
    BY <2>1, PresentGrows
  <2>3. (e.named \cup {e.thread}) \cap Session \subseteq named'[w]
    BY <1>1 DEF IInv, TypeOK
  <2> QED BY <2>1, <2>2, <2>3 DEF Present
<1>6. LinesApart'
  <2> SUFFICES ASSUME NEW d \in Commit
               PROVE  /\ d \in 1..n' => tree'[d] \in Worktree
                      /\ tree'[d] \in Worktree =>
                           block'[d] \cup text'[d] \subseteq brought'[d] \cup Present(tree[d])'
    BY DEF LinesApart
  <2>1. CASE d = c
    <3>1. /\ tree'[d] = w /\ block'[d] = b /\ text'[d] = t
          /\ brought'[d] = H \cup Foreign(w, M)
      BY <2>1, <1>2, <1>3, <1>n DEF IInv, TypeOK
    <3> QED BY <3>1, <1>2, <1>5
  <2>2. CASE d # c
    <3>1. /\ tree'[d] = tree[d] /\ block'[d] = block[d] /\ text'[d] = text[d]
          /\ brought'[d] = brought[d] /\ (d \in 1..n' => d \in 1..n)
      BY <2>2, <1>2, <1>3, <1>n, <1>c DEF IInv, TypeOK
    <3>2. d \in 1..n' => tree'[d] \in Worktree
      BY <3>1 DEF IInv, LinesApart
    <3>3. ASSUME tree[d] \in Worktree
          PROVE  block[d] \cup text[d] \subseteq brought[d] \cup Present(tree[d])'
      <4>1. PICK v \in Worktree : v = tree[d]
        BY <3>3
      <4>2. block[d] \cup text[d] \subseteq brought[d] \cup Present(v)
        BY <4>1 DEF IInv, LinesApart
      <4>3. Present(tree[d])' = Present(v)'
        BY <4>1, <3>1
      <4> QED BY <4>2, <4>3, <1>5
    <3> QED BY <3>1, <3>2, <3>3
  <2> QED BY <2>1, <2>2
<1>7. NotesApart'
  <2>1. ASSUME NEW d \in Commits PROVE note'[d] \cup att'[d].sessions \subseteq Holders(d)'
    <3>1. homes[d] \subseteq homes'[d]
      BY <1>3, <1>n DEF IInv, TypeOK
    <3>2. Holders(d) \subseteq Holders(d)'
      BY <3>1, <1>5, HoldersGrow DEF IInv
    <3> QED BY <3>2, <1>3 DEF IInv, NotesApart
  <2>2. ASSUME NEW v \in Worktree PROVE v \in homes'[head'[v]]
    <3>1. v = w => head'[v] = c /\ w \in homes'[c]
      BY <1>3, <1>n DEF IInv, TypeOK
    <3>2. v # w => head'[v] = head[v] /\ homes[head[v]] \subseteq homes'[head[v]]
      BY <1>3, <1>n DEF IInv, TypeOK
    <3> QED BY <3>1, <3>2 DEF IInv, NotesApart
  <2> QED BY <2>1, <2>2 DEF NotesApart
<1>8. RecordsTrue'
  BY <1>3 DEF IInv, RecordsTrue
<1>9. HooksApart'
  <2> SUFFICES ASSUME NEW j \in Committer
               PROVE  /\ pc'[j] = "idle" => found'[j] = {}
                      /\ pc'[j] # "idle" =>
                           /\ place'[j] \in Worktree
                           /\ (env'[j].named \cup {env'[j].thread}) \cap Session
                                \subseteq named'[place'[j]]
                           /\ found'[j] \subseteq Present(place[j])'
    BY DEF HooksApart
  <2>1. CASE j = k
    <3>1. found[k] = {}
      BY <1>3 DEF IInv, HooksApart
    <3>2. (e.named \cup {e.thread}) \cap Session \subseteq named'[w]
      BY <1>1 DEF IInv, TypeOK
    <3>3. pc'[k] = "post" /\ place'[k] = w /\ env'[k] = e
      BY <1>1, <1>3 DEF IInv, TypeOK
    <3> QED BY <2>1, <3>1, <3>2, <3>3, <1>3
  <2>2. CASE j # k
    <3>1. pc'[j] = pc[j] /\ place'[j] = place[j] /\ env'[j] = env[j]
      BY <2>2, <1>1, <1>3 DEF IInv, TypeOK
    <3>2. pc[j] = "idle" => found[j] = {}
      BY DEF IInv, HooksApart
    <3>3. ASSUME pc[j] # "idle"
          PROVE  /\ place[j] \in Worktree
                 /\ (env[j].named \cup {env[j].thread}) \cap Session \subseteq named'[place[j]]
                 /\ found[j] \subseteq Present(place[j])'
      <4>1. PICK v \in Worktree : v = place[j]
        BY <3>3 DEF IInv, HooksApart
      <4>2. (env[j].named \cup {env[j].thread}) \cap Session \subseteq named[v]
            /\ found[j] \subseteq Present(v)
        BY <3>3, <4>1 DEF IInv, HooksApart
      <4>3. Present(place[j])' = Present(v)'
        BY <4>1, <3>1
      <4> QED BY <4>1, <4>2, <4>3, <1>5
    <3> QED BY <3>1, <3>2, <3>3, <1>3
  <2> QED BY <2>1, <2>2
<1>10. Kept'
  <2>1. stamped' \subseteq 1..n'
    BY <1>2, <1>n DEF IInv, Kept
  <2>2. ASSUME NEW d \in Commit
        PROVE  /\ owed'[d] \subseteq text'[d] /\ block'[d] \subseteq text'[d]
               /\ d \in stamped' => owed'[d] \subseteq block'[d]
    <3>1. CASE d = c
      <4>1. owed'[d] = o /\ text'[d] = t /\ block'[d] = b
        BY <3>1, <1>2, <1>n DEF IInv, TypeOK
      <4>2. c \notin stamped
        BY <1>n DEF IInv, Kept
      <4> QED BY <4>1, <4>2, <3>1, <1>2
    <3>2. CASE d # c
      <4>1. owed'[d] = owed[d] /\ text'[d] = text[d] /\ block'[d] = block[d]
            /\ (d \in stamped' => d \in stamped)
        BY <3>2, <1>2, <1>n, <1>c DEF IInv, TypeOK
      <4> QED BY <4>1 DEF IInv, Kept
    <3> QED BY <3>1, <3>2
  <2> QED BY <2>1, <2>2 DEF Kept
<1> QED BY <1>4, <1>6, <1>7, <1>8, <1>9, <1>10 DEF IInv

\* HEAD and the first parent of a commit are commits.
LEMMA HeadsType ==
  ASSUME AttributionAssumption, IInv, NEW w \in Worktree
  PROVE  /\ head[w] \in Commits /\ (head[w] # Base => head[w] \in Commit)
         /\ \A c \in Commits : first[c] \in Commits /\ (first[c] # Base => first[c] \in Commit)
BY CommitTypes DEF IInv, TypeOK

LEMMA CommitNewInv ==
  ASSUME AttributionAssumption, IInv, NEW k \in Committer, NEW w \in Worktree,
         NEW H \in SUBSET Session, CommitNew(k, w, H)
  PROVE  IInv'
<1>1. MakeCommit(k, w, head[w], head[w], {}, H, {})
  BY DEF CommitNew
<1>2. {} \in SUBSET Commit
  OBVIOUS
<1> QED BY <1>1, <1>2, HeadsType, MakeCommitInv

LEMMA CherryPickInv ==
  ASSUME AttributionAssumption, IInv, NEW k \in Committer, NEW w \in Worktree,
         NEW c \in Commit, NEW H \in SUBSET Session, CherryPick(k, w, c, H)
  PROVE  IInv'
<1>1. PICK R \in {{}, {c}} : MakeCommit(k, w, head[w], head[w], {c}, H, R)
  BY DEF CherryPick
<1>2. R \in SUBSET Commit /\ {c} \in SUBSET Commit
  OBVIOUS
<1> QED BY <1>1, <1>2, HeadsType, MakeCommitInv

LEMMA AmendInv ==
  ASSUME AttributionAssumption, IInv, NEW k \in Committer, NEW w \in Worktree,
         NEW H \in SUBSET Session, Amend(k, w, H)
  PROVE  IInv'
<1> DEFINE c == head[w]
<1>1. c # Base /\ \E M \in {{c}, {}} : MakeCommit(k, w, first[c], first[c], M, H, {c})
  BY DEF Amend
<1>2. c \in Commit /\ first[c] \in Commits
  BY <1>1, HeadsType
<1> HIDE DEF c
<1>3. PICK M \in {{c}, {}} : MakeCommit(k, w, first[c], first[c], M, H, {c})
  BY <1>1
<1>4. M \in SUBSET Commit /\ {c} \in SUBSET Commit
  BY <1>2
<1> QED BY <1>2, <1>3, <1>4, MakeCommitInv

LEMMA SquashInv ==
  ASSUME AttributionAssumption, IInv, NEW k \in Committer, NEW w \in Worktree,
         NEW H \in SUBSET Session, Squash(k, w, H)
  PROVE  IInv'
<1> DEFINE c == head[w]
           p == first[c]
<1>1. /\ c # Base /\ p # Base
      /\ \E M \in {{c, p}, {p}} : MakeCommit(k, w, first[p], first[p], M, H, {c, p})
  BY DEF Squash
<1>2. c \in Commit /\ c \in Commits
  BY <1>1, HeadsType
<1>3. p \in Commit /\ p \in Commits
  BY <1>1, <1>2, HeadsType
<1>4. first[p] \in Commits
  BY <1>3, HeadsType
<1> HIDE DEF c, p
<1>5. PICK M \in {{c, p}, {p}} : MakeCommit(k, w, first[p], first[p], M, H, {c, p})
  BY <1>1
<1>6. M \in SUBSET Commit /\ {c, p} \in SUBSET Commit
  BY <1>2, <1>3
<1> QED BY <1>4, <1>5, <1>6, MakeCommitInv

LEMMA MergeFromInv ==
  ASSUME AttributionAssumption, IInv, NEW k \in Committer, NEW w \in Worktree,
         NEW v \in Worktree, NEW H \in SUBSET Session, MergeFrom(k, w, v, H)
  PROVE  IInv'
<1>1. MakeCommit(k, w, head[w], head[v], {}, H, {})
  BY DEF MergeFrom
<1>2. {} \in SUBSET Commit
  OBVIOUS
<1> QED BY <1>1, <1>2, HeadsType, MakeCommitInv

\* HEAD moves: the worktree is one more that has had the commit.
LEMMA MoveHeadInv ==
  ASSUME AttributionAssumption, IInv, NEW w \in Worktree, NEW c \in Commits, MoveHead(w, c)
  PROVE  IInv'
<1> USE DEF MoveHead, registryVars, commitVars, notesVars, hookVars
<1>1. TypeOK'
  BY DEF IInv, TypeOK
<1>2. \A v \in Worktree : Present(v)' = Present(v)
  BY AroundSame DEF Present
<1>3. LinesApart'
  BY <1>2 DEF IInv, LinesApart
<1>4. \A d \in Commits : homes[d] \subseteq homes'[d]
  BY DEF IInv, TypeOK
<1>5. NotesApart'
  <2>1. ASSUME NEW d \in Commits PROVE note'[d] \cup att'[d].sessions \subseteq Holders(d)'
    <3>1. Holders(d) \subseteq Holders(d)'
      BY <1>2, <1>4, HoldersGrow DEF IInv
    <3> QED BY <3>1 DEF IInv, NotesApart
  <2>2. ASSUME NEW v \in Worktree PROVE v \in homes'[head'[v]]
    <3>1. v = w => head'[v] = c /\ w \in homes'[c]
      BY DEF IInv, TypeOK
    <3>2. v # w => head'[v] = head[v] /\ homes[head[v]] \subseteq homes'[head[v]]
      BY <1>4 DEF IInv, TypeOK
    <3> QED BY <3>1, <3>2 DEF IInv, NotesApart
  <2> QED BY <2>1, <2>2 DEF NotesApart
<1>6. RecordsTrue' /\ HooksApart' /\ Kept'
  BY <1>2 DEF IInv, RecordsTrue, HooksApart, Kept
<1> QED BY <1>1, <1>3, <1>5, <1>6 DEF IInv

-----------------------------------------------------------------------------
(***************************************************************************)
(* The registry and the hooks preserve the invariant                       *)
(***************************************************************************)

LEMMA WriteSessionRecordInv ==
  ASSUME AttributionAssumption, IInv, NEW s \in Session, NEW d \in Worktree \cup {Outside},
         WriteSessionRecord(s, d)
  PROVE  IInv'
<1> USE DEF WriteSessionRecord, notesVars, hookVars
<1>1. TypeOK'
  BY DEF IInv, TypeOK, AttributionAssumption, commitVars, headVars
<1>2. named' = named /\ \A w \in Worktree : visited[w] \subseteq visited'[w]
  BY DEF IInv, TypeOK
<1>3. LinesApart' /\ NotesApart' /\ Kept'
  BY <1>2, ApartFrame
<1>4. \A w \in Worktree : Present(w) \subseteq Present(w)'
  BY <1>2, PresentGrows
<1>5. RecordsTrue'
  BY <1>2 DEF IInv, RecordsTrue, TypeOK
<1>6. HooksApart'
  BY <1>2, <1>4 DEF IInv, HooksApart
<1> QED BY <1>1, <1>3, <1>5, <1>6 DEF IInv

LEMMA RemoveSessionRecordInv ==
  ASSUME AttributionAssumption, IInv, NEW s \in Session, RemoveSessionRecord(s)
  PROVE  IInv'
<1> USE DEF RemoveSessionRecord, notesVars, hookVars
<1>1. TypeOK'
  BY DEF IInv, TypeOK, NoRecord, AttributionAssumption, commitVars, headVars
<1>2. LinesApart' /\ NotesApart' /\ Kept'
  BY ApartFrame
<1>3. RecordsTrue'
  BY DEF IInv, RecordsTrue, TypeOK, NoRecord, AttributionAssumption
<1>4. HooksApart'
  BY AroundSame DEF IInv, HooksApart, Present
<1> QED BY <1>1, <1>2, <1>3, <1>4 DEF IInv

LEMMA RecordsAgeInv ==
  ASSUME AttributionAssumption, IInv, RecordsAge
  PROVE  IInv'
<1> USE DEF RecordsAge, notesVars, hookVars
<1>1. TypeOK'
  BY DEF IInv, TypeOK, AttributionAssumption, commitVars, headVars
<1>2. LinesApart' /\ NotesApart' /\ Kept'
  BY ApartFrame
<1>3. RecordsTrue' /\ HooksApart'
  BY AroundSame DEF IInv, RecordsTrue, HooksApart, Present
<1> QED BY <1>1, <1>2, <1>3 DEF IInv

\* The hooks of a process are over.
LEMMA EndHooksApart ==
  ASSUME AttributionAssumption, IInv, NEW k \in Committer, EndHooks(k),
         UNCHANGED <<visited, named>>
  PROVE  /\ HooksApart'
         /\ pc' \in [Committer -> {"idle", "post", "attest"}]
         /\ place' \in [Committer -> Worktree \cup {Outside}]
         /\ env' \in [Committer -> Env] /\ found' \in [Committer -> SUBSET Session]
<1>1. pc' \in [Committer -> {"idle", "post", "attest"}]
      /\ place' \in [Committer -> Worktree \cup {Outside}]
      /\ env' \in [Committer -> Env] /\ found' \in [Committer -> SUBSET Session]
  BY DEF EndHooks, IInv, TypeOK, AttributionAssumption
<1>2. pc'[k] = "idle" /\ found'[k] = {}
  BY DEF EndHooks, IInv, TypeOK
<1>3. \A j \in Committer \ {k} : /\ pc'[j] = pc[j] /\ place'[j] = place[j]
                                /\ env'[j] = env[j] /\ found'[j] = found[j]
  BY DEF EndHooks, IInv, TypeOK
<1>4. HooksApart'
  BY <1>2, <1>3, AroundSame DEF IInv, HooksApart, Present
<1> QED BY <1>1, <1>4

LEMMA SkipPostCommitInv ==
  ASSUME AttributionAssumption, IInv, NEW k \in Committer, SkipPostCommit(k)
  PROVE  IInv'
<1> USE DEF SkipPostCommit, registryVars, notesVars
<1>1. EndHooks(k)
  OBVIOUS
<1>2. TypeOK'
  BY <1>1, EndHooksApart DEF IInv, TypeOK, commitVars, headVars
<1>3. LinesApart' /\ NotesApart' /\ Kept'
  BY ApartFrame
<1>4. HooksApart' /\ RecordsTrue'
  BY <1>1, EndHooksApart DEF IInv, RecordsTrue
<1> QED BY <1>2, <1>3, <1>4 DEF IInv

\* What a commit gets, in its note or its attestation, from sessions present where
\* it was.
LEMMA NoteApart ==
  ASSUME IInv, NEW c \in Commits, UNCHANGED <<commitVars, head, visited, named>>,
         \A d \in Commits : homes[d] \subseteq homes'[d],
         note'[c] \cup att'[c].sessions \subseteq Holders(c)',
         \A d \in Commits : d # c => note'[d] = note[d] /\ att'[d] = att[d]
  PROVE  LinesApart' /\ NotesApart' /\ Kept'
<1> USE DEF commitVars
<1>1. \A v \in Worktree : Present(v)' = Present(v)
  BY AroundSame DEF Present
<1>2. LinesApart' /\ Kept'
  BY <1>1 DEF IInv, LinesApart, Kept
<1>3. ASSUME NEW d \in Commits PROVE note'[d] \cup att'[d].sessions \subseteq Holders(d)'
  <2>1. Holders(d) \subseteq Holders(d)'
    BY <1>1, HoldersGrow DEF IInv
  <2>2. CASE d = c
    BY <2>2
  <2>3. CASE d # c
    BY <2>1, <2>3 DEF IInv, NotesApart
  <2> QED BY <2>2, <2>3
<1>4. \A v \in Worktree : v \in homes'[head'[v]]
  BY DEF IInv, NotesApart, TypeOK
<1> QED BY <1>2, <1>3, <1>4 DEF NotesApart

\* Who is present in a worktree is among the holders of what is HEAD there.
LEMMA HeadHolds ==
  ASSUME IInv, NEW w \in Worktree
  PROVE  head[w] \in Commits /\ Present(w) \subseteq Holders(head[w])
BY DEF IInv, NotesApart, Holders, TypeOK

LEMMA WriteNoteMirrorInv ==
  ASSUME AttributionAssumption, IInv, NEW k \in Committer, WriteNoteMirror(k)
  PROVE  IInv'
<1>d. PICK w, ids, c : w = place[k] /\ ids = Valid(Resolve(w, env[k])) /\ c = head[w]
  OBVIOUS
<1> USE DEF registryVars, headVars
<1>0. UNCHANGED <<registryVars, commitVars, headVars, from, att, signed, visited, named>>
  BY DEF WriteNoteMirror
<1>1. w \in Worktree /\ env[k] \in Env
      /\ (env[k].named \cup {env[k].thread}) \cap Session \subseteq named[w]
  BY <1>d DEF WriteNoteMirror, IInv, TypeOK, HooksApart
<1>2. ids \subseteq Session /\ ids \subseteq Present(w)
  <2>1. ids \subseteq Session
    BY <1>1, <1>d, ResolveType DEF Valid
  <2>2. ids \subseteq Around(w) \cup ((env[k].named \cup {env[k].thread}) \cap Session)
    BY <1>1, <1>d, ResolveApart DEF IInv
  <2> QED BY <2>1, <2>2, <1>1 DEF Present
<1>3. c \in Commits /\ Present(w) \subseteq Holders(c)
  BY <1>1, <1>d, HeadHolds
<1>4. \A v \in Worktree : Present(v)' = Present(v)
  BY <1>0, AroundSame DEF Present
<1>5. CASE EndHooks(k) /\ UNCHANGED note
  <2>1. TypeOK'
    BY <1>0, <1>5, EndHooksApart DEF IInv, TypeOK, commitVars
  <2>2. LinesApart' /\ NotesApart' /\ Kept'
    BY <1>0, <1>5, ApartFrame
  <2>3. HooksApart' /\ RecordsTrue'
    BY <1>0, <1>5, EndHooksApart DEF IInv, RecordsTrue
  <2> QED BY <2>1, <2>2, <2>3 DEF IInv
<1>6. CASE /\ found' = [found EXCEPT ![k] = ids]
           /\ note' \in {note, [note EXCEPT ![c] = ids]}
           /\ pc' = [pc EXCEPT ![k] = "attest"]
           /\ UNCHANGED <<place, env>>
  <2>1. TypeOK'
    BY <1>0, <1>2, <1>6 DEF IInv, TypeOK, commitVars
  <2>2. note'[c] \cup att'[c].sessions \subseteq Holders(c)'
    <3>1. Holders(c)' = Holders(c)
      <4>1. homes[c] \subseteq Worktree /\ homes' = homes
        BY <1>0, <1>3 DEF IInv, TypeOK
      <4> QED BY <4>1, <1>4 DEF Holders
    <3>2. note'[c] \subseteq note[c] \cup ids
      BY <1>3, <1>6 DEF IInv, TypeOK
    <3> QED BY <3>1, <3>2, <1>0, <1>2, <1>3 DEF IInv, NotesApart
  <2>3. \A d \in Commits : d # c => note'[d] = note[d] /\ att'[d] = att[d]
    BY <1>0, <1>6 DEF IInv, TypeOK
  <2>4. LinesApart' /\ NotesApart' /\ Kept'
    BY <2>2, <2>3, <1>0, <1>3, NoteApart
  <2>5. RecordsTrue'
    BY <1>0 DEF IInv, RecordsTrue
  <2>6. HooksApart'
    <3>1. pc'[k] = "attest" /\ found'[k] = ids /\ place'[k] = w /\ env'[k] = env[k]
      BY <1>6, <1>d DEF IInv, TypeOK
    <3>2. \A j \in Committer \ {k} : /\ pc'[j] = pc[j] /\ place'[j] = place[j]
                                    /\ env'[j] = env[j] /\ found'[j] = found[j]
      BY <1>6 DEF IInv, TypeOK
    <3> QED BY <3>1, <3>2, <1>0, <1>1, <1>2, <1>4 DEF IInv, HooksApart
  <2> QED BY <2>1, <2>4, <2>5, <2>6 DEF IInv
<1> QED BY <1>5, <1>6, <1>d DEF WriteNoteMirror

LEMMA WriteAttestationInv ==
  ASSUME AttributionAssumption, IInv, NEW k \in Committer, WriteAttestation(k)
  PROVE  IInv'
<1> PICK c : c = head[place[k]]
  OBVIOUS
<1> USE DEF registryVars, headVars
<1>0. /\ att' = [att EXCEPT ![c] = [commit |-> c, sessions |-> found[k]]]
      /\ signed' = signed \cup ({c} \X found[k])
      /\ EndHooks(k)
      /\ UNCHANGED <<registryVars, commitVars, headVars, from, note, visited, named>>
  BY DEF WriteAttestation
<1>1. place[k] \in Worktree /\ found[k] \subseteq Present(place[k]) /\ found[k] \subseteq Session
  BY DEF WriteAttestation, IInv, TypeOK, HooksApart
<1>2. c \in Commits /\ Present(place[k]) \subseteq Holders(c)
  BY <1>1, HeadHolds
<1>3. TypeOK'
  <2>1. att' \in [Commits -> [commit : Commits, sessions : SUBSET Session]]
        /\ signed' \subseteq Commits \X Session
    BY <1>0, <1>1, <1>2 DEF IInv, TypeOK
  <2> QED BY <2>1, <1>0, EndHooksApart DEF IInv, TypeOK, commitVars
<1>4. note'[c] \cup att'[c].sessions \subseteq Holders(c)'
  <2>1. Holders(c)' = Holders(c)
    <3>1. \A v \in Worktree : Present(v)' = Present(v)
      BY <1>0, AroundSame DEF Present
    <3>2. homes[c] \subseteq Worktree /\ homes' = homes
      BY <1>0, <1>2 DEF IInv, TypeOK
    <3> QED BY <3>1, <3>2 DEF Holders
  <2>2. att'[c].sessions = found[k]
    BY <1>0, <1>2 DEF IInv, TypeOK
  <2> QED BY <2>1, <2>2, <1>0, <1>1, <1>2 DEF IInv, NotesApart
<1>5. \A d \in Commits : d # c => note'[d] = note[d] /\ att'[d] = att[d]
  BY <1>0 DEF IInv, TypeOK
<1>6. LinesApart' /\ NotesApart' /\ Kept'
  BY <1>4, <1>5, <1>0, <1>2, NoteApart
<1>7. RecordsTrue' /\ HooksApart'
  BY <1>0, EndHooksApart DEF IInv, RecordsTrue
<1> QED BY <1>3, <1>6, <1>7 DEF IInv

LEMMA CopyNotesInv ==
  ASSUME AttributionAssumption, IInv, NEW c \in Commit, NEW q \in Commit, CopyNotes(c, q)
  PROVE  IInv'
<1> USE DEF registryVars, hookVars
<1>0. /\ from' = [from EXCEPT ![c] = @ \ {q}]
      /\ note' = [note EXCEPT ![c] = @ \cup note[q]]
      /\ homes' = [homes EXCEPT ![c] = @ \cup homes[q]]
      /\ UNCHANGED <<registryVars, commitVars, head, signed, hookVars, visited, named>>
  BY DEF CopyNotes
<1>1. PICK a \in {att[c], att[q], NoAtt} : att' = [att EXCEPT ![c] = a]
  BY DEF CopyNotes
<1>2. c \in Commits /\ q \in Commits
  BY DEF Commit, Commits, Base
<1>3. a \in [commit : Commits, sessions : SUBSET Session]
      /\ a.sessions \subseteq att[c].sessions \cup att[q].sessions
  <2>1. att[c] \in [commit : Commits, sessions : SUBSET Session]
        /\ att[q] \in [commit : Commits, sessions : SUBSET Session]
    BY <1>2 DEF IInv, TypeOK
  <2>2. CASE a \in {att[c], att[q]}
    BY <2>1, <2>2
  <2>3. CASE a = NoAtt
    <3>1. Base \in Commits
      BY DEF Commits, Base, AttributionAssumption
    <3> QED BY <2>3, <3>1 DEF NoAtt
  <2> QED BY <2>2, <2>3
<1>4. TypeOK'
  BY <1>0, <1>1, <1>2, <1>3 DEF IInv, TypeOK, commitVars
<1>5. note'[c] \cup att'[c].sessions \subseteq Holders(c)'
  <2>1. Holders(c)' = Holders(c) \cup Holders(q)
    <3>1. \A v \in Worktree : Present(v)' = Present(v)
      BY <1>0, AroundSame DEF Present
    <3>2. homes'[c] = homes[c] \cup homes[q] /\ homes'[c] \subseteq Worktree
      BY <1>0, <1>2 DEF IInv, TypeOK
    <3>3. Holders(c)' = UNION {Present(v) : v \in homes[c] \cup homes[q]}
      BY <3>1, <3>2 DEF Holders
    <3> QED BY <3>3 DEF Holders
  <2>2. att'[c] = a /\ note'[c] = note[c] \cup note[q]
    BY <1>0, <1>1, <1>2 DEF IInv, TypeOK
  <2> QED BY <2>1, <2>2, <1>2, <1>3 DEF IInv, NotesApart
<1>6. \A d \in Commits : /\ d # c => note'[d] = note[d] /\ att'[d] = att[d]
                         /\ homes[d] \subseteq homes'[d]
  BY <1>0, <1>1 DEF IInv, TypeOK
<1>7. LinesApart' /\ NotesApart' /\ Kept'
  BY <1>5, <1>6, <1>0, <1>2, NoteApart
<1>8. RecordsTrue' /\ HooksApart'
  BY <1>0, AroundSame DEF IInv, RecordsTrue, HooksApart, Present
<1> QED BY <1>4, <1>7, <1>8 DEF IInv

-----------------------------------------------------------------------------
(***************************************************************************)
(* Theorems                                                                *)
(***************************************************************************)

LEMMA InitInv == AttributionAssumption /\ Init => IInv
<1> SUFFICES ASSUME AttributionAssumption, Init PROVE IInv
  OBVIOUS
<1> USE DEF Init, Base
<1>1. TypeOK
  <2>1. 0 \in Commits /\ n \in Commits
    BY DEF Commits, AttributionAssumption
  <2>2. now \in 0..MaxTouches /\ cutoff \in 0..(MaxTouches + 1)
        /\ rec \in [Session -> [tree : Worktree \cup {Outside}, at : 0..MaxTouches]]
    BY DEF NoRecord, AttributionAssumption
  <2>3. anc \in [Commits -> SUBSET Commits]
    BY <2>1
  <2>4. att \in [Commits -> [commit : Commits, sessions : SUBSET Session]]
    BY <2>1 DEF NoAtt
  <2>5. env \in [Committer -> Env]
    BY DEF AttributionAssumption
  <2> QED BY <2>1, <2>2, <2>3, <2>4, <2>5 DEF TypeOK
<1>2. LinesApart /\ NotesApart /\ Kept
  BY DEF LinesApart, NotesApart, Kept, Commits, Commit, NoAtt, AttributionAssumption
<1>3. RecordsTrue /\ HooksApart
  BY DEF RecordsTrue, HooksApart, NoRecord, AttributionAssumption
<1> QED BY <1>1, <1>2, <1>3 DEF IInv

LEMMA StepInv == AttributionAssumption /\ IInv /\ [Next]_vars => IInv'
<1> SUFFICES ASSUME AttributionAssumption, IInv, [Next]_vars PROVE IInv'
  OBVIOUS
<1>1. ASSUME NEW s \in Session, NEW d \in Worktree \cup {Outside}, WriteSessionRecord(s, d)
      PROVE  IInv'
  BY <1>1, WriteSessionRecordInv
<1>2. ASSUME NEW s \in Session, RemoveSessionRecord(s) PROVE IInv'
  BY <1>2, RemoveSessionRecordInv
<1>3. CASE RecordsAge
  BY <1>3, RecordsAgeInv
<1>4. ASSUME NEW k \in Committer, NEW w \in Worktree, NEW H \in SUBSET Session,
             CommitNew(k, w, H)
      PROVE  IInv'
  BY <1>4, CommitNewInv
<1>5. ASSUME NEW k \in Committer, NEW w \in Worktree, NEW H \in SUBSET Session,
             Amend(k, w, H)
      PROVE  IInv'
  BY <1>5, AmendInv
<1>6. ASSUME NEW k \in Committer, NEW w \in Worktree, NEW H \in SUBSET Session,
             Squash(k, w, H)
      PROVE  IInv'
  BY <1>6, SquashInv
<1>7. ASSUME NEW k \in Committer, NEW w \in Worktree, NEW v \in Worktree,
             NEW H \in SUBSET Session, MergeFrom(k, w, v, H)
      PROVE  IInv'
  BY <1>7, MergeFromInv
<1>8. ASSUME NEW k \in Committer, WriteNoteMirror(k) PROVE IInv'
  BY <1>8, WriteNoteMirrorInv
<1>9. ASSUME NEW k \in Committer, WriteAttestation(k) PROVE IInv'
  BY <1>9, WriteAttestationInv
<1>10. ASSUME NEW k \in Committer, SkipPostCommit(k) PROVE IInv'
  BY <1>10, SkipPostCommitInv
<1>11. ASSUME NEW c \in Commit, NEW q \in Commit, CopyNotes(c, q) PROVE IInv'
  BY <1>11, CopyNotesInv
<1>12. ASSUME NEW k \in Committer, NEW w \in Worktree, NEW c \in Commit,
              NEW H \in SUBSET Session, CherryPick(k, w, c, H)
       PROVE  IInv'
  BY <1>12, CherryPickInv
<1>13. ASSUME NEW w \in Worktree, NEW c \in Commits, MoveHead(w, c) PROVE IInv'
  BY <1>13, MoveHeadInv
<1>14. CASE UNCHANGED vars
  <2> USE <1>14 DEF vars, registryVars, notesVars, hookVars
  <2>1. TypeOK' /\ RecordsTrue'
    BY DEF IInv, TypeOK, RecordsTrue, commitVars, headVars
  <2>2. LinesApart' /\ NotesApart' /\ Kept'
    BY ApartFrame
  <2>3. HooksApart'
    BY AroundSame DEF IInv, HooksApart, Present
  <2> QED BY <2>1, <2>2, <2>3 DEF IInv
<1> QED BY <1>1, <1>2, <1>3, <1>4, <1>5, <1>6, <1>7, <1>8, <1>9, <1>10, <1>11, <1>12, <1>13,
      <1>14 DEF Next

THEOREM Invariant == Spec => []IInv
<1>1. Init => IInv
  BY InitInv, AttributionAssumption
<1>2. IInv /\ [Next]_vars => IInv'
  BY StepInv, AttributionAssumption
<1> QED BY <1>1, <1>2, PTL DEF Spec

(***************************************************************************)
(* Every variable has its type: only well-formed ids are ever written.     *)
(***************************************************************************)
THEOREM TypeCorrect == Spec => []TypeOK
<1>1. IInv => TypeOK
  BY DEF IInv
<1> QED BY <1>1, Invariant, PTL

(***************************************************************************)
(* The hooks add to a commit only sessions present around it, through      *)
(* picks and rewrites of what was made elsewhere.                          *)
(***************************************************************************)
THEOREM TreesApartHolds == Spec => []TreesApart
<1>1. ASSUME IInv PROVE TreesApart
  <2>1. 0..n \subseteq Commits /\ 1..n \subseteq Commit
    BY <1>1, CommitTypes, AttributionAssumption DEF IInv, TypeOK
  <2>2. \A c \in 1..n : block[c] \cup text[c] \subseteq brought[c] \cup Present(tree[c])
    BY <1>1, <2>1 DEF IInv, LinesApart
  <2>3. \A c \in 0..n :
          note[c] \cup att[c].sessions \subseteq UNION {Present(w) : w \in homes[c]}
    BY <1>1, <2>1 DEF IInv, NotesApart, Holders
  <2> QED BY <2>2, <2>3 DEF TreesApart
<1> QED BY <1>1, Invariant, PTL

\* What an attestation in some note says was signed, was.
LEMMA SignedInvHolds == Spec => []SignedInv
<1>1. Init => SignedInv
  BY DEF Init, SignedInv, NoAtt
<1>2. ASSUME IInv, SignedInv, [Next]_vars PROVE SignedInv'
  <2>1. CASE UNCHANGED <<att, signed>>
    BY <1>2, <2>1 DEF SignedInv
  <2>2. ASSUME NEW k \in Committer, WriteAttestation(k) PROVE SignedInv'
    BY <1>2, <2>2 DEF WriteAttestation, SignedInv, IInv, TypeOK
  <2>3. ASSUME NEW c \in Commit, NEW q \in Commit, CopyNotes(c, q) PROVE SignedInv'
    <3>1. q \in Commits
      BY DEF Commit, Commits, Base
    <3>2. PICK a \in {att[c], att[q], NoAtt} : att' = [att EXCEPT ![c] = a]
      BY <2>3 DEF CopyNotes
    <3>3. signed' = signed /\ NoAtt.sessions = {}
      BY <2>3 DEF CopyNotes, NoAtt
    <3>4. c \in Commits
      BY DEF Commit, Commits, Base
    <3>5. {a.commit} \X a.sessions \subseteq signed
      BY <1>2, <3>1, <3>2, <3>3, <3>4 DEF SignedInv
    <3>6. \A d \in Commits : att'[d] \in {att[d], a}
      BY <1>2, <3>2 DEF IInv, TypeOK
    <3> QED BY <1>2, <3>3, <3>5, <3>6 DEF SignedInv
  <2>4. ASSUME Next PROVE \/ UNCHANGED <<att, signed>>
                          \/ \E k \in Committer : WriteAttestation(k)
                          \/ \E c, q \in Commit : CopyNotes(c, q)
    <3> USE DEF notesVars
    <3>1. ASSUME NEW s \in Session, NEW d \in Worktree \cup {Outside},
                 WriteSessionRecord(s, d) \/ RemoveSessionRecord(s)
          PROVE  UNCHANGED <<att, signed>>
      BY <3>1 DEF WriteSessionRecord, RemoveSessionRecord
    <3>2. ASSUME NEW k \in Committer, NEW w, NEW v, NEW c, NEW H,
                 \/ CommitNew(k, w, H) \/ CherryPick(k, w, c, H) \/ Amend(k, w, H)
                 \/ Squash(k, w, H) \/ MergeFrom(k, w, v, H)
          PROVE  UNCHANGED <<att, signed>>
      BY <3>2 DEF CommitNew, CherryPick, Amend, Squash, MergeFrom, MakeCommit
    <3>3. ASSUME NEW k \in Committer, WriteNoteMirror(k) \/ SkipPostCommit(k)
          PROVE  UNCHANGED <<att, signed>>
      BY <3>3 DEF WriteNoteMirror, SkipPostCommit
    <3>4. ASSUME RecordsAge \/ \E w, c : MoveHead(w, c) PROVE UNCHANGED <<att, signed>>
      BY <3>4 DEF RecordsAge, MoveHead
    <3> QED BY <2>4, <3>1, <3>2, <3>3, <3>4 DEF Next
  <2>5. CASE UNCHANGED vars
    BY <2>1, <2>5 DEF vars, notesVars
  <2> QED BY <1>2, <2>1, <2>2, <2>3, <2>4, <2>5
<1> QED BY <1>1, <1>2, Invariant, PTL DEF Spec

(***************************************************************************)
(* An attestation is presented for a claim only if that commit was signed  *)
(* with that session.                                                      *)
(***************************************************************************)
THEOREM EvidenceBoundHolds == Spec => []EvidenceBound
<1>1. SignedInv => EvidenceBound
  BY DEF SignedInv, EvidenceBound, Evidence
<1> QED BY <1>1, SignedInvHolds, PTL

(***************************************************************************)
(* Whoever is owed to a stamped commit is claimed as a trailer, or          *)
(* trailers use up the cap.                                                *)
(***************************************************************************)
THEOREM HealedAsTrailerHolds == Spec => []HealedAsTrailer
<1>1. ASSUME IInv PROVE HealedAsTrailer
  <2> SUFFICES ASSUME NEW S \in Scopes, NEW c \in S \cap stamped, NEW id \in owed[c],
                      NEW fetched \in BOOLEAN, NEW cap \in 1..MaxSessions,
                      NEW G \in Gathered(S, fetched, cap)
               PROVE  \/ \E claim \in G : claim.id = id /\ claim.src = "trailer"
                      \/ Cardinality(G) = cap /\ \A claim \in G : claim.src = "trailer"
    BY DEF HealedAsTrailer
  <2> DEFINE all == Candidates(S, fetched)
             best == Claim(id, "trailer", {d \in S : id \in block[d]})
  <2>1. id \in TrailerIds(S)
    <3>1. c \in Commit
      BY <1>1 DEF IInv, TypeOK
    <3>2. owed[c] \subseteq block[c]
      BY <1>1, <3>1 DEF IInv, Kept
    <3> QED BY <3>2 DEF TrailerIds
  <2>2. best \in all
    BY <2>1 DEF Candidates
  <2>3. best.id = id /\ best.src = "trailer"
    BY DEF Claim
  <2>4. \A claim \in all : claim.src \in {"trailer", "body", "note"}
    <3> SUFFICES ASSUME NEW claim \in all PROVE claim.src \in {"trailer", "body", "note"}
      OBVIOUS
    <3>1. \E id2, src, X : claim = Claim(id2, src, X) /\ src \in {"trailer", "body", "note"}
      BY DEF Candidates
    <3> QED BY <3>1 DEF Claim
  <2>5. /\ G \subseteq all
        /\ G # all => Cardinality(G) = cap
        /\ \A a \in G, d \in all \ G : ~MetBefore(d, a)
    BY DEF Gathered
  <2> HIDE DEF all, best
  <2>6. CASE best \in G
    BY <2>3, <2>6
  <2>7. CASE best \notin G
    <3>1. Cardinality(G) = cap
      BY <2>2, <2>5, <2>7
    <3>2. ASSUME NEW claim \in G PROVE claim.src = "trailer"
      <4>1. ~(Pass(best) < Pass(claim))
        BY <2>2, <2>5, <2>7 DEF MetBefore
      <4>2. Pass(best) = 1
        BY <2>3 DEF Pass
      <4>3. claim.src # "trailer" => Pass(claim) \in {2, 3}
        BY DEF Pass
      <4> QED BY <4>1, <4>2, <4>3
    <3> QED BY <3>1, <3>2
  <2> QED BY <2>6, <2>7
<1> QED BY <1>1, Invariant, PTL
=============================================================================
