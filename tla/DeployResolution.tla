-------------------------- MODULE DeployResolution --------------------------
(***************************************************************************)
(* What the deploy action makes of the commits of Attribution              *)
(* (src/actions/openbox-git-action/resolve.go).  A resolution reads a      *)
(* checkout that nobody changes meanwhile, so it is a function of the      *)
(* repository and of whether the notes were fetched.                       *)
(***************************************************************************)
EXTENDS Attribution

CONSTANTS
  MaxWalk,       \* Resolver.MaxCommits
  MaxSessions    \* Resolver.MaxSessions

ASSUME ResolutionAssumption ==
  /\ MaxWalk \in Nat \ {0} /\ MaxSessions \in Nat \ {0}

NoBase == -1

\* rev-list lists the newest first; past the cap the rest is not walked.
Newest(S, limit) == {c \in S : Cardinality({d \in S : d > c}) < limit}

\* The commits in question: a given range, what a merge introduced, or the commit.
Range(t, b) ==
  CASE b # NoBase /\ anc[t] \subseteq anc[b] -> {t}
    [] b # NoBase /\ ~(anc[t] \subseteq anc[b]) -> anc[t] \ anc[b]
    [] b = NoBase /\ t \in merge -> anc[t] \ anc[first[t]]
    [] OTHER -> {t}

Scope(t, b) == Newest(Range(t, b), MaxWalk)

\* The first commit of S that the walk meets.
Earliest(S) == CHOOSE c \in S : \A d \in S : d <= c

Claim(id, src, S) == [id |-> id, src |-> src, commit |-> Earliest(S)]

\* The three passes over a scope.
TrailerIds(S) == UNION {block[c] : c \in S}
BodyIds(S)    == UNION {text[c] \ block[c] : c \in S}
\* A commit whose own message named nobody.
Silent(S)     == {c \in S : block[c] \cup text[c] = {}}
NoteIds(S)    == UNION {note[c] : c \in Silent(S)}

\* gatherClaims without its cap: an id is claimed once, by the first pass that
\* meets it, and for the first commit of that pass.
Candidates(S, fetched) ==
  {Claim(id, "trailer", {c \in S : id \in block[c]}) : id \in TrailerIds(S)}
  \cup {Claim(id, "body", {c \in S : id \in text[c] \ block[c]}) :
          id \in BodyIds(S) \ TrailerIds(S)}
  \cup (IF fetched
        THEN {Claim(id, "note", {c \in Silent(S) : id \in note[c]}) :
                id \in NoteIds(S) \ (TrailerIds(S) \cup BodyIds(S))}
        ELSE {})

Pass(claim) == CASE claim.src = "trailer" -> 1
                 [] claim.src = "body" -> 2
                 [] OTHER -> 3

\* The order claims are met in; that of the lines of one message is left open.
MetBefore(a, b) ==
  \/ Pass(a) < Pass(b)
  \/ Pass(a) = Pass(b) /\ a.commit > b.commit

\* gatherClaims: the first cap candidates.
Gathered(S, fetched, cap) ==
  LET all == Candidates(S, fetched) IN
  {G \in SUBSET all :
     /\ Cardinality(G) <= cap
     /\ G # all => Cardinality(G) = cap
     /\ \A a \in G, b \in all \ G : ~MetBefore(b, a)}

\* Mutant: whatever note is on the commit.
EvidenceUnbound(claim, fetched) ==
  fetched /\ claim.commit \in Commits /\ claim.id \in att[claim.commit].sessions

\* attachAttestations: the note must be about its commit and name the session.
Evidence(claim, fetched) ==
  /\ fetched
  /\ claim.commit \in Commits
  /\ att[claim.commit].commit = claim.commit
  /\ claim.id \in att[claim.commit].sessions

-----------------------------------------------------------------------------
(***************************************************************************)
(* Properties                                                              *)
(***************************************************************************)

\* Of every commit that may be pushed, on every base.
Scopes == {Scope(t, b) : t \in 1..n, b \in (0..n) \cup {NoBase}}

(***************************************************************************)
(* Squash healing (trailer.go:72-81): whatever picks, squashes and rewrites *)
(* a session's commit went through, with the hook or without, once the hook *)
(* stamps the message that became of it the deploy action claims the        *)
(* session as a trailer again, unless trailers use up the cap.  Lost are    *)
(* only sessions whose message a fixup or -m dropped, or whose lines were   *)
(* deleted in the editor, and not stamped since.                            *)
(***************************************************************************)
HealedAsTrailer ==
  \A S \in Scopes : \A c \in S \cap stamped : \A id \in owed[c] :
    \A fetched \in BOOLEAN, cap \in 1..MaxSessions : \A G \in Gathered(S, fetched, cap) :
      \/ \E claim \in G : claim.id = id /\ claim.src = "trailer"
      \/ Cardinality(G) = cap /\ \A claim \in G : claim.src = "trailer"

(***************************************************************************)
(* An attestation is presented for a claim only if that very commit was    *)
(* signed with that very session (resolve.go:443-455), wherever git has    *)
(* copied the note since.                                                  *)
(***************************************************************************)
EvidenceBound ==
  \A S \in Scopes : \A claim \in Candidates(S, TRUE) :
    Evidence(claim, TRUE) => <<claim.commit, claim.id>> \in signed
=============================================================================
