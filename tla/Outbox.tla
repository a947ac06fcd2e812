------------------------------- MODULE Outbox -------------------------------
(***************************************************************************)
(* What the spool promises whoever records an event, without its files and *)
(* processes: at-least-once delivery with bounded effort.  An entry waits  *)
(* on disk while it is tried, and leaves only with a reason: core has      *)
(* confirmed it, the tries are used up, it cannot be sent, or a write went *)
(* amiss.  A confirmed entry is not tried again.  Of an entry that a kill  *)
(* or a reclaim has disturbed only the first is promised.                  *)
(***************************************************************************)
EXTENDS Naturals

CONSTANTS Entries,
          Hopeless,   \* entries that cannot be sent
          Tries       \* how often an entry is taken up, at most

VARIABLES known,      \* entries that were handed over
          waiting,    \* entries on disk
          tries,      \* how often each was taken up
          stored, confirmed,   \* what core has, and has acknowledged
          abandoned,  \* entries whose tries were used up
          missed,     \* entries a write of which went amiss
          disturbed   \* entries for which a drain was killed or overtaken

outboxVars == <<known, waiting, tries, stored, confirmed, abandoned, missed, disturbed>>

OutboxInit ==
  /\ known = {} /\ waiting = {} /\ stored = {} /\ confirmed = {}
  /\ abandoned = {} /\ missed = {} /\ disturbed = {}
  /\ tries = [e \in Entries |-> 0]

\* An entry that is still the outbox's to send.
Due(e) == e \in waiting \ (confirmed \cup abandoned)

\* Entries are handed over once; a write that comes too late may be missed.
Enter(e) ==
  /\ e \notin known
  /\ known' = known \cup {e}
  /\ \/ waiting' = waiting \cup {e} /\ missed' \in {missed, missed \cup {e}}
     \/ waiting' = waiting /\ missed' = missed \cup {e}
  /\ UNCHANGED <<tries, stored, confirmed, abandoned, disturbed>>

\* Entries are taken up to be sent, each so often.
Take(E) ==
  /\ E \subseteq waiting
  /\ tries' \in [Entries -> Nat]
  /\ \A e \in Entries \ disturbed :
       IF e \in E THEN Due(e) /\ tries[e] < Tries /\ tries'[e] = tries[e] + 1
                  ELSE tries'[e] = tries[e]
  /\ UNCHANGED <<known, waiting, stored, confirmed, abandoned, missed, disturbed>>

\* Core may store an entry, and its acknowledgement may arrive.
Send(e) ==
  /\ e \in known \ Hopeless
  /\ (Due(e) /\ tries[e] > 0) \/ e \in disturbed
  /\ \/ stored' = stored \cup {e} /\ confirmed' = confirmed \cup {e}
     \/ stored' \in {stored, stored \cup {e}} /\ confirmed' = confirmed
  /\ UNCHANGED <<known, waiting, tries, abandoned, missed, disturbed>>

GiveUp(E) ==
  /\ \A e \in E \ disturbed : Due(e) /\ tries[e] = Tries
  /\ abandoned' = abandoned \cup E
  /\ UNCHANGED <<known, waiting, tries, stored, confirmed, missed, disturbed>>

\* Entries are written again for their next try; the write may be missed.
CarryOver(E) ==
  /\ \A e \in E \ disturbed : Due(e)
  /\ waiting' \in {waiting, waiting \cup E}
  /\ missed' \in {missed, missed \cup E}
  /\ UNCHANGED <<known, tries, stored, confirmed, abandoned, disturbed>>

\* An entry leaves with a reason: that core has it without having said so is none.
Leave(E) ==
  /\ E \subseteq waiting /\ E \subseteq confirmed \cup abandoned \cup missed \cup Hopeless
  /\ waiting' = waiting \ E
  /\ UNCHANGED <<known, tries, stored, confirmed, abandoned, missed, disturbed>>

Disturb(E) ==
  /\ E \subseteq waiting
  /\ disturbed' = disturbed \cup E
  /\ UNCHANGED <<known, waiting, tries, stored, confirmed, abandoned, missed>>

OutboxNext ==
  \/ \E e \in Entries : Enter(e) \/ Send(e)
  \/ \E E \in SUBSET Entries : Take(E) \/ GiveUp(E) \/ CarryOver(E) \/ Leave(E) \/ Disturb(E)

OutboxSpec == OutboxInit /\ [][OutboxNext]_outboxVars
=============================================================================
