-------------------------- MODULE EducationalSession --------------------------
(***************************************************************************)
(* The educational plans of a session                                      *)
(* (src/advisor/educational-session.js) as operators on the sequence of    *)
(* its entries, oldest first.  An entry keeps the revisions of one plan: a *)
(* map from their numbers to records, and the numbers of those that were   *)
(* dropped.                                                                *)
(***************************************************************************)
EXTENDS EducationalPlanning

CONSTANTS
  MaxEducational,         \* plans a session keeps
  MaxEducationalRevisions,
  MaxEducationalTombstones

ASSUME EducationalAssumption ==
  {MaxEducational, MaxEducationalRevisions, MaxEducationalTombstones} \subseteq Nat \ {0}

Record(plan) == [state |-> plan.status, plan |-> plan, draft |-> <<>>]

EntryAt(entries, id) == {i \in DOMAIN entries : entries[i].id = id}

\* currentRecord: the entry of the plan, if `revision` is its current one.
CurrentAt(entries, id, revision) ==
  {i \in EntryAt(entries, id) :
     revision = entries[i].current /\ revision \in DOMAIN entries[i].revisions}

CurrentPlan(entries, i) == entries[i].revisions[entries[i].current].plan

Least(s) == CHOOSE x \in s : \A y \in s : x <= y
Largest(n, s) == {x \in s : Cardinality({y \in s : y > x}) < n}

\* createEducationalSessionPlan
Room(entries) == Recent(entries, MaxEducational - 1)
WithPlan(entries, id, plan) ==
  Append(Room(entries),
         [id |-> id, current |-> 1, revisions |-> [r \in {1} |-> Record(plan)], tombs |-> {}])

\* Fault: the oldest revision goes without a trace.
FaultCompacted(entry) ==
  LET kept == Largest(MaxEducationalRevisions, DOMAIN entry.revisions)
  IN [entry EXCEPT !.revisions = [r \in kept |-> entry.revisions[r]]]

\* compactEducationalRevisions.  The current revision is the largest: the
\* ones dropped are the oldest.
Compacted(entry) ==
  LET kept == Largest(MaxEducationalRevisions, DOMAIN entry.revisions)
  IN [entry EXCEPT
        !.revisions = [r \in kept |-> entry.revisions[r]],
        !.tombs = Largest(MaxEducationalTombstones, @ \cup (DOMAIN entry.revisions \ kept))]

\* reviseEducationalSessionPlan for the entry at i.
Revised(entries, i, input, snapshot, at) ==
  LET entry == entries[i]
      plan == Edited(CurrentPlan(entries, i), input, snapshot, at)
      replaced == [entry.revisions EXCEPT ![entry.current].state = "SUPERSEDED"]
      revisions == [r \in DOMAIN replaced \cup {plan.revision} |->
                      IF r = plan.revision THEN Record(plan) ELSE replaced[r]]
  IN [entries EXCEPT ![i] =
        Compacted([entry EXCEPT !.current = plan.revision, !.revisions = revisions])]

\* createEducationalSessionHandoff for the entry at i: a refusal leaves its
\* mark on the record, a success its draft.
HandoffOpen(entries, i, leg) ==
  /\ entries[i].revisions[entries[i].current].draft = <<>>
  /\ leg \in At(CurrentPlan(entries, i).legs)

HandedOver(entries, i, id, leg, side, at) ==
  LET plan == CurrentPlan(entries, i)
      outcome == Selected(plan, leg, side, at)
      record == [entries[i].revisions[entries[i].current] EXCEPT !.state = outcome]
  IN [entries EXCEPT ![i].revisions[entries[i].current] =
        IF outcome # "DRAFT_CREATED_NOT_AUTHORIZED" THEN record
        ELSE [record EXCEPT !.plan.handoff = id, !.draft = <<Draft(id, plan, leg, side, at)>>]]

=============================================================================
