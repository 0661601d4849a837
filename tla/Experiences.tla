----------------------------- MODULE Experiences -----------------------------
(***************************************************************************)
(* One experience of the library: its fields, its evidence and their       *)
(* revisions, written by concurrent requests and by approved proposals of  *)
(* the assistant (app/experience/services, app/experience/repositories).   *)
(* A request reads the experience once, outside any transaction (SQLite    *)
(* begins one at the first write), and the session keeps that copy.  Its   *)
(* first write takes the write lock; from there to the commit it is alone. *)
(* A proposal is applied inside the transaction of its tool call, so it    *)
(* reads under the lock (ToolCalls).                                       *)
(***************************************************************************)
EXTENDS Naturals, Sequences, FiniteSets, SequencesExt

CONSTANTS
  Clients,       \* editors: one request each at a time
  OtherPoints,   \* points of the dimensions that are not modelled
  MaxCommits,    \* bound: commits after the creation
  MaxEvidence,   \* bound: evidence ids
  MaxEdited,     \* bound: changes in one request
  Drafts,        \* experiences a client may create: values and contents of the evidence
  Operations     \* the endpoints that are in use

ASSUME Bounds == MaxCommits \in Nat \ {0} /\ MaxEvidence \in Nat /\ MaxEdited \in Nat
ASSUME Points == OtherPoints \in 0..45

(* Three of the twelve fields.  0 is empty (None, False), 1 is filled; the  *)
(* content of an evidence item is 1 if it has a result.  Its action is never blank. *)
Fields == {"role", "end_date", "is_current"}
Values == {0, 1}
EvidenceIds == 1..MaxEvidence

(* The schemas of the create and save requests. *)
ASSUME DraftsTyped ==
  \A d \in Drafts : /\ d.fields \in [Fields -> Values] /\ d.contents \in Seq(Values)
                    /\ Len(d.contents) <= MaxEvidence

READY_COMPLETENESS_THRESHOLD == 60

VARIABLES
  experience,  \* row of experience_items with its links, or Absent
  evidence,    \* table evidence_items
  revisions,   \* table experience_revisions
  states,      \* table experience_field_states: TRUE is complete
  seen,        \* per client: the detail it last received
  request,     \* per client: what its handler has read and is about to write
  proposal,    \* the conversation of the assistant
  commits

vars == <<experience, evidence, revisions, states, seen, request, proposal, commits>>

Statuses == {"draft", "ready", "archived"}
Nothing == [none |-> TRUE]
Absent == [status |-> "absent", fields |-> [f \in Fields |-> 0], completeness |-> 0, links |-> <<>>]
Ids(links) == {links[i] : i \in DOMAIN links}
Stored == experience.status # "absent"

----------------------------------------------------------------------------
(* Pure rules.                                                             *)

(* mutant: every field has a revision of its own *)
save_unit_key_apart(f) == f

save_unit_key(f) == IF f \in {"end_date", "is_current"} THEN "dates" ELSE f

Units == {"role", "dates", "end_date", "is_current"}

(* mutant: only the changed field is looked at again *)
save_unit_fields_alone(f) == {f}

save_unit_fields(f) == {g \in Fields : save_unit_key(g) = save_unit_key(f)}

field_status(f, v) ==
  CASE f = "role" -> v["role"] = 1
    [] f = "end_date" -> v["is_current"] = 1 \/ v["end_date"] = 1
    [] f = "is_current" -> TRUE

(* The weights of the code.  Evidence counts once, however much there is. *)
calculate_completeness(v, contents) ==
  OtherPoints
  + (IF v["role"] = 1 THEN 10 ELSE 0)
  + (IF v["end_date"] = 1 \/ v["is_current"] = 1 THEN 10 ELSE 0)
  + (IF DOMAIN contents # {} THEN 20 ELSE 0)
  + (IF \E i \in DOMAIN contents : contents[i] = 1 THEN 15 ELSE 0)

(* Schemas and _validate_merged_dates. *)
ValidDates(v) == ~(v["is_current"] = 1 /\ v["end_date"] = 1)

Edited(v, edit) == [f \in Fields |-> IF f \in DOMAIN edit THEN edit[f] ELSE v[f]]

Edits(n) == {e \in UNION {[D -> Values] : D \in {D \in SUBSET Fields : Cardinality(D) <= n}} :
               ValidDates(Edited([f \in Fields |-> 0], e))}

(* SQLite gives a new row the id after the largest one in the table. *)
NextEvidence(rows) == 1 + Cardinality({i \in EvidenceIds : \E j \in DOMAIN rows : i <= j})

----------------------------------------------------------------------------
(* What a session works with: a copy of the row, made when it was read.    *)

Copy == [fields |-> experience.fields, status |-> experience.status,
         completeness |-> experience.completeness, links |-> experience.links,
         contents |-> [i \in Ids(experience.links) |-> evidence[i]], guided |-> FALSE]

(* The session writes a column only if it changes its copy. *)
Set(copied, new, current) == IF new = copied THEN current ELSE new

Contents(item, links, rows) ==
  [i \in Ids(links) |-> IF i \in DOMAIN item.contents THEN item.contents[i] ELSE rows[i]]

(* _recalculate_completeness: from the copy, not from the row. *)
Recalculate(item, row, rows) ==
  LET new == calculate_completeness(item.fields, Contents(item, row.links, rows))
  IN [row EXCEPT !.completeness = Set(item.completeness, new, @),
                 !.status = IF item.status = "ready" /\ new < READY_COMPLETENESS_THRESHOLD
                              THEN "draft" ELSE @]

(* _detail: values of the copy with the revisions of the table. *)
Detail(item, row, rows, revs) ==
  [fields |-> item.fields, unit |-> revs.unit, links |-> row.links,
   collection |-> revs.collection, contents |-> Contents(item, row.links, rows),
   evidence |-> [i \in Ids(row.links) |-> revs.evidence[i]]]

(* mutant: the revision is verified, not advanced *)
VerifyUnits(us) == revisions.unit

ClaimUnits(us) == [u \in Units |-> revisions.unit[u] + IF u \in us THEN 1 ELSE 0]

Without(f, ids) == [i \in DOMAIN f \ ids |-> f[i]]
With(f, i, v) == [j \in DOMAIN f \cup {i} |-> IF j = i THEN v ELSE f[j]]

(* The statuses of all members of the units that were changed. *)
AdvanceFields(changed, v) ==
  [f \in Fields |-> IF \E g \in changed : f \in save_unit_fields(g)
                      THEN field_status(f, v) ELSE states.fields[f]]

----------------------------------------------------------------------------
(* Requests of an editor, made from the detail it has seen.  What a request  *)
(* asks for is chosen when it is carried out: reading does not depend on it. *)

Kinds == {"get", "patch", "save", "add", "change", "remove", "reorder", "mark_ready",
          "archive", "restore", "delete", "assist"}

(* Changes of a save: fields, one evidence item, a new item and its place.   *)
Saves(d) ==
  {s \in [edit : Edits(MaxEdited), id : {0} \cup Ids(d.links), content : Values,
          new : {<<>>} \cup {<<v>> : v \in Values}, at : 1..(Len(d.links) + 1)] :
     /\ s.new = <<>> => s.at = 1
     /\ Cardinality(DOMAIN s.edit) + Len(s.new) + (IF s.id = 0 THEN 0 ELSE 1) <= MaxEdited}

Orders(links) == {s \in [1..Len(links) -> Ids(links)] : IsInjective(s)}

(* The tables before the experience has rows in them. *)
NoRevisions == [unit |-> [u \in Units |-> 0], collection |-> 0, evidence |-> <<>>]
NoStates == [fields |-> [f \in Fields |-> TRUE], collection |-> FALSE, evidence |-> <<>>]

Init ==
  /\ experience = Absent
  /\ evidence = <<>>
  /\ revisions = NoRevisions
  /\ states = NoStates
  /\ seen = [c \in Clients |-> Nothing]
  /\ request = [c \in Clients |-> Nothing]
  /\ proposal = [stage |-> "none"]
  /\ commits = 0

(* ExperienceService.create and the save without an id: every field, unit   *)
(* and evidence item gets its rows in the same transaction.                 *)
Create(c) ==
  \E d \in Drafts :
    LET v == d.fields  contents == d.contents  n == Len(contents)
        row == [status |-> "draft", fields |-> v, links |-> [i \in 1..n |-> i],
                completeness |-> calculate_completeness(v, contents)]
        revs == [revisions EXCEPT !.evidence = [i \in 1..n |-> 0]]
    IN
    /\ ~Stored /\ commits = 0 /\ ValidDates(v)
    /\ experience' = row
    /\ evidence' = contents
    /\ revisions' = revs
    /\ states' = [fields |-> [f \in Fields |-> field_status(f, v)], collection |-> n > 0,
                  evidence |-> [i \in 1..n |-> contents[i] = 1]]
    /\ seen' = [seen EXCEPT ![c] = Detail([fields |-> v, contents |-> contents], row, contents, revs)]
    /\ commits' = 1
    /\ UNCHANGED <<request, proposal>>

(* The handler reads the experience (_get_or_raise). *)
Begin(c) ==
  /\ Stored /\ request[c] = Nothing
  /\ request' = [request EXCEPT ![c] = Copy]
  /\ UNCHANGED <<experience, evidence, revisions, states, seen, proposal, commits>>

At(c, kind) ==
  /\ request[c] # Nothing
  /\ request[c].guided = (kind = "mark_ready")
  /\ kind = "get" \/ (kind \in Operations /\ seen[c] # Nothing)

(* The transaction commits and the client receives the detail. *)
Commit(c, item, row, rows, revs) ==
  /\ commits < MaxCommits
  /\ commits' = commits + 1
  /\ experience' = row
  /\ evidence' = rows
  /\ revisions' = revs
  /\ seen' = [seen EXCEPT ![c] = Detail(item, row, rows, revs)]
  /\ request' = [request EXCEPT ![c] = Nothing]
  /\ UNCHANGED proposal

(* 404, 409, 422 or 500: rolled back. *)
Refuse(c) ==
  /\ request' = [request EXCEPT ![c] = Nothing]
  /\ UNCHANGED <<experience, evidence, revisions, states, seen, proposal, commits>>

Get(c) ==
  /\ At(c, "get")
  /\ IF Stored
       THEN /\ seen' = [seen EXCEPT ![c] = Detail(request[c], experience, evidence, revisions)]
            /\ request' = [request EXCEPT ![c] = Nothing]
            /\ UNCHANGED <<experience, evidence, revisions, states, proposal, commits>>
       ELSE Refuse(c)

Changed(item, edit) == {f \in DOMAIN edit : item.fields[f] # edit[f]}

(* claim_experience_units: compare and swap per unit. *)
Claimed(c, us) == \A u \in us : seen[c].unit[u] = revisions.unit[u]

CollectionClaimed(c) == seen[c].collection = revisions.collection

EvidenceClaimed(c, i) ==
  i \in DOMAIN revisions.evidence /\ seen[c].evidence[i] = revisions.evidence[i]

EditFields(item, changed, edit) ==
  [experience EXCEPT !.fields = [f \in Fields |-> IF f \in changed THEN edit[f] ELSE @[f]]]

Patch(c) == At(c, "patch") /\ \E edit \in Edits(MaxEdited) :
  LET item == request[c]
      changed == Changed(item, edit)
      us == {save_unit_key(f) : f \in changed}
      new == [item EXCEPT !.fields = Edited(@, edit)]
  IN
  /\ IF Stored /\ ValidDates(new.fields) /\ Claimed(c, us)
       THEN /\ Commit(c, new, Recalculate(new, EditFields(item, changed, edit), evidence),
                      evidence, [revisions EXCEPT !.unit = ClaimUnits(us)])
            /\ states' = [states EXCEPT !.fields = AdvanceFields(changed, new.fields)]
       ELSE Refuse(c)

(* ExperienceGlobalSaveService._update: fields, changed items, new items. *)
Save(c) == At(c, "save") /\ \E r \in Saves(seen[c]) :
  LET item == request[c]
      changed == Changed(item, r.edit)
      us == {save_unit_key(f) : f \in changed}
      touched == IF r.id # 0 /\ r.id \in DOMAIN item.contents /\ item.contents[r.id] # r.content
                   THEN {r.id} ELSE {}
      written == [i \in DOMAIN evidence |-> IF i \in touched THEN r.content ELSE evidence[i]]
      added == IF r.new = <<>> THEN {} ELSE {NextEvidence(written)}
      rows == [i \in DOMAIN written \cup added |-> IF i \in added THEN r.new[1] ELSE written[i]]
      links == IF added = {} THEN experience.links ELSE InsertAt(item.links, r.at, NextEvidence(written))
      new == [item EXCEPT !.fields = Edited(@, r.edit), !.links = links,
                          !.contents = [i \in DOMAIN @ |-> IF i \in touched THEN r.content ELSE @[i]]]
      revs == [unit |-> ClaimUnits(us),
               collection |-> revisions.collection + IF added = {} THEN 0 ELSE 1,
               evidence |-> [i \in DOMAIN revisions.evidence \cup added |->
                               IF i \in added THEN 0
                               ELSE revisions.evidence[i] + IF i \in touched THEN 1 ELSE 0]]
  IN
  /\ Len(r.new) = 0 \/ NextEvidence(evidence) \in EvidenceIds
  /\ IF /\ Stored /\ item.status # "archived" /\ seen[c].links = item.links
        /\ ValidDates(new.fields) /\ Claimed(c, us) /\ CollectionClaimed(c)
        /\ \A i \in touched : EvidenceClaimed(c, i)
        /\ added \cap DOMAIN revisions.evidence = {}
       THEN /\ Commit(c, new, Recalculate(new, [EditFields(item, changed, r.edit) EXCEPT !.links = links], rows),
                      rows, revs)
            /\ states' = [fields |-> AdvanceFields(changed, new.fields),
                          collection |-> IF added = {} THEN states.collection ELSE TRUE,
                          evidence |-> [i \in DOMAIN states.evidence \cup added \cup touched |->
                                        IF i \in added \cup touched THEN rows[i] = 1 ELSE states.evidence[i]]]
       ELSE Refuse(c)

(* EvidenceService: each mutation runs in _mutate, which recalculates and    *)
(* commits; links that change are refreshed in the copy.                    *)
MutateLinks(c, links, rows, revs) ==
  LET row == [experience EXCEPT !.links = links]
      new == [request[c] EXCEPT !.links = links, !.contents = [i \in Ids(links) |-> rows[i]]]
  IN Commit(c, new, Recalculate(new, row, rows), rows, revs)

AddEvidence(c) == At(c, "add") /\ \E v \in Values :
  LET i == NextEvidence(evidence)  rows == With(evidence, i, v) IN
  /\ i \in EvidenceIds
  /\ IF Stored /\ CollectionClaimed(c) /\ i \notin DOMAIN revisions.evidence
       THEN /\ MutateLinks(c, Append(request[c].links, i), rows,
                           [revisions EXCEPT !.collection = @ + 1, !.evidence = With(@, i, 0)])
            /\ states' = [states EXCEPT !.collection = TRUE, !.evidence = With(@, i, rows[i] = 1)]
       ELSE Refuse(c)

ChangeEvidence(c) == At(c, "change") /\ \E i \in Ids(seen[c].links), v \in Values :
  LET item == request[c]
      owned == i \in Ids(experience.links)
      changed == owned /\ (IF i \in DOMAIN item.contents THEN item.contents[i] ELSE evidence[i]) # v
      rows == IF changed THEN With(evidence, i, v) ELSE evidence
      new == IF changed THEN [item EXCEPT !.contents = With(@, i, v)] ELSE item
  IN
  /\ IF Stored /\ owned /\ (changed => EvidenceClaimed(c, i))
       THEN /\ Commit(c, new, Recalculate(new, experience, rows), rows,
                      IF changed THEN [revisions EXCEPT !.evidence[i] = @ + 1] ELSE revisions)
            /\ states' = [states EXCEPT !.evidence = IF changed THEN With(@, i, v = 1) ELSE @]
       ELSE Refuse(c)

(* The revision row of the item stays behind. *)
RemoveEvidence(c) == At(c, "remove") /\ \E i \in Ids(seen[c].links) :
  LET links == RemoveFirst(request[c].links, i)
  IN
  /\ IF Stored /\ i \in Ids(experience.links) /\ CollectionClaimed(c) /\ EvidenceClaimed(c, i)
       THEN /\ MutateLinks(c, links, Without(evidence, {i}),
                           [revisions EXCEPT !.collection = @ + 1, !.evidence[i] = @ + 1])
            /\ states' = [states EXCEPT !.collection = links # <<>>, !.evidence = Without(@, {i})]
       ELSE Refuse(c)

Reorder(c) == At(c, "reorder") /\ \E links \in Orders(seen[c].links) :
  LET item == request[c] IN
  /\ IF Stored /\ Ids(links) = Ids(item.links) /\ (links = item.links \/ CollectionClaimed(c))
       THEN /\ IF links = item.links
                 THEN Commit(c, item, Recalculate(item, experience, evidence), evidence, revisions)
                 ELSE MutateLinks(c, links, evidence, [revisions EXCEPT !.collection = @ + 1])
            /\ UNCHANGED states
       ELSE Refuse(c)

(* mark_ready, archive, restore: no revision, only the copy.                 *)
SetStatus(c, status) ==
  /\ Commit(c, [request[c] EXCEPT !.status = status],
            [experience EXCEPT !.status = Set(request[c].status, status, @)], evidence, revisions)
  /\ UNCHANGED states

(* _guidance reads the evidence, before the lock is taken.                   *)
ReadGuidance(c) ==
  LET item == request[c] IN
  /\ item # Nothing /\ ~item.guided
  /\ "mark_ready" \in Operations /\ seen[c] # Nothing
  /\ IF /\ item.status # "archived"
        /\ calculate_completeness(item.fields, Contents(item, experience.links, evidence))
             >= READY_COMPLETENESS_THRESHOLD
       THEN /\ request' = [request EXCEPT ![c] = [item EXCEPT !.guided = TRUE]]
            /\ UNCHANGED <<experience, evidence, revisions, states, seen, proposal, commits>>
       ELSE Refuse(c)

MarkReady(c) == At(c, "mark_ready") /\ IF Stored THEN SetStatus(c, "ready") ELSE Refuse(c)

Archive(c) == At(c, "archive") /\ IF Stored THEN SetStatus(c, "archived") ELSE Refuse(c)

Restore(c) ==
  /\ At(c, "restore")
  /\ IF Stored /\ request[c].status = "archived" THEN SetStatus(c, "draft") ELSE Refuse(c)

(* permanently_delete: the evidence of the copy goes with the row; the other *)
(* tables follow by ON DELETE CASCADE.                                      *)
Delete(c) ==
  /\ At(c, "delete")
  /\ IF Stored /\ request[c].status = "archived"
       THEN /\ commits < MaxCommits /\ commits' = commits + 1
            /\ experience' = Absent
            /\ evidence' = Without(evidence, Ids(request[c].links))
            /\ revisions' = NoRevisions
            /\ states' = NoStates
            /\ seen' = [seen EXCEPT ![c] = Nothing]
            /\ request' = [request EXCEPT ![c] = Nothing]
            /\ UNCHANGED proposal
       ELSE Refuse(c)

----------------------------------------------------------------------------
(* The assistant.  A conversation is about one field or about the evidence. *)

Assistant == UNCHANGED <<seen, request>>

Revision(target) ==
  CASE target.kind = "field" -> revisions.unit[save_unit_key(target.field)]
    [] target.kind = "append" -> revisions.collection
    [] target.kind = "evidence" -> IF target.id \in DOMAIN revisions.evidence
                                     THEN revisions.evidence[target.id] ELSE 0

Current(target) ==
  CASE target.kind = "field" -> experience.fields[target.field]
    [] target.kind = "append" -> 0
    [] target.kind = "evidence" -> IF target.id \in DOMAIN evidence THEN evidence[target.id] ELSE 0

Targets == {[kind |-> "field", field |-> f, id |-> 0] : f \in Fields}
           \cup {[kind |-> "append", field |-> "none", id |-> 0]}
           \cup {[kind |-> "evidence", field |-> "none", id |-> i] : i \in Ids(experience.links)}

(* init_state: the revisions the model's context is made from. *)
Generate ==
  /\ "assist" \in Operations /\ Stored /\ experience.status # "archived" /\ proposal.stage = "none"
  /\ \E t \in Targets :
       proposal' = [stage |-> "generating", target |-> t, value |-> 0,
                    revision |-> Revision(t), current |-> 0]
  /\ Assistant /\ UNCHANGED <<experience, evidence, revisions, states, commits>>

TargetExists(t) == Stored /\ (t.kind = "evidence" => t.id \in Ids(experience.links))

(* What the model may propose for its target: a value that keeps the rules    *)
(* and changes something.                                                     *)
FieldProposals(t) ==
  {v \in Values : v # Current(t) /\ ValidDates([experience.fields EXCEPT ![t.field] = v])}

EvidenceProposals(t) == IF TargetExists(t) THEN Values \ {Current(t)} ELSE {}

AppendProposals(t) == Values

Proposals(t) == CASE t.kind = "field" -> FieldProposals(t)
                  [] t.kind = "evidence" -> EvidenceProposals(t)
                  [] t.kind = "append" -> AppendProposals(t)

(* The service prepares against the revision of the generation.  A write      *)
(* between its reads moves the revision and ends the proposal, so they are    *)
(* one step.                                                                  *)
Prepare ==
  LET t == proposal.target
      current == TargetExists(t) /\ experience.status # "archived" /\ Revision(t) = proposal.revision
  IN
  /\ proposal.stage = "generating"
  /\ \/ /\ current
        /\ \E v \in Proposals(t) :
             proposal' = [proposal EXCEPT !.stage = "shown", !.value = v, !.current = Current(t)]
     \/ proposal' = [stage |-> "none"]
  /\ Assistant /\ UNCHANGED <<experience, evidence, revisions, states, commits>>

(* The target is as it was when the proposal was prepared.                    *)
MayApply(p) ==
  /\ TargetExists(p.target) /\ experience.status # "archived"
  /\ Revision(p.target) = p.revision
  /\ p.target.kind = "append" \/ Current(p.target) = p.current

Applied(row, rows, revs) ==
  /\ commits < MaxCommits /\ commits' = commits + 1
  /\ experience' = Recalculate([Copy EXCEPT !.fields = row.fields, !.links = row.links,
                                            !.contents = [i \in Ids(row.links) |-> rows[i]]], row, rows)
  /\ evidence' = rows
  /\ revisions' = revs

ApplyField(f, v) ==
  LET row == [experience EXCEPT !.fields[f] = v] IN
  /\ ValidDates(row.fields)
  /\ Applied(row, evidence, [revisions EXCEPT !.unit = ClaimUnits({save_unit_key(f)})])
  /\ states' = [states EXCEPT !.fields = AdvanceFields({f}, row.fields)]

ApplyEvidence(i, v) ==
  /\ Applied(experience, With(evidence, i, v), [revisions EXCEPT !.evidence[i] = @ + 1])
  /\ states' = [states EXCEPT !.evidence[i] = v = 1]

AppendEvidence(v) ==
  LET i == NextEvidence(evidence) IN
  /\ i \in EvidenceIds /\ i \notin DOMAIN revisions.evidence
  /\ Applied([experience EXCEPT !.links = Append(@, i)], With(evidence, i, v),
             [revisions EXCEPT !.collection = @ + 1, !.evidence = With(@, i, 0)])
  /\ states' = [states EXCEPT !.collection = TRUE, !.evidence = With(@, i, v = 1)]

(* The approved call is executed.  What fails rolls the call back.            *)
Apply ==
  LET t == proposal.target IN
  /\ proposal.stage = "shown"
  /\ MayApply(proposal)
  /\ CASE t.kind = "field" -> ApplyField(t.field, proposal.value)
       [] t.kind = "evidence" -> ApplyEvidence(t.id, proposal.value)
       [] t.kind = "append" -> AppendEvidence(proposal.value)
  /\ proposal' = [stage |-> "none"]
  /\ Assistant

(* Rejected, or invalidated: nothing is written.                              *)
Reject ==
  /\ proposal.stage = "shown"
  /\ proposal' = [stage |-> "none"]
  /\ Assistant /\ UNCHANGED <<experience, evidence, revisions, states, commits>>

Handler(c) == \/ Get(c) \/ Patch(c) \/ Save(c) \/ AddEvidence(c) \/ ChangeEvidence(c)
              \/ RemoveEvidence(c) \/ Reorder(c) \/ ReadGuidance(c) \/ MarkReady(c)
              \/ Archive(c) \/ Restore(c) \/ Delete(c)

Next == \/ \E c \in Clients : Create(c) \/ Begin(c) \/ Handler(c)
        \/ Generate \/ Prepare \/ Apply \/ Reject

Spec == Init /\ [][Next]_vars

----------------------------------------------------------------------------
(* Properties.                                                             *)

TypeOK ==
  /\ experience.status \in Statuses \cup {"absent"}
  /\ experience.fields \in [Fields -> Values] /\ experience.completeness \in 0..100
  /\ experience.links \in Seq(EvidenceIds)
  /\ DOMAIN evidence \subseteq EvidenceIds /\ \A i \in DOMAIN evidence : evidence[i] \in Values
  /\ revisions.unit \in [Units -> Nat] /\ revisions.collection \in Nat
  /\ states.fields \in [Fields -> BOOLEAN] /\ states.collection \in BOOLEAN
  /\ proposal.stage \in {"none", "generating", "shown"}
  /\ commits \in 0..MaxCommits

(* An experience that goes on never has an end date, although the rule is     *)
(* checked on a copy and two requests may each set one of the two fields: they *)
(* share a save unit (_validate_merged_dates, claim_experience_units).         *)
DatesConsistent == Stored => ValidDates(experience.fields)

(* The stored status of every field is the status of its value, also of a     *)
(* field whose status depends on another one, whatever requests overlapped,   *)
(* and exactly the linked evidence has rows of its own                        *)
(* (advance_experience_fields, delete_evidence_states).                       *)
StatesMatchValues ==
  Stored => /\ \A f \in Fields : states.fields[f] = field_status(f, experience.fields)
            /\ states.collection = (experience.links # <<>>)
            /\ DOMAIN states.evidence = Ids(experience.links)
            /\ \A i \in Ids(experience.links) :
                 /\ i \in DOMAIN evidence /\ i \in DOMAIN revisions.evidence
                 /\ states.evidence[i] = (evidence[i] = 1)

(* While the revision is the one a proposal was prepared with, the value is   *)
(* the one that was shown for approval: no path writes a value without its    *)
(* revision (save_unit_key, claim).                                           *)
RevisionPinsProposal ==
  proposal.stage = "shown" /\ TargetExists(proposal.target)
    /\ Revision(proposal.target) = proposal.revision
  => proposal.target.kind = "append" \/ Current(proposal.target) = proposal.current

(* No item of evidence is left without its experience: an append or a         *)
(* reordering made from an old copy of the list does not unlink what was       *)
(* added meanwhile (claim_collection, verify_collection).                      *)
EvidenceIsLinked == Stored => DOMAIN evidence = Ids(experience.links)

(* Rows, links, states and revisions of an experience agree with its values.  *)
FactsConsistent == TypeOK /\ StatesMatchValues /\ EvidenceIsLinked

(* A client that holds the current revision of a unit holds its current value, *)
(* so that its next save overwrites nothing it has not seen (_detail).         *)
SeenMatchesRevision ==
  \A c \in Clients : Stored /\ seen[c] # Nothing =>
    \A f \in Fields : seen[c].unit[save_unit_key(f)] = revisions.unit[save_unit_key(f)]
                       => seen[c].fields[f] = experience.fields[f]

(* A ready experience is complete enough (_recalculate_completeness).          *)
ReadyMeansComplete ==
  experience.status = "ready" =>
    calculate_completeness(experience.fields, evidence)
      >= READY_COMPLETENESS_THRESHOLD

(* Only restore takes an experience out of the archive, where nothing else    *)
(* changes its status (_transition_status).                                   *)
ReadyWasNotArchived == [][experience.status = "archived" => experience'.status # "ready"]_vars

(* The id of the next evidence item has no revision row yet                    *)
(* (initialize_evidence creates one under a unique key).                       *)
NextEvidenceIsNew == Stored => NextEvidence(evidence) \notin DOMAIN revisions.evidence
=============================================================================
