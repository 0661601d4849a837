------------------------- MODULE ExperiencesProofs -------------------------
(***************************************************************************)
(* What holds of Experiences for any number of editors and of evidence     *)
(* items, whatever a request changes and however much: dates that agree,    *)
(* statuses that match their values, and a revision that pins what was      *)
(* shown for approval.  The argument is that every write moves the          *)
(* revision of what it changes (Tracked) and that no revision goes back, so  *)
(* that a client whose last revision is still the current one works with a   *)
(* copy that is current too (Fresh), although it was made before the lock.   *)
(***************************************************************************)
EXTENDS Experiences, SequenceTheorems, WellFoundedInduction, TLAPS

Row == [status : Statuses \cup {"absent"}, fields : [Fields -> Values],
        completeness : 0..100, links : Seq(EvidenceIds)]

RevisionsOK(r) ==
  /\ DOMAIN r = {"unit", "collection", "evidence"}
  /\ r.unit \in [Units -> Nat] /\ r.collection \in Nat
  /\ \A i \in DOMAIN r.evidence : r.evidence[i] \in Nat

EvidenceOK(rows) == DOMAIN rows \subseteq EvidenceIds /\ \A i \in DOMAIN rows : rows[i] \in Values

StatesOK ==
  /\ DOMAIN states = {"fields", "collection", "evidence"}
  /\ states.fields \in [Fields -> BOOLEAN] /\ states.collection \in BOOLEAN

(* The tables: what FactsConsistent and DatesConsistent say, and that the   *)
(* list of links has no item twice.                                         *)
TablesOK ==
  /\ experience \in Row /\ EvidenceOK(evidence) /\ RevisionsOK(revisions) /\ StatesOK
  /\ DatesConsistent /\ StatesMatchValues /\ EvidenceIsLinked
  /\ IsInjective(experience.links)

(* Before the creation there is nothing that could be out of date. *)
CommitsOK ==
  /\ commits \in 0..MaxCommits
  /\ commits = 0 =>
       /\ ~Stored /\ proposal = [stage |-> "none"]
       /\ \A c \in Clients : request[c] = Nothing /\ seen[c] = Nothing

CopyOK(item) ==
  /\ DOMAIN item = {"fields", "status", "completeness", "links", "contents", "guided"}
  /\ item.fields \in [Fields -> Values] /\ item.status \in Statuses /\ item.completeness \in 0..100
  /\ item.links \in Seq(EvidenceIds) /\ DOMAIN item.contents = Ids(item.links)

(* What a client has seen is no newer than the tables, and what of it is    *)
(* still current was current when the request made its copy.                *)
Known(c) ==
  /\ seen[c].unit \in [Units -> Nat] /\ \A u \in Units : seen[c].unit[u] <= revisions.unit[u]
  /\ seen[c].collection \in Nat /\ seen[c].collection <= revisions.collection

Fresh(c) ==
  /\ \A f \in Fields : seen[c].unit[save_unit_key(f)] = revisions.unit[save_unit_key(f)]
                        => request[c].fields[f] = experience.fields[f]
  /\ seen[c].collection = revisions.collection => request[c].links = experience.links

ClientsOK ==
  /\ DOMAIN seen = Clients /\ DOMAIN request = Clients
  /\ \A c \in Clients :
       /\ request[c] # Nothing => CopyOK(request[c])
       /\ seen[c] # Nothing => seen[c].links \in Seq(EvidenceIds)
       /\ Stored /\ seen[c] # Nothing => Known(c)
       /\ Stored /\ seen[c] # Nothing /\ request[c] # Nothing => Fresh(c)

(* A proposal has the revision of its generation, which only grows. *)
Pinned ==
  /\ proposal.target.kind = "field" => proposal.revision <= revisions.unit[save_unit_key(proposal.target.field)]
  /\ proposal.target.kind = "append" => proposal.revision <= revisions.collection
  /\ proposal.target.kind = "evidence" =>
       /\ proposal.target.id \in DOMAIN revisions.evidence
       /\ proposal.revision <= revisions.evidence[proposal.target.id]

ProposalOK ==
  /\ proposal.stage \in {"none", "generating", "shown"}
  /\ proposal.stage # "none" =>
       /\ DOMAIN proposal = {"stage", "target", "value", "revision", "current"}
       /\ proposal.target.kind \in {"field", "append", "evidence"}
       /\ proposal.target.kind = "field" => proposal.target.field \in Fields
       /\ proposal.revision \in Nat /\ proposal.value \in Values
       /\ Stored => Pinned
  /\ RevisionPinsProposal

Inv == TablesOK /\ CommitsOK /\ ClientsOK /\ ProposalOK

(* A revision never goes back, and what is written moves the revision that   *)
(* stands for it: fields their unit, the list of links the collection, an    *)
(* item of evidence its own.                                                *)
Tracked ==
  /\ \A u \in Units : revisions.unit[u] <= revisions'.unit[u]
  /\ \A f \in Fields : revisions'.unit[save_unit_key(f)] = revisions.unit[save_unit_key(f)]
                        => experience'.fields[f] = experience.fields[f]
  /\ revisions.collection <= revisions'.collection
  /\ revisions'.collection = revisions.collection => experience'.links = experience.links
  /\ \A i \in DOMAIN revisions.evidence :
       /\ i \in DOMAIN revisions'.evidence /\ revisions.evidence[i] <= revisions'.evidence[i]
       /\ revisions'.evidence[i] = revisions.evidence[i] /\ i \in Ids(experience'.links)
            => i \in Ids(experience.links) /\ evidence'[i] = evidence[i]

Moved == Stored /\ Stored' => Tracked

-----------------------------------------------------------------------------
(* The rules.                                                              *)

(* A completeness is a percentage. *)
LEMMA CompletenessIsPercentage ==
  ASSUME NEW v, NEW contents
  PROVE  calculate_completeness(v, contents) \in 0..100
BY Points DEF calculate_completeness

(* The unit of a field. *)
LEMMA UnitOfField ==
  /\ \A f \in Fields : save_unit_key(f) \in Units
  /\ save_unit_key("role") = "role" /\ save_unit_key("end_date") = "dates"
  /\ save_unit_key("is_current") = "dates"
BY DEF save_unit_key, Fields, Units

(* The status of a field depends on the fields of its unit alone. *)
LEMMA StatusOfUnit ==
  ASSUME NEW f \in Fields, NEW v, NEW w, \A g \in Fields : save_unit_key(g) = save_unit_key(f) => v[g] = w[g]
  PROVE  field_status(f, v) \in BOOLEAN /\ field_status(f, v) = field_status(f, w)
BY UnitOfField DEF field_status, Fields

(* The completeness and the status that follow from a write leave its fields  *)
(* and its links alone.                                                      *)
LEMMA RecalculateKeepsRow ==
  ASSUME NEW row \in Row, row.status # "absent", NEW item, NEW rows
  PROVE  /\ Recalculate(item, row, rows) \in Row
         /\ Recalculate(item, row, rows).status # "absent"
         /\ Recalculate(item, row, rows).fields = row.fields
         /\ Recalculate(item, row, rows).links = row.links
<1> DEFINE new == calculate_completeness(item.fields, Contents(item, row.links, rows))
           status == IF item.status = "ready" /\ new < READY_COMPLETENESS_THRESHOLD
                       THEN "draft" ELSE row.status
<1>1. new \in 0..100
  BY CompletenessIsPercentage
<1>2. Recalculate(item, row, rows)
        = [row EXCEPT !.completeness = Set(item.completeness, new, @), !.status = status]
  BY DEF Recalculate
<1>3. Set(item.completeness, new, row.completeness) \in 0..100
  BY <1>1 DEF Set, Row
<1>4. status \in Statuses
  BY DEF Row, Statuses
<1> HIDE DEF new, status
<1> QED
  BY <1>2, <1>3, <1>4 DEF Row, Statuses

(* An edit made from a copy that is current in the units it changes leaves    *)
(* the row with the dates it has validated and with the statuses it has       *)
(* computed, and moves the revisions of what it has changed.                  *)
LEMMA EditKeepsFields ==
  ASSUME TablesOK, Stored, NEW copied \in [Fields -> Values], NEW edit,
         DOMAIN edit \subseteq Fields, \A f \in DOMAIN edit : edit[f] \in Values,
         ValidDates(Edited(copied, edit)),
         NEW changed, changed = {f \in DOMAIN edit : copied[f] # edit[f]},
         \A f \in Fields : (\E g \in changed : save_unit_key(g) = save_unit_key(f))
                             => copied[f] = experience.fields[f],
         NEW fields, fields = [f \in Fields |-> IF f \in changed THEN edit[f] ELSE experience.fields[f]],
         NEW statuses, statuses = AdvanceFields(changed, Edited(copied, edit)),
         NEW unit, unit = ClaimUnits({save_unit_key(f) : f \in changed})
  PROVE  /\ fields \in [Fields -> Values] /\ ValidDates(fields)
         /\ statuses \in [Fields -> BOOLEAN]
         /\ \A f \in Fields : statuses[f] = field_status(f, fields)
         /\ unit \in [Units -> Nat] /\ \A u \in Units : revisions.unit[u] <= unit[u]
         /\ \A f \in Fields : unit[save_unit_key(f)] = revisions.unit[save_unit_key(f)]
                               => fields[f] = experience.fields[f]
<1> DEFINE new == Edited(copied, edit)
<1>1. fields \in [Fields -> Values]
  BY DEF TablesOK, Row
<1>2. ASSUME NEW f \in Fields, \E g \in changed : save_unit_key(g) = save_unit_key(f)
      PROVE  fields[f] = new[f]
  BY <1>2 DEF Edited
<1>3. ASSUME NEW f \in Fields, ~\E g \in changed : save_unit_key(g) = save_unit_key(f)
      PROVE  f \notin changed /\ fields[f] = experience.fields[f]
  BY <1>3
<1>4. ValidDates(fields)
  <2>1. "end_date" \in Fields /\ "is_current" \in Fields
    BY DEF Fields
  <2>2. CASE \E g \in changed : save_unit_key(g) = "dates"
    BY <1>2, <2>1, <2>2, UnitOfField DEF ValidDates
  <2>3. CASE ~\E g \in changed : save_unit_key(g) = "dates"
    BY <1>3, <2>1, <2>3, UnitOfField DEF ValidDates, TablesOK, DatesConsistent
  <2> QED
    BY <2>2, <2>3
<1>5. ASSUME NEW f \in Fields
      PROVE  statuses[f] \in BOOLEAN /\ statuses[f] = field_status(f, fields)
  <2>1. (\E g \in changed : f \in save_unit_fields(g)) <=> \E g \in changed : save_unit_key(g) = save_unit_key(f)
    BY DEF save_unit_fields
  <2>2. CASE \E g \in changed : save_unit_key(g) = save_unit_key(f)
    <3>1. statuses[f] = field_status(f, new)
      BY <2>1, <2>2 DEF AdvanceFields
    <3>2. \A g \in Fields : save_unit_key(g) = save_unit_key(f) => new[g] = fields[g]
      BY <1>2, <2>2
    <3> HIDE DEF new
    <3> QED
      BY <3>1, <3>2, StatusOfUnit
  <2>3. CASE ~\E g \in changed : save_unit_key(g) = save_unit_key(f)
    <3>1. statuses[f] = states.fields[f]
      BY <2>1, <2>3 DEF AdvanceFields
    <3>2. states.fields[f] = field_status(f, experience.fields)
      BY DEF TablesOK, StatesMatchValues
    <3>3. \A g \in Fields : save_unit_key(g) = save_unit_key(f) => experience.fields[g] = fields[g]
      BY <1>3, <2>3
    <3> QED
      BY <3>1, <3>2, <3>3, StatusOfUnit
  <2> QED
    BY <2>2, <2>3
<1>6. statuses \in [Fields -> BOOLEAN]
  <2>1. \A f \in Fields : statuses[f] \in BOOLEAN
    BY <1>5
  <2> QED
    BY <2>1 DEF AdvanceFields
<1>7. /\ unit \in [Units -> Nat] /\ \A u \in Units : revisions.unit[u] <= unit[u]
      /\ \A f \in changed : unit[save_unit_key(f)] # revisions.unit[save_unit_key(f)]
  BY UnitOfField DEF ClaimUnits, TablesOK, RevisionsOK
<1>8. \A f \in Fields : f \notin changed => fields[f] = experience.fields[f]
  OBVIOUS
<1> QED
  BY <1>1, <1>4, <1>5, <1>6, <1>7, <1>8

-----------------------------------------------------------------------------
(* Writes, and what the clients and the assistant know.                    *)

(* A proposal that was pinned is pinned after a write that is tracked. *)
LEMMA WriteKeepsProposal ==
  ASSUME TablesOK, TablesOK', ProposalOK, Stored, Tracked, UNCHANGED proposal
  PROVE  ProposalOK'
<1>1. CASE proposal.stage = "none"
  BY <1>1 DEF ProposalOK, RevisionPinsProposal
<1>2. CASE proposal.stage # "none"
  <2> DEFINE t == proposal.target
  <2>1. /\ t.kind \in {"field", "append", "evidence"}
        /\ t.kind = "field" => t.field \in Fields
        /\ proposal.revision \in Nat /\ Pinned
    BY <1>2 DEF ProposalOK
  <2>2. /\ \A u \in Units : revisions.unit[u] \in Nat /\ revisions'.unit[u] \in Nat
        /\ revisions.collection \in Nat /\ revisions'.collection \in Nat
        /\ \A i \in DOMAIN revisions.evidence : revisions.evidence[i] \in Nat
        /\ \A i \in DOMAIN revisions'.evidence : revisions'.evidence[i] \in Nat
    BY DEF TablesOK, RevisionsOK
  <2>3. Pinned'
    BY <2>1, <2>2, UnitOfField DEF Pinned, Tracked
  <2>4. RevisionPinsProposal'
    <3> SUFFICES ASSUME proposal.stage = "shown", TargetExists(t)', Revision(t)' = proposal.revision,
                        t.kind # "append"
                 PROVE  Current(t)' = proposal.current
      BY DEF RevisionPinsProposal
    <3>1. CASE t.kind = "field"
      <4>1. save_unit_key(t.field) \in Units /\ t.field \in Fields
        BY <2>1, <3>1, UnitOfField
      <4>2. revisions'.unit[save_unit_key(t.field)] = proposal.revision
        BY <3>1 DEF Revision
      <4>3. revisions.unit[save_unit_key(t.field)] = proposal.revision
        BY <2>1, <2>2, <3>1, <4>1, <4>2 DEF Pinned, Tracked
      <4>4. experience.fields[t.field] = proposal.current
        BY <3>1, <4>3 DEF ProposalOK, RevisionPinsProposal, TargetExists, Revision, Current
      <4>5. experience'.fields[t.field] = experience.fields[t.field]
        BY <4>1, <4>2, <4>3 DEF Tracked
      <4> QED
        BY <3>1, <4>4, <4>5 DEF Current
    <3>2. CASE t.kind = "evidence"
      <4>1. t.id \in Ids(experience'.links)
        BY <3>2 DEF TargetExists
      <4>2. t.id \in DOMAIN revisions.evidence /\ proposal.revision <= revisions.evidence[t.id]
        BY <2>1, <3>2 DEF Pinned
      <4>3. revisions'.evidence[t.id] = proposal.revision
        BY <3>2, <4>2 DEF Revision, Tracked
      <4>4. revisions.evidence[t.id] = proposal.revision
        BY <2>1, <2>2, <4>2, <4>3 DEF Tracked
      <4>5. t.id \in Ids(experience.links) /\ evidence'[t.id] = evidence[t.id]
        BY <4>1, <4>2, <4>3, <4>4 DEF Tracked
      <4>6. t.id \in DOMAIN evidence /\ t.id \in DOMAIN evidence'
        BY <3>2, <4>1, <4>5 DEF TablesOK, EvidenceIsLinked, TargetExists
      <4>7. evidence[t.id] = proposal.current
        BY <3>2, <4>2, <4>4, <4>5, <4>6 DEF ProposalOK, RevisionPinsProposal, TargetExists, Revision, Current
      <4> QED
        BY <3>2, <4>5, <4>6, <4>7 DEF Current
    <3> QED
      BY <2>1, <3>1, <3>2
  <2> QED
    BY <2>1, <2>3, <2>4 DEF ProposalOK
<1> QED
  BY <1>1, <1>2

(* A client that is not told of a tracked write still knows what it knew. *)
LEMMA WriteKeepsKnown ==
  ASSUME TablesOK, TablesOK', ClientsOK, Stored, Tracked,
         NEW d \in Clients, seen[d] # Nothing, seen'[d] = seen[d], request'[d] = request[d]
  PROVE  Known(d)' /\ (request[d] # Nothing => Fresh(d)')
<1>1. /\ \A u \in Units : revisions.unit[u] \in Nat /\ revisions'.unit[u] \in Nat
      /\ revisions.collection \in Nat /\ revisions'.collection \in Nat
  BY DEF TablesOK, RevisionsOK
<1>2. Known(d) /\ (request[d] # Nothing => Fresh(d))
  BY DEF ClientsOK
<1>3. Known(d)'
  BY <1>1, <1>2 DEF Known, Tracked
<1>4. ASSUME request[d] # Nothing
      PROVE  Fresh(d)'
  <2>1. ASSUME NEW f \in Fields, seen[d].unit[save_unit_key(f)] = revisions'.unit[save_unit_key(f)]
        PROVE  request[d].fields[f] = experience'.fields[f]
    <3>1. revisions.unit[save_unit_key(f)] = revisions'.unit[save_unit_key(f)]
      BY <1>1, <1>2, <2>1, UnitOfField DEF Known, Tracked
    <3> QED
      BY <1>2, <1>4, <2>1, <3>1 DEF Fresh, Tracked
  <2>2. ASSUME seen[d].collection = revisions'.collection
        PROVE  request[d].links = experience'.links
    BY <1>1, <1>2, <1>4, <2>2 DEF Known, Fresh, Tracked
  <2> QED
    BY <2>1, <2>2 DEF Fresh
<1> QED
  BY <1>3, <1>4

(* A request that commits a tracked write keeps the invariant. *)
LEMMA CommitKeepsInv ==
  ASSUME Inv, Stored, Stored', Tracked, TablesOK', NEW c \in Clients,
         NEW item, NEW row, NEW rows, NEW revs, Commit(c, item, row, rows, revs)
  PROVE  Inv' /\ Moved
<1>1. /\ commits' = commits + 1 /\ commits < MaxCommits /\ proposal' = proposal
      /\ experience' = row /\ revisions' = revs
      /\ seen' = [seen EXCEPT ![c] = Detail(item, row, rows, revs)]
      /\ request' = [request EXCEPT ![c] = Nothing]
  BY DEF Commit
<1>2. CommitsOK'
  BY <1>1, Bounds DEF Inv, CommitsOK, Stored
<1>3. ProposalOK'
  BY <1>1, WriteKeepsProposal DEF Inv
<1>4. ClientsOK'
  <2> SUFFICES ASSUME NEW d \in Clients
               PROVE  /\ request'[d] # Nothing => CopyOK(request'[d])
                      /\ seen'[d] # Nothing => seen'[d].links \in Seq(EvidenceIds)
                      /\ seen'[d] # Nothing => Known(d)'
                      /\ seen'[d] # Nothing /\ request'[d] # Nothing => Fresh(d)'
    BY <1>1 DEF Inv, ClientsOK
  <2>1. CASE d = c
    <3>1. request'[c] = Nothing /\ seen'[c] = Detail(item, row, rows, revs)
      BY <1>1 DEF Inv, ClientsOK
    <3>2. /\ seen'[c].unit = revisions'.unit /\ seen'[c].collection = revisions'.collection
          /\ seen'[c].links = experience'.links
      BY <1>1, <3>1 DEF Detail
    <3> QED
      BY <2>1, <3>1, <3>2 DEF Known, TablesOK, RevisionsOK, Row
  <2>2. CASE d # c
    <3>1. request'[d] = request[d] /\ seen'[d] = seen[d]
      BY <1>1, <2>2 DEF Inv, ClientsOK
    <3>2. request[d] # Nothing => CopyOK(request[d])
      BY DEF Inv, ClientsOK
    <3>3. seen[d] # Nothing => seen[d].links \in Seq(EvidenceIds)
      BY DEF Inv, ClientsOK
    <3>4. seen[d] # Nothing => Known(d)' /\ (request[d] # Nothing => Fresh(d)')
      BY <3>1, WriteKeepsKnown DEF Inv
    <3> QED
      BY <3>1, <3>2, <3>3, <3>4
  <2> QED
    BY <2>1, <2>2
<1> QED
  BY <1>2, <1>3, <1>4 DEF Inv, Moved

(* What is written leaves the other tables alone: nothing to track. *)
LEMMA UnchangedKeepsTables ==
  ASSUME TablesOK, UNCHANGED <<experience, evidence, revisions, states>>
  PROVE  TablesOK' /\ (Stored => Stored' /\ Tracked)
<1>1. TablesOK'
  BY DEF TablesOK, StatesOK, DatesConsistent, StatesMatchValues, EvidenceIsLinked, Stored
<1>2. Stored => Stored' /\ Tracked
  BY DEF TablesOK, RevisionsOK, Stored, Tracked
<1> QED
  BY <1>1, <1>2

(* A request that is refused, or has only read, keeps the invariant. *)
LEMMA ReadKeepsInv ==
  ASSUME Inv, NEW c \in Clients, Begin(c) \/ Refuse(c) \/ Get(c) \/ ReadGuidance(c)
  PROVE  Inv' /\ Moved
<1>1. UNCHANGED <<experience, evidence, revisions, states, proposal, commits>>
  BY DEF Begin, Refuse, Get, ReadGuidance
<1>2. TablesOK' /\ ProposalOK' /\ Moved
  BY <1>1, UnchangedKeepsTables
  DEF Moved, Inv, ProposalOK, RevisionPinsProposal, Pinned, TargetExists, Revision, Current, Stored
<1>3. CASE Begin(c)
  <2>1. Stored /\ request[c] = Nothing /\ request' = [request EXCEPT ![c] = Copy] /\ seen' = seen
    BY <1>3 DEF Begin
  <2>2. CopyOK(Copy) /\ Copy.fields = experience.fields /\ Copy.links = experience.links
    BY <2>1 DEF Inv, TablesOK, Row, CopyOK, Copy, Stored
  <2>3. CommitsOK'
    BY <1>1, <2>1 DEF Inv, CommitsOK, Stored
  <2>4. ClientsOK'
    <3> SUFFICES ASSUME NEW d \in Clients
                 PROVE  /\ request'[d] # Nothing => CopyOK(request'[d])
                        /\ seen'[d] # Nothing => seen'[d].links \in Seq(EvidenceIds)
                        /\ seen'[d] # Nothing => Known(d)'
                        /\ seen'[d] # Nothing /\ request'[d] # Nothing => Fresh(d)'
      BY <2>1 DEF Inv, ClientsOK
    <3>1. CASE d = c
      BY <1>1, <2>1, <2>2, <3>1 DEF Inv, ClientsOK, Known, Fresh
    <3>2. CASE d # c
      BY <1>1, <2>1, <3>2 DEF Inv, ClientsOK, Known, Fresh
    <3> QED
      BY <3>1, <3>2
  <2> QED
    BY <1>2, <2>3, <2>4 DEF Inv
<1>4. CASE Refuse(c)
  <2>1. request' = [request EXCEPT ![c] = Nothing] /\ seen' = seen
    BY <1>4 DEF Refuse
  <2>2. CommitsOK'
    BY <1>1, <2>1 DEF Inv, CommitsOK, ClientsOK, Stored
  <2>3. ClientsOK'
    BY <1>1, <2>1 DEF Inv, ClientsOK, Known, Fresh, Stored
  <2> QED
    BY <1>2, <2>2, <2>3 DEF Inv
<1>5. CASE Get(c) /\ ~Refuse(c)
  <2>1. /\ Stored /\ request' = [request EXCEPT ![c] = Nothing]
        /\ seen' = [seen EXCEPT ![c] = Detail(request[c], experience, evidence, revisions)]
    BY <1>5 DEF Get
  <2>2. CommitsOK'
    BY <1>1, <2>1 DEF Inv, CommitsOK, Stored
  <2>3. /\ DOMAIN seen' = Clients /\ DOMAIN request' = Clients /\ request'[c] = Nothing
        /\ seen'[c].unit = revisions.unit /\ seen'[c].collection = revisions.collection
        /\ seen'[c].links = experience.links
    BY <2>1 DEF Inv, ClientsOK, Detail
  <2>4. \A d \in Clients : d # c => seen'[d] = seen[d] /\ request'[d] = request[d]
    BY <2>1 DEF Inv, ClientsOK
  <2>5. ClientsOK'
    BY <1>1, <2>3, <2>4 DEF Inv, ClientsOK, Known, Fresh, Stored, TablesOK, RevisionsOK, Row
  <2> QED
    BY <1>2, <2>2, <2>5 DEF Inv
<1>6. CASE ReadGuidance(c) /\ ~Refuse(c)
  <2> DEFINE guided == [request[c] EXCEPT !.guided = TRUE]
  <2>1. request[c] # Nothing /\ request' = [request EXCEPT ![c] = guided] /\ seen' = seen
    BY <1>6 DEF ReadGuidance
  <2>2. CopyOK(request[c]) /\ DOMAIN request = Clients
    BY <2>1 DEF Inv, ClientsOK
  <2>3. /\ CopyOK(guided) /\ guided.fields = request[c].fields /\ guided.links = request[c].links
    BY <2>2 DEF CopyOK
  <2> HIDE DEF guided
  <2>4. request'[c] = guided /\ \A d \in Clients : d # c => request'[d] = request[d]
    BY <2>1, <2>2
  <2>5. CommitsOK'
    BY <1>1, <2>1 DEF Inv, CommitsOK, Stored
  <2>6. ClientsOK'
    <3> SUFFICES ASSUME NEW d \in Clients
                 PROVE  /\ request'[d] # Nothing => CopyOK(request'[d])
                        /\ seen'[d] # Nothing => seen'[d].links \in Seq(EvidenceIds)
                        /\ Stored' /\ seen'[d] # Nothing => Known(d)'
                        /\ Stored' /\ seen'[d] # Nothing /\ request'[d] # Nothing => Fresh(d)'
      BY <2>1 DEF Inv, ClientsOK
    <3>1. CASE d = c
      BY <1>1, <2>1, <2>3, <2>4, <3>1 DEF Inv, ClientsOK, Known, Fresh, Stored
    <3>2. CASE d # c
      BY <1>1, <2>1, <2>4, <3>2 DEF Inv, ClientsOK, Known, Fresh, Stored
    <3> QED
      BY <3>1, <3>2
  <2> QED
    BY <1>2, <2>5, <2>6 DEF Inv
<1> QED
  BY <1>3, <1>4, <1>5, <1>6

-----------------------------------------------------------------------------
(* The requests.                                                           *)

(* A handler works with the copy it has made, and if it commits it knew of   *)
(* the experience.                                                          *)
LEMMA AtHasCopy ==
  ASSUME Inv, NEW c \in Clients, NEW kind, At(c, kind), kind # "get", Stored
  PROVE  CopyOK(request[c]) /\ seen[c] # Nothing /\ seen[c].links \in Seq(EvidenceIds) /\ Known(c) /\ Fresh(c)
BY DEF Inv, ClientsOK, At

(* Edits are made of values of fields. *)
LEMMA EditsAreTyped ==
  ASSUME NEW edit \in Edits(MaxEdited)
  PROVE  DOMAIN edit \subseteq Fields /\ \A f \in DOMAIN edit : edit[f] \in Values
BY DEF Edits

(* The units that are claimed are current in the copy. *)
LEMMA ClaimedIsCurrent ==
  ASSUME NEW c \in Clients, Fresh(c), NEW changed, changed \subseteq Fields,
         Claimed(c, {save_unit_key(f) : f \in changed})
  PROVE  \A f \in Fields : (\E g \in changed : save_unit_key(g) = save_unit_key(f))
                             => request[c].fields[f] = experience.fields[f]
BY DEF Fresh, Claimed

(* A patch of some fields, refused or saved, keeps the invariant. *)
LEMMA PatchKeepsInv ==
  ASSUME Inv, NEW c \in Clients, Patch(c)
  PROVE  Inv' /\ Moved
<1> SUFFICES ASSUME ~Refuse(c) PROVE Inv' /\ Moved
  BY ReadKeepsInv
<1> DEFINE item == request[c]
<1>1. PICK edit \in Edits(MaxEdited) :
        LET changed == Changed(item, edit)
            us == {save_unit_key(f) : f \in changed}
            new == [item EXCEPT !.fields = Edited(@, edit)]
        IN /\ Stored /\ ValidDates(new.fields) /\ Claimed(c, us)
           /\ Commit(c, new, Recalculate(new, EditFields(item, changed, edit), evidence),
                     evidence, [revisions EXCEPT !.unit = ClaimUnits(us)])
           /\ states' = [states EXCEPT !.fields = AdvanceFields(changed, new.fields)]
  BY DEF Patch
<1> DEFINE changed == Changed(item, edit)
           us == {save_unit_key(f) : f \in changed}
           new == [item EXCEPT !.fields = Edited(@, edit)]
           fields == [f \in Fields |-> IF f \in changed THEN edit[f] ELSE experience.fields[f]]
           statuses == AdvanceFields(changed, Edited(item.fields, edit))
           unit == ClaimUnits(us)
<1>2. At(c, "patch")
  BY DEF Patch
<1>3. CopyOK(item) /\ Known(c) /\ Fresh(c)
  BY <1>1, <1>2, AtHasCopy
<1>4. new.fields = Edited(item.fields, edit)
  BY <1>3 DEF CopyOK
<1>5. /\ fields \in [Fields -> Values] /\ ValidDates(fields)
      /\ statuses \in [Fields -> BOOLEAN]
      /\ \A f \in Fields : statuses[f] = field_status(f, fields)
      /\ unit \in [Units -> Nat] /\ \A u \in Units : revisions.unit[u] <= unit[u]
      /\ \A f \in Fields : unit[save_unit_key(f)] = revisions.unit[save_unit_key(f)]
                            => fields[f] = experience.fields[f]
  <2>1. DOMAIN edit \subseteq Fields /\ \A f \in DOMAIN edit : edit[f] \in Values
    BY EditsAreTyped
  <2>2. item.fields \in [Fields -> Values] /\ ValidDates(Edited(item.fields, edit)) /\ Stored /\ TablesOK
    BY <1>1, <1>3, <1>4 DEF CopyOK, Inv
  <2>3. changed = {f \in DOMAIN edit : item.fields[f] # edit[f]} /\ changed \subseteq Fields
    BY <2>1 DEF Changed
  <2>4. \A f \in Fields : (\E g \in changed : save_unit_key(g) = save_unit_key(f))
                             => item.fields[f] = experience.fields[f]
    BY <1>1, <1>3, <2>3, ClaimedIsCurrent
  <2>5. /\ fields = [f \in Fields |-> IF f \in changed THEN edit[f] ELSE experience.fields[f]]
        /\ statuses = AdvanceFields(changed, Edited(item.fields, edit))
        /\ unit = ClaimUnits({save_unit_key(f) : f \in changed})
    OBVIOUS
  <2> HIDE DEF changed, item, us, fields, statuses, unit
  <2> QED
    BY <2>1, <2>2, <2>3, <2>4, <2>5, EditKeepsFields
<1>6. /\ Commit(c, new, Recalculate(new, EditFields(item, changed, edit), evidence),
                evidence, [revisions EXCEPT !.unit = unit])
      /\ states' = [states EXCEPT !.fields = statuses]
  BY <1>1, <1>4
<1> DEFINE edited == EditFields(item, changed, edit)
<1>7. edited = [experience EXCEPT !.fields = fields]
  BY DEF EditFields, Inv, TablesOK, Row
<1> HIDE DEF item, changed, us, new, fields, statuses, unit, edited
<1>8. /\ edited \in Row /\ edited.status # "absent"
      /\ edited.fields = fields /\ edited.links = experience.links
  BY <1>1, <1>5, <1>7 DEF Inv, TablesOK, Row, Stored
<1>9. /\ experience' \in Row /\ experience'.status # "absent"
      /\ experience'.fields = fields /\ experience'.links = experience.links
  <2>1. experience' = Recalculate(new, edited, evidence)
    BY <1>6 DEF Commit, edited
  <2> QED
    BY <1>8, <2>1, RecalculateKeepsRow
<1>10. evidence' = evidence /\ revisions' = [revisions EXCEPT !.unit = unit]
  BY <1>6 DEF Commit
<1>11. /\ RevisionsOK(revisions') /\ revisions'.unit = unit
       /\ revisions'.collection = revisions.collection /\ revisions'.evidence = revisions.evidence
  BY <1>5, <1>10 DEF Inv, TablesOK, RevisionsOK
<1>12. StatesOK' /\ states'.fields = statuses /\ states'.collection = states.collection
       /\ states'.evidence = states.evidence
  BY <1>5, <1>6 DEF Inv, TablesOK, StatesOK
<1>13. Stored'
  BY <1>9 DEF Stored
<1>14. TablesOK'
  BY <1>1, <1>5, <1>9, <1>10, <1>11, <1>12
  DEF Inv, TablesOK, DatesConsistent, StatesMatchValues, EvidenceIsLinked
<1>15. Tracked
  BY <1>5, <1>9, <1>10, <1>11 DEF Tracked, Inv, TablesOK, RevisionsOK
<1> QED
  BY <1>1, <1>6, <1>13, <1>14, <1>15, CommitKeepsInv

(* Linking an item that is not linked. *)
LEMMA AppendLinks ==
  ASSUME NEW s \in Seq(EvidenceIds), IsInjective(s), NEW i \in EvidenceIds, i \notin Ids(s)
  PROVE  /\ Append(s, i) \in Seq(EvidenceIds) /\ IsInjective(Append(s, i))
         /\ Ids(Append(s, i)) = Ids(s) \cup {i} /\ Append(s, i) # <<>>
<1> DEFINE t == Append(s, i)
<1>1. /\ t \in Seq(EvidenceIds) /\ DOMAIN t = 1..(Len(s) + 1) /\ DOMAIN s = 1..Len(s) /\ Len(s) \in Nat
      /\ \A k \in 1..Len(s) : t[k] = s[k]
      /\ t[Len(s) + 1] = i /\ t # <<>>
  OBVIOUS
<1>2. Ids(t) = Ids(s) \cup {i}
  <2> HIDE DEF t
  <2>1. ASSUME NEW x \in Ids(t)
        PROVE  x \in Ids(s) \cup {i}
    BY <1>1 DEF Ids
  <2>2. Ids(s) \subseteq Ids(t)
    BY <1>1 DEF Ids
  <2>3. i \in Ids(t)
    <3>1. Len(s) + 1 \in DOMAIN t
      BY <1>1
    <3> QED
      BY <1>1, <3>1 DEF Ids
  <2> QED
    BY <2>1, <2>2, <2>3
<1>3. IsInjective(t)
  <2> HIDE DEF t
  <2> SUFFICES ASSUME NEW a \in DOMAIN t, NEW b \in DOMAIN t, t[a] = t[b]
               PROVE  a = b
    BY DEF IsInjective
  <2>1. \A k \in 1..Len(s) : s[k] # i
    BY <1>1 DEF Ids
  <2>2. \A k, l \in 1..Len(s) : s[k] = s[l] => k = l
    BY <1>1 DEF IsInjective
  <2> QED
    BY <1>1, <2>1, <2>2
<1> QED
  BY <1>1, <1>2, <1>3

(* The same at any place of the list. *)
LEMMA InsertLinks ==
  ASSUME NEW s \in Seq(EvidenceIds), IsInjective(s), NEW i \in EvidenceIds, i \notin Ids(s),
         NEW at \in 1..(Len(s) + 1)
  PROVE  /\ InsertAt(s, at, i) \in Seq(EvidenceIds) /\ IsInjective(InsertAt(s, at, i))
         /\ Ids(InsertAt(s, at, i)) = Ids(s) \cup {i} /\ InsertAt(s, at, i) # <<>>
<1> DEFINE a == SubSeq(s, 1, at - 1)
           b == SubSeq(s, at, Len(s))
           t == InsertAt(s, at, i)
<1>1. /\ Len(s) \in Nat /\ DOMAIN s = 1..Len(s) /\ at \in Nat
      /\ \A k \in 1..Len(s) : s[k] \in EvidenceIds
  OBVIOUS
<1>2. /\ a \in Seq(EvidenceIds) /\ Len(a) = at - 1
      /\ \A k \in 1..(at - 1) : a[k] = s[k]
  BY <1>1
<1>3. /\ b \in Seq(EvidenceIds) /\ Len(b) = Len(s) - at + 1
      /\ \A k \in 1..(Len(s) - at + 1) : b[k] = s[at + k - 1]
  BY <1>1
<1>4. /\ t \in Seq(EvidenceIds) /\ Len(t) = Len(s) + 1
      /\ \A k \in 1..(at - 1) : t[k] = s[k]
      /\ t[at] = i
      /\ \A k \in (at + 1)..(Len(s) + 1) : t[k] = s[k - 1]
  <2> DEFINE front == a \o <<i>>
  <2>1. t = front \o b
    BY DEF InsertAt
  <2>2. /\ <<i>> \in Seq(EvidenceIds) /\ front \in Seq(EvidenceIds) /\ Len(front) = at
        /\ \A k \in 1..(at - 1) : front[k] = a[k]
        /\ front[at] = i
    <3> HIDE DEF a
    <3> QED
      BY <1>1, <1>2
  <2> HIDE DEF a, b, t, front
  <2>3. /\ t \in Seq(EvidenceIds) /\ Len(t) = Len(front) + Len(b)
        /\ \A k \in 1..Len(front) : t[k] = front[k]
        /\ \A k \in (Len(front) + 1)..(Len(front) + Len(b)) : t[k] = b[k - Len(front)]
    <3>1. front \in Seq(EvidenceIds) /\ b \in Seq(EvidenceIds) /\ t = front \o b
      BY <1>3, <2>1, <2>2
    <3> QED
      BY <3>1
  <2>4. ASSUME NEW k \in (at + 1)..(Len(s) + 1)
        PROVE  t[k] = s[k - 1]
    <3>1. k - at \in 1..(Len(s) - at + 1) /\ at + (k - at) - 1 = k - 1
      BY <1>1
    <3>2. t[k] = b[k - at]
      BY <1>1, <1>3, <2>2, <2>3
    <3> QED
      BY <1>3, <3>1, <3>2
  <2> QED
    BY <1>1, <1>2, <1>3, <2>2, <2>3, <2>4
<1> HIDE DEF t
<1>5. DOMAIN t = 1..(Len(s) + 1) /\ t # <<>>
  BY <1>1, <1>4
<1>6. \A k \in DOMAIN t :
        \/ k \in 1..Len(s) /\ k < at /\ t[k] = s[k]
        \/ k = at /\ t[k] = i
        \/ k > at /\ k - 1 \in 1..Len(s) /\ t[k] = s[k - 1]
  <2> SUFFICES ASSUME NEW k \in 1..(Len(s) + 1)
               PROVE  \/ k \in 1..Len(s) /\ k < at /\ t[k] = s[k]
                      \/ k = at /\ t[k] = i
                      \/ k > at /\ k - 1 \in 1..Len(s) /\ t[k] = s[k - 1]
    BY <1>5
  <2>1. CASE k < at
    <3>1. k \in 1..(at - 1) /\ k \in 1..Len(s)
      BY <1>1, <2>1
    <3> QED
      BY <1>4, <2>1, <3>1
  <2>2. CASE k = at
    BY <1>4, <2>2
  <2>3. CASE k > at
    <3>1. k \in (at + 1)..(Len(s) + 1) /\ k - 1 \in 1..Len(s)
      BY <1>1, <2>3
    <3> QED
      BY <1>4, <2>3, <3>1
  <2> QED
    BY <1>1, <2>1, <2>2, <2>3
<1>7. Ids(t) = Ids(s) \cup {i}
  <2>1. Ids(t) \subseteq Ids(s) \cup {i}
    BY <1>1, <1>6 DEF Ids
  <2>2. ASSUME NEW k \in 1..Len(s)
        PROVE  \E l \in DOMAIN t : t[l] = s[k]
    <3>1. CASE k < at
      BY <1>1, <1>4, <1>5, <3>1
    <3>2. CASE ~(k < at)
      <4>1. k + 1 \in (at + 1)..(Len(s) + 1) /\ (k + 1) - 1 = k
        BY <1>1, <3>2
      <4>2. t[k + 1] = s[k]
        BY <1>4, <4>1
      <4> QED
        BY <1>1, <1>5, <4>1, <4>2
    <3> QED
      BY <3>1, <3>2
  <2>3. at \in DOMAIN t /\ t[at] = i
    BY <1>1, <1>4, <1>5
  <2> QED
    BY <1>1, <2>1, <2>2, <2>3 DEF Ids
<1>8. IsInjective(t)
  <2> SUFFICES ASSUME NEW k \in DOMAIN t, NEW l \in DOMAIN t, t[k] = t[l]
               PROVE  k = l
    BY DEF IsInjective
  <2>1. \A m \in 1..Len(s) : s[m] # i
    BY <1>1 DEF Ids
  <2>2. \A m, n \in 1..Len(s) : s[m] = s[n] => m = n
    BY <1>1 DEF IsInjective
  <2>3. k \in Nat /\ l \in Nat
    BY <1>1, <1>5
  <2>4. \/ k \in 1..Len(s) /\ k < at /\ t[k] = s[k]
        \/ k = at /\ t[k] = i
        \/ k > at /\ k - 1 \in 1..Len(s) /\ t[k] = s[k - 1]
    BY <1>6
  <2>5. \/ l \in 1..Len(s) /\ l < at /\ t[l] = s[l]
        \/ l = at /\ t[l] = i
        \/ l > at /\ l - 1 \in 1..Len(s) /\ t[l] = s[l - 1]
    BY <1>6
  <2>6. CASE k = at
    <3>1. t[l] = i
      BY <1>4, <2>6
    <3> QED
      BY <2>1, <2>5, <2>6, <3>1
  <2>7. CASE l = at
    <3>1. t[k] = i
      BY <1>4, <2>7
    <3> QED
      BY <2>1, <2>4, <2>7, <3>1
  <2>8. CASE k # at /\ l # at
    <3> DEFINE m == IF k < at THEN k ELSE k - 1
               n == IF l < at THEN l ELSE l - 1
    <3>1. m \in 1..Len(s) /\ n \in 1..Len(s) /\ s[m] = s[n]
      BY <1>1, <2>3, <2>4, <2>5, <2>8
    <3>2. m = n
      BY <2>2, <3>1
    <3> QED
      BY <1>1, <2>3, <2>4, <2>5, <2>8, <3>2
  <2> QED
    BY <2>6, <2>7, <2>8
<1> QED
  BY <1>4, <1>5, <1>7, <1>8 DEF t

(* The links of a sequence are those it is made of. *)
LEMMA LinksAreIds ==
  ASSUME NEW s \in Seq(EvidenceIds)
  PROVE  Ids(s) \subseteq EvidenceIds /\ (s = <<>> <=> Ids(s) = {})
<1>1. DOMAIN s = 1..Len(s) /\ Len(s) \in Nat /\ \A k \in 1..Len(s) : s[k] \in EvidenceIds
  OBVIOUS
<1>2. s = <<>> <=> Len(s) = 0
  OBVIOUS
<1>3. Ids(s) \subseteq EvidenceIds
  BY <1>1 DEF Ids
<1>4. ASSUME s = <<>>
      PROVE  Ids(s) = {}
  <2>1. DOMAIN s = {}
    BY <1>1, <1>2, <1>4
  <2> QED
    BY <2>1 DEF Ids
<1>5. ASSUME s # <<>>
      PROVE  Ids(s) # {}
  <2>1. 1 \in DOMAIN s
    BY <1>1, <1>2, <1>5
  <2> QED
    BY <2>1 DEF Ids
<1> QED
  BY <1>3, <1>4, <1>5

(* The tables of what is linked. *)
LEMMA LinkedRows ==
  ASSUME TablesOK, Stored
  PROVE  /\ DOMAIN evidence = Ids(experience.links)
         /\ DOMAIN states.evidence = Ids(experience.links)
         /\ Ids(experience.links) \subseteq EvidenceIds
         /\ Ids(experience.links) \subseteq DOMAIN revisions.evidence
         /\ experience.links \in Seq(EvidenceIds) /\ IsInjective(experience.links)
         /\ \A i \in Ids(experience.links) : states.evidence[i] = (evidence[i] = 1)
BY LinksAreIds DEF TablesOK, Row, StatesMatchValues, EvidenceIsLinked

(* So does saving the whole form, evidence included. *)
LEMMA SaveKeepsInv ==
  ASSUME Inv, NEW c \in Clients, Save(c)
  PROVE  Inv' /\ Moved
<1> SUFFICES ASSUME ~Refuse(c) PROVE Inv' /\ Moved
  BY ReadKeepsInv
<1> DEFINE item == request[c]
<1>1. PICK r \in Saves(seen[c]) :
  LET changed == Changed(item, r.edit)
      us == {save_unit_key(f) : f \in changed}
      touched == IF r.id # 0 /\ r.id \in DOMAIN item.contents /\ item.contents[r.id] # r.content
                   THEN {r.id} ELSE {}
      written == [i \in DOMAIN evidence |-> IF i \in touched THEN r.content ELSE evidence[i]]
      added == IF r.new = <<>> THEN {} ELSE {NextEvidence(written)}
      rows == [i \in DOMAIN written \cup added |-> IF i \in added THEN r.new[1] ELSE written[i]]
      links == IF added = {} THEN experience.links ELSE InsertAt(item.links, r.at, NextEvidence(written))
      new == [item EXCEPT !.fields = Edited(@, r.edit), !.links = links,
                          !.contents = [i \in DOMAIN @ |-> IF i \in touched THEN r.content ELSE @[i]]]
      revs == [unit |-> ClaimUnits(us),
               collection |-> revisions.collection + IF added = {} THEN 0 ELSE 1,
               evidence |-> [i \in DOMAIN revisions.evidence \cup added |->
                               IF i \in added THEN 0
                               ELSE revisions.evidence[i] + IF i \in touched THEN 1 ELSE 0]]
  IN
  /\ Len(r.new) = 0 \/ NextEvidence(evidence) \in EvidenceIds
  /\ Stored /\ seen[c].links = item.links
  /\ ValidDates(new.fields) /\ Claimed(c, us) /\ CollectionClaimed(c)
  /\ added \cap DOMAIN revisions.evidence = {}
  /\ Commit(c, new, Recalculate(new, [EditFields(item, changed, r.edit) EXCEPT !.links = links], rows),
            rows, revs)
  /\ states' = [fields |-> AdvanceFields(changed, new.fields),
                collection |-> IF added = {} THEN states.collection ELSE TRUE,
                evidence |-> [i \in DOMAIN states.evidence \cup added \cup touched |->
                              IF i \in added \cup touched THEN rows[i] = 1 ELSE states.evidence[i]]]
  BY DEF Save
<1> DEFINE changed == Changed(item, r.edit)
           us == {save_unit_key(f) : f \in changed}
           touched == IF r.id # 0 /\ r.id \in DOMAIN item.contents /\ item.contents[r.id] # r.content
                        THEN {r.id} ELSE {}
           written == [i \in DOMAIN evidence |-> IF i \in touched THEN r.content ELSE evidence[i]]
           added == IF r.new = <<>> THEN {} ELSE {NextEvidence(written)}
           rows == [i \in DOMAIN written \cup added |-> IF i \in added THEN r.new[1] ELSE written[i]]
           links == IF added = {} THEN experience.links ELSE InsertAt(item.links, r.at, NextEvidence(written))
           new == [item EXCEPT !.fields = Edited(@, r.edit), !.links = links,
                          !.contents = [i \in DOMAIN @ |-> IF i \in touched THEN r.content ELSE @[i]]]
           revs == [unit |-> ClaimUnits(us),
                    collection |-> revisions.collection + IF added = {} THEN 0 ELSE 1,
                    evidence |-> [i \in DOMAIN revisions.evidence \cup added |->
                               IF i \in added THEN 0
                               ELSE revisions.evidence[i] + IF i \in touched THEN 1 ELSE 0]]
           fields == [f \in Fields |-> IF f \in changed THEN r.edit[f] ELSE experience.fields[f]]
           statuses == AdvanceFields(changed, Edited(item.fields, r.edit))
           unit == ClaimUnits(us)
           judged == [i \in DOMAIN states.evidence \cup added \cup touched |->
                              IF i \in added \cup touched THEN rows[i] = 1 ELSE states.evidence[i]]
           edited == [EditFields(item, changed, r.edit) EXCEPT !.links = links]
<1>2. At(c, "save")
  BY DEF Save
<1>3. CopyOK(item) /\ Known(c) /\ Fresh(c) /\ Stored
  BY <1>1, <1>2, AtHasCopy
<1>4. new.fields = Edited(item.fields, r.edit)
  BY <1>3 DEF CopyOK
<1>5. /\ r.edit \in Edits(MaxEdited) /\ r.content \in Values
      /\ r.new = <<>> \/ \E v \in Values : r.new = <<v>>
  BY DEF Saves
<1>6. /\ fields \in [Fields -> Values] /\ ValidDates(fields)
      /\ statuses \in [Fields -> BOOLEAN]
      /\ \A f \in Fields : statuses[f] = field_status(f, fields)
      /\ unit \in [Units -> Nat] /\ \A u \in Units : revisions.unit[u] <= unit[u]
      /\ \A f \in Fields : unit[save_unit_key(f)] = revisions.unit[save_unit_key(f)]
                            => fields[f] = experience.fields[f]
  <2>1. DOMAIN r.edit \subseteq Fields /\ \A f \in DOMAIN r.edit : r.edit[f] \in Values
    BY <1>5, EditsAreTyped
  <2>2. item.fields \in [Fields -> Values] /\ ValidDates(Edited(item.fields, r.edit)) /\ Stored /\ TablesOK
    BY <1>1, <1>3, <1>4 DEF CopyOK, Inv
  <2>3. changed = {f \in DOMAIN r.edit : item.fields[f] # r.edit[f]} /\ changed \subseteq Fields
    BY <2>1 DEF Changed
  <2>4. \A f \in Fields : (\E g \in changed : save_unit_key(g) = save_unit_key(f))
                             => item.fields[f] = experience.fields[f]
    BY <1>1, <1>3, <2>3, ClaimedIsCurrent
  <2>5. /\ fields = [f \in Fields |-> IF f \in changed THEN r.edit[f] ELSE experience.fields[f]]
        /\ statuses = AdvanceFields(changed, Edited(item.fields, r.edit))
        /\ unit = ClaimUnits({save_unit_key(f) : f \in changed})
    OBVIOUS
  <2> HIDE DEF changed, item, us, fields, statuses, unit
  <2> QED
    BY <2>1, <2>2, <2>3, <2>4, <2>5, EditKeepsFields
<1>7. /\ experience' = Recalculate(new, edited, rows)
      /\ evidence' = rows /\ revisions' = revs
      /\ Commit(c, new, Recalculate(new, edited, rows), rows, revs)
  BY <1>1 DEF Commit
<1>8. /\ states'.fields = statuses
      /\ states'.collection = IF added = {} THEN states.collection ELSE TRUE
      /\ states'.evidence = judged
      /\ DOMAIN states' = {"fields", "collection", "evidence"}
  BY <1>1, <1>4
<1>9. /\ DOMAIN evidence = Ids(experience.links) /\ DOMAIN states.evidence = Ids(experience.links)
      /\ Ids(experience.links) \subseteq EvidenceIds
      /\ Ids(experience.links) \subseteq DOMAIN revisions.evidence
      /\ experience.links \in Seq(EvidenceIds) /\ IsInjective(experience.links)
      /\ \A i \in Ids(experience.links) : states.evidence[i] = (evidence[i] = 1)
  BY <1>3, LinkedRows DEF Inv
<1>10. item.links = experience.links
  BY <1>1, <1>3 DEF Fresh, CollectionClaimed
<1>11. touched \subseteq Ids(experience.links)
  BY <1>3, <1>10 DEF CopyOK
<1>12. /\ DOMAIN written = DOMAIN evidence /\ \A i \in DOMAIN evidence : written[i] \in Values
       /\ \A i \in DOMAIN evidence : i \notin touched => written[i] = evidence[i]
  BY <1>5 DEF Inv, TablesOK, EvidenceOK
<1>13. NextEvidence(written) = NextEvidence(evidence)
  BY <1>12 DEF NextEvidence
<1>14. /\ added \subseteq EvidenceIds /\ added \cap DOMAIN revisions.evidence = {}
       /\ added = {} \/ added = {NextEvidence(written)}
       /\ added # {} => r.new[1] \in Values
  <2>1. Len(r.new) = 0 \/ NextEvidence(evidence) \in EvidenceIds
    BY <1>1
  <2>2. added \cap DOMAIN revisions.evidence = {}
    BY <1>1
  <2>3. CASE r.new = <<>>
    BY <2>3
  <2>4. CASE r.new # <<>>
    <3>1. PICK v \in Values : r.new = <<v>>
      BY <1>5, <2>4
    <3>2. Len(r.new) = 1 /\ r.new[1] \in Values
      BY <3>1
    <3>3. added = {NextEvidence(written)}
      BY <2>4
    <3> HIDE DEF added, written
    <3> QED
      BY <1>13, <2>1, <2>2, <3>2, <3>3
  <2> QED
    BY <2>3, <2>4
<1>15. /\ links \in Seq(EvidenceIds) /\ IsInjective(links)
       /\ Ids(links) = Ids(experience.links) \cup added
       /\ added = {} => links = experience.links
       /\ added # {} => links # <<>>
  <2>1. r.at \in 1..(Len(item.links) + 1)
    BY <1>1 DEF Saves
  <2>2. CASE added = {}
    BY <1>9, <2>2
  <2>3. CASE added # {}
    <3> DEFINE i == NextEvidence(written)
    <3>1. added = {i} /\ i \in EvidenceIds /\ i \notin Ids(experience.links)
      BY <1>9, <1>14, <2>3
    <3>2. links = InsertAt(experience.links, r.at, i) /\ r.at \in 1..(Len(experience.links) + 1)
      BY <1>10, <2>1, <2>3
    <3> HIDE DEF i, links, added
    <3> QED
      BY <1>9, <2>3, <3>1, <3>2, InsertLinks
  <2> QED
    BY <2>2, <2>3
<1>16. /\ DOMAIN rows = Ids(links) /\ \A i \in DOMAIN rows : rows[i] \in Values
       /\ \A i \in Ids(experience.links) : i \notin touched => rows[i] = evidence[i]
  BY <1>9, <1>12, <1>14, <1>15
<1>17. /\ DOMAIN judged = Ids(links)
       /\ \A i \in Ids(links) : judged[i] = (rows[i] = 1)
  <2>1. DOMAIN judged = Ids(links)
    BY <1>9, <1>11, <1>15
  <2>2. ASSUME NEW i \in Ids(links)
        PROVE  judged[i] = (rows[i] = 1)
    <3>1. CASE i \in added \cup touched
      BY <2>1, <3>1
    <3>2. CASE i \notin added \cup touched
      <4>1. i \in Ids(experience.links) /\ rows[i] = evidence[i]
        BY <1>15, <1>16, <3>2
      <4>2. judged[i] = states.evidence[i]
        BY <2>1, <3>2
      <4> QED
        BY <1>9, <4>1, <4>2
    <3> QED
      BY <3>1, <3>2
  <2> QED
    BY <2>1, <2>2
<1>18. /\ RevisionsOK(revs) /\ revs.unit = unit
       /\ revisions.collection <= revs.collection /\ (revs.collection = revisions.collection => added = {})
       /\ DOMAIN revs.evidence = DOMAIN revisions.evidence \cup added
       /\ \A i \in DOMAIN revisions.evidence :
            /\ revisions.evidence[i] <= revs.evidence[i]
            /\ revs.evidence[i] = revisions.evidence[i] => i \notin touched
  BY <1>6, <1>14 DEF Inv, TablesOK, RevisionsOK
<1>19. /\ edited \in Row /\ edited.status # "absent"
       /\ edited.fields = fields /\ edited.links = links
  <2>1. edited = [experience EXCEPT !.fields = fields, !.links = links]
    BY DEF EditFields, Inv, TablesOK, Row
  <2> HIDE DEF edited, fields, links
  <2> QED
    BY <1>3, <1>6, <1>15, <2>1 DEF Inv, TablesOK, Row, Stored
<1> HIDE DEF item, changed, us, touched, written, added, rows, links, new, revs, fields, statuses, unit,
             judged, edited
<1>20. /\ experience' \in Row /\ experience'.status # "absent"
       /\ experience'.fields = fields /\ experience'.links = links
  BY <1>7, <1>19, RecalculateKeepsRow
<1>21. Stored'
  BY <1>20 DEF Stored
<1>22. states'.collection = (links # <<>>) /\ states'.collection \in BOOLEAN
  BY <1>3, <1>8, <1>15 DEF Inv, TablesOK, StatesMatchValues
<1>23. StatesOK'
  BY <1>6, <1>8, <1>22 DEF StatesOK
<1>24. EvidenceOK(rows) /\ Ids(links) \subseteq DOMAIN revs.evidence
  BY <1>9, <1>14, <1>15, <1>16, <1>18 DEF EvidenceOK
<1>25. StatesMatchValues'
  BY <1>6, <1>7, <1>8, <1>16, <1>17, <1>20, <1>22, <1>24 DEF StatesMatchValues
<1>26. TablesOK'
  BY <1>6, <1>7, <1>15, <1>16, <1>18, <1>20, <1>23, <1>24, <1>25
  DEF TablesOK, DatesConsistent, EvidenceIsLinked
<1>27. Tracked
  BY <1>6, <1>7, <1>14, <1>15, <1>16, <1>18, <1>20 DEF Tracked
<1> QED
  BY <1>3, <1>7, <1>21, <1>26, <1>27, CommitKeepsInv

(* A write to the evidence or to the list of links that keeps them together  *)
(* and moves their revisions.                                               *)
LEMMA EvidenceWriteKeepsTables ==
  ASSUME TablesOK, Stored, NEW item, NEW row \in Row, NEW rows, NEW revs,
         experience' = Recalculate(item, row, rows), evidence' = rows, revisions' = revs,
         row.status # "absent", row.fields = experience.fields, IsInjective(row.links),
         EvidenceOK(rows), DOMAIN rows = Ids(row.links),
         RevisionsOK(revs), revs.unit = revisions.unit, Ids(row.links) \subseteq DOMAIN revs.evidence,
         revisions.collection <= revs.collection,
         revs.collection = revisions.collection => row.links = experience.links,
         \A i \in DOMAIN revisions.evidence :
           /\ i \in DOMAIN revs.evidence /\ revisions.evidence[i] <= revs.evidence[i]
           /\ revs.evidence[i] = revisions.evidence[i] /\ i \in Ids(row.links)
                => i \in Ids(experience.links) /\ rows[i] = evidence[i],
         StatesOK', states'.fields = states.fields, states'.collection = (row.links # <<>>),
         DOMAIN states'.evidence = Ids(row.links),
         \A i \in Ids(row.links) : states'.evidence[i] = (rows[i] = 1)
  PROVE  TablesOK' /\ Stored' /\ Tracked
<1>1. /\ experience' \in Row /\ experience'.status # "absent"
      /\ experience'.fields = experience.fields /\ experience'.links = row.links
  BY RecalculateKeepsRow
<1>2. Stored'
  BY <1>1 DEF Stored
<1>3. StatesMatchValues'
  BY <1>1 DEF TablesOK, StatesMatchValues
<1>4. TablesOK'
  BY <1>1, <1>3 DEF TablesOK, DatesConsistent, EvidenceIsLinked
<1>5. Tracked
  BY <1>1 DEF Tracked, TablesOK, RevisionsOK
<1> QED
  BY <1>2, <1>4, <1>5

(* An item of evidence is added at the end. *)
LEMMA AddKeepsInv ==
  ASSUME Inv, NEW c \in Clients, AddEvidence(c)
  PROVE  Inv' /\ Moved
<1> SUFFICES ASSUME ~Refuse(c) PROVE Inv' /\ Moved
  BY ReadKeepsInv
<1> DEFINE i == NextEvidence(evidence)
           links == Append(request[c].links, i)
           revs == [revisions EXCEPT !.collection = @ + 1, !.evidence = With(@, i, 0)]
           row == [experience EXCEPT !.links = links]
<1>1. PICK v \in Values :
        /\ i \in EvidenceIds /\ Stored /\ CollectionClaimed(c) /\ i \notin DOMAIN revisions.evidence
        /\ MutateLinks(c, links, With(evidence, i, v), revs)
        /\ states' = [states EXCEPT !.collection = TRUE,
                                    !.evidence = With(@, i, With(evidence, i, v)[i] = 1)]
  BY DEF AddEvidence
<1> DEFINE rows == With(evidence, i, v)
           new == [request[c] EXCEPT !.links = links, !.contents = [j \in Ids(links) |-> rows[j]]]
<1>2. Commit(c, new, Recalculate(new, row, rows), rows, revs)
  BY <1>1 DEF MutateLinks
<1>3. CopyOK(request[c]) /\ Fresh(c)
  <2>1. At(c, "add")
    BY DEF AddEvidence
  <2> QED
    BY <1>1, <2>1, AtHasCopy
<1>4. /\ DOMAIN evidence = Ids(experience.links) /\ DOMAIN states.evidence = Ids(experience.links)
      /\ Ids(experience.links) \subseteq DOMAIN revisions.evidence
      /\ experience.links \in Seq(EvidenceIds) /\ IsInjective(experience.links)
      /\ \A j \in Ids(experience.links) : states.evidence[j] = (evidence[j] = 1)
      /\ Ids(experience.links) \subseteq EvidenceIds
  BY <1>1, LinkedRows DEF Inv
<1>5. request[c].links = experience.links
  BY <1>1, <1>3 DEF Fresh, CollectionClaimed
<1>6. /\ links \in Seq(EvidenceIds) /\ IsInjective(links)
      /\ Ids(links) = Ids(experience.links) \cup {i} /\ links # <<>>
  BY <1>1, <1>4, <1>5, AppendLinks
<1>7. /\ DOMAIN rows = Ids(links) /\ rows[i] = v /\ EvidenceOK(rows)
      /\ \A j \in Ids(experience.links) : rows[j] = evidence[j]
  BY <1>1, <1>4, <1>6 DEF With, Inv, TablesOK, EvidenceOK
<1>8. /\ RevisionsOK(revs) /\ revs.unit = revisions.unit /\ revs.collection = revisions.collection + 1
      /\ DOMAIN revs.evidence = DOMAIN revisions.evidence \cup {i}
      /\ \A j \in DOMAIN revisions.evidence : revs.evidence[j] = revisions.evidence[j]
  BY <1>1 DEF With, Inv, TablesOK, RevisionsOK
<1>9. row \in Row /\ row.status # "absent" /\ row.fields = experience.fields /\ row.links = links
  BY <1>1, <1>6 DEF Inv, TablesOK, Row, Stored
<1>10. /\ DOMAIN states' = {"fields", "collection", "evidence"} /\ states'.fields = states.fields
       /\ states'.evidence = With(states.evidence, i, rows[i] = 1)
  BY <1>1 DEF Inv, TablesOK, StatesOK
<1>11. states'.collection = TRUE
  BY <1>1 DEF Inv, TablesOK, StatesOK
<1>12. DOMAIN states'.evidence = Ids(links)
  BY <1>4, <1>6, <1>10 DEF With
<1>13. ASSUME NEW j \in Ids(links)
       PROVE  states'.evidence[j] = (rows[j] = 1)
  <2>1. CASE j = i
    BY <1>10, <2>1 DEF With
  <2>2. CASE j # i
    <3>1. j \in Ids(experience.links) /\ rows[j] = evidence[j]
      BY <1>6, <1>7, <2>2
    <3>2. states'.evidence[j] = states.evidence[j]
      BY <1>4, <1>10, <2>2, <3>1 DEF With
    <3> QED
      BY <1>4, <3>1, <3>2
  <2> QED
    BY <2>1, <2>2
<1>14. StatesOK'
  BY <1>10, <1>11 DEF Inv, TablesOK, StatesOK
<1>15. TablesOK' /\ Stored' /\ Tracked
  <2>1. /\ experience' = Recalculate(new, row, rows) /\ evidence' = rows /\ revisions' = revs
    BY <1>2 DEF Commit
  <2>2. /\ TablesOK /\ revisions.collection \in Nat
        /\ \A j \in DOMAIN revisions.evidence : revisions.evidence[j] \in Nat
    BY DEF Inv, TablesOK, RevisionsOK
  <2>3. states'.collection = (row.links # <<>>)
    BY <1>6, <1>9, <1>11
  <2>4. /\ revisions.collection <= revs.collection /\ revs.collection # revisions.collection
        /\ \A j \in DOMAIN revisions.evidence :
             /\ j \in DOMAIN revs.evidence /\ revisions.evidence[j] <= revs.evidence[j]
             /\ j \in Ids(row.links) => j \in Ids(experience.links) /\ rows[j] = evidence[j]
    BY <1>1, <1>6, <1>7, <1>8, <1>9, <2>2
  <2>5. Ids(row.links) \subseteq DOMAIN revs.evidence /\ DOMAIN rows = Ids(row.links)
    BY <1>4, <1>6, <1>7, <1>8, <1>9
  <2> HIDE DEF i, links, revs, row, rows, new
  <2> QED
    BY <1>1, <1>6, <1>7, <1>8, <1>9, <1>10, <1>12, <1>13, <1>14, <2>1, <2>2, <2>3, <2>4, <2>5,
       EvidenceWriteKeepsTables
<1> HIDE DEF i, links, revs, row, rows, new
<1> QED
  BY <1>1, <1>2, <1>15, CommitKeepsInv

(* An item of evidence is changed in place. *)
LEMMA ChangeKeepsInv ==
  ASSUME Inv, NEW c \in Clients, ChangeEvidence(c)
  PROVE  Inv' /\ Moved
<1> SUFFICES ASSUME ~Refuse(c) PROVE Inv' /\ Moved
  BY ReadKeepsInv
<1>1. PICK i \in Ids(seen[c].links), v \in Values :
        LET item == request[c]
            owned == i \in Ids(experience.links)
            changed == owned /\ (IF i \in DOMAIN item.contents THEN item.contents[i] ELSE evidence[i]) # v
            rows == IF changed THEN With(evidence, i, v) ELSE evidence
            new == IF changed THEN [item EXCEPT !.contents = With(@, i, v)] ELSE item
        IN /\ Stored /\ owned /\ (changed => EvidenceClaimed(c, i))
           /\ Commit(c, new, Recalculate(new, experience, rows), rows,
                      IF changed THEN [revisions EXCEPT !.evidence[i] = @ + 1] ELSE revisions)
           /\ states' = [states EXCEPT !.evidence = IF changed THEN With(@, i, v = 1) ELSE @]
  BY DEF ChangeEvidence
<1> DEFINE changed == (IF i \in DOMAIN request[c].contents THEN request[c].contents[i] ELSE evidence[i]) # v
<1>2. Stored /\ i \in Ids(experience.links)
  BY <1>1
<1>3. /\ DOMAIN evidence = Ids(experience.links) /\ DOMAIN states.evidence = Ids(experience.links)
      /\ Ids(experience.links) \subseteq DOMAIN revisions.evidence
      /\ experience.links \in Seq(EvidenceIds) /\ IsInjective(experience.links)
      /\ \A j \in Ids(experience.links) : states.evidence[j] = (evidence[j] = 1)
      /\ Ids(experience.links) \subseteq EvidenceIds
  BY <1>2, LinkedRows DEF Inv
<1>4. /\ experience \in Row /\ experience.status # "absent" /\ RevisionsOK(revisions) /\ TablesOK
      /\ EvidenceOK(evidence)
  BY <1>2 DEF Inv, TablesOK, Stored
<1>5. CASE changed
  <2> DEFINE rows == With(evidence, i, v)
             revs == [revisions EXCEPT !.evidence[i] = @ + 1]
             new == [request[c] EXCEPT !.contents = With(@, i, v)]
  <2>1. Commit(c, new, Recalculate(new, experience, rows), rows, revs)
    BY <1>1, <1>5
  <2>2. states' = [states EXCEPT !.evidence = With(@, i, v = 1)]
    BY <1>1, <1>5
  <2>3. /\ DOMAIN rows = Ids(experience.links) /\ rows[i] = v /\ EvidenceOK(rows)
        /\ \A j \in Ids(experience.links) : j # i => rows[j] = evidence[j]
    BY <1>2, <1>3, <1>4 DEF With, EvidenceOK
  <2>4. /\ RevisionsOK(revs) /\ revs.unit = revisions.unit /\ revs.collection = revisions.collection
        /\ DOMAIN revs.evidence = DOMAIN revisions.evidence
        /\ revs.evidence[i] = revisions.evidence[i] + 1
        /\ \A j \in DOMAIN revisions.evidence : j # i => revs.evidence[j] = revisions.evidence[j]
    BY <1>2, <1>3, <1>4 DEF RevisionsOK
  <2>5. /\ DOMAIN states' = {"fields", "collection", "evidence"} /\ states'.fields = states.fields
        /\ states'.evidence = With(states.evidence, i, v = 1)
    BY <2>2 DEF Inv, TablesOK, StatesOK
  <2>6. states'.collection = states.collection
    BY <2>2 DEF Inv, TablesOK, StatesOK
  <2>7. DOMAIN states'.evidence = Ids(experience.links)
    BY <1>2, <1>3, <2>5 DEF With
  <2>8. ASSUME NEW j \in Ids(experience.links)
        PROVE  states'.evidence[j] = (rows[j] = 1)
    <3>1. CASE j = i
      BY <2>3, <2>5, <3>1 DEF With
    <3>2. CASE j # i
      <4>1. states'.evidence[j] = states.evidence[j]
        BY <1>3, <2>5, <3>2 DEF With
      <4> QED
        BY <1>3, <2>3, <3>2, <4>1
    <3> QED
      BY <3>1, <3>2
  <2>9. states'.collection = (experience.links # <<>>) /\ StatesOK'
    BY <1>2, <2>5, <2>6 DEF Inv, TablesOK, StatesOK, StatesMatchValues
  <2>10. TablesOK' /\ Stored' /\ Tracked
    <3>1. /\ experience' = Recalculate(new, experience, rows) /\ evidence' = rows /\ revisions' = revs
      BY <2>1 DEF Commit
    <3>2. /\ revisions.collection <= revs.collection
          /\ \A j \in DOMAIN revisions.evidence :
               /\ j \in DOMAIN revs.evidence /\ revisions.evidence[j] <= revs.evidence[j]
               /\ revs.evidence[j] = revisions.evidence[j] /\ j \in Ids(experience.links)
                    => rows[j] = evidence[j]
      BY <1>2, <1>3, <1>4, <2>3, <2>4 DEF RevisionsOK
    <3>3. Ids(experience.links) \subseteq DOMAIN revs.evidence
      BY <1>3, <2>4
    <3> HIDE DEF rows, revs, new
    <3> QED
      BY <1>2, <1>3, <1>4, <2>3, <2>4, <2>5, <2>7, <2>8, <2>9, <3>1, <3>2, <3>3,
         EvidenceWriteKeepsTables
  <2> HIDE DEF rows, revs, new
  <2> QED
    BY <1>2, <2>1, <2>10, CommitKeepsInv
<1>6. CASE ~changed
  <2> DEFINE item == request[c]
  <2>1. Commit(c, item, Recalculate(item, experience, evidence), evidence, revisions)
    BY <1>1, <1>6
  <2>2. states' = [states EXCEPT !.evidence = @]
    BY <1>1, <1>6
  <2>3. /\ DOMAIN states' = {"fields", "collection", "evidence"} /\ states'.fields = states.fields
        /\ states'.evidence = states.evidence
    BY <2>2 DEF Inv, TablesOK, StatesOK
  <2>4. states'.collection = states.collection
    BY <2>2 DEF Inv, TablesOK, StatesOK
  <2>5. states'.collection = (experience.links # <<>>) /\ StatesOK'
    BY <1>2, <2>3, <2>4 DEF Inv, TablesOK, StatesOK, StatesMatchValues
  <2>6. TablesOK' /\ Stored' /\ Tracked
    <3>1. experience' = Recalculate(item, experience, evidence) /\ evidence' = evidence /\ revisions' = revisions
      BY <2>1 DEF Commit
    <3>2. /\ revisions.collection <= revisions.collection
          /\ \A j \in DOMAIN revisions.evidence : revisions.evidence[j] <= revisions.evidence[j]
      BY <1>4 DEF RevisionsOK
    <3> HIDE DEF item
    <3> QED
      BY <1>2, <1>3, <1>4, <2>3, <2>5, <3>1, <3>2, EvidenceWriteKeepsTables
  <2> HIDE DEF item
  <2> QED
    BY <1>2, <2>1, <2>6, CommitKeepsInv
<1> QED
  BY <1>5, <1>6

(* Every set of natural numbers has a least one. *)
LEMMA LeastNatural ==
  ASSUME NEW T, T \subseteq Nat, T # {}
  PROVE  \E n \in T : \A m \in T : n <= m
<1>1. PICK n \in T : \A m \in T : ~(<<m, n>> \in OpToRel(<, Nat))
  BY WFMin, NatLessThanWellFounded
<1>2. \A m \in T : ~(m < n)
  BY <1>1 DEF OpToRel
<1> QED
  BY <1>2

(* Unlinking an item that is linked. *)
LEMMA RemoveLinks ==
  ASSUME NEW s \in Seq(EvidenceIds), IsInjective(s), NEW i \in Ids(s)
  PROVE  /\ RemoveFirst(s, i) \in Seq(EvidenceIds) /\ IsInjective(RemoveFirst(s, i))
         /\ Ids(RemoveFirst(s, i)) = Ids(s) \ {i}
<1> DEFINE I == {j \in 1..Len(s) : s[j] = i}
<1>1. DOMAIN s = 1..Len(s) /\ Len(s) \in Nat /\ \A j \in 1..Len(s) : s[j] \in EvidenceIds
  OBVIOUS
<1>2. I # {} /\ I \subseteq Nat
  BY <1>1 DEF Ids
<1>3. RemoveFirst(s, i) = RemoveAt(s, Min(I))
  BY <1>2 DEF RemoveFirst, SelectInSeq
<1>4. Min(I) \in I
  <2> HIDE DEF I
  <2> QED
    BY <1>2, LeastNatural DEF Min
<1>5. PICK k \in 1..Len(s) : s[k] = i /\ RemoveFirst(s, i) = RemoveAt(s, k)
  BY <1>3, <1>4
<1> HIDE DEF I
<1> DEFINE t == RemoveAt(s, k)
<1>6. /\ t \in Seq(EvidenceIds) /\ Len(t) = Len(s) - 1 /\ DOMAIN t = 1..(Len(s) - 1)
      /\ \A j \in 1..(Len(s) - 1) : t[j] = IF j < k THEN s[j] ELSE s[j + 1]
  <2> DEFINE a == SubSeq(s, 1, k - 1)
             b == SubSeq(s, k + 1, Len(s))
  <2>1. a \in Seq(EvidenceIds) /\ Len(a) = k - 1 /\ \A j \in 1..(k - 1) : a[j] = s[j]
    BY <1>1
  <2>2. b \in Seq(EvidenceIds) /\ Len(b) = Len(s) - k /\ \A j \in 1..(Len(s) - k) : b[j] = s[j + k]
    <3>1. Len(s) \in Int /\ k \in Int /\ 1 <= k /\ k <= Len(s)
      BY <1>1
    <3> DEFINE n == Len(s)
    <3>3. \A j \in (k + 1)..n : s[j] \in EvidenceIds
      BY <1>1, <3>1
    <3> HIDE DEF n
    <3>4. /\ k + 1 \in Int /\ n \in Int
          /\ \A j \in 1..(n - k) : j \in 1..(n - (k + 1) + 1) /\ (k + 1) + j - 1 = j + k
      BY <3>1 DEF n
    <3>5. (IF k + 1 <= n THEN n - (k + 1) + 1 ELSE 0) = n - k
      BY <3>1 DEF n
    <3> USE DEF n
    <3>2. /\ b \in Seq(EvidenceIds)
          /\ Len(b) = IF k + 1 <= Len(s) THEN Len(s) - (k + 1) + 1 ELSE 0
          /\ \A j \in 1..(Len(s) - (k + 1) + 1) : b[j] = s[(k + 1) + j - 1]
      BY <3>3, <3>4, SubSeqProperties
    <3> HIDE DEF b
    <3> QED
      BY <3>2, <3>4, <3>5
  <2>3. t = a \o b
    BY DEF RemoveAt
  <2> HIDE DEF a, b, t
  <2>4. /\ t \in Seq(EvidenceIds) /\ Len(t) = Len(a) + Len(b) /\ DOMAIN t = 1..Len(t)
        /\ \A j \in 1..(Len(a) + Len(b)) : t[j] = IF j <= Len(a) THEN a[j] ELSE b[j - Len(a)]
    BY <2>1, <2>2, <2>3, ConcatProperties, LenProperties
  <2>5. Len(a) + Len(b) = Len(s) - 1
    BY <1>1, <2>1, <2>2
  <2>6. ASSUME NEW j \in 1..(Len(s) - 1)
        PROVE  t[j] = IF j < k THEN s[j] ELSE s[j + 1]
    <3>1. CASE j < k
      <4>1. j \in 1..(k - 1) /\ j <= Len(a) /\ j \in 1..(Len(a) + Len(b))
        BY <1>1, <2>1, <2>5, <3>1
      <4> QED
        BY <2>1, <2>4, <3>1, <4>1
    <3>2. CASE ~(j < k)
      <4>1. /\ j - (k - 1) \in 1..(Len(s) - k) /\ (j - (k - 1)) + k = j + 1
            /\ ~(j <= Len(a)) /\ j \in 1..(Len(a) + Len(b))
        BY <1>1, <2>1, <2>5, <3>2
      <4> QED
        BY <2>1, <2>2, <2>4, <3>2, <4>1
    <3> QED
      BY <3>1, <3>2
  <2> QED
    BY <2>4, <2>5, <2>6
<1> HIDE DEF t
<1>7. \A a, b \in 1..Len(s) : s[a] = s[b] => a = b
  BY <1>1 DEF IsInjective
<1>8. IsInjective(t)
  <2> SUFFICES ASSUME NEW a \in 1..(Len(s) - 1), NEW b \in 1..(Len(s) - 1), t[a] = t[b]
               PROVE  a = b
    BY <1>6 DEF IsInjective
  <2> DEFINE p == IF a < k THEN a ELSE a + 1
             q == IF b < k THEN b ELSE b + 1
  <2>1. p \in 1..Len(s) /\ q \in 1..Len(s) /\ s[p] = t[a] /\ s[q] = t[b]
    BY <1>1, <1>6
  <2>2. p = q
    BY <1>7, <2>1
  <2> QED
    BY <2>2
<1>9. Ids(t) = Ids(s) \ {i}
  <2>1. ASSUME NEW j \in 1..(Len(s) - 1)
        PROVE  t[j] \in Ids(s) \ {i}
    <3> DEFINE p == IF j < k THEN j ELSE j + 1
    <3>1. p \in 1..Len(s) /\ s[p] = t[j] /\ p # k
      BY <1>1, <1>6
    <3> HIDE DEF p
    <3> QED
      BY <1>1, <1>5, <1>7, <3>1 DEF Ids
  <2>2. ASSUME NEW p \in 1..Len(s), s[p] # i
        PROVE  s[p] \in Ids(t)
    <3> DEFINE j == IF p < k THEN p ELSE p - 1
    <3>1. j \in 1..(Len(s) - 1) /\ t[j] = s[p]
      BY <1>1, <1>5, <1>6, <2>2
    <3> HIDE DEF j
    <3> QED
      BY <1>6, <3>1 DEF Ids
  <2> QED
    BY <1>1, <1>6, <2>1, <2>2 DEF Ids
<1> QED
  BY <1>5, <1>6, <1>8, <1>9 DEF t

(* An item of evidence goes, with its link and its row. *)
LEMMA RemoveKeepsInv ==
  ASSUME Inv, NEW c \in Clients, RemoveEvidence(c)
  PROVE  Inv' /\ Moved
<1> SUFFICES ASSUME ~Refuse(c) PROVE Inv' /\ Moved
  BY ReadKeepsInv
<1>1. PICK i \in Ids(seen[c].links) :
        LET links == RemoveFirst(request[c].links, i)
        IN /\ Stored /\ i \in Ids(experience.links) /\ CollectionClaimed(c)
           /\ MutateLinks(c, links, Without(evidence, {i}),
                           [revisions EXCEPT !.collection = @ + 1, !.evidence[i] = @ + 1])
           /\ states' = [states EXCEPT !.collection = links # <<>>, !.evidence = Without(@, {i})]
  BY DEF RemoveEvidence
<1> DEFINE links == RemoveFirst(request[c].links, i)
           revs == [revisions EXCEPT !.collection = @ + 1, !.evidence[i] = @ + 1]
           row == [experience EXCEPT !.links = links]
           rows == Without(evidence, {i})
           new == [request[c] EXCEPT !.links = links, !.contents = [j \in Ids(links) |-> rows[j]]]
<1>2. Commit(c, new, Recalculate(new, row, rows), rows, revs)
  BY <1>1 DEF MutateLinks
<1>3. CopyOK(request[c]) /\ Fresh(c)
  <2>1. At(c, "remove")
    BY DEF RemoveEvidence
  <2> QED
    BY <1>1, <2>1, AtHasCopy
<1>4. /\ DOMAIN evidence = Ids(experience.links) /\ DOMAIN states.evidence = Ids(experience.links)
      /\ Ids(experience.links) \subseteq DOMAIN revisions.evidence
      /\ experience.links \in Seq(EvidenceIds) /\ IsInjective(experience.links)
      /\ \A j \in Ids(experience.links) : states.evidence[j] = (evidence[j] = 1)
      /\ Ids(experience.links) \subseteq EvidenceIds
  BY <1>1, LinkedRows DEF Inv
<1>5. request[c].links = experience.links /\ i \in Ids(experience.links)
  BY <1>1, <1>3 DEF Fresh, CollectionClaimed
<1>6. links \in Seq(EvidenceIds) /\ IsInjective(links) /\ Ids(links) = Ids(experience.links) \ {i}
  BY <1>4, <1>5, RemoveLinks
<1>7. /\ DOMAIN rows = Ids(links) /\ EvidenceOK(rows)
      /\ \A j \in Ids(links) : rows[j] = evidence[j]
  BY <1>4, <1>6 DEF Without, Inv, TablesOK, EvidenceOK
<1>8. /\ RevisionsOK(revs) /\ revs.unit = revisions.unit /\ revs.collection = revisions.collection + 1
      /\ DOMAIN revs.evidence = DOMAIN revisions.evidence
      /\ revs.evidence[i] = revisions.evidence[i] + 1
      /\ \A j \in DOMAIN revisions.evidence : j # i => revs.evidence[j] = revisions.evidence[j]
  BY <1>4, <1>5 DEF Inv, TablesOK, RevisionsOK
<1>9. row \in Row /\ row.status # "absent" /\ row.fields = experience.fields /\ row.links = links
  BY <1>1, <1>6 DEF Inv, TablesOK, Row, Stored
<1>10. /\ DOMAIN states' = {"fields", "collection", "evidence"} /\ states'.fields = states.fields
       /\ states'.evidence = Without(states.evidence, {i})
  BY <1>1 DEF Inv, TablesOK, StatesOK
<1>11. states'.collection = (links # <<>>)
  BY <1>1 DEF Inv, TablesOK, StatesOK
<1>12. DOMAIN states'.evidence = Ids(links)
  BY <1>4, <1>6, <1>10 DEF Without
<1>13. ASSUME NEW j \in Ids(links)
       PROVE  states'.evidence[j] = (rows[j] = 1)
  <2>1. states'.evidence[j] = states.evidence[j]
    BY <1>4, <1>6, <1>10 DEF Without
  <2>2. j \in Ids(experience.links) /\ rows[j] = evidence[j]
    BY <1>6, <1>7
  <2> QED
    BY <1>4, <2>1, <2>2
<1>14. StatesOK'
  BY <1>10, <1>11 DEF Inv, TablesOK, StatesOK
<1>15. TablesOK' /\ Stored' /\ Tracked
  <2>1. experience' = Recalculate(new, row, rows) /\ evidence' = rows /\ revisions' = revs
    BY <1>2 DEF Commit
  <2>2. /\ TablesOK /\ revisions.collection \in Nat
        /\ \A j \in DOMAIN revisions.evidence : revisions.evidence[j] \in Nat
    BY DEF Inv, TablesOK, RevisionsOK
  <2>3. states'.collection = (row.links # <<>>)
    BY <1>9, <1>11
  <2>4. /\ revisions.collection <= revs.collection /\ revs.collection # revisions.collection
        /\ \A j \in DOMAIN revisions.evidence :
             /\ j \in DOMAIN revs.evidence /\ revisions.evidence[j] <= revs.evidence[j]
             /\ j \in Ids(row.links) => j \in Ids(experience.links) /\ rows[j] = evidence[j]
    <3> HIDE DEF links, revs, row, rows
    <3> QED
      BY <1>6, <1>7, <1>8, <1>9, <2>2
  <2>5. Ids(row.links) \subseteq DOMAIN revs.evidence /\ DOMAIN rows = Ids(row.links)
    BY <1>4, <1>6, <1>7, <1>8, <1>9
  <2> HIDE DEF links, revs, row, rows, new
  <2> QED
    BY <1>1, <1>6, <1>7, <1>8, <1>9, <1>10, <1>12, <1>13, <1>14, <2>1, <2>2, <2>3, <2>4, <2>5,
       EvidenceWriteKeepsTables
<1> HIDE DEF links, revs, row, rows, new
<1> QED
  BY <1>1, <1>2, <1>15, CommitKeepsInv

(* An order of links that are all different is one of the same links. *)
LEMMA OrdersKeepLinks ==
  ASSUME NEW s \in Seq(EvidenceIds), NEW t \in Orders(s)
  PROVE  t \in Seq(EvidenceIds) /\ IsInjective(t)
<1>1. Len(s) \in Nat /\ Ids(s) \subseteq EvidenceIds
  BY LinksAreIds
<1>2. t \in [1..Len(s) -> EvidenceIds] /\ IsInjective(t)
  BY <1>1 DEF Orders
<1> QED
  BY <1>1, <1>2

(* A write that touches only the order of the links. *)
LEMMA OrderKeepsTables ==
  ASSUME TablesOK, Stored, NEW item, NEW links \in Seq(EvidenceIds), NEW revs,
         IsInjective(links), Ids(links) = Ids(experience.links),
         \/ revs = revisions /\ links = experience.links
         \/ revs = [revisions EXCEPT !.collection = @ + 1],
         experience' = Recalculate(item, [experience EXCEPT !.links = links], evidence),
         evidence' = evidence, revisions' = revs, states' = states
  PROVE  TablesOK' /\ Stored' /\ Tracked
<1> DEFINE row == [experience EXCEPT !.links = links]
<1>1. row \in Row /\ row.status # "absent" /\ row.fields = experience.fields /\ row.links = links
  BY DEF TablesOK, Row, Stored
<1>2. /\ DOMAIN evidence = Ids(links) /\ DOMAIN states.evidence = Ids(links)
      /\ Ids(links) \subseteq DOMAIN revisions.evidence
      /\ \A j \in Ids(links) : states.evidence[j] = (evidence[j] = 1)
  BY LinkedRows
<1>3. /\ RevisionsOK(revs) /\ revs.unit = revisions.unit /\ revs.evidence = revisions.evidence
      /\ revisions.collection <= revs.collection
      /\ revs.collection = revisions.collection => links = experience.links
      /\ \A j \in DOMAIN revisions.evidence : revisions.evidence[j] <= revs.evidence[j]
  BY DEF TablesOK, RevisionsOK
<1>4. links # <<>> <=> experience.links # <<>>
  BY LinksAreIds, LinkedRows
<1>5. states'.collection = (links # <<>>)
  BY <1>4 DEF TablesOK, StatesMatchValues
<1>6. StatesOK'
  BY DEF TablesOK, StatesOK
<1>7. EvidenceOK(evidence)
  BY DEF TablesOK
<1> HIDE DEF row
<1> QED
  BY <1>1, <1>2, <1>3, <1>5, <1>6, <1>7, EvidenceWriteKeepsTables DEF row

(* The links get a new order; the items stay. *)
LEMMA ReorderKeepsInv ==
  ASSUME Inv, NEW c \in Clients, Reorder(c)
  PROVE  Inv' /\ Moved
<1> SUFFICES ASSUME ~Refuse(c) PROVE Inv' /\ Moved
  BY ReadKeepsInv
<1> DEFINE item == request[c]
<1>1. PICK links \in Orders(seen[c].links) :
        /\ Stored /\ Ids(links) = Ids(item.links) /\ (links = item.links \/ CollectionClaimed(c))
        /\ IF links = item.links
             THEN Commit(c, item, Recalculate(item, experience, evidence), evidence, revisions)
             ELSE MutateLinks(c, links, evidence, [revisions EXCEPT !.collection = @ + 1])
        /\ UNCHANGED states
  BY DEF Reorder
<1>2. CopyOK(item) /\ Fresh(c) /\ seen[c].links \in Seq(EvidenceIds)
  <2>1. At(c, "reorder")
    BY DEF Reorder
  <2> QED
    BY <1>1, <2>1, AtHasCopy
<1>3. CASE links = item.links
  <2>1. Commit(c, item, Recalculate(item, experience, evidence), evidence, revisions)
    BY <1>1, <1>3
  <2>2. experience = [experience EXCEPT !.links = experience.links]
    BY DEF Inv, TablesOK, Row
  <2>3. /\ experience' = Recalculate(item, [experience EXCEPT !.links = experience.links], evidence)
        /\ evidence' = evidence /\ revisions' = revisions /\ states' = states
    BY <1>1, <2>1, <2>2 DEF Commit
  <2>4. experience.links \in Seq(EvidenceIds) /\ IsInjective(experience.links) /\ TablesOK
    BY DEF Inv, TablesOK, Row
  <2>5. TablesOK' /\ Stored' /\ Tracked
    <3> HIDE DEF item
    <3> QED
      BY <1>1, <2>3, <2>4, OrderKeepsTables
  <2> QED
    BY <1>1, <2>1, <2>5, CommitKeepsInv
<1>4. CASE links # item.links
  <2> DEFINE revs == [revisions EXCEPT !.collection = @ + 1]
             row == [experience EXCEPT !.links = links]
             new == [item EXCEPT !.links = links, !.contents = [i \in Ids(links) |-> evidence[i]]]
  <2>1. Commit(c, new, Recalculate(new, row, evidence), evidence, revs)
    BY <1>1, <1>4 DEF MutateLinks
  <2>2. item.links = experience.links
    BY <1>1, <1>2, <1>4 DEF Fresh, CollectionClaimed
  <2>3. links \in Seq(EvidenceIds) /\ IsInjective(links)
    BY <1>2, OrdersKeepLinks
  <2>4. /\ experience' = Recalculate(new, row, evidence)
        /\ evidence' = evidence /\ revisions' = revs /\ states' = states
    BY <1>1, <2>1 DEF Commit
  <2>5. TablesOK' /\ Stored' /\ Tracked
    <3>1. TablesOK /\ Ids(links) = Ids(experience.links)
      BY <1>1, <2>2 DEF Inv
    <3> HIDE DEF item, new
    <3> QED
      BY <1>1, <2>3, <2>4, <3>1, OrderKeepsTables
  <2> HIDE DEF revs, row, new
  <2> QED
    BY <1>1, <2>1, <2>5, CommitKeepsInv
<1> QED
  BY <1>3, <1>4

(* The statuses: no revision moves, and nothing is written that has one. *)
LEMMA StatusKeepsInv ==
  ASSUME Inv, NEW c \in Clients, Stored, NEW status \in Statuses, SetStatus(c, status)
  PROVE  Inv' /\ Moved
<1> DEFINE item == [request[c] EXCEPT !.status = status]
           row == [experience EXCEPT !.status = Set(request[c].status, status, @)]
<1>1. Commit(c, item, row, evidence, revisions) /\ states' = states
  BY DEF SetStatus
<1>2. /\ row \in Row /\ row.status # "absent" /\ row.fields = experience.fields
      /\ row.links = experience.links
  <2>1. Set(request[c].status, status, experience.status) \in Statuses
    BY DEF Set, Inv, TablesOK, Row, Stored
  <2> HIDE DEF Set
  <2> QED
    BY <2>1 DEF Inv, TablesOK, Row, Statuses
<1>3. /\ experience' = row /\ evidence' = evidence /\ revisions' = revisions
  BY <1>1 DEF Commit
<1> HIDE DEF row, item
<1>4. Stored'
  BY <1>2, <1>3 DEF Stored
<1>5. TablesOK'
  BY <1>1, <1>2, <1>3, <1>4
  DEF Inv, TablesOK, StatesOK, DatesConsistent, StatesMatchValues, EvidenceIsLinked
<1>6. Tracked
  BY <1>2, <1>3 DEF Inv, TablesOK, RevisionsOK, Tracked
<1> QED
  BY <1>1, <1>4, <1>5, <1>6, CommitKeepsInv

(* Marking ready, archiving and restoring move the status alone. *)
LEMMA StatusesKeepInv ==
  ASSUME Inv, NEW c \in Clients, MarkReady(c) \/ Archive(c) \/ Restore(c)
  PROVE  Inv' /\ Moved
<1>1. "ready" \in Statuses /\ "archived" \in Statuses /\ "draft" \in Statuses
  BY DEF Statuses
<1>2. Refuse(c) \/ (Stored /\ \E status \in Statuses : SetStatus(c, status))
  BY <1>1 DEF MarkReady, Archive, Restore
<1> QED
  BY <1>2, ReadKeepsInv, StatusKeepsInv

(* Deletion takes the experience with all its tables. *)
LEMMA DeleteKeepsInv ==
  ASSUME Inv, NEW c \in Clients, Delete(c)
  PROVE  Inv' /\ Moved
<1> SUFFICES ASSUME ~Refuse(c) PROVE Inv' /\ Moved
  BY ReadKeepsInv
<1>1. /\ commits < MaxCommits /\ commits' = commits + 1
      /\ experience' = Absent
      /\ evidence' = Without(evidence, Ids(request[c].links))
      /\ revisions' = NoRevisions /\ states' = NoStates
      /\ seen' = [seen EXCEPT ![c] = Nothing] /\ request' = [request EXCEPT ![c] = Nothing]
      /\ UNCHANGED proposal
  BY DEF Delete
<1>2. ~Stored'
  BY <1>1 DEF Stored, Absent
<1>3. StatesOK'
  BY <1>1 DEF StatesOK, NoStates
<1>4. RevisionsOK(revisions')
  BY <1>1 DEF RevisionsOK, NoRevisions
<1>5. EvidenceOK(evidence')
  BY <1>1 DEF Inv, TablesOK, EvidenceOK, Without
<1>6. experience' \in Row /\ IsInjective(experience'.links)
  BY <1>1, Points DEF Absent, Row, Values, IsInjective
<1>7. TablesOK'
  BY <1>2, <1>3, <1>4, <1>5, <1>6 DEF TablesOK, DatesConsistent, StatesMatchValues, EvidenceIsLinked
<1>8. CommitsOK'
  BY <1>1, Bounds DEF Inv, CommitsOK
<1>9. ClientsOK'
  BY <1>1, <1>2 DEF Inv, ClientsOK
<1>10. ProposalOK'
  BY <1>1, <1>2 DEF Inv, ProposalOK, RevisionPinsProposal, TargetExists
<1> QED
  BY <1>2, <1>7, <1>8, <1>9, <1>10 DEF Inv, Moved

(* A new experience starts with consistent tables. *)
LEMMA CreateKeepsInv ==
  ASSUME Inv, NEW c \in Clients, Create(c)
  PROVE  Inv' /\ Moved
<1>1. PICK d \in Drafts :
        LET v == d.fields  contents == d.contents  n == Len(contents)
            row == [status |-> "draft", fields |-> v, links |-> [i \in 1..n |-> i],
                    completeness |-> calculate_completeness(v, contents)]
            revs == [revisions EXCEPT !.evidence = [i \in 1..n |-> 0]]
        IN /\ ~Stored /\ commits = 0 /\ ValidDates(v)
           /\ experience' = row
           /\ evidence' = contents
           /\ revisions' = revs
           /\ states' = [fields |-> [f \in Fields |-> field_status(f, v)], collection |-> n > 0,
                         evidence |-> [i \in 1..n |-> contents[i] = 1]]
           /\ seen' = [seen EXCEPT ![c] = Detail([fields |-> v, contents |-> contents], row, contents, revs)]
           /\ commits' = 1
           /\ UNCHANGED <<request, proposal>>
  BY DEF Create
<1> DEFINE v == d.fields
           contents == d.contents
           n == Len(contents)
           links == [i \in 1..n |-> i]
           row == [status |-> "draft", fields |-> v, links |-> links,
                   completeness |-> calculate_completeness(v, contents)]
           revs == [revisions EXCEPT !.evidence = [i \in 1..n |-> 0]]
<1>2. /\ v \in [Fields -> Values] /\ contents \in Seq(Values) /\ n \in Nat /\ n <= MaxEvidence
      /\ DOMAIN contents = 1..n /\ \A i \in 1..n : contents[i] \in Values
  BY DraftsTyped
<1>3. /\ experience' = row /\ evidence' = contents /\ revisions' = revs
      /\ seen' = [seen EXCEPT ![c] = Detail([fields |-> v, contents |-> contents], row, contents, revs)]
      /\ commits = 0 /\ commits' = 1 /\ request' = request /\ proposal' = proposal /\ ValidDates(v)
  BY <1>1
<1>4. /\ DOMAIN states' = {"fields", "collection", "evidence"}
      /\ states'.fields = [f \in Fields |-> field_status(f, v)]
      /\ states'.evidence = [i \in 1..n |-> contents[i] = 1]
  BY <1>1
<1>5. states'.collection = (n > 0)
  BY <1>1
<1>6. links \in Seq(EvidenceIds) /\ IsInjective(links) /\ Ids(links) = 1..n /\ (links # <<>> <=> n > 0)
  <2>1. 1..n \subseteq EvidenceIds
    BY <1>2, Bounds DEF EvidenceIds
  <2>2. links \in [1..n -> EvidenceIds] /\ DOMAIN links = 1..n
    BY <2>1
  <2>3. links \in Seq(EvidenceIds)
    BY <1>2, <2>2
  <2>4. Ids(links) = 1..n /\ IsInjective(links)
    BY DEF Ids, IsInjective
  <2>5. links # <<>> <=> n > 0
    <3>1. links # <<>> <=> Ids(links) # {}
      BY <2>3, LinksAreIds
    <3>2. n > 0 <=> 1 \in 1..n
      BY <1>2
    <3>3. 1..n # {} => 1 \in 1..n
      BY <1>2
    <3> HIDE DEF links, n
    <3> QED
      BY <2>4, <3>1, <3>2, <3>3
  <2> HIDE DEF links
  <2> QED
    BY <2>3, <2>4, <2>5
<1>7. row \in Row /\ row.status # "absent" /\ row.fields = v /\ row.links = links
  <2>1. calculate_completeness(v, contents) \in 0..100
    BY CompletenessIsPercentage
  <2> HIDE DEF links, v
  <2> QED
    BY <1>2, <1>6, <2>1 DEF Row, Statuses
<1>8. /\ RevisionsOK(revs) /\ DOMAIN revs.evidence = 1..n
  BY DEF Inv, TablesOK, RevisionsOK
<1>9. /\ DOMAIN states'.evidence = 1..n
      /\ \A i \in 1..n : states'.evidence[i] = (contents[i] = 1)
  BY <1>4
<1>10. \A f \in Fields : states'.fields[f] = field_status(f, v) /\ field_status(f, v) \in BOOLEAN
  BY <1>4, StatusOfUnit
<1>11. StatesOK'
  BY <1>4, <1>5, <1>10 DEF StatesOK
<1> HIDE DEF n, v, contents, links, row, revs
<1>12. states'.collection = (links # <<>>)
  BY <1>5, <1>6
<1>13. Stored'
  BY <1>3, <1>7 DEF Stored
<1>14. EvidenceOK(contents)
  BY <1>2, Bounds DEF EvidenceOK, EvidenceIds
<1>15. TablesOK'
  <2>1. StatesMatchValues'
    BY <1>2, <1>3, <1>6, <1>7, <1>8, <1>9, <1>10, <1>12 DEF StatesMatchValues
  <2> QED
    BY <1>2, <1>3, <1>6, <1>7, <1>8, <1>11, <1>14, <2>1 DEF TablesOK, DatesConsistent, EvidenceIsLinked
<1>16. CommitsOK'
  BY <1>3, Bounds DEF CommitsOK
<1>17. /\ proposal = [stage |-> "none"] /\ \A e \in Clients : request[e] = Nothing /\ seen[e] = Nothing
  BY <1>3 DEF Inv, CommitsOK
<1>18. ProposalOK'
  BY <1>3, <1>17 DEF ProposalOK, RevisionPinsProposal
<1>19. ClientsOK'
  <2>1. /\ DOMAIN seen' = Clients /\ DOMAIN request' = Clients
        /\ seen'[c].unit = revs.unit /\ seen'[c].collection = revs.collection /\ seen'[c].links = links
    BY <1>3, <1>7 DEF Inv, ClientsOK, Detail
  <2>2. \A e \in Clients : request'[e] = Nothing /\ (e # c => seen'[e] = Nothing)
    BY <1>3, <1>17 DEF Inv, ClientsOK
  <2>3. Known(c)'
    BY <1>3, <1>8, <2>1 DEF Known, RevisionsOK
  <2> QED
    BY <1>6, <2>1, <2>2, <2>3 DEF ClientsOK
<1> QED
  BY <1>1, <1>15, <1>16, <1>18, <1>19 DEF Inv, Moved

-----------------------------------------------------------------------------
(* The assistant.                                                          *)

(* Generating, preparing and rejecting write nothing. *)
LEMMA ProposingKeepsInv ==
  ASSUME Inv, Generate \/ Prepare \/ Reject
  PROVE  Inv' /\ Moved
<1>1. UNCHANGED <<experience, evidence, revisions, states, commits, seen, request>>
  BY DEF Generate, Prepare, Reject, Assistant
<1>2. TablesOK' /\ Moved
  BY <1>1, UnchangedKeepsTables DEF Inv, Moved
<1>3. ClientsOK'
  BY <1>1 DEF Inv, ClientsOK, Known, Fresh, Stored
<1>4. CASE proposal' = [stage |-> "none"]
  <2>1. ProposalOK'
    BY <1>4 DEF ProposalOK, RevisionPinsProposal
  <2>2. CommitsOK'
    BY <1>1, <1>4 DEF Inv, CommitsOK, Stored
  <2> QED
    BY <1>2, <1>3, <2>1, <2>2 DEF Inv
<1>5. CASE Generate
  <2>1. PICK t \in Targets : proposal' = [stage |-> "generating", target |-> t, value |-> 0,
                                          revision |-> Revision(t), current |-> 0]
    BY <1>5 DEF Generate
  <2>2. Stored
    BY <1>5 DEF Generate
  <2>3. /\ t.kind \in {"field", "append", "evidence"}
        /\ t.kind = "field" => t.field \in Fields
        /\ t.kind = "evidence" => t.id \in Ids(experience.links)
    BY DEF Targets
  <2>4. /\ t.kind = "field" => save_unit_key(t.field) \in Units
        /\ t.kind = "evidence" => t.id \in DOMAIN revisions.evidence
    BY <2>2, <2>3, UnitOfField, LinkedRows DEF Inv
  <2>5. Revision(t) \in Nat
    BY <2>3, <2>4 DEF Revision, Inv, TablesOK, RevisionsOK
  <2>6. /\ proposal'.stage = "generating" /\ proposal'.target = t /\ proposal'.revision = Revision(t)
        /\ proposal'.value = 0 /\ DOMAIN proposal' = {"stage", "target", "value", "revision", "current"}
    BY <2>1
  <2>7. Pinned'
    BY <1>1, <2>3, <2>4, <2>5, <2>6 DEF Pinned, Revision
  <2>8. ProposalOK'
    BY <2>3, <2>5, <2>6, <2>7 DEF ProposalOK, RevisionPinsProposal, Values
  <2>9. CommitsOK'
    BY <1>1, <2>2 DEF Inv, CommitsOK, Stored
  <2> QED
    BY <1>2, <1>3, <2>8, <2>9 DEF Inv
<1>6. CASE Prepare /\ proposal' # [stage |-> "none"]
  <2> DEFINE t == proposal.target
  <2>1. PICK x \in Proposals(t) :
          proposal' = [proposal EXCEPT !.stage = "shown", !.value = x, !.current = Current(t)]
    BY <1>6 DEF Prepare
  <2>2. /\ proposal.stage = "generating" /\ TargetExists(t)
    BY <1>6 DEF Prepare
  <2>3. x \in Values
    BY <2>1, <2>2 DEF Inv, ProposalOK, Proposals, FieldProposals, EvidenceProposals, AppendProposals
  <2>4. /\ proposal'.stage = "shown" /\ proposal'.target = t /\ proposal'.revision = proposal.revision
        /\ proposal'.value = x /\ proposal'.current = Current(t)
        /\ DOMAIN proposal' = {"stage", "target", "value", "revision", "current"}
    BY <2>1, <2>2 DEF Inv, ProposalOK
  <2>5. Stored => Pinned'
    BY <1>1, <2>2, <2>4 DEF Inv, ProposalOK, Pinned
  <2>6. RevisionPinsProposal'
    BY <1>1, <2>4 DEF RevisionPinsProposal, Current
  <2>7. ProposalOK'
    BY <1>1, <2>2, <2>3, <2>4, <2>5, <2>6 DEF Inv, ProposalOK, Stored
  <2>8. CommitsOK'
    BY <1>1, <2>2 DEF Inv, CommitsOK, Stored, TargetExists
  <2> QED
    BY <1>2, <1>3, <2>7, <2>8 DEF Inv
<1> QED
  BY <1>4, <1>5, <1>6 DEF Generate, Prepare, Reject

(* What the assistant applies is a write like any other. *)
LEMMA FieldKeepsTables ==
  ASSUME Inv, Stored, NEW f \in Fields, NEW v \in Values, ApplyField(f, v)
  PROVE  TablesOK' /\ Stored' /\ Tracked
<1> DEFINE fields == [experience.fields EXCEPT ![f] = v]
           row == [experience EXCEPT !.fields[f] = v]
           unit == ClaimUnits({save_unit_key(f)})
           revs == [revisions EXCEPT !.unit = unit]
           statuses == AdvanceFields({f}, row.fields)
           item == [Copy EXCEPT !.fields = row.fields, !.links = row.links,
                                !.contents = [i \in Ids(row.links) |-> evidence[i]]]
<1>1. /\ ValidDates(row.fields) /\ experience' = Recalculate(item, row, evidence) /\ evidence' = evidence
      /\ revisions' = revs /\ states' = [states EXCEPT !.fields = statuses]
  BY DEF ApplyField, Applied
<1>2. /\ row \in Row /\ row.status # "absent" /\ row.links = experience.links
      /\ row.fields = fields /\ fields \in [Fields -> Values]
  BY DEF Inv, TablesOK, Row, Stored
<1>3. \A g \in Fields : save_unit_key(g) # save_unit_key(f) => fields[g] = experience.fields[g]
  BY <1>2 DEF Inv, TablesOK, Row
<1>4. ASSUME NEW g \in Fields
      PROVE  statuses[g] \in BOOLEAN /\ statuses[g] = field_status(g, fields)
  <2>1. CASE save_unit_key(g) = save_unit_key(f)
    <3>1. statuses[g] = field_status(g, row.fields)
      BY <2>1 DEF AdvanceFields, save_unit_fields
    <3> HIDE DEF row, fields, statuses
    <3> QED
      BY <1>2, <3>1, StatusOfUnit
  <2>2. CASE save_unit_key(g) # save_unit_key(f)
    <3>1. statuses[g] = states.fields[g]
      BY <2>2 DEF AdvanceFields, save_unit_fields
    <3>2. states.fields[g] = field_status(g, experience.fields)
      BY DEF Inv, TablesOK, StatesMatchValues
    <3>3. \A h \in Fields : save_unit_key(h) = save_unit_key(g) => experience.fields[h] = fields[h]
      BY <1>3, <2>2
    <3> HIDE DEF statuses, fields
    <3> QED
      BY <3>1, <3>2, <3>3, StatusOfUnit
  <2> QED
    BY <2>1, <2>2
<1>5. statuses \in [Fields -> BOOLEAN]
  <2>1. \A g \in Fields : statuses[g] \in BOOLEAN
    BY <1>4
  <2> QED
    BY <2>1 DEF AdvanceFields
<1>6. /\ unit \in [Units -> Nat] /\ \A u \in Units : revisions.unit[u] <= unit[u]
      /\ \A g \in Fields : unit[save_unit_key(g)] = revisions.unit[save_unit_key(g)]
                             => save_unit_key(g) # save_unit_key(f)
  BY UnitOfField DEF ClaimUnits, Inv, TablesOK, RevisionsOK
<1> HIDE DEF fields, unit, statuses, item
<1>7. /\ RevisionsOK(revs) /\ revs.unit = unit /\ revs.collection = revisions.collection
      /\ revs.evidence = revisions.evidence
  BY <1>6 DEF Inv, TablesOK, RevisionsOK
<1>8. /\ DOMAIN states' = {"fields", "collection", "evidence"} /\ states'.fields = statuses
      /\ states'.evidence = states.evidence
  BY <1>1 DEF Inv, TablesOK, StatesOK
<1>9. states'.collection = states.collection
  BY <1>1 DEF Inv, TablesOK, StatesOK
<1> HIDE DEF row, revs
<1>10. /\ experience' \in Row /\ experience'.status # "absent"
       /\ experience'.fields = fields /\ experience'.links = experience.links
  BY <1>1, <1>2, RecalculateKeepsRow
<1>11. Stored'
  BY <1>10 DEF Stored
<1>12. StatesOK'
  BY <1>5, <1>8, <1>9 DEF Inv, TablesOK, StatesOK
<1>13. StatesMatchValues'
  BY <1>1, <1>4, <1>7, <1>8, <1>9, <1>10 DEF Inv, TablesOK, StatesMatchValues
<1>14. TablesOK'
  BY <1>1, <1>2, <1>7, <1>10, <1>12, <1>13 DEF Inv, TablesOK, DatesConsistent, EvidenceIsLinked
<1>15. Tracked
  BY <1>1, <1>3, <1>6, <1>7, <1>10 DEF Tracked, Inv, TablesOK, RevisionsOK
<1> QED
  BY <1>11, <1>14, <1>15

(* A proposal that changes an item keeps the tables consistent. *)
LEMMA ChangedKeepsTables ==
  ASSUME Inv, Stored, NEW i \in Ids(experience.links), NEW v \in Values, ApplyEvidence(i, v)
  PROVE  TablesOK' /\ Stored' /\ Tracked
<1> DEFINE rows == With(evidence, i, v)
           revs == [revisions EXCEPT !.evidence[i] = @ + 1]
           item == [Copy EXCEPT !.fields = experience.fields, !.links = experience.links,
                                !.contents = [j \in Ids(experience.links) |-> rows[j]]]
<1>1. /\ experience' = Recalculate(item, experience, rows) /\ evidence' = rows /\ revisions' = revs
      /\ states' = [states EXCEPT !.evidence[i] = v = 1]
  BY DEF ApplyEvidence, Applied
<1>2. /\ DOMAIN evidence = Ids(experience.links) /\ DOMAIN states.evidence = Ids(experience.links)
      /\ Ids(experience.links) \subseteq DOMAIN revisions.evidence
      /\ experience.links \in Seq(EvidenceIds) /\ IsInjective(experience.links)
      /\ \A j \in Ids(experience.links) : states.evidence[j] = (evidence[j] = 1)
      /\ Ids(experience.links) \subseteq EvidenceIds
  BY LinkedRows DEF Inv
<1>3. /\ experience \in Row /\ experience.status # "absent" /\ RevisionsOK(revisions) /\ TablesOK
      /\ EvidenceOK(evidence)
  BY DEF Inv, TablesOK, Stored
<1>4. /\ DOMAIN rows = Ids(experience.links) /\ rows[i] = v /\ EvidenceOK(rows)
      /\ \A j \in Ids(experience.links) : j # i => rows[j] = evidence[j]
  BY <1>2, <1>3 DEF With, EvidenceOK
<1>5. /\ RevisionsOK(revs) /\ revs.unit = revisions.unit /\ revs.collection = revisions.collection
      /\ DOMAIN revs.evidence = DOMAIN revisions.evidence
      /\ revs.evidence[i] = revisions.evidence[i] + 1
      /\ \A j \in DOMAIN revisions.evidence : j # i => revs.evidence[j] = revisions.evidence[j]
  BY <1>2, <1>3 DEF RevisionsOK
<1>6. /\ DOMAIN states' = {"fields", "collection", "evidence"} /\ states'.fields = states.fields
      /\ states'.evidence = [states.evidence EXCEPT ![i] = v = 1]
  BY <1>1 DEF Inv, TablesOK, StatesOK
<1>7. states'.collection = states.collection
  BY <1>1 DEF Inv, TablesOK, StatesOK
<1>8. DOMAIN states'.evidence = Ids(experience.links)
  BY <1>2, <1>6
<1>9. ASSUME NEW j \in Ids(experience.links)
      PROVE  states'.evidence[j] = (rows[j] = 1)
  <2>1. CASE j = i
    <3>1. states'.evidence[i] = (v = 1)
      BY <1>2, <1>6
    <3> QED
      BY <1>4, <2>1, <3>1
  <2>2. CASE j # i
    <3>1. states'.evidence[j] = states.evidence[j]
      BY <1>2, <1>6, <2>2
    <3> QED
      BY <1>2, <1>4, <2>2, <3>1
  <2> QED
    BY <2>1, <2>2
<1>10. states'.collection = (experience.links # <<>>) /\ StatesOK'
  BY <1>6, <1>7 DEF Inv, TablesOK, StatesOK, StatesMatchValues
<1>11. /\ revisions.collection <= revs.collection
       /\ \A j \in DOMAIN revisions.evidence :
            /\ j \in DOMAIN revs.evidence /\ revisions.evidence[j] <= revs.evidence[j]
            /\ revs.evidence[j] = revisions.evidence[j] /\ j \in Ids(experience.links)
                 => rows[j] = evidence[j]
  BY <1>2, <1>3, <1>4, <1>5 DEF RevisionsOK
<1>12. Ids(experience.links) \subseteq DOMAIN revs.evidence
  BY <1>2, <1>5
<1> HIDE DEF rows, revs, item
<1> QED
  BY <1>1, <1>2, <1>3, <1>4, <1>5, <1>6, <1>8, <1>9, <1>10, <1>11, <1>12, EvidenceWriteKeepsTables

(* So does one that adds an item. *)
LEMMA AppendedKeepsTables ==
  ASSUME Inv, Stored, NEW v \in Values, AppendEvidence(v)
  PROVE  TablesOK' /\ Stored' /\ Tracked
<1> DEFINE i == NextEvidence(evidence)
           links == Append(experience.links, i)
           rows == With(evidence, i, v)
           revs == [revisions EXCEPT !.collection = @ + 1, !.evidence = With(@, i, 0)]
           row == [experience EXCEPT !.links = links]
           item == [Copy EXCEPT !.fields = row.fields, !.links = row.links,
                                !.contents = [j \in Ids(row.links) |-> rows[j]]]
<1>1. /\ i \in EvidenceIds /\ i \notin DOMAIN revisions.evidence
      /\ experience' = Recalculate(item, row, rows) /\ evidence' = rows /\ revisions' = revs
  BY DEF AppendEvidence, Applied
<1>2. states' = [states EXCEPT !.collection = TRUE, !.evidence = With(@, i, v = 1)]
  BY DEF AppendEvidence
<1>3. /\ DOMAIN evidence = Ids(experience.links) /\ DOMAIN states.evidence = Ids(experience.links)
      /\ Ids(experience.links) \subseteq DOMAIN revisions.evidence
      /\ experience.links \in Seq(EvidenceIds) /\ IsInjective(experience.links)
      /\ \A j \in Ids(experience.links) : states.evidence[j] = (evidence[j] = 1)
      /\ Ids(experience.links) \subseteq EvidenceIds
  BY LinkedRows DEF Inv
<1>4. /\ links \in Seq(EvidenceIds) /\ IsInjective(links)
      /\ Ids(links) = Ids(experience.links) \cup {i} /\ links # <<>>
  BY <1>1, <1>3, AppendLinks
<1>5. /\ DOMAIN rows = Ids(links) /\ rows[i] = v /\ EvidenceOK(rows)
      /\ \A j \in Ids(experience.links) : rows[j] = evidence[j]
  BY <1>1, <1>3, <1>4 DEF With, Inv, TablesOK, EvidenceOK
<1>6. /\ RevisionsOK(revs) /\ revs.unit = revisions.unit /\ revs.collection = revisions.collection + 1
      /\ DOMAIN revs.evidence = DOMAIN revisions.evidence \cup {i}
      /\ \A j \in DOMAIN revisions.evidence : revs.evidence[j] = revisions.evidence[j]
  BY <1>1 DEF With, Inv, TablesOK, RevisionsOK
<1>7. row \in Row /\ row.status # "absent" /\ row.fields = experience.fields /\ row.links = links
  BY <1>4 DEF Inv, TablesOK, Row, Stored
<1>8. /\ DOMAIN states' = {"fields", "collection", "evidence"} /\ states'.fields = states.fields
      /\ states'.evidence = With(states.evidence, i, v = 1)
  BY <1>2 DEF Inv, TablesOK, StatesOK
<1>9. states'.collection = TRUE
  BY <1>2 DEF Inv, TablesOK, StatesOK
<1>10. DOMAIN states'.evidence = Ids(links)
  BY <1>3, <1>4, <1>8 DEF With
<1>11. ASSUME NEW j \in Ids(links)
       PROVE  states'.evidence[j] = (rows[j] = 1)
  <2>1. CASE j = i
    BY <1>5, <1>8, <2>1 DEF With
  <2>2. CASE j # i
    <3>1. j \in Ids(experience.links) /\ rows[j] = evidence[j]
      BY <1>4, <1>5, <2>2
    <3>2. states'.evidence[j] = states.evidence[j]
      BY <1>3, <1>8, <2>2, <3>1 DEF With
    <3> QED
      BY <1>3, <3>1, <3>2
  <2> QED
    BY <2>1, <2>2
<1>12. StatesOK'
  BY <1>8, <1>9 DEF Inv, TablesOK, StatesOK
<1> HIDE DEF i, links, revs, row, rows, item
<1>13. /\ TablesOK /\ revisions.collection \in Nat
       /\ \A j \in DOMAIN revisions.evidence : revisions.evidence[j] \in Nat
  BY DEF Inv, TablesOK, RevisionsOK
<1>14. states'.collection = (row.links # <<>>)
  BY <1>4, <1>7, <1>9
<1>15. /\ revisions.collection <= revs.collection /\ revs.collection # revisions.collection
       /\ \A j \in DOMAIN revisions.evidence :
            /\ j \in DOMAIN revs.evidence /\ revisions.evidence[j] <= revs.evidence[j]
            /\ j \in Ids(row.links) => j \in Ids(experience.links) /\ rows[j] = evidence[j]
  BY <1>1, <1>4, <1>5, <1>6, <1>7, <1>13
<1>16. Ids(row.links) \subseteq DOMAIN revs.evidence /\ DOMAIN rows = Ids(row.links)
  BY <1>3, <1>4, <1>5, <1>6, <1>7
<1> QED
  BY <1>1, <1>4, <1>5, <1>6, <1>7, <1>8, <1>10, <1>11, <1>12, <1>13, <1>14, <1>15, <1>16,
     EvidenceWriteKeepsTables

(* Applying a proposal, whatever its target, keeps the invariant. *)
LEMMA ApplyKeepsInv ==
  ASSUME Inv, Apply
  PROVE  Inv' /\ Moved
<1> DEFINE t == proposal.target
<1>1. /\ proposal.stage = "shown" /\ MayApply(proposal) /\ proposal' = [stage |-> "none"]
      /\ UNCHANGED <<seen, request>>
  BY DEF Apply, Assistant
<1>2. Stored /\ (t.kind = "evidence" => t.id \in Ids(experience.links))
  BY <1>1 DEF MayApply, TargetExists
<1>3. /\ t.kind \in {"field", "append", "evidence"}
      /\ t.kind = "field" => t.field \in Fields
      /\ proposal.value \in Values
  BY <1>1 DEF Inv, ProposalOK
<1>4. /\ t.kind = "field" => ApplyField(t.field, proposal.value)
      /\ t.kind = "evidence" => ApplyEvidence(t.id, proposal.value)
      /\ t.kind = "append" => AppendEvidence(proposal.value)
  BY DEF Apply
<1>5. commits < MaxCommits /\ commits' = commits + 1
  BY <1>3, <1>4 DEF ApplyField, ApplyEvidence, AppendEvidence, Applied
<1>6. TablesOK' /\ Stored' /\ Tracked
  BY <1>2, <1>3, <1>4, FieldKeepsTables, ChangedKeepsTables, AppendedKeepsTables
<1>7. CommitsOK'
  BY <1>5, Bounds DEF Inv, CommitsOK
<1>8. ProposalOK'
  BY <1>1 DEF ProposalOK, RevisionPinsProposal
<1>9. ClientsOK'
  <2>1. \A d \in Clients : seen[d] # Nothing => Known(d)' /\ (request[d] # Nothing => Fresh(d)')
    BY <1>1, <1>2, <1>6, WriteKeepsKnown DEF Inv
  <2> QED
    BY <1>1, <2>1 DEF Inv, ClientsOK
<1> QED
  BY <1>6, <1>7, <1>8, <1>9 DEF Inv, Moved

-----------------------------------------------------------------------------
(* The invariant holds, and what follows from it.                          *)

(* The initial state is consistent. *)
LEMMA InitHasInv ==
  ASSUME Init
  PROVE  Inv
<1>1. experience \in Row /\ IsInjective(experience.links) /\ ~Stored
  BY DEF Init, Absent, Row, Values, IsInjective, Stored
<1>2. RevisionsOK(revisions)
  BY DEF Init, RevisionsOK, NoRevisions
<1>3. StatesOK
  BY DEF Init, StatesOK, NoStates
<1>4. TablesOK
  BY <1>1, <1>2, <1>3
  DEF Init, TablesOK, EvidenceOK, DatesConsistent, StatesMatchValues, EvidenceIsLinked
<1>5. CommitsOK
  BY <1>1, Bounds DEF Init, CommitsOK
<1>6. ClientsOK
  BY <1>1 DEF Init, ClientsOK
<1>7. ProposalOK
  BY DEF Init, ProposalOK, RevisionPinsProposal
<1> QED
  BY <1>4, <1>5, <1>6, <1>7 DEF Inv

(* Every step keeps the invariant and moves revisions forward only. *)
LEMMA NextKeepsInv ==
  ASSUME Inv, [Next]_vars
  PROVE  Inv' /\ Moved
<1>1. CASE UNCHANGED vars
  BY <1>1, UnchangedKeepsTables
  DEF Moved, vars, Inv, TablesOK, StatesOK, DatesConsistent, StatesMatchValues, EvidenceIsLinked, Stored, CommitsOK,
      ClientsOK, Known, Fresh, ProposalOK, Pinned, RevisionPinsProposal, TargetExists, Revision, Current
<1>2. ASSUME NEW c \in Clients, Create(c) \/ Begin(c) \/ Handler(c)
      PROVE  Inv' /\ Moved
  BY <1>2, CreateKeepsInv, ReadKeepsInv, PatchKeepsInv, SaveKeepsInv, AddKeepsInv, ChangeKeepsInv,
     RemoveKeepsInv, ReorderKeepsInv, StatusesKeepInv, DeleteKeepsInv DEF Handler
<1>3. CASE Generate \/ Prepare \/ Reject \/ Apply
  BY <1>3, ProposingKeepsInv, ApplyKeepsInv
<1> QED
  BY <1>1, <1>2, <1>3 DEF Next

(* The invariant holds throughout. *)
THEOREM InvHolds == Spec => []Inv
<1>1. Init => Inv
  BY InitHasInv
<1>2. Inv /\ [Next]_vars => Inv'
  BY NextKeepsInv
<1> QED
  BY <1>1, <1>2, PTL DEF Spec

(* Every write, of a request or of the assistant, moves the revision of the    *)
(* fields, of the list of links and of the evidence that it changes, and none   *)
(* goes back (claim_experience_units, claim_collection, claim_unit).           *)
THEOREM WritesMoveRevisions == Spec => [][Moved]_vars
<1>1. Inv /\ [Next]_vars => [Moved]_vars
  BY NextKeepsInv
<1> QED
  BY <1>1, InvHolds, PTL DEF Spec

(* No two requests, each of which has checked its own copy, leave a current    *)
(* experience with an end date (_validate_merged_dates,                       *)
(* claim_experience_units).                                                   *)
THEOREM DatesStayConsistent == Spec => []DatesConsistent
<1>1. Inv => DatesConsistent
  BY DEF Inv, TablesOK
<1> QED
  BY <1>1, InvHolds, PTL

(* Every stored status is the status of the stored value, and the links, the   *)
(* evidence and their rows are those of each other, whatever requests have     *)
(* overlapped (advance_experience_fields, delete_evidence_states).             *)
THEOREM FactsStayConsistent == Spec => []FactsConsistent
<1>1. Inv => FactsConsistent
  BY DEF Inv, TablesOK, CommitsOK, ProposalOK, FactsConsistent, TypeOK, StatesOK, RevisionsOK, EvidenceOK, Row
<1> QED
  BY <1>1, InvHolds, PTL

(* A proposal whose revision is still the current one is for the value that    *)
(* was shown for approval (save_unit_key, claim).                              *)
THEOREM ProposalsArePinned == Spec => []RevisionPinsProposal
<1>1. Inv => RevisionPinsProposal
  BY DEF Inv, ProposalOK
<1> QED
  BY <1>1, InvHolds, PTL
=============================================================================
