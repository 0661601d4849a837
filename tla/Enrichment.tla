------------------------------ MODULE Enrichment ------------------------------
(***************************************************************************)
(* Changes a language model proposes for parts of a stored resume            *)
(* (app/routers/enrichment.py).  A client gets a proposal for items of the    *)
(* document it shows, the document goes on changing under other requests,      *)
(* and the proposal is applied later: regenerated items where they came from,  *)
(* or not at all; enhancements at the position they name.  An application      *)
(* reads the document and writes it in two transactions.                      *)
(* Texts are equal or not up to white space and case (_lines_equal,            *)
(* _normalize_match_value).                                                  *)
(***************************************************************************)
EXTENDS Integers, SequencesExt

CONSTANTS
  Clients,
  Sections,     \* lists of the document: workExperience, personalProjects
  Names,        \* titles, names, companies and roles
  Lines,        \* lines of a description
  Texts,        \* descriptions, lists of lines, that a user writes
  Generated,    \* descriptions a model answers with
  Extra,        \* lines a model adds to a description
  Initial,      \* documents to begin with
  MaxItems,     \* bound: items of one proposal
  MaxEdits,     \* bound: edits by the user
  MaxLines,     \* bound: lines of a description that is enhanced
  None          \* an empty title, company, name or role

ASSUME Bounds == MaxItems \in Nat \ {0} /\ MaxEdits \in Nat /\ MaxLines \in Nat

Descriptions == Seq(Lines)
Entries == [title: Names, company: Names, lines: Descriptions]
Documents == [skills: Descriptions, entries: [Sections -> Seq(Entries)]]

(* The schema of a resume, and of what a model answers. *)
ASSUME Inputs ==
  /\ Initial \subseteq Documents
  /\ Texts \cup Generated \cup Extra \subseteq Descriptions
  /\ None \in Names /\ "skills" \notin Sections

VARIABLES
  document,     \* processed_data of the resume: skills, and entries per section
  client,       \* per client: the proposal it holds, or the application under way
  edits

vars == <<document, client, edits>>

Idle == [step |-> "idle"]
Refused == [refused |-> TRUE]

Positions(doc) == UNION {{s} \X DOMAIN doc.entries[s] : s \in Sections}
EntryAt(doc, p) == doc.entries[p[1]][p[2]]

WithLines(doc, p, lines) == [doc EXCEPT !.entries[p[1]][p[2]].lines = lines]

----------------------------------------------------------------------------
(* What a user may make of the document in the editor: an entry is moved,    *)
(* removed or rewritten, or the skills are.                                  *)
Edited(doc) ==
  {[doc EXCEPT !.entries[s] = Reverse(@)] : s \in Sections}
  \cup {[doc EXCEPT !.entries[p[1]] = RemoveAt(@, p[2])] : p \in Positions(doc)}
  \cup {WithLines(doc, p, t) : p \in Positions(doc), t \in Texts}
  \cup {[doc EXCEPT !.skills = t] : t \in Texts}

Save ==
  /\ edits < MaxEdits
  /\ edits' = edits + 1
  /\ document' \in Edited(document)
  /\ UNCHANGED client

----------------------------------------------------------------------------
(* Regenerated items.                                                       *)

(* An item of the document with its new content; index is that of its id.    *)
Item(doc, p, new) ==
  [section |-> p[1], index |-> p[2], title |-> EntryAt(doc, p).title,
   company |-> EntryAt(doc, p).company, original |-> EntryAt(doc, p).lines, new |-> new]

SkillsItem(doc, new) ==
  [section |-> "skills", index |-> 0, title |-> None, company |-> None, original |-> doc.skills, new |-> new]

Items(doc) ==
  {Item(doc, p, new) : p \in Positions(doc), new \in Generated} \cup {SkillsItem(doc, new) : new \in Generated}

(* regenerate_items: some of the items that the client shows, those whose    *)
(* regeneration fails left out; nothing is stored.                           *)
Regenerate(c) ==
  /\ client[c].step = "idle"
  /\ \E items \in UNION {[1..n -> Items(document)] : n \in 1..MaxItems} :
       /\ \A m, n \in DOMAIN items : m < n =>
            <<items[m].section, items[m].index>> # <<items[n].section, items[n].index>>
       /\ client' = [client EXCEPT ![c] = [step |-> "regenerated", items |-> items]]
  /\ UNCHANGED <<document, edits>>

(* A subtitle that is not given matches any. *)
SameEntry(e, item) == e.title = item.title /\ (item.company = None \/ e.company = item.company)

(* mutant: entries that share title and subtitle are not told apart *)
ByMetadataFirst(entries, item) ==
  LET matches == {i \in DOMAIN entries : item.title # None /\ SameEntry(entries[i], item)}
  IN IF Cardinality(matches) = 1 THEN matches ELSE {}

(* _find_unique_index_by_metadata, as a set of at most one position. *)
ByMetadata(entries, item) ==
  LET matches == {i \in DOMAIN entries : item.title # None /\ SameEntry(entries[i], item)}
      sameContent == {i \in matches : entries[i].lines = item.original}
  IN CASE Cardinality(matches) = 1 -> matches
       [] Cardinality(matches) # 1 /\ Cardinality(sameContent) = 1 -> sameContent
       [] OTHER -> {}

(* The position of the id if the item is still there, or where it is now.    *)
Resolve(entries, item) ==
  IF /\ item.index \in DOMAIN entries
     /\ SameEntry(entries[item.index], item)
     /\ entries[item.index].lines = item.original
  THEN {item.index}
  ELSE ByMetadata(entries, item)

(* mutant: the entry that was found is replaced whatever it says now *)
ReplacedAnyway(doc, item) ==
  IF item.section = "skills"
  THEN IF doc.skills = item.original THEN [doc EXCEPT !.skills = item.new] ELSE Refused
  ELSE LET found == Resolve(doc.entries[item.section], item) IN
       IF found = {} THEN Refused
       ELSE WithLines(doc, <<item.section, CHOOSE i \in found : TRUE>>, item.new)

Replaced(doc, item) ==
  IF item.section = "skills"
  THEN IF doc.skills = item.original THEN [doc EXCEPT !.skills = item.new] ELSE Refused
  ELSE LET found == {i \in Resolve(doc.entries[item.section], item) :
                       doc.entries[item.section][i].lines = item.original} IN
       IF found = {} THEN Refused
       ELSE WithLines(doc, <<item.section, CHOOSE i \in found : TRUE>>, item.new)

(* apply_regenerated_items on a copy: one mismatch refuses everything.       *)
Regenerated(doc, items) ==
  LET after[n \in 0..Len(items)] ==
        IF n = 0 THEN doc
        ELSE IF after[n - 1] = Refused THEN Refused ELSE Replaced(after[n - 1], items[n])
  IN after[Len(items)]

----------------------------------------------------------------------------
(* Enhancements: each [section, index, lines] with the index of an id that the *)
(* model chose, counted from 0.                                              *)

(* The entry Python takes for an index: a negative one counts from the end.   *)
Indexed(entries, i) ==
  {n \in DOMAIN entries : n = i + 1 \/ (i < 0 /\ n = Len(entries) + i + 1)}

WithEnhancement(doc, added) ==
  LET found == Indexed(doc.entries[added.section], added.index) IN
  IF found = {} THEN doc
  ELSE LET p == <<added.section, CHOOSE n \in found : TRUE>>
       IN WithLines(doc, p, EntryAt(doc, p).lines \o added.lines)

(* One enhancement after the other, those whose entry is not there left out. *)
Enhanced(doc, enhancements) ==
  LET after[n \in 0..Len(enhancements)] ==
        IF n = 0 THEN doc ELSE WithEnhancement(after[n - 1], enhancements[n])
  IN after[Len(enhancements)]

(* generate_enhancements: the ids are those of entries that are there when   *)
(* every answer names one, and else come from a new analysis.                *)
FastIds(doc) == {[section |-> p[1], index |-> p[2] - 1] : p \in Positions(doc)}
LegacyIds == [section : Sections, index : {-1, 0, 1}]

Additions(doc) ==
  {[section |-> id.section, index |-> id.index, lines |-> lines] :
     id \in FastIds(doc) \cup LegacyIds, lines \in Extra \cup {<<>>}}

Enhance(c) ==
  /\ client[c].step = "idle"
  /\ \E enhancements \in UNION {[1..n -> Additions(document)] : n \in 1..MaxItems} :
       client' = [client EXCEPT ![c] = [step |-> "enhanced", enhancements |-> enhancements]]
  /\ UNCHANGED <<document, edits>>

----------------------------------------------------------------------------
(* apply_regenerated_items and apply_enhancements: the document is read,      *)
(* changed in a copy and written back.                                       *)

ApplyRegenerated(c) ==
  /\ client[c].step = "regenerated"
  /\ LET new == Regenerated(document, client[c].items) IN
     client' = [client EXCEPT ![c] =
       IF new = Refused THEN Idle
       ELSE [step |-> "write", items |-> client[c].items, seen |-> document, new |-> new]]
  /\ UNCHANGED <<document, edits>>

ApplyEnhancements(c) ==
  /\ client[c].step = "enhanced"
  /\ LET new == Enhanced(document, client[c].enhancements) IN
     /\ \A p \in Positions(new) : Len(EntryAt(new, p).lines) <= MaxLines
     /\ client' = [client EXCEPT ![c] = [step |-> "write", items |-> <<>>, seen |-> document, new |-> new]]
  /\ UNCHANGED <<document, edits>>

Write(c) ==
  /\ client[c].step = "write"
  /\ document' = client[c].new
  /\ client' = [client EXCEPT ![c] = Idle]
  /\ UNCHANGED edits

(* The client leaves its wizard, or the update fails. *)
GiveUp(c) ==
  /\ client[c].step # "idle"
  /\ client' = [client EXCEPT ![c] = Idle]
  /\ UNCHANGED <<document, edits>>

Init ==
  /\ document \in Initial
  /\ client = [c \in Clients |-> Idle]
  /\ edits = 0

Next ==
  \/ Save
  \/ \E c \in Clients : \/ Regenerate(c) \/ Enhance(c) \/ ApplyRegenerated(c)
                        \/ ApplyEnhancements(c) \/ Write(c) \/ GiveUp(c)

Spec == Init /\ [][Next]_vars

----------------------------------------------------------------------------
(* Properties                                                              *)

(* The entries of a document that an item may have come from, the skills as  *)
(* an entry of their own.                                                    *)
Sources(doc, item) ==
  IF item.section = "skills" THEN {<<"skills", 0>> : x \in {doc.skills} \cap {item.original}}
  ELSE {p \in Positions(doc) : /\ p[1] = item.section
                               /\ SameEntry(EntryAt(doc, p), item)
                               /\ EntryAt(doc, p).lines = item.original}

(* No item of a proposal was given the very text that another one had: a      *)
(* later item would be taken for the earlier one.                             *)
Distinct(items) == \A m, n \in DOMAIN items : m # n => items[m].new # items[n].original

(* An application of regenerated items changes, in the document as it is when  *)
(* it is read, exactly one entry per item, which has the title and the very    *)
(* text the item was generated from; whatever was moved, removed or rewritten  *)
(* in the meantime, no other text is lost (apply_regenerated_items).           *)
RegeneratedReplacesItsSource ==
  \A c \in Clients : client[c].step = "write" /\ client[c].items # <<>> /\ Distinct(client[c].items) =>
    LET items == client[c].items
        seen == client[c].seen
        new == client[c].new
        changed == {p \in Positions(seen) : EntryAt(seen, p) # EntryAt(new, p)}
        SourceOf(p, n) == p \in Sources(seen, items[n])
    IN /\ Positions(new) = Positions(seen)
       /\ \A p \in changed : \E n \in DOMAIN items :
            SourceOf(p, n) /\ EntryAt(new, p) = [EntryAt(seen, p) EXCEPT !.lines = items[n].new]
       /\ new.skills # seen.skills => \E n \in DOMAIN items :
            SourceOf(<<"skills", 0>>, n) /\ new.skills = items[n].new
       /\ \A n \in DOMAIN items : \E p \in Positions(seen) \cup {<<"skills", 0>>} : SourceOf(p, n)

(* Items that are each to be found, with their title and their text, in one    *)
(* place of the document and not in the same one, are applied wherever they    *)
(* have moved to (_find_unique_index_by_metadata).                             *)
FoundItemsAreApplied ==
  \A c \in Clients : client[c].step = "regenerated" /\ Distinct(client[c].items) =>
    LET items == client[c].items
        Place(n) == Sources(document, items[n])
    IN (/\ \A n \in DOMAIN items : /\ Cardinality(Place(n)) = 1
                                   /\ items[n].title # None \/ items[n].section = "skills"
        /\ \A m, n \in DOMAIN items : m # n => Place(m) # Place(n))
       => Regenerated(document, items) # Refused

----------------------------------------------------------------------------
(* What a user would expect and the code does not do.                        *)

(* An application does not undo what others did between its read and write.   *)
WritesLoseNothing ==
  \A c \in Clients : client[c].step = "write" => client[c].seen = document
=============================================================================
