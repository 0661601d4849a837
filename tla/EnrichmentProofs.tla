-------------------------- MODULE EnrichmentProofs --------------------------
(***************************************************************************)
(* Proofs about Enrichment for any documents, proposals of any length and   *)
(* any edits in between: regenerated items change the entries they came     *)
(* from and nothing else, and items that are each to be found in one place  *)
(* are applied.                                                            *)
(*                                                                         *)
(* Items are applied one after the other, each to the document that the     *)
(* ones before it have left.  What holds after every item (Follows) is      *)
(* proved by induction, over a set of natural numbers as in the other       *)
(* proofs.                                                                 *)
(***************************************************************************)
EXTENDS Enrichment, FiniteSetTheorems, WellFoundedInduction, TLAPS

AllItems == [section: Sections \cup {"skills"}, index: Nat, title: Names, company: Names,
             original: Descriptions, new: Descriptions]
Proposals == Seq(AllItems)

Enhancements == [section: Sections, index: Int, lines: Descriptions]

ClientStates ==
  {Idle}
    \cup [step: {"regenerated"}, items: Proposals]
    \cup [step: {"enhanced"}, enhancements: Seq(Enhancements)]
    \cup [step: {"write"}, items: Proposals, seen: Documents, new: Documents]

(* What a client is about to write is what its items make of what it read. *)
AppliesItems ==
  \A c \in Clients : client[c].step = "write" /\ client[c].items # <<>> =>
    client[c].new = Regenerated(client[c].seen, client[c].items)

Inv == document \in Documents /\ client \in [Clients -> ClientStates] /\ AppliesItems

(* Places of a document where an item may be, the skills as one of them. *)
Places(doc) == Positions(doc) \cup {<<"skills", 0>>}

(* After the first k items: every entry is as it was, or as one of the items *)
(* that came from it has made it, and each of these items came from one.    *)
Follows(doc, d, items, k) ==
  /\ d \in Documents /\ Positions(d) = Positions(doc)
  /\ \A p \in Positions(doc) :
       \/ EntryAt(d, p) = EntryAt(doc, p)
       \/ \E n \in 1..k : /\ p \in Sources(doc, items[n])
                          /\ EntryAt(d, p) = [EntryAt(doc, p) EXCEPT !.lines = items[n].new]
  /\ \/ d.skills = doc.skills
     \/ \E n \in 1..k : <<"skills", 0>> \in Sources(doc, items[n]) /\ d.skills = items[n].new
  /\ \A n \in 1..k : \E p \in Places(doc) : p \in Sources(doc, items[n])

(* Each item has one place, which is that of no other. *)
Located(doc, items) ==
  /\ \A n \in DOMAIN items : /\ Cardinality(Sources(doc, items[n])) = 1
                             /\ items[n].title # None \/ items[n].section = "skills"
  /\ \A m, n \in DOMAIN items : m # n => Sources(doc, items[m]) # Sources(doc, items[n])

-----------------------------------------------------------------------------
(* Induction.                                                              *)

(* Every set of natural numbers has a least one. *)
LEMMA LeastNatural ==
  ASSUME NEW T, T \subseteq Nat, T # {}
  PROVE  \E n \in T : \A m \in T : n <= m
<1>1. PICK n \in T : \A m \in T : ~(<<m, n>> \in OpToRel(<, Nat))
  BY WFMin, NatLessThanWellFounded
<1>2. \A m \in T : ~(m < n)
  BY <1>1 DEF OpToRel
<1> QED
  BY <1>2

(* Induction over the natural numbers, for a set. *)
LEMMA Induction ==
  ASSUME NEW T, 0 \in T, \A n \in Nat : n \in T => n + 1 \in T
  PROVE  Nat \subseteq T
<1> DEFINE U == Nat \ T
<1>1. SUFFICES ASSUME U # {}
               PROVE  FALSE
  OBVIOUS
<1>2. PICK n \in U : \A m \in U : n <= m
  <2> HIDE DEF U
  <2> QED
    BY <1>1, LeastNatural DEF U
<1> QED
  BY <1>2

(* What the items make of a document is made by one item after the other. *)
LEMMA ItemByItem ==
  ASSUME NEW doc, NEW items \in Proposals
  PROVE  \E after :
           /\ after[0] = doc
           /\ \A n \in 1..Len(items) :
                after[n] = IF after[n - 1] = Refused THEN Refused
                           ELSE Replaced(after[n - 1], items[n])
           /\ Regenerated(doc, items) = after[Len(items)]
<1> DEFINE N == Len(items)
           Apply(d, n) == IF d = Refused THEN Refused ELSE Replaced(d, items[n])
           Turn(g, n) == IF n = 0 THEN doc ELSE Apply(g[n - 1], n)
           after[n \in 0..N] == IF n = 0 THEN doc
                                ELSE IF after[n - 1] = Refused THEN Refused
                                     ELSE Replaced(after[n - 1], items[n])
           T == {k \in Nat : \E g : g = [n \in 0..k |-> Turn(g, n)]}
<1>1. N \in Nat
  BY DEF Proposals
<1>2. 0 \in T
  <2> DEFINE g == [n \in 0..0 |-> doc]
  <2>1. g = [n \in 0..0 |-> Turn(g, n)]
    OBVIOUS
  <2> QED
    BY <2>1
<1>3. ASSUME NEW k \in Nat, k \in T
      PROVE  k + 1 \in T
  <2>1. PICK g : g = [n \in 0..k |-> Turn(g, n)]
    BY <1>3
  <2> DEFINE h == [n \in 0..(k + 1) |-> IF n = k + 1 THEN Apply(g[k], n) ELSE g[n]]
  <2> HIDE DEF Apply
  <2>2. ASSUME NEW n \in 0..(k + 1)
        PROVE  h[n] = Turn(h, n)
    <3>1. CASE n = k + 1
      BY <3>1
    <3>2. CASE n # k + 1
      <4>1. n \in 0..k /\ (n # 0 => n - 1 \in 0..k /\ n - 1 # k + 1) /\ h[n] = g[n]
        BY <3>2
      <4>2. g[n] = Turn(g, n)
        BY <2>1, <4>1
      <4> QED
        BY <4>1, <4>2
    <3> QED
      BY <3>1, <3>2
  <2>3. h = [n \in 0..(k + 1) |-> Turn(h, n)]
    BY <2>2
  <2> HIDE DEF h
  <2> QED
    BY <2>3
<1>4. Nat \subseteq T
  <2> HIDE DEF T
  <2> QED
    BY <1>2, <1>3, Induction
<1>5. after = [n \in 0..N |-> Turn(after, n)]
  <2>1. PICK g : g = [n \in 0..N |-> Turn(g, n)]
    BY <1>1, <1>4
  <2> QED
    BY <2>1 DEF after
<1>6. Regenerated(doc, items) = after[N]
  BY DEF Regenerated
<1> HIDE DEF after
<1>7. after[0] = doc
  BY <1>1, <1>5
<1>8. ASSUME NEW n \in 1..N
      PROVE  after[n] = Apply(after[n - 1], n)
  <2> HIDE DEF Apply
  <2> QED
    BY <1>1, <1>5
<1> QED
  BY <1>6, <1>7, <1>8

-----------------------------------------------------------------------------
(* Documents.                                                              *)

(* Positions are sections with an index of one of their entries. *)
LEMMA PositionsOf ==
  ASSUME NEW doc \in Documents
  PROVE  /\ \A p : p \in Positions(doc) <=>
              \E s \in Sections : \E i \in DOMAIN doc.entries[s] : p = <<s, i>>
         /\ \A p \in Positions(doc) :
              /\ p[1] \in Sections /\ p[2] \in DOMAIN doc.entries[p[1]] /\ p = <<p[1], p[2]>>
              /\ p # <<"skills", 0>> /\ EntryAt(doc, p) \in Entries
<1>1. \A p : p \in Positions(doc) <=> \E s \in Sections : \E i \in DOMAIN doc.entries[s] : p = <<s, i>>
  BY DEF Positions
<1>2. \A s \in Sections : doc.entries[s] \in Seq(Entries)
  BY DEF Documents
<1>3. \A s \in Sections : \A i \in DOMAIN doc.entries[s] :
        EntryAt(doc, <<s, i>>) \in Entries /\ <<s, i>> # <<"skills", 0>>
  BY <1>2, Inputs DEF EntryAt
<1> QED
  BY <1>1, <1>3

(* A description is changed in one place. *)
LEMMA WithLinesChangesOne ==
  ASSUME NEW doc \in Documents, NEW p \in Positions(doc), NEW lines \in Descriptions
  PROVE  /\ WithLines(doc, p, lines) \in Documents
         /\ Positions(WithLines(doc, p, lines)) = Positions(doc)
         /\ WithLines(doc, p, lines).skills = doc.skills
         /\ EntryAt(WithLines(doc, p, lines), p) = [EntryAt(doc, p) EXCEPT !.lines = lines]
         /\ \A q \in Positions(doc) \ {p} :
              EntryAt(WithLines(doc, p, lines), q) = EntryAt(doc, q)
<1> DEFINE new == WithLines(doc, p, lines)
           s == p[1]
           i == p[2]
           list == doc.entries[s]
           changed == [list EXCEPT ![i] = [list[i] EXCEPT !.lines = lines]]
<1>1. /\ s \in Sections /\ i \in DOMAIN list /\ p = <<s, i>>
      /\ \A t \in Sections : doc.entries[t] \in Seq(Entries)
      /\ doc.skills \in Descriptions /\ doc.entries \in [Sections -> Seq(Entries)]
  BY PositionsOf DEF Documents
<1>2. list[i] \in Entries /\ [list[i] EXCEPT !.lines = lines] \in Entries
  <2>1. \A e \in Entries : [e EXCEPT !.lines = lines] \in Entries
    BY DEF Entries
  <2>2. list[i] \in Entries
    BY <1>1
  <2> QED
    BY <2>1, <2>2
<1>3. changed \in Seq(Entries) /\ DOMAIN changed = DOMAIN list
  BY <1>1, <1>2
<1>4. new = [doc EXCEPT !.entries = [doc.entries EXCEPT ![s] = changed]]
  BY <1>1 DEF WithLines
<1>5. /\ new.skills = doc.skills /\ new.entries = [doc.entries EXCEPT ![s] = changed]
      /\ new = [skills |-> new.skills, entries |-> new.entries]
  BY <1>4 DEF Documents
<1>6. /\ new.entries[s] = changed
      /\ \A t \in Sections \ {s} : new.entries[t] = doc.entries[t]
      /\ new.entries \in [Sections -> Seq(Entries)]
  BY <1>1, <1>3, <1>5
<1>7. new \in Documents
  BY <1>1, <1>5, <1>6 DEF Documents
<1>8. Positions(new) = Positions(doc)
  <2>1. \A t \in Sections : DOMAIN new.entries[t] = DOMAIN doc.entries[t]
    BY <1>3, <1>6
  <2> QED
    BY <2>1 DEF Positions
<1>9. EntryAt(new, p) = [EntryAt(doc, p) EXCEPT !.lines = lines]
  BY <1>1, <1>6 DEF EntryAt
<1>10. ASSUME NEW q \in Positions(doc) \ {p}
       PROVE  EntryAt(new, q) = EntryAt(doc, q)
  <2>1. q[1] \in Sections /\ q[2] \in DOMAIN doc.entries[q[1]] /\ q = <<q[1], q[2]>>
    BY PositionsOf
  <2>2. CASE q[1] = s
    BY <1>1, <1>6, <2>1, <2>2 DEF EntryAt
  <2>3. CASE q[1] # s
    BY <1>6, <2>1, <2>3 DEF EntryAt
  <2> QED
    BY <2>2, <2>3
<1> QED
  BY <1>5, <1>7, <1>8, <1>9, <1>10

(* What a user may make of a document is a document. *)
LEMMA EditedDocument ==
  ASSUME NEW doc \in Documents
  PROVE  Edited(doc) \subseteq Documents
<1>1. /\ doc.skills \in Descriptions /\ doc.entries \in [Sections -> Seq(Entries)]
      /\ doc = [skills |-> doc.skills, entries |-> doc.entries]
  BY DEF Documents
<1>2. ASSUME NEW s \in Sections, NEW list \in Seq(Entries)
      PROVE  [doc EXCEPT !.entries[s] = list] \in Documents
  BY <1>1, <1>2 DEF Documents
<1>3. ASSUME NEW s \in Sections
      PROVE  [doc EXCEPT !.entries[s] = Reverse(@)] \in Documents
  <2>1. Reverse(doc.entries[s]) \in Seq(Entries)
    BY <1>1 DEF Reverse
  <2> QED
    BY <1>2, <2>1
<1>4. ASSUME NEW p \in Positions(doc)
      PROVE  [doc EXCEPT !.entries[p[1]] = RemoveAt(@, p[2])] \in Documents
  <2>1. p[1] \in Sections /\ p[2] \in DOMAIN doc.entries[p[1]]
    BY PositionsOf
  <2> DEFINE list == doc.entries[p[1]]
  <2>2. list \in Seq(Entries) /\ p[2] \in 1..Len(list)
    BY <1>1, <2>1
  <2>3. SubSeq(list, 1, p[2] - 1) \in Seq(Entries) /\ SubSeq(list, p[2] + 1, Len(list)) \in Seq(Entries)
    BY <2>2
  <2>4. RemoveAt(list, p[2]) \in Seq(Entries)
    BY <2>3 DEF RemoveAt
  <2> QED
    BY <1>2, <2>1, <2>4
<1>5. ASSUME NEW p \in Positions(doc), NEW t \in Texts
      PROVE  WithLines(doc, p, t) \in Documents
  BY WithLinesChangesOne, Inputs
<1>6. ASSUME NEW t \in Texts
      PROVE  [doc EXCEPT !.skills = t] \in Documents
  BY <1>1, Inputs DEF Documents
<1> QED
  BY <1>3, <1>4, <1>5, <1>6 DEF Edited

-----------------------------------------------------------------------------
(* One item.                                                               *)

(* No document is taken for a refusal. *)
LEMMA DocumentsAreNotRefused == Refused \notin Documents
<1>1. "refused" \in DOMAIN Refused
  BY DEF Refused
<1>2. \A d \in Documents : DOMAIN d = {"skills", "entries"}
  BY DEF Documents
<1> QED
  BY <1>1, <1>2

(* Where an item may have come from. *)
LEMMA SourcesOf ==
  ASSUME NEW doc, NEW item
  PROVE  /\ item.section = "skills" => \A p : p \in Sources(doc, item) <=>
              p = <<"skills", 0>> /\ doc.skills = item.original
         /\ item.section # "skills" => \A p : p \in Sources(doc, item) <=>
              /\ p \in Positions(doc) /\ p[1] = item.section
              /\ SameEntry(EntryAt(doc, p), item) /\ EntryAt(doc, p).lines = item.original
  BY DEF Sources

(* An item that is taken replaces the text it has come from, where that is. *)
LEMMA ReplacedAtSource ==
  ASSUME NEW d \in Documents, NEW item \in AllItems, Replaced(d, item) # Refused
  PROVE  \/ /\ <<"skills", 0>> \in Sources(d, item) /\ item.section = "skills"
            /\ Replaced(d, item) = [d EXCEPT !.skills = item.new]
         \/ \E p \in Positions(d) : /\ p \in Sources(d, item) /\ item.section # "skills"
                                    /\ Replaced(d, item) = WithLines(d, p, item.new)
<1>1. CASE item.section = "skills"
  BY <1>1, SourcesOf DEF Replaced
<1>2. CASE item.section # "skills"
  <2> DEFINE s == item.section
             entries == d.entries[s]
             found == {i \in Resolve(entries, item) : entries[i].lines = item.original}
             i == CHOOSE n \in found : TRUE
  <2>1. s \in Sections
    BY <1>2 DEF AllItems
  <2>2. found # {} /\ Replaced(d, item) = WithLines(d, <<s, i>>, item.new)
    BY <1>2 DEF Replaced
  <2>3. i \in found
    BY <2>2
  <2>4. \A n \in Resolve(entries, item) : n \in DOMAIN entries /\ SameEntry(entries[n], item)
    BY DEF Resolve, ByMetadata
  <2>5. i \in DOMAIN entries /\ SameEntry(entries[i], item) /\ entries[i].lines = item.original
    BY <2>3, <2>4
  <2> HIDE DEF i
  <2>6. <<s, i>> \in Positions(d) /\ EntryAt(d, <<s, i>>) = entries[i]
    BY <2>1, <2>5, PositionsOf DEF EntryAt
  <2>7. <<s, i>> \in Sources(d, item)
    BY <1>2, <2>5, <2>6, SourcesOf
  <2> QED
    BY <1>2, <2>2, <2>6, <2>7
<1> QED
  BY <1>1, <1>2

(* An item that has one source is taken, wherever that is. *)
LEMMA SourceIsFound ==
  ASSUME NEW d \in Documents, NEW item \in AllItems, NEW p, Sources(d, item) = {p},
         item.title # None \/ item.section = "skills"
  PROVE  Replaced(d, item) # Refused
<1>1. CASE item.section = "skills"
  <2>1. d.skills = item.original
    BY <1>1, SourcesOf
  <2>2. Replaced(d, item) = [d EXCEPT !.skills = item.new]
    BY <1>1, <2>1 DEF Replaced
  <2>3. Replaced(d, item) \in Documents
    BY <2>2 DEF Documents, AllItems
  <2> QED
    BY <2>3, DocumentsAreNotRefused
<1>2. CASE item.section # "skills"
  <2> DEFINE s == item.section
             entries == d.entries[s]
             matches == {n \in DOMAIN entries : item.title # None /\ SameEntry(entries[n], item)}
             same == {n \in matches : entries[n].lines = item.original}
             found == {n \in Resolve(entries, item) : entries[n].lines = item.original}
  <2>1. s \in Sections /\ item.title # None
    BY <1>2 DEF AllItems
  <2>2. /\ p \in Positions(d) /\ p[1] = s
        /\ SameEntry(EntryAt(d, p), item) /\ EntryAt(d, p).lines = item.original
    BY <1>2, SourcesOf
  <2>3. p[2] \in DOMAIN entries /\ p = <<s, p[2]>> /\ EntryAt(d, p) = entries[p[2]]
    BY <2>2, PositionsOf DEF EntryAt
  <2>4. ASSUME NEW n \in same
        PROVE  n = p[2]
    <3>1. n \in DOMAIN entries /\ SameEntry(entries[n], item) /\ entries[n].lines = item.original
      OBVIOUS
    <3>2. <<s, n>> \in Positions(d) /\ EntryAt(d, <<s, n>>) = entries[n]
      BY <2>1, <3>1, PositionsOf DEF EntryAt
    <3>3. <<s, n>> \in Sources(d, item)
      BY <1>2, <3>1, <3>2, SourcesOf
    <3> QED
      BY <2>3, <3>3
  <2>5. p[2] \in same
    BY <2>1, <2>2, <2>3
  <2>6. same = {p[2]} /\ same \subseteq matches
    BY <2>4, <2>5
  <2>7. Cardinality(same) = 1
    BY <2>6, FS_Singleton
  <2>8. p[2] \in ByMetadata(entries, item)
    <3> HIDE DEF matches, same
    <3>1. CASE Cardinality(matches) = 1
      BY <2>5, <2>6, <3>1 DEF ByMetadata, matches
    <3>2. CASE Cardinality(matches) # 1
      BY <2>5, <2>7, <3>2 DEF ByMetadata, matches, same
    <3> QED
      BY <3>1, <3>2
  <2>9. \E n \in Resolve(entries, item) : entries[n].lines = item.original
    BY <2>2, <2>3, <2>8 DEF Resolve
  <2>10. found # {} /\ Replaced(d, item) = WithLines(d, <<s, CHOOSE n \in found : TRUE>>, item.new)
    BY <1>2, <2>9 DEF Replaced
  <2> DEFINE i == CHOOSE n \in found : TRUE
  <2>11. i \in found /\ i \in DOMAIN entries
    BY <2>10 DEF Resolve, ByMetadata
  <2> HIDE DEF i
  <2>12. <<s, i>> \in Positions(d) /\ item.new \in Descriptions
    BY <2>1, <2>11, PositionsOf DEF AllItems
  <2>13. WithLines(d, <<s, i>>, item.new) \in Documents
    BY <2>12, WithLinesChangesOne
  <2> QED
    BY <2>10, <2>13, DocumentsAreNotRefused DEF i
<1> QED
  BY <1>1, <1>2

-----------------------------------------------------------------------------
(* All items of a proposal.                                                *)

(* The source of an item in the document that earlier items have left is    *)
(* its source in the document that was read: no earlier item had its text.  *)
LEMMA SourcesStay ==
  ASSUME NEW doc \in Documents, NEW items \in Proposals, Distinct(items), NEW k \in Nat,
         k + 1 \in DOMAIN items, NEW d, Follows(doc, d, items, k),
         NEW p, p \in Sources(d, items[k + 1])
  PROVE  /\ p \in Sources(doc, items[k + 1])
         /\ p \in Positions(doc) => EntryAt(d, p) = EntryAt(doc, p)
<1> DEFINE item == items[k + 1]
<1>1. /\ item \in AllItems
      /\ \A n \in 1..k : n \in DOMAIN items /\ items[n] \in AllItems /\ items[n].new # item.original
  <2>1. DOMAIN items = 1..Len(items) /\ Len(items) \in Nat
    BY DEF Proposals
  <2>2. \A n \in 1..k : n \in DOMAIN items /\ n # k + 1
    BY <2>1
  <2> QED
    BY <2>2 DEF Proposals, Distinct
<1>2. CASE item.section = "skills"
  <2>1. p = <<"skills", 0>> /\ d.skills = item.original /\ p \notin Positions(doc)
    BY <1>2, SourcesOf, PositionsOf
  <2>2. d.skills = doc.skills
    BY <1>1, <2>1 DEF Follows
  <2> QED
    BY <1>2, <2>1, <2>2, SourcesOf
<1>3. CASE item.section # "skills"
  <2>1. /\ p \in Positions(d) /\ p[1] = item.section /\ SameEntry(EntryAt(d, p), item)
        /\ EntryAt(d, p).lines = item.original
    BY <1>3, SourcesOf
  <2>2. p \in Positions(doc) /\ EntryAt(doc, p) \in Entries
    BY <2>1, PositionsOf DEF Follows
  <2>3. ASSUME NEW n \in 1..k, EntryAt(d, p) = [EntryAt(doc, p) EXCEPT !.lines = items[n].new]
        PROVE  FALSE
    <3>1. EntryAt(d, p).lines = items[n].new
      BY <2>2, <2>3 DEF Entries
    <3> QED
      BY <1>1, <2>1, <3>1
  <2>4. EntryAt(d, p) = EntryAt(doc, p)
    BY <2>2, <2>3 DEF Follows
  <2> QED
    BY <1>3, <2>1, <2>2, <2>4, SourcesOf
<1> QED
  BY <1>2, <1>3

(* An item that is taken leaves a document that follows from the first one. *)
LEMMA ItemFollows ==
  ASSUME NEW doc \in Documents, NEW items \in Proposals, Distinct(items), NEW k \in Nat,
         k + 1 \in DOMAIN items, NEW d, Follows(doc, d, items, k),
         Replaced(d, items[k + 1]) # Refused
  PROVE  Follows(doc, Replaced(d, items[k + 1]), items, k + 1)
<1> DEFINE item == items[k + 1]
           new == Replaced(d, item)
<1>1. item \in AllItems /\ item.new \in Descriptions /\ d \in Documents /\ Positions(d) = Positions(doc)
  <2>1. item \in AllItems
    BY DEF Proposals
  <2> QED
    BY <2>1 DEF AllItems, Follows
<1>2. 1..(k + 1) = 1..k \cup {k + 1}
  OBVIOUS
<1>3. CASE /\ <<"skills", 0>> \in Sources(d, item) /\ item.section = "skills"
           /\ new = [d EXCEPT !.skills = item.new]
  <2>1. new \in Documents /\ new.skills = item.new /\ new.entries = d.entries
    BY <1>1, <1>3 DEF Documents
  <2>2. Positions(new) = Positions(doc) /\ \A p : EntryAt(new, p) = EntryAt(d, p)
    BY <1>1, <2>1 DEF Positions, EntryAt
  <2>3. <<"skills", 0>> \in Sources(doc, item) /\ <<"skills", 0>> \in Places(doc)
    BY <1>3, SourcesStay DEF Places
  <2>4. item = items[k + 1] /\ k + 1 \in 1..(k + 1)
    BY <1>2
  <2> HIDE DEF new, item
  <2>5. \A q \in Positions(doc) :
          \/ EntryAt(new, q) = EntryAt(doc, q)
          \/ \E n \in 1..(k + 1) : /\ q \in Sources(doc, items[n])
                                  /\ EntryAt(new, q) = [EntryAt(doc, q) EXCEPT !.lines = items[n].new]
    BY <1>2, <2>2 DEF Follows
  <2>6. \E n \in 1..(k + 1) : <<"skills", 0>> \in Sources(doc, items[n]) /\ new.skills = items[n].new
    BY <2>1, <2>3, <2>4
  <2>7. \A n \in 1..(k + 1) : \E q \in Places(doc) : q \in Sources(doc, items[n])
    BY <1>2, <2>3, <2>4 DEF Follows
  <2>8. Follows(doc, new, items, k + 1)
    BY <2>1, <2>2, <2>5, <2>6, <2>7 DEF Follows
  <2> QED
    BY <2>8 DEF new, item
<1>4. CASE \E p \in Positions(d) : /\ p \in Sources(d, item) /\ item.section # "skills"
                                   /\ new = WithLines(d, p, item.new)
  <2>1. PICK p \in Positions(d) : p \in Sources(d, item) /\ new = WithLines(d, p, item.new)
    BY <1>4
  <2>2. /\ new \in Documents /\ Positions(new) = Positions(doc) /\ new.skills = d.skills
        /\ EntryAt(new, p) = [EntryAt(d, p) EXCEPT !.lines = item.new]
        /\ \A q \in Positions(doc) \ {p} : EntryAt(new, q) = EntryAt(d, q)
    BY <1>1, <2>1, WithLinesChangesOne
  <2>3. /\ p \in Sources(doc, item) /\ p \in Places(doc) /\ p \in Positions(doc)
        /\ EntryAt(d, p) = EntryAt(doc, p)
    BY <1>1, <2>1, SourcesStay DEF Places
  <2>4. item = items[k + 1] /\ k + 1 \in 1..(k + 1)
    BY <1>2
  <2> HIDE DEF new, item
  <2>5. ASSUME NEW q \in Positions(doc)
        PROVE  \/ EntryAt(new, q) = EntryAt(doc, q)
               \/ \E n \in 1..(k + 1) :
                    /\ q \in Sources(doc, items[n])
                    /\ EntryAt(new, q) = [EntryAt(doc, q) EXCEPT !.lines = items[n].new]
    <3>1. CASE q = p
      BY <1>2, <2>2, <2>3, <3>1 DEF item
    <3>2. CASE q # p
      BY <1>2, <2>2, <3>2 DEF Follows
    <3> QED
      BY <3>1, <3>2
  <2>6. \/ new.skills = doc.skills
        \/ \E n \in 1..(k + 1) : <<"skills", 0>> \in Sources(doc, items[n]) /\ new.skills = items[n].new
    BY <1>2, <2>2 DEF Follows
  <2>7. \A n \in 1..(k + 1) : \E q \in Places(doc) : q \in Sources(doc, items[n])
    BY <1>2, <2>3, <2>4 DEF Follows
  <2>8. Follows(doc, new, items, k + 1)
    BY <2>2, <2>5, <2>6, <2>7 DEF Follows
  <2> QED
    BY <2>8 DEF new, item
<1> QED
  BY <1>1, <1>3, <1>4, ReplacedAtSource

(* An item that has its place in the first document is taken. *)
LEMMA LocatedIsTaken ==
  ASSUME NEW doc \in Documents, NEW items \in Proposals, Distinct(items), Located(doc, items),
         NEW k \in Nat, k + 1 \in DOMAIN items, NEW d, Follows(doc, d, items, k)
  PROVE  Replaced(d, items[k + 1]) # Refused
<1> DEFINE item == items[k + 1]
<1>1. item \in AllItems /\ d \in Documents /\ Positions(d) = Positions(doc)
  BY DEF Proposals, Follows
<1>2. \A n \in 1..k : n \in DOMAIN items /\ n # k + 1
  BY DEF Proposals
<1>3. \A n \in DOMAIN items : \E q : Sources(doc, items[n]) = {q}
  <2> SUFFICES ASSUME NEW n \in DOMAIN items
               PROVE  \E q : Sources(doc, items[n]) = {q}
    OBVIOUS
  <2>1. Cardinality(Sources(doc, items[n])) = 1
    BY DEF Located
  <2>2. IsFiniteSet(Sources(doc, items[n]))
    <3>1. CASE items[n].section = "skills"
      <4>1. Sources(doc, items[n]) \subseteq {<<"skills", 0>>}
        BY <3>1, SourcesOf
      <4> QED
        BY <4>1, FS_Singleton, FS_Subset
    <3>2. CASE items[n].section # "skills"
      <4> DEFINE s == items[n].section
                 D == DOMAIN doc.entries[s]
                 f == [i \in D |-> <<s, i>>]
      <4>1. s \in Sections /\ doc.entries[s] \in Seq(Entries)
        <5>1. items[n] \in AllItems
          BY DEF Proposals
        <5>2. s \in Sections
          BY <3>2, <5>1 DEF AllItems
        <5> QED
          BY <5>2 DEF Documents
      <4>2. IsFiniteSet(D)
        BY <4>1, FS_Interval
      <4>3. IsFiniteSet({f[i] : i \in D})
        <5>1. f \in Surjection(D, {f[i] : i \in D})
          BY DEF Surjection
        <5> HIDE DEF D, f
        <5> QED
          BY <4>2, <5>1, FS_Surjection
      <4>4. Sources(doc, items[n]) \subseteq {f[i] : i \in D}
        BY <3>2, SourcesOf, PositionsOf
      <4> QED
        BY <4>3, <4>4, FS_Subset
    <3> QED
      BY <3>1, <3>2
  <2> QED
    BY <2>1, <2>2, FS_Singleton
<1>4. PICK p : Sources(doc, item) = {p}
  BY <1>3
<1>5. ASSUME NEW n \in 1..k
      PROVE  p \notin Sources(doc, items[n])
  <2>1. n \in DOMAIN items /\ n # k + 1
    BY <1>2
  <2>2. Sources(doc, items[n]) # Sources(doc, item)
    BY <2>1 DEF Located
  <2>3. PICK q : Sources(doc, items[n]) = {q}
    BY <1>3, <2>1
  <2> QED
    BY <1>4, <2>2, <2>3
<1>6. p \in Sources(d, item)
  <2>1. CASE item.section = "skills"
    <3>1. p = <<"skills", 0>> /\ doc.skills = item.original
      BY <1>4, <2>1, SourcesOf
    <3>2. d.skills = doc.skills
      BY <1>5, <3>1 DEF Follows
    <3> QED
      BY <2>1, <3>1, <3>2, SourcesOf
  <2>2. CASE item.section # "skills"
    <3>1. /\ p \in Positions(doc) /\ p[1] = item.section
          /\ SameEntry(EntryAt(doc, p), item) /\ EntryAt(doc, p).lines = item.original
      BY <1>4, <2>2, SourcesOf
    <3>2. EntryAt(d, p) = EntryAt(doc, p)
      BY <1>5, <3>1 DEF Follows
    <3> QED
      BY <1>1, <2>2, <3>1, <3>2, SourcesOf
  <2> QED
    BY <2>1, <2>2
<1>7. \A q \in Sources(d, item) : q = p
  BY <1>4, SourcesStay
<1>8. Sources(d, item) = {p} /\ (item.title # None \/ item.section = "skills")
  BY <1>6, <1>7 DEF Located
<1> QED
  BY <1>1, <1>8, SourceIsFound

(* What the items make of a document follows from it, unless it is refused, *)
(* which it is not if every item has its place.                             *)
LEMMA ItemsFollow ==
  ASSUME NEW doc \in Documents, NEW items \in Proposals, Distinct(items)
  PROVE  /\ Regenerated(doc, items) # Refused =>
              Follows(doc, Regenerated(doc, items), items, Len(items))
         /\ Located(doc, items) => Regenerated(doc, items) # Refused
<1> DEFINE N == Len(items)
<1>1. N \in Nat /\ DOMAIN items = 1..N
  BY DEF Proposals
<1>2. PICK after :
        /\ after[0] = doc
        /\ \A n \in 1..N : after[n] = IF after[n - 1] = Refused THEN Refused
                                      ELSE Replaced(after[n - 1], items[n])
        /\ Regenerated(doc, items) = after[N]
  BY ItemByItem
<1> DEFINE Fine(n) == /\ after[n] # Refused => Follows(doc, after[n], items, n)
                      /\ Located(doc, items) => after[n] # Refused
           V == {n \in Nat : n <= N => Fine(n)}
<1>3. Fine(0)
  <2>1. Follows(doc, doc, items, 0)
    BY DEF Follows
  <2> QED
    BY <1>2, <2>1, DocumentsAreNotRefused
<1>4. ASSUME NEW n \in Nat, n + 1 <= N, Fine(n)
      PROVE  Fine(n + 1)
  <2>1. n + 1 \in 1..N /\ n + 1 \in DOMAIN items /\ (n + 1) - 1 = n
    BY <1>1, <1>4
  <2>2. after[n + 1] = IF after[n] = Refused THEN Refused ELSE Replaced(after[n], items[n + 1])
    BY <1>2, <2>1
  <2>3. ASSUME after[n] # Refused, after[n + 1] # Refused
        PROVE  Follows(doc, after[n + 1], items, n + 1)
    BY <1>4, <2>1, <2>2, <2>3, ItemFollows
  <2>4. ASSUME Located(doc, items)
        PROVE  after[n + 1] # Refused
    BY <1>4, <2>1, <2>2, <2>4, LocatedIsTaken
  <2> QED
    BY <2>2, <2>3, <2>4
<1> HIDE DEF Fine
<1>5. 0 \in V /\ \A n \in Nat : n \in V => n + 1 \in V
  BY <1>1, <1>3, <1>4
<1>6. Nat \subseteq V
  <2> HIDE DEF V
  <2> QED
    BY <1>5, Induction
<1>7. Fine(N)
  BY <1>1, <1>6
<1> QED
  BY <1>2, <1>7 DEF Fine

(* Whatever the items are, they make a document of one, or are refused. *)
LEMMA RegeneratedDocument ==
  ASSUME NEW doc \in Documents, NEW items \in Proposals
  PROVE  Regenerated(doc, items) \in Documents \cup {Refused}
<1> DEFINE N == Len(items)
<1>1. N \in Nat /\ DOMAIN items = 1..N /\ \A n \in 1..N : items[n] \in AllItems
  BY DEF Proposals
<1>2. ASSUME NEW d \in Documents, NEW item \in AllItems
      PROVE  Replaced(d, item) \in Documents \cup {Refused}
  <2>1. item.new \in Descriptions /\ [d EXCEPT !.skills = item.new] \in Documents
    BY DEF AllItems, Documents
  <2> QED
    BY <2>1, ReplacedAtSource, WithLinesChangesOne
<1>3. PICK after :
        /\ after[0] = doc
        /\ \A n \in 1..N : after[n] = IF after[n - 1] = Refused THEN Refused
                                      ELSE Replaced(after[n - 1], items[n])
        /\ Regenerated(doc, items) = after[N]
  BY ItemByItem
<1> DEFINE V == {n \in Nat : n <= N => after[n] \in Documents \cup {Refused}}
<1>4. 0 \in V
  BY <1>3
<1>5. ASSUME NEW n \in Nat, n \in V
      PROVE  n + 1 \in V
  <2>1. CASE n + 1 <= N
    <3>1. n + 1 \in 1..N /\ (n + 1) - 1 = n /\ n <= N
      BY <1>1, <2>1
    <3>2. after[n + 1] = IF after[n] = Refused THEN Refused ELSE Replaced(after[n], items[n + 1])
      BY <1>3, <3>1
    <3>3. after[n + 1] \in Documents \cup {Refused}
      BY <1>1, <1>2, <1>5, <3>1, <3>2
    <3> QED
      BY <3>3
  <2>2. CASE ~(n + 1 <= N)
    BY <2>2
  <2> QED
    BY <2>1, <2>2
<1>6. Nat \subseteq V
  <2> HIDE DEF V
  <2> QED
    BY <1>4, <1>5, Induction
<1> QED
  BY <1>1, <1>3, <1>6

-----------------------------------------------------------------------------
(* The steps of the clients and of the user.                                *)

(* A proposal is about the document that the client shows. *)
LEMMA ItemsTyped ==
  ASSUME NEW doc \in Documents
  PROVE  Items(doc) \subseteq AllItems
<1>1. doc.skills \in Descriptions
  BY DEF Documents
<1>2. ASSUME NEW p \in Positions(doc), NEW new \in Generated
      PROVE  Item(doc, p, new) \in AllItems
  <2>1. p[1] \in Sections /\ p[2] \in DOMAIN doc.entries[p[1]] /\ EntryAt(doc, p) \in Entries
    BY PositionsOf
  <2>2. p[2] \in Nat
    BY <2>1 DEF Documents
  <2> QED
    BY <2>1, <2>2, Inputs DEF Item, AllItems, Entries
<1>3. ASSUME NEW new \in Generated
      PROVE  SkillsItem(doc, new) \in AllItems
  BY <1>1, Inputs DEF SkillsItem, AllItems
<1> QED
  BY <1>2, <1>3 DEF Items

(* An enhancement makes a document of a document. *)
LEMMA WithEnhancementDocument ==
  ASSUME NEW doc \in Documents, NEW added \in Enhancements
  PROVE  WithEnhancement(doc, added) \in Documents
<1> DEFINE found == Indexed(doc.entries[added.section], added.index)
           p == <<added.section, CHOOSE n \in found : TRUE>>
<1>1. CASE found = {}
  BY <1>1 DEF WithEnhancement
<1>2. CASE found # {}
  <2>1. p[2] \in found /\ found \subseteq DOMAIN doc.entries[added.section]
    BY <1>2 DEF Indexed
  <2>2. WithEnhancement(doc, added) = WithLines(doc, p, EntryAt(doc, p).lines \o added.lines)
    BY <1>2 DEF WithEnhancement
  <2>3. p \in Positions(doc)
    BY <2>1, PositionsOf DEF Enhancements
  <2> HIDE DEF p
  <2>4. EntryAt(doc, p).lines \in Descriptions
    BY <2>3, PositionsOf DEF Entries
  <2>5. EntryAt(doc, p).lines \o added.lines \in Descriptions
    BY <2>4 DEF Descriptions, Enhancements
  <2> QED
    BY <2>2, <2>3, <2>5, WithLinesChangesOne
<1> QED
  BY <1>1, <1>2

(* And so do any number of them, one after the other. *)
LEMMA EnhancedDocument ==
  ASSUME NEW doc \in Documents, NEW enhancements \in Seq(Enhancements)
  PROVE  Enhanced(doc, enhancements) \in Documents
<1> DEFINE N == Len(enhancements)
           Turn(g, n) == IF n = 0 THEN doc ELSE WithEnhancement(g[n - 1], enhancements[n])
           after[n \in 0..N] == IF n = 0 THEN doc
                                ELSE WithEnhancement(after[n - 1], enhancements[n])
           T == {k \in Nat : k <= N => \E g : /\ g = [n \in 0..k |-> Turn(g, n)]
                                             /\ g[k] \in Documents}
<1>1. N \in Nat /\ \A n \in 1..N : enhancements[n] \in Enhancements
  OBVIOUS
<1>2. 0 \in T
  <2> DEFINE g == [n \in 0..0 |-> doc]
  <2>1. g = [n \in 0..0 |-> Turn(g, n)] /\ g[0] \in Documents
    OBVIOUS
  <2> QED
    BY <2>1
<1>3. ASSUME NEW k \in Nat, k \in T, k + 1 <= N
      PROVE  k + 1 \in T
  <2>1. PICK g : g = [n \in 0..k |-> Turn(g, n)] /\ g[k] \in Documents
    BY <1>1, <1>3
  <2> DEFINE last == WithEnhancement(g[k], enhancements[k + 1])
             h == [n \in 0..(k + 1) |-> IF n = k + 1 THEN last ELSE g[n]]
  <2>2. last \in Documents
    BY <1>1, <1>3, <2>1, WithEnhancementDocument
  <2>3. ASSUME NEW n \in 0..(k + 1)
        PROVE  h[n] = Turn(h, n)
    <3>1. CASE n = k + 1
      <4>1. h[n] = last /\ h[n - 1] = g[k] /\ n # 0
        BY <3>1
      <4> QED
        BY <3>1, <4>1
    <3>2. CASE n # k + 1
      <4>1. n \in 0..k /\ h[n] = g[n] /\ (n # 0 => n - 1 \in 0..k /\ h[n - 1] = g[n - 1])
        BY <3>2
      <4>2. g[n] = Turn(g, n)
        BY <2>1, <4>1
      <4> HIDE DEF h
      <4> QED
        BY <4>1, <4>2
    <3> QED
      BY <3>1, <3>2
  <2>4. h = [n \in 0..(k + 1) |-> Turn(h, n)] /\ h[k + 1] \in Documents
    BY <2>2, <2>3
  <2> HIDE DEF h
  <2> QED
    BY <2>4
<1>4. Nat \subseteq T
  <2>1. \A k \in Nat : k \in T /\ k + 1 <= N => k + 1 \in T
    BY <1>3
  <2>2. \A k \in Nat : ~(k + 1 <= N) => k + 1 \in T
    OBVIOUS
  <2> HIDE DEF T
  <2> QED
    BY <1>2, <2>1, <2>2, Induction
<1>5. PICK g : g = [n \in 0..N |-> Turn(g, n)] /\ g[N] \in Documents
  BY <1>1, <1>4
<1>6. after = [n \in 0..N |-> Turn(after, n)]
  BY <1>5 DEF after
<1>7. Enhanced(doc, enhancements) = after[N]
  BY DEF Enhanced
<1> HIDE DEF after
<1> DEFINE U == {n \in Nat : n <= N => after[n] = g[n]}
<1>8. 0 \in U
  BY <1>1, <1>5, <1>6
<1>9. ASSUME NEW n \in Nat, n \in U
      PROVE  n + 1 \in U
  <2>1. CASE n + 1 <= N
    <3>1. n + 1 \in 0..N /\ (n + 1) - 1 = n /\ n + 1 # 0 /\ after[n] = g[n]
      BY <1>1, <1>9, <2>1
    <3>2. after[n + 1] = WithEnhancement(after[n], enhancements[n + 1])
      BY <1>6, <3>1
    <3>3. g[n + 1] = WithEnhancement(g[n], enhancements[n + 1])
      BY <1>5, <3>1
    <3> QED
      BY <3>1, <3>2, <3>3
  <2>2. CASE ~(n + 1 <= N)
    BY <2>2
  <2> QED
    BY <2>1, <2>2
<1>10. after[N] = g[N]
  <2>1. Nat \subseteq U
    <3> HIDE DEF U
    <3> QED
      BY <1>8, <1>9, Induction
  <2> QED
    BY <1>1, <2>1
<1> QED
  BY <1>5, <1>7, <1>10

(* A client goes on to a state of its own. *)
LEMMA ClientKeepsInv ==
  ASSUME Inv, NEW c \in Clients, NEW state \in ClientStates,
         client' = [client EXCEPT ![c] = state],
         state.step = "write" /\ state.items # <<>> =>
           state.new = Regenerated(state.seen, state.items)
  PROVE  client' \in [Clients -> ClientStates] /\ AppliesItems'
<1>1. client' \in [Clients -> ClientStates]
  BY DEF Inv
<1>2. ASSUME NEW k \in Clients, client'[k].step = "write", client'[k].items # <<>>
      PROVE  client'[k].new = Regenerated(client'[k].seen, client'[k].items)
  <2>1. CASE k = c
    BY <1>2, <2>1 DEF Inv
  <2>2. CASE k # c
    BY <1>2, <2>2 DEF Inv, AppliesItems
  <2> QED
    BY <2>1, <2>2
<1> QED
  BY <1>1, <1>2 DEF AppliesItems

(* The initial states have the invariant. *)
LEMMA InitHasInv == Init => Inv
  BY Inputs DEF Init, Inv, Idle, ClientStates, AppliesItems

(* Every step keeps the invariant. *)
LEMMA NextKeepsInv == Inv /\ [Next]_vars => Inv'
<1> SUFFICES ASSUME Inv, [Next]_vars
             PROVE  Inv'
  OBVIOUS
<1>1. document \in Documents /\ client \in [Clients -> ClientStates]
  BY DEF Inv
<1>2. Idle \in ClientStates /\ Idle.step = "idle"
  BY DEF Idle, ClientStates
<1>3. CASE Save
  <2>1. document' \in Documents /\ client' = client
    BY <1>1, <1>3, EditedDocument DEF Save
  <2> QED
    BY <2>1 DEF Inv, AppliesItems
<1>4. ASSUME NEW c \in Clients, Regenerate(c)
      PROVE  Inv'
  <2>1. PICK items \in UNION {[1..n -> Items(document)] : n \in 1..MaxItems} :
          client' = [client EXCEPT ![c] = [step |-> "regenerated", items |-> items]]
    BY <1>4 DEF Regenerate
  <2>2. items \in Proposals
    <3>1. PICK n \in 1..MaxItems : items \in [1..n -> Items(document)]
      BY <2>1
    <3>2. n \in Nat /\ items \in [1..n -> AllItems]
      BY <1>1, <3>1, ItemsTyped, Bounds
    <3> QED
      BY <3>2 DEF Proposals
  <2> DEFINE state == [step |-> "regenerated", items |-> items]
  <2>3. state \in ClientStates /\ state.step # "write"
    BY <2>2 DEF ClientStates
  <2>4. client' = [client EXCEPT ![c] = state] /\ document' = document
    BY <1>4, <2>1 DEF Regenerate
  <2> HIDE DEF state
  <2> QED
    BY <1>1, <2>3, <2>4, ClientKeepsInv DEF Inv
<1>5. ASSUME NEW c \in Clients, Enhance(c)
      PROVE  Inv'
  <2> DEFINE Ids == FastIds(document) \cup LegacyIds
  <2>1. PICK enhancements \in UNION {[1..n -> Additions(document)] : n \in 1..MaxItems} :
          client' = [client EXCEPT ![c] = [step |-> "enhanced", enhancements |-> enhancements]]
    BY <1>5 DEF Enhance
  <2>2. ASSUME NEW id \in Ids
        PROVE  id.section \in Sections /\ id.index \in Int
    <3>1. CASE id \in LegacyIds
      BY <3>1 DEF LegacyIds
    <3>2. CASE id \in FastIds(document)
      <4>1. PICK p \in Positions(document) : id = [section |-> p[1], index |-> p[2] - 1]
        BY <3>2 DEF FastIds
      <4>2. p[1] \in Sections /\ p[2] \in DOMAIN document.entries[p[1]]
        BY <1>1, PositionsOf
      <4>3. p[2] \in Nat
        BY <1>1, <4>2 DEF Documents
      <4> QED
        BY <4>1, <4>2, <4>3
    <3> QED
      BY <3>1, <3>2
  <2>3. Extra \cup {<<>>} \subseteq Descriptions
    <3>1. <<>> \in Descriptions
      BY DEF Descriptions
    <3> QED
      BY <3>1, Inputs
  <2>4. Additions(document) \subseteq Enhancements
    BY <2>2, <2>3 DEF Additions, Enhancements
  <2>5. enhancements \in Seq(Enhancements)
    <3>1. PICK n \in 1..MaxItems : enhancements \in [1..n -> Additions(document)]
      BY <2>1
    <3>2. n \in Nat /\ enhancements \in [1..n -> Enhancements]
      BY <2>4, <3>1, Bounds
    <3> QED
      BY <3>2
  <2> DEFINE state == [step |-> "enhanced", enhancements |-> enhancements]
  <2>6. state \in ClientStates /\ state.step # "write"
    BY <2>5 DEF ClientStates
  <2>7. client' = [client EXCEPT ![c] = state] /\ document' = document
    BY <1>5, <2>1 DEF Enhance
  <2> HIDE DEF state
  <2> QED
    BY <1>1, <2>6, <2>7, ClientKeepsInv DEF Inv
<1>6. ASSUME NEW c \in Clients, ApplyRegenerated(c)
      PROVE  Inv'
  <2> DEFINE items == client[c].items
             new == Regenerated(document, items)
             writing == [step |-> "write", items |-> items, seen |-> document, new |-> new]
             state == IF new = Refused THEN Idle ELSE writing
  <2>1. items \in Proposals
    BY <1>1, <1>6 DEF ApplyRegenerated, ClientStates, Idle
  <2>2. new \in Documents \cup {Refused}
    BY <1>1, <2>1, RegeneratedDocument
  <2>3. /\ state \in ClientStates
        /\ state.step = "write" /\ state.items # <<>> => state.new = Regenerated(state.seen, state.items)
    <3>1. CASE new = Refused
      BY <1>2, <3>1
    <3>2. CASE new # Refused
      BY <1>1, <2>1, <2>2, <3>2 DEF ClientStates
    <3> QED
      BY <3>1, <3>2
  <2>4. client' = [client EXCEPT ![c] = state] /\ document' = document
    BY <1>6 DEF ApplyRegenerated
  <2> HIDE DEF state
  <2> QED
    BY <1>1, <2>3, <2>4, ClientKeepsInv DEF Inv
<1>7. ASSUME NEW c \in Clients, ApplyEnhancements(c)
      PROVE  Inv'
  <2> DEFINE new == Enhanced(document, client[c].enhancements)
             state == [step |-> "write", items |-> <<>>, seen |-> document, new |-> new]
  <2>1. client[c].enhancements \in Seq(Enhancements)
    BY <1>1, <1>7 DEF ApplyEnhancements, ClientStates, Idle
  <2>2. new \in Documents /\ <<>> \in Proposals
    BY <1>1, <2>1, EnhancedDocument DEF Proposals
  <2>3. state \in ClientStates /\ state.items = <<>>
    BY <1>1, <2>2 DEF ClientStates
  <2>4. client' = [client EXCEPT ![c] = state] /\ document' = document
    BY <1>7 DEF ApplyEnhancements
  <2> HIDE DEF state
  <2> QED
    BY <1>1, <2>3, <2>4, ClientKeepsInv DEF Inv
<1>8. ASSUME NEW c \in Clients, Write(c)
      PROVE  Inv'
  <2>1. client[c].new \in Documents
    BY <1>1, <1>8 DEF Write, ClientStates, Idle
  <2>2. document' \in Documents /\ client' = [client EXCEPT ![c] = Idle]
    BY <1>8, <2>1 DEF Write
  <2> QED
    BY <1>2, <2>2, ClientKeepsInv DEF Inv
<1>9. ASSUME NEW c \in Clients, GiveUp(c)
      PROVE  Inv'
  <2>1. document' = document /\ client' = [client EXCEPT ![c] = Idle]
    BY <1>9 DEF GiveUp
  <2> QED
    BY <1>1, <1>2, <2>1, ClientKeepsInv DEF Inv
<1>10. CASE UNCHANGED vars
  BY <1>10 DEF vars, Inv, AppliesItems
<1> QED
  BY <1>3, <1>4, <1>5, <1>6, <1>7, <1>8, <1>9, <1>10 DEF Next

-----------------------------------------------------------------------------
(* Theorems.                                                               *)

(* The inductive invariant: documents and proposals have their schemas, and  *)
(* what a client is about to write is what its items make of what it read    *)
(* (apply_regenerated_items).                                               *)
THEOREM InvHolds == Spec => []Inv
<1>1. Init => Inv
  BY InitHasInv
<1>2. Inv /\ [Next]_vars => Inv'
  BY NextKeepsInv
<1> QED
  BY <1>1, <1>2, PTL DEF Spec

(* Regenerated items change exactly the entries they were generated from,    *)
(* however the document has been edited since (apply_regenerated_items).     *)
THEOREM SourcesAreReplaced == Spec => []RegeneratedReplacesItsSource
<1>1. Inv => RegeneratedReplacesItsSource
  <2> SUFFICES ASSUME Inv, NEW c \in Clients, client[c].step = "write",
                      client[c].items # <<>>, Distinct(client[c].items)
               PROVE  LET items == client[c].items
                          seen == client[c].seen
                          new == client[c].new
                      IN /\ Positions(new) = Positions(seen)
                         /\ \A p \in Positions(seen) : EntryAt(seen, p) # EntryAt(new, p) =>
                              \E n \in DOMAIN items :
                                /\ p \in Sources(seen, items[n])
                                /\ EntryAt(new, p) = [EntryAt(seen, p) EXCEPT !.lines = items[n].new]
                         /\ new.skills # seen.skills => \E n \in DOMAIN items :
                              <<"skills", 0>> \in Sources(seen, items[n]) /\ new.skills = items[n].new
                         /\ \A n \in DOMAIN items : \E p \in Places(seen) : p \in Sources(seen, items[n])
    BY DEF RegeneratedReplacesItsSource, Places
  <2> DEFINE items == client[c].items
             seen == client[c].seen
             new == client[c].new
  <2>1. items \in Proposals /\ seen \in Documents /\ new \in Documents
    BY DEF Inv, ClientStates, Idle
  <2>2. new = Regenerated(seen, items) /\ DOMAIN items = 1..Len(items)
    BY <2>1 DEF Inv, AppliesItems, Proposals
  <2>3. Follows(seen, new, items, Len(items))
    BY <2>1, <2>2, ItemsFollow, DocumentsAreNotRefused
  <2> HIDE DEF items, seen, new
  <2>4. /\ Positions(new) = Positions(seen)
        /\ \A p \in Positions(seen) : EntryAt(seen, p) # EntryAt(new, p) =>
             \E n \in DOMAIN items :
               /\ p \in Sources(seen, items[n])
               /\ EntryAt(new, p) = [EntryAt(seen, p) EXCEPT !.lines = items[n].new]
        /\ new.skills # seen.skills => \E n \in DOMAIN items :
             <<"skills", 0>> \in Sources(seen, items[n]) /\ new.skills = items[n].new
        /\ \A n \in DOMAIN items : \E p \in Places(seen) : p \in Sources(seen, items[n])
    BY <2>2, <2>3 DEF Follows
  <2> QED
    BY <2>4 DEF items, seen, new
<1> QED
  BY <1>1, InvHolds, PTL

(* Items that are each to be found in one place are applied, wherever that   *)
(* is by now (_find_unique_index_by_metadata).                              *)
THEOREM FoundItemsAreTaken == Spec => []FoundItemsAreApplied
<1>1. Inv => FoundItemsAreApplied
  <2> SUFFICES ASSUME Inv, NEW c \in Clients, client[c].step = "regenerated",
                      Distinct(client[c].items), Located(document, client[c].items)
               PROVE  Regenerated(document, client[c].items) # Refused
    BY DEF FoundItemsAreApplied, Located
  <2>1. document \in Documents /\ client[c].items \in Proposals
    BY DEF Inv, ClientStates, Idle
  <2> QED
    BY <2>1, ItemsFollow
<1> QED
  BY <1>1, InvHolds, PTL

=============================================================================
