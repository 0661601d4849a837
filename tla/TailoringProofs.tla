-------------------------- MODULE TailoringProofs --------------------------
(***************************************************************************)
(* Proofs about Tailoring for any vocabulary, any resumes and whatever the  *)
(* model answers in each pass: a diff stays in its bounds and an order      *)
(* loses nothing, the skills of the original come back, a refined document  *)
(* is grounded, and a diff that shows no change hides none.                 *)
(*                                                                         *)
(* Most of it is about lists: what is kept of a list at some positions is   *)
(* found by the rank of a position among them, and ranks run from one to    *)
(* the number of positions.                                                 *)
(***************************************************************************)
EXTENDS Tailoring, FiniteSetTheorems, WellFoundedInduction, TLAPS

(* What a diff must leave alone. *)
Same(d, e) ==
  /\ d.info = e.info /\ d.section = e.section
  /\ Len(d.jobs) = Len(e.jobs)
  /\ \A j \in DOMAIN e.jobs : d.jobs[j].company = e.jobs[j].company /\ d.jobs[j].years = e.jobs[j].years

(* Companies that the master knows, and, if the skills came as a list of    *)
(* texts in a document, skills that the master or the job knows.            *)
Grounded(d, came) ==
  /\ Companies(d) \subseteq Companies(master) \cup {Blank}
  /\ OnlyTexts(came.skills) => \A s \in Skills(d) : Known(s)

(* Lists as the canonical form has them, where no text has a second mark. *)
CanonicalList(l) ==
  /\ l.list
  /\ \A k \in DOMAIN l.items : /\ l.items[k].kind = "text" /\ l.items[k] # Plain(Blank)
                               /\ MaxMarks <= 1 => l.items[k].marks = 0

Canonical(d) ==
  CanonicalList(d.skills) /\ \A j \in DOMAIN d.jobs : CanonicalList(d.jobs[j].bullets)

Diffing == {"plan", "diff", "nets"}
Refining == {"inject", "phrases", "align"}
Shown == {"shown", "accepted", "rejected", "mismatch"}
Done == Shown \cup {"store"}

Types ==
  /\ TypeOK /\ markdown \in Documents
  /\ stage # "parse" => original \in Documents /\ master \in Documents /\ doc \in Documents
  /\ stage \in Refining => unrefined \in Documents
  /\ stage \in Shown => improved \in Documents

Inv ==
  /\ Types
  /\ stage \in Diffing => Same(doc, original)
  /\ OriginalSkillsRestored
  /\ refined => stage \in Done /\ Grounded(doc, IF stage = "store" THEN doc ELSE improved)
  /\ stage # "parse" => Canonical(original)
  /\ stage \in Shown => Canonical(doc)
  /\ stage = "shown" => doc = Normalize(improved)
-----------------------------------------------------------------------------
(* Positions, ranks and lists.                                             *)

(* Every set of natural numbers has a least one. *)
LEMMA LeastNatural ==
  ASSUME NEW T, T \subseteq Nat, T # {}
  PROVE  \E n \in T : \A m \in T : n <= m
<1>1. PICK n \in T : \A m \in T : ~(<<m, n>> \in OpToRel(<, Nat))
  BY WFMin, NatLessThanWellFounded
<1>2. \A m \in T : ~(m < n)
  BY <1>1 DEF OpToRel
<1> QED
  BY <1>2

(* The ranks of some positions run from 1 to their number. *)
LEMMA Ranks ==
  ASSUME NEW n \in Nat, NEW K \in SUBSET (1..n)
  PROVE  /\ IsFiniteSet(K) /\ Cardinality(K) \in Nat /\ Cardinality(K) <= n
         /\ \A k \in K : Rank(K, k) \in 1..Cardinality(K)
         /\ \A k, l \in K : Rank(K, k) = Rank(K, l) => k = l
         /\ \A m \in 1..Cardinality(K) : \E k \in K : Rank(K, k) = m
<1> DEFINE upTo(k) == {i \in K : i <= k}
           N == Cardinality(K)
           rank == [k \in K |-> Rank(K, k)]
<1>0. \A k \in K : k \in Int
  OBVIOUS
<1>1. IsFiniteSet(1..n) /\ Cardinality(1..n) = n
  BY FS_Interval
<1>2. IsFiniteSet(K) /\ N \in Nat /\ N <= n
  BY <1>1, FS_Subset, FS_CardinalityType
<1>3. ASSUME NEW k \in K
      PROVE  IsFiniteSet(upTo(k)) /\ Rank(K, k) \in Nat /\ Rank(K, k) <= N /\ Rank(K, k) >= 1
  <2>1. upTo(k) \subseteq K /\ {k} \subseteq upTo(k)
    OBVIOUS
  <2>2. IsFiniteSet(upTo(k)) /\ Cardinality(upTo(k)) <= N /\ Cardinality(upTo(k)) \in Nat
    BY <1>2, <2>1, FS_Subset, FS_CardinalityType
  <2>3. Cardinality({k}) <= Cardinality(upTo(k)) /\ Cardinality({k}) = 1
    <3> HIDE DEF upTo
    <3> QED
      BY <2>1, <2>2, FS_Subset, FS_Singleton
  <2> QED
    BY <2>2, <2>3 DEF Rank
<1>4. ASSUME NEW k \in K, NEW l \in K, k < l
      PROVE  Rank(K, k) # Rank(K, l)
  <2>0. k \in Int /\ l \in Int /\ l <= l /\ ~(l <= k) /\ \A i \in K : i <= k => i <= l
    BY <1>0, <1>4
  <2>1. upTo(k) \subseteq upTo(l) /\ l \in upTo(l) /\ l \notin upTo(k)
    BY <2>0
  <2>2. IsFiniteSet(upTo(l))
    BY <1>3
  <2>3. Cardinality(upTo(k)) # Cardinality(upTo(l))
    <3> HIDE DEF upTo
    <3> QED
      BY <2>1, <2>2, FS_Subset
  <2> QED
    BY <2>3 DEF Rank
<1>5. \A k, l \in K : Rank(K, k) = Rank(K, l) => k = l
  BY <1>0, <1>4
<1> HIDE DEF upTo
<1>10. \A k \in K : Rank(K, k) \in 1..N
  BY <1>2, <1>3
<1>6. rank \in Injection(K, 1..N)
  BY <1>5, <1>10 DEF Injection, IsInjective
<1>7. IsFiniteSet(1..N) /\ Cardinality(1..N) = N
  BY <1>2, FS_Interval
<1>8. rank \in Surjection(K, 1..N)
  <2> HIDE DEF rank
  <2> QED
    BY <1>6, <1>7, FS_Injection
<1>9. \A m \in 1..N : \E k \in K : Rank(K, k) = m
  BY <1>8 DEF Surjection
<1> QED
  BY <1>2, <1>5, <1>9, <1>10

(* What is kept of a list are its items at the positions, in their order. *)
LEMMA KeptItems ==
  ASSUME NEW T, NEW s \in Seq(T), NEW K \in SUBSET DOMAIN s
  PROVE  /\ Kept(s, K) \in Seq(T) /\ Len(Kept(s, K)) = Cardinality(K)
         /\ DOMAIN Kept(s, K) = 1..Cardinality(K)
         /\ \A k \in K : Kept(s, K)[Rank(K, k)] = s[k]
         /\ \A m \in DOMAIN Kept(s, K) : \E k \in K : Rank(K, k) = m /\ Kept(s, K)[m] = s[k]
<1> DEFINE N == Cardinality(K)
           at(m) == CHOOSE k \in K : Rank(K, k) = m
<1>1. Len(s) \in Nat /\ DOMAIN s = 1..Len(s) /\ \A k \in DOMAIN s : s[k] \in T
  OBVIOUS
<1>2. /\ N \in Nat
      /\ \A k \in K : Rank(K, k) \in 1..N
      /\ \A k, l \in K : Rank(K, k) = Rank(K, l) => k = l
      /\ \A m \in 1..N : \E k \in K : Rank(K, k) = m
  BY <1>1, Ranks
<1>3. \A m \in 1..N : at(m) \in K /\ Rank(K, at(m)) = m
  BY <1>2
<1>4. \A k \in K : at(Rank(K, k)) = k
  BY <1>2, <1>3
<1>5. Kept(s, K) = [m \in 1..N |-> s[at(m)]]
  BY DEF Kept
<1> HIDE DEF at
<1>6. Kept(s, K) \in [1..N -> T]
  BY <1>1, <1>3, <1>5
<1> QED
  BY <1>2, <1>3, <1>4, <1>5, <1>6

(* Where all positions are kept, so is the list. *)
LEMMA KeptAll ==
  ASSUME NEW T, NEW s \in Seq(T)
  PROVE  Kept(s, DOMAIN s) = s
<1> DEFINE n == Len(s)  K == DOMAIN s
<1>1. n \in Nat /\ K = 1..n
  OBVIOUS
<1>2. Cardinality(K) = n
  BY <1>1, FS_Interval
<1>3. ASSUME NEW k \in K
      PROVE  Rank(K, k) = k
  <2>1. {i \in K : i <= k} = 1..k /\ k \in Nat /\ 1 <= k
    BY <1>1
  <2>2. Cardinality(1..k) = k
    BY <2>1, FS_Interval
  <2> QED
    BY <2>1, <2>2 DEF Rank
<1>4. /\ DOMAIN Kept(s, K) = 1..n
      /\ \A k \in K : Kept(s, K)[k] = s[k]
      /\ Kept(s, K) \in Seq(T)
  BY <1>2, <1>3, KeptItems
<1> QED
  BY <1>1, <1>4

(* What is kept, without its order. *)
LEMMA KeptSet ==
  ASSUME NEW T, NEW s \in Seq(T), NEW K \in SUBSET DOMAIN s
  PROVE  ToSet(Kept(s, K)) = {s[k] : k \in K}
<1>1. Len(s) \in Nat /\ DOMAIN s = 1..Len(s)
  OBVIOUS
<1>2. \A k \in K : Rank(K, k) \in 1..Cardinality(K)
  BY <1>1, Ranks
<1>3. /\ DOMAIN Kept(s, K) = 1..Cardinality(K)
      /\ \A k \in K : Kept(s, K)[Rank(K, k)] = s[k]
      /\ \A m \in DOMAIN Kept(s, K) : \E k \in K : Kept(s, K)[m] = s[k]
  BY KeptItems
<1> QED
  BY <1>2, <1>3 DEF ToSet

(* A word is kept as often as it is at the positions. *)
LEMMA TimesKept ==
  ASSUME NEW T, NEW s \in Seq(T), NEW K \in SUBSET DOMAIN s, NEW w
  PROVE  Times(Kept(s, K), w, Len(Kept(s, K))) = Cardinality({k \in K : s[k].word = w})
<1> DEFINE t == Kept(s, K)
           N == Cardinality(K)
           P == {k \in K : s[k].word = w}
           Q == {m \in 1..N : t[m].word = w}
           rank == [k \in P |-> Rank(K, k)]
<1>1. Len(s) \in Nat /\ DOMAIN s = 1..Len(s)
  OBVIOUS
<1>2. /\ IsFiniteSet(K)
      /\ \A k \in K : Rank(K, k) \in 1..N
      /\ \A k, l \in K : Rank(K, k) = Rank(K, l) => k = l
  BY <1>1, Ranks
<1>3. /\ Len(t) = N /\ DOMAIN t = 1..N
      /\ \A k \in K : t[Rank(K, k)] = s[k]
      /\ \A m \in DOMAIN t : \E k \in K : Rank(K, k) = m /\ t[m] = s[k]
  BY KeptItems
<1> HIDE DEF t, N
<1>4. P \subseteq K /\ \A k \in P : Rank(K, k) \in Q
  BY <1>2, <1>3
<1>5. \A m \in Q : \E k \in P : Rank(K, k) = m
  BY <1>3
<1>6. rank \in Bijection(P, Q)
  BY <1>2, <1>4, <1>5 DEF Bijection, Injection, Surjection, IsInjective
<1>7. IsFiniteSet(P)
  BY <1>2, <1>4, FS_Subset
<1>8. Cardinality(Q) = Cardinality(P)
  <2> HIDE DEF P, Q, rank
  <2> QED
    BY <1>6, <1>7, FS_Bijection DEF ExistsBijection
<1> QED
  BY <1>3, <1>8 DEF Times, t

(* A word is in two lists as often as in the one and in the other. *)
LEMMA TimesConcat ==
  ASSUME NEW T, NEW s \in Seq(T), NEW t \in Seq(T), NEW w
  PROVE  Times(s \o t, w, Len(s \o t)) = Times(s, w, Len(s)) + Times(t, w, Len(t))
<1> DEFINE a == Len(s)  b == Len(t)  u == s \o t
           A == {k \in 1..a : s[k].word = w}
           B == {k \in 1..b : t[k].word = w}
           C == {k \in (a + 1)..(a + b) : u[k].word = w}
           U == {k \in 1..Len(u) : u[k].word = w}
           move == [k \in B |-> a + k]
<1>1. a \in Nat /\ b \in Nat /\ Len(u) = a + b
  OBVIOUS
<1>2. /\ \A k \in 1..a : u[k] = s[k]
      /\ \A k \in 1..b : u[a + k] = t[k]
  OBVIOUS
<1> HIDE DEF a, b, u
<1>3. U = A \cup C /\ A \cap C = {}
  BY <1>1, <1>2
<1>4. IsFiniteSet(A) /\ IsFiniteSet(B) /\ A \subseteq 1..a /\ B \subseteq 1..b
  <2>1. IsFiniteSet(1..a) /\ IsFiniteSet(1..b)
    BY <1>1, FS_Interval
  <2>2. A \subseteq 1..a /\ B \subseteq 1..b
    OBVIOUS
  <2> HIDE DEF A, B
  <2> QED
    BY <2>1, <2>2, FS_Subset
<1>5. move \in Bijection(B, C)
  <2>1. \A k \in B : a + k \in C
    BY <1>1, <1>2
  <2>2. \A k, l \in B : a + k = a + l => k = l
    BY <1>1
  <2>3. ASSUME NEW n \in C
        PROVE  \E k \in B : a + k = n
    <3>1. n - a \in 1..b /\ a + (n - a) = n
      BY <1>1
    <3>2. n - a \in B
      BY <1>2, <3>1
    <3> QED
      BY <3>1, <3>2
  <2> HIDE DEF B, C
  <2> QED
    BY <2>1, <2>2, <2>3 DEF Bijection, Injection, Surjection, IsInjective
<1>6. IsFiniteSet(C) /\ Cardinality(C) = Cardinality(B)
  <2> HIDE DEF B, C, move
  <2> QED
    BY <1>4, <1>5, FS_Bijection DEF ExistsBijection
<1>7. Cardinality(U) = Cardinality(A) + Cardinality(C)
  <2> HIDE DEF A, C, U
  <2>1. Cardinality(A \cup C) = Cardinality(A) + Cardinality(C) - Cardinality(A \cap C)
    BY <1>4, <1>6, FS_Union
  <2>2. Cardinality(A) \in Nat /\ Cardinality(C) \in Nat /\ Cardinality(A \cap C) = 0
    BY <1>3, <1>4, <1>6, FS_EmptySet, FS_CardinalityType
  <2> QED
    BY <1>3, <2>1, <2>2
<1> QED
  BY <1>6, <1>7 DEF Times, a, b, u

(* Of some positions, those of the first ranks. *)
LEMMA FirstRanks ==
  ASSUME NEW n \in Nat, NEW K \in SUBSET (1..n), NEW m \in Nat
  PROVE  Cardinality({k \in K : Rank(K, k) <= m})
           = IF m <= Cardinality(K) THEN m ELSE Cardinality(K)
<1> DEFINE N == Cardinality(K)
           c == IF m <= N THEN m ELSE N
           F == {k \in K : Rank(K, k) <= m}
           rank == [k \in F |-> Rank(K, k)]
<1>1. /\ IsFiniteSet(K) /\ N \in Nat
      /\ \A k \in K : Rank(K, k) \in 1..N
      /\ \A k, l \in K : Rank(K, k) = Rank(K, l) => k = l
      /\ \A i \in 1..N : \E k \in K : Rank(K, k) = i
  BY Ranks
<1> HIDE DEF N
<1>2. c \in Nat /\ \A i \in 1..N : i \in 1..c <=> i <= m
  BY <1>1
<1>3. \A i \in 1..c : i \in 1..N
  BY <1>1
<1> HIDE DEF c
<1>4. F \subseteq K /\ \A k \in F : Rank(K, k) \in 1..c
  BY <1>1, <1>2
<1>5. \A i \in 1..c : \E k \in F : Rank(K, k) = i
  BY <1>1, <1>2, <1>3
<1>6. rank \in Bijection(F, 1..c)
  BY <1>1, <1>4, <1>5 DEF Bijection, Injection, Surjection, IsInjective
<1>7. IsFiniteSet(F)
  BY <1>1, <1>4, FS_Subset
<1>8. Cardinality(1..c) = Cardinality(F)
  <2> HIDE DEF F, rank
  <2> QED
    BY <1>6, <1>7, FS_Bijection DEF ExistsBijection
<1>9. Cardinality(1..c) = c
  BY <1>2, FS_Interval
<1> QED
  BY <1>8, <1>9 DEF c, N

(* The rank of a position of a word tells how often the word came before. *)
LEMMA TimesBefore ==
  ASSUME NEW T, NEW s \in Seq(T), NEW w, NEW k \in DOMAIN s, s[k].word = w
  PROVE  /\ Times(s, w, k - 1) = Rank({i \in DOMAIN s : s[i].word = w}, k) - 1
         /\ Rank({i \in DOMAIN s : s[i].word = w}, k) \in Nat \ {0}
<1> DEFINE P == {i \in DOMAIN s : s[i].word = w}
           R == {i \in P : i <= k}
           B == {i \in 1..(k - 1) : s[i].word = w}
<1>1. Len(s) \in Nat /\ DOMAIN s = 1..Len(s) /\ k \in 1..Len(s)
  OBVIOUS
<1>2. B = R \ {k} /\ k \in R /\ R \subseteq 1..k
  BY <1>1
<1>3. IsFiniteSet(R)
  <2> HIDE DEF R
  <2>1. IsFiniteSet(1..k)
    BY <1>1, FS_Interval
  <2> QED
    BY <1>2, <2>1, FS_Subset
<1> HIDE DEF R, B
<1>4. Cardinality(B) = Cardinality(R) - 1
  BY <1>2, <1>3, FS_RemoveElement
<1>5. Cardinality(R) \in Nat /\ Cardinality(R) # 0
  BY <1>2, <1>3, FS_CardinalityType, FS_EmptySet
<1> QED
  BY <1>4, <1>5 DEF Times, Rank, R, B

(* Whatever order is asked for, every word of a list is in it as often as    *)
(* before, unless it is a target that comes in once.                          *)
LEMMA ReorderedKeeps ==
  ASSUME NEW items \in Seq(Text), NEW order \in Seq(Text), NEW skills \in BOOLEAN, NEW w
  PROVE  LET new == Reordered(items, order, skills)
             count == Times(new, w, Len(new))
         IN /\ new \in Seq(Text)
            /\ \/ count = Times(items, w, Len(items))
               \/ w \notin WordsIn(items) /\ skills /\ w \in targets /\ count = 1
<1> DEFINE P == {k \in DOMAIN order : order[k].word = w}
           Q == {k \in DOMAIN items : items[k].word = w}
           p == Cardinality(P)
           q == Cardinality(Q)
           asked(k) == \/ Times(order, order[k].word, k - 1) < Times(items, order[k].word, Len(items))
                       \/ /\ skills /\ order[k].word \in targets
                          /\ Times(items, order[k].word, Len(items)) = 0
                          /\ Times(order, order[k].word, k - 1) = 0
           left(k) == Times(items, items[k].word, k - 1) >= Times(order, items[k].word, Len(order))
           A == {k \in DOMAIN order : asked(k)}
           L == {k \in DOMAIN items : left(k)}
           a == Kept(order, A)
           l == Kept(items, L)
           PA == {k \in A : order[k].word = w}
           QL == {k \in L : items[k].word = w}
<1>1. /\ Len(order) \in Nat /\ DOMAIN order = 1..Len(order)
      /\ Len(items) \in Nat /\ DOMAIN items = 1..Len(items)
  OBVIOUS
<1>2. /\ IsFiniteSet(P) /\ p \in Nat /\ IsFiniteSet(Q) /\ q \in Nat
      /\ P \in SUBSET (1..Len(order)) /\ Q \in SUBSET (1..Len(items))
  <2>1. P \in SUBSET (1..Len(order)) /\ Q \in SUBSET (1..Len(items))
    BY <1>1
  <2> HIDE DEF P, Q
  <2> QED
    BY <1>1, <2>1, Ranks
<1>3. p = Times(order, w, Len(order)) /\ q = Times(items, w, Len(items))
  BY <1>1 DEF Times
<1>4. \A k \in P : Times(order, w, k - 1) = Rank(P, k) - 1 /\ Rank(P, k) \in Nat \ {0}
  BY TimesBefore
<1>5. \A k \in Q : Times(items, w, k - 1) = Rank(Q, k) - 1 /\ Rank(Q, k) \in Nat \ {0}
  BY TimesBefore
<1>6. PA = {k \in P : \/ Times(order, w, k - 1) < q
                      \/ skills /\ w \in targets /\ q = 0 /\ Times(order, w, k - 1) = 0}
  BY <1>3
<1>7. QL = {k \in Q : Times(items, w, k - 1) >= p}
  BY <1>3
<1>8. /\ a \in Seq(Text) /\ Times(a, w, Len(a)) = Cardinality(PA)
      /\ l \in Seq(Text) /\ Times(l, w, Len(l)) = Cardinality(QL)
  <2>1. A \in SUBSET DOMAIN order /\ L \in SUBSET DOMAIN items
    OBVIOUS
  <2> HIDE DEF A, L
  <2>2. a \in Seq(Text) /\ l \in Seq(Text)
    BY <2>1, KeptItems
  <2>3. Times(a, w, Len(a)) = Cardinality({k \in A : order[k].word = w})
    BY <2>1, TimesKept
  <2>4. Times(l, w, Len(l)) = Cardinality({k \in L : items[k].word = w})
    BY <2>1, TimesKept
  <2> QED
    BY <2>2, <2>3, <2>4
<1>9. Reordered(items, order, skills) = a \o l
  BY DEF Reordered
<1> HIDE DEF a, l, PA, QL, A, L, p, q
<1>10. Times(a \o l, w, Len(a \o l)) = Cardinality(PA) + Cardinality(QL)
  BY <1>8, TimesConcat
<1>11. Cardinality(QL) = q - (IF p <= q THEN p ELSE q)
  <2> DEFINE F == {k \in Q : Rank(Q, k) <= p}
  <2>1. QL = Q \ F /\ F \subseteq Q
    BY <1>2, <1>5, <1>7
  <2>2. Cardinality(F) = IF p <= q THEN p ELSE q
    BY <1>1, <1>2, FirstRanks DEF q
  <2> HIDE DEF F, Q
  <2>3. Q \cap F = F
    BY <2>1
  <2>4. Cardinality(Q \ F) = q - Cardinality(Q \cap F)
    BY <1>2, FS_Difference DEF q
  <2> QED
    BY <2>1, <2>2, <2>3, <2>4
<1>12. CASE q > 0
  <2>1. PA = {k \in P : Rank(P, k) <= q}
    BY <1>2, <1>4, <1>6, <1>12
  <2>2. Cardinality(PA) = IF q <= p THEN q ELSE p
    BY <1>1, <1>2, <2>1, FirstRanks DEF p
  <2>3. Cardinality(PA) + Cardinality(QL) = q
    BY <1>2, <1>11, <2>2
  <2> QED
    BY <1>3, <1>8, <1>9, <1>10, <2>3
<1>13. CASE q = 0
  <2>1. Cardinality(QL) = 0
    BY <1>2, <1>11, <1>13
  <2>2. w \notin WordsIn(items)
    <3>1. Q = {}
      BY <1>2, <1>13, FS_EmptySet DEF q
    <3> QED
      BY <3>1 DEF WordsIn, ToSet
  <2>3. CASE skills /\ w \in targets
    <3>1. PA = {k \in P : Rank(P, k) <= 1}
      BY <1>2, <1>4, <1>6, <1>13, <2>3
    <3>2. Cardinality(PA) = IF 1 <= p THEN 1 ELSE p
      BY <1>1, <1>2, <3>1, FirstRanks DEF p
    <3>3. Cardinality(PA) \in {0, 1}
      BY <1>2, <3>2
    <3> QED
      BY <1>3, <1>8, <1>9, <1>10, <1>13, <2>1, <2>2, <2>3, <3>3
  <2>4. CASE ~(skills /\ w \in targets)
    <3> HIDE DEF P
    <3>1. \A k \in P : ~(Times(order, w, k - 1) < q)
      BY <1>4, <1>13
    <3>3. PA = {}
      BY <1>6, <2>4, <3>1
    <3>2. Cardinality(PA) = 0
      BY <3>3, FS_EmptySet
    <3> QED
      BY <1>3, <1>8, <1>9, <1>10, <1>13, <2>1, <3>2
  <2> QED
    BY <2>3, <2>4
<1> QED
  BY <1>2, <1>12, <1>13

-----------------------------------------------------------------------------
(* Documents.                                                              *)

(* A list that is made item by item is one of the same length. *)
LEMMA ItemByItem ==
  ASSUME NEW S, NEW T, NEW s \in Seq(S), NEW f \in [DOMAIN s -> T]
  PROVE  f \in Seq(T) /\ Len(f) = Len(s) /\ DOMAIN f = DOMAIN s
OBVIOUS

(* The fields of a document. *)
LEMMA DocumentFields ==
  ASSUME NEW d \in Documents
  PROVE  /\ d = [info |-> d.info, summary |-> d.summary, jobs |-> d.jobs, skills |-> d.skills,
                 section |-> d.section]
         /\ d.info \in Words /\ d.summary \in Words /\ d.jobs \in Seq(Jobs)
         /\ d.skills \in Lists /\ d.section \in Lists
BY DEF Documents

(* The items of a list of texts. *)
LEMMA ListItems ==
  ASSUME NEW l \in Lists
  PROVE  /\ l = [list |-> l.list, items |-> l.items] /\ l.items \in Seq(Text)
         /\ DOMAIN l.items = 1..Len(l.items) /\ Len(l.items) \in Nat
         /\ \A k \in DOMAIN l.items : l.items[k] \in Text
<1>1. l = [list |-> l.list, items |-> l.items] /\ l.items \in Seq(Text)
  BY DEF Lists
<1> QED
  BY <1>1

(* What is written in a list is what is not empty. *)
LEMMA WrittenItems ==
  ASSUME NEW s \in Seq(Text)
  PROVE  /\ Written(s) \in Seq(Text)
         /\ ToSet(Written(s)) = {t \in ToSet(s) : t # Plain(Blank)}
<1> DEFINE K == {k \in DOMAIN s : s[k] # Plain(Blank)}
<1>1. Written(s) \in Seq(Text) /\ ToSet(Written(s)) = {s[k] : k \in K}
  <2>1. K \in SUBSET DOMAIN s /\ Written(s) = Kept(s, K)
    BY DEF Written
  <2> HIDE DEF K
  <2> QED
    BY <2>1, KeptItems, KeptSet
<1> QED
  BY <1>1 DEF ToSet

(* Where nothing is empty, all of it is written. *)
LEMMA WrittenAll ==
  ASSUME NEW s \in Seq(Text), \A k \in DOMAIN s : s[k] # Plain(Blank)
  PROVE  Written(s) = s
<1>1. {k \in DOMAIN s : s[k] # Plain(Blank)} = DOMAIN s
  OBVIOUS
<1> QED
  BY <1>1, KeptAll DEF Written

(* A stripped text has its word, and one bullet mark less. *)
LEMMA StrippedText ==
  ASSUME NEW t \in Text
  PROVE  /\ Stripped(t) \in Text /\ Stripped(t).word = t.word /\ Stripped(t).kind = "text"
         /\ MaxMarks <= 1 => Stripped(t).marks = 0
         /\ t.kind = "text" /\ t.marks = 0 => Stripped(t) = t
<1>1. /\ t.marks \in 0..MaxMarks /\ t.word \in Words /\ MaxMarks \in Nat
      /\ t = [marks |-> t.marks, word |-> t.word, kind |-> t.kind]
  BY Vocabulary DEF Text
<1> DEFINE m == IF t.marks > 0 THEN t.marks - 1 ELSE 0
<1>2. m \in 0..MaxMarks /\ (MaxMarks <= 1 => m = 0) /\ (t.marks = 0 => m = 0)
  BY <1>1
<1> HIDE DEF m
<1>3. Stripped(t) = [marks |-> m, word |-> t.word, kind |-> "text"]
  BY DEF Stripped, m
<1> QED
  BY <1>1, <1>2, <1>3 DEF Text

(* A canonical list has no blank items, and one bullet mark less on each. *)
LEMMA CoercedItems ==
  ASSUME NEW l \in Lists
  PROVE  LET c == CoercedList(l)
         IN c \in Lists /\ CanonicalList(c) /\ WordsIn(c.items) \subseteq WordsIn(l.items)
<1> DEFINE s == [k \in DOMAIN l.items |-> Stripped(l.items[k])]
           w == Written(s)
<1>1. l.items \in Seq(Text) /\ \A k \in DOMAIN l.items : l.items[k] \in Text
  BY ListItems
<1>2. s \in [DOMAIN l.items -> Text]
  BY <1>1, StrippedText
<1>3. s \in Seq(Text) /\ DOMAIN s = DOMAIN l.items
  <2> HIDE DEF s
  <2> QED
    BY <1>1, <1>2, ItemByItem
<1>4. \A k \in DOMAIN s : s[k] = Stripped(l.items[k])
  BY <1>3
<1> HIDE DEF s
<1>5. w \in Seq(Text) /\ ToSet(w) = {t \in ToSet(s) : t # Plain(Blank)}
  BY <1>3, WrittenItems
<1>6. CoercedList(l) = [list |-> TRUE, items |-> w]
  BY DEF CoercedList, Items, s
<1> HIDE DEF w
<1>7. \A m \in DOMAIN w : \E k \in DOMAIN l.items : w[m] = Stripped(l.items[k]) /\ w[m] # Plain(Blank)
  BY <1>3, <1>4, <1>5 DEF ToSet
<1>8. WordsIn(w) \subseteq WordsIn(l.items)
  BY <1>1, <1>7, StrippedText DEF WordsIn, ToSet
<1>9. \A m \in DOMAIN w : /\ w[m].kind = "text" /\ w[m] # Plain(Blank)
                          /\ MaxMarks <= 1 => w[m].marks = 0
  BY <1>1, <1>7, StrippedText
<1> QED
  BY <1>5, <1>6, <1>8, <1>9 DEF Lists, CanonicalList

(* What the list of changes sees of a list of texts is what is written there. *)
LEMMA ListedTexts ==
  ASSUME NEW l \in Lists, OnlyTexts(l)
  PROVE  Listed(l) = Written(l.items)
<1> DEFINE text(t) == IF t.kind = "other" THEN Plain(Blank) ELSE [t EXCEPT !.kind = "text"]
           s == [k \in DOMAIN l.items |-> text(l.items[k])]
<1>1. l.items \in Seq(Text) /\ \A k \in DOMAIN l.items : l.items[k] \in Text /\ l.items[k].kind = "text"
  BY ListItems DEF OnlyTexts
<1>2. \A t \in Text : t.kind = "text" => text(t) = t
  BY DEF Text
<1>3. s = l.items
  BY <1>1, <1>2
<1>4. Listed(l) = Written(s)
  BY DEF Listed, OnlyTexts
<1> QED
  BY <1>3, <1>4

(* Of a canonical list it sees every item. *)
LEMMA ListedCanonical ==
  ASSUME NEW l \in Lists, CanonicalList(l)
  PROVE  Listed(l) = l.items /\ OnlyTexts(l)
<1>1. OnlyTexts(l) /\ \A k \in DOMAIN l.items : l.items[k] # Plain(Blank)
  BY DEF CanonicalList, OnlyTexts
<1> QED
  BY <1>1, ListItems, ListedTexts, WrittenAll

(* Texts that the list of changes sees without bullet marks are what their    *)
(* canonical form shows.                                                    *)
LEMMA CoercedAsListed ==
  ASSUME NEW l \in Lists, OnlyTexts(l), \A t \in ToSet(Listed(l)) : t.marks = 0
  PROVE  CoercedList(l) = [list |-> TRUE, items |-> Listed(l)]
<1>1. l.items \in Seq(Text) /\ \A k \in DOMAIN l.items : l.items[k] \in Text /\ l.items[k].kind = "text"
  BY ListItems DEF OnlyTexts
<1>2. Listed(l) = Written(l.items)
  BY ListedTexts
<1>3. \A k \in DOMAIN l.items : l.items[k] # Plain(Blank) => l.items[k] \in ToSet(Listed(l))
  <2>1. \A k \in DOMAIN l.items : l.items[k] \in ToSet(l.items)
    BY DEF ToSet
  <2> QED
    BY <1>1, <1>2, <2>1, WrittenItems
<1>4. \A k \in DOMAIN l.items : l.items[k].marks = 0
  BY <1>3 DEF Plain
<1>5. [k \in DOMAIN l.items |-> Stripped(l.items[k])] = l.items
  BY <1>1, <1>4, StrippedText
<1> QED
  BY <1>2, <1>5 DEF CoercedList, Items

(* The fields of an entry. *)
LEMMA JobFields ==
  ASSUME NEW d \in Documents, NEW j \in DOMAIN d.jobs
  PROVE  /\ d.jobs[j] \in Jobs /\ j \in Nat
         /\ d.jobs[j].company \in Words /\ d.jobs[j].years \in Years /\ d.jobs[j].bullets \in Lists
<1>1. d.jobs \in Seq(Jobs)
  BY DEF Documents
<1>2. d.jobs[j] \in Jobs /\ j \in Nat
  BY <1>1
<1> QED
  BY <1>2 DEF Jobs

(* The canonical form of a document changes only its lists. *)
LEMMA NormalizeDocument ==
  ASSUME NEW d \in Documents
  PROVE  LET n == Normalize(d)
         IN /\ n \in Documents /\ n.info = d.info /\ n.summary = d.summary
            /\ Len(n.jobs) = Len(d.jobs) /\ DOMAIN n.jobs = DOMAIN d.jobs
            /\ n.skills = CoercedList(d.skills) /\ n.section = CoercedList(d.section)
            /\ \A j \in DOMAIN d.jobs :
                 /\ n.jobs[j].company = d.jobs[j].company /\ n.jobs[j].years = d.jobs[j].years
                 /\ n.jobs[j].bullets = CoercedList(d.jobs[j].bullets)
<1> DEFINE J == [j \in DOMAIN d.jobs |-> [d.jobs[j] EXCEPT !.bullets = CoercedList(@)]]
<1>1. d.jobs \in Seq(Jobs) /\ d.skills \in Lists /\ d.section \in Lists
  BY DEF Documents
<1>2. \A l \in Lists : CoercedList(l) \in Lists
  BY CoercedItems
<1>3. \A j \in DOMAIN d.jobs : d.jobs[j] \in Jobs /\ d.jobs[j].bullets \in Lists
  BY JobFields
<1>4. \A j \in DOMAIN d.jobs :
        /\ J[j] \in Jobs /\ J[j].company = d.jobs[j].company /\ J[j].years = d.jobs[j].years
        /\ J[j].bullets = CoercedList(d.jobs[j].bullets)
  BY <1>2, <1>3 DEF Jobs
<1>5. J \in [DOMAIN d.jobs -> Jobs]
  BY <1>4
<1>6. J \in Seq(Jobs) /\ Len(J) = Len(d.jobs) /\ DOMAIN J = DOMAIN d.jobs
  <2> HIDE DEF J
  <2> QED
    BY <1>1, <1>5, ItemByItem
<1>7. Normalize(d) = [info |-> d.info, summary |-> d.summary, jobs |-> J,
                      skills |-> CoercedList(d.skills), section |-> CoercedList(d.section)]
  <2>1. Normalize(d) = [[d EXCEPT !.jobs = J] EXCEPT !.skills = CoercedList(@),
                                                    !.section = CoercedList(@)]
    BY Zenon DEF Normalize, OnJobs
  <2> HIDE DEF J
  <2> QED
    BY <2>1 DEF Documents
<1> HIDE DEF J
<1>8. d.info \in Words /\ d.summary \in Words
  BY DEF Documents
<1> QED
  BY <1>1, <1>2, <1>4, <1>6, <1>7, <1>8 DEF Documents

(* Dates that come back from the Markdown change only the dates. *)
LEMMA RestoreDocument ==
  ASSUME NEW d \in Documents, NEW md \in Documents
  PROVE  LET r == RestoreFromMarkdown(d, md)
         IN r \in Documents /\ r.info = d.info /\ r.skills = d.skills /\ r.section = d.section
<1> DEFINE hits(x) == {k \in DOMAIN md.jobs : YearKey(md.jobs[k].years) = YearsShown(x)}
           first(x) == CHOOSE k \in hits(x) : \A n \in hits(x) : k <= n
           date(x) == IF x.months \/ hits(x) = {} THEN x ELSE md.jobs[first(x)].years
           J == [j \in DOMAIN d.jobs |-> [d.jobs[j] EXCEPT !.years = date(@)]]
<1>1. d.jobs \in Seq(Jobs) /\ md.jobs \in Seq(Jobs)
  BY DEF Documents
<1>2. \A j \in DOMAIN md.jobs : j \in Nat /\ md.jobs[j].years \in Years
  BY JobFields
<1>3. ASSUME NEW x \in Years
      PROVE  date(x) \in Years
  <2>1. CASE x.months \/ hits(x) = {}
    BY <2>1
  <2>2. CASE ~x.months /\ hits(x) # {}
    <3>1. hits(x) \subseteq Nat /\ hits(x) \subseteq DOMAIN md.jobs
      BY <1>2
    <3> DEFINE H == hits(x)
    <3>2. \E k \in H : \A n \in H : k <= n
      <4> HIDE DEF H
      <4>1. H \subseteq Nat /\ H # {}
        BY <2>2, <3>1 DEF H
      <4> QED
        BY <4>1, LeastNatural
    <3>3. first(x) \in DOMAIN md.jobs
      BY <3>2
    <3> QED
      BY <1>2, <2>2, <3>3
  <2> QED
    BY <2>1, <2>2
<1>4. \A j \in DOMAIN d.jobs : d.jobs[j] \in Jobs /\ d.jobs[j].years \in Years
  BY JobFields
<1>5. RestoreFromMarkdown(d, md) = [d EXCEPT !.jobs = J]
  BY DEF RestoreFromMarkdown, OnJobs
<1> HIDE DEF date
<1>6. \A j \in DOMAIN d.jobs : J[j] \in Jobs
  BY <1>3, <1>4 DEF Jobs
<1>7. J \in [DOMAIN d.jobs -> Jobs]
  BY <1>6
<1> HIDE DEF J
<1>8. J \in Seq(Jobs)
  BY <1>1, <1>7, ItemByItem
<1> QED
  BY <1>5, <1>8 DEF Documents

(* A model that drops months leaves a document. *)
LEMMA DropMonths ==
  ASSUME NEW d \in Documents, NEW S
  PROVE  MonthsDropped(d, S) \in Documents
<1> DEFINE J == [j \in DOMAIN d.jobs |->
                   IF j \in S THEN [d.jobs[j] EXCEPT !.years.months = FALSE] ELSE d.jobs[j]]
<1>1. d.jobs \in Seq(Jobs)
  BY DEF Documents
<1>2. \A j \in DOMAIN d.jobs : d.jobs[j] \in Jobs
  BY <1>1
<1>3. \A job \in Jobs : [job EXCEPT !.years.months = FALSE] \in Jobs
  BY DEF Jobs, Years
<1>4. J \in [DOMAIN d.jobs -> Jobs]
  BY <1>2, <1>3
<1>5. MonthsDropped(d, S) = [d EXCEPT !.jobs = J]
  BY DEF MonthsDropped
<1> HIDE DEF J
<1>6. J \in Seq(Jobs)
  BY <1>1, <1>4, ItemByItem
<1> QED
  BY <1>5, <1>6 DEF Documents

(* The texts of a document are words. *)
LEMMA TextsAreWords ==
  ASSUME NEW d \in Documents
  PROVE  Skills(d) \subseteq Words /\ Companies(d) \subseteq Words /\ TextOf(d) \subseteq Words
<1>1. \A s \in Seq(Text) : WordsIn(s) \subseteq Words
  <2>1. \A s \in Seq(Text) : \A k \in DOMAIN s : s[k] \in Text
    OBVIOUS
  <2>2. \A t \in Text : t.word \in Words
    BY DEF Text
  <2> QED
    BY <2>1, <2>2 DEF WordsIn, ToSet
<1>2. /\ d.summary \in Words /\ d.skills.items \in Seq(Text) /\ d.section.items \in Seq(Text)
      /\ \A j \in DOMAIN d.jobs : d.jobs[j].company \in Words /\ d.jobs[j].bullets.items \in Seq(Text)
  <2>1. \A l \in Lists : l.items \in Seq(Text)
    BY DEF Lists
  <2> QED
    BY <2>1, DocumentFields, JobFields
<1>3. Skills(d) \subseteq Words /\ Companies(d) \subseteq Words
  BY <1>1, <1>2 DEF Skills, Companies
<1> QED
  BY <1>1, <1>2, <1>3 DEF TextOf

-----------------------------------------------------------------------------
(* Parsing and planning.                                                   *)

(* The canonical form is canonical. *)
LEMMA NormalizeCanonical ==
  ASSUME NEW d \in Documents
  PROVE  Canonical(Normalize(d))
<1>1. /\ DOMAIN Normalize(d).jobs = DOMAIN d.jobs
      /\ Normalize(d).skills = CoercedList(d.skills)
      /\ \A j \in DOMAIN d.jobs : Normalize(d).jobs[j].bullets = CoercedList(d.jobs[j].bullets)
  BY NormalizeDocument
<1>2. d.skills \in Lists /\ \A j \in DOMAIN d.jobs : d.jobs[j].bullets \in Lists
  BY DocumentFields, JobFields
<1>3. ASSUME NEW l \in Lists
      PROVE  CanonicalList(CoercedList(l))
  BY CoercedItems
<1> QED
  BY <1>1, <1>2, <1>3 DEF Canonical

(* Only words that were there before are there in canonical form. *)
LEMMA NormalizeGrounded ==
  ASSUME NEW d \in Documents, NEW came, Grounded(d, came)
  PROVE  Grounded(Normalize(d), came)
<1>1. Skills(Normalize(d)) \subseteq Skills(d)
  <2>1. d.skills \in Lists /\ Normalize(d).skills = CoercedList(d.skills)
    BY NormalizeDocument, DocumentFields
  <2> QED
    BY <2>1, CoercedItems DEF Skills
<1>2. Companies(Normalize(d)) = Companies(d)
  BY NormalizeDocument DEF Companies
<1> QED
  BY <1>1, <1>2 DEF Grounded

(* The parsed resume is a canonical document. *)
LEMMA ParseKeepsInv ==
  ASSUME Inv, Parse
  PROVE  Inv'
<1>1. markdown \in Documents /\ TypeOK
  BY DEF Inv, Types
<1>2. PICK S \in SUBSET DOMAIN markdown.jobs :
        original' = Normalize(RestoreFromMarkdown(MonthsDropped(markdown, S), markdown))
  BY DEF Parse
<1> DEFINE d == RestoreFromMarkdown(MonthsDropped(markdown, S), markdown)
<1>3. d \in Documents
  BY <1>1, DropMonths, RestoreDocument
<1> HIDE DEF d
<1>4. original' = Normalize(d)
  BY <1>2 DEF d
<1>5. original' \in Documents /\ Canonical(original')
  BY <1>3, <1>4, NormalizeDocument, NormalizeCanonical
<1>6. master' \in Documents
  BY <1>5, Inputs DEF Parse
<1>7. /\ stage' = "plan" /\ doc' = original' /\ ~refined'
      /\ UNCHANGED <<markdown, targets, unrefined, applied, invented, refined, improved, hash>>
  BY DEF Parse, Inv, Done, Shown
<1>8. TypeOK'
  BY <1>1, <1>5, <1>6, <1>7 DEF TypeOK, Stages
<1>9. Types'
  BY <1>1, <1>5, <1>6, <1>7, <1>8 DEF Types, Refining, Shown
<1> QED
  BY <1>5, <1>7, <1>9 DEF Inv, Same, OriginalSkillsRestored, Canonical

(* The targets of a plan are words, whatever the model proposes. *)
LEMMA PlanKeepsInv ==
  ASSUME Inv, Plan
  PROVE  Inv'
<1>1. original \in Documents /\ TypeOK /\ Types
  BY DEF Inv, Types, Plan
<1>2. ASSUME NEW proposal
      PROVE  Accepted(original, proposal) \subseteq Words
  BY <1>1, TextsAreWords, DocumentFields, Vocabulary DEF Accepted
<1>3. targets' \subseteq Words
  BY <1>2 DEF Plan
<1>4. /\ stage = "plan" /\ stage' = "diff"
      /\ UNCHANGED <<markdown, original, master, doc, unrefined, applied, invented, refined, improved, hash>>
  BY DEF Plan
<1>5. TypeOK'
  BY <1>1, <1>3, <1>4 DEF TypeOK, Stages
<1>6. Types'
  BY <1>1, <1>4, <1>5 DEF Types, Refining, Shown
<1> QED
  BY <1>4, <1>6 DEF Inv, Diffing, Done, Same, OriginalSkillsRestored, Canonical, Shown

-----------------------------------------------------------------------------
(* The diff.                                                               *)

(* Where the paths lead. *)
LEMMA PathFields ==
  ASSUME doc \in Documents, NEW p \in Paths, Editable(p)
  PROVE  /\ p.field \in {"summary", "skills", "description", "bullet"}
         /\ p.field = "description" => p.job \in DOMAIN doc.jobs
         /\ p.field = "bullet" => /\ p.job \in DOMAIN doc.jobs
                                  /\ p.bullet \in DOMAIN doc.jobs[p.job].bullets.items
BY DEF Paths, Editable

(* A document with other bullets in one entry. *)
LEMMA OtherBullets ==
  ASSUME doc \in Documents, NEW j \in DOMAIN doc.jobs, NEW l \in Lists
  PROVE  LET d == [doc EXCEPT !.jobs[j].bullets = l]
         IN d \in Documents /\ Same(d, doc)
<1> DEFINE J == [doc.jobs EXCEPT ![j].bullets = l]
<1>1. doc.jobs \in Seq(Jobs) /\ doc.jobs[j] \in Jobs
  BY DocumentFields, JobFields
<1>2. [doc.jobs[j] EXCEPT !.bullets = l] \in Jobs
  BY <1>1 DEF Jobs
<1>3. J \in [DOMAIN doc.jobs -> Jobs]
  BY <1>1, <1>2
<1>4. \A k \in DOMAIN doc.jobs : J[k].company = doc.jobs[k].company /\ J[k].years = doc.jobs[k].years
  <2> SUFFICES ASSUME NEW k \in DOMAIN doc.jobs
               PROVE  J[k].company = doc.jobs[k].company /\ J[k].years = doc.jobs[k].years
    OBVIOUS
  <2>1. CASE k = j
    BY <1>1, <2>1 DEF Jobs
  <2>2. CASE k # j
    BY <1>1, <2>2
  <2> QED
    BY <2>1, <2>2
<1>5. [doc EXCEPT !.jobs[j].bullets = l] = [doc EXCEPT !.jobs = J]
  BY DEF Documents
<1> HIDE DEF J
<1>6. J \in Seq(Jobs) /\ Len(J) = Len(doc.jobs)
  BY <1>1, <1>3, ItemByItem
<1> QED
  BY <1>4, <1>5, <1>6 DEF Same, Documents

(* A single text in the place of a text or a whole list. *)
LEMMA WriteDocument ==
  ASSUME doc \in Documents, NEW p \in Paths, Editable(p), NEW v \in Text
  PROVE  Write(p, v) \in Documents /\ Same(Write(p, v), doc)
<1>1. v.word \in Words /\ Block(v) \in Lists
  BY DEF Text, Block, Lists
<1>2. CASE p.field = "summary"
  <2>1. Write(p, v) = [doc EXCEPT !.summary = v.word]
    BY <1>2 DEF Write
  <2> QED
    BY <1>1, <2>1 DEF Documents, Same
<1>3. CASE p.field = "skills"
  <2>1. Write(p, v) = [doc EXCEPT !.skills = Block(v)]
    BY <1>3 DEF Write
  <2> QED
    BY <1>1, <2>1 DEF Documents, Same
<1>4. CASE p.field = "description"
  <2>1. Write(p, v) = [doc EXCEPT !.jobs[p.job].bullets = Block(v)]
    BY <1>4 DEF Write
  <2> QED
    BY <1>1, <1>4, <2>1, PathFields, OtherBullets
<1>5. CASE p.field = "bullet"
  <2> DEFINE b == doc.jobs[p.job].bullets
             l == [b EXCEPT !.items[p.bullet] = v]
  <2>1. Write(p, v) = [doc EXCEPT !.jobs[p.job].bullets.items[p.bullet] = v]
    BY <1>5 DEF Write
  <2>2. p.job \in DOMAIN doc.jobs /\ p.bullet \in DOMAIN b.items
    BY <1>5, PathFields
  <2>3. b \in Lists /\ b.items \in Seq(Text)
    <3>1. b \in Lists
      BY <2>2, JobFields
    <3> QED
      BY <3>1 DEF Lists
  <2>4. [b.items EXCEPT ![p.bullet] = v] \in Seq(Text)
    BY <2>2, <2>3
  <2>5. l \in Lists
    BY <2>3, <2>4 DEF Lists
  <2>6. Write(p, v) = [doc EXCEPT !.jobs[p.job].bullets = l]
    BY <2>1
  <2> HIDE DEF l
  <2> QED
    BY <2>2, <2>5, <2>6, OtherBullets
<1> QED
  BY <1>2, <1>3, <1>4, <1>5, PathFields

(* A list in the place of a list. *)
LEMMA WriteListDocument ==
  ASSUME doc \in Documents, NEW p \in Paths, Editable(p), ListAt(p).list, NEW s \in Seq(Text)
  PROVE  WriteList(p, s) \in Documents /\ Same(WriteList(p, s), doc)
<1>1. p.field \in {"summary", "skills", "description", "bullet"}
  BY PathFields
<1>2. CASE p.field = "skills"
  <2>1. WriteList(p, s) = [doc EXCEPT !.skills.items = s]
    BY <1>2 DEF WriteList
  <2>2. doc.skills \in Lists
    BY DocumentFields
  <2>3. [doc.skills EXCEPT !.items = s] \in Lists
    BY <2>2 DEF Lists
  <2> QED
    BY <2>1, <2>3 DEF Documents, Same
<1>3. CASE p.field = "description"
  <2> DEFINE l == [doc.jobs[p.job].bullets EXCEPT !.items = s]
  <2>1. WriteList(p, s) = [doc EXCEPT !.jobs[p.job].bullets.items = s]
    BY <1>3 DEF WriteList
  <2>2. p.job \in DOMAIN doc.jobs /\ doc.jobs[p.job].bullets \in Lists
    BY <1>3, PathFields, JobFields
  <2>3. l \in Lists
    BY <2>2 DEF Lists
  <2>4. WriteList(p, s) = [doc EXCEPT !.jobs[p.job].bullets = l]
    BY <2>1
  <2> HIDE DEF l
  <2> QED
    BY <2>2, <2>3, <2>4, OtherBullets
<1>4. ~ Block(Plain(Blank)).list
  BY DEF Block
<1> QED
  BY <1>1, <1>2, <1>3, <1>4 DEF ListAt

(* The lists at paths are lists of texts. *)
LEMMA ListsAtPaths ==
  ASSUME doc \in Documents, NEW p \in Paths, Editable(p), ListAt(p).list
  PROVE  ListAt(p).items \in Seq(Text)
<1>1. CASE p.field = "skills"
  BY <1>1, DocumentFields DEF ListAt, Lists
<1>2. CASE p.field = "description"
  <2>1. doc.jobs[p.job].bullets \in Lists /\ ListAt(p) = doc.jobs[p.job].bullets
    BY <1>2, PathFields, JobFields DEF ListAt
  <2> QED
    BY <2>1 DEF Lists
<1>3. ~ Block(Plain(Blank)).list
  BY DEF Block
<1> QED
  BY <1>1, <1>2, <1>3 DEF ListAt

(* A change that leaves alone what it must keeps the invariant. *)
LEMMA ApplyingKeepsInv ==
  ASSUME Inv, Changing, NEW d \in Documents, Same(d, doc), Applying(d)
  PROVE  Inv'
<1>1. /\ stage = "diff" /\ applied < MaxChanges /\ TypeOK
      /\ doc \in Documents /\ original \in Documents /\ Same(doc, original)
  BY DEF Inv, Types, Changing, Diffing
<1>2. /\ doc' = d /\ applied' = applied + 1
      /\ UNCHANGED <<stage, markdown, original, master, targets, unrefined, refined, improved, hash>>
  BY DEF Applying
<1>3. DOMAIN doc.jobs = DOMAIN original.jobs
  BY <1>1, DocumentFields DEF Same
<1>4. Same(d, original)
  BY <1>1, <1>3 DEF Same
<1>5. applied' \in 0..MaxChanges
  BY <1>1, <1>2, Vocabulary DEF TypeOK
<1>6. TypeOK'
  BY <1>1, <1>2, <1>5 DEF TypeOK
<1>7. Types'
  BY <1>1, <1>2, <1>6 DEF Inv, Types, Refining
<1>8. Same(doc, original)'
  BY <1>2, <1>4 DEF Same
<1>9. ~refined /\ ~refined'
  BY <1>1, <1>2 DEF Inv, Done, Shown
<1> QED
  BY <1>1, <1>2, <1>7, <1>8, <1>9 DEF Inv, OriginalSkillsRestored, Canonical, Shown

(* No change that the model may ask for leaves its bounds. *)
LEMMA ChangesKeepInv ==
  ASSUME Inv, Replace \/ AppendText \/ AddSkill \/ Reorder
  PROVE  Inv'
<1>1. Changing
  BY DEF Replace, AppendText, AddSkill, Reorder
<1>2. doc \in Documents
  BY <1>1 DEF Changing, Inv, Types
<1>3. ASSUME Replace
      PROVE  Inv'
  <2>1. PICK p \in {q \in Paths : Editable(q)}, v \in Values : Applying(Write(p, v))
    BY <1>3 DEF Replace
  <2>2. v \in Text /\ p \in Paths /\ Editable(p)
    BY Inputs
  <2>3. Write(p, v) \in Documents /\ Same(Write(p, v), doc)
    BY <1>2, <2>2, WriteDocument
  <2> QED
    BY <1>1, <2>1, <2>3, ApplyingKeepsInv
<1>4. ASSUME AppendText
      PROVE  Inv'
  <2>1. PICK p \in {q \in Paths : Editable(q)}, v \in Values :
               ListAt(p).list /\ Applying(WriteList(p, Append(ListAt(p).items, v)))
    BY <1>4 DEF AppendText
  <2>2. v \in Text /\ p \in Paths /\ Editable(p)
    BY Inputs
  <2>3. ListAt(p).items \in Seq(Text)
    BY <1>2, <2>1, <2>2, ListsAtPaths
  <2>4. Append(ListAt(p).items, v) \in Seq(Text)
    BY <2>2, <2>3
  <2> DEFINE s == Append(ListAt(p).items, v)
  <2> HIDE DEF s
  <2>5. WriteList(p, s) \in Documents /\ Same(WriteList(p, s), doc)
    BY <1>2, <2>1, <2>2, <2>4, WriteListDocument DEF s
  <2> QED
    BY <1>1, <2>1, <2>5, ApplyingKeepsInv DEF s
<1>5. ASSUME AddSkill
      PROVE  Inv'
  <2>1. PICK v \in Values : Applying([doc EXCEPT !.skills.items = Append(@, v)])
    BY <1>5 DEF AddSkill
  <2>2. v \in Text /\ doc.skills \in Lists
    BY <1>2, Inputs, DocumentFields
  <2>3. doc.skills.items \in Seq(Text)
    BY <2>2 DEF Lists
  <2>4. Append(doc.skills.items, v) \in Seq(Text)
    BY <2>2, <2>3
  <2> DEFINE l == [doc.skills EXCEPT !.items = Append(@, v)]
             d == [doc EXCEPT !.skills = l]
  <2>5. l \in Lists
    BY <2>2, <2>4 DEF Lists
  <2>6. [doc EXCEPT !.skills.items = Append(@, v)] = d
    OBVIOUS
  <2> HIDE DEF l
  <2>7. d \in Documents /\ Same(d, doc)
    BY <1>2, <2>5 DEF Documents, Same
  <2> HIDE DEF d
  <2> QED
    BY <1>1, <2>1, <2>6, <2>7, ApplyingKeepsInv
<1>6. ASSUME Reorder
      PROVE  Inv'
  <2>1. PICK p \in {q \in Paths : Editable(q)}, order \in Orders :
          /\ ListAt(p).list
          /\ Applying(WriteList(p, Reordered(ListAt(p).items, order, p.field = "skills")))
    BY <1>6 DEF Reorder
  <2>2. order \in Seq(Text) /\ p \in Paths /\ Editable(p) /\ (p.field = "skills") \in BOOLEAN
    BY Inputs
  <2>3. ListAt(p).items \in Seq(Text)
    BY <1>2, <2>1, <2>2, ListsAtPaths
  <2> DEFINE s == Reordered(ListAt(p).items, order, p.field = "skills")
  <2>4. s \in Seq(Text)
    BY <2>2, <2>3, ReorderedKeeps
  <2> HIDE DEF s
  <2>5. WriteList(p, s) \in Documents /\ Same(WriteList(p, s), doc)
    BY <1>2, <2>1, <2>2, <2>4, WriteListDocument
  <2> QED
    BY <1>1, <2>1, <2>5, ApplyingKeepsInv DEF s
<1> QED
  BY <1>3, <1>4, <1>5, <1>6

(* The diff is over. *)
LEMMA DiffDoneKeepsInv ==
  ASSUME Inv, DiffDone
  PROVE  Inv'
<1>1. /\ stage = "diff" /\ stage' = "nets"
      /\ UNCHANGED <<markdown, original, master, targets, doc, unrefined, applied, invented, refined, improved, hash>>
  BY DEF DiffDone
<1>2. Types'
  BY <1>1 DEF Inv, Types, TypeOK, Stages, Refining, Shown
<1> QED
  BY <1>1, <1>2 DEF Inv, Diffing, Done, Same, OriginalSkillsRestored, Canonical, Shown

-----------------------------------------------------------------------------
(* The safety nets.                                                        *)

(* The words of two lists that follow each other. *)
LEMMA WordsConcat ==
  ASSUME NEW s \in Seq(Text), NEW t \in Seq(Text)
  PROVE  s \o t \in Seq(Text) /\ WordsIn(s) \cup WordsIn(t) \subseteq WordsIn(s \o t)
<1>1. /\ s \o t \in Seq(Text) /\ Len(s) \in Nat /\ Len(t) \in Nat /\ Len(s \o t) = Len(s) + Len(t)
      /\ DOMAIN s = 1..Len(s) /\ DOMAIN t = 1..Len(t) /\ DOMAIN (s \o t) = 1..Len(s \o t)
  OBVIOUS
<1>2. \A k \in DOMAIN s : k \in DOMAIN (s \o t) /\ (s \o t)[k] = s[k]
  BY <1>1
<1>3. \A k \in DOMAIN t : Len(s) + k \in DOMAIN (s \o t) /\ (s \o t)[Len(s) + k] = t[k]
  BY <1>1
<1> QED
  BY <1>1, <1>2, <1>3 DEF WordsIn, ToSet

(* Dates that come back from the original leave a document. *)
LEMMA DatesDocument ==
  ASSUME original \in Documents, NEW d \in Documents
  PROVE  WithOriginalDates(d) \in Documents
<1> DEFINE J == [j \in DOMAIN d.jobs |->
                   IF j \in DOMAIN original.jobs /\ original.jobs[j].years.months /\ ~d.jobs[j].years.months
                   THEN [d.jobs[j] EXCEPT !.years = original.jobs[j].years] ELSE d.jobs[j]]
<1>1. \A j \in DOMAIN d.jobs : J[j] \in Jobs
  <2> SUFFICES ASSUME NEW j \in DOMAIN d.jobs
               PROVE  J[j] \in Jobs
    OBVIOUS
  <2>1. d.jobs[j] \in Jobs /\ (j \in DOMAIN original.jobs => original.jobs[j].years \in Years)
    BY JobFields
  <2>2. \A y \in Years : [d.jobs[j] EXCEPT !.years = y] \in Jobs
    BY <2>1 DEF Jobs
  <2> QED
    BY <2>1, <2>2
<1>2. J \in [DOMAIN d.jobs -> Jobs]
  BY <1>1
<1>3. WithOriginalDates(d) = [d EXCEPT !.jobs = J]
  BY DEF WithOriginalDates
<1> HIDE DEF J
<1>4. J \in Seq(Jobs)
  BY <1>2, DocumentFields, ItemByItem
<1> QED
  BY <1>3, <1>4 DEF Documents

(* Skills that come back from the original: all of them, in a list. *)
LEMMA SkillsDocument ==
  ASSUME original \in Documents, NEW d \in Documents
  PROVE  LET r == WithOriginalSkills(d)
         IN /\ r \in Documents /\ Skills(original) \subseteq Skills(r)
            /\ original.skills.items # <<>> => r.skills.list
<1> DEFINE own == original.skills.items
           current == IF d.skills.list THEN d.skills.items ELSE <<>>
           dropped == {k \in DOMAIN own : /\ own[k].word \notin WordsIn(current)
                                          /\ Times(own, own[k].word, k - 1) = 0}
           back == Kept(own, dropped)
<1>1. \A l \in Lists : l.items \in Seq(Text)
  BY DEF Lists
<1>2. own \in Seq(Text) /\ current \in Seq(Text) /\ dropped \in SUBSET DOMAIN own
  <2>1. own \in Seq(Text) /\ d.skills.items \in Seq(Text)
    BY <1>1, DocumentFields
  <2> QED
    BY <2>1
<1> HIDE DEF own, current
<1>3. CASE own = <<>>
  <2>1. WithOriginalSkills(d) = d
    BY <1>3 DEF WithOriginalSkills, own
  <2>2. Skills(original) = {}
    BY <1>3 DEF Skills, WordsIn, ToSet, own
  <2> QED
    BY <1>3, <2>1, <2>2 DEF own
<1>4. CASE own # <<>>
  <2> DEFINE all == current \o back
  <2>1. WithOriginalSkills(d) = [d EXCEPT !.skills = [list |-> TRUE, items |-> all]]
    BY <1>4 DEF WithOriginalSkills, Items, own, current
  <2>2. back \in Seq(Text) /\ ToSet(back) = {own[k] : k \in dropped}
    <3> HIDE DEF dropped
    <3> QED
      BY <1>2, KeptItems, KeptSet
  <2>3. WordsIn(back) = {own[k].word : k \in dropped}
    <3> HIDE DEF back, dropped
    <3> QED
      BY <2>2 DEF WordsIn
  <2>4. all \in Seq(Text) /\ WordsIn(current) \cup WordsIn(back) \subseteq WordsIn(all)
    <3> HIDE DEF back
    <3> QED
      BY <1>2, <2>2, WordsConcat
  <2> HIDE DEF all, back
  <2>5. WordsIn(own) \subseteq WordsIn(all)
    <3> SUFFICES ASSUME NEW k \in DOMAIN own, own[k].word \notin WordsIn(current)
                 PROVE  own[k].word \in WordsIn(back)
      BY <2>4 DEF WordsIn, ToSet
    <3> DEFINE same == {n \in DOMAIN own : own[n].word = own[k].word}
    <3>1. same \subseteq Nat /\ same # {} /\ DOMAIN own = 1..Len(own)
      BY <1>2
    <3>2. PICK n \in same : \A m \in same : n <= m
      BY <3>1, LeastNatural
    <3>3. {m \in 1..(n - 1) : own[m].word = own[n].word} = {}
      BY <3>1, <3>2, <1>2
    <3>4. Times(own, own[n].word, n - 1) = 0
      BY <3>3, FS_EmptySet DEF Times
    <3> QED
      BY <2>3, <3>2, <3>4
  <2>6. [list |-> TRUE, items |-> all] \in Lists
    BY <2>4 DEF Lists
  <2>7. /\ WithOriginalSkills(d) \in Documents
        /\ WithOriginalSkills(d).skills = [list |-> TRUE, items |-> all]
    BY <2>1, <2>6 DEF Documents
  <2> QED
    BY <2>5, <2>7 DEF Skills, own
<1> QED
  BY <1>3, <1>4

(* What is cut from a section leaves a document. *)
LEMMA SectionDocument ==
  ASSUME original \in Documents, NEW d \in Documents
  PROVE  WithOriginalSection(d) \in Documents /\ WithOriginalSection(d).skills = d.skills
<1> DEFINE n == Len(original.section.items)
           s == SubSeq(d.section.items, 1, n)
<1>1. \A l \in Lists : l.items \in Seq(Text)
  BY DEF Lists
<1>2. n \in Nat /\ d.section \in Lists /\ d.section.items \in Seq(Text) /\ Len(d.section.items) \in Nat
  <2>1. original.section.items \in Seq(Text) /\ d.section \in Lists /\ d.section.items \in Seq(Text)
    BY <1>1, DocumentFields
  <2> QED
    BY <2>1
<1>3. CASE n = 0 \/ Len(d.section.items) <= n
  BY <1>3 DEF WithOriginalSection
<1>4. CASE ~(n = 0 \/ Len(d.section.items) <= n)
  <2>1. WithOriginalSection(d) = [d EXCEPT !.section.items = s]
    BY <1>4 DEF WithOriginalSection
  <2>2. s \in Seq(Text)
    <3> HIDE DEF n
    <3>1. n \in 0..Len(d.section.items) /\ 1 \in 1..Len(d.section.items) + 1
      BY <1>2, <1>4
    <3>2. \A i \in 1..n : d.section.items[i] \in Text
      BY <1>2, <3>1
    <3> QED
      BY <1>2, <3>1, <3>2
  <2> HIDE DEF s
  <2>3. [d.section EXCEPT !.items = s] \in Lists
    BY <1>2, <2>2 DEF Lists
  <2> QED
    BY <2>1, <2>3 DEF Documents
<1> QED
  BY <1>3, <1>4

(* The nets bring the skills back. *)
LEMMA NetsKeepInv ==
  ASSUME Inv, Nets
  PROVE  Inv'
<1> DEFINE d1 == [doc EXCEPT !.info = original.info]
           d2 == RestoreFromMarkdown(WithOriginalDates(d1), markdown)
           d3 == WithOriginalSkills(d2)
           d4 == WithOriginalSection(d3)
<1>1. /\ stage = "nets" /\ doc' = d4 /\ unrefined' = doc' /\ stage' = "inject"
      /\ UNCHANGED <<markdown, original, master, targets, applied, invented, refined, improved, hash>>
  BY DEF Nets
<1>2. doc \in Documents /\ original \in Documents /\ markdown \in Documents /\ TypeOK
  BY <1>1 DEF Inv, Types
<1>3. d1 \in Documents
  BY <1>2 DEF Documents
<1> HIDE DEF d1
<1>4. d2 \in Documents
  BY <1>2, <1>3, DatesDocument, RestoreDocument
<1> HIDE DEF d2
<1>5. d3 \in Documents /\ Skills(original) \subseteq Skills(d3) /\ (original.skills.items # <<>> => d3.skills.list)
  BY <1>2, <1>4, SkillsDocument
<1> HIDE DEF d3
<1>6. d4 \in Documents /\ d4.skills = d3.skills
  BY <1>2, <1>5, SectionDocument
<1> HIDE DEF d4
<1>7. Types'
  BY <1>1, <1>2, <1>6 DEF Inv, Types, TypeOK, Stages, Shown
<1>8. OriginalSkillsRestored'
  BY <1>1, <1>5, <1>6 DEF OriginalSkillsRestored, Skills
<1> QED
  BY <1>1, <1>7, <1>8 DEF Inv, Diffing, Done, Canonical, Shown

-----------------------------------------------------------------------------
(* The refinement.                                                         *)

(* A step of the refinement that has not gone through yet. *)
LEMMA RefiningKeepsInv ==
  ASSUME Inv, stage \in Refining, stage' \in Refining, doc' \in Documents,
         UNCHANGED <<markdown, original, master, targets, unrefined, applied, invented, refined, improved, hash>>,
         stage' # "inject"
  PROVE  Inv'
<1>1. ~refined
  BY DEF Inv, Refining, Done, Shown
<1>2. original \in Documents /\ master \in Documents
  BY DEF Inv, Types, Refining
<1>3. TypeOK'
  BY DEF Inv, Types, TypeOK, Refining, Stages
<1>4. Types'
  BY <1>2, <1>3 DEF Inv, Types, Refining, Shown
<1> QED
  BY <1>1, <1>4 DEF Inv, Diffing, Refining, OriginalSkillsRestored, Canonical, Shown

(* Whatever the model gives back has the shape of a resume. *)
LEMMA RewritesAreDocuments ==
  ASSUME NEW d \in Documents
  PROVE  Rewrites(d) \subseteq Documents
<1> DEFINE added == Values \cup {Object(v, k) : v \in Values, k \in {"named", "other"}}
           lists(l) == {Block(v) : v \in Values} \cup {Items(Append(l.items, x)) : x \in added}
<1>1. /\ d.jobs \in Seq(Jobs) /\ d.skills \in Lists /\ d.section \in Lists
  BY DocumentFields
<1>2. \A v \in Values : v \in Text /\ v.word \in Words
  BY Inputs DEF Text
<1>3. added \subseteq Text
  <2>1. ASSUME NEW v \in Values, NEW k \in {"named", "other"}
        PROVE  Object(v, k) \in Text
    BY <1>2, Vocabulary DEF Text, Object
  <2> QED
    BY <1>2, <2>1
<1>4. ASSUME NEW l \in Lists
      PROVE  lists(l) \subseteq Lists
  <2>1. l.items \in Seq(Text)
    BY ListItems
  <2>2. \A x \in Text : Append(l.items, x) \in Seq(Text)
    BY <2>1
  <2>3. \A x \in Text : Items(Append(l.items, x)) \in Lists
    BY <2>2 DEF Items, Lists
  <2>4. \A v \in Values : Block(v) \in Lists
    BY <1>2 DEF Block, Lists
  <2> HIDE DEF added
  <2> QED
    BY <1>3, <2>3, <2>4
<1>5. ASSUME NEW v \in Values
      PROVE  /\ [d EXCEPT !.info = v.word] \in Documents
             /\ [d EXCEPT !.section.items = Append(@, v)] \in Documents
  <2>1. [d.section EXCEPT !.items = Append(@, v)] \in Lists
    <3>1. d.section.items \in Seq(Text)
      BY <1>1, ListItems
    <3>2. Append(d.section.items, v) \in Seq(Text)
      BY <1>2, <3>1
    <3> QED
      BY <1>1, <3>2 DEF Lists
  <2>2. [d EXCEPT !.section.items = Append(@, v)] = [d EXCEPT !.section = [d.section EXCEPT !.items = Append(@, v)]]
    OBVIOUS
  <2> QED
    BY <1>2, <2>1, <2>2 DEF Documents
<1>6. ASSUME NEW v \in Values
      PROVE  [d EXCEPT !.jobs = Append(@, [company |-> v.word, bullets |-> Items(<<>>),
                years |-> [from |-> 1, to |-> 0, months |-> FALSE]])] \in Documents
  <2> DEFINE job == [company |-> v.word, bullets |-> Items(<<>>),
                     years |-> [from |-> 1, to |-> 0, months |-> FALSE]]
  <2>1. Items(<<>>) \in Lists
    BY DEF Items, Lists
  <2>2. [from |-> 1, to |-> 0, months |-> FALSE] \in Years
    BY DEF Years
  <2>3. job \in Jobs
    BY <1>2, <2>1, <2>2 DEF Jobs
  <2> HIDE DEF job
  <2>4. Append(d.jobs, job) \in Seq(Jobs)
    BY <1>1, <2>3
  <2>5. [d EXCEPT !.jobs = Append(@, job)] \in Documents
    BY <2>4 DEF Documents
  <2> QED
    BY <2>5 DEF job
<1>7. d.jobs # <<>> => [d EXCEPT !.jobs = Tail(@)] \in Documents
  <2>1. d.jobs # <<>> => Tail(d.jobs) \in Seq(Jobs)
    BY <1>1
  <2> QED
    BY <2>1 DEF Documents
<1> HIDE DEF lists
<1>8. ASSUME NEW l \in lists(d.skills)
      PROVE  [d EXCEPT !.skills = l] \in Documents
  BY <1>1, <1>4 DEF Documents
<1>9. ASSUME NEW j \in DOMAIN d.jobs, NEW l \in lists(d.jobs[j].bullets)
      PROVE  [d EXCEPT !.jobs[j].bullets = l] \in Documents
  <2> DEFINE J == [d.jobs EXCEPT ![j].bullets = l]
  <2>1. l \in Lists
    BY <1>4, JobFields
  <2>2. [d.jobs[j] EXCEPT !.bullets = l] \in Jobs
    BY <2>1, JobFields DEF Jobs
  <2>3. J \in Seq(Jobs)
    BY <1>1, <2>2
  <2>4. [d EXCEPT !.jobs[j].bullets = l] = [d EXCEPT !.jobs = J]
    BY DEF Documents
  <2> HIDE DEF J
  <2> QED
    BY <2>3, <2>4 DEF Documents
<1> DEFINE A == {[d EXCEPT !.skills = l] : l \in lists(d.skills)}
           B == {[d EXCEPT !.info = v.word] : v \in Values}
           C == {[d EXCEPT !.section.items = Append(@, v)] : v \in Values}
           D == {[d EXCEPT !.jobs = Append(@, [company |-> v.word, bullets |-> Items(<<>>),
                    years |-> [from |-> 1, to |-> 0, months |-> FALSE]])] : v \in Values}
           E == IF d.jobs = <<>> THEN {} ELSE {[d EXCEPT !.jobs = Tail(@)]}
           bulleted(j) == {[d EXCEPT !.jobs[j].bullets = l] : l \in lists(d.jobs[j].bullets)}
           F == UNION {bulleted(j) : j \in DOMAIN d.jobs}
<1>10. A \subseteq Documents /\ B \cup C \cup D \cup E \subseteq Documents
  BY <1>5, <1>6, <1>7, <1>8
<1>11. F \subseteq Documents
  <2>1. \A j \in DOMAIN d.jobs : bulleted(j) \subseteq Documents
    BY <1>9
  <2> HIDE DEF bulleted
  <2> QED
    BY <2>1
<1>12. Rewrites(d) = A \cup B \cup C \cup D \cup E \cup F
  BY DEF Rewrites, lists
<1> QED
  BY <1>10, <1>11, <1>12

(* Keywords and phrases leave documents. *)
LEMMA WordPassesKeepInv ==
  ASSUME Inv, Inject \/ RemovePhrases
  PROVE  Inv'
<1>1. doc \in Documents
  BY DEF Inv, Types, Inject, RemovePhrases
<1>2. ASSUME Inject
      PROVE  Inv'
  <2>1. doc' \in Documents
    BY <1>1, <1>2, RewritesAreDocuments DEF Inject
  <2> QED
    BY <1>2, <2>1, RefiningKeepsInv DEF Inject, Refining
<1>3. ASSUME RemovePhrases
      PROVE  Inv'
  <2> DEFINE text(t) == [t EXCEPT !.word = CleanWord(@)]
             list(l) == [l EXCEPT !.items = [k \in DOMAIN @ |-> text(@[k])]]
             job(j) == [j EXCEPT !.company = CleanWord(@), !.bullets = list(@)]
             J == [j \in DOMAIN doc.jobs |-> job(doc.jobs[j])]
             d == [doc EXCEPT !.jobs = J, !.info = CleanWord(@), !.summary = CleanWord(@),
                              !.skills = list(@), !.section = list(@)]
  <2>1. \A w \in Words : CleanWord(w) \in Words
    BY Vocabulary DEF CleanWord
  <2>2. ASSUME NEW l \in Lists
        PROVE  list(l) \in Lists
    <3> DEFINE s == [k \in DOMAIN l.items |-> text(l.items[k])]
    <3>1. l.items \in Seq(Text)
      BY DEF Lists
    <3>2. \A t \in Text : text(t) \in Text
      BY <2>1 DEF Text
    <3>3. s \in [DOMAIN l.items -> Text]
      BY <3>1, <3>2
    <3>4. list(l) = [l EXCEPT !.items = s]
      OBVIOUS
    <3> HIDE DEF s, list
    <3>5. s \in Seq(Text)
      BY <3>1, <3>3, ItemByItem
    <3> QED
      BY <3>4, <3>5 DEF Lists
  <2> HIDE DEF list, text
  <2>3. \A j \in DOMAIN doc.jobs : job(doc.jobs[j]) \in Jobs
    <3> SUFFICES ASSUME NEW j \in DOMAIN doc.jobs
                 PROVE  job(doc.jobs[j]) \in Jobs
      OBVIOUS
    <3>1. /\ doc.jobs[j] \in Jobs
          /\ CleanWord(doc.jobs[j].company) \in Words /\ list(doc.jobs[j].bullets) \in Lists
      BY <1>1, <2>1, <2>2, JobFields
    <3> QED
      BY <3>1 DEF Jobs
  <2> HIDE DEF job
  <2>4. J \in [DOMAIN doc.jobs -> Jobs]
    BY <2>3
  <2>5. doc' = d
    BY <1>3 DEF RemovePhrases, OnJobs, list, text, job
  <2> HIDE DEF J
  <2>6. J \in Seq(Jobs)
    BY <1>1, <2>4, DocumentFields, ItemByItem
  <2>7. d \in Documents
    BY <1>1, <2>1, <2>2, <2>6, DocumentFields DEF Documents
  <2> QED
    BY <1>3, <2>5, <2>7, RefiningKeepsInv DEF RemovePhrases, Refining
<1> QED
  BY <1>2, <1>3

(* A walk over a list field meets texts and objects. *)
LEMMA EntriesItems ==
  ASSUME NEW l \in Lists
  PROVE  Entries(l) \in Seq(Text) /\ (l.list => Entries(l) = l.items)
<1>1. l.items \in Seq(Text)
  BY ListItems
<1>2. CASE l.list \/ l.items = <<>>
  BY <1>1, <1>2 DEF Entries
<1>3. CASE ~(l.list \/ l.items = <<>>)
  <2> DEFINE c == Letters[l.items[1].word]
             e == [k \in DOMAIN c |-> Plain(c[k])]
  <2>1. l.items[1] \in Text
    BY <1>1, <1>3
  <2>2. l.items[1].word \in Words
    BY <2>1 DEF Text
  <2>3. c \in Seq(Words)
    BY <2>2, Vocabulary
  <2>4. \A w \in Words : Plain(w) \in Text
    BY Vocabulary DEF Plain, Text
  <2>5. Entries(l) = e
    BY <1>3 DEF Entries
  <2> HIDE DEF c
  <2>6. e \in [DOMAIN c -> Text]
    BY <2>3, <2>4
  <2> HIDE DEF e
  <2>7. e \in Seq(Text)
    BY <2>3, <2>6, ItemByItem
  <2> QED
    BY <1>3, <2>5, <2>7
<1> QED
  BY <1>2, <1>3

(* What the alignment keeps is grounded in the master or the job. *)
LEMMA AlignKeepsInv ==
  ASSUME Inv, Align
  PROVE  Inv'
<1> DEFINE f == Fabricated(doc)
           e == Entries(doc.skills)
           own == {k \in DOMAIN e : e[k].word \notin f.skills}
           known == {j \in DOMAIN doc.jobs : doc.jobs[j].company \notin f.companies}
           s == Kept(e, own)
           l == IF f.skills = {} THEN doc.skills ELSE Items(s)
           J == Kept(doc.jobs, known)
<1>1. /\ stage = "align" /\ refined' = TRUE /\ stage' = "store"
      /\ f.skills # {} => \A k \in DOMAIN e : e[k].kind = "text"
      /\ doc' = [doc EXCEPT !.skills = l, !.jobs = J]
      /\ UNCHANGED <<markdown, original, master, targets, unrefined, applied, invented, improved, hash>>
  BY DEF Align
<1>2. /\ doc \in Documents /\ original \in Documents /\ master \in Documents /\ TypeOK
      /\ markdown \in Documents /\ Canonical(original)
  BY <1>1 DEF Inv, Types
<1>3. /\ doc.skills \in Lists /\ e \in Seq(Text) /\ doc.jobs \in Seq(Jobs)
      /\ own \in SUBSET DOMAIN e /\ known \in SUBSET DOMAIN doc.jobs
  BY <1>2, DocumentFields, EntriesItems
<1>4. /\ s \in Seq(Text) /\ ToSet(s) = {e[k] : k \in own}
      /\ J \in Seq(Jobs) /\ ToSet(J) = {doc.jobs[j] : j \in known}
  <2> HIDE DEF own, known, e
  <2> QED
    BY <1>3, KeptItems, KeptSet
<1> HIDE DEF s, J, e
<1>5. l \in Lists
  BY <1>3, <1>4 DEF Items, Lists
<1> HIDE DEF l
<1>6. doc' \in Documents /\ doc'.skills = l /\ doc'.jobs = J
  BY <1>1, <1>2, <1>5, <1>4 DEF Documents
<1>7. ASSUME OnlyTexts(l), NEW x \in Skills(doc')
      PROVE  x \in Named(doc.skills) /\ x \notin f.skills
  <2>1. CASE f.skills = {}
    <3>1. l = doc.skills
      BY <2>1 DEF l
    <3>2. e = doc.skills.items
      BY <1>3, <1>7, <3>1, EntriesItems DEF OnlyTexts, e
    <3>3. \A k \in DOMAIN doc.skills.items : doc.skills.items[k].kind = "text"
      BY <1>7, <3>1 DEF OnlyTexts
    <3> HIDE DEF f
    <3> QED
      BY <1>6, <1>7, <2>1, <3>1, <3>2, <3>3 DEF Skills, WordsIn, ToSet, Named, e
  <2>2. CASE f.skills # {}
    <3>1. l.items = s
      BY <2>2 DEF l, Items
    <3>2. Skills(doc') = {e[k].word : k \in own}
      BY <1>4, <1>6, <3>1 DEF Skills, WordsIn
    <3>3. PICK k \in own : x = e[k].word
      BY <1>7, <3>2
    <3>4. k \in DOMAIN e /\ e[k].kind = "text" /\ e[k].word \notin f.skills
      BY <1>1, <2>2
    <3> HIDE DEF f
    <3> QED
      BY <3>3, <3>4 DEF Named, ToSet, e
  <2> QED
    BY <2>1, <2>2
<1>8. \A x \in Companies(doc') : x \in Companies(doc) /\ x \notin f.companies
  <2>1. \A i \in DOMAIN J : \E j \in known : J[i] = doc.jobs[j]
    BY <1>4 DEF ToSet
  <2> QED
    BY <1>6, <2>1 DEF Companies
<1> HIDE DEF own, known
<1>9. ASSUME OnlyTexts(l), NEW x \in Skills(doc')
      PROVE  Known(x)
  BY <1>7, <1>9 DEF Fabricated, Known
<1>10. Companies(doc') \subseteq Companies(master) \cup {Blank}
  BY <1>8 DEF Fabricated
<1>11. Grounded(doc, doc)'
  BY <1>1, <1>6, <1>9, <1>10 DEF Grounded, Known
<1>12. Types'
  BY <1>1, <1>2, <1>6 DEF Types, TypeOK, Stages, Refining, Shown
<1> QED
  BY <1>1, <1>2, <1>11, <1>12 DEF Inv, Diffing, Done, Shown, OriginalSkillsRestored, Canonical

(* The document of before is grounded by nobody, and not said to be. *)
LEMMA RefineFailsKeepsInv ==
  ASSUME Inv, RefineFails
  PROVE  Inv'
<1>1. /\ stage \in Refining /\ stage' = "store" /\ doc' = unrefined
      /\ UNCHANGED <<markdown, original, master, targets, unrefined, applied, invented, refined, improved, hash>>
  BY DEF RefineFails, Refining
<1>2. ~refined
  BY <1>1 DEF Inv, Refining, Done, Shown
<1>3. Types'
  BY <1>1 DEF Inv, Types, TypeOK, Stages, Refining, Shown
<1> QED
  BY <1>1, <1>2, <1>3 DEF Inv, Diffing, Refining, OriginalSkillsRestored, Canonical, Shown

-----------------------------------------------------------------------------
(* Preview and confirmation.                                               *)

(* What is shown is canonical, and as grounded as before. *)
LEMMA ShowingKeepsInv ==
  ASSUME Inv, StorePreview \/ Confirm
  PROVE  Inv'
<1>1. /\ stage \in {"store", "shown"} /\ stage' \in Shown
      /\ doc' = Normalize(doc) /\ hash' \in {hash, Normalize(doc)}
      /\ UNCHANGED <<markdown, original, master, targets, unrefined, applied, invented, refined>>
      /\ improved' = IF stage = "store" THEN doc ELSE improved
      /\ stage' = "shown" => stage = "store"
  BY DEF StorePreview, Confirm, HashOf, Shown
<1>2. /\ doc \in Documents /\ original \in Documents /\ Canonical(original)
      /\ improved' \in Documents
  BY <1>1 DEF Inv, Types, Shown
<1>3. doc' \in Documents /\ Canonical(doc')
  BY <1>1, <1>2, NormalizeDocument, NormalizeCanonical
<1>4. refined => Grounded(Normalize(doc), improved')
  BY <1>1, <1>2, NormalizeGrounded DEF Inv
<1>5. refined' => Grounded(doc, improved)'
  BY <1>1, <1>4 DEF Grounded, Known
<1>6. Types'
  <2>1. TypeOK'
    BY <1>1, <1>2, <1>3 DEF Inv, Types, TypeOK, Stages, Shown
  <2> QED
    BY <1>1, <1>2, <1>3, <2>1 DEF Inv, Types, Refining, Shown
<1>7. Canonical(original)' /\ Canonical(doc)'
  BY <1>1, <1>2, <1>3 DEF Canonical
<1>8. stage' = "shown" => doc' = Normalize(improved')
  BY <1>1
<1> QED
  BY <1>1, <1>5, <1>6, <1>7, <1>8 DEF Inv, Diffing, Done, Shown, OriginalSkillsRestored

-----------------------------------------------------------------------------
(* The theorems.                                                           *)

(* The upload is a document, and nothing else is there yet. *)
LEMMA InitHasInv ==
  ASSUME Init
  PROVE  Inv
<1>1. TypeOK
  BY Vocabulary DEF Init, TypeOK, Stages
<1>2. Types
  BY <1>1, Inputs DEF Init, Types, Refining, Shown
<1> QED
  BY <1>2 DEF Init, Inv, Diffing, OriginalSkillsRestored, Shown

(* Each pass keeps the invariant. *)
LEMMA NextKeepsInv ==
  ASSUME Inv, [Next]_vars
  PROVE  Inv'
<1>1. CASE UNCHANGED vars
  BY <1>1 DEF vars, Inv, Types, TypeOK, Same, OriginalSkillsRestored, Grounded, Canonical, Shown, Known
<1>2. ASSUME Next
      PROVE  Inv'
  BY <1>2, ParseKeepsInv, PlanKeepsInv, ChangesKeepInv, DiffDoneKeepsInv, NetsKeepInv,
     WordPassesKeepInv, AlignKeepsInv, RefineFailsKeepsInv, ShowingKeepsInv DEF Next
<1> QED
  BY <1>1, <1>2

(* The invariant holds, whatever the model answers in each pass. *)
THEOREM InvHolds == Spec => []Inv
BY InitHasInv, NextKeepsInv, PTL DEF Spec

(* A diff leaves personal details, sections, entries and dates alone, and   *)
(* an order loses no item and brings in no skill that is not a target.      *)
THEOREM DiffsStayConsistent == Spec => []DiffsConsistent
<1>1. ASSUME Inv
      PROVE  DiffsConsistent
  <2>1. TypeOK
    BY <1>1 DEF Inv, Types
  <2>2. DiffsStayInBounds
    <3> SUFFICES ASSUME stage = "nets"
                 PROVE  DiffsStayInBounds
      BY DEF DiffsStayInBounds
    <3>1. Same(doc, original) /\ doc \in Documents /\ original \in Documents
      BY <1>1 DEF Inv, Types, Diffing
    <3>2. DOMAIN doc.jobs = DOMAIN original.jobs
      BY <3>1, DocumentFields DEF Same
    <3>3. Warnings \subseteq {"unchanged", "metric"}
      BY <3>1 DEF Warnings, Same
    <3> QED
      BY <3>1, <3>2, <3>3 DEF DiffsStayInBounds, Same
  <2>3. ReorderKeepsItems
    <3> SUFFICES ASSUME stage = "diff", NEW order \in Orders, NEW w \in Words
                 PROVE  LET new == Reordered(doc.skills.items, order, TRUE)
                            count == Times(new, w, Len(new))
                        IN \/ count = Times(doc.skills.items, w, Len(doc.skills.items))
                           \/ w \notin Skills(doc) /\ w \in targets /\ count = 1
      BY DEF ReorderKeepsItems
    <3>1. order \in Seq(Text) /\ doc.skills \in Lists
      BY <1>1, Inputs, DocumentFields DEF Inv, Types
    <3>2. doc.skills.items \in Seq(Text)
      BY <3>1 DEF Lists
    <3> QED
      BY <3>1, <3>2, ReorderedKeeps DEF Skills
  <2> QED
    BY <2>1, <2>2, <2>3 DEF DiffsConsistent
<1> QED
  BY <1>1, InvHolds, PTL

(* The safety nets bring every skill of the original back. *)
THEOREM SkillsComeBack == Spec => []OriginalSkillsRestored
<1>1. Inv => OriginalSkillsRestored
  BY DEF Inv
<1> QED
  BY <1>1, InvHolds, PTL

(* A refined document names companies that the master knows, and, where its  *)
(* skills came as a list of texts, skills that the master or the job knows.  *)
THEOREM RefinedStaysGrounded == Spec => []RefinedIsGrounded
<1>1. Inv => RefinedIsGrounded
  BY DEF Inv, Grounded, RefinedIsGrounded
<1> QED
  BY <1>1, InvHolds, PTL

(* A list of changes that shows none hides none: at the confirmation never,  *)
(* with the preview in the fields that came as lists of texts, where no text *)
(* has more than one bullet mark.                                           *)
THEOREM SilentDiffsHideNothing ==
  ASSUME MaxMarks <= 1
  PROVE  Spec => []SilentDiffMeansUnchanged
<1>1. ASSUME Inv, stage \in Shown
      PROVE  /\ doc \in Documents /\ original \in Documents /\ improved \in Documents
             /\ Canonical(doc) /\ Canonical(original)
             /\ original.skills \in Lists /\ CanonicalList(original.skills)
             /\ \A j \in DOMAIN original.jobs :
                  original.jobs[j].bullets \in Lists /\ CanonicalList(original.jobs[j].bullets)
  <2>1. /\ doc \in Documents /\ original \in Documents /\ improved \in Documents
        /\ Canonical(doc) /\ Canonical(original)
    BY <1>1 DEF Inv, Types, Shown
  <2> QED
    BY <2>1, DocumentFields, JobFields DEF Canonical
<1>2. ASSUME Inv, stage = "accepted", Changed(doc) = {}
      PROVE  /\ ToSet(doc.skills.items) = ToSet(original.skills.items)
             /\ [doc EXCEPT !.info = original.info, !.section = original.section,
                            !.skills = original.skills] = original
  <2>1. stage \in Shown
    BY <1>2 DEF Shown
  <2>2. /\ doc.skills \in Lists /\ CanonicalList(doc.skills)
        /\ \A j \in DOMAIN doc.jobs : doc.jobs[j].bullets \in Lists /\ CanonicalList(doc.jobs[j].bullets)
    BY <1>1, <1>2, <2>1, DocumentFields, JobFields DEF Canonical
  <2>3. /\ doc.summary = original.summary /\ Len(doc.jobs) = Len(original.jobs)
        /\ ToSet(Listed(doc.skills)) = ToSet(Listed(original.skills))
        /\ \A j \in DOMAIN doc.jobs \cap DOMAIN original.jobs :
             /\ Listed(doc.jobs[j].bullets) = Listed(original.jobs[j].bullets)
             /\ doc.jobs[j].company = original.jobs[j].company
             /\ doc.jobs[j].years = original.jobs[j].years
    BY <1>2 DEF Changed
  <2>4. doc.jobs \in Seq(Jobs) /\ original.jobs \in Seq(Jobs)
    BY <1>1, <1>2, <2>1, DocumentFields
  <2>5. DOMAIN doc.jobs = DOMAIN original.jobs
    BY <2>3, <2>4
  <2>6. \A j \in DOMAIN doc.jobs : doc.jobs[j] = original.jobs[j]
    <3> SUFFICES ASSUME NEW j \in DOMAIN doc.jobs
                 PROVE  doc.jobs[j] = original.jobs[j]
      OBVIOUS
    <3> DEFINE mine == doc.jobs[j].bullets  its == original.jobs[j].bullets
    <3>1. doc.jobs[j] \in Jobs /\ original.jobs[j] \in Jobs
      BY <1>1, <1>2, <2>1, <2>5, JobFields
    <3>2. /\ mine \in Lists /\ CanonicalList(mine) /\ its \in Lists /\ CanonicalList(its)
          /\ Listed(mine) = Listed(its)
      BY <1>1, <1>2, <2>1, <2>2, <2>3, <2>5
    <3>3. mine = its
      <4> HIDE DEF mine, its
      <4>1. mine.items = its.items /\ mine.list = its.list
        BY <3>2, ListedCanonical DEF CanonicalList, Lists
      <4> QED
        BY <3>2, <4>1, ListItems
    <3>4. doc.jobs[j].company = original.jobs[j].company /\ doc.jobs[j].years = original.jobs[j].years
      BY <2>3, <2>5
    <3> QED
      BY <3>1, <3>3, <3>4 DEF Jobs
  <2>7. doc.jobs = original.jobs
    BY <2>4, <2>5, <2>6
  <2>8. ToSet(doc.skills.items) = ToSet(original.skills.items)
    BY <1>1, <1>2, <2>1, <2>2, <2>3, ListedCanonical
  <2> QED
    BY <1>1, <1>2, <2>1, <2>3, <2>7, <2>8 DEF Documents
<1>3. ASSUME Inv, stage = "shown", Changed(improved) = {}
      PROVE  /\ doc.summary = original.summary /\ DOMAIN doc.jobs = DOMAIN original.jobs
             /\ OnlyTexts(improved.skills) => ToSet(doc.skills.items) = ToSet(original.skills.items)
             /\ \A j \in DOMAIN doc.jobs :
                  /\ doc.jobs[j].company = original.jobs[j].company
                  /\ doc.jobs[j].years = original.jobs[j].years
                  /\ OnlyTexts(improved.jobs[j].bullets) =>
                       doc.jobs[j].bullets = original.jobs[j].bullets
  <2>1. stage \in Shown /\ doc = Normalize(improved)
    BY <1>3 DEF Inv, Shown
  <2>2. /\ improved.summary = original.summary /\ Len(improved.jobs) = Len(original.jobs)
        /\ ToSet(Listed(improved.skills)) = ToSet(Listed(original.skills))
        /\ \A j \in DOMAIN improved.jobs \cap DOMAIN original.jobs :
             /\ Listed(improved.jobs[j].bullets) = Listed(original.jobs[j].bullets)
             /\ improved.jobs[j].company = original.jobs[j].company
             /\ improved.jobs[j].years = original.jobs[j].years
    BY <1>3 DEF Changed
  <2>3. improved.jobs \in Seq(Jobs) /\ original.jobs \in Seq(Jobs)
    BY <1>1, <1>3, <2>1, DocumentFields
  <2>4. DOMAIN improved.jobs = DOMAIN original.jobs
    BY <2>2, <2>3
  <2>5. /\ doc.summary = improved.summary /\ DOMAIN doc.jobs = DOMAIN improved.jobs
        /\ doc.skills = CoercedList(improved.skills)
        /\ \A j \in DOMAIN improved.jobs :
             /\ doc.jobs[j].company = improved.jobs[j].company
             /\ doc.jobs[j].years = improved.jobs[j].years
             /\ doc.jobs[j].bullets = CoercedList(improved.jobs[j].bullets)
    BY <1>1, <1>3, <2>1, NormalizeDocument
  <2>6. ASSUME NEW l \in Lists, OnlyTexts(l), NEW o \in Lists, CanonicalList(o),
               ToSet(Listed(l)) = ToSet(Listed(o))
        PROVE  CoercedList(l) = [list |-> TRUE, items |-> Listed(l)]
    <3>1. \A t \in ToSet(Listed(o)) : t.marks = 0
      BY <2>6, ListedCanonical DEF CanonicalList, ToSet
    <3> QED
      BY <2>6, <3>1, CoercedAsListed
  <2>7. ASSUME OnlyTexts(improved.skills)
        PROVE  ToSet(doc.skills.items) = ToSet(original.skills.items)
    <3>1. improved.skills \in Lists
      BY <1>1, <1>3, <2>1, DocumentFields
    <3>2. doc.skills.items = Listed(improved.skills)
      BY <1>1, <1>3, <2>1, <2>2, <2>5, <2>6, <2>7, <3>1
    <3> QED
      BY <1>1, <1>3, <2>1, <2>2, <3>2, ListedCanonical
  <2>8. ASSUME NEW j \in DOMAIN doc.jobs, OnlyTexts(improved.jobs[j].bullets)
        PROVE  doc.jobs[j].bullets = original.jobs[j].bullets
    <3> DEFINE l == improved.jobs[j].bullets  o == original.jobs[j].bullets
    <3>1. /\ l \in Lists /\ o \in Lists /\ CanonicalList(o) /\ Listed(l) = Listed(o) /\ OnlyTexts(l)
          /\ doc.jobs[j].bullets = CoercedList(l)
      BY <1>1, <1>3, <2>1, <2>2, <2>4, <2>5, <2>8, JobFields
    <3> HIDE DEF l, o
    <3>2. CoercedList(l) = [list |-> TRUE, items |-> o.items]
      BY <2>6, <3>1, ListedCanonical
    <3>3. o.list = TRUE /\ o = [list |-> o.list, items |-> o.items]
      BY <3>1, ListItems DEF CanonicalList, Lists
    <3> QED
      BY <3>1, <3>2, <3>3 DEF o
  <2> QED
    BY <2>2, <2>4, <2>5, <2>7, <2>8
<1>4. Inv => SilentDiffMeansUnchanged
  BY <1>2, <1>3 DEF SilentDiffMeansUnchanged
<1> QED
  BY <1>4, InvHolds, PTL
=============================================================================
