----------------------------- MODULE Tailoring -----------------------------
(***************************************************************************)
(* From an uploaded resume to a tailored one (services/parser.py,          *)
(* services/improver.py, services/refiner.py and the safety nets of        *)
(* routers/resumes.py), one pass at a time.  The model may answer anything *)
(* that its pass lets through; the passes after it must put that right.    *)
(*                                                                         *)
(* Text is a word of a small vocabulary, skills and company names too;     *)
(* an item of a list is one line of text with the bullet marks ("- ",      *)
(* "1. ") it begins with, or an object that a model has put there.         *)
(***************************************************************************)
EXTENDS Naturals, SequencesExt

CONSTANTS
  Words,        \* vocabulary
  Blank,        \* the empty text
  Cleaned,      \* what removing the AI phrases makes of a word
  Metrics,      \* words with a figure in them
  JDWords,      \* words of the job description
  JDSkills,     \* required and preferred skills the model has extracted from it
  Partial,      \* pairs of words, the first a part of the second
  Letters,      \* the characters of a word
  Uploads,      \* resumes as the Markdown has them, with their months
  Masters,      \* master resumes, when the one that is tailored is another
  Proposals,    \* skill plans that the model may propose
  Values,       \* texts that the model may write
  Orders,       \* lists that the model may propose as a new order
  MaxMarks,     \* bound: bullet marks before a text
  MaxChanges,   \* bound: changes applied in a diff
  None

ASSUME Vocabulary ==
  /\ Blank \in Words /\ Metrics \cup JDWords \cup JDSkills \subseteq Words
  /\ Cleaned \in [Words -> Words]
  /\ Partial \subseteq Words \X Words
  /\ Letters \in [Words -> Seq(Words)]
  /\ MaxMarks \in Nat /\ MaxChanges \in Nat

(* Documents.  A list field holds a list, or a plain text where a change    *)
(* or an answer has put one.  The list of changes finds the text of an      *)
(* object that has it under name, label or value, and of no other.          *)

Text == [marks: 0..MaxMarks, word: Words, kind: {"text"}]
          \cup [marks: {0}, word: Words, kind: {"named", "other"}]
Lists == [list: BOOLEAN, items: Seq(Text)]
Years == [from: 0..9, to: 0..9, months: BOOLEAN]
Jobs == [company: Words, years: Years, bullets: Lists]
Documents == [info: Words, summary: Words, jobs: Seq(Jobs), skills: Lists, section: Lists]

(* The schema of a resume, and what a model may put into one. *)
ASSUME Inputs ==
  /\ Uploads \cup Masters \subseteq Documents
  /\ Values \subseteq Text /\ Orders \subseteq Seq(Text)

VARIABLES
  stage,      \* the pass that comes next
  markdown,   \* the document as it was uploaded
  original,   \* structured data of the resume
  master,     \* structured data of the master
  targets,    \* verified skill targets
  doc,        \* the tailored document so far
  unrefined,  \* the document before the refinement
  applied,    \* changes that were applied
  invented,   \* some change brought a figure that was not there
  refined,    \* the refinement went through
  improved,   \* what the preview was made of, not yet in canonical form
  hash        \* hash stored for the preview (the document that was hashed)

vars == <<stage, markdown, original, master, targets, doc, unrefined, applied, invented,
          refined, improved, hash>>

Stages == {"parse", "plan", "diff", "nets", "inject", "phrases", "align", "store",
           "shown", "accepted", "rejected", "mismatch"}

----------------------------------------------------------------------------
Plain(w) == [marks |-> 0, word |-> w, kind |-> "text"]
Object(t, k) == [marks |-> 0, word |-> t.word, kind |-> k]
Items(s) == [list |-> TRUE, items |-> s]
Block(t) == [list |-> FALSE, items |-> <<t>>]

Present == 9     \* "Present" in a range of years; no second year is 0

(* The items of a list at some positions, in their order. *)
Rank(K, k) == Cardinality({i \in K : i <= k})
Kept(s, K) == [n \in 1..Cardinality(K) |-> s[CHOOSE k \in K : Rank(K, k) = n]]

(* How often a word is among the first n items of a list. *)
Times(s, w, n) == Cardinality({k \in 1..n : s[k].word = w})

WordsIn(s) == {t.word : t \in ToSet(s)}
Skills(d) == WordsIn(d.skills.items)
Companies(d) == {d.jobs[j].company : j \in DOMAIN d.jobs}

OnJobs(d, F(_)) == [d EXCEPT !.jobs = [j \in DOMAIN @ |-> F(@[j])]]

OnlyTexts(l) == l.list /\ \A k \in DOMAIN l.items : l.items[k].kind = "text"

(* _coerce_string_list: one bullet mark of a text is taken off, an object   *)
(* gives its text, blank lines go.                                         *)
Stripped(t) == [marks |-> IF t.marks > 0 THEN t.marks - 1 ELSE 0, word |-> t.word, kind |-> "text"]

Written(s) == Kept(s, {k \in DOMAIN s : s[k] # Plain(Blank)})

CoercedList(l) == Items(Written([k \in DOMAIN l.items |-> Stripped(l.items[k])]))

(* ResumeData.model_validate(d).model_dump() *)
Normalize(d) ==
  LET job(j) == [j EXCEPT !.bullets = CoercedList(@)]
  IN [OnJobs(d, job) EXCEPT !.skills = CoercedList(@), !.section = CoercedList(@)]

(* _extract_all_text: plain texts in the place of a list are passed over.   *)
TextOf(d) ==
  ({d.summary} \cup Companies(d) \cup (IF d.skills.list THEN Skills(d) ELSE {})
    \cup WordsIn(d.section.items)
    \cup UNION {IF d.jobs[j].bullets.list THEN WordsIn(d.jobs[j].bullets.items) ELSE {}
                  : j \in DOMAIN d.jobs}) \ {Blank}

----------------------------------------------------------------------------
(* parse_resume_to_json.  The model may drop the months of any date.        *)

YearsShown(x) == SelectSeq(<<x.from, x.to>>, LAMBDA y : y # 0)
YearKey(x) == SelectSeq(<<x.from, x.to>>, LAMBDA y : y \notin {0, Present})

(* restore_dates_from_markdown: the first date of the text with these years. *)
RestoreFromMarkdown(d, md) ==
  LET hits(x) == {k \in DOMAIN md.jobs : YearKey(md.jobs[k].years) = YearsShown(x)}
      date(x) == IF x.months \/ hits(x) = {} THEN x
                 ELSE md.jobs[CHOOSE k \in hits(x) : \A n \in hits(x) : k <= n].years
      job(j) == [j EXCEPT !.years = date(@)]
  IN OnJobs(d, job)

MonthsDropped(d, S) == [d EXCEPT !.jobs = [j \in DOMAIN @ |->
                          IF j \in S THEN [@[j] EXCEPT !.years.months = FALSE] ELSE @[j]]]

Init ==
  /\ stage = "parse"
  /\ markdown \in Uploads
  /\ original = None /\ master = None /\ doc = None /\ unrefined = None
  /\ targets = {} /\ applied = 0 /\ invented = FALSE /\ refined = FALSE
  /\ improved = None /\ hash = None

Parse ==
  /\ stage = "parse"
  /\ \E S \in SUBSET DOMAIN markdown.jobs :
       original' = Normalize(RestoreFromMarkdown(MonthsDropped(markdown, S), markdown))
  /\ \/ master' = original'
     \/ master' \in Masters
  /\ doc' = original'
  /\ stage' = "plan"
  /\ UNCHANGED <<markdown, targets, unrefined, applied, invented, refined, improved, hash>>

(* verify_skill_target_plan.  A plan that fails leaves no targets.          *)
Accepted(d, proposal) ==
  {s \in proposal \ {Blank} : s \in Skills(d) \cup (JDSkills \cap JDWords) \cup TextOf(d)
                              \/ s = d.info}

Plan ==
  /\ stage = "plan"
  /\ \/ \E proposal \in Proposals : targets' = Accepted(original, proposal)
     \/ targets' = {}
  /\ stage' = "diff"
  /\ UNCHANGED <<markdown, original, master, doc, unrefined, applied, invented, refined, improved, hash>>

----------------------------------------------------------------------------
(* apply_diffs, one change at a time.  A change that is rejected has no     *)
(* effect and is left out.                                                 *)

Paths ==
  [field: {"summary", "skills", "personalInfo", "customSections"}, job: {0}, bullet: {0}]
    \cup [field: {"description", "company", "years"}, job: DOMAIN doc.jobs, bullet: {0}]
    \cup UNION {[field: {"bullet"}, job: {j}, bullet: DOMAIN doc.jobs[j].bullets.items]
                  : j \in {n \in DOMAIN doc.jobs : doc.jobs[n].bullets.list}}

(* mutant: neither the whitelist nor the blocked names are looked at *)
EditableAny(p) == TRUE

(* _is_path_allowed, _is_path_blocked *)
Editable(p) ==
  /\ p.field \in {"summary", "description", "bullet", "skills"}
  /\ p.field \notin {"personalInfo", "customSections", "company", "years"}

(* _resolve_path: a path that holds one text, and a path that holds a list. *)
TextAt(p) ==
  CASE p.field = "summary" -> doc.summary
    [] p.field = "bullet"  -> doc.jobs[p.job].bullets.items[p.bullet].word
    [] OTHER               -> None

ListAt(p) ==
  CASE p.field = "skills"      -> doc.skills
    [] p.field = "description" -> doc.jobs[p.job].bullets
    [] OTHER                   -> Block(Plain(Blank))

(* _set_at_path *)
Write(p, v) ==
  CASE p.field = "summary"        -> [doc EXCEPT !.summary = v.word]
    [] p.field = "bullet"         -> [doc EXCEPT !.jobs[p.job].bullets.items[p.bullet] = v]
    [] p.field = "description"    -> [doc EXCEPT !.jobs[p.job].bullets = Block(v)]
    [] p.field = "skills"         -> [doc EXCEPT !.skills = Block(v)]
    [] p.field = "company"        -> [doc EXCEPT !.jobs[p.job].company = v.word]
    [] p.field = "years"          -> [doc EXCEPT !.jobs[p.job].years.months = FALSE]
    [] p.field = "personalInfo"   -> [doc EXCEPT !.info = v.word]
    [] p.field = "customSections" -> [doc EXCEPT !.section = Block(v)]

WriteList(p, s) ==
  IF p.field = "skills" THEN [doc EXCEPT !.skills.items = s]
                        ELSE [doc EXCEPT !.jobs[p.job].bullets.items = s]

Changing == stage = "diff" /\ applied < MaxChanges

Applying(d) ==
  /\ doc' = d
  /\ applied' = applied + 1
  /\ UNCHANGED <<stage, markdown, original, master, targets, unrefined, refined, improved, hash>>

(* _verify_original_matches: nothing is compared when the change brings no  *)
(* original, and the value may then take the place of a whole list.        *)
Replace ==
  /\ Changing
  /\ \E p \in {q \in Paths : Editable(q)}, v \in Values, was \in Words \cup {None} :
       /\ was \in {None, TextAt(p)}
       /\ Applying(Write(p, v))
       /\ invented' = (invented \/ (v.word \in Metrics /\ was # v.word))

(* Nothing but the path is looked at: a skill may be appended that is not a *)
(* verified target.                                                        *)
AppendText ==
  /\ Changing
  /\ \E p \in {q \in Paths : Editable(q)}, v \in Values :
       /\ ListAt(p).list /\ v.word # Blank
       /\ Applying(WriteList(p, Append(ListAt(p).items, v)))
       /\ invented' = (invented \/ v.word \in Metrics)

AddSkill ==
  /\ Changing
  /\ \E v \in Values :
       /\ doc.skills.list /\ v.word # Blank
       /\ v.word \notin Skills(doc) /\ v.word \in targets
       /\ Applying([doc EXCEPT !.skills.items = Append(@, v)])
       /\ UNCHANGED invented

(* The new order of a list: its own items where the model puts them, each   *)
(* as often as it was there, new skills if they are targets, and then the  *)
(* items that the model has left out.                                      *)
Reordered(items, order, skills) ==
  LET Count(l, w) == Times(l, w, Len(l))
      own(k) == Times(order, order[k].word, k - 1) < Count(items, order[k].word)
      new(k) == /\ skills /\ order[k].word \in targets
                /\ Count(items, order[k].word) = 0 /\ Times(order, order[k].word, k - 1) = 0
      left(k) == Times(items, items[k].word, k - 1) >= Count(order, items[k].word)
  IN Kept(order, {k \in DOMAIN order : own(k) \/ new(k)}) \o Kept(items, {k \in DOMAIN items : left(k)})

Reorder ==
  /\ Changing
  /\ \E p \in {q \in Paths : Editable(q)}, order \in Orders :
       /\ ListAt(p).list
       /\ Applying(WriteList(p, Reordered(ListAt(p).items, order, p.field = "skills")))
       /\ UNCHANGED invented

(* verify_diff_result: what the user is told. *)
Warnings ==
  (IF applied = 0 THEN {"unchanged"} ELSE {})
    \cup (IF Len(original.jobs) # Len(doc.jobs) THEN {"count"} ELSE {})
    \cup (IF \E j \in DOMAIN original.jobs \cap DOMAIN doc.jobs :
               original.jobs[j].company # doc.jobs[j].company THEN {"identity"} ELSE {})
    \cup (IF invented THEN {"metric"} ELSE {})

DiffDone ==
  /\ stage = "diff"
  /\ stage' = "nets"
  /\ UNCHANGED <<markdown, original, master, targets, doc, unrefined, applied, invented,
                 refined, improved, hash>>

----------------------------------------------------------------------------
(* The safety nets: _preserve_personal_info, _restore_original_dates,       *)
(* restore_dates_from_markdown, _preserve_original_skills,                 *)
(* _protect_custom_sections.                                               *)

WithOriginalDates(d) ==
  [d EXCEPT !.jobs = [j \in DOMAIN @ |->
     IF j \in DOMAIN original.jobs /\ original.jobs[j].years.months /\ ~@[j].years.months
       THEN [@[j] EXCEPT !.years = original.jobs[j].years] ELSE @[j]]]

(* mutant: skills that the model has dropped stay dropped *)
WithOriginalSkillsDropped(d) == d

WithOriginalSkills(d) ==
  LET current == IF d.skills.list THEN d.skills.items ELSE <<>>
      own == original.skills.items
      dropped == {k \in DOMAIN own : /\ own[k].word \notin WordsIn(current)
                                     /\ Times(own, own[k].word, k - 1) = 0}
  IN IF own = <<>> THEN d ELSE [d EXCEPT !.skills = Items(current \o Kept(own, dropped))]

WithOriginalSection(d) ==
  LET n == Len(original.section.items)
  IN IF n = 0 \/ Len(d.section.items) <= n THEN d
     ELSE [d EXCEPT !.section.items = SubSeq(@, 1, n)]

Nets ==
  /\ stage = "nets"
  /\ LET dated == RestoreFromMarkdown(
                    WithOriginalDates([doc EXCEPT !.info = original.info]), markdown)
     IN doc' = WithOriginalSection(WithOriginalSkills(dated))
  /\ unrefined' = doc'
  /\ stage' = "inject"
  /\ UNCHANGED <<markdown, original, master, targets, applied, invented, refined, improved, hash>>

----------------------------------------------------------------------------
(* refine_resume.                                                          *)

(* analyze_keyword_gaps *)
Injectable == {k \in JDSkills : k \notin TextOf(doc) /\ k \in TextOf(master)}

(* Documents that the model may give back: with a skill, a job or a part of *)
(* a section more, with other personal details, with a job less.  Skills    *)
(* and bullets may be objects, or a plain text in the place of the list.    *)
Rewrites(d) ==
  LET added == Values \cup {Object(v, k) : v \in Values, k \in {"named", "other"}}
      lists(l) == {Block(v) : v \in Values} \cup {Items(Append(l.items, x)) : x \in added}
  IN {[d EXCEPT !.skills = l] : l \in lists(d.skills)}
       \cup {[d EXCEPT !.info = v.word] : v \in Values}
       \cup {[d EXCEPT !.section.items = Append(@, v)] : v \in Values}
       \cup {[d EXCEPT !.jobs = Append(@, [company |-> v.word, bullets |-> Items(<<>>),
                years |-> [from |-> 1, to |-> 0, months |-> FALSE]])] : v \in Values}
       \cup (IF d.jobs = <<>> THEN {} ELSE {[d EXCEPT !.jobs = Tail(@)]})
       \cup UNION {{[d EXCEPT !.jobs[j].bullets = l] : l \in lists(d.jobs[j].bullets)}
                     : j \in DOMAIN d.jobs}

(* inject_keywords: what the model gives back is taken if it has personal   *)
(* details and a list of jobs, otherwise nothing changes.                   *)
Inject ==
  /\ stage = "inject"
  /\ doc' \in {doc} \cup (IF Injectable = {} THEN {} ELSE Rewrites(doc))
  /\ stage' = "phrases"
  /\ UNCHANGED <<markdown, original, master, targets, unrefined, applied, invented, refined, improved, hash>>

(* remove_ai_phrases goes through every text of the document, names and     *)
(* personal details too; phrases of the job description stay.              *)
CleanWord(w) == IF w \in JDWords THEN w ELSE Cleaned[w]

RemovePhrases ==
  /\ stage = "phrases"
  /\ LET text(t) == [t EXCEPT !.word = CleanWord(@)]
         list(l) == [l EXCEPT !.items = [k \in DOMAIN @ |-> text(@[k])]]
         job(j) == [j EXCEPT !.company = CleanWord(@), !.bullets = list(@)]
     IN doc' = [OnJobs(doc, job) EXCEPT !.info = CleanWord(@), !.summary = CleanWord(@),
                                        !.skills = list(@), !.section = list(@)]
  /\ stage' = "align"
  /\ UNCHANGED <<markdown, original, master, targets, unrefined, applied, invented, refined, improved, hash>>

(* What a walk over a list field meets: its items, or the characters of a   *)
(* plain text (bullet marks aside).  Only texts are looked at.              *)
Entries(l) ==
  IF l.list \/ l.items = <<>> THEN l.items
  ELSE LET c == Letters[l.items[1].word] IN [k \in DOMAIN c |-> Plain(c[k])]

Named(l) == {t.word : t \in {e \in ToSet(Entries(l)) : e.kind = "text"}}

(* mutant: what is part of the job description counts as a skill of the user *)
FabricatedUnlessWanted(d) ==
  [skills |-> {s \in Named(d.skills) \ Named(master.skills) : s \notin JDWords},
   companies |-> Companies(d) \ (Companies(master) \cup {Blank})]

(* validate_master_alignment: the critical violations. *)
Fabricated(d) ==
  [skills |-> {s \in Named(d.skills) \ Named(master.skills) :
                 /\ s \notin JDSkills \cap JDWords
                 /\ \A m \in Named(master.skills) \ {Blank} : {<<s, m>>, <<m, s>>} \cap Partial = {}
                 /\ s \notin TextOf(master)},
   companies |-> Companies(d) \ (Companies(master) \cup {Blank})]

(* fix_alignment_violations: where a skill must go, what was a plain text   *)
(* becomes the list of its other characters, and an object among the skills *)
(* makes the refinement fail.                                              *)
Align ==
  /\ stage = "align"
  /\ LET f == Fabricated(doc)
         skills == Entries(doc.skills)
         own == {k \in DOMAIN skills : skills[k].word \notin f.skills}
         known == {j \in DOMAIN doc.jobs : doc.jobs[j].company \notin f.companies}
     IN /\ f.skills # {} => \A k \in DOMAIN skills : skills[k].kind = "text"
        /\ doc' = [doc EXCEPT !.skills = IF f.skills = {} THEN @ ELSE Items(Kept(skills, own)),
                              !.jobs = Kept(@, known)]
  /\ refined' = TRUE
  /\ stage' = "store"
  /\ UNCHANGED <<markdown, original, master, targets, unrefined, applied, invented, improved,
                 hash>>

(* The refinement raises, or there is no master: the unrefined document.    *)
RefineFails ==
  /\ stage \in {"inject", "phrases", "align"}
  /\ doc' = unrefined
  /\ stage' = "store"
  /\ UNCHANGED <<markdown, original, master, targets, unrefined, applied, invented, refined, improved, hash>>

----------------------------------------------------------------------------
(* Preview and confirmation.                                               *)

(* _normalize_string_list: what the list of changes sees of a field.  What  *)
(* is no list is empty, and bullet marks stay.                             *)
Listed(l) ==
  LET text(t) == IF t.kind = "other" THEN Plain(Blank) ELSE [t EXCEPT !.kind = "text"]
  IN IF l.list THEN Written([k \in DOMAIN l.items |-> text(l.items[k])]) ELSE <<>>

(* mutant: bullets are not compared *)
ChangedWithoutBullets(d) ==
  (IF d.summary # original.summary THEN {"summary"} ELSE {})
    \cup (IF ToSet(Listed(d.skills)) # ToSet(Listed(original.skills)) THEN {"skills"} ELSE {})
    \cup (IF Companies(d) # Companies(original) THEN {"experience"} ELSE {})

(* calculate_resume_diff: the fields that the user is shown as changed.     *)
Changed(d) ==
  (IF d.summary # original.summary THEN {"summary"} ELSE {})
    \cup (IF ToSet(Listed(d.skills)) # ToSet(Listed(original.skills)) THEN {"skills"} ELSE {})
    \cup (IF \E j \in DOMAIN d.jobs \cap DOMAIN original.jobs :
               Listed(d.jobs[j].bullets) # Listed(original.jobs[j].bullets)
            THEN {"description"} ELSE {})
    \cup (IF \/ Len(d.jobs) # Len(original.jobs)
             \/ \E j \in DOMAIN d.jobs \cap DOMAIN original.jobs :
                  <<d.jobs[j].company, d.jobs[j].years>>
                    # <<original.jobs[j].company, original.jobs[j].years>>
            THEN {"experience"} ELSE {})

(* _hash_improved_data hashes the document in its canonical form. *)
HashOf(d) == Normalize(d)

StorePreview ==
  /\ stage = "store"
  /\ improved' = doc /\ hash' = HashOf(doc)
  /\ doc' = Normalize(doc)
  /\ stage' = "shown"
  /\ UNCHANGED <<markdown, original, master, targets, unrefined, applied, invented, refined>>

(* improve_resume_confirm_endpoint: the client sends back what it was shown. *)
Confirm ==
  /\ stage = "shown"
  /\ doc' = Normalize(doc)
  /\ stage' = IF doc'.info # original.info THEN "rejected"
              ELSE IF HashOf(doc') # hash THEN "mismatch"
              ELSE "accepted"
  /\ UNCHANGED <<markdown, original, master, targets, unrefined, applied, invented, refined, improved, hash>>

Next ==
  \/ Parse \/ Plan
  \/ Replace \/ AppendText \/ AddSkill \/ Reorder \/ DiffDone
  \/ Nets \/ Inject \/ RemovePhrases \/ Align \/ RefineFails
  \/ StorePreview \/ Confirm

Spec == Init /\ [][Next]_vars

----------------------------------------------------------------------------
(* Properties                                                              *)

(* Every variable keeps its type.                                          *)
TypeOK ==
  /\ stage \in Stages /\ targets \subseteq Words /\ applied \in 0..MaxChanges
  /\ {original, master, doc, unrefined, improved, hash} \subseteq Documents \cup {None}

(* Whatever the model asks for, the diff leaves personal details, custom    *)
(* sections, the jobs, their companies and their dates alone, so that the  *)
(* checks of verify_diff_result on them never fire.                        *)
DiffsStayInBounds ==
  stage = "nets" =>
    /\ doc.info = original.info /\ doc.section = original.section
    /\ [j \in DOMAIN doc.jobs |-> <<doc.jobs[j].company, doc.jobs[j].years>>]
         = [j \in DOMAIN original.jobs |-> <<original.jobs[j].company, original.jobs[j].years>>]
    /\ Warnings \subseteq {"unchanged", "metric"}

(* No order that the model may propose loses an item of a list, drops one   *)
(* of two equal items, or brings in a skill that is not a verified target. *)
ReorderKeepsItems ==
  stage = "diff" =>
    \A order \in Orders :
      LET new == Reordered(doc.skills.items, order, TRUE)
          Count(s, w) == Times(s, w, Len(s))
      IN \A w \in Words : \/ Count(new, w) = Count(doc.skills.items, w)
                          \/ w \notin Skills(doc) /\ w \in targets /\ Count(new, w) = 1

(* Documents stay documents, and a diff changes no more than it may.        *)
DiffsConsistent == TypeOK /\ DiffsStayInBounds /\ ReorderKeepsItems

(* After the safety nets every skill of the original is there, also when a  *)
(* change has put a single text in the place of the whole list; the list    *)
(* is one again then, if the original has any skill.                        *)
OriginalSkillsRestored ==
  stage = "inject" => /\ Skills(original) \subseteq Skills(doc)
                      /\ original.skills.items # <<>> => doc.skills.list

(* A skill that the master or the job knows. *)
Known(s) ==
  \/ s \in Named(master.skills) \cup (JDSkills \cap JDWords) \cup TextOf(master)
  \/ \E m \in Named(master.skills) \ {Blank} : {<<s, m>>, <<m, s>>} \cap Partial # {}

(* A refined document names only companies that the master knows, and, if   *)
(* its skills came as a list of texts, only skills that the master or the   *)
(* job knows, whichever pass or answer brought them in.                    *)
RefinedIsGrounded ==
  stage \in {"shown", "accepted"} /\ refined =>
    /\ Companies(doc) \subseteq Companies(master) \cup {Blank}
    /\ OnlyTexts(improved.skills) => \A s \in Skills(doc) : Known(s)

(* The list of changes leaves nothing out but personal details, custom      *)
(* sections and the order of the skills: not at the confirmation, where it  *)
(* is made from the canonical document, nor with the preview, where it is   *)
(* made from the document of before, in the fields that are lists of texts. *)
SilentDiffMeansUnchanged ==
  /\ stage = "accepted" /\ Changed(doc) = {} =>
       /\ ToSet(doc.skills.items) = ToSet(original.skills.items)
       /\ [doc EXCEPT !.info = original.info, !.section = original.section,
                      !.skills = original.skills] = original
  /\ stage = "shown" /\ Changed(improved) = {} =>
       /\ doc.summary = original.summary /\ DOMAIN doc.jobs = DOMAIN original.jobs
       /\ OnlyTexts(improved.skills) => ToSet(doc.skills.items) = ToSet(original.skills.items)
       /\ \A j \in DOMAIN doc.jobs :
            /\ doc.jobs[j].company = original.jobs[j].company
            /\ doc.jobs[j].years = original.jobs[j].years
            /\ OnlyTexts(improved.jobs[j].bullets) => doc.jobs[j].bullets = original.jobs[j].bullets

(* validate_master_alignment says that no fabricated content is left: a     *)
(* refined document names no other skills, in whatever form they came.      *)
RefinedNamesNoOtherSkill ==
  stage = "shown" /\ refined => \A s \in Skills(doc) : Known(s)

(* The preview is shown with the changes it makes: where none is listed,    *)
(* bullets and skills are those of the original, in whatever form they came. *)
PreviewListsEveryChange ==
  stage = "shown" /\ Changed(improved) = {} =>
    /\ ToSet(doc.skills.items) = ToSet(original.skills.items)
    /\ \A j \in DOMAIN doc.jobs : doc.jobs[j].bullets = original.jobs[j].bullets

(* _hash_improved_data says that a payload hashes like its canonical form,  *)
(* so that a valid tailoring is not rejected: a client that sends back what *)
(* it was shown is not told that the preview does not match.               *)
EchoesMatch == stage # "mismatch"

(* parse_resume_to_json says that months are never lost.                    *)
MonthsNeverLost ==
  stage = "plan" => \A j \in DOMAIN markdown.jobs :
    markdown.jobs[j].years.months => original.jobs[j].years = markdown.jobs[j].years

(* _preserve_original_skills says that no original skill is ever lost.      *)
OriginalSkillsKept ==
  stage \in {"shown", "accepted"} => Skills(original) \subseteq Skills(doc)

(* The schema of the prompts says that personal details are preserved from  *)
(* the original.                                                           *)
PreviewKeepsInfo == stage = "shown" => doc.info = original.info

=============================================================================
