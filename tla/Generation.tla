------------------------------ MODULE Generation ------------------------------
(***************************************************************************)
(* The generation of a resume for a job description (app/resume_generation: *)
(* service.py, graph.py, model.py, planner.py, validation.py).  A preview   *)
(* freezes the ready experiences, lets the graph search the evidence index   *)
(* round by round, plan, draft and validate, and stores the result with its  *)
(* run.  A confirmation turns a valid result into a resume, once.  The index *)
(* is the one of EvidenceIndex: it may lag behind the experiences.           *)
(* The language model is any answer its checks accept, or an error.          *)
(***************************************************************************)
EXTENDS EvidenceIndex, Sequences, SequencesExt

CONSTANTS
  Coverage,        \* items of the job description that are to be covered
  Importance,      \* of each item: must, should or nice
  Mentions,        \* pairs of a skill and an item whose text names it
  Section,         \* of each experience: workExperience or personalProjects
  SectionLimits,   \* max_work_experiences, max_project_experiences
  MaxTotal,        \* experiences that fit on the pages
  MaxBullets,      \* max_bullets_per_experience
  MaxSearchRounds, \* max_search_rounds
  Modes,           \* modes a preview may be asked for
  Clients          \* concurrent confirmations

ASSUME Limits ==
  /\ MaxTotal \in Nat /\ MaxBullets \in Nat \ {0} /\ MaxSearchRounds \in Nat \ {0}
  /\ SectionLimits \in [DOMAIN SectionLimits -> Nat]
  /\ Section \in [Experiences -> DOMAIN SectionLimits]

ASSUME FiniteInputs ==
  /\ Experiences \subseteq Nat /\ IsFiniteSet(Experiences)
  /\ IsFiniteSet(Coverage) /\ Importance \in [Coverage -> {"must", "should", "nice"}]

VARIABLES
  run,      \* row of resume_generation_runs, or NoRun
  graph,    \* state of the graph of the run while it is executed
  resume,   \* the resume the run has generated, or Nothing
  confirm   \* per client: what its confirmation has read

vars == <<library, open, points, job, thread, edits, faults, timeouts, run, graph, resume, confirm>>

Nothing == [none |-> TRUE]
NoRun == [status |-> "none", artifact |-> "pending", resume |-> FALSE]
NoGraph == [node |-> "none"]
NoPlan == [selected |-> <<>>, promoted |-> {}, covered |-> {}]

----------------------------------------------------------------------------
(* Judgments: [evidence, experience, coverage, risk, skills], one for every   *)
(* candidate (a model may repeat one: only the ids are compared).  What the    *)
(* plan ignores alike, for it covers nothing or stays below a threshold,       *)
(* covers nothing here.  risk says whether the judge recorded an unsupported   *)
(* risk.                                                                      *)

Weight == [must |-> 300, should |-> 200, nice |-> 100]

(* Scores in hundredths, the same but for the risk. *)
Score(j) == 60 - IF j.risk THEN 15 ELSE 0

Better(j, k) == Score(j) > Score(k) \/ (Score(j) = Score(k) /\ j.evidence < k.evidence)

CoverageOf(rows) == UNION {j.coverage : j \in rows}

SectionFull(sel, x) ==
  Cardinality({y \in DOMAIN sel : Section[y] = Section[x]}) >= SectionLimits[Section[x]]

(* The best rows of an experience, within its bullets. *)
ChosenRows(rows) == {j \in rows : Cardinality({k \in rows : Better(k, j)}) < MaxBullets}

Utility(rows, covered) ==
  SumFunction([i \in CoverageOf(rows) \ covered |-> Weight[Importance[i]]])
  + SumFunction([j \in rows |-> Score(j)]) \div Cardinality(rows)
  + 37
  - 35 * Cardinality(CoverageOf(rows) \cap covered)

(* What is selected and covered so far; the use of a further experience.     *)
NothingSelected == [selected |-> <<>>, covered |-> {}]
Use(Rows, acc, x) == Utility(ChosenRows(Rows[x]), acc.covered)

Useful(Rows, acc) ==
  {x \in DOMAIN Rows \ DOMAIN acc.selected :
     ~SectionFull(acc.selected, x) /\ Use(Rows, acc, x) > 0}

(* The experience of most use, the smallest id among equals.                 *)
Best(Rows, acc) ==
  LET use == [x \in Useful(Rows, acc) |-> Use(Rows, acc, x)] IN
  CHOOSE x \in DOMAIN use : \A y \in DOMAIN use : use[x] > use[y] \/ (use[x] = use[y] /\ x <= y)

Select(Rows, acc, best) ==
  [selected |-> [x \in DOMAIN acc.selected \cup {best} |->
                   IF x = best THEN ChosenRows(Rows[x]) ELSE acc.selected[x]],
   covered |-> acc.covered \cup CoverageOf(ChosenRows(Rows[best]))]

(* A round of the loop; nothing changes any more once it would have ended.   *)
SelectStep(Rows, acc) ==
  IF Useful(Rows, acc) = {} \/ Cardinality(DOMAIN acc.selected) >= MaxTotal THEN acc
  ELSE Select(Rows, acc, Best(Rows, acc))

(* assemble_plan, the greedy selection, until the pages are full or nothing   *)
(* is of use.                                                                *)
SelectFrom(Rows) ==
  LET after[n \in 0..Cardinality(Experiences)] ==
        IF n = 0 THEN NothingSelected ELSE SelectStep(Rows, after[n - 1])
  IN after[Cardinality(Experiences)]

(* assemble_plan, the skills: a label of an experience that was left out is  *)
(* kept as a skill if its evidence covers something new that names it.       *)
Promote(Rows, greedy) ==
  LET left == UNION {Rows[x] : x \in DOMAIN Rows \ DOMAIN greedy.selected}
      order == SetToSortSeq(left, LAMBDA j, k : j.experience < k.experience
                                    \/ (j.experience = k.experience /\ Better(j, k)))
      Step(acc, j) ==
        LET unique == j.coverage \ acc.covered
            new == {s \in j.skills : /\ \A p \in acc.promoted : p.skill # s
                                     /\ \E i \in unique : <<s, i>> \in Mentions}
        IN IF new = {} THEN acc
           ELSE [promoted |-> acc.promoted \cup {[skill |-> s, evidence |-> j.evidence] : s \in new},
                 covered |-> acc.covered \cup unique]
  IN FoldLeft(Step, [promoted |-> {}, covered |-> greedy.covered], order).promoted

(* assemble_plan. *)
AssemblePlan(snapshot, judgments) ==
  LET valid == {j \in judgments : j.experience \in snapshot.ready /\ j.coverage # {}}
      Rows == [x \in {j.experience : j \in valid} |-> {j \in valid : j.experience = x}]
      greedy == SelectFrom(Rows)
      promoted == Promote(Rows, greedy)
      cited == {j.evidence : j \in UNION {greedy.selected[x] : x \in DOMAIN greedy.selected}}
               \cup {p.evidence : p \in promoted}
  IN [selected |-> [x \in DOMAIN greedy.selected |-> {j.evidence : j \in greedy.selected[x]}],
      promoted |-> promoted,
      covered |-> CoverageOf({j \in valid : j.evidence \in cited})]

Planned(plan) == UNION {plan.selected[x] : x \in DOMAIN plan.selected}
Gaps(plan) == {i \in Coverage \ plan.covered : Importance[i] \in {"must", "should"}}

----------------------------------------------------------------------------
InitGeneration ==
  /\ run = NoRun /\ graph = NoGraph /\ resume = Nothing
  /\ confirm = [c \in Clients |-> [stage |-> "idle"]]

IndexKept == UNCHANGED indexVars

Snapshot == [library EXCEPT !.ready = {x \in @ : EvidenceOf(library, x) # {}}]

(* preview, up to the commit of the running run.  analyze_jd needs nothing of *)
(* what follows; its items are Coverage.                                      *)
Preview(mode) ==
  /\ run.status = "none" /\ Snapshot.ready # {}
  /\ run' = [status |-> "running", artifact |-> "pending", resume |-> FALSE, mode |-> mode]
  /\ graph' = [node |-> "retrieve", snapshot |-> Snapshot, round |-> 1,
               retrieved |-> {}, new |-> 0, plan |-> NoPlan, draft |-> Nothing]
  /\ UNCHANGED <<resume, confirm>> /\ IndexKept

(* merge_retrieval_rounds: a document that is found again stays as it was. *)
MergeRounds(previous, current) ==
  previous \cup {d \in current : \A p \in previous : p.id # d.id}

(* retrieve: any hits among the points of the frozen evidence. *)
Retrieve ==
  /\ graph.node = "retrieve"
  /\ \E hits \in SUBSET {p \in points : p.id \in DOMAIN graph.snapshot.owner
                                        /\ graph.snapshot.owner[p.id] \in graph.snapshot.ready} :
       LET merged == MergeRounds(graph.retrieved, hits) IN
       graph' = [graph EXCEPT !.node = "judge", !.retrieved = merged,
                              !.new = Cardinality(merged) - Cardinality(graph.retrieved)]
  /\ UNCHANGED <<run, resume, confirm>> /\ IndexKept

Judgment(d) ==
  {j \in [evidence : {d.id}, experience : {d.experience}, coverage : SUBSET Coverage,
           risk : BOOLEAN, skills : SUBSET d.labels] :
     j.coverage = {} => ~j.risk /\ j.skills = d.labels}

(* The rules name every label and no risk; the model may do either. *)
RuleJudgment(d) == {j \in Judgment(d) : j.skills = d.labels /\ ~j.risk}

Judgments(mode) ==
  {f \in [graph.retrieved -> UNION {Judgment(d) : d \in graph.retrieved}] :
     \A d \in graph.retrieved :
       f[d] \in IF mode = "deterministic" THEN RuleJudgment(d) ELSE Judgment(d)}

SearchMore(plan, new, round) ==
  Gaps(plan) # {} /\ round < MaxSearchRounds /\ (round = 1 \/ new > 0)

(* judge_evidence, assemble_plan and the route: nothing is read in between. *)
JudgeAndPlan ==
  /\ graph.node = "judge"
  /\ \E f \in Judgments(run.mode) :
       LET plan == AssemblePlan(graph.snapshot, {f[d] : d \in graph.retrieved}) IN
       graph' = IF SearchMore(plan, graph.new, graph.round)
                  THEN [graph EXCEPT !.node = "retrieve", !.round = @ + 1]
                  ELSE [graph EXCEPT !.node = "draft", !.plan = plan, !.retrieved = {}]
  /\ UNCHANGED <<run, resume, confirm>> /\ IndexKept

----------------------------------------------------------------------------
(* A draft: bullets [experience, evidence], and a summary with its evidence.  *)
(* Bullets that cite the same are one.                                        *)

(* The rules: one bullet per planned item of evidence.  An item that is not  *)
(* of its experience in the snapshot raises KeyError.                        *)
RuleDraftRaises(snapshot, plan) ==
  \E x \in DOMAIN plan.selected : ~(plan.selected[x] \subseteq EvidenceOf(snapshot, x))

RuleDraft(plan) ==
  [bullets |-> UNION {{[experience |-> x, evidence |-> {e}] : e \in plan.selected[x]} :
                        x \in DOMAIN plan.selected},
   summary |-> [written |-> plan.covered # {}, evidence |-> Planned(plan)]]

(* What the checks of the model's draft accept: every planned experience,    *)
(* within its budget, and planned evidence for every bullet and the summary. *)
ModelDrafts(plan) ==
  LET bullets == UNION {[experience : {x}, evidence : SUBSET plan.selected[x] \ {{}}] : x \in DOMAIN plan.selected}
      summaries == {[written |-> E # {}, evidence |-> E] : E \in SUBSET Planned(plan)}
      Of(x, bs) == {b \in bs : b.experience = x}
  IN {d \in [bullets : SUBSET bullets, summary : summaries] :
        \A x \in DOMAIN plan.selected :
          Of(x, d.bullets) # {} /\ Cardinality(Of(x, d.bullets)) <= Cardinality(plan.selected[x])}

Drafts(mode) ==
  (IF mode = "deterministic" THEN {} ELSE ModelDrafts(graph.plan))
  \cup IF mode # "llm" /\ ~RuleDraftRaises(graph.snapshot, graph.plan) THEN {RuleDraft(graph.plan)} ELSE {}

Draft ==
  /\ graph.node = "draft"
  /\ \E d \in Drafts(run.mode) : graph' = [graph EXCEPT !.node = "validate", !.draft = d]
  /\ UNCHANGED <<run, resume, confirm>> /\ IndexKept

(* mutant: whose evidence it is is not looked up in the snapshot *)
CitesUnowned(plan, b, snapshot) ==
  b.evidence # {} /\ b.experience \in DOMAIN plan.selected
  /\ b.evidence \subseteq plan.selected[b.experience]

(* validate_draft_references, for a bullet. *)
Cites(plan, b, snapshot) ==
  /\ b.evidence # {} /\ b.experience \in DOMAIN plan.selected
  /\ b.evidence \subseteq plan.selected[b.experience]
  /\ \A e \in b.evidence : e \in EvidenceOf(snapshot, b.experience)

ReferencesValid(plan, draft, snapshot) ==
  /\ \A b \in draft.bullets : Cites(plan, b, snapshot)
  /\ draft.summary.written =>
       draft.summary.evidence # {} /\ draft.summary.evidence \subseteq Planned(plan) \cap DOMAIN snapshot.owner

(* validate_draft: the model finds every claim supported or not, and is not  *)
(* asked if there is none; without it there is no verdict, which auto does   *)
(* not accept.                                                               *)
FactChecks(mode, draft) ==
  CASE mode = "deterministic" -> {"skipped"}
    [] mode # "deterministic" /\ draft.bullets = {} /\ ~draft.summary.written -> {"supported"}
    [] OTHER -> {"supported", "refuted"} \cup IF mode = "auto" THEN {"failed"} ELSE {}

(* compose_draft_validation. *)
Valid(check) ==
  /\ ReferencesValid(graph.plan, graph.draft, graph.snapshot)
  /\ check \in {"supported", "skipped"}

(* The commit of preview: the run is completed and its artifact stored in one *)
(* transaction.                                                             *)
Completed(check) ==
  [status |-> "completed", artifact |-> "previewed", resume |-> run.resume, mode |-> run.mode,
   snapshot |-> graph.snapshot, plan |-> graph.plan, draft |-> graph.draft,
   check |-> check, valid |-> Valid(check)]

Complete ==
  /\ graph.node = "validate"
  /\ \E check \in FactChecks(run.mode, graph.draft) : run' = Completed(check)
  /\ graph' = NoGraph
  /\ UNCHANGED <<resume, confirm>> /\ IndexKept

(* A node raises: the search, the model in mode llm, or the rules' draft.    *)
Raises ==
  \/ graph.node = "retrieve"
  \/ graph.node \in {"judge", "validate"} /\ run.mode = "llm"
  \/ /\ graph.node = "draft"
     /\ run.mode = "llm" \/ RuleDraftRaises(graph.snapshot, graph.plan)

Fail ==
  /\ Raises
  /\ run' = [run EXCEPT !.status = "failed"]
  /\ graph' = NoGraph
  /\ UNCHANGED <<resume, confirm>> /\ IndexKept

----------------------------------------------------------------------------
(* confirm.                                                                 *)

(* mutant: any previewed run may be confirmed *)
ConfirmableInvalid(row) == row.status = "completed" /\ row.artifact = "previewed"

Confirmable(row) ==
  /\ row.status = "completed" /\ row.artifact = "previewed" /\ row.valid
  /\ row.mode # "deterministic" => row.check = "supported"

(* materialize_resume: the document has what the draft says, the technologies *)
(* of the selected experiences and the skills that the plan has promoted;      *)
(* nothing of a resume there was before.                                      *)
Materialized(row) ==
  [draft |-> row.draft,
   skills |-> UNION {row.snapshot.labels[x] : x \in DOMAIN row.plan.selected}
              \cup {p.skill : p \in row.plan.promoted}]

(* The run is read: answered at once, refused, or the confirmation goes on. *)
ConfirmRead(c) ==
  /\ confirm[c].stage = "idle" /\ run.status # "none"
  /\ confirm' = [confirm EXCEPT ![c] =
       IF run.resume THEN [stage |-> "confirmed"]
       ELSE IF Confirmable(run) THEN [stage |-> "look"] ELSE @]
  /\ run.resume \/ Confirmable(run)
  /\ UNCHANGED <<run, graph, resume>> /\ IndexKept

(* The resume is looked up under the id of the run. *)
ConfirmLook(c) ==
  /\ confirm[c].stage = "look"
  /\ confirm' = [confirm EXCEPT ![c] = [stage |-> "write", existing |-> resume # Nothing]]
  /\ UNCHANGED <<run, graph, resume>> /\ IndexKept

(* mutant: the resume is committed before the run *)
ConfirmedRunLater == run

ConfirmedRun == [run EXCEPT !.artifact = "confirmed", !.resume = TRUE]

(* update flushes the new resume and the run, and the transaction commits.   *)
ConfirmWrite(c) ==
  /\ confirm[c].stage = "write"
  /\ confirm[c].existing \/ resume = Nothing
  /\ resume' = IF confirm[c].existing THEN resume
               ELSE Materialized(run)
  /\ run' = ConfirmedRun
  /\ confirm' = [confirm EXCEPT ![c] = [stage |-> "confirmed"]]
  /\ UNCHANGED graph /\ IndexKept

(* The id is taken: the flush raises IntegrityError, before the try statement *)
(* that would recover from it.                                               *)
ConfirmCollides(c) ==
  /\ confirm[c].stage = "write" /\ ~confirm[c].existing /\ resume # Nothing
  /\ confirm' = [confirm EXCEPT ![c] = [stage |-> "error"]]
  /\ UNCHANGED <<run, graph, resume>> /\ IndexKept

Confirm(c) == ConfirmRead(c) \/ ConfirmLook(c) \/ ConfirmWrite(c) \/ ConfirmCollides(c)

Graph == Retrieve \/ JudgeAndPlan \/ Draft \/ Complete \/ Fail

Next == \/ IndexNext /\ UNCHANGED <<run, graph, resume, confirm>>
        \/ (\E mode \in Modes : Preview(mode)) \/ Graph
        \/ \E c \in Clients : Confirm(c)

Init == InitIndex /\ InitGeneration

(* A request may be abandoned at any point, which leaves its run running. *)
Spec == Init /\ [][Next]_vars

----------------------------------------------------------------------------
(* Properties.                                                             *)

TypeOK ==
  /\ library.ready \subseteq Experiences /\ open \in [Experiences -> Nat]
  /\ run.status \in {"none", "running", "completed", "failed"}
  /\ run.artifact \in {"pending", "previewed", "confirmed"}
  /\ graph.node \in {"none", "retrieve", "judge", "draft", "validate"}
  /\ graph.node # "none" => graph.round \in 1..MaxSearchRounds
  /\ \A c \in Clients : confirm[c].stage \in {"idle", "look", "write", "confirmed", "error"}

(* Whatever an index that lags behind has returned, a bullet of a generated   *)
(* resume cites evidence that was its experience's when the preview began      *)
(* (validate_draft_references).                                               *)
ResumeIsGrounded ==
  resume # Nothing =>
    \A b \in resume.draft.bullets :
      b.evidence # {} /\ b.evidence \subseteq EvidenceOf(run.snapshot, b.experience)
      /\ b.experience \in run.snapshot.ready

(* A resume that a language model had a hand in was found supported by one,   *)
(* whatever stages fell back to the rules (FallbackResumeGenerationModel,      *)
(* compose_draft_validation, confirm).                                        *)
ResumeWasFactChecked ==
  resume # Nothing => run.mode = "deterministic" \/ run.check = "supported"

(* The resume and the state of its run are one, also when two confirmations   *)
(* overlap, and it is the previewed one (confirm).                            *)
ConfirmedTogether ==
  /\ (resume # Nothing) = (run.artifact = "confirmed") /\ (resume # Nothing) = run.resume
  /\ resume # Nothing => resume.draft = run.draft
  /\ \A c \in Clients : confirm[c].stage = "confirmed" => resume # Nothing

(* The plan keeps the limits of the pages and of every section, and a draft,   *)
(* of the rules or of the model, the bullets of an experience (assemble_plan). *)
PlanWithinLimits ==
  run.artifact # "pending" =>
    /\ \A s \in {Section[x] : x \in Experiences} :
         Cardinality({x \in DOMAIN run.plan.selected : Section[x] = s}) <= SectionLimits[s]
    /\ Cardinality(DOMAIN run.plan.selected) <= MaxTotal
    /\ \A x \in Experiences : Cardinality({b \in run.draft.bullets : b.experience = x}) <= MaxBullets

(* Run, graph and resume agree, and the plan fits the pages.                 *)
RunConsistent == TypeOK /\ ConfirmedTogether /\ PlanWithinLimits

----------------------------------------------------------------------------
(* What the documents say and the code does not do.                         *)

(* A confirmation of a run that may be confirmed answers with its resume      *)
(* (service.py: concurrent confirmations converge to one key).               *)
ConfirmsConverge == \A c \in Clients : confirm[c].stage # "error"

(* A promoted skill is a label its experience really had (planner.py).         *)
SkillsAreReal ==
  resume # Nothing => \A s \in resume.skills : \E x \in run.snapshot.ready : s \in run.snapshot.labels[x]

(* Every selected item of evidence is of its experience (assemble_plan).       *)
PlanIsOwned ==
  run.artifact # "pending" => \A x \in DOMAIN run.plan.selected :
    run.plan.selected[x] \subseteq EvidenceOf(run.snapshot, x)

(* The rules alone always complete a preview whose searches succeed. *)
RulesComplete ==
  graph.node = "draft" /\ run.mode = "deterministic" => ~RuleDraftRaises(graph.snapshot, graph.plan)
=============================================================================
