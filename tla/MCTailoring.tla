---------------------------- MODULE MCTailoring ----------------------------
(* A small vocabulary for Tailoring: "py" and "go" are skills, "python" has *)
(* "py" in it, "synergy" is an AI phrase and part of a company name, "+40%" *)
(* is a figure.  The characters are those of the skills and of the figure.  *)
EXTENDS Tailoring

LettersOf == [py |-> <<"p", "y">>, python |-> <<"p", "y", "t", "h", "o", "n">>,
              go |-> <<"g", "o">>, rust |-> <<"r", "u", "s", "t">>]
Characters == UNION {Range(LettersOf[w]) : w \in DOMAIN LettersOf}
Vocab == {"", "ann", "acme", "synergy", "py", "python", "go", "rust", "+40%", "+"} \cup Characters
LettersOfVocab == [w \in Vocab |-> IF w \in DOMAIN LettersOf THEN LettersOf[w]
                                    ELSE IF w = "" THEN <<>> ELSE <<"+">>]
CleanedVocab == [w \in Vocab |-> IF w = "synergy" THEN "" ELSE w]
Figures == {"+40%"}
WordsOfJob == {"go", "rust"}
SkillsOfJob == {"go", "py"}
Parts == {<<"py", "python">>} \cup {<<"", w>> : w \in Vocab}
  \cup UNION {{<<c, w>> : c \in Range(LettersOf[w])} : w \in DOMAIN LettersOf}

Job(c, y, bullets) == [company |-> c, years |-> y, bullets |-> Items(bullets)]
Date(f, t) == [from |-> f, to |-> t, months |-> TRUE]
Doc(info, jobs, skills, section) ==
  [info |-> info, summary |-> "", jobs |-> jobs, skills |-> Items(skills),
   section |-> Items(section)]
Marked(w) == [marks |-> MaxMarks, word |-> w, kind |-> "text"]

SomeUploads ==
  {Doc("ann", <<Job("acme", Date(1, 2), <<Marked("go")>>),
                Job("synergy", Date(2, Present), <<>>)>>, <<Plain("python"), Plain("rust")>>, <<Plain("rust")>>)}
SomeMasters ==
  {Doc("ann", <<Job("acme", Date(1, 2), <<Plain("py")>>)>>, <<Plain("python")>>, <<>>)}

SomeProposals == {{"py", "go", "ann"}}
SomeValues == {Plain("go"), Plain("py"), Plain("rust"), Marked("+40%")}
SomeOrders == {<<Plain("rust")>>, <<Plain("go"), Plain("rust"), Plain("rust"), Plain("python")>>,
               <<Plain("py"), Plain("+40%")>>}
=============================================================================
