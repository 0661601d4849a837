---------------------------- MODULE MCEnrichment ----------------------------
(* Two entries that share their title, and one that does not.              *)
EXTENDS Enrichment

CONSTANTS c1, c2, t1, t2, m1, a, b, g, x

TwoClients == {c1, c2}
OneClient == {c1}
TwoSections == {"workExperience", "personalProjects"}
TwoTexts == {<<a>>, <<b>>}
OneGenerated == {<<g>>}
OneExtra == {<<x>>}

Entry(title, company, lines) == [title |-> title, company |-> company, lines |-> lines]
Named == {t1, t2, m1, None}
Written == {a, b, g, x}
SomeDocuments ==
  {[skills |-> <<a>>,
    entries |-> [workExperience |-> <<Entry(t1, m1, <<a>>), Entry(title, None, <<b>>)>>,
                 personalProjects |-> <<Entry(t2, None, <<a>>)>>]] : title \in {t1, None}}
=============================================================================
