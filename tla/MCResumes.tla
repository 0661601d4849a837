----------------------------- MODULE MCResumes -----------------------------
(* Values of the constants of Resumes for TLC.                             *)
EXTENDS Resumes

CONSTANTS h1, h2, p1, i1, i2, b1

TwoHandlers == {h1, h2}
OnePrompt == {p1}
TwoInfos == {i1, i2}
OneBody == {b1}
AllOperations == {"upload", "retry", "save", "apply", "delete", "preview", "confirm",
                  "improve", "prep", "crash"}
Uploads == {"upload", "retry", "save"}
=============================================================================
