--------------------------- MODULE MCViewCreation ---------------------------
(* ViewCreation with few dates and years, and few queries at a time.        *)
EXTENDS ViewCreation

MCDefaultViews == {"q14", "q18"}

\* The queries only meet in main: pairs of those that start goroutines, and all
\* that do not, each made because the list has it.
SpecificLists ==
  {{"q3", "q5"}, {"q5", "q14"}, {"q3", "q14"}, {"q15", "q18"}, {"q1", "q6", "q11"}}

\* Lists with other numbers, of the default and not, and the list of all.
OtherLists == {{"all"}, {"q18"}, {"q1", "q18"}, {"q14", "other"}}

MCConfigurations ==
  {[redirect |-> r, benchmark |-> b, specific |-> TRUE, usesViews |-> TRUE, batch |-> FALSE,
    list |-> l] : r, b \in BOOLEAN, l \in SpecificLists}
  \cup
  {[redirect |-> r, benchmark |-> TRUE, specific |-> s, usesViews |-> v, batch |-> m,
    list |-> l] : r, s, v, m \in BOOLEAN, l \in OtherLists}
=============================================================================
