--------------------------- MODULE MCLlmService ---------------------------
(* LlmService for TLC: three releases, of which "strict" refuses a suggestion that *)
(* "first" let through, and "reshaped" reads another schema.                       *)
EXTENDS LlmService, TLC

CONSTANTS c1, c2, d1, d1spaced, s1, s2, good, odd

MCReleases  == {"first", "strict", "reshaped"}
MCWords     == (d1 :> d1) @@ (d1spaced :> d1)
MCPrompt    == [r \in MCReleases |-> "v1"]
MCSchema    == [r \in MCReleases |-> IF r = "reshaped" THEN 2 ELSE 1]
MCAccepts   == [r \in MCReleases |-> IF r = "first" THEN {good, odd} ELSE {good}]
MCQuestions == [kind : {"normalize"}, description : {d1}, samples : {s1, s2}]
               \cup [kind : {"normalize"}, description : {d1spaced}, samples : {s1}]
               \cup [kind : {"regex"}, description : {d1}]

CallerSymmetry == Permutations(Callers)
=============================================================================
