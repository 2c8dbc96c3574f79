--------------------------- MODULE MCSubmission ---------------------------
(* Submission for TLC: small patterns, requests, files, specifications and rows. *)
EXTENDS CheckedPatterns

A     == Char({"a"})
Upper == Char({"A"})
Digit == Char({"digit"})
Word  == Char({"word"})
Space == Char({"space"})

\* Patterns are read under (?i): "A" is compared as "a".
MCAlphabet   == {"a", "A", "1", " "}
MCInCategory == [digit |-> {"1"}, word |-> {"a", "A", "1"}, space |-> {" "}]
MCFold       == [c \in MCAlphabet |-> IF c = "A" THEN "a" ELSE c]

Pieces == {
    A, Digit, Word, Space, At,
    Repeat(1, Unbounded, <<A>>), Repeat(1, Unbounded, <<Word>>), Repeat(0, 1, <<Space>>),
    Repeat(0, 11, <<Digit>>), Possessive(1, Unbounded, <<A>>),
    Group(<<Repeat(1, Unbounded, <<Digit>>)>>), Atomic(<<Repeat(0, 1, <<A>>)>>),
    Branch(<< <<A>>, <<Space, A>> >>), Branch(<< <<Digit>>, <<Word, Space>> >>),
    Branch(<< <<At, A>>, <<Repeat(0, 1, <<Digit>>), Space>> >>),
    Branch(<< <<A>>, <<Upper, Space>> >>)}

Bodies(n) == UNION {[1..m -> Pieces] : m \in 1..n}

RepeatedGroups == {Repeat(1, Unbounded, <<Group(body)>>) : body \in Bodies(2)}

MCPatterns == Bodies(3) \cup {<<e>> : e \in RepeatedGroups}

Inside(S) == UNION {UNION {ToSet(s) : s \in ToSet(e.subs)} : e \in S}

\* The elements that are d levels or more inside a pattern.
RECURSIVE Level(_)
Level(d) == IF d = 0 THEN Pieces \cup RepeatedGroups ELSE Inside(Level(d - 1))

MCElements == UNION {Level(d) : d \in 0..4} \cup {Upper}

RECURSIVE DepthIn(_)
DepthIn(e) == IF Inside({e}) = {} THEN 0
              ELSE 1 + Max({DepthIn(x) : x \in Inside({e})})
MCDepth == [e \in MCElements |-> DepthIn(e)]

MCForms == [transform_type : TransformTypes, supported : BOOLEAN, nl_prompt : BOOLEAN,
            pattern : {"none", "malformed", "typed"}, replacement_value : BOOLEAN,
            target_columns : {<<>>, <<"x">>, <<"x", "x">>, <<"x", "y">>, <<MATCHED_COLUMN>>}]

\* Names may repeat, with the case changed too, and the two readers may disagree.
MCLower(name) == IF name = "X" THEN "x" ELSE name
Headers == {<<>>, <<"x">>, <<"x", "y">>, <<"x", "X", "y">>, <<"x", MATCHED_COLUMN>>}
MCFiles == {f \in [header : Headers, preview : BOOLEAN, columns : Headers] :
                f.header = f.columns \/ f.header = <<"x">>}

\* Values: "hit" is what a pattern looks for, "either" fits two rules.
Rule(matched, value) == [v \in matched |-> value]
MCRegexRules == {Rule({"hit", "either"}, "new"), Rule({"hit"}, "hit")}
Rules == <<Rule({"either", "hit"}, "first"), Rule({"either", "other"}, "second")>>

\* Replacements with a reference, an escape, and digits behind a reference to patterns with
\* more than nine groups.
Replacements == {t \in [1..3 -> {"$", "1", "\\", "x"}] : t[1] = "$" \/ t[2] = "$"}

MCNormalizations ==
    [kind : {"rules"}, rules : {<<>>, Rules}, patterns : {{"fine"}, {"fine", "risky"}},
     render : {<<>>}, replacement : {<<"x">>}, groups : {0}]
    \cup {[kind |-> "date", rules |-> Rules, patterns |-> {},
           render |-> [first |-> "hit", second |-> "other"],
           replacement |-> <<>>, groups |-> 0]}
    \cup [kind : {"rules"}, rules : {<<Rule({"hit"}, "new")>>}, patterns : {{"fine"}},
          render : {<<>>}, replacement : Replacements, groups : {1, 11}]

MCMaskings == UNION {[names -> {{"credit_card"}, {"credit_card", "phone"},
                                {"email", "phone"}, {"person_name", "phone"}, {"address"}}] :
                     names \in {{}, {"x"}, {"x", "y"}}}

Rows(cells) == [{"x", "y", MATCHED_COLUMN} -> cells]
Values == Rows({Null, "hit", "either", "other", "plain"})
Texts  == Rows({Null, <<"card", "plain">>, <<"phone", "card">>, <<"name", "email">>, Redacted})
MCRow == [regex_replace |-> {r \in Values : r[MATCHED_COLUMN] = Null},
          normalize_format |-> {r \in Values : r[MATCHED_COLUMN] = Null},
          mask_pii |-> {r \in Texts : r[MATCHED_COLUMN] = Null}]
=============================================================================
