-------------------------- MODULE CheckedPatterns --------------------------
(***************************************************************************)
(* What the structural check of RegexSafety promises of the patterns that  *)
(* are written in Submission.                                              *)
(***************************************************************************)
EXTENDS Submission, RegexSafety

ASSUME PatternAssumption == Patterns \subseteq Seq(Elements)

Written == IF pattern = NoPattern THEN <<>> ELSE pattern

\* "no pattern that can match empty text" (regex_safety.py): _nullable finds exactly the
\* patterns that match the empty text, however the empty parts are nested.
EmptyIsFound == Nullable(Written) <=> <<>> \in Words(Written)

\* Alternatives that _branches_overlap lets pass are told apart by their first character:
\* no text of one begins with a text of another, so the engine has no choice among them.
\* With (?i) this takes alternatives that begin with each letter in one case only.
AlternativesAreDisjoint ==
    \A e \in ToSet(Written) :
        e.op = "branch" /\ ~BranchesOverlap(e.subs) /\ OneCase(FirstOf[e]) =>
            \A i, k \in DOMAIN e.subs : i # k =>
                \A v \in Words(e.subs[i]), w \in Words(e.subs[k]) : ~IsPrefix(v, w)

\* What the separator of _risk_in_repeated_body is meant for: a body with at most one
\* repeat, and else single characters and parts that may be left out.  An optional part
\* shares no character with another part, and beside a repeat a single character shares
\* one with the repeat only.
Separable(body) ==
    LET repeats == {i \in DOMAIN body : HasBacktrackingRepeat[body[i]]}
    IN  /\ Cardinality(repeats) <= 1
        /\ \A i \in DOMAIN body \ repeats :
            /\ body[i].op = "char" \/ NullableElement[body[i]]
            /\ \A k \in DOMAIN body \ {i} :
                   Overlaps(ConsumedOf[body[i]], ConsumedOf[body[k]]) =>
                       body[i].op = "char" /\ repeats \subseteq {k}

\* Every text is cut into iterations of a body in one way only, if at all.
CutOneWay(body) ==
    LET L == Words(body) IN \A text \in WordsUpTo : Cardinality(Cuts(text, L)) <= 1

\* "no repeated groups whose contents can be split ambiguously across iterations": a body
\* that may be repeated is cut one way, if it is separable and, with (?i), has each letter
\* in one case only.
IterationsAreCutOneWay ==
    LET body == UnwrapGroup(Written)
    IN  /\ Separable(body)
        /\ OneCase(UNION {ConsumedOf[e] : e \in ToSet(body)})
        /\ ~RiskInRepeatedBody(body)
        => CutOneWay(body)
=============================================================================
