---------------------------- MODULE RegexSafety ----------------------------
(***************************************************************************)
(* The structural check of a regex (processing/regex_safety.py), on the    *)
(* tree that Python's parser builds.  A pattern is a sequence of elements; *)
(* an element has                                                          *)
(*   op    what it is: "char" (a literal, a class or any character), "at"  *)
(*         (an anchor or a look-around), "repeat" (greedy or lazy),        *)
(*         "possessive", "atomic", "group" or "branch"                     *)
(*   set   the characters of a "char": characters, categories and "any"    *)
(*   min, max  the bounds of a repeat                                      *)
(*   subs  the sequences inside it                                         *)
(* A back-reference is an "any" character here, as it is in the code, and  *)
(* check_syntax refuses conditional groups. The flags of a pattern, which  *)
(* with_inline_flags writes in front of it, are not part of the tree: the  *)
(* analysis does not see them, but what a pattern matches depends on them  *)
(* (Fold). What the code computes by recursion over the tree is a function *)
(* on the elements: its step says what it is for an element when it is     *)
(* known for those inside.                                                 *)
(***************************************************************************)
EXTENDS Integers, FiniteSets, SequencesExt

CONSTANTS
    Elements,    \* the elements of the trees that are looked at, inner ones included
    Depth,       \* how deep the tree of an element is
    Alphabet,    \* the characters words are made of
    InCategory,  \* and those of each category (_in_category)
    Fold,        \* what Java compares of a character: its lower case under (?i), else itself
    MaxWord      \* the longest words that are looked at

Categories == {"digit", "word", "space"}
Repeats    == {"repeat", "possessive"}
Ops        == Repeats \cup {"char", "at", "atomic", "group", "branch"}

Shallower(e) == {x \in Elements : Depth[x] < Depth[e]}

ASSUME RegexAssumption ==
    /\ Depth \in [Elements -> Nat]
    /\ \A e \in Elements :
        /\ e.op \in Ops
        /\ e.min \in Nat /\ e.max \in Nat /\ e.min <= e.max
        /\ e.subs \in Seq(Seq(Shallower(e)))
        /\ e.op \notin {"char", "at", "branch"} => Len(e.subs) = 1
    /\ InCategory \in [Categories -> SUBSET Alphabet]
    /\ InCategory["space"] \cap (InCategory["digit"] \cup InCategory["word"]) = {}
    /\ DOMAIN Fold = Alphabet
    /\ \A c, d \in Alphabet, cat \in Categories :
           Fold[c] = Fold[d] /\ c \in InCategory[cat] => d \in InCategory[cat]
    /\ MaxWord \in Nat

\* Elements.
Elem(op, set, min, max, subs) ==
    [op |-> op, set |-> set, min |-> min, max |-> max, subs |-> subs]
Char(set)                  == Elem("char", set, 1, 1, <<>>)
At                         == Elem("at", {}, 1, 1, <<>>)
Repeat(min, max, body)     == Elem("repeat", {}, min, max, <<body>>)
Possessive(min, max, body) == Elem("possessive", {}, min, max, <<body>>)
Atomic(body)               == Elem("atomic", {}, 1, 1, <<body>>)
Group(body)                == Elem("group", {}, 1, 1, <<body>>)
Branch(alternatives)       == Elem("branch", {}, 1, 1, alternatives)

-----------------------------------------------------------------------------
(* Character sets: sets of characters, categories and "any" *)

\* Mutant: a character is compared with characters only.
OverlapsPlain(s, t) == s \cap t # {}

\* _CharSet.overlaps
Overlaps(s, t) ==
    /\ s # {} /\ t # {}
    /\ \/ "any" \in s \cup t
       \/ s \cap t # {}
       \/ \E cat \in s \cap Categories : InCategory[cat] \cap t # {}
       \/ \E cat \in t \cap Categories : InCategory[cat] \cap s # {}
       \/ \E a \in s, b \in t : {a, b} = {"digit", "word"}

\* The characters that a character of a pattern stands for.
Alike(c) == {d \in Alphabet : Fold[d] = Fold[c]}

\* The characters of the alphabet a set stands for.
Chars(s) ==
    IF "any" \in s THEN Alphabet
    ELSE (UNION {Alike(c) : c \in s \cap Alphabet})
             \cup (UNION {InCategory[cat] : cat \in s \cap Categories})

\* No letter is written in two cases that are alike.
OneCase(s) == \A c, d \in s \cap Alphabet : Fold[c] = Fold[d] => c = d

-----------------------------------------------------------------------------
(* The analysis *)

\* _consumed, of an element and of a sequence
ConsumedStep(consumed, e) ==
    CASE e.op = "char" -> e.set
      [] e.op = "at"   -> {}
      [] OTHER         -> UNION {consumed[x] : x \in UNION {ToSet(s) : s \in ToSet(e.subs)}}

ConsumedOf[e \in Elements] == ConsumedStep(ConsumedOf, e)

AllOf(holds, items) == \A e \in ToSet(items) : holds[e]

\* Mutant: a repeat that may be left out is not seen.
NullableBody(nullable, e) ==
    \/ e.op = "at"
    \/ e.op \in Repeats /\ AllOf(nullable, e.subs[1])
    \/ e.op = "branch" /\ \E s \in ToSet(e.subs) : AllOf(nullable, s)
    \/ e.op \in {"group", "atomic"} /\ AllOf(nullable, e.subs[1])

\* _nullable_element
NullableStep(nullable, e) ==
    \/ e.op = "at"
    \/ e.op \in Repeats /\ (e.min = 0 \/ AllOf(nullable, e.subs[1]))
    \/ e.op = "branch" /\ \E s \in ToSet(e.subs) : AllOf(nullable, s)
    \/ e.op \in {"group", "atomic"} /\ AllOf(nullable, e.subs[1])

NullableElement[e \in Elements] == NullableStep(NullableElement, e)

\* _nullable
Nullable(items) == AllOf(NullableElement, items)

\* The elements that can start a sequence: those with nothing required before them (the
\* loop of _first).
Starts(items) ==
    {items[i] : i \in {i \in DOMAIN items : AllOf(NullableElement, SubSeq(items, 1, i - 1))}}

\* _first, of a sequence and of an element
FirstIn(first, items) == UNION {first[e] : e \in Starts(items)}

FirstStep(first, e) ==
    CASE e.op = "char"   -> e.set
      [] e.op = "at"     -> {}
      [] e.op = "branch" -> UNION {FirstIn(first, s) : s \in ToSet(e.subs)}
      [] OTHER           -> FirstIn(first, e.subs[1])

FirstOf[e \in Elements] == FirstStep(FirstOf, e)

First(items) == FirstIn(FirstOf, items)

\* _is_wide, with WIDE_REPEAT_THRESHOLD; an unbounded repeat has this maximum.
Unbounded == 1000
IsWide(max) == max > 10

\* _has_backtracking_repeat
HasBacktrackingRepeat[e \in Elements] ==
    \/ e.op = "repeat" /\ e.max > 1
    \/ /\ e.op \notin {"atomic", "possessive"}
       /\ \E s \in ToSet(e.subs) : \E x \in ToSet(s) : HasBacktrackingRepeat[x]

\* _unwrap_group, of an element that stands alone and of a sequence
Unwrapped[e \in Elements] ==
    IF e.op # "group" THEN <<e>>
    ELSE IF Len(e.subs[1]) = 1 THEN Unwrapped[e.subs[1][1]] ELSE e.subs[1]

UnwrapGroup(items) == IF Len(items) = 1 THEN Unwrapped[items[1]] ELSE items

\* _branches_overlap
BranchesOverlap(branches) ==
    \/ \E s \in ToSet(branches) : Nullable(s)
    \/ \E i, k \in DOMAIN branches :
           i < k /\ Overlaps(First(branches[i]), First(branches[k]))

\* Mutant: an optional neighbour separates, too.
SeparatedByAny(body, i) ==
    \E k \in DOMAIN body \ {i} :
        LET between == ConsumedOf[body[k]]
        IN  "any" \notin between /\ ~Overlaps(between, ConsumedOf[body[i]])

\* A required neighbour whose characters the element cannot consume.
Separated(body, i) ==
    \E k \in DOMAIN body \ {i} :
        LET between == ConsumedOf[body[k]]
        IN  /\ ~NullableElement[body[k]]
            /\ "any" \notin between
            /\ ~Overlaps(between, ConsumedOf[body[i]])

\* _risk_in_repeated_body
RiskInRepeatedBody(body) ==
    \/ Nullable(body)
    \/ \E i \in DOMAIN body :
           \/ body[i].op = "branch" /\ BranchesOverlap(body[i].subs)
           \/ HasBacktrackingRepeat[body[i]] /\ ~Separated(body, i)

\* _find_backtracking_risk, of an element and of a sequence
Risky[e \in Elements] ==
    /\ e.op \notin {"atomic", "possessive"}
    /\ \/ /\ e.op = "repeat" /\ IsWide(e.max)
          /\ RiskInRepeatedBody(UnwrapGroup(e.subs[1]))
       \/ \E s \in ToSet(e.subs) : \E x \in ToSet(s) : Risky[x]

FindBacktrackingRisk(items) == \E e \in ToSet(items) : Risky[e]

\* validate_pattern up to the timed probes: what it says of a pattern that compiles.
StructuralVerdict(items) ==
    IF Nullable(items) THEN "nullable"
    ELSE IF FindBacktrackingRisk(items) THEN "risky" ELSE "fine"

-----------------------------------------------------------------------------
(* What a pattern means: the words it matches, as far as they are looked at *)

WordsUpTo == BoundedSeq(Alphabet, MaxWord)

\* A word of one set and then a word of another.
Concatenated(L, M) == {v \o w : v \in L, w \in M} \cap WordsUpTo

\* The places in a sequence and the one behind it.
Places(s) == 1..(Len(s) + 1)

JoinedStep(sets, joined, i) ==
    IF i > Len(sets) THEN {<<>>} ELSE Concatenated(sets[i], joined[i + 1])

\* The words that are made of a word of each of these sets, in this order.
Joined(sets) ==
    LET joined[i \in Places(sets)] == JoinedStep(sets, joined, i) IN joined[1]

WordsIn(words, items) == Joined([i \in DOMAIN items |-> words[items[i]]])

\* How often the body of a repeat may be matched.  More iterations add no word.
Iterations(e) == {n \in 0..MaxWord \cup {e.min} : e.min <= n /\ n <= e.max}

\* An anchor or a look-around may hold; a possessive or atomic element matches some of
\* the words given here.
WordsStep(words, e) ==
    CASE e.op = "char" -> {<<c>> : c \in Chars(e.set)}
      [] e.op = "at"   -> {<<>>}
      [] e.op \in Repeats ->
           LET once == WordsIn(words, e.subs[1])
           IN  UNION {Joined([i \in 1..n |-> once]) : n \in Iterations(e)}
      [] OTHER -> UNION {WordsIn(words, s) : s \in ToSet(e.subs)}

WordsOf[e \in Elements] == WordsStep(WordsOf, e)

Words(items) == WordsIn(WordsOf, items)

\* The ways to cut a word into words of L, as the sets of the places where a piece ends.
Cuts(word, L) ==
    {ends \in SUBSET (0..Len(word)) :
        /\ {0, Len(word)} \subseteq ends
        /\ \A i, k \in ends :
               i < k /\ (\A m \in ends : m <= i \/ k <= m) => SubSeq(word, i + 1, k) \in L}
=============================================================================
