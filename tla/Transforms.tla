---------------------------- MODULE Transforms ----------------------------
(***************************************************************************)
(* What a transformation does to a row (processing/transforms).  A cell    *)
(* holds a value or Null.  A rewrite rule is a function: its domain is the *)
(* set of values its pattern matches, what it maps a value to is the text  *)
(* after regexp_replace.  A date format is a function from the texts it    *)
(* parses to dates.  For masking, a text is a sequence of words of a kind. *)
(***************************************************************************)
EXTENDS Integers, Sequences

CONSTANT Null  \* SQL's null

\* RESERVED_COLUMNS, as far as a file may have them.
MATCHED_COLUMN == "__matched"
ReservedColumns == {"__row_id", MATCHED_COLUMN}

\* find_missing_columns
Missing(available, requested) == requested \ (available \ ReservedColumns)

\* A rewritten cell: its new value, and whether it matched, a boolean or Null.
Cell(value, matched) == [value |-> value, matched |-> matched]

\* rewrite_columns: the targets are rewritten in place, and the row is matched if any
\* of them is; cells gives what each target becomes.
RewriteColumns(row, cells) ==
    [before  |-> row,
     after   |-> [c \in DOMAIN row |-> IF c \in DOMAIN cells THEN cells[c].value ELSE row[c]],
     matched |-> \E c \in DOMAIN cells : cells[c].matched = TRUE]

\* regexp_replace and rlike: null in, null out.
Matches(rule, value) == IF value = Null THEN Null ELSE value \in DOMAIN rule
Replaced(rule, value) == IF value \in DOMAIN rule THEN rule[value] ELSE value

\* regex_replace
RegexReplace(row, targets, rule) ==
    RewriteColumns(row, [c \in targets |-> Cell(Replaced(rule, row[c]), Matches(rule, row[c]))])

\* The first of several rules or formats that fits a value; 0 if none does.
FirstFit(rules, value) ==
    LET fits == {i \in DOMAIN rules : value \in DOMAIN rules[i]}
    IN  IF fits = {} THEN 0 ELSE CHOOSE i \in fits : \A k \in fits : i <= k

\* Mutant: a value counts as matched if the first rule matches it.
ApplyFirstMatched(rules, value) ==
    LET i == FirstFit(rules, value)
    IN  Cell(IF i = 0 THEN value ELSE rules[i][value],
             IF value = Null THEN Null ELSE value \in DOMAIN rules[1])

\* _apply_rules
ApplyRules(rules, value) ==
    LET i == FirstFit(rules, value)
    IN  Cell(IF i = 0 THEN value ELSE rules[i][value],
             IF value = Null THEN Null ELSE i # 0)

\* _normalize_date: parsed with the first format that fits, rendered with the output's.
NormalizeDate(formats, render, value) ==
    LET i == FirstFit(formats, value)
    IN  Cell(IF i = 0 THEN value ELSE render[formats[i][value]], i # 0)

\* normalize_format
NormalizeFormat(row, targets, spec) ==
    RewriteColumns(row, [c \in targets |->
        IF spec.kind = "date" THEN NormalizeDate(spec.rules, spec.render, row[c])
                              ELSE ApplyRules(spec.rules, row[c])])

-----------------------------------------------------------------------------
(* The replacement of a rewrite rule: a text of characters, with references to the groups  *)
(* of the rule's pattern                                                                   *)

DigitValue == [d \in {"0", "1", "2"} |-> IF d = "0" THEN 0 ELSE IF d = "1" THEN 1 ELSE 2]
Digits == DOMAIN DigitValue

\* _GROUP_REFERENCE: a dollar and a digit.
ReferenceAt(text, i) == text[i] = "$" /\ i < Len(text) /\ text[i + 1] \in Digits

\* Mutant: a digit may follow a reference.
GroupsExist(text, groups) ==
    \A i \in DOMAIN text :
        /\ text[i] # "\\"
        /\ text[i] = "$" => ReferenceAt(text, i) /\ DigitValue[text[i + 1]] <= groups

\* validate_replacement
ValidReplacement(text, groups) ==
    \A i \in DOMAIN text :
        /\ text[i] # "\\"
        /\ text[i] = "$" => /\ ReferenceAt(text, i) /\ DigitValue[text[i + 1]] <= groups
                            /\ i + 2 <= Len(text) => text[i + 2] \notin Digits

\* What the replacement says from character i on, read[k] being what it says from k > i on:
\* references of one digit, and text.
PlainFrom(text, read, i) ==
    IF i > Len(text) THEN <<>>
    ELSE IF ReferenceAt(text, i)
      THEN << <<"group", DigitValue[text[i + 1]]>> >> \o read[i + 2]
      ELSE << <<"text", text[i]>> >> \o read[i + 1]

PlainReading(text) ==
    LET read[i \in 1..(Len(text) + 1)] == PlainFrom(text, read, i) IN read[1]

\* The number that the digits of text[i..k] form.
NumberTo(text, number, i, k) ==
    IF k < i \/ text[k] \notin Digits THEN 0 ELSE 10 * number[k - 1] + DigitValue[text[k]]

Number(text, i, k) ==
    LET number[n \in 0..Len(text)] == NumberTo(text, number, i, n) IN number[k]

\* A reference whose digits are text[i..k].
Fits(text, groups, i, k) ==
    /\ \A n \in i..k : text[n] \in Digits
    /\ Number(text, i, k) <= groups

\* The last digit of the reference whose first is text[i].
LastDigit(text, groups, i) ==
    CHOOSE k \in i..Len(text) :
        Fits(text, groups, i, k) /\ (k = Len(text) \/ ~Fits(text, groups, i, k + 1))

\* What Java makes of it from i on: a backslash is an escape, and a reference takes as many
\* digits as there are groups for.
JavaFrom(text, groups, read, i) ==
    IF i > Len(text) THEN <<>>
    ELSE IF text[i] \notin {"\\", "$"} THEN << <<"text", text[i]>> >> \o read[i + 1]
    ELSE IF i = Len(text) THEN << <<"error", i>> >>
    ELSE IF text[i] = "\\" THEN << <<"text", text[i + 1]>> >> \o read[i + 2]
    ELSE IF ~Fits(text, groups, i + 1, i + 1) THEN << <<"error", i>> >>
    ELSE LET last == LastDigit(text, groups, i + 1)
         IN  << <<"group", Number(text, i + 1, last)>> >> \o read[last + 1]

JavaReading(text, groups) ==
    LET read[i \in 1..(Len(text) + 1)] == JavaFrom(text, groups, read, i) IN read[1]

\* validate_date_normalization and validate_rule_normalization, of lists whose formats are
\* fine in themselves; patterns says what validate_pattern finds of the rules' patterns.
MaxRules == 10
ValidSpec(spec) ==
    /\ spec.rules # <<>> /\ Len(spec.rules) <= MaxRules
    /\ spec.patterns \subseteq {"fine"}
    /\ spec.kind = "rules" => ValidReplacement(spec.replacement, spec.groups)

-----------------------------------------------------------------------------
(* Masking *)

WholeValueTypes == {"identifier", "address", "other"}
Redacted == <<"[REDACTED]">>

\* The kinds of word a mask finds: the digits of a card can be read as a phone number,
\* and a name is any word with letters.
Finds == [credit_card |-> {"card"}, phone |-> {"card", "phone"}, email |-> {"email"},
          person_name |-> {"name", "email"}]

\* The types of personal data a column may be classified with.
PiiTypes == WholeValueTypes \cup DOMAIN Finds

\* What a word is replaced with.
Masked == [credit_card |-> "**** 1234", phone |-> "***-1234", email |-> "j***@",
           person_name |-> "J."]

MaskWords(type, text) ==
    [i \in DOMAIN text |-> IF text[i] \in Finds[type] THEN Masked[type] ELSE text[i]]

\* Mutant: phone numbers are masked before card numbers.
PhonesFirst(types, text) ==
    LET step(type, t) == IF type \in types THEN MaskWords(type, t) ELSE t
    IN  step("email", step("credit_card", step("phone", text)))

\* IN_TEXT_MASKS, in their order
MaskInText(types, text) ==
    LET step(type, t) == IF type \in types THEN MaskWords(type, t) ELSE t
    IN  step("email", step("phone", step("credit_card", text)))

\* _mask: matched is masked != value, null for a null.
Mask(types, value) ==
    LET masked == IF value = Null THEN Null
                  ELSE IF types \cap WholeValueTypes # {} THEN Redacted
                  ELSE IF "person_name" \in types THEN MaskWords("person_name", value)
                  ELSE MaskInText(types, value)
    IN  Cell(masked, IF value = Null THEN Null ELSE masked # value)

\* mask_pii; columns gives the kinds of personal data of the columns that hold any.
MaskPii(row, columns) ==
    RewriteColumns(row, [c \in DOMAIN columns |-> Mask(columns[c], row[c])])
=============================================================================
