------------------------- MODULE SubmissionProofs -------------------------
(***************************************************************************)
(* What holds of Submission for every form, file, pattern, specification   *)
(* and row, however often the file is replaced and the run starts again.   *)
(* The verdict on a pattern is a parameter: all that is asked of it is     *)
(* that it says one of three things of a pattern that compiles.  What the  *)
(* structural check makes of a pattern is the subject of the sections on   *)
(* trees, words, first characters and cuts.                                *)
(***************************************************************************)
EXTENDS CheckedPatterns, SequenceTheorems, FiniteSetTheorems, WellFoundedInduction, TLAPS

\* The request was accepted.
Accepted == place \in Running \cup {"done"}

\* What TypeOK leaves open: the last attempt is not followed by another, the pattern
\* in the form is there to be looked at and then has been, the header was looked at if
\* there is a job, and the row's record has its two fields.
Shape ==
    /\ place \in {"writing", "form", "queued"} => attempt < MaxAttempts
    /\ place = "writing" => pattern \in Patterns
    /\ place = "form" => typed \in PatternKinds \ {"none", "malformed"}
    /\ checked => Accepted
    /\ saved = [pattern |-> saved.pattern, spec |-> saved.spec]

\* The form of an accepted job has what its builder asks for, and the pattern of a find
\* and replace has passed every check once its run is past the resolution.
PatternOK ==
    /\ Accepted /\ form.transform_type = "normalize_format" => form.nl_prompt
    /\ Accepted /\ form.transform_type = "regex_replace" =>
           form.nl_prompt \/ saved.pattern # "none"
    /\ place \in {"load", "build", "write"} /\ form.transform_type = "regex_replace" =>
           saved.pattern = "fine"
    /\ place = "resolve" => form.transform_type = "regex_replace"

\* A specification is saved after its columns were found, and is one that was accepted;
\* nothing is written without one.
SpecOK ==
    /\ saved.spec # NoSpec =>
         /\ form.target_columns \subseteq found
         /\ form.transform_type \in {"normalize_format", "mask_pii"}
         /\ form.transform_type = "normalize_format" =>
              saved.spec \in Normalizations /\ ValidSpec(saved.spec)
         /\ form.transform_type = "mask_pii" =>
              \E spec \in Maskings :
                  saved.spec = [c \in DOMAIN spec \cap form.target_columns |-> spec[c]]
    /\ place = "write" => form.target_columns \subseteq found
    /\ place = "write" /\ form.transform_type # "regex_replace" => saved.spec # NoSpec

\* The preview of a file that was looked into and not replaced has the columns asked for,
\* and a run that has loaded the file sees those that Spark makes of it.
ColumnsOK ==
    checked /\ changes = 0 =>
        /\ file # NoFile
        /\ Missing(Names(file.columns), form.target_columns) = {}
        /\ place \in {"build", "write"} => columns = SparkColumns(file.header)

\* Nothing follows the row.
OutputOK == output # NoRow => place = "done"

-----------------------------------------------------------------------------
(* Types *)

LEMMA Bounds == MaxChanges \in Nat /\ MaxAttempts \in Nat \ {0}
  BY SubmissionAssumption

LEMMA Verdicts == \A p \in Patterns : Verdict(p) \in PatternKinds \ {"none", "malformed"}
  BY SubmissionAssumption

LEMMA FileTypes == Files \subseteq FileStates
  BY SubmissionAssumption

LEMMA FormTypes ==
  \A f \in Forms : /\ f.transform_type \in TransformTypes
                    /\ f.nl_prompt \in BOOLEAN /\ f.replacement_value \in BOOLEAN
                    /\ f.pattern \in {"none", "malformed", "typed"}
  BY SubmissionAssumption

LEMMA InitTypes == Init => TypeOK /\ Shape
<1> SUFFICES ASSUME Init PROVE TypeOK /\ Shape
  OBVIOUS
<1>1. TypeOK
  <2>1. changes \in 0..MaxChanges /\ attempt \in 0..MaxAttempts
    BY Bounds DEF Init
  <2>2. form.transform_type \in TransformTypes
    BY DEF Init, Unsent, TransformTypes
  <2>3. {typed, saved.pattern} \cup applied \subseteq PatternKinds
    BY DEF Init, Empty, PatternKinds
  <2>4. /\ pattern \in Patterns \cup {NoPattern} /\ file \in Files \cup {NoFile}
        /\ connected \in BOOLEAN /\ checked \in BOOLEAN
        /\ place \in {"writing", "form", "refused", "done"} \cup Running
    BY DEF Init
  <2> QED
    BY <2>1, <2>2, <2>3, <2>4 DEF TypeOK
<1>2. Shape
  BY Bounds DEF Init, Shape, Empty
<1> QED
  BY <1>1, <1>2

\* What submit_job has made sure of when it creates the row.
LEMMA Accepts ==
  ASSUME TypeOK, NEW f \in Forms, Submit(f), error' = "none"
  PROVE  /\ Valid(f) /\ file # NoFile /\ file \in FileStates
         /\ file.preview => Missing(Names(file.columns), Names(f.target_columns)) = {}
         /\ place = "form" /\ place' = "queued"
         /\ form' = [transform_type |-> f.transform_type, nl_prompt |-> f.nl_prompt,
                      target_columns |-> Names(f.target_columns)]
         /\ checked' = file.preview
         /\ saved' = [Empty EXCEPT !.pattern = IF f.pattern = "none" THEN "none" ELSE typed]
<1>1. Refusal(f) = "none"
  BY DEF Submit
<1>2. Valid(f) /\ SourceError(f) = "none"
  BY <1>1 DEF Refusal
<1>3. file # NoFile
  BY <1>2 DEF SourceError
<1>4. file \in FileStates
  BY <1>3, FileTypes DEF TypeOK
<1>5. file.preview => Missing(Names(file.columns), Names(f.target_columns)) = {}
  BY <1>2, <1>3 DEF SourceError
<1> QED
  BY <1>2, <1>3, <1>4, <1>5 DEF Submit

\* The patterns of a specification that was saved have passed every check.
LEMMA SavedPatterns ==
  ASSUME TypeOK, SpecOK, saved.spec # NoSpec
  PROVE  PatternsIn(saved.spec) \subseteq {"fine"}
<1>1. CASE form.transform_type = "mask_pii"
  BY <1>1 DEF PatternsIn
<1>2. CASE form.transform_type = "normalize_format"
  BY <1>2 DEF PatternsIn, SpecOK, ValidSpec
<1> QED
  BY <1>1, <1>2 DEF SpecOK

LEMMA StepTypes ==
  ASSUME TypeOK, Shape, SpecOK, [Next]_vars
  PROVE  TypeOK' /\ Shape'
<1> USE Bounds DEF TypeOK, Shape, Accepted, Running, PatternKinds
<1>1. CASE UNCHANGED vars
  BY <1>1 DEF vars, formVars, fileVars, runVars, history
<1>2. CASE Write
  <2>1. typed' \in PatternKinds \ {"none", "malformed"}
    BY <1>2, Verdicts DEF Write
  <2> QED
    BY <1>2, <2>1 DEF Write, fileVars, runVars, history
<1>3. CASE ReplaceFile
  BY <1>3 DEF ReplaceFile, formVars, runVars, history
<1>4. CASE ConnectionExpires
  BY <1>4 DEF ConnectionExpires, formVars, runVars, history
<1>5. CASE \E f \in Forms : Submit(f)
  <2> PICK f \in Forms : Submit(f)
    BY <1>5
  <2>1. f.transform_type \in TransformTypes
    BY FormTypes
  <2>2. CASE error' = "none"
    <3>1. /\ place = "form" /\ place' = "queued"
          /\ form'.transform_type = f.transform_type
          /\ checked' = file.preview
          /\ saved' = [Empty EXCEPT !.pattern = IF f.pattern = "none" THEN "none" ELSE typed]
      BY <2>2, Accepts
    <3>2. checked' \in BOOLEAN
      BY <2>2, <3>1, Accepts DEF FileStates
    <3>3. UNCHANGED <<pattern, typed, fileVars, attempt, columns, history, output>>
      BY DEF Submit
    <3>4. saved' = [pattern |-> IF f.pattern = "none" THEN "none" ELSE typed,
                    spec |-> NoSpec]
      BY <3>1 DEF Empty
    <3>5. Shape'
      BY <3>1, <3>3, <3>4 DEF fileVars
    <3> QED
      BY <2>1, <3>1, <3>2, <3>3, <3>4, <3>5 DEF fileVars, history
  <2>3. CASE error' # "none"
    BY <2>3 DEF Submit, fileVars, history
  <2> QED
    BY <2>2, <2>3
<1>6. CASE RunStep
  <2>1. CASE Begin
    BY <2>1 DEF Begin, formVars, fileVars, history
  <2>2. CASE UseStoredPattern
    BY <2>2 DEF UseStoredPattern, Fail, formVars, fileVars, runVars, history
  <2>3. CASE AskForPattern
    BY <2>3 DEF AskForPattern, Fail, FailOrRetry, formVars, fileVars
  <2>4. CASE Load
    BY <2>4 DEF Load, Fail, FailOrRetry, formVars, fileVars, history
  <2>5. CASE BuildReplace
    BY <2>5 DEF BuildReplace, RequireColumns, LacksColumns, Fail, formVars, fileVars, runVars
  <2>6. CASE GenerateSpec
    BY <2>6 DEF GenerateSpec, RequireColumns, LacksColumns, Fail, FailOrRetry, formVars,
       fileVars
  <2>7. CASE BuildFromSpec
    <3>1. applied' \subseteq applied \cup {"fine"}
      BY <2>7, SavedPatterns DEF BuildFromSpec, LacksColumns
    <3> QED
      BY <2>7, <3>1 DEF BuildFromSpec, RequireColumns, LacksColumns, Fail, formVars,
         fileVars, runVars
  <2>8. CASE WriteOutput
    BY <2>8 DEF WriteOutput, Fail, FailOrRetry, formVars, fileVars, runVars, history
  <2> QED
    BY <1>6, <2>1, <2>2, <2>3, <2>4, <2>5, <2>6, <2>7, <2>8 DEF RunStep
<1> QED
  BY <1>1, <1>2, <1>3, <1>4, <1>5, <1>6 DEF Next

-----------------------------------------------------------------------------
(* What the LLM is asked and what Java's engine gets *)

LEMMA InitPattern == Init => PatternOK /\ NeverAskedForNothing /\ OnlyCheckedPatternsRun
  BY DEF Init, PatternOK, Accepted, Running, NeverAskedForNothing, OnlyCheckedPatternsRun

LEMMA StepPattern ==
  ASSUME TypeOK, Shape, PatternOK, SpecOK, NeverAskedForNothing, OnlyCheckedPatternsRun,
         [Next]_vars
  PROVE  PatternOK' /\ NeverAskedForNothing' /\ OnlyCheckedPatternsRun'
<1> USE DEF PatternOK, Accepted, Running, NeverAskedForNothing, OnlyCheckedPatternsRun
<1>1. CASE UNCHANGED vars
  BY <1>1 DEF vars, formVars, fileVars, runVars, history
<1>2. CASE Write
  BY <1>2 DEF Write, fileVars, runVars, history
<1>3. CASE ReplaceFile
  BY <1>3 DEF ReplaceFile, formVars, runVars, history
<1>4. CASE ConnectionExpires
  BY <1>4 DEF ConnectionExpires, formVars, runVars, history
<1>5. CASE \E f \in Forms : Submit(f)
  <2> PICK f \in Forms : Submit(f)
    BY <1>5
  <2>1. CASE error' = "none"
    <3>1. /\ Valid(f) /\ place = "form" /\ place' = "queued"
          /\ form' = [transform_type |-> f.transform_type, nl_prompt |-> f.nl_prompt,
                      target_columns |-> Names(f.target_columns)]
          /\ saved' = [Empty EXCEPT !.pattern = IF f.pattern = "none" THEN "none" ELSE typed]
      BY <2>1, Accepts
    <3>2. typed # "none"
      BY <3>1 DEF Shape
    <3>3. saved'.pattern = IF f.pattern = "none" THEN "none" ELSE typed
      BY <3>1 DEF Empty
    <3>4. /\ f.transform_type = "normalize_format" => f.nl_prompt
          /\ f.transform_type = "regex_replace" => f.nl_prompt \/ f.pattern # "none"
      BY <3>1, FormTypes DEF Valid, FieldsFit
    <3>5. UNCHANGED history
      BY DEF Submit
    <3> QED
      BY <3>1, <3>2, <3>3, <3>4, <3>5 DEF history
  <2>2. CASE error' # "none"
    BY <2>2 DEF Submit, fileVars, history
  <2> QED
    BY <2>1, <2>2
<1>6. CASE RunStep
  <2>1. CASE Begin
    BY <2>1 DEF Begin, formVars, fileVars, history, TypeOK, TransformTypes
  <2>2. CASE UseStoredPattern
    BY <2>2 DEF UseStoredPattern, Fail, formVars, fileVars, runVars, history
  <2>3. CASE AskForPattern
    BY <2>3 DEF AskForPattern, Fail, FailOrRetry, formVars, fileVars, Shape
  <2>4. CASE Load
    BY <2>4 DEF Load, Fail, FailOrRetry, formVars, fileVars, history
  <2>5. CASE BuildReplace
    BY <2>5 DEF BuildReplace, RequireColumns, LacksColumns, Fail, formVars, fileVars, runVars
  <2>6. CASE GenerateSpec
    BY <2>6 DEF GenerateSpec, RequireColumns, LacksColumns, Fail, FailOrRetry, formVars,
       fileVars, TypeOK, TransformTypes
  <2>7. CASE BuildFromSpec
    <3>1. applied' \subseteq applied \cup {"fine"}
      BY <2>7, SavedPatterns DEF BuildFromSpec, LacksColumns
    <3> QED
      BY <2>7, <3>1 DEF BuildFromSpec, RequireColumns, LacksColumns, Fail, formVars,
         fileVars, runVars
  <2>8. CASE WriteOutput
    BY <2>8 DEF WriteOutput, Fail, FailOrRetry, formVars, fileVars, runVars, history
  <2> QED
    BY <1>6, <2>1, <2>2, <2>3, <2>4, <2>5, <2>6, <2>7, <2>8 DEF RunStep
<1> QED
  BY <1>1, <1>2, <1>3, <1>4, <1>5, <1>6 DEF Next

-----------------------------------------------------------------------------
(* Specifications and the columns they are made for *)

LEMMA InitSpec == Init => SpecOK /\ NoColumnIsIgnored
  BY DEF Init, SpecOK, Empty, NoColumnIsIgnored

\* A specification that GenerateSpec saves.
LEMMA NewSpec ==
  ASSUME TypeOK, Shape, GenerateSpec, saved' # saved
  PROVE  /\ form.target_columns \subseteq found'
         /\ saved'.spec # NoSpec =>
              /\ form.transform_type = "normalize_format" =>
                   saved'.spec \in Normalizations /\ ValidSpec(saved'.spec)
              /\ form.transform_type = "mask_pii" =>
                   \E spec \in Maskings :
                       saved'.spec = [c \in DOMAIN spec \cap form.target_columns |-> spec[c]]
         /\ UNCHANGED <<place, error>>
<1>1. /\ RequireColumns(form.target_columns)
      /\ UNCHANGED <<place, error>>
      /\ \E spec \in {proposed \in Proposals : Acceptable(proposed)} :
             saved' = [saved EXCEPT !.spec = Usable(spec)]
  BY DEF GenerateSpec, LacksColumns
<1>2. PICK spec \in Proposals :
          Acceptable(spec) /\ saved' = [saved EXCEPT !.spec = Usable(spec)]
  BY <1>1
<1>3. saved'.spec = Usable(spec)
  BY <1>2 DEF Shape
<1>4. CASE form.transform_type = "mask_pii"
  BY <1>1, <1>2, <1>3, <1>4 DEF Proposals, Usable, RequireColumns
<1>5. CASE form.transform_type # "mask_pii"
  BY <1>1, <1>2, <1>3, <1>5 DEF Proposals, Usable, Acceptable, RequireColumns
<1> QED
  BY <1>4, <1>5

LEMMA StepSpec ==
  ASSUME TypeOK, Shape, PatternOK, SpecOK, NoColumnIsIgnored, [Next]_vars
  PROVE  SpecOK' /\ NoColumnIsIgnored'
<1> USE DEF SpecOK, NoColumnIsIgnored
<1>1. CASE UNCHANGED vars
  BY <1>1 DEF vars, formVars, fileVars, runVars, history
<1>2. CASE Write
  BY <1>2 DEF Write, fileVars, runVars, history
<1>3. CASE ReplaceFile
  BY <1>3 DEF ReplaceFile, formVars, runVars, history
<1>4. CASE ConnectionExpires
  BY <1>4 DEF ConnectionExpires, formVars, runVars, history
<1>5. CASE \E f \in Forms : Submit(f)
  <2> PICK f \in Forms : Submit(f)
    BY <1>5
  <2>1. CASE error' = "none"
    <3>1. /\ place' = "queued"
          /\ saved' = [Empty EXCEPT !.pattern = IF f.pattern = "none" THEN "none" ELSE typed]
      BY <2>1, Accepts
    <3>2. saved'.spec = NoSpec
      BY <3>1 DEF Empty
    <3> QED
      BY <3>1, <3>2
  <2>2. CASE error' # "none"
    BY <2>2 DEF Submit, fileVars, history
  <2> QED
    BY <2>1, <2>2
<1>6. CASE RunStep
  <2>1. CASE Begin
    BY <2>1 DEF Begin, formVars, fileVars, history
  <2>2. CASE UseStoredPattern
    BY <2>2 DEF UseStoredPattern, Fail, formVars, fileVars, runVars, history
  <2>3. CASE AskForPattern
    <3>1. saved'.spec = saved.spec /\ UNCHANGED <<form, found>>
      BY <2>3 DEF AskForPattern, formVars, Shape
    <3>2. place' # "write" /\ (place' = "done" => error' # "none")
      BY <2>3 DEF AskForPattern, Fail, FailOrRetry
    <3> QED
      BY <3>1, <3>2
  <2>4. CASE Load
    BY <2>4 DEF Load, Fail, FailOrRetry, formVars, fileVars, history
  <2>5. CASE BuildReplace
    BY <2>5 DEF BuildReplace, RequireColumns, LacksColumns, Fail, formVars, fileVars, runVars
  <2>6. CASE GenerateSpec
    <3>1. /\ UNCHANGED form /\ found \subseteq found' /\ place = "build"
          /\ form.transform_type \in {"normalize_format", "mask_pii"}
      BY <2>6 DEF GenerateSpec, formVars, RequireColumns, LacksColumns, TypeOK, TransformTypes
    <3>2. CASE saved' # saved
      BY <2>6, <3>1, <3>2, NewSpec
    <3>3. CASE saved' = saved
      <4>1. place' # "write" /\ (place' = "done" => error' # "none")
        BY <2>6, <3>1 DEF GenerateSpec, LacksColumns, Fail, FailOrRetry
      <4> QED
        BY <3>1, <3>3, <4>1
    <3> QED
      BY <3>2, <3>3
  <2>7. CASE BuildFromSpec
    BY <2>7 DEF BuildFromSpec, RequireColumns, LacksColumns, Fail, formVars, fileVars, runVars
  <2>8. CASE WriteOutput
    BY <2>8 DEF WriteOutput, Fail, FailOrRetry, formVars, fileVars, runVars, history
  <2> QED
    BY <1>6, <2>1, <2>2, <2>3, <2>4, <2>5, <2>6, <2>7, <2>8 DEF RunStep
<1> QED
  BY <1>1, <1>2, <1>3, <1>4, <1>5, <1>6 DEF Next

-----------------------------------------------------------------------------
(* The columns that were found up front *)

LEMMA InitColumns == Init => ColumnsOK /\ ColumnsFoundUpFrontStay
  BY DEF Init, ColumnsOK, ColumnsFoundUpFrontStay

\* What a run rewrites was asked for.
LEMMA TargetsAreRequested ==
  ASSUME SpecOK, saved.spec # NoSpec
  PROVE  Targets \subseteq form.target_columns
<1>1. CASE form.transform_type = "mask_pii"
  <2>1. PICK spec \in Maskings :
            saved.spec = [c \in DOMAIN spec \cap form.target_columns |-> spec[c]]
    BY <1>1 DEF SpecOK
  <2>2. DOMAIN saved.spec = DOMAIN spec \cap form.target_columns
    BY <2>1
  <2> QED
    BY <1>1, <2>2 DEF Targets
<1>2. CASE form.transform_type # "mask_pii"
  BY <1>2 DEF Targets
<1> QED
  BY <1>1, <1>2

\* A run lacks no column if what the preview shows of them is there for Spark.
LEMMA NoneIsLacking ==
  ASSUME ColumnsOK, checked, changes = 0, place = "build",
         form.target_columns \cap Names(file.columns) \subseteq SparkColumns(file.header),
         NEW requested, requested \subseteq form.target_columns
  PROVE  ~LacksColumns(requested)
<1>1. /\ columns = SparkColumns(file.header)
      /\ Missing(Names(file.columns), form.target_columns) = {}
  BY DEF ColumnsOK
<1>2. Missing(columns, requested) = {}
  BY <1>1 DEF Missing
<1> QED
  BY <1>2 DEF LacksColumns

LEMMA StepColumns ==
  ASSUME TypeOK, Shape, SpecOK, ColumnsOK, ColumnsFoundUpFrontStay, [Next]_vars
  PROVE  ColumnsOK' /\ ColumnsFoundUpFrontStay'
<1> USE DEF ColumnsOK, ColumnsFoundUpFrontStay
<1>1. CASE UNCHANGED vars
  BY <1>1 DEF vars, formVars, fileVars, runVars, history
<1>2. CASE Write
  BY <1>2 DEF Write, fileVars, runVars, history, Shape, Accepted, Running
<1>3. CASE ReplaceFile
  BY <1>3 DEF ReplaceFile, formVars, runVars, history, TypeOK
<1>4. CASE ConnectionExpires
  BY <1>4 DEF ConnectionExpires, formVars, runVars, history
<1>5. CASE \E f \in Forms : Submit(f)
  <2> PICK f \in Forms : Submit(f)
    BY <1>5
  <2>1. CASE error' = "none"
    <3>1. /\ file # NoFile /\ checked' = file.preview /\ place' = "queued"
          /\ file.preview => Missing(Names(file.columns), Names(f.target_columns)) = {}
          /\ form' = [transform_type |-> f.transform_type, nl_prompt |-> f.nl_prompt,
                      target_columns |-> Names(f.target_columns)]
      BY <2>1, Accepts
    <3>2. UNCHANGED <<file, changes>>
      BY DEF Submit, fileVars
    <3> QED
      BY <2>1, <3>1, <3>2
  <2>2. CASE error' # "none"
    BY <2>2 DEF Submit, Shape, Accepted, Running
  <2> QED
    BY <2>1, <2>2
<1>6. CASE RunStep
  <2>1. CASE Begin
    BY <2>1 DEF Begin, formVars, fileVars, history
  <2>2. CASE UseStoredPattern
    BY <2>2 DEF UseStoredPattern, Fail, formVars, fileVars, runVars, history
  <2>3. CASE AskForPattern
    BY <2>3 DEF AskForPattern, Fail, FailOrRetry, formVars, fileVars
  <2>4. CASE Load
    BY <2>4 DEF Load, Fail, FailOrRetry, formVars, fileVars, history
  <2>5. CASE BuildReplace
    <3>1. /\ UNCHANGED <<form, file, changes, checked, columns>> /\ place = "build"
          /\ error' \in {error, "INVALID_PATTERN"} \/ LacksColumns(form.target_columns)
      BY <2>5 DEF BuildReplace, Fail, formVars, fileVars, runVars
    <3>2. place' \in {"write", "done"}
      BY <2>5 DEF BuildReplace, LacksColumns, Fail
    <3> QED
      BY <3>1, <3>2, NoneIsLacking
  <2>6. CASE GenerateSpec
    <3>1. /\ UNCHANGED <<form, file, changes, checked, columns>> /\ place = "build"
          /\ \/ error' = error \/ LacksColumns(form.target_columns)
             \/ error' \in {"INVALID_SPEC", "INVALID_PATTERN", "NORMALIZATION_NOT_POSSIBLE",
                            "LLM_INVALID_RESPONSE", "LLM_UNAVAILABLE", "SOURCE_READ_ERROR",
                            "STORAGE_UNAVAILABLE"}
      BY <2>6 DEF GenerateSpec, Fail, FailOrRetry, formVars, fileVars
    <3>2. place' \in {"build", "queued", "done"}
      BY <2>6 DEF GenerateSpec, LacksColumns, Fail, FailOrRetry
    <3> QED
      BY <3>1, <3>2, NoneIsLacking
  <2>7. CASE BuildFromSpec
    <3>1. /\ UNCHANGED <<form, file, changes, checked, columns>> /\ place = "build"
          /\ error' \in {error, "INVALID_SPEC", "INVALID_PATTERN"} \/ LacksColumns(Targets)
          /\ saved.spec # NoSpec
      BY <2>7 DEF BuildFromSpec, Fail, formVars, fileVars, runVars
    <3>2. place' \in {"write", "done"}
      BY <2>7 DEF BuildFromSpec, LacksColumns, Fail
    <3> QED
      BY <3>1, <3>2, NoneIsLacking, TargetsAreRequested
  <2>8. CASE WriteOutput
    BY <2>8 DEF WriteOutput, Fail, FailOrRetry, formVars, fileVars, runVars, history
  <2> QED
    BY <1>6, <2>1, <2>2, <2>3, <2>4, <2>5, <2>6, <2>7, <2>8 DEF RunStep
<1> QED
  BY <1>1, <1>2, <1>3, <1>4, <1>5, <1>6 DEF Next

-----------------------------------------------------------------------------
(* The cells of a row *)

\* The order of the natural numbers.
Below == {pair \in Nat \X Nat : pair[1] < pair[2]}

\* A set of natural numbers has a smallest one.
LEMMA Smallest ==
  ASSUME NEW S \in SUBSET Nat, S # {}
  PROVE  \E n \in S : \A k \in S : n <= k
<1>1. OpToRel(<, Nat) = Below
  BY DEF OpToRel, Below
<1>2. IsWellFoundedOn(Below, Nat)
  BY <1>1, NatLessThanWellFounded, Zenon
<1>3. PICK n \in S : \A k \in S : <<k, n>> \notin Below
  BY <1>2, WFMin
<1>4. ASSUME NEW k \in S PROVE n <= k
  <2>1. <<k, n>> \notin Below
    BY <1>3
  <2> QED
    BY <2>1 DEF Below
<1> QED
  BY <1>4

\* FirstFit names a rule that fits, or says that there is none.
LEMMA FirstFitFits ==
  ASSUME NEW rules, DOMAIN rules \subseteq Nat \ {0}, NEW value
  PROVE  \/ /\ FirstFit(rules, value) = 0
            /\ \A i \in DOMAIN rules : value \notin DOMAIN rules[i]
         \/ /\ FirstFit(rules, value) \in DOMAIN rules
            /\ FirstFit(rules, value) # 0
            /\ value \in DOMAIN rules[FirstFit(rules, value)]
<1> DEFINE fits == {i \in DOMAIN rules : value \in DOMAIN rules[i]}
<1>1. CASE fits = {}
  BY <1>1 DEF FirstFit
<1>2. CASE fits # {}
  <2>1. fits \in SUBSET Nat
    OBVIOUS
  <2>2. \E i \in fits : \A k \in fits : i <= k
    BY <1>2, <2>1, Smallest
  <2>3. FirstFit(rules, value) = CHOOSE i \in fits : \A k \in fits : i <= k
    BY <1>2 DEF FirstFit
  <2>4. FirstFit(rules, value) \in fits
    BY <2>2, <2>3
  <2> QED
    BY <2>4
<1> QED
  BY <1>1, <1>2

\* A cell that does not count as matched keeps its value, in every transformation.
LEMMA ReplacedCell ==
  ASSUME NEW rule, Null \notin DOMAIN rule, NEW value
  PROVE  Matches(rule, value) = TRUE \/ Replaced(rule, value) = value
  BY DEF Matches, Replaced

LEMMA RuledCell ==
  ASSUME NEW rules, DOMAIN rules \subseteq Nat \ {0}, NEW value,
         \A i \in DOMAIN rules : Null \notin DOMAIN rules[i]
  PROVE  ApplyRules(rules, value).matched = TRUE \/ ApplyRules(rules, value).value = value
<1>1. CASE FirstFit(rules, value) = 0
  BY <1>1 DEF ApplyRules, Cell
<1>2. CASE FirstFit(rules, value) # 0
  <2>1. value # Null
    BY <1>2, FirstFitFits
  <2> QED
    BY <1>2, <2>1 DEF ApplyRules, Cell
<1> QED
  BY <1>1, <1>2

LEMMA DateCell ==
  ASSUME NEW formats, NEW render, NEW value
  PROVE  \/ NormalizeDate(formats, render, value).matched = TRUE
         \/ NormalizeDate(formats, render, value).value = value
  BY DEF NormalizeDate, Cell

LEMMA MaskedCell ==
  ASSUME NEW types, NEW value
  PROVE  Mask(types, value).matched = TRUE \/ Mask(types, value).value = value
<1>1. CASE value = Null
  BY <1>1 DEF Mask, Cell
<1>2. CASE value # Null
  BY <1>2 DEF Mask, Cell
<1> QED
  BY <1>1, <1>2

\* So a row of which no cell counts as matched stays as it is.
LEMMA KeptRow ==
  ASSUME NEW row, row = [c \in DOMAIN row |-> row[c]], NEW cells,
         \A c \in DOMAIN cells \cap DOMAIN row :
             cells[c].matched = TRUE \/ cells[c].value = row[c],
         ~RewriteColumns(row, cells).matched
  PROVE  RewriteColumns(row, cells).after = RewriteColumns(row, cells).before
<1>1. \A c \in DOMAIN cells : cells[c].matched # TRUE
  BY DEF RewriteColumns
<1>2. ASSUME NEW c \in DOMAIN row
      PROVE  (IF c \in DOMAIN cells THEN cells[c].value ELSE row[c]) = row[c]
  BY <1>1, <1>2
<1>3. RewriteColumns(row, cells).after =
          [c \in DOMAIN row |-> IF c \in DOMAIN cells THEN cells[c].value ELSE row[c]]
  BY DEF RewriteColumns
<1>4. RewriteColumns(row, cells).before = row
  BY DEF RewriteColumns
<1> QED
  BY <1>2, <1>3, <1>4

\* MaskInText, word by word.
LEMMA MaskedWord ==
  ASSUME NEW types, NEW text, NEW i \in DOMAIN text
  PROVE  LET card  == IF "credit_card" \in types /\ text[i] = "card"
                        THEN Masked.credit_card ELSE text[i]
             phone == IF "phone" \in types /\ card \in {"card", "phone"}
                        THEN Masked.phone ELSE card
         IN  MaskInText(types, text)[i] =
                 IF "email" \in types /\ phone = "email" THEN Masked.email ELSE phone
<1> DEFINE t1 == IF "credit_card" \in types THEN MaskWords("credit_card", text) ELSE text
           t2 == IF "phone" \in types THEN MaskWords("phone", t1) ELSE t1
           t3 == IF "email" \in types THEN MaskWords("email", t2) ELSE t2
<1>1. /\ Finds.credit_card = {"card"} /\ Finds.phone = {"card", "phone"}
      /\ Finds.email = {"email"}
  BY DEF Finds
<1>2. MaskInText(types, text) = t3
  BY DEF MaskInText
<1>3. /\ DOMAIN t1 = DOMAIN text
      /\ t1[i] = IF "credit_card" \in types /\ text[i] = "card"
                   THEN Masked.credit_card ELSE text[i]
  BY <1>1 DEF MaskWords
<1>4. /\ DOMAIN t2 = DOMAIN text
      /\ t2[i] = IF "phone" \in types /\ t1[i] \in {"card", "phone"}
                   THEN Masked.phone ELSE t1[i]
  BY <1>1, <1>3 DEF MaskWords
<1>5. t3[i] = IF "email" \in types /\ t2[i] = "email" THEN Masked.email ELSE t2[i]
  BY <1>1, <1>4 DEF MaskWords
<1> QED
  BY <1>2, <1>3, <1>4, <1>5

\* The kinds of personal data that are masked in the middle of a text.
InText == {"credit_card", "phone", "email"}

LEMMA MaskWordsOf ==
  /\ Finds.credit_card = {"card"} /\ Finds.phone = {"card", "phone"}
  /\ Finds.email = {"email"}
  /\ Masked.credit_card \notin {"card", "phone", "email"}
  /\ Masked.phone \notin {"card", "phone", "email"}
  /\ Masked.email \notin {"card", "phone", "email"}
  BY DEF Finds, Masked

LEMMA MaskedInText ==
  ASSUME NEW types, types \subseteq InText, NEW text, text # Null
  PROVE  Mask(types, text).value = MaskInText(types, text)
  BY DEF Mask, Cell, WholeValueTypes, InText

\* No word of a kind that is masked is left ...
LEMMA NoWordIsLeft ==
  ASSUME NEW types, types \subseteq InText, NEW text, text # Null,
         NEW i, i \in DOMAIN text, NEW t, t \in types
  PROVE  Mask(types, text).value[i] \notin Finds[t]
<1>1. Mask(types, text).value = MaskInText(types, text)
  BY MaskedInText
<1>2. CASE t = "credit_card"
  BY <1>1, <1>2, MaskedWord, MaskWordsOf
<1>3. CASE t = "phone"
  BY <1>1, <1>3, MaskedWord, MaskWordsOf
<1>4. CASE t = "email"
  BY <1>1, <1>4, MaskedWord, MaskWordsOf
<1> QED
  BY <1>2, <1>3, <1>4 DEF InText

\* ... and a card is masked as a card.
LEMMA CardIsACard ==
  ASSUME NEW types, types \subseteq InText, NEW text, text # Null,
         NEW i, i \in DOMAIN text, "credit_card" \in types, text[i] = "card"
  PROVE  Mask(types, text).value[i] = Masked.credit_card
<1>1. Mask(types, text).value = MaskInText(types, text)
  BY MaskedInText
<1> QED
  BY <1>1, MaskedWord, MaskWordsOf

-----------------------------------------------------------------------------
(* The row that is written *)

LEMMA SpecTypes ==
  ASSUME NEW spec \in Normalizations
  PROVE  /\ spec.kind \in {"rules", "date"}
         /\ DOMAIN spec.rules \subseteq Nat \ {0}
         /\ \A i \in DOMAIN spec.rules : Null \notin DOMAIN spec.rules[i]
<1>1. /\ spec.kind \in {"rules", "date"}
      /\ spec.rules \in Seq({spec.rules[i] : i \in DOMAIN spec.rules})
      /\ \A i \in DOMAIN spec.rules : Null \notin DOMAIN spec.rules[i]
  BY SubmissionAssumption
<1>2. DOMAIN spec.rules = 1..Len(spec.rules) /\ Len(spec.rules) \in Nat
  BY <1>1
<1> QED
  BY <1>1, <1>2

LEMMA RuleTypes == \A rule \in RegexRules : Null \notin DOMAIN rule
  BY SubmissionAssumption

LEMMA MaskingTypes == \A spec \in Maskings : \A c \in DOMAIN spec : spec[c] \subseteq PiiTypes
  BY SubmissionAssumption

\* What WriteOutput leaves is one of the rows of the plan.
LEMMA WrittenRow ==
  ASSUME OutputOK, WriteOutput, output' # NoRow
  PROVE  /\ \E row \in Row[form.transform_type] :
                output' \in Transformed([c \in columns |-> row[c]])
         /\ place = "write" /\ UNCHANGED <<form, saved>>
<1>1. output = NoRow
  BY DEF OutputOK, WriteOutput
<1> QED
  BY <1>1 DEF WriteOutput, formVars, runVars

LEMMA UnmatchedRow ==
  ASSUME TypeOK, SpecOK, OutputOK, WriteOutput, output' # NoRow, ~output'.matched
  PROVE  output'.after = output'.before
<1>1. PICK row \in Row[form.transform_type] :
          output' \in Transformed([c \in columns |-> row[c]])
  BY WrittenRow
<1>2. place = "write"
  BY WrittenRow
<1> DEFINE source == [c \in columns |-> row[c]]
<1>6. DOMAIN source = columns /\ source = [c \in DOMAIN source |-> source[c]]
  OBVIOUS
<1>3. CASE form.transform_type = "regex_replace"
  <2>1. PICK rule \in RegexRules :
            output' = RegexReplace(source, form.target_columns, rule)
    BY <1>1, <1>3 DEF Transformed
  <2> DEFINE cells == [c \in form.target_columns |->
                          Cell(Replaced(rule, source[c]), Matches(rule, source[c]))]
  <2>2. output' = RewriteColumns(source, cells)
    BY <2>1 DEF RegexReplace
  <2>3. ASSUME NEW c \in DOMAIN cells \cap DOMAIN source
        PROVE  cells[c].matched = TRUE \/ cells[c].value = source[c]
    BY RuleTypes, ReplacedCell DEF Cell
  <2> HIDE DEF cells, source
  <2> QED
    BY <2>2, <2>3, <1>6, KeptRow
<1>4. CASE form.transform_type = "normalize_format"
  <2>1. saved.spec \in Normalizations
    BY <1>2, <1>4 DEF SpecOK
  <2>2. output' = NormalizeFormat(source, form.target_columns, saved.spec)
    BY <1>1, <1>4 DEF Transformed
  <2> DEFINE cells == [c \in form.target_columns |->
                IF saved.spec.kind = "date"
                  THEN NormalizeDate(saved.spec.rules, saved.spec.render, source[c])
                  ELSE ApplyRules(saved.spec.rules, source[c])]
  <2>3. output' = RewriteColumns(source, cells)
    BY <2>2 DEF NormalizeFormat
  <2>4. ASSUME NEW c \in DOMAIN cells \cap DOMAIN source
        PROVE  cells[c].matched = TRUE \/ cells[c].value = source[c]
    <3>1. CASE saved.spec.kind = "date"
      BY <3>1, DateCell
    <3>2. CASE saved.spec.kind # "date"
      BY <2>1, <3>2, SpecTypes, RuledCell
    <3> QED
      BY <3>1, <3>2
  <2> HIDE DEF cells, source
  <2> QED
    BY <2>3, <2>4, <1>6, KeptRow
<1>5. CASE form.transform_type = "mask_pii"
  <2>1. output' = MaskPii(source, saved.spec)
    BY <1>1, <1>5 DEF Transformed
  <2> DEFINE cells == [c \in DOMAIN saved.spec |-> Mask(saved.spec[c], source[c])]
  <2>2. output' = RewriteColumns(source, cells)
    BY <2>1 DEF MaskPii
  <2>3. ASSUME NEW c \in DOMAIN cells \cap DOMAIN source
        PROVE  cells[c].matched = TRUE \/ cells[c].value = source[c]
    BY MaskedCell
  <2> HIDE DEF cells, source
  <2> QED
    BY <2>2, <2>3, <1>6, KeptRow
<1> QED
  BY <1>3, <1>4, <1>5 DEF TypeOK, TransformTypes

LEMMA MaskedRow ==
  ASSUME SpecOK, OutputOK, WriteOutput, output' # NoRow,
         form.transform_type = "mask_pii"
  PROVE  MasksLeaveNothing'
<1>1. PICK row \in Row[form.transform_type] :
          output' \in Transformed([c \in columns |-> row[c]])
  BY WrittenRow
<1>2. place = "write" /\ UNCHANGED <<form, saved>>
  BY WrittenRow
<1> DEFINE source == [c \in columns |-> row[c]]
           cells  == [c \in DOMAIN saved.spec |-> Mask(saved.spec[c], source[c])]
<1>3. output' = RewriteColumns(source, cells)
  BY <1>1 DEF Transformed, MaskPii
<1>4. PICK spec \in Maskings :
          saved.spec = [c \in DOMAIN spec \cap form.target_columns |-> spec[c]]
  BY <1>2 DEF SpecOK
<1>5. output'.before = source
  BY <1>3 DEF RewriteColumns
<1>6. ASSUME NEW c \in DOMAIN saved.spec \cap columns
      PROVE  output'.after[c] = Mask(saved.spec[c], source[c]).value
  BY <1>3, <1>6 DEF RewriteColumns
<1>7. ASSUME NEW c \in DOMAIN saved.spec PROVE saved.spec[c] \subseteq PiiTypes
  BY <1>4, <1>7, MaskingTypes
<1> SUFFICES ASSUME NEW c \in DOMAIN saved.spec \cap columns, source[c] # Null,
                    saved.spec[c] \cap (WholeValueTypes \cup {"person_name"}) = {},
                    NEW i \in DOMAIN source[c], NEW t \in saved.spec[c]
             PROVE  /\ output'.after[c][i] \notin Finds[t]
                    /\ t = "credit_card" /\ source[c][i] = "card" =>
                           output'.after[c][i] = Masked[t]
  BY <1>2, <1>5 DEF MasksLeaveNothing
<1>8. saved.spec[c] \subseteq InText
  BY <1>7 DEF PiiTypes, Finds, InText
<1>9. Mask(saved.spec[c], source[c]).value[i] \notin Finds[t]
  BY <1>8, NoWordIsLeft
<1>10. ASSUME t = "credit_card", source[c][i] = "card"
       PROVE  Mask(saved.spec[c], source[c]).value[i] = Masked[t]
  BY <1>8, <1>10, CardIsACard
<1> QED
  BY <1>6, <1>9, <1>10

-----------------------------------------------------------------------------
(* Replacements.  A recursive function is some solution of its equation; that the  *)
(* equation of Number has one follows from the order of the natural numbers: take  *)
(* the smallest k beyond which no function solves it, and extend the one below.    *)

\* g solves the equation of Number for every k < bound.
SolvesBelow(text, i, g, bound) ==
    \A k \in 0..Len(text) : k < bound => g[k] = NumberTo(text, g, i, k)

LEMMA DigitTypes == \A d \in Digits : DigitValue[d] \in 0..2
  BY DEF Digits, DigitValue

LEMMA NumberToType ==
  ASSUME NEW text \in Seq(STRING), NEW i \in Nat \ {0}, NEW k \in 0..Len(text),
         NEW g \in [0..Len(text) -> Nat]
  PROVE  NumberTo(text, g, i, k) \in Nat
<1>1. CASE k < i \/ text[k] \notin Digits
  BY <1>1 DEF NumberTo
<1>2. CASE ~(k < i) /\ text[k] \in Digits
  <2>1. k - 1 \in 0..Len(text) /\ DigitValue[text[k]] \in 0..2
    BY <1>2, DigitTypes
  <2>2. g[k - 1] \in Nat /\ DigitValue[text[k]] \in Nat
    BY <2>1
  <2>3. 10 * g[k - 1] + DigitValue[text[k]] \in Nat
    BY <2>2
  <2> QED
    BY <1>2, <2>3 DEF NumberTo
<1> QED
  BY <1>1, <1>2

LEMMA NumberExists ==
  ASSUME NEW text \in Seq(STRING), NEW i \in Nat \ {0}
  PROVE  \A bound \in Nat : \E g \in [0..Len(text) -> Nat] : SolvesBelow(text, i, g, bound)
<1> DEFINE G == [0..Len(text) -> Nat]
           Unsolved == {bound \in Nat : ~ \E g \in G : SolvesBelow(text, i, g, bound)}
<1> SUFFICES ASSUME Unsolved # {} PROVE FALSE
  OBVIOUS
<1>1. PICK b \in Unsolved : \A k \in Unsolved : b <= k
  BY Smallest
<1>2. b # 0
  <2>1. [k \in 0..Len(text) |-> 0] \in G
    OBVIOUS
  <2>2. \A g : SolvesBelow(text, i, g, 0)
    BY DEF SolvesBelow
  <2> QED
    BY <2>1, <2>2
<1>3. b - 1 \in Nat /\ b - 1 \notin Unsolved
  BY <1>1, <1>2
<1>4. PICK g \in G : SolvesBelow(text, i, g, b - 1)
  BY <1>3
<1> DEFINE h == [k \in 0..Len(text) |-> NumberTo(text, g, i, k)]
<1>5. h \in G
  BY NumberToType
<1>6. ASSUME NEW k \in 0..Len(text), k < b PROVE h[k] = NumberTo(text, h, i, k)
  <2>1. CASE k < i \/ text[k] \notin Digits
    BY <2>1 DEF NumberTo
  <2>2. CASE ~(k < i) /\ text[k] \in Digits
    <3>1. k - 1 \in 0..Len(text) /\ k - 1 < b - 1
      BY <1>6, <2>2
    <3>2. h[k - 1] = g[k - 1]
      BY <1>4, <3>1 DEF SolvesBelow
    <3> QED
      BY <2>2, <3>2 DEF NumberTo
  <2> QED
    BY <2>1, <2>2
<1>7. SolvesBelow(text, i, h, b)
  BY <1>6 DEF SolvesBelow
<1> QED
  BY <1>1, <1>5, <1>7

\* The number that one digit forms.
LEMMA OneDigit ==
  ASSUME NEW text \in Seq(STRING), NEW i \in 1..Len(text), text[i] \in Digits
  PROVE  Number(text, i, i) = DigitValue[text[i]]
<1> DEFINE Solves(g) == g = [n \in 0..Len(text) |-> NumberTo(text, g, i, n)]
           number == CHOOSE g : Solves(g)
<1>1. Number(text, i, i) = number[i]
  BY DEF Number
<1>2. PICK g \in [0..Len(text) -> Nat] : SolvesBelow(text, i, g, Len(text) + 1)
  BY NumberExists
<1>3. g = [n \in 0..Len(text) |-> g[n]]
  OBVIOUS
<1>4. \A n \in 0..Len(text) : g[n] = NumberTo(text, g, i, n)
  BY <1>2 DEF SolvesBelow
<1>5. Solves(g)
  BY <1>3, <1>4
<1>6. Solves(number)
  <2> HIDE DEF Solves
  <2> QED
    BY <1>5
<1>7. ASSUME NEW n \in 0..Len(text) PROVE number[n] = NumberTo(text, number, i, n)
  <2> HIDE DEF number
  <2> QED
    BY <1>6
<1> HIDE DEF number, Solves
<1>8. number[i - 1] = 0
  BY <1>7 DEF NumberTo
<1>9. number[i] = 10 * number[i - 1] + DigitValue[text[i]]
  BY <1>7 DEF NumberTo
<1> QED
  BY <1>1, <1>8, <1>9, DigitTypes

\* A valid reference ends with its first digit.
LEMMA LastIsFirst ==
  ASSUME NEW text \in Seq(STRING), NEW groups \in Nat, ValidReplacement(text, groups),
         NEW i \in 1..Len(text), text[i] = "$"
  PROVE  /\ i < Len(text) /\ text[i + 1] \in Digits
         /\ Fits(text, groups, i + 1, i + 1)
         /\ LastDigit(text, groups, i + 1) = i + 1
         /\ Number(text, i + 1, i + 1) = DigitValue[text[i + 1]]
<1>1. /\ i < Len(text) /\ text[i + 1] \in Digits
      /\ DigitValue[text[i + 1]] <= groups
      /\ i + 2 <= Len(text) => text[i + 2] \notin Digits
  BY DEF ValidReplacement, ReferenceAt
<1> DEFINE d == i + 1
<1>2. d \in 1..Len(text)
  BY <1>1
<1>3. Number(text, d, d) = DigitValue[text[d]]
  BY <1>1, <1>2, OneDigit
<1>4. Fits(text, groups, d, d)
  BY <1>1, <1>2, <1>3 DEF Fits
<1>5. d = Len(text) \/ ~Fits(text, groups, d, d + 1)
  <2>1. CASE d < Len(text)
    <3>1. text[d + 1] \notin Digits
      BY <1>1, <2>1
    <3> QED
      BY <3>1 DEF Fits
  <2> QED
    BY <1>2, <2>1
<1>6. ASSUME NEW k \in d..Len(text), Fits(text, groups, d, k) PROVE k = d
  <2>1. CASE k > d
    <3>1. d + 1 \in d..k /\ d + 1 <= Len(text)
      BY <2>1
    <3>2. text[d + 1] \notin Digits
      BY <1>1, <3>1
    <3>3. text[d + 1] \in Digits
      BY <1>6, <3>1 DEF Fits
    <3> QED
      BY <3>2, <3>3
  <2> QED
    BY <2>1
<1>7. LastDigit(text, groups, d) = d
  <2> DEFINE Ends(k) == Fits(text, groups, d, k)
                        /\ (k = Len(text) \/ ~Fits(text, groups, d, k + 1))
  <2>1. Ends(d) /\ \A k \in d..Len(text) : Ends(k) => k = d
    BY <1>4, <1>5, <1>6
  <2>2. LastDigit(text, groups, d) = CHOOSE k \in d..Len(text) : Ends(k)
    BY DEF LastDigit
  <2> HIDE DEF Ends
  <2> QED
    BY <1>2, <2>1, <2>2
<1> QED
  BY <1>1, <1>3, <1>4, <1>7

\* So each step of Java's reading is the plain one, whatever was read before ...
LEMMA SameStep ==
  ASSUME NEW text \in Seq(STRING), NEW groups \in Nat, ValidReplacement(text, groups),
         NEW read, NEW i \in 1..(Len(text) + 1)
  PROVE  JavaFrom(text, groups, read, i) = PlainFrom(text, read, i)
<1>1. CASE i > Len(text)
  BY <1>1 DEF JavaFrom, PlainFrom
<1>2. CASE i <= Len(text)
  <2>1. i \in 1..Len(text) /\ i \in DOMAIN text
    BY <1>2
  <2>2. text[i] # "\\"
    BY <2>1 DEF ValidReplacement
  <2>3. CASE text[i] # "$"
    BY <1>2, <2>2, <2>3 DEF JavaFrom, PlainFrom, ReferenceAt
  <2>4. CASE text[i] = "$"
    <3>1. /\ i < Len(text) /\ text[i + 1] \in Digits
          /\ Fits(text, groups, i + 1, i + 1)
          /\ LastDigit(text, groups, i + 1) = i + 1
          /\ Number(text, i + 1, i + 1) = DigitValue[text[i + 1]]
      BY <2>1, <2>4, LastIsFirst
    <3>2. PlainFrom(text, read, i)
            = << <<"group", DigitValue[text[i + 1]]>> >> \o read[i + 2]
      BY <1>2, <2>4, <3>1 DEF PlainFrom, ReferenceAt
    <3>3. JavaFrom(text, groups, read, i)
            = << <<"group", Number(text, i + 1, i + 1)>> >> \o read[(i + 1) + 1]
      <4>1. ~(i > Len(text)) /\ i # Len(text) /\ text[i] \in {"\\", "$"}
        BY <1>2, <2>4, <3>1
      <4> QED
        BY <2>2, <3>1, <4>1, Zenon DEF JavaFrom
    <3>4. (i + 1) + 1 = i + 2
      OBVIOUS
    <3> QED
      BY <3>1, <3>2, <3>3, <3>4
  <2> QED
    BY <2>3, <2>4
<1> QED
  BY <1>1, <1>2

\* ... and the two readings solve the same equation.
LEMMA SameReading ==
  ASSUME NEW text \in Seq(STRING), NEW groups \in Nat, ValidReplacement(text, groups)
  PROVE  JavaReading(text, groups) = PlainReading(text)
<1>1. ASSUME NEW read, NEW i \in 1..(Len(text) + 1)
      PROVE  JavaFrom(text, groups, read, i) = PlainFrom(text, read, i)
  BY SameStep
<1> QED
  BY <1>1, Zenon DEF JavaReading, PlainReading

\* What was saved passed validate_replacement.
LEMMA SavedReadsAlike ==
  ASSUME SpecOK
  PROVE  ReplacementsReadAlike
<1> SUFFICES ASSUME form.transform_type = "normalize_format", saved.spec # NoSpec,
                    saved.spec.kind = "rules"
             PROVE  JavaReading(saved.spec.replacement, saved.spec.groups)
                        = PlainReading(saved.spec.replacement)
  BY DEF ReplacementsReadAlike
<1>1. saved.spec \in Normalizations /\ ValidSpec(saved.spec)
  BY DEF SpecOK
<1>2. saved.spec.replacement \in Seq(STRING) /\ saved.spec.groups \in Nat
  BY <1>1, SubmissionAssumption
<1>3. ValidReplacement(saved.spec.replacement, saved.spec.groups)
  BY <1>1 DEF ValidSpec
<1> QED
  BY <1>2, <1>3, SameReading

-----------------------------------------------------------------------------
(* Steps and the end of a job *)

RowOK == OutputOK /\ UnmatchedRowIsUnchanged /\ MasksLeaveNothing

LEMMA InitRow == Init => RowOK
  BY DEF Init, RowOK, OutputOK, UnmatchedRowIsUnchanged, MasksLeaveNothing

\* Only WriteOutput makes a row, and nothing happens after that.
LEMMA RowIsLast ==
  ASSUME OutputOK, [Next]_vars
  PROVE  \/ UNCHANGED vars
         \/ output = NoRow /\ UNCHANGED output
         \/ WriteOutput
<1>1. CASE UNCHANGED vars
  BY <1>1
<1>2. CASE Write \/ ReplaceFile \/ ConnectionExpires \/ \E f \in Forms : Submit(f)
  BY <1>2 DEF Write, ReplaceFile, ConnectionExpires, Submit, OutputOK, Running
<1>3. CASE RunStep
  BY <1>3 DEF RunStep, Begin, UseStoredPattern, AskForPattern, Load, BuildReplace,
     GenerateSpec, BuildFromSpec, OutputOK
<1> QED
  BY <1>1, <1>2, <1>3 DEF Next

LEMMA StepRow ==
  ASSUME TypeOK, SpecOK, RowOK, [Next]_vars
  PROVE  RowOK'
<1> USE DEF RowOK
<1>1. CASE UNCHANGED vars
  BY <1>1 DEF vars, formVars, runVars, OutputOK, UnmatchedRowIsUnchanged, MasksLeaveNothing
<1>2. CASE output' = NoRow
  BY <1>2 DEF OutputOK, UnmatchedRowIsUnchanged, MasksLeaveNothing
<1>3. CASE WriteOutput /\ output' # NoRow
  <2>1. place' = "done"
    BY <1>3 DEF WriteOutput, OutputOK
  <2>2. UnmatchedRowIsUnchanged'
    BY <1>3, UnmatchedRow DEF UnmatchedRowIsUnchanged
  <2>3. MasksLeaveNothing'
    <3>1. CASE form.transform_type = "mask_pii"
      BY <1>3, <3>1, MaskedRow
    <3>2. CASE form.transform_type # "mask_pii"
      BY <1>3, <3>2, WrittenRow DEF MasksLeaveNothing
    <3> QED
      BY <3>1, <3>2
  <2> QED
    BY <2>1, <2>2, <2>3 DEF OutputOK
<1> QED
  BY <1>1, <1>2, <1>3, RowIsLast

-----------------------------------------------------------------------------
(* Functions defined by recursion.  TLA+ gives such a function by CHOOSE: it has   *)
(* the equation it is defined by only if some function has it.  One does if every  *)
(* value depends on values of lower rank only.                                     *)

\* g has the equation where the rank is below the bound.
Solves(g, F, rank, bound) == \A i \in DOMAIN rank : rank[i] < bound => g[i] = F[i][g]

\* F gives the value at i for a function that has the values of lower rank.
GoesByRank(I, T, rank, F) ==
    /\ rank \in [I -> Nat] /\ F \in [I -> [[I -> T] -> T]]
    /\ \A i \in I : \A g, h \in [I -> T] :
           (\A k \in I : rank[k] < rank[i] => g[k] = h[k]) => F[i][g] = F[i][h]

\* Two functions that have the equation below a bound agree there.
Agree(I, T, rank, F) ==
    \A bound \in Nat : \A g, h \in [I -> T] :
        Solves(g, F, rank, bound) /\ Solves(h, F, rank, bound) =>
            \A i \in I : rank[i] < bound => g[i] = h[i]

LEMMA SolvedBelow ==
  ASSUME NEW I, NEW T, T # {}, NEW rank, NEW F, GoesByRank(I, T, rank, F)
  PROVE  \A bound \in Nat : \E g \in [I -> T] : Solves(g, F, rank, bound)
<1> /\ rank \in [I -> Nat] /\ F \in [I -> [[I -> T] -> T]]
      /\ \A i \in I : \A g, h \in [I -> T] :
            (\A k \in I : rank[k] < rank[i] => g[k] = h[k]) => F[i][g] = F[i][h]
  BY DEF GoesByRank
<1> DEFINE Unsolved == {bound \in Nat : ~ \E g \in [I -> T] : Solves(g, F, rank, bound)}
<1> SUFFICES ASSUME Unsolved # {} PROVE FALSE
  OBVIOUS
<1>1. PICK b \in Unsolved : \A k \in Unsolved : b <= k
  BY Smallest
<1>2. b # 0
  <2>1. PICK t \in T : TRUE
    OBVIOUS
  <2>2. [i \in I |-> t] \in [I -> T]
    OBVIOUS
  <2>3. \A g : Solves(g, F, rank, 0)
    BY DEF Solves
  <2> QED
    BY <2>2, <2>3
<1>3. b - 1 \in Nat /\ b - 1 \notin Unsolved
  BY <1>1, <1>2
<1>4. PICK g \in [I -> T] : Solves(g, F, rank, b - 1)
  BY <1>3
<1> DEFINE h == [i \in I |-> F[i][g]]
<1>5. h \in [I -> T]
  OBVIOUS
<1>6. ASSUME NEW i \in I, rank[i] < b PROVE h[i] = F[i][h]
  <2>1. ASSUME NEW k \in I, rank[k] < rank[i] PROVE g[k] = h[k]
    <3>1. rank[k] \in Nat /\ rank[i] \in Nat /\ b \in Nat
      OBVIOUS
    <3>2. rank[k] < b - 1
      BY <1>6, <2>1, <3>1
    <3> QED
      BY <1>4, <3>2 DEF Solves
  <2>2. F[i][g] = F[i][h]
    <3> HIDE DEF h
    <3> QED
      BY <1>5, <2>1
  <2> QED
    BY <2>2
<1>7. Solves(h, F, rank, b)
  BY <1>6 DEF Solves
<1> QED
  BY <1>1, <1>5, <1>7

LEMMA SolvedOnce ==
  ASSUME NEW I, NEW T, NEW rank, NEW F, GoesByRank(I, T, rank, F)
  PROVE  Agree(I, T, rank, F)
<1> /\ rank \in [I -> Nat] /\ F \in [I -> [[I -> T] -> T]]
      /\ \A i \in I : \A g, h \in [I -> T] :
            (\A k \in I : rank[k] < rank[i] => g[k] = h[k]) => F[i][g] = F[i][h]
  BY DEF GoesByRank
<1> SUFFICES ASSUME NEW bound \in Nat, NEW g \in [I -> T], NEW h \in [I -> T],
                    Solves(g, F, rank, bound), Solves(h, F, rank, bound)
             PROVE  \A i \in I : rank[i] < bound => g[i] = h[i]
  BY DEF Agree
<1> DEFINE Apart == {n \in Nat : \E i \in I : rank[i] = n /\ n < bound /\ g[i] # h[i]}
<1> SUFFICES ASSUME Apart # {} PROVE FALSE
  OBVIOUS
<1>1. PICK n \in Apart : \A k \in Apart : n <= k
  BY Smallest
<1>2. PICK i \in I : rank[i] = n /\ n < bound /\ g[i] # h[i]
  BY <1>1
<1>3. ASSUME NEW k \in I, rank[k] < rank[i] PROVE g[k] = h[k]
  <2>1. rank[k] \in Nat /\ n \in Nat
    OBVIOUS
  <2>2. rank[k] \notin Apart /\ rank[k] < bound
    BY <1>1, <1>2, <1>3, <2>1
  <2> QED
    BY <2>1, <2>2
<1>4. F[i][g] = F[i][h]
  BY <1>3
<1> QED
  BY <1>2, <1>4 DEF Solves

LEMMA RecursionExists ==
  ASSUME NEW I, NEW T, T # {}, NEW rank, NEW F, GoesByRank(I, T, rank, F)
  PROVE  \E f \in [I -> T] : \A i \in I : f[i] = F[i][f]
<1>0. /\ rank \in [I -> Nat] /\ F \in [I -> [[I -> T] -> T]]
      /\ \A i \in I : \A g, h \in [I -> T] :
            (\A k \in I : rank[k] < rank[i] => g[k] = h[k]) => F[i][g] = F[i][h]
  BY DEF GoesByRank
<1> DEFINE Part(i) == CHOOSE g \in [I -> T] : Solves(g, F, rank, rank[i] + 1)
           f == [i \in I |-> Part(i)[i]]
<1>1. ASSUME NEW i \in I PROVE Part(i) \in [I -> T] /\ Solves(Part(i), F, rank, rank[i] + 1)
  <2>1. rank[i] + 1 \in Nat
    BY <1>0
  <2>2. \E g \in [I -> T] : Solves(g, F, rank, rank[i] + 1)
    BY <2>1, SolvedBelow
  <2> QED
    BY <2>2
<1>2. Agree(I, T, rank, F)
  BY SolvedOnce
<1>3. f \in [I -> T]
  <2> HIDE DEF Part
  <2> QED
    BY <1>1
<1>4. ASSUME NEW i \in I PROVE f[i] = F[i][f]
  <2>1. ASSUME NEW k \in I, rank[k] < rank[i] PROVE Part(i)[k] = f[k]
    <3> HIDE DEF Part
    <3>1. rank[k] + 1 \in Nat /\ rank[k] \in Nat /\ rank[i] \in Nat
      BY <1>0
    <3>2. Solves(Part(i), F, rank, rank[k] + 1)
      BY <1>0, <1>1, <2>1, <3>1 DEF Solves
    <3>3. Part(i)[k] = Part(k)[k]
      BY <1>1, <1>2, <2>1, <3>1, <3>2 DEF Agree
    <3> QED
      BY <3>3
  <2>2. Part(i)[i] = F[i][Part(i)]
    <3> HIDE DEF Part
    <3> QED
      BY <1>0, <1>1 DEF Solves
  <2>3. F[i][Part(i)] = F[i][f]
    <3> HIDE DEF Part, f
    <3> QED
      BY <1>0, <1>1, <1>3, <2>1
  <2> QED
    BY <2>2, <2>3
<1> QED
  BY <1>3, <1>4

-----------------------------------------------------------------------------
(* The elements of a tree *)

LEMMA ElementTypes ==
  ASSUME NEW e \in Elements
  PROVE  /\ e.op \in Ops /\ e.min \in Nat /\ e.max \in Nat /\ e.min <= e.max
         /\ e.subs \in Seq(Seq(Shallower(e)))
         /\ e.op \notin {"char", "at", "branch"} => Len(e.subs) = 1
  BY RegexAssumption

LEMMA DepthTypes == Depth \in [Elements -> Nat]
  BY RegexAssumption

\* The sequences inside an element, which is deeper than what is in them.
LEMMA InsideElement ==
  ASSUME NEW e \in Elements, NEW s \in ToSet(e.subs)
  PROVE  /\ s \in Seq(Elements)
         /\ \A x \in ToSet(s) : x \in Elements /\ Depth[x] < Depth[e]
<1>1. e.subs \in Seq(Seq(Shallower(e)))
  BY ElementTypes
<1>2. s \in Seq(Shallower(e))
  BY <1>1 DEF ToSet
<1>3. \A x \in ToSet(s) : x \in Shallower(e)
  BY <1>2 DEF ToSet
<1>4. s \in Seq(Elements)
  BY <1>2, SeqMonotonic DEF Shallower
<1> QED
  BY <1>3, <1>4 DEF Shallower

LEMMA Body ==
  ASSUME NEW e \in Elements, e.op \notin {"char", "at", "branch"}
  PROVE  e.subs[1] \in ToSet(e.subs) /\ ToSet(e.subs) = {e.subs[1]}
<1>1. e.subs \in Seq(Seq(Shallower(e))) /\ Len(e.subs) = 1
  BY ElementTypes
<1> QED
  BY <1>1 DEF ToSet

\* What holds of an element when it holds of those inside holds of all.
LEMMA TreeInduction ==
  ASSUME NEW S, \A e \in Elements : Shallower(e) \subseteq S => e \in S
  PROVE  Elements \subseteq S
<1> DEFINE Left == {n \in Nat : \E e \in Elements : e \notin S /\ Depth[e] = n}
<1> SUFFICES ASSUME NEW e \in Elements, e \notin S PROVE FALSE
  OBVIOUS
<1>1. Depth[e] \in Left
  BY DepthTypes
<1>2. PICK n \in Left : \A k \in Left : n <= k
  BY <1>1, Smallest
<1>3. PICK x \in Elements : x \notin S /\ Depth[x] = n
  BY <1>2
<1>4. ASSUME NEW y \in Shallower(x) PROVE y \in S
  <2>1. y \in Elements /\ Depth[y] < n /\ Depth[y] \in Nat /\ n \in Nat
    BY <1>3, DepthTypes DEF Shallower
  <2>2. Depth[y] \notin Left
    BY <1>2, <2>1
  <2> QED
    BY <2>1, <2>2
<1> QED
  BY <1>3, <1>4

-----------------------------------------------------------------------------
(* The equations of the functions on the elements *)

LEMMA NullableLocal ==
  ASSUME NEW e \in Elements, NEW g, NEW h,
         \A x \in Elements : Depth[x] < Depth[e] => g[x] = h[x]
  PROVE  NullableStep(g, e) <=> NullableStep(h, e)
<1>1. ASSUME NEW s \in ToSet(e.subs) PROVE AllOf(g, s) <=> AllOf(h, s)
  BY InsideElement DEF AllOf
<1>2. e.op \notin {"char", "at", "branch"} => e.subs[1] \in ToSet(e.subs)
  BY Body
<1> QED
  BY <1>1, <1>2 DEF NullableStep, Repeats

LEMMA NullableEquation ==
  /\ NullableElement \in [Elements -> BOOLEAN]
  /\ \A e \in Elements : NullableElement[e] <=> NullableStep(NullableElement, e)
<1> DEFINE F == [e \in Elements |-> [g \in [Elements -> BOOLEAN] |-> NullableStep(g, e)]]
           Equation(g) == g = [e \in Elements |-> NullableStep(g, e)]
<1>1. ASSUME NEW e \in Elements, NEW g PROVE NullableStep(g, e) \in BOOLEAN
  BY DEF NullableStep
<1>2. F \in [Elements -> [[Elements -> BOOLEAN] -> BOOLEAN]]
  BY <1>1
<1>3. GoesByRank(Elements, BOOLEAN, Depth, F)
  <2>1. ASSUME NEW e \in Elements, NEW g \in [Elements -> BOOLEAN],
               NEW h \in [Elements -> BOOLEAN],
               \A x \in Elements : Depth[x] < Depth[e] => g[x] = h[x]
        PROVE  F[e][g] = F[e][h]
    <3>1. NullableStep(g, e) <=> NullableStep(h, e)
      BY <2>1, NullableLocal
    <3> QED
      BY <1>1, <3>1
  <2> HIDE DEF F
  <2> QED
    BY <1>2, <2>1, DepthTypes DEF GoesByRank
<1>4. PICK f \in [Elements -> BOOLEAN] : \A e \in Elements : f[e] = F[e][f]
  <2> HIDE DEF F
  <2>1. BOOLEAN # {}
    OBVIOUS
  <2> QED
    BY <1>3, <2>1, RecursionExists
<1>5. Equation(f)
  <2>1. f = [e \in Elements |-> f[e]]
    OBVIOUS
  <2>2. \A e \in Elements : f[e] = NullableStep(f, e)
    BY <1>4
  <2> QED
    BY <2>1, <2>2
<1>6. NullableElement = CHOOSE g : Equation(g)
  BY DEF NullableElement
<1>7. Equation(NullableElement)
  <2> HIDE DEF Equation
  <2> QED
    BY <1>5, <1>6
<1> HIDE DEF F
<1> QED
  BY <1>1, <1>7

-----------------------------------------------------------------------------
(* Words that are made of words *)

LEMMA WordTypes == WordsUpTo \subseteq Seq(Alphabet) /\ <<>> \in WordsUpTo
<1>1. MaxWord \in Nat
  BY RegexAssumption
<1>2. <<>> \in [1..0 -> Alphabet]
  OBVIOUS
<1> QED
  BY <1>1, <1>2 DEF WordsUpTo, BoundedSeq, SeqOf

Languages == SUBSET Seq(Alphabet)

LEMMA WordOfTwo ==
  ASSUME NEW L, NEW M, NEW word
  PROVE  word \in Concatenated(L, M)
             <=> word \in WordsUpTo /\ \E v \in L, w \in M : v \o w = word
<1> DEFINE P == {v \o w : v \in L, w \in M}
<1>1. word \in P <=> \E v \in L, w \in M : v \o w = word
  OBVIOUS
<1>2. Concatenated(L, M) = P \cap WordsUpTo
  BY DEF Concatenated
<1> HIDE DEF P
<1> QED
  BY <1>1, <1>2

LEMMA JoinedStepType ==
  ASSUME NEW sets, NEW joined, NEW i
  PROVE  JoinedStep(sets, joined, i) \in SUBSET WordsUpTo
<1>1. Concatenated(sets[i], joined[i + 1]) \subseteq WordsUpTo
  BY WordOfTwo
<1> QED
  BY <1>1, WordTypes DEF JoinedStep

\* Sets of words.
WordSets == SUBSET WordsUpTo

LEMMA JoinedExists ==
  ASSUME NEW sets, Len(sets) \in Nat
  PROVE  \E f \in [Places(sets) -> WordSets] :
             \A i \in Places(sets) : f[i] = JoinedStep(sets, f, i)
<1> DEFINE I == Places(sets)
           T == WordSets
           rank == [i \in I |-> Len(sets) + 1 - i]
           F == [i \in I |-> [g \in [I -> T] |-> JoinedStep(sets, g, i)]]
<1>1. F \in [I -> [[I -> T] -> T]]
  BY JoinedStepType DEF WordSets
<1>2. rank \in [I -> Nat]
  BY DEF Places
<1>3. ASSUME NEW i \in I, NEW g \in [I -> T], NEW h \in [I -> T],
             \A k \in I : rank[k] < rank[i] => g[k] = h[k]
      PROVE  F[i][g] = F[i][h]
  <2>1. ~(i > Len(sets)) => g[i + 1] = h[i + 1]
    <3> SUFFICES ASSUME ~(i > Len(sets)) PROVE g[i + 1] = h[i + 1]
      OBVIOUS
    <3>1. i + 1 \in I /\ rank[i + 1] < rank[i]
      BY DEF Places
    <3> QED
      BY <1>3, <3>1
  <2>2. JoinedStep(sets, g, i) = JoinedStep(sets, h, i)
    BY <2>1 DEF JoinedStep
  <2> QED
    BY <2>2
<1>4. GoesByRank(I, T, rank, F)
  <2> HIDE DEF F, rank
  <2> QED
    BY <1>1, <1>2, <1>3 DEF GoesByRank
<1>5. PICK f \in [I -> T] : \A i \in I : f[i] = F[i][f]
  <2>1. T # {}
    BY DEF WordSets
  <2> HIDE DEF F, rank
  <2> QED
    BY <1>4, <2>1, RecursionExists
<1> QED
  BY <1>5

LEMMA JoinedEquation ==
  ASSUME NEW sets, Len(sets) \in Nat
  PROVE  \E joined \in [Places(sets) -> WordSets] :
             /\ Joined(sets) = joined[1]
             /\ \A i \in Places(sets) : joined[i] = JoinedStep(sets, joined, i)
<1> DEFINE I == Places(sets)
           Equation(g) == g = [i \in I |-> JoinedStep(sets, g, i)]
           joined == CHOOSE g : Equation(g)
<1>1. PICK f \in [I -> WordSets] : \A i \in I : f[i] = JoinedStep(sets, f, i)
  BY JoinedExists
<1>2. Equation(f)
  <2>1. f = [i \in I |-> f[i]]
    OBVIOUS
  <2> QED
    BY <1>1, <2>1
<1>3. Joined(sets) = joined[1]
  BY DEF Joined
<1>4. Equation(joined)
  <2> HIDE DEF Equation
  <2> QED
    BY <1>2
<1>5. joined \in [I -> WordSets] /\ \A i \in I : joined[i] = JoinedStep(sets, joined, i)
  <2> HIDE DEF joined
  <2> QED
    BY <1>4, JoinedStepType DEF WordSets
<1> HIDE DEF joined
<1> QED
  BY <1>3, <1>5

LEMMA JoinedType ==
  ASSUME NEW sets, Len(sets) \in Nat
  PROVE  Joined(sets) \subseteq WordsUpTo
<1>1. 1 \in Places(sets)
  BY DEF Places
<1> QED
  BY <1>1, JoinedEquation DEF WordSets

\* From any place on, and so from the first: the empty word is made of empty words.
LEMMA EmptyJoined ==
  ASSUME NEW sets \in Seq(Languages)
  PROVE  <<>> \in Joined(sets) <=> \A i \in 1..Len(sets) : <<>> \in sets[i]
<1> DEFINE n == Len(sets)
           I == Places(sets)
<1>1. PICK joined \in [I -> WordSets] :
          /\ Joined(sets) = joined[1]
          /\ \A i \in I : joined[i] = JoinedStep(sets, joined, i)
  BY JoinedEquation
<1> DEFINE Right(i) == <<>> \in joined[i] <=> \A k \in i..n : <<>> \in sets[k]
           Wrong == {m \in Nat : \E i \in I : ~Right(i) /\ m = n + 1 - i}
<1>2. n \in Nat /\ I = 1..(n + 1)
  BY DEF Places
<1>3. ASSUME NEW i \in 1..n PROVE <<>> \in joined[i] <=> <<>> \in sets[i] /\ <<>> \in joined[i + 1]
  <2>1. joined[i] = Concatenated(sets[i], joined[i + 1])
    <3>1. i \in I /\ ~(i > Len(sets))
      BY <1>2
    <3>2. joined[i] = JoinedStep(sets, joined, i)
      BY <1>1, <3>1
    <3> QED
      BY <3>1, <3>2 DEF JoinedStep
  <2>2. sets[i] \subseteq Seq(Alphabet) /\ joined[i + 1] \subseteq Seq(Alphabet)
    BY <1>1, <1>2, WordTypes DEF Languages, WordSets
  <2>3. ASSUME NEW v \in Seq(Alphabet), NEW w \in Seq(Alphabet)
        PROVE  v \o w = <<>> <=> v = <<>> /\ w = <<>>
    BY ConcatEqualIffEmpty
  <2>4. <<>> \in joined[i] <=> \E v \in sets[i], w \in joined[i + 1] : v \o w = <<>>
    BY <2>1, WordTypes, WordOfTwo
  <2> QED
    BY <2>2, <2>3, <2>4
<1>4. Right(n + 1)
  BY <1>1, <1>2 DEF JoinedStep
<1>5. ASSUME NEW i \in 1..n, Right(i + 1) PROVE Right(i)
  <2>1. (\A k \in i..n : <<>> \in sets[k]) <=>
            <<>> \in sets[i] /\ \A k \in (i + 1)..n : <<>> \in sets[k]
    <3>1. \A k \in Int : k \in i..n <=> k = i \/ k \in (i + 1)..n
      BY <1>2
    <3> QED
      BY <1>2, <3>1
  <2> QED
    BY <1>3, <1>5, <2>1
<1>6. Wrong = {}
  <2> SUFFICES ASSUME Wrong # {} PROVE FALSE
    OBVIOUS
  <2>1. PICK m \in Wrong : \A k \in Wrong : m <= k
    BY Smallest
  <2>2. PICK i \in I : ~Right(i) /\ m = n + 1 - i
    BY <2>1
  <2>3. i \in 1..n
    BY <1>2, <1>4, <2>2
  <2>4. m - 1 \in Nat /\ i + 1 \in I /\ m - 1 = n + 1 - (i + 1) /\ m - 1 < m
    BY <1>2, <2>2, <2>3
  <2>5. Right(i + 1)
    <3>1. m - 1 \notin Wrong
      <4> HIDE DEF Wrong
      <4>1. Wrong \subseteq Nat
        BY DEF Wrong
      <4> QED
        BY <2>1, <2>4, <4>1
    <3> HIDE DEF Right
    <3> QED
      BY <2>4, <3>1
  <2> QED
    BY <1>5, <2>2, <2>3, <2>5
<1>7. Right(1)
  BY <1>2, <1>6
<1> QED
  BY <1>1, <1>7

\* A word that is not empty starts like a word of one of the sets, behind empty ones.
LEMMA FirstJoined ==
  ASSUME NEW sets \in Seq(Languages)
  PROVE  \A word \in Joined(sets) : word # <<>> =>
             \E i \in 1..Len(sets) :
                 /\ \A k \in 1..(i - 1) : <<>> \in sets[k]
                 /\ \E v \in sets[i] : v # <<>> /\ v[1] = word[1]
<1> DEFINE n == Len(sets)
           I == Places(sets)
<1>1. PICK joined \in [I -> WordSets] :
          /\ Joined(sets) = joined[1]
          /\ \A i \in I : joined[i] = JoinedStep(sets, joined, i)
  BY JoinedEquation
<1> DEFINE Starting(word, i, m) ==
               /\ \A k \in i..(m - 1) : <<>> \in sets[k]
               /\ \E v \in sets[m] : v # <<>> /\ v[1] = word[1]
           Right(i) == \A word \in joined[i] : word # <<>> => \E m \in i..n : Starting(word, i, m)
           Wrong == {m \in Nat : \E i \in I : ~Right(i) /\ m = n + 1 - i}
<1>2. n \in Nat /\ I = 1..(n + 1)
  BY DEF Places
<1>3. Right(n + 1)
  BY <1>1, <1>2 DEF JoinedStep
<1>4. ASSUME NEW i \in 1..n, Right(i + 1) PROVE Right(i)
  <2> SUFFICES ASSUME NEW word \in joined[i], word # <<>>
               PROVE  \E m \in i..n : Starting(word, i, m)
    OBVIOUS
  <2>1. joined[i] = Concatenated(sets[i], joined[i + 1])
    <3>1. i \in I /\ ~(i > Len(sets))
      BY <1>2
    <3>2. joined[i] = JoinedStep(sets, joined, i)
      BY <1>1, <3>1
    <3> QED
      BY <3>1, <3>2 DEF JoinedStep
  <2>2. PICK v \in sets[i], w \in joined[i + 1] : v \o w = word
    <3>1. word \in Concatenated(sets[i], joined[i + 1])
      BY <2>1
    <3> QED
      BY <3>1, WordOfTwo
  <2>3. v \in Seq(Alphabet) /\ w \in Seq(Alphabet)
    BY <1>1, <1>2, WordTypes DEF Languages, WordSets
  <2>4. CASE v # <<>>
    <3>1. v[1] = word[1]
      BY <2>2, <2>3, <2>4
    <3>2. Starting(word, i, i)
      BY <2>4, <3>1
    <3> QED
      BY <1>2, <3>2
  <2>5. CASE v = <<>>
    <3>1. w = word
      BY <2>2, <2>3, <2>5, ConcatEmptySeq
    <3>2. PICK m \in (i + 1)..n : Starting(word, i + 1, m)
      BY <1>4, <2>2, <3>1
    <3>3. ASSUME NEW k \in i..(m - 1) PROVE <<>> \in sets[k]
      <4>1. k = i \/ k \in (i + 1)..(m - 1)
        BY <1>2
      <4> QED
        BY <2>2, <2>5, <3>2, <4>1
    <3>4. m \in i..n
      BY <1>2
    <3> QED
      BY <3>2, <3>3, <3>4
  <2> QED
    BY <2>4, <2>5
<1>5. Wrong = {}
  <2> SUFFICES ASSUME Wrong # {} PROVE FALSE
    OBVIOUS
  <2>1. PICK m \in Wrong : \A k \in Wrong : m <= k
    BY Smallest
  <2> HIDE DEF Right
  <2>2. PICK i \in I : ~Right(i) /\ m = n + 1 - i
    BY <2>1
  <2>3. i \in 1..n
    BY <1>2, <1>3, <2>2
  <2>4. m - 1 \in Nat /\ i + 1 \in I /\ m - 1 = n + 1 - (i + 1) /\ m - 1 < m
    BY <1>2, <2>2, <2>3
  <2>5. m - 1 \notin Wrong
    <3> HIDE DEF Wrong
    <3>1. Wrong \subseteq Nat
      BY DEF Wrong
    <3> QED
      BY <2>1, <2>4, <3>1
  <2>6. Right(i + 1)
    BY <2>4, <2>5
  <2> QED
    BY <1>4, <2>2, <2>3, <2>6
<1>6. Right(1)
  <2> HIDE DEF Right
  <2> QED
    BY <1>2, <1>5
<1> QED
  BY <1>1, <1>6

LEMMA CharTypes == \A set : Chars(set) \subseteq Alphabet
<1>1. \A cat \in Categories : InCategory[cat] \subseteq Alphabet
  BY RegexAssumption
<1>2. \A c : Alike(c) \subseteq Alphabet
  BY DEF Alike
<1> SUFFICES ASSUME NEW set, NEW d \in Chars(set) PROVE d \in Alphabet
  OBVIOUS
<1>3. CASE "any" \in set
  BY <1>3 DEF Chars
<1>4. CASE "any" \notin set
  <2> DEFINE written == UNION {Alike(c) : c \in set \cap Alphabet}
             classes == UNION {InCategory[cat] : cat \in set \cap Categories}
  <2>1. Chars(set) = written \cup classes
    BY <1>4 DEF Chars
  <2>2. written \subseteq Alphabet
    BY <1>2
  <2>3. classes \subseteq Alphabet
    BY <1>1
  <2> HIDE DEF written, classes
  <2> QED
    BY <2>1, <2>2, <2>3
<1> QED
  BY <1>3, <1>4

LEMMA WordsInType ==
  ASSUME NEW words, NEW items \in Seq(Elements)
  PROVE  WordsIn(words, items) \subseteq WordsUpTo
<1>1. Len([i \in DOMAIN items |-> words[items[i]]]) \in Nat
  OBVIOUS
<1> QED
  BY <1>1, JoinedType DEF WordsIn

LEMMA RepeatedType ==
  ASSUME NEW n \in Nat, NEW L
  PROVE  /\ Len([i \in 1..n |-> L]) = n
         /\ L \in Languages => [i \in 1..n |-> L] \in Seq(Languages)
         /\ Joined([i \in 1..n |-> L]) \subseteq WordsUpTo
<1>1. Len([i \in 1..n |-> L]) = n
  OBVIOUS
<1>2. L \in Languages => [i \in 1..n |-> L] \in Seq(Languages)
  OBVIOUS
<1> QED
  BY <1>1, <1>2, JoinedType

LEMMA WordsType ==
  ASSUME NEW words, NEW e \in Elements
  PROVE  WordsStep(words, e) \in Languages
<1>1. CASE e.op = "char"
  <2>1. WordsStep(words, e) = {<<c>> : c \in Chars(e.set)}
    BY <1>1 DEF WordsStep, Repeats
  <2>2. \A c \in Chars(e.set) : <<c>> \in Seq(Alphabet)
    BY CharTypes
  <2> QED
    BY <2>1, <2>2 DEF Languages
<1>2. CASE e.op = "at"
  <2>1. WordsStep(words, e) = {<<>>}
    BY <1>2 DEF WordsStep, Repeats
  <2> QED
    BY <2>1 DEF Languages
<1>3. CASE e.op \in Repeats
  <2> DEFINE once == WordsIn(words, e.subs[1])
             sets == {Joined([i \in 1..n |-> once]) : n \in Iterations(e)}
  <2>1. Iterations(e) \subseteq Nat
    BY ElementTypes, RegexAssumption DEF Iterations
  <2>2. \A L \in sets : L \subseteq WordsUpTo
    <3> HIDE DEF once
    <3>1. \A n \in Nat : Joined([i \in 1..n |-> once]) \subseteq WordsUpTo
      BY RepeatedType
    <3> QED
      BY <2>1, <3>1
  <2>3. WordsStep(words, e) = UNION sets
    BY <1>3 DEF WordsStep, Repeats
  <2> HIDE DEF sets
  <2> QED
    BY <2>2, <2>3, WordTypes DEF Languages
<1>4. CASE e.op \notin Repeats \cup {"char", "at"}
  <2>1. \A s \in ToSet(e.subs) : WordsIn(words, s) \subseteq WordsUpTo
    BY InsideElement, WordsInType
  <2>2. WordsStep(words, e) = UNION {WordsIn(words, s) : s \in ToSet(e.subs)}
    BY <1>4 DEF WordsStep, Repeats
  <2> QED
    BY <2>1, <2>2, WordTypes DEF Languages
<1> QED
  BY <1>1, <1>2, <1>3, <1>4

LEMMA WordsInLocal ==
  ASSUME NEW e \in Elements, NEW s \in ToSet(e.subs), NEW g, NEW h,
         \A x \in Elements : Depth[x] < Depth[e] => g[x] = h[x]
  PROVE  WordsIn(g, s) = WordsIn(h, s)
<1>1. \A i \in DOMAIN s : g[s[i]] = h[s[i]]
  BY InsideElement DEF ToSet
<1>2. [i \in DOMAIN s |-> g[s[i]]] = [i \in DOMAIN s |-> h[s[i]]]
  BY <1>1
<1> QED
  BY <1>2 DEF WordsIn

LEMMA WordsLocal ==
  ASSUME NEW e \in Elements, NEW g, NEW h,
         \A x \in Elements : Depth[x] < Depth[e] => g[x] = h[x]
  PROVE  WordsStep(g, e) = WordsStep(h, e)
<1>1. \A s \in ToSet(e.subs) : WordsIn(g, s) = WordsIn(h, s)
  BY WordsInLocal
<1>2. CASE e.op \in {"char", "at"}
  BY <1>2 DEF WordsStep, Repeats
<1>3. CASE e.op \in Repeats
  <2>1. e.subs[1] \in ToSet(e.subs)
    BY <1>3, Body DEF Repeats
  <2>2. WordsIn(g, e.subs[1]) = WordsIn(h, e.subs[1])
    BY <1>1, <2>1
  <2> QED
    BY <1>3, <2>2 DEF WordsStep, Repeats
<1>4. CASE e.op \notin Repeats \cup {"char", "at"}
  <2>1. {WordsIn(g, s) : s \in ToSet(e.subs)} = {WordsIn(h, s) : s \in ToSet(e.subs)}
    BY <1>1
  <2> QED
    BY <1>4, <2>1 DEF WordsStep, Repeats
<1> QED
  BY <1>2, <1>3, <1>4

LEMMA WordsEquation ==
  /\ WordsOf \in [Elements -> Languages]
  /\ \A e \in Elements : WordsOf[e] = WordsStep(WordsOf, e)
<1> DEFINE F == [e \in Elements |-> [g \in [Elements -> Languages] |-> WordsStep(g, e)]]
           Equation(g) == g = [e \in Elements |-> WordsStep(g, e)]
<1>1. F \in [Elements -> [[Elements -> Languages] -> Languages]]
  BY WordsType
<1>2. GoesByRank(Elements, Languages, Depth, F)
  <2>1. ASSUME NEW e \in Elements, NEW g \in [Elements -> Languages],
               NEW h \in [Elements -> Languages],
               \A x \in Elements : Depth[x] < Depth[e] => g[x] = h[x]
        PROVE  F[e][g] = F[e][h]
    <3>1. WordsStep(g, e) = WordsStep(h, e)
      BY <2>1, WordsLocal
    <3> QED
      BY <3>1
  <2> HIDE DEF F
  <2> QED
    BY <1>1, <2>1, DepthTypes DEF GoesByRank
<1>3. PICK f \in [Elements -> Languages] : \A e \in Elements : f[e] = F[e][f]
  <2> HIDE DEF F
  <2>1. Languages # {}
    BY DEF Languages
  <2> QED
    BY <1>2, <2>1, RecursionExists
<1>4. Equation(f)
  <2>1. f = [e \in Elements |-> f[e]]
    OBVIOUS
  <2>2. \A e \in Elements : f[e] = WordsStep(f, e)
    BY <1>3
  <2> QED
    BY <2>1, <2>2
<1>5. WordsOf = CHOOSE g : Equation(g)
  BY DEF WordsOf
<1>6. Equation(WordsOf)
  <2> HIDE DEF Equation
  <2> QED
    BY <1>4, <1>5
<1> HIDE DEF F
<1> QED
  BY <1>6, WordsType

-----------------------------------------------------------------------------
(* Who matches the empty text *)

LEMMA LanguagesOf ==
  ASSUME NEW items \in Seq(Elements)
  PROVE  /\ [i \in DOMAIN items |-> WordsOf[items[i]]] \in Seq(Languages)
         /\ Len([i \in DOMAIN items |-> WordsOf[items[i]]]) = Len(items)
<1>1. \A i \in 1..Len(items) : WordsOf[items[i]] \in Languages
  BY WordsEquation
<1> QED
  BY <1>1

LEMMA EmptyOfSequence ==
  ASSUME NEW items \in Seq(Elements),
         \A x \in ToSet(items) : <<>> \in WordsOf[x] <=> NullableElement[x]
  PROVE  <<>> \in Words(items) <=> Nullable(items)
<1> DEFINE sets == [i \in DOMAIN items |-> WordsOf[items[i]]]
<1>1. sets \in Seq(Languages) /\ Len(sets) = Len(items)
  BY LanguagesOf
<1>2. \A i \in 1..Len(items) : sets[i] = WordsOf[items[i]]
  OBVIOUS
<1>3. Words(items) = Joined(sets)
  BY DEF Words, WordsIn
<1> HIDE DEF sets
<1>4. <<>> \in Words(items) <=> \A i \in 1..Len(items) : <<>> \in WordsOf[items[i]]
  BY <1>1, <1>2, <1>3, EmptyJoined
<1>5. \A i \in 1..Len(items) : items[i] \in ToSet(items)
  BY DEF ToSet
<1>6. \A x \in ToSet(items) : \E i \in 1..Len(items) : x = items[i]
  BY DEF ToSet
<1> QED
  BY <1>4, <1>5, <1>6 DEF Nullable, AllOf

LEMMA EmptyOfRepeat ==
  ASSUME NEW e \in Elements, NEW L \in Languages
  PROVE  <<>> \in UNION {Joined([i \in 1..n |-> L]) : n \in Iterations(e)}
             <=> e.min = 0 \/ <<>> \in L
<1>1. e.min \in Nat /\ e.max \in Nat /\ e.min <= e.max /\ MaxWord \in Nat
  BY ElementTypes, RegexAssumption
<1>2. ASSUME NEW n \in Nat
      PROVE  <<>> \in Joined([i \in 1..n |-> L]) <=> n = 0 \/ <<>> \in L
  <2> DEFINE sets == [i \in 1..n |-> L]
  <2>1. sets \in Seq(Languages) /\ Len(sets) = n
    BY RepeatedType
  <2>2. \A i \in 1..n : sets[i] = L
    OBVIOUS
  <2> HIDE DEF sets
  <2>3. <<>> \in Joined(sets) <=> \A i \in 1..n : <<>> \in L
    BY <2>1, <2>2, EmptyJoined
  <2>4. n # 0 => 1 \in 1..n
    OBVIOUS
  <2> QED
    BY <2>3, <2>4 DEF sets
<1>3. Iterations(e) \subseteq Nat /\ e.min \in Iterations(e)
  BY <1>1 DEF Iterations
<1>4. 0 \in Iterations(e) <=> e.min = 0
  BY <1>1 DEF Iterations
<1> DEFINE once(n) == Joined([i \in 1..n |-> L])
<1>5. \A n \in Iterations(e) : <<>> \in once(n) <=> n = 0 \/ <<>> \in L
  BY <1>2, <1>3
<1> HIDE DEF once
<1>6. <<>> \in UNION {once(n) : n \in Iterations(e)} <=> e.min = 0 \/ <<>> \in L
  BY <1>3, <1>4, <1>5
<1> QED
  BY <1>6 DEF once

\* An element matches the empty text if and only if _nullable_element says so.
LEMMA EmptyOfElement == \A e \in Elements : <<>> \in WordsOf[e] <=> NullableElement[e]
<1> DEFINE S == {e \in Elements : <<>> \in WordsOf[e] <=> NullableElement[e]}
<1> SUFFICES ASSUME NEW e \in Elements, Shallower(e) \subseteq S
             PROVE  <<>> \in WordsOf[e] <=> NullableElement[e]
  BY TreeInduction
<1>1. ASSUME NEW s \in ToSet(e.subs) PROVE <<>> \in Words(s) <=> Nullable(s)
  <2>1. s \in Seq(Elements) /\ \A x \in ToSet(s) : x \in Shallower(e)
    BY InsideElement DEF Shallower
  <2>2. \A x \in ToSet(s) : <<>> \in WordsOf[x] <=> NullableElement[x]
    BY <2>1
  <2> QED
    BY <2>1, <2>2, EmptyOfSequence
<1>2. WordsOf[e] = WordsStep(WordsOf, e)
  BY WordsEquation
<1>3. NullableElement[e] <=> NullableStep(NullableElement, e)
  BY NullableEquation
<1>4. CASE e.op = "char"
  <2>1. WordsOf[e] = {<<c>> : c \in Chars(e.set)}
    BY <1>2, <1>4 DEF WordsStep, Repeats
  <2>2. \A c : <<c>> # <<>>
    OBVIOUS
  <2>3. ~NullableElement[e]
    BY <1>3, <1>4 DEF NullableStep, Repeats
  <2> QED
    BY <2>1, <2>2, <2>3
<1>5. CASE e.op = "at"
  <2>1. WordsOf[e] = {<<>>}
    BY <1>2, <1>5 DEF WordsStep, Repeats
  <2>2. NullableElement[e]
    BY <1>3, <1>5 DEF NullableStep
  <2> QED
    BY <2>1, <2>2
<1>6. CASE e.op \in Repeats
  <2> DEFINE L == Words(e.subs[1])
  <2>1. e.subs[1] \in ToSet(e.subs)
    BY <1>6, Body DEF Repeats
  <2>2. L \in Languages
    <3>1. e.subs[1] \in Seq(Elements)
      BY <2>1, InsideElement
    <3> QED
      BY <3>1, WordsInType, WordTypes DEF Words, Languages
  <2>3. WordsOf[e] = UNION {Joined([i \in 1..n |-> L]) : n \in Iterations(e)}
    BY <1>2, <1>6 DEF WordsStep, Repeats, Words
  <2>4. <<>> \in WordsOf[e] <=> e.min = 0 \/ <<>> \in L
    <3> HIDE DEF L
    <3> QED
      BY <2>2, <2>3, EmptyOfRepeat
  <2>5. NullableElement[e] <=> e.min = 0 \/ Nullable(e.subs[1])
    BY <1>3, <1>6 DEF NullableStep, Repeats, Nullable
  <2> QED
    BY <1>1, <2>1, <2>4, <2>5
<1>7. CASE e.op \in {"branch", "group", "atomic"}
  <2>1. WordsOf[e] = UNION {Words(s) : s \in ToSet(e.subs)}
    BY <1>2, <1>7 DEF WordsStep, Repeats, Words
  <2>2. <<>> \in WordsOf[e] <=> \E s \in ToSet(e.subs) : Nullable(s)
    BY <1>1, <2>1
  <2>3. e.op # "branch" => ToSet(e.subs) = {e.subs[1]}
    BY <1>7, Body
  <2>4. NullableElement[e] <=> \E s \in ToSet(e.subs) : Nullable(s)
    BY <1>3, <1>7, <2>3 DEF NullableStep, Repeats, Nullable
  <2> QED
    BY <2>2, <2>4
<1>8. e.op \in Ops
  BY ElementTypes
<1> QED
  BY <1>4, <1>5, <1>6, <1>7, <1>8 DEF Ops, Repeats

LEMMA EmptyOfWritten ==
  ASSUME NEW items \in Seq(Elements)
  PROVE  <<>> \in Words(items) <=> Nullable(items)
<1>1. \A x \in ToSet(items) : x \in Elements
  BY DEF ToSet
<1> QED
  BY <1>1, EmptyOfElement, EmptyOfSequence

-----------------------------------------------------------------------------
(* How a text can start *)

\* Whatever is written in a class.
WrittenChars == UNION {e.set : e \in Elements}

CharSets == SUBSET WrittenChars

LEMMA StartsInside ==
  ASSUME NEW items
  PROVE  Starts(items) \subseteq ToSet(items)
  BY DEF Starts, ToSet

LEMMA FirstInLocal ==
  ASSUME NEW e \in Elements, NEW s \in ToSet(e.subs), NEW g, NEW h,
         \A x \in Elements : Depth[x] < Depth[e] => g[x] = h[x]
  PROVE  FirstIn(g, s) = FirstIn(h, s)
<1>1. \A x \in Starts(s) : g[x] = h[x]
  BY InsideElement, StartsInside
<1>2. {g[x] : x \in Starts(s)} = {h[x] : x \in Starts(s)}
  BY <1>1
<1> QED
  BY <1>2 DEF FirstIn

LEMMA FirstLocal ==
  ASSUME NEW e \in Elements, NEW g, NEW h,
         \A x \in Elements : Depth[x] < Depth[e] => g[x] = h[x]
  PROVE  FirstStep(g, e) = FirstStep(h, e)
<1>1. \A s \in ToSet(e.subs) : FirstIn(g, s) = FirstIn(h, s)
  BY FirstInLocal
<1>2. CASE e.op \in {"char", "at"}
  BY <1>2 DEF FirstStep
<1>3. CASE e.op = "branch"
  <2>1. {FirstIn(g, s) : s \in ToSet(e.subs)} = {FirstIn(h, s) : s \in ToSet(e.subs)}
    BY <1>1
  <2> QED
    BY <1>3, <2>1 DEF FirstStep
<1>4. CASE e.op \notin {"char", "at", "branch"}
  <2>1. FirstIn(g, e.subs[1]) = FirstIn(h, e.subs[1])
    BY <1>1, <1>4, Body
  <2> QED
    BY <1>4, <2>1 DEF FirstStep
<1> QED
  BY <1>2, <1>3, <1>4

LEMMA FirstType ==
  ASSUME NEW e \in Elements, NEW g \in [Elements -> CharSets]
  PROVE  FirstStep(g, e) \in CharSets
<1>1. ASSUME NEW s \in ToSet(e.subs) PROVE FirstIn(g, s) \subseteq WrittenChars
  <2>1. \A x \in Starts(s) : g[x] \subseteq WrittenChars
    BY InsideElement, StartsInside DEF CharSets
  <2> QED
    BY <2>1 DEF FirstIn
<1>2. CASE e.op = "char"
  BY <1>2 DEF FirstStep, CharSets, WrittenChars
<1>3. CASE e.op = "at"
  BY <1>3 DEF FirstStep, CharSets
<1>4. CASE e.op = "branch"
  <2>1. FirstStep(g, e) = UNION {FirstIn(g, s) : s \in ToSet(e.subs)}
    BY <1>4 DEF FirstStep
  <2> QED
    BY <1>1, <2>1 DEF CharSets
<1>5. CASE e.op \notin {"char", "at", "branch"}
  <2>1. FirstStep(g, e) = FirstIn(g, e.subs[1]) /\ e.subs[1] \in ToSet(e.subs)
    BY <1>5, Body DEF FirstStep
  <2> QED
    BY <1>1, <2>1 DEF CharSets
<1> QED
  BY <1>2, <1>3, <1>4, <1>5

LEMMA FirstEquation == \A e \in Elements : FirstOf[e] = FirstStep(FirstOf, e)
<1> DEFINE F == [e \in Elements |-> [g \in [Elements -> CharSets] |-> FirstStep(g, e)]]
           Equation(g) == g = [e \in Elements |-> FirstStep(g, e)]
<1>1. F \in [Elements -> [[Elements -> CharSets] -> CharSets]]
  BY FirstType
<1>2. GoesByRank(Elements, CharSets, Depth, F)
  <2>1. ASSUME NEW e \in Elements, NEW g \in [Elements -> CharSets],
               NEW h \in [Elements -> CharSets],
               \A x \in Elements : Depth[x] < Depth[e] => g[x] = h[x]
        PROVE  F[e][g] = F[e][h]
    <3>1. FirstStep(g, e) = FirstStep(h, e)
      BY <2>1, FirstLocal
    <3> QED
      BY <3>1
  <2> HIDE DEF F
  <2> QED
    BY <1>1, <2>1, DepthTypes DEF GoesByRank
<1>3. PICK f \in [Elements -> CharSets] : \A e \in Elements : f[e] = F[e][f]
  <2> HIDE DEF F
  <2>1. CharSets # {}
    BY DEF CharSets
  <2> QED
    BY <1>2, <2>1, RecursionExists
<1>4. Equation(f)
  <2>1. f = [e \in Elements |-> f[e]]
    OBVIOUS
  <2>2. \A e \in Elements : f[e] = FirstStep(f, e)
    BY <1>3
  <2> QED
    BY <2>1, <2>2
<1>5. FirstOf = CHOOSE g : Equation(g)
  BY DEF FirstOf
<1>6. Equation(FirstOf)
  <2> HIDE DEF Equation
  <2> QED
    BY <1>4, <1>5
<1> HIDE DEF F
<1> QED
  BY <1>6

LEMMA MoreChars ==
  ASSUME NEW s, NEW t, s \subseteq t
  PROVE  Chars(s) \subseteq Chars(t)
<1>1. CASE "any" \in t
  BY <1>1, CharTypes DEF Chars
<1>2. CASE "any" \notin t
  BY <1>2 DEF Chars
<1> QED
  BY <1>1, <1>2

\* The characters of w at its start, unless it is empty, are among those of the set.
StartsIn(word, set) == word # <<>> => word[1] \in Chars(set)

LEMMA FirstOfSequence ==
  ASSUME NEW items \in Seq(Elements),
         \A x \in ToSet(items) : \A w \in WordsOf[x] : StartsIn(w, FirstOf[x])
  PROVE  \A w \in Words(items) : StartsIn(w, First(items))
<1> SUFFICES ASSUME NEW w \in Words(items), w # <<>> PROVE w[1] \in Chars(First(items))
  BY DEF StartsIn
<1> DEFINE sets == [i \in DOMAIN items |-> WordsOf[items[i]]]
<1>1. sets \in Seq(Languages) /\ Len(sets) = Len(items)
  BY LanguagesOf
<1>2. \A i \in 1..Len(items) : sets[i] = WordsOf[items[i]]
  OBVIOUS
<1>3. w \in Joined(sets)
  BY DEF Words, WordsIn
<1> HIDE DEF sets
<1>4. PICK i \in 1..Len(items) :
          /\ \A k \in 1..(i - 1) : <<>> \in sets[k]
          /\ \E v \in sets[i] : v # <<>> /\ v[1] = w[1]
  BY <1>1, <1>3, FirstJoined
<1>5. items[i] \in Starts(items)
  <2>1. \A k \in 1..(i - 1) : items[k] \in Elements /\ NullableElement[items[k]]
    BY <1>2, <1>4, EmptyOfElement
  <2>2. \A x \in ToSet(SubSeq(items, 1, i - 1)) : \E k \in 1..(i - 1) : x = items[k]
    BY DEF ToSet
  <2> QED
    BY <2>1, <2>2 DEF Starts, AllOf
<1>6. FirstOf[items[i]] \subseteq First(items)
  BY <1>5 DEF First, FirstIn
<1>7. items[i] \in ToSet(items)
  BY DEF ToSet
<1>8. w[1] \in Chars(FirstOf[items[i]])
  BY <1>2, <1>4, <1>7 DEF StartsIn
<1> QED
  BY <1>6, <1>8, MoreChars

\* A text of an element starts with a character that _first has found.
LEMMA FirstOfElement == \A e \in Elements : \A w \in WordsOf[e] : StartsIn(w, FirstOf[e])
<1> DEFINE S == {e \in Elements : \A w \in WordsOf[e] : StartsIn(w, FirstOf[e])}
<1> SUFFICES ASSUME NEW e \in Elements, Shallower(e) \subseteq S
             PROVE  \A w \in WordsOf[e] : StartsIn(w, FirstOf[e])
  BY TreeInduction
<1>1. ASSUME NEW s \in ToSet(e.subs) PROVE \A w \in Words(s) : StartsIn(w, First(s))
  <2>1. s \in Seq(Elements) /\ \A x \in ToSet(s) : x \in Shallower(e)
    BY InsideElement DEF Shallower
  <2>2. \A x \in ToSet(s) : \A w \in WordsOf[x] : StartsIn(w, FirstOf[x])
    BY <2>1
  <2> QED
    BY <2>1, <2>2, FirstOfSequence
<1>2. WordsOf[e] = WordsStep(WordsOf, e)
  BY WordsEquation
<1>3. FirstOf[e] = FirstStep(FirstOf, e)
  BY FirstEquation
<1>4. CASE e.op = "char"
  <2>1. WordsOf[e] = {<<c>> : c \in Chars(e.set)}
    BY <1>2, <1>4 DEF WordsStep, Repeats
  <2>2. FirstOf[e] = e.set
    BY <1>3, <1>4 DEF FirstStep
  <2> QED
    BY <2>1, <2>2 DEF StartsIn
<1>5. CASE e.op = "at"
  <2>1. WordsOf[e] = {<<>>}
    BY <1>2, <1>5 DEF WordsStep, Repeats
  <2> QED
    BY <2>1 DEF StartsIn
<1>6. CASE e.op \in Repeats
  <2> DEFINE L == Words(e.subs[1])
  <2>1. e.subs[1] \in ToSet(e.subs)
    BY <1>6, Body DEF Repeats
  <2>2. L \in Languages
    <3>1. e.subs[1] \in Seq(Elements)
      BY <2>1, InsideElement
    <3> QED
      BY <3>1, WordsInType, WordTypes DEF Words, Languages
  <2>3. WordsOf[e] = UNION {Joined([i \in 1..n |-> L]) : n \in Iterations(e)}
    BY <1>2, <1>6 DEF WordsStep, Repeats, Words
  <2>4. FirstOf[e] = First(e.subs[1])
    BY <1>3, <1>6 DEF FirstStep, First, Repeats
  <2> SUFFICES ASSUME NEW w \in WordsOf[e], w # <<>> PROVE w[1] \in Chars(FirstOf[e])
    BY DEF StartsIn
  <2> HIDE DEF L
  <2>5. PICK n \in Iterations(e) : w \in Joined([i \in 1..n |-> L])
    BY <2>3
  <2>6. n \in Nat
    BY ElementTypes, RegexAssumption DEF Iterations
  <2> DEFINE sets == [i \in 1..n |-> L]
  <2>7. sets \in Seq(Languages) /\ Len(sets) = n
    BY <2>2, <2>6, RepeatedType
  <2>8. \A i \in 1..n : sets[i] = L
    OBVIOUS
  <2> HIDE DEF sets
  <2>9. PICK v \in L : v # <<>> /\ v[1] = w[1]
    <3>1. w \in Joined(sets)
      BY <2>5 DEF sets
    <3> QED
      BY <2>7, <2>8, <3>1, FirstJoined
  <2> QED
    BY <1>1, <2>1, <2>4, <2>9 DEF L, StartsIn
<1>7. CASE e.op \in {"branch", "group", "atomic"}
  <2>1. WordsOf[e] = UNION {Words(s) : s \in ToSet(e.subs)}
    BY <1>2, <1>7 DEF WordsStep, Repeats, Words
  <2>2. ASSUME NEW s \in ToSet(e.subs) PROVE First(s) \subseteq FirstOf[e]
    <3>1. CASE e.op = "branch"
      BY <1>3, <3>1 DEF FirstStep, First
    <3>2. CASE e.op # "branch"
      <4>1. s = e.subs[1]
        BY <1>7, <3>2, Body
      <4> QED
        BY <1>3, <1>7, <3>2, <4>1 DEF FirstStep, First
    <3> QED
      BY <3>1, <3>2
  <2>3. ASSUME NEW s \in ToSet(e.subs), NEW w \in Words(s) PROVE StartsIn(w, FirstOf[e])
    BY <1>1, <2>2, <2>3, MoreChars DEF StartsIn
  <2> QED
    BY <2>1, <2>3
<1>8. e.op \in Ops
  BY ElementTypes
<1> QED
  BY <1>4, <1>5, <1>6, <1>7, <1>8 DEF Ops, Repeats

\* Why a character stands for c: it is alike, or c is in a category.
LEMMA CharOrCategory ==
  ASSUME NEW s, "any" \notin s, NEW c \in Chars(s)
  PROVE  /\ c \in Alphabet
         /\ \/ \E a \in s \cap Alphabet : Fold[a] = Fold[c]
            \/ \E cat \in s \cap Categories : c \in InCategory[cat]
<1> DEFINE written == UNION {Alike(a) : a \in s \cap Alphabet}
           classes == UNION {InCategory[cat] : cat \in s \cap Categories}
<1>1. c \in Alphabet
  BY CharTypes
<1>2. c \in written \cup classes
  BY DEF Chars
<1>3. c \in written => \E a \in s \cap Alphabet : Fold[a] = Fold[c]
  BY DEF Alike
<1>4. c \in classes => \E cat \in s \cap Categories : c \in InCategory[cat]
  OBVIOUS
<1> HIDE DEF written, classes
<1> QED
  BY <1>1, <1>2, <1>3, <1>4

\* A character and its other case are in the same categories.
LEMMA AlikeInCategory ==
  ASSUME NEW a \in Alphabet, NEW c \in Alphabet, Fold[a] = Fold[c],
         NEW cat \in Categories, c \in InCategory[cat]
  PROVE  a \in InCategory[cat]
  BY RegexAssumption

\* _CharSet.overlaps compares characters as they are written: that is enough if no letter is
\* written in both cases, or case matters.
LEMMA DisjointChars ==
  ASSUME NEW s, NEW t, OneCase(s \cup t), ~Overlaps(s, t)
  PROVE  \A c \in Chars(s) : c \notin Chars(t)
<1> SUFFICES ASSUME NEW c \in Chars(s), c \in Chars(t) PROVE Overlaps(s, t)
  OBVIOUS
<1>1. s # {} /\ t # {}
  <2>1. "any" \in s \/ \E x : x \in s
    BY CharOrCategory
  <2>2. "any" \in t \/ \E x : x \in t
    BY CharOrCategory
  <2> QED
    BY <2>1, <2>2
<1>2. CASE "any" \in s \cup t
  BY <1>1, <1>2 DEF Overlaps
<1>3. CASE "any" \notin s \cup t
  <2>1. /\ c \in Alphabet
        /\ \/ \E a \in s \cap Alphabet : Fold[a] = Fold[c]
           \/ \E cat \in s \cap Categories : c \in InCategory[cat]
    BY <1>3, CharOrCategory
  <2>2. \/ \E b \in t \cap Alphabet : Fold[b] = Fold[c]
        \/ \E cat \in t \cap Categories : c \in InCategory[cat]
    BY <1>3, CharOrCategory
  <2>3. ASSUME NEW a \in s \cap Alphabet, NEW b \in t \cap Alphabet,
               Fold[a] = Fold[c], Fold[b] = Fold[c]
        PROVE  Overlaps(s, t)
    <3>1. a = b
      BY <2>3 DEF OneCase
    <3> QED
      BY <1>1, <3>1 DEF Overlaps
  <2>4. ASSUME NEW a \in s \cap Alphabet, Fold[a] = Fold[c],
               NEW cat \in t \cap Categories, c \in InCategory[cat]
        PROVE  Overlaps(s, t)
    <3>1. a \in InCategory[cat]
      BY <2>1, <2>4, AlikeInCategory
    <3> QED
      BY <1>1, <3>1 DEF Overlaps
  <2>5. ASSUME NEW b \in t \cap Alphabet, Fold[b] = Fold[c],
               NEW cat \in s \cap Categories, c \in InCategory[cat]
        PROVE  Overlaps(s, t)
    <3>1. b \in InCategory[cat]
      BY <2>1, <2>5, AlikeInCategory
    <3> QED
      BY <1>1, <3>1 DEF Overlaps
  <2>6. ASSUME NEW a \in s \cap Categories, c \in InCategory[a],
               NEW b \in t \cap Categories, c \in InCategory[b]
        PROVE  Overlaps(s, t)
    <3>1. a = b \/ {a, b} = {"digit", "word"}
      <4>1. InCategory["space"] \cap (InCategory["digit"] \cup InCategory["word"]) = {}
        BY RegexAssumption
      <4> QED
        BY <2>6, <4>1 DEF Categories
    <3>2. CASE a = b
      BY <1>1, <3>2 DEF Overlaps
    <3>3. CASE {a, b} = {"digit", "word"}
      BY <1>1, <3>3 DEF Overlaps
    <3> QED
      BY <3>1, <3>2, <3>3
  <2> QED
    BY <2>1, <2>2, <2>3, <2>4, <2>5, <2>6
<1> QED
  BY <1>2, <1>3

\* _branches_overlap, wherever the alternatives stand in the tree.
LEMMA AlternativesDiffer ==
  ASSUME NEW e \in Elements, e.op = "branch", ~BranchesOverlap(e.subs),
         OneCase(FirstOf[e]),
         NEW i \in DOMAIN e.subs, NEW k \in DOMAIN e.subs, i # k,
         NEW v \in Words(e.subs[i]), NEW w \in Words(e.subs[k])
  PROVE  ~IsPrefix(v, w)
<1> SUFFICES ASSUME IsPrefix(v, w) PROVE FALSE
  OBVIOUS
<1>1. ASSUME NEW j \in DOMAIN e.subs, NEW u \in Words(e.subs[j])
      PROVE  u \in Seq(Alphabet) /\ u # <<>> /\ u[1] \in Chars(First(e.subs[j]))
  <2>1. e.subs[j] \in ToSet(e.subs)
    BY DEF ToSet
  <2>2. e.subs[j] \in Seq(Elements) /\ ~Nullable(e.subs[j])
    BY <2>1, InsideElement DEF BranchesOverlap
  <2>3. u # <<>>
    BY <2>2, EmptyOfWritten
  <2>4. \A x \in ToSet(e.subs[j]) : x \in Elements
    BY <2>1, InsideElement
  <2>5. StartsIn(u, First(e.subs[j]))
    BY <2>2, <2>4, FirstOfElement, FirstOfSequence
  <2>6. u \in Seq(Alphabet)
    BY <2>2, WordsInType, WordTypes DEF Words
  <2> QED
    BY <2>3, <2>5, <2>6 DEF StartsIn
<1>2. v[1] = w[1]
  <2> v \in Seq(Alphabet) /\ w \in Seq(Alphabet) /\ v # <<>>
    BY <1>1
  <2>1. Len(v) \in Nat /\ Len(v) # 0 /\ SubSeq(v, 1, Len(v)) = SubSeq(w, 1, Len(v))
    <3>1. SubSeq(v, 1, Len(v)) = SubSeq(w, 1, Len(v))
      BY Zenon DEF IsPrefix
    <3> QED
      BY <3>1
  <2>2. SubSeq(v, 1, Len(v))[1] = v[1] /\ SubSeq(w, 1, Len(v))[1] = w[1]
    BY <1>1, <2>1
  <2> QED
    BY <2>1, <2>2
<1>3. ~Overlaps(First(e.subs[i]), First(e.subs[k])) \/ ~Overlaps(First(e.subs[k]), First(e.subs[i]))
  <2>1. i \in Nat /\ k \in Nat
    BY ElementTypes
  <2>2. i < k \/ k < i
    BY <2>1
  <2> QED
    BY <2>2 DEF BranchesOverlap
<1>4. OneCase(First(e.subs[i]) \cup First(e.subs[k]))
  <2>1. FirstOf[e] = UNION {First(s) : s \in ToSet(e.subs)}
    BY FirstEquation DEF FirstStep, First
  <2>2. e.subs[i] \in ToSet(e.subs) /\ e.subs[k] \in ToSet(e.subs)
    BY DEF ToSet
  <2>3. First(e.subs[i]) \cup First(e.subs[k]) \subseteq FirstOf[e]
    BY <2>1, <2>2
  <2> QED
    BY <2>3 DEF OneCase
<1>5. OneCase(First(e.subs[k]) \cup First(e.subs[i]))
  BY <1>4 DEF OneCase
<1> QED
  BY <1>1, <1>2, <1>3, <1>4, <1>5, DisjointChars

LEMMA WrittenTypes ==
  ASSUME TypeOK
  PROVE  Written \in Seq(Elements)
  BY PatternAssumption DEF TypeOK, Written

-----------------------------------------------------------------------------
(* One way to cut a text into iterations.  Abstractly: an iteration of n parts goes *)
(* from a to b, its part i from p[i] to p[i + 1]; part i may cover the positions in *)
(* at[i] only, and a single part covers exactly one.                                *)

Iteration(at, n, single, p, a, b) ==
    /\ \A i \in 1..(n + 1) : p[i] \in Int
    /\ p[1] = a /\ p[n + 1] = b
    /\ \A i, k \in 1..(n + 1) : i <= k => p[i] <= p[k]
    /\ \A i \in 1..n : \A x \in (p[i] + 1)..p[i + 1] : x \in at[i]
    /\ \A i \in single : p[i + 1] = p[i] + 1

\* The places where an iteration ends, with the start of the text.
Iterated(ends, at, n, single, size) ==
    /\ ends \subseteq 0..size /\ 0 \in ends /\ size \in ends
    /\ \A a, b \in ends : a < b /\ (\A m \in ends : m <= a \/ b <= m) =>
           \E p : Iteration(at, n, single, p, a, b)

\* No other part covers what this one does.
Exclusive(at, n, i) == \A k \in (1..n) \ {i} : at[i] \cap at[k] = {}

\* From part f on, the parts are single or exclusive, and f is the first part or stands
\* behind a single one that is exclusive; some part is single.
CutFromLeft(at, n, single, f) ==
    /\ n \in Nat /\ f \in 1..(n + 1)
    /\ single \subseteq 1..n /\ single # {}
    /\ \A i \in f..n : i \in single \/ Exclusive(at, n, i)
    /\ f = 1 \/ (f - 1 \in single /\ Exclusive(at, n, f - 1))

\* Every position of an iteration belongs to a part.
LEMMA PartOf ==
  ASSUME NEW at, NEW n \in Nat, NEW single, NEW p, NEW a, NEW b,
         Iteration(at, n, single, p, a, b), NEW x \in Int, a < x, x <= b
  PROVE  \E i \in 1..n : p[i] < x /\ x <= p[i + 1] /\ x \in at[i]
<1> DEFINE S == {i \in 1..(n + 1) : x <= p[i]}
<1>0. /\ \A i \in 1..(n + 1) : p[i] \in Int
      /\ p[1] = a /\ p[n + 1] = b
      /\ \A i \in 1..n : \A y \in (p[i] + 1)..p[i + 1] : y \in at[i]
  BY DEF Iteration
<1>1. S \in SUBSET Nat /\ n + 1 \in S
  BY <1>0
<1>2. PICK j \in S : \A k \in S : j <= k
  BY <1>1, Smallest
<1>3. j # 1 /\ j \in 1..(n + 1)
  BY <1>0, <1>2
<1>4. j - 1 \in 1..n /\ (j - 1) + 1 = j /\ j - 1 \in 1..(n + 1)
  BY <1>3
<1>5. p[j - 1] < x
  <2>1. j - 1 \notin S
    BY <1>1, <1>2, <1>3
  <2> QED
    BY <1>0, <1>4, <2>1
<1>6. x <= p[(j - 1) + 1] /\ x \in (p[j - 1] + 1)..p[(j - 1) + 1]
  BY <1>0, <1>2, <1>4, <1>5
<1> QED
  BY <1>0, <1>4, <1>5, <1>6

\* The next place after a, and the last one before b, where an iteration ends.
LEMMA NextEnd ==
  ASSUME NEW ends \in SUBSET Nat, NEW a \in Nat, NEW top \in ends, a < top
  PROVE  \E b \in ends : a < b /\ b <= top /\ \A m \in ends : m <= a \/ b <= m
<1> DEFINE S == {m \in ends : a < m}
<1>1. S \in SUBSET Nat /\ top \in S
  OBVIOUS
<1>2. PICK b \in S : \A k \in S : b <= k
  BY <1>1, Smallest
<1> QED
  BY <1>1, <1>2

LEMMA LastEnd ==
  ASSUME NEW ends \in SUBSET Nat, NEW b \in Nat, NEW bottom \in ends, bottom < b
  PROVE  \E a \in ends : a < b /\ \A m \in ends : m <= a \/ b <= m
<1> DEFINE S == {d \in Nat : b - d \in ends /\ d > 0}
<1>1. b - bottom \in S
  OBVIOUS
<1>2. PICK d \in S : \A k \in S : d <= k
  BY <1>1, Smallest
<1>3. ASSUME NEW m \in ends PROVE m <= b - d \/ b <= m
  <2> SUFFICES ASSUME m < b PROVE m <= b - d
    BY <1>2
  <2>1. m \in Nat /\ b - m \in Nat /\ b - m > 0 /\ b - (b - m) = m
    OBVIOUS
  <2>2. b - m \in S
    BY <2>1
  <2>3. d <= b - m /\ d \in Nat
    BY <1>2, <2>2
  <2> QED
    BY <2>1, <2>3
<1> QED
  BY <1>2, <1>3

\* Two iterations from the same place that end apart: the last part of the shorter one
\* to cover anything could go on behind it.
LEMMA PartGoesOn ==
  ASSUME NEW at, NEW n, NEW single, NEW f, CutFromLeft(at, n, single, f),
         NEW a \in Int, NEW b \in Int, NEW d \in Int, a < b, b < d,
         NEW p, NEW q, Iteration(at, n, single, p, a, b), Iteration(at, n, single, q, a, d)
  PROVE  \E i \in 1..n : /\ i \notin single /\ Exclusive(at, n, i)
                         /\ p[i + 1] = b /\ b + 1 \in at[i]
                         /\ f <= i
<1>0. /\ n \in Nat /\ f \in 1..(n + 1) /\ single \subseteq 1..n
      /\ \A i \in f..n : i \in single \/ Exclusive(at, n, i)
  BY DEF CutFromLeft
<1>1. /\ \A i \in 1..(n + 1) : p[i] \in Int
      /\ p[1] = a /\ p[n + 1] = b
      /\ \A i, k \in 1..(n + 1) : i <= k => p[i] <= p[k]
      /\ \A i \in 1..n : \A x \in (p[i] + 1)..p[i + 1] : x \in at[i]
      /\ \A i \in single : p[i + 1] = p[i] + 1
  BY DEF Iteration
<1>2. /\ \A i \in 1..(n + 1) : q[i] \in Int
      /\ q[1] = a /\ q[n + 1] = d
      /\ \A i, k \in 1..(n + 1) : i <= k => q[i] <= q[k]
      /\ \A i \in 1..n : \A x \in (q[i] + 1)..q[i + 1] : x \in at[i]
      /\ \A i \in single : q[i + 1] = q[i] + 1
  BY DEF Iteration
<1>3. p[f] = q[f]
  <2>1. CASE f = 1
    BY <1>1, <1>2, <2>1
  <2>2. CASE f # 1
    <3> DEFINE c == f - 1
               x == p[c] + 1
    <3>1. c \in single /\ Exclusive(at, n, c) /\ c \in 1..n /\ c + 1 = f
      BY <1>0, <2>2 DEF CutFromLeft
    <3>2. p[c + 1] = x /\ x \in Int /\ a < x /\ x <= b
      <4>1. 1 \in 1..(n + 1) /\ c \in 1..(n + 1) /\ c + 1 \in 1..(n + 1) /\ n + 1 \in 1..(n + 1)
        BY <1>0, <3>1
      <4>2. p[1] <= p[c] /\ p[c + 1] <= p[n + 1]
        BY <1>1, <4>1
      <4> QED
        BY <1>1, <3>1, <4>1, <4>2
    <3>3. x \in at[c]
      BY <1>1, <3>1, <3>2
    <3> HIDE DEF x, c
    <3>4. PICK j \in 1..n : q[j] < x /\ x <= q[j + 1] /\ x \in at[j]
      BY <1>0, <3>2, PartOf
    <3>5. j = c
      BY <3>1, <3>3, <3>4 DEF Exclusive
    <3>6. q[c] \in Int /\ q[c + 1] = q[c] + 1
      BY <1>0, <1>2, <3>1
    <3> QED
      BY <3>1, <3>2, <3>4, <3>5, <3>6
  <2> QED
    BY <2>1, <2>2
<1> DEFINE S == {m \in Nat : f + m <= n + 1 /\ p[f + m] # q[f + m]}
<1>4. n + 1 - f \in S
  BY <1>0, <1>1, <1>2
<1>5. PICK m \in S : \A k \in S : m <= k
  BY <1>4, Smallest
<1>6. PICK i \in 1..n : f <= i /\ p[i] = q[i] /\ p[i + 1] # q[i + 1]
  <2> DEFINE i == f + m - 1
  <2>1. m # 0
    BY <1>0, <1>3, <1>5
  <2>2. i \in 1..n /\ f <= i /\ i + 1 = f + m /\ i = f + (m - 1) /\ m - 1 \in Nat
    BY <1>0, <1>5, <2>1
  <2>3. m - 1 \notin S
    BY <1>5, <2>2
  <2>4. p[f + (m - 1)] = q[f + (m - 1)]
    BY <1>0, <1>5, <2>2, <2>3
  <2> QED
    BY <1>5, <2>2, <2>4
<1>7. i \notin single /\ Exclusive(at, n, i)
  BY <1>0, <1>1, <1>2, <1>6
<1>8. /\ i \in 1..(n + 1) /\ i + 1 \in 1..(n + 1) /\ n + 1 \in 1..(n + 1) /\ 1 \in 1..(n + 1)
      /\ p[i] \in Int /\ p[i + 1] \in Int /\ q[i] \in Int /\ q[i + 1] \in Int
  BY <1>0, <1>1, <1>2, <1>6
<1>9. /\ a <= p[i] /\ p[i] <= p[i + 1] /\ p[i + 1] <= b
      /\ q[i] <= q[i + 1] /\ q[i + 1] <= d
  BY <1>1, <1>2, <1>8
<1>10. CASE q[i + 1] < p[i + 1]
  <2> DEFINE y == q[i + 1] + 1
  <2>1. y \in Int /\ a < y /\ y <= d /\ y \in at[i]
    <3>1. y \in (p[i] + 1)..p[i + 1]
      BY <1>6, <1>8, <1>9, <1>10
    <3> QED
      BY <1>1, <1>6, <1>8, <1>9, <1>10, <3>1
  <2> HIDE DEF y
  <2>2. PICK j \in 1..n : q[j] < y /\ y <= q[j + 1] /\ y \in at[j]
    BY <1>0, <2>1, PartOf
  <2>3. j # i
    BY <1>8, <2>2 DEF y
  <2> QED
    BY <1>7, <2>1, <2>2, <2>3 DEF Exclusive
<1>11. CASE p[i + 1] < q[i + 1]
  <2> DEFINE y == p[i + 1] + 1
  <2>1. y \in Int /\ a < y /\ y \in at[i]
    <3>1. y \in (q[i] + 1)..q[i + 1]
      BY <1>6, <1>8, <1>9, <1>11
    <3> QED
      BY <1>2, <1>6, <1>8, <1>9, <1>11, <3>1
  <2>2. p[i + 1] = b
    <3> SUFFICES ASSUME p[i + 1] < b PROVE FALSE
      BY <1>8, <1>9
    <3>1. y <= b
      BY <1>8
    <3> HIDE DEF y
    <3>2. PICK j \in 1..n : p[j] < y /\ y <= p[j + 1] /\ y \in at[j]
      BY <1>0, <2>1, <3>1, PartOf
    <3>3. j # i
      BY <1>8, <3>2 DEF y
    <3> QED
      BY <1>7, <2>1, <3>2, <3>3 DEF Exclusive
  <2> QED
    BY <1>6, <1>7, <2>1, <2>2
<1> QED
  BY <1>6, <1>8, <1>10, <1>11

\* So two cuts of a text have no first place where they differ.
LEMMA NoFirstDifference ==
  ASSUME NEW at, NEW n, NEW single, NEW f, CutFromLeft(at, n, single, f),
         NEW size \in Nat, NEW E, NEW F,
         Iterated(E, at, n, single, size), Iterated(F, at, n, single, size),
         NEW b \in E, b \notin F, \A x \in 0..size : x < b => (x \in E <=> x \in F)
  PROVE  FALSE
<1>0. /\ n \in Nat /\ f \in 1..(n + 1) /\ single \subseteq 1..n /\ single # {}
  BY DEF CutFromLeft
<1>1. /\ E \subseteq 0..size /\ 0 \in E /\ size \in E
      /\ F \subseteq 0..size /\ 0 \in F /\ size \in F
      /\ E \in SUBSET Nat /\ F \in SUBSET Nat
  BY DEF Iterated
<1>2. b \in 0..size /\ 0 < b /\ b < size
  BY <1>1
<1>3. PICK a \in E : a < b /\ \A m \in E : m <= a \/ b <= m
  BY <1>1, <1>2, LastEnd
<1>4. a \in F /\ a \in 0..size /\ a < size
  BY <1>1, <1>2, <1>3
<1>5. PICK d \in F : a < d /\ \A m \in F : m <= a \/ d <= m
  BY <1>1, <1>4, NextEnd
<1>6. d \in 0..size /\ b < d
  <2>1. d \in 0..size /\ d # b
    BY <1>1
  <2>2. ~(d < b)
    BY <1>2, <1>3, <1>4, <1>5, <2>1
  <2> QED
    BY <1>2, <2>1, <2>2
<1>7. PICK e \in E : b < e /\ \A m \in E : m <= b \/ e <= m
  BY <1>1, <1>2, NextEnd
<1>8. PICK p : Iteration(at, n, single, p, a, b)
  BY <1>3 DEF Iterated
<1>9. PICK q : Iteration(at, n, single, q, a, d)
  BY <1>4, <1>5 DEF Iterated
<1>10. PICK r : Iteration(at, n, single, r, b, e)
  BY <1>7 DEF Iterated
<1>11. a \in Int /\ b \in Int /\ d \in Int /\ e \in Int
  BY <1>1, <1>4, <1>6
<1>12. PICK i \in 1..n : i \notin single /\ Exclusive(at, n, i) /\ p[i + 1] = b /\ b + 1 \in at[i]
  BY <1>3, <1>6, <1>8, <1>9, <1>11, PartGoesOn
<1>13. PICK c \in single : TRUE
  BY <1>0
<1>14. PICK j \in 1..n : r[j] < b + 1 /\ b + 1 <= r[j + 1] /\ b + 1 \in at[j]
  <2>1. b + 1 \in Int /\ b < b + 1 /\ b + 1 <= e
    BY <1>7, <1>11
  <2> QED
    BY <1>0, <1>10, <2>1, PartOf
<1>15. j = i
  BY <1>12, <1>14 DEF Exclusive
<1>16. c \in 1..n /\ c # i
  BY <1>0, <1>12, <1>13
<1>17. /\ 1 \in 1..(n + 1) /\ c \in 1..(n + 1) /\ c + 1 \in 1..(n + 1) /\ n + 1 \in 1..(n + 1)
       /\ i \in 1..(n + 1) /\ i + 1 \in 1..(n + 1)
  BY <1>0, <1>12, <1>16
<1>18. CASE c < i
  <2>1. /\ r[c + 1] = r[c] + 1 /\ r[1] = b /\ r[1] <= r[c] /\ r[c + 1] <= r[i]
        /\ r[c] \in Int /\ r[i] \in Int
    <3>1. 1 <= c /\ c + 1 <= i
      BY <1>16, <1>18
    <3> QED
      BY <1>10, <1>13, <1>17, <3>1 DEF Iteration
  <2> QED
    BY <1>11, <1>14, <1>15, <2>1
<1>19. CASE i < c
  <2>1. /\ p[c + 1] = p[c] + 1 /\ p[n + 1] = b /\ p[i + 1] <= p[c] /\ p[c + 1] <= p[n + 1]
        /\ p[c] \in Int
    <3>1. i + 1 <= c /\ c + 1 <= n + 1
      BY <1>0, <1>16, <1>19
    <3> QED
      BY <1>8, <1>13, <1>17, <3>1 DEF Iteration
  <2> QED
    BY <1>11, <1>12, <2>1
<1> QED
  BY <1>16, <1>18, <1>19

LEMMA OneCut ==
  ASSUME NEW at, NEW n, NEW single, NEW f, CutFromLeft(at, n, single, f),
         NEW size \in Nat, NEW E, NEW F,
         Iterated(E, at, n, single, size), Iterated(F, at, n, single, size)
  PROVE  E = F
<1> DEFINE S == {x \in 0..size : ~(x \in E <=> x \in F)}
<1> SUFFICES ASSUME E # F PROVE FALSE
  OBVIOUS
<1>1. E \subseteq 0..size /\ F \subseteq 0..size
  BY DEF Iterated
<1>2. S \in SUBSET Nat /\ S # {}
  <2>1. PICK x : ~(x \in E <=> x \in F)
    OBVIOUS
  <2>2. x \in 0..size
    BY <1>1, <2>1
  <2>3. x \in S
    BY <2>1, <2>2
  <2> QED
    BY <2>3
<1>3. PICK b \in S : \A k \in S : b <= k
  BY <1>2, Smallest
<1>4. \A x \in 0..size : x < b => (x \in E <=> x \in F)
  BY <1>3
<1>5. CASE b \in E
  <2>1. b \notin F
    BY <1>3, <1>5
  <2> HIDE DEF S
  <2> QED
    BY <1>4, <1>5, <2>1, NoFirstDifference
<1>6. CASE b \notin E
  <2>1. b \in F /\ \A x \in 0..size : x < b => (x \in F <=> x \in E)
    BY <1>3, <1>4, <1>6
  <2> HIDE DEF S
  <2> QED
    BY <1>6, <2>1, NoFirstDifference
<1> QED
  BY <1>5, <1>6

-----------------------------------------------------------------------------
(* Read from the right, a cut of a text is a cut of the reversed text. *)

MirroredAt(at, n, size)   == [i \in 1..n |-> {x \in Int : size + 1 - x \in at[n + 1 - i]}]
MirroredSingle(single, n) == {i \in 1..n : n + 1 - i \in single}
MirroredEnds(ends, size)  == {x \in 0..size : size - x \in ends}

\* The mirror image of CutFromLeft.
CutFromRight(at, n, single, f) ==
    /\ n \in Nat /\ f \in 0..n
    /\ single \subseteq 1..n /\ single # {}
    /\ \A i \in 1..f : i \in single \/ Exclusive(at, n, i)
    /\ f + 1 \in single /\ Exclusive(at, n, f + 1)

LEMMA MirroredIteration ==
  ASSUME NEW at, NEW n \in Nat, NEW single, single \subseteq 1..n,
         NEW size \in Nat, NEW a \in Int, NEW b \in Int, NEW p,
         Iteration(at, n, single, p, a, b)
  PROVE  \E q : Iteration(MirroredAt(at, n, size), n, MirroredSingle(single, n), q,
                          size - b, size - a)
<1>1. /\ \A i \in 1..(n + 1) : p[i] \in Int
      /\ p[1] = a /\ p[n + 1] = b
      /\ \A i, k \in 1..(n + 1) : i <= k => p[i] <= p[k]
      /\ \A i \in 1..n : \A x \in (p[i] + 1)..p[i + 1] : x \in at[i]
      /\ \A i \in single : p[i + 1] = p[i] + 1
  BY DEF Iteration
<1> DEFINE q == [i \in 1..(n + 1) |-> size - p[n + 2 - i]]
           M == MirroredAt(at, n, size)
           T == MirroredSingle(single, n)
<1>2. \A i \in 1..(n + 1) : q[i] = size - p[n + 2 - i] /\ n + 2 - i \in 1..(n + 1)
  OBVIOUS
<1> HIDE DEF q
<1>3. \A i \in 1..(n + 1) : q[i] \in Int
  BY <1>1, <1>2
<1>4. q[1] = size - b /\ q[n + 1] = size - a
  <2>1. q[1] = size - p[n + 2 - 1] /\ q[n + 1] = size - p[n + 2 - (n + 1)]
    BY <1>2
  <2>2. n + 2 - 1 = n + 1 /\ n + 2 - (n + 1) = 1
    OBVIOUS
  <2> QED
    BY <1>1, <2>1, <2>2
<1>5. ASSUME NEW i \in 1..(n + 1), NEW k \in 1..(n + 1), i <= k PROVE q[i] <= q[k]
  <2>1. p[n + 2 - k] <= p[n + 2 - i]
    BY <1>1, <1>2, <1>5
  <2> QED
    BY <1>1, <1>2, <2>1
<1>6. ASSUME NEW i \in 1..n
      PROVE  /\ q[i] = size - p[(n + 1 - i) + 1] /\ q[i + 1] = size - p[n + 1 - i]
             /\ n + 1 - i \in 1..n
             /\ p[(n + 1 - i) + 1] \in Int /\ p[n + 1 - i] \in Int
  <2>1. n + 2 - i = (n + 1 - i) + 1 /\ n + 2 - (i + 1) = n + 1 - i /\ n + 1 - i \in 1..n
        /\ i \in 1..(n + 1) /\ i + 1 \in 1..(n + 1)
    OBVIOUS
  <2>2. q[i] = size - p[n + 2 - i] /\ q[i + 1] = size - p[n + 2 - (i + 1)]
    BY <1>2, <2>1
  <2>3. (n + 1 - i) + 1 \in 1..(n + 1) /\ n + 1 - i \in 1..(n + 1)
    OBVIOUS
  <2> QED
    BY <1>1, <2>1, <2>2, <2>3
<1>7. ASSUME NEW i \in 1..n, NEW x \in (q[i] + 1)..q[i + 1] PROVE x \in M[i]
  <2>1. size + 1 - x \in (p[n + 1 - i] + 1)..p[(n + 1 - i) + 1] /\ x \in Int
    BY <1>6
  <2>2. size + 1 - x \in at[n + 1 - i]
    BY <1>1, <1>6, <2>1
  <2> QED
    BY <2>1, <2>2 DEF MirroredAt
<1>8. ASSUME NEW i \in T PROVE q[i + 1] = q[i] + 1
  <2>1. i \in 1..n /\ n + 1 - i \in single
    BY DEF MirroredSingle
  <2>2. p[(n + 1 - i) + 1] = p[n + 1 - i] + 1
    BY <1>1, <2>1
  <2> QED
    BY <1>6, <2>1, <2>2
<1>9. Iteration(M, n, T, q, size - b, size - a)
  BY <1>3, <1>4, <1>5, <1>7, <1>8 DEF Iteration
<1> QED
  BY <1>9

LEMMA MirroredIterations ==
  ASSUME NEW at, NEW n \in Nat, NEW single, single \subseteq 1..n,
         NEW size \in Nat, NEW ends, Iterated(ends, at, n, single, size)
  PROVE  Iterated(MirroredEnds(ends, size), MirroredAt(at, n, size), n,
                  MirroredSingle(single, n), size)
<1> DEFINE E == MirroredEnds(ends, size)
           M == MirroredAt(at, n, size)
           T == MirroredSingle(single, n)
<1>1. /\ ends \subseteq 0..size /\ 0 \in ends /\ size \in ends
      /\ \A a, b \in ends : a < b /\ (\A m \in ends : m <= a \/ b <= m) =>
             \E p : Iteration(at, n, single, p, a, b)
  BY DEF Iterated
<1>2. \A x : x \in E <=> x \in 0..size /\ size - x \in ends
  BY DEF MirroredEnds
<1>3. E \subseteq 0..size /\ 0 \in E /\ size \in E
  <2>1. size - 0 = size /\ size - size = 0 /\ 0 \in 0..size /\ size \in 0..size
    OBVIOUS
  <2> QED
    BY <1>1, <1>2, <2>1
<1>4. ASSUME NEW a \in E, NEW b \in E, a < b, \A m \in E : m <= a \/ b <= m
      PROVE  \E p : Iteration(M, n, T, p, a, b)
  <2>1. /\ a \in 0..size /\ b \in 0..size
        /\ size - a \in ends /\ size - b \in ends /\ size - b < size - a
        /\ size - (size - a) = a /\ size - (size - b) = b
    BY <1>2, <1>4
  <2>2. ASSUME NEW m \in ends PROVE m <= size - b \/ size - a <= m
    <3>1. m \in 0..size /\ size - m \in 0..size /\ size - (size - m) = m
      BY <1>1
    <3>2. size - m \in E
      BY <1>2, <3>1
    <3>3. size - m <= a \/ b <= size - m
      BY <1>4, <3>2
    <3> QED
      BY <2>1, <3>1, <3>3
  <2>3. PICK p : Iteration(at, n, single, p, size - b, size - a)
    BY <1>1, <2>1, <2>2
  <2>4. \E q : Iteration(M, n, T, q, size - (size - a), size - (size - b))
    <3>1. size - b \in Int /\ size - a \in Int
      BY <2>1
    <3> HIDE DEF M, T
    <3> QED
      BY <2>3, <3>1, MirroredIteration DEF M, T
  <2> QED
    BY <2>1, <2>4
<1> QED
  BY <1>3, <1>4 DEF Iterated

LEMMA MirroredCut ==
  ASSUME NEW at, NEW n, NEW single, NEW f, CutFromRight(at, n, single, f), NEW size \in Nat
  PROVE  CutFromLeft(MirroredAt(at, n, size), n, MirroredSingle(single, n), n + 1 - f)
<1> DEFINE M == MirroredAt(at, n, size)
           T == MirroredSingle(single, n)
<1>1. /\ n \in Nat /\ f \in 0..n
      /\ single \subseteq 1..n /\ single # {}
      /\ \A i \in 1..f : i \in single \/ Exclusive(at, n, i)
      /\ f + 1 \in single /\ Exclusive(at, n, f + 1)
  BY DEF CutFromRight
<1>2. ASSUME NEW i \in 1..n, Exclusive(at, n, n + 1 - i) PROVE Exclusive(M, n, i)
  <2> SUFFICES ASSUME NEW k \in 1..n, k # i, NEW x \in M[i], x \in M[k] PROVE FALSE
    BY DEF Exclusive
  <2>1. size + 1 - x \in at[n + 1 - i] /\ size + 1 - x \in at[n + 1 - k]
    BY DEF MirroredAt
  <2>2. n + 1 - k \in 1..n /\ n + 1 - k # n + 1 - i
    BY <1>1
  <2> QED
    BY <1>2, <2>1, <2>2 DEF Exclusive
<1>3. ASSUME NEW i \in 1..n PROVE i \in T <=> n + 1 - i \in single
  BY DEF MirroredSingle
<1>4. T \subseteq 1..n /\ T # {}
  <2>1. PICK c \in single : TRUE
    BY <1>1
  <2>2. c \in 1..n
    BY <1>1
  <2>3. n + 1 - c \in 1..n /\ n + 1 - (n + 1 - c) = c
    BY <1>1, <2>2
  <2>4. n + 1 - c \in T
    BY <1>3, <2>1, <2>3
  <2> QED
    BY <2>4 DEF MirroredSingle
<1>5. ASSUME NEW i \in (n + 1 - f)..n PROVE i \in T \/ Exclusive(M, n, i)
  <2>1. i \in 1..n /\ n + 1 - i \in 1..f
    BY <1>1
  <2> HIDE DEF T, M
  <2> QED
    BY <1>1, <1>2, <1>3, <2>1
<1>6. f + 1 \in 1..n /\ n - f \in 1..n /\ n + 1 - (n - f) = f + 1 /\ (n + 1 - f) - 1 = n - f
      /\ n + 1 - f \in 1..(n + 1)
  BY <1>1
<1>7. n - f \in T /\ Exclusive(M, n, n - f)
  <2> HIDE DEF T, M
  <2>1. n + 1 - (n - f) \in single /\ Exclusive(at, n, n + 1 - (n - f))
    BY <1>1, <1>6
  <2> QED
    BY <1>2, <1>3, <1>6, <2>1
<1> HIDE DEF T, M
<1>8. CutFromLeft(M, n, T, n + 1 - f)
  BY <1>1, <1>4, <1>5, <1>6, <1>7 DEF CutFromLeft
<1> QED
  BY <1>8 DEF M, T

LEMMA OneCutFromRight ==
  ASSUME NEW at, NEW n, NEW single, NEW f, CutFromRight(at, n, single, f),
         NEW size \in Nat, NEW E, NEW F,
         Iterated(E, at, n, single, size), Iterated(F, at, n, single, size)
  PROVE  E = F
<1>1. n \in Nat /\ single \subseteq 1..n
  BY DEF CutFromRight
<1>2. E \subseteq 0..size /\ F \subseteq 0..size
  BY DEF Iterated
<1>3. MirroredEnds(E, size) = MirroredEnds(F, size)
  <2>1. CutFromLeft(MirroredAt(at, n, size), n, MirroredSingle(single, n), n + 1 - f)
    BY MirroredCut
  <2>2. /\ Iterated(MirroredEnds(E, size), MirroredAt(at, n, size), n,
                    MirroredSingle(single, n), size)
        /\ Iterated(MirroredEnds(F, size), MirroredAt(at, n, size), n,
                    MirroredSingle(single, n), size)
    BY <1>1, MirroredIterations
  <2> QED
    BY <2>1, <2>2, OneCut
<1>4. ASSUME NEW x \in 0..size PROVE x \in E <=> x \in F
  <2>1. size - x \in 0..size /\ size - (size - x) = x
    OBVIOUS
  <2>2. size - x \in MirroredEnds(E, size) <=> size - x \in MirroredEnds(F, size)
    BY <1>3
  <2> QED
    BY <2>1, <2>2 DEF MirroredEnds
<1> QED
  BY <1>2, <1>4

-----------------------------------------------------------------------------
(* The parts of a word *)

\* From slot i on, the words of the sets fill the text from a to b.
Parts(text, sets, i, p, a, b) ==
    /\ \A k \in i..(Len(sets) + 1) : p[k] \in Int
    /\ p[i] = a /\ p[Len(sets) + 1] = b
    /\ \A k, m \in i..(Len(sets) + 1) : k <= m => p[k] <= p[m]
    /\ \A k \in i..Len(sets) : SubSeq(text, p[k] + 1, p[k + 1]) \in sets[k]

\* v and then w is what the text has from a to b, and so each has its place there.
Divided(text, a, b, v, w) ==
    v \in Seq(Alphabet) /\ w \in Seq(Alphabet) /\ v \o w = SubSeq(text, a + 1, b)

Halves(text, a, b, v, w) ==
    \E m \in Nat : /\ a <= m /\ m <= b
                   /\ SubSeq(text, a + 1, m) = v /\ SubSeq(text, m + 1, b) = w

LEMMA SplitText ==
  ASSUME NEW text \in Seq(Alphabet), NEW a \in Nat, NEW b \in Nat, a <= b, b <= Len(text),
         NEW v, NEW w, Divided(text, a, b, v, w)
  PROVE  Halves(text, a, b, v, w)
<1>0. v \in Seq(Alphabet) /\ w \in Seq(Alphabet) /\ v \o w = SubSeq(text, a + 1, b)
  BY DEF Divided
<1> DEFINE m == a + Len(v)
           u == SubSeq(text, a + 1, b)
<1>1. /\ Len(v) \in Nat /\ Len(w) \in Nat /\ Len(text) \in Nat
      /\ \A i \in 1..Len(text) : text[i] \in Alphabet
  BY <1>0
<1>2. Len(u) = b - a /\ \A i \in 1..(b - a) : u[i] = text[a + i]
  <2>1. \A i \in (a + 1)..b : text[i] \in Alphabet
    BY <1>1
  <2>2. /\ Len(u) = IF a + 1 <= b THEN b - (a + 1) + 1 ELSE 0
        /\ \A i \in 1..(b - (a + 1) + 1) : u[i] = text[(a + 1) + i - 1]
    BY <2>1, SubSeqProperties
  <2>3. b - (a + 1) + 1 = b - a /\ \A i \in 1..(b - a) : (a + 1) + i - 1 = a + i
    OBVIOUS
  <2> QED
    BY <2>2, <2>3
<1>3. /\ Len(u) = Len(v) + Len(w)
      /\ \A i \in 1..(Len(v) + Len(w)) : u[i] = IF i <= Len(v) THEN v[i] ELSE w[i - Len(v)]
  <2>1. /\ Len(v \o w) = Len(v) + Len(w)
        /\ \A i \in 1..(Len(v) + Len(w)) :
               (v \o w)[i] = IF i <= Len(v) THEN v[i] ELSE w[i - Len(v)]
    BY <1>0, ConcatProperties
  <2>2. u = v \o w
    BY <1>0
  <2> HIDE DEF u
  <2> QED
    BY <2>1, <2>2
<1> HIDE DEF u
<1>4. m \in Nat /\ m <= b /\ b - m = Len(w)
  <2>1. b - a = Len(v) + Len(w)
    BY <1>2, <1>3
  <2> QED
    BY <1>1, <2>1
<1>5. SubSeq(text, a + 1, m) = v
  <2> DEFINE t == SubSeq(text, a + 1, m)
  <2>1. \A i \in (a + 1)..m : text[i] \in Alphabet
    BY <1>1, <1>4
  <2>2. /\ t \in Seq(Alphabet)
        /\ Len(t) = IF a + 1 <= m THEN m - (a + 1) + 1 ELSE 0
        /\ \A i \in 1..(m - (a + 1) + 1) : t[i] = text[(a + 1) + i - 1]
    BY <1>4, <2>1, SubSeqProperties
  <2> HIDE DEF t
  <2>3. Len(t) = Len(v)
    BY <1>1, <2>2
  <2>4. ASSUME NEW i \in 1..Len(v) PROVE t[i] = v[i]
    <3>1. i \in 1..(m - (a + 1) + 1) /\ (a + 1) + i - 1 = a + i /\ i \in 1..(b - a)
          /\ i \in 1..(Len(v) + Len(w)) /\ i <= Len(v)
      BY <1>1, <1>4
    <3> QED
      BY <1>2, <1>3, <2>2, <3>1
  <2> QED
    BY <1>0, <2>2, <2>3, <2>4, SeqEqual DEF t
<1>6. SubSeq(text, m + 1, b) = w
  <2> DEFINE t == SubSeq(text, m + 1, b)
  <2>1. \A i \in (m + 1)..b : text[i] \in Alphabet
    BY <1>1, <1>4
  <2>2. /\ t \in Seq(Alphabet)
        /\ Len(t) = IF m + 1 <= b THEN b - (m + 1) + 1 ELSE 0
        /\ \A i \in 1..(b - (m + 1) + 1) : t[i] = text[(m + 1) + i - 1]
    BY <1>4, <2>1, SubSeqProperties
  <2> HIDE DEF t
  <2>3. Len(t) = Len(w)
    BY <1>1, <1>4, <2>2
  <2>4. ASSUME NEW i \in 1..Len(w) PROVE t[i] = w[i]
    <3> DEFINE j == Len(v) + i
    <3>1. /\ i \in 1..(b - (m + 1) + 1) /\ (m + 1) + i - 1 = a + j /\ j \in 1..(b - a)
          /\ j \in 1..(Len(v) + Len(w)) /\ ~(j <= Len(v)) /\ j - Len(v) = i
      BY <1>1, <1>4
    <3>2. t[i] = text[a + j]
      BY <2>2, <3>1
    <3>3. u[j] = text[a + j]
      BY <1>2, <3>1
    <3>4. u[j] = w[j - Len(v)]
      BY <1>3, <3>1
    <3> QED
      BY <3>1, <3>2, <3>3, <3>4
  <2> QED
    BY <1>0, <2>2, <2>3, <2>4, SeqEqual DEF t
<1>7. a <= m
  BY <1>1
<1> QED
  BY <1>4, <1>5, <1>6, <1>7 DEF Halves

LEMMA JoinedFrom ==
  ASSUME NEW sets \in Seq(Languages), NEW joined \in [Places(sets) -> WordSets],
         \A i \in Places(sets) : joined[i] = JoinedStep(sets, joined, i)
  PROVE  /\ joined[Len(sets) + 1] = {<<>>}
         /\ \A i \in 1..Len(sets) : \A word \in joined[i] :
                \E v \in sets[i], w \in joined[i + 1] :
                    v \in Seq(Alphabet) /\ w \in Seq(Alphabet) /\ v \o w = word
<1>1. Len(sets) \in Nat /\ Places(sets) = 1..(Len(sets) + 1)
  BY DEF Places
<1>2. joined[Len(sets) + 1] = {<<>>}
  BY <1>1 DEF JoinedStep
<1>3. ASSUME NEW i \in 1..Len(sets), NEW word \in joined[i]
      PROVE  \E v \in sets[i], w \in joined[i + 1] :
                 v \in Seq(Alphabet) /\ w \in Seq(Alphabet) /\ v \o w = word
  <2>1. joined[i] = Concatenated(sets[i], joined[i + 1])
    <3>1. i \in Places(sets) /\ ~(i > Len(sets))
      BY <1>1
    <3>2. joined[i] = JoinedStep(sets, joined, i)
      BY <3>1
    <3> QED
      BY <3>1, <3>2 DEF JoinedStep
  <2> DEFINE L == sets[i]
             M == joined[i + 1]
  <2>2. PICK v \in L, w \in M : v \o w = word
    <3>1. word \in Concatenated(L, M)
      BY <2>1
    <3> HIDE DEF L, M
    <3> QED
      BY <3>1, WordOfTwo
  <2>3. v \in Seq(Alphabet) /\ w \in Seq(Alphabet)
    BY <1>1, WordTypes DEF Languages, WordSets
  <2> QED
    BY <2>2, <2>3
<1> QED
  BY <1>2, <1>3

LEMMA PartsOfJoined ==
  ASSUME NEW sets \in Seq(Languages), NEW text \in Seq(Alphabet),
         NEW a \in Nat, NEW b \in Nat, a <= b, b <= Len(text),
         SubSeq(text, a + 1, b) \in Joined(sets)
  PROVE  \E p : Parts(text, sets, 1, p, a, b)
<1> DEFINE n == Len(sets)
           I == Places(sets)
<1>1. PICK joined \in [I -> WordSets] :
          /\ Joined(sets) = joined[1]
          /\ \A i \in I : joined[i] = JoinedStep(sets, joined, i)
  BY JoinedEquation
<1> DEFINE Right(i) == \A c \in Nat : c <= b /\ SubSeq(text, c + 1, b) \in joined[i] =>
                           \E p : Parts(text, sets, i, p, c, b)
           Wrong == {m \in Nat : \E i \in I : ~Right(i) /\ m = n + 1 - i}
<1>2. n \in Nat /\ I = 1..(n + 1)
  BY DEF Places
<1>0. /\ joined[n + 1] = {<<>>}
      /\ \A i \in 1..n : \A word \in joined[i] :
             \E v \in sets[i], w \in joined[i + 1] :
                 v \in Seq(Alphabet) /\ w \in Seq(Alphabet) /\ v \o w = word
  BY <1>1, JoinedFrom
<1>3. Right(n + 1)
  <2> SUFFICES ASSUME NEW c \in Nat, c <= b, SubSeq(text, c + 1, b) \in joined[n + 1]
               PROVE  \E p : Parts(text, sets, n + 1, p, c, b)
    OBVIOUS
  <2>1. SubSeq(text, c + 1, b) = <<>>
    BY <1>0
  <2>2. c = b
    <3>1. \A i \in (c + 1)..b : text[i] \in Alphabet
      OBVIOUS
    <3>2. Len(SubSeq(text, c + 1, b)) = IF c + 1 <= b THEN b - (c + 1) + 1 ELSE 0
      BY <3>1, SubSeqProperties
    <3> QED
      BY <2>1, <3>2
  <2>3. Parts(text, sets, n + 1, [k \in {n + 1} |-> c], c, b)
    BY <1>2, <2>2 DEF Parts
  <2> QED
    BY <2>3
<1>4. ASSUME NEW i \in 1..n, Right(i + 1) PROVE Right(i)
  <2> SUFFICES ASSUME NEW c \in Nat, c <= b, SubSeq(text, c + 1, b) \in joined[i]
               PROVE  \E p : Parts(text, sets, i, p, c, b)
    OBVIOUS
  <2>2. PICK v \in sets[i], w \in joined[i + 1] :
            v \in Seq(Alphabet) /\ w \in Seq(Alphabet) /\ v \o w = SubSeq(text, c + 1, b)
    BY <1>0
  <2>4. PICK m \in Nat : /\ c <= m /\ m <= b
                         /\ SubSeq(text, c + 1, m) = v /\ SubSeq(text, m + 1, b) = w
    <3>1. Divided(text, c, b, v, w)
      BY <2>2 DEF Divided
    <3>2. Halves(text, c, b, v, w)
      BY <3>1, SplitText
    <3> QED
      BY <3>2 DEF Halves
  <2>5. PICK r : Parts(text, sets, i + 1, r, m, b)
    BY <1>4, <2>2, <2>4
  <2>6. /\ \A k \in (i + 1)..(n + 1) : r[k] \in Int
        /\ r[i + 1] = m /\ r[n + 1] = b
        /\ \A k, j \in (i + 1)..(n + 1) : k <= j => r[k] <= r[j]
        /\ \A k \in (i + 1)..n : SubSeq(text, r[k] + 1, r[k + 1]) \in sets[k]
    BY <2>5 DEF Parts
  <2> DEFINE p == [k \in i..(n + 1) |-> IF k = i THEN c ELSE r[k]]
  <2>7. p[i] = c /\ \A k \in (i + 1)..(n + 1) : p[k] = r[k]
    BY <1>2
  <2> HIDE DEF p
  <2>8. ASSUME NEW k \in i..(n + 1) PROVE k = i \/ k \in (i + 1)..(n + 1)
    BY <1>2
  <2>9. \A k \in i..(n + 1) : p[k] \in Int
    BY <2>6, <2>7, <2>8
  <2>10. p[i] = c /\ p[n + 1] = b
    BY <1>2, <2>6, <2>7
  <2>11. ASSUME NEW k \in i..(n + 1), NEW j \in i..(n + 1), k <= j PROVE p[k] <= p[j]
    <3>1. CASE k = i /\ j = i
      BY <2>7, <3>1
    <3>2. CASE k = i /\ j # i
      <4>1. j \in (i + 1)..(n + 1) /\ i + 1 \in (i + 1)..(n + 1) /\ i + 1 <= j
        BY <1>2, <2>8, <3>2
      <4>2. r[i + 1] <= r[j] /\ r[j] \in Int
        BY <2>6, <4>1
      <4> QED
        BY <2>4, <2>6, <2>7, <3>2, <4>1, <4>2
    <3>3. CASE k # i
      <4>1. k \in (i + 1)..(n + 1) /\ j \in (i + 1)..(n + 1)
        BY <1>2, <2>8, <2>11, <3>3
      <4> QED
        BY <2>6, <2>7, <2>11, <4>1
    <3> QED
      BY <3>1, <3>2, <3>3
  <2>12. ASSUME NEW k \in i..n PROVE SubSeq(text, p[k] + 1, p[k + 1]) \in sets[k]
    <3>1. CASE k = i
      <4>1. i + 1 \in (i + 1)..(n + 1)
        BY <1>2
      <4> QED
        BY <2>2, <2>4, <2>6, <2>7, <3>1, <4>1
    <3>2. CASE k # i
      <4>1. k \in (i + 1)..n /\ k \in (i + 1)..(n + 1) /\ k + 1 \in (i + 1)..(n + 1)
        BY <1>2, <3>2
      <4> QED
        BY <2>6, <2>7, <4>1
    <3> QED
      BY <3>1, <3>2
  <2>13. Parts(text, sets, i, p, c, b)
    BY <2>9, <2>10, <2>11, <2>12 DEF Parts
  <2> QED
    BY <2>13
<1>5. Wrong = {}
  <2> SUFFICES ASSUME Wrong # {} PROVE FALSE
    OBVIOUS
  <2>1. PICK m \in Wrong : \A k \in Wrong : m <= k
    BY Smallest
  <2> HIDE DEF Right
  <2>2. PICK i \in I : ~Right(i) /\ m = n + 1 - i
    BY <2>1
  <2>3. i \in 1..n
    BY <1>2, <1>3, <2>2
  <2>4. m - 1 \in Nat /\ i + 1 \in I /\ m - 1 = n + 1 - (i + 1) /\ m - 1 < m
    BY <1>2, <2>2, <2>3
  <2>5. m - 1 \notin Wrong
    <3> HIDE DEF Wrong
    <3>1. Wrong \subseteq Nat
      BY DEF Wrong
    <3> QED
      BY <2>1, <2>4, <3>1
  <2>6. Right(i + 1)
    BY <2>4, <2>5
  <2> QED
    BY <1>4, <2>2, <2>3, <2>6
<1>6. Right(1)
  <2> HIDE DEF Right
  <2> QED
    BY <1>2, <1>5
<1> QED
  BY <1>1, <1>6

\* All characters of the word are among those of the set.
MadeOf(word, set) == \A x \in 1..Len(word) : word[x] \in Chars(set)

\* A position of a text whose part is a word.
LEMMA CharOfPart ==
  ASSUME NEW text \in Seq(Alphabet), NEW c \in Nat, NEW d \in Nat, d <= Len(text),
         NEW x \in (c + 1)..d
  PROVE  /\ x - c \in 1..Len(SubSeq(text, c + 1, d))
         /\ SubSeq(text, c + 1, d)[x - c] = text[x]
<1>1. \A i \in (c + 1)..d : text[i] \in Alphabet
  OBVIOUS
<1>2. /\ Len(SubSeq(text, c + 1, d)) = IF c + 1 <= d THEN d - (c + 1) + 1 ELSE 0
      /\ \A i \in 1..(d - (c + 1) + 1) : SubSeq(text, c + 1, d)[i] = text[(c + 1) + i - 1]
  BY <1>1, SubSeqProperties
<1>3. x - c \in 1..(d - (c + 1) + 1) /\ (c + 1) + (x - c) - 1 = x /\ c + 1 <= d
  OBVIOUS
<1> QED
  BY <1>2, <1>3

LEMMA MadeOfJoined ==
  ASSUME NEW sets \in Seq(Languages), NEW set,
         \A i \in 1..Len(sets) : \A v \in sets[i] : MadeOf(v, set)
  PROVE  \A word \in Joined(sets) : MadeOf(word, set)
<1> SUFFICES ASSUME NEW word \in Joined(sets), NEW x \in 1..Len(word)
             PROVE  word[x] \in Chars(set)
  BY DEF MadeOf
<1>1. word \in Seq(Alphabet)
  BY JoinedType, WordTypes
<1>2. SubSeq(word, 0 + 1, Len(word)) = word
  BY <1>1, SubSeqFull
<1>3. PICK p : Parts(word, sets, 1, p, 0, Len(word))
  <2>1. 0 \in Nat /\ Len(word) \in Nat /\ 0 <= Len(word) /\ Len(word) <= Len(word)
    BY <1>1
  <2>2. SubSeq(word, 0 + 1, Len(word)) \in Joined(sets)
    BY <1>2
  <2> QED
    BY <1>1, <2>1, <2>2, PartsOfJoined
<1> DEFINE n == Len(sets)
           at == [i \in 1..n |-> (p[i] + 1)..p[i + 1]]
<1>4. n \in Nat
  OBVIOUS
<1>5. /\ \A k \in 1..(n + 1) : p[k] \in Int
      /\ p[1] = 0 /\ p[n + 1] = Len(word)
      /\ \A k, m \in 1..(n + 1) : k <= m => p[k] <= p[m]
      /\ \A k \in 1..n : SubSeq(word, p[k] + 1, p[k + 1]) \in sets[k]
  BY <1>3 DEF Parts
<1>6. Iteration(at, n, {}, p, 0, Len(word))
  BY <1>5 DEF Iteration
<1> HIDE DEF n, at
<1>7. PICK i \in 1..n : p[i] < x /\ x <= p[i + 1]
  <2>1. x \in Int /\ 0 < x /\ x <= Len(word)
    BY <1>1
  <2> QED
    BY <1>4, <1>6, <2>1, PartOf
<1>8. p[i] \in Nat /\ p[i + 1] \in Nat /\ p[i + 1] <= Len(word) /\ x \in (p[i] + 1)..p[i + 1]
  <2>1. /\ 1 \in 1..(n + 1) /\ i \in 1..(n + 1) /\ i + 1 \in 1..(n + 1) /\ n + 1 \in 1..(n + 1)
    BY <1>4
  <2>2. p[1] <= p[i] /\ p[i] <= p[i + 1] /\ p[i + 1] <= p[n + 1]
    BY <1>4, <1>5, <2>1
  <2> QED
    BY <1>1, <1>5, <1>7, <2>1, <2>2
<1> DEFINE v == SubSeq(word, p[i] + 1, p[i + 1])
<1>9. MadeOf(v, set)
  BY <1>5 DEF n
<1>10. x - p[i] \in 1..Len(v) /\ v[x - p[i]] = word[x]
  BY <1>1, <1>8, CharOfPart
<1> HIDE DEF v
<1> QED
  BY <1>9, <1>10 DEF MadeOf

-----------------------------------------------------------------------------
(* The characters of an element *)

LEMMA ConsumedLocal ==
  ASSUME NEW e \in Elements, NEW g, NEW h,
         \A x \in Elements : Depth[x] < Depth[e] => g[x] = h[x]
  PROVE  ConsumedStep(g, e) = ConsumedStep(h, e)
<1> DEFINE inside == UNION {ToSet(s) : s \in ToSet(e.subs)}
<1>1. \A x \in inside : g[x] = h[x]
  BY InsideElement
<1>2. {g[x] : x \in inside} = {h[x] : x \in inside}
  <2> HIDE DEF inside
  <2> QED
    BY <1>1
<1>3. /\ ConsumedStep(g, e) = CASE e.op = "char" -> e.set [] e.op = "at" -> {}
                                [] OTHER -> UNION {g[x] : x \in inside}
      /\ ConsumedStep(h, e) = CASE e.op = "char" -> e.set [] e.op = "at" -> {}
                                [] OTHER -> UNION {h[x] : x \in inside}
  BY DEF ConsumedStep
<1> HIDE DEF inside
<1> QED
  BY <1>2, <1>3

LEMMA ConsumedType ==
  ASSUME NEW e \in Elements, NEW g \in [Elements -> CharSets]
  PROVE  ConsumedStep(g, e) \in CharSets
<1> DEFINE inside == UNION {ToSet(s) : s \in ToSet(e.subs)}
<1>1. \A x \in inside : g[x] \subseteq WrittenChars
  <2>1. \A x \in inside : x \in Elements
    BY InsideElement
  <2> QED
    BY <2>1 DEF CharSets
<1>2. CASE e.op = "char"
  BY <1>2 DEF ConsumedStep, CharSets, WrittenChars
<1>3. CASE e.op = "at"
  BY <1>3 DEF ConsumedStep, CharSets
<1>4. CASE e.op \notin {"char", "at"}
  <2>1. ConsumedStep(g, e) = UNION {g[x] : x \in inside}
    BY <1>4 DEF ConsumedStep
  <2> HIDE DEF inside
  <2> QED
    BY <1>1, <2>1 DEF CharSets
<1> QED
  BY <1>2, <1>3, <1>4

LEMMA ConsumedEquation == \A e \in Elements : ConsumedOf[e] = ConsumedStep(ConsumedOf, e)
<1> DEFINE F == [e \in Elements |-> [g \in [Elements -> CharSets] |-> ConsumedStep(g, e)]]
           Equation(g) == g = [e \in Elements |-> ConsumedStep(g, e)]
<1>1. F \in [Elements -> [[Elements -> CharSets] -> CharSets]]
  BY ConsumedType
<1>2. GoesByRank(Elements, CharSets, Depth, F)
  <2>1. ASSUME NEW e \in Elements, NEW g \in [Elements -> CharSets],
               NEW h \in [Elements -> CharSets],
               \A x \in Elements : Depth[x] < Depth[e] => g[x] = h[x]
        PROVE  F[e][g] = F[e][h]
    <3>1. ConsumedStep(g, e) = ConsumedStep(h, e)
      BY <2>1, ConsumedLocal
    <3> QED
      BY <3>1
  <2> HIDE DEF F
  <2> QED
    BY <1>1, <2>1, DepthTypes DEF GoesByRank
<1>3. PICK f \in [Elements -> CharSets] : \A e \in Elements : f[e] = F[e][f]
  <2> HIDE DEF F
  <2>1. CharSets # {}
    BY DEF CharSets
  <2> QED
    BY <1>2, <2>1, RecursionExists
<1>4. Equation(f)
  <2>1. f = [e \in Elements |-> f[e]]
    OBVIOUS
  <2>2. \A e \in Elements : f[e] = ConsumedStep(f, e)
    BY <1>3
  <2> QED
    BY <2>1, <2>2
<1>5. ConsumedOf = CHOOSE g : Equation(g)
  BY DEF ConsumedOf
<1>6. Equation(ConsumedOf)
  <2> HIDE DEF Equation
  <2> QED
    BY <1>4, <1>5
<1> HIDE DEF F
<1> QED
  BY <1>6

LEMMA MadeOfMore ==
  ASSUME NEW word, NEW s, NEW t, s \subseteq t, MadeOf(word, s)
  PROVE  MadeOf(word, t)
  BY MoreChars DEF MadeOf

LEMMA MadeOfSequence ==
  ASSUME NEW items \in Seq(Elements), NEW set,
         \A x \in ToSet(items) : \A w \in WordsOf[x] : MadeOf(w, set)
  PROVE  \A w \in Words(items) : MadeOf(w, set)
<1> DEFINE sets == [i \in DOMAIN items |-> WordsOf[items[i]]]
<1>1. sets \in Seq(Languages) /\ Len(sets) = Len(items)
  BY LanguagesOf
<1>2. \A i \in 1..Len(items) : sets[i] = WordsOf[items[i]] /\ items[i] \in ToSet(items)
  BY DEF ToSet
<1>3. Words(items) = Joined(sets)
  BY DEF Words, WordsIn
<1> HIDE DEF sets
<1>4. \A i \in 1..Len(sets) : \A v \in sets[i] : MadeOf(v, set)
  BY <1>1, <1>2
<1> QED
  BY <1>1, <1>3, <1>4, MadeOfJoined

\* A text of an element is made of the characters that _consumed finds.
LEMMA MadeOfElement == \A e \in Elements : \A w \in WordsOf[e] : MadeOf(w, ConsumedOf[e])
<1> DEFINE S == {e \in Elements : \A w \in WordsOf[e] : MadeOf(w, ConsumedOf[e])}
<1> SUFFICES ASSUME NEW e \in Elements, Shallower(e) \subseteq S
             PROVE  \A w \in WordsOf[e] : MadeOf(w, ConsumedOf[e])
  BY TreeInduction
<1>1. WordsOf[e] = WordsStep(WordsOf, e)
  BY WordsEquation
<1>2. ConsumedOf[e] = ConsumedStep(ConsumedOf, e)
  BY ConsumedEquation
<1>3. CASE e.op = "char"
  <2>1. WordsOf[e] = {<<c>> : c \in Chars(e.set)}
    BY <1>1, <1>3 DEF WordsStep, Repeats
  <2>2. ConsumedOf[e] = e.set
    BY <1>2, <1>3 DEF ConsumedStep
  <2> QED
    BY <2>1, <2>2 DEF MadeOf
<1>4. CASE e.op = "at"
  <2>1. WordsOf[e] = {<<>>}
    BY <1>1, <1>4 DEF WordsStep, Repeats
  <2> QED
    BY <2>1 DEF MadeOf
<1>5. ASSUME e.op \notin {"char", "at"}, NEW s \in ToSet(e.subs)
      PROVE  \A w \in Words(s) : MadeOf(w, ConsumedOf[e])
  <2>1. s \in Seq(Elements) /\ \A x \in ToSet(s) : x \in Shallower(e)
    BY InsideElement DEF Shallower
  <2>2. \A x \in ToSet(s) : ConsumedOf[x] \subseteq ConsumedOf[e]
    BY <1>2, <1>5 DEF ConsumedStep
  <2>3. \A x \in ToSet(s) : \A w \in WordsOf[x] : MadeOf(w, ConsumedOf[e])
    BY <2>1, <2>2, MadeOfMore
  <2> QED
    BY <2>1, <2>3, MadeOfSequence
<1>6. CASE e.op \in Repeats
  <2> DEFINE L == Words(e.subs[1])
  <2>1. e.subs[1] \in ToSet(e.subs)
    BY <1>6, Body DEF Repeats
  <2>2. L \in Languages
    <3>1. e.subs[1] \in Seq(Elements)
      BY <2>1, InsideElement
    <3> QED
      BY <3>1, WordsInType, WordTypes DEF Words, Languages
  <2>3. WordsOf[e] = UNION {Joined([i \in 1..n |-> L]) : n \in Iterations(e)}
    BY <1>1, <1>6 DEF WordsStep, Repeats, Words
  <2>4. \A v \in L : MadeOf(v, ConsumedOf[e])
    BY <1>5, <1>6, <2>1 DEF Repeats
  <2> HIDE DEF L
  <2> SUFFICES ASSUME NEW w \in WordsOf[e] PROVE MadeOf(w, ConsumedOf[e])
    OBVIOUS
  <2>5. PICK n \in Iterations(e) : w \in Joined([i \in 1..n |-> L])
    BY <2>3
  <2>6. n \in Nat
    BY ElementTypes, RegexAssumption DEF Iterations
  <2> DEFINE sets == [i \in 1..n |-> L]
  <2>7. sets \in Seq(Languages) /\ Len(sets) = n
    BY <2>2, <2>6, RepeatedType
  <2>8. \A i \in 1..n : sets[i] = L
    OBVIOUS
  <2>9. w \in Joined(sets)
    BY <2>5
  <2> HIDE DEF sets
  <2> QED
    BY <2>4, <2>7, <2>8, <2>9, MadeOfJoined
<1>7. CASE e.op \in {"branch", "group", "atomic"}
  <2>1. WordsOf[e] = UNION {Words(s) : s \in ToSet(e.subs)}
    BY <1>1, <1>7 DEF WordsStep, Repeats, Words
  <2> QED
    BY <1>5, <1>7, <2>1
<1>8. e.op \in Ops
  BY ElementTypes
<1> QED
  BY <1>3, <1>4, <1>6, <1>7, <1>8 DEF Ops, Repeats

-----------------------------------------------------------------------------
(* _unwrap_group finds a sequence of elements *)

UnwrappedStep(unwrapped, e) ==
    IF e.op # "group" THEN <<e>>
    ELSE IF Len(e.subs[1]) = 1 THEN unwrapped[e.subs[1][1]] ELSE e.subs[1]

LEMMA GroupBody ==
  ASSUME NEW e \in Elements, e.op = "group"
  PROVE  /\ e.subs[1] \in Seq(Elements)
         /\ Len(e.subs[1]) = 1 =>
                e.subs[1][1] \in Elements /\ Depth[e.subs[1][1]] < Depth[e]
<1>1. e.subs[1] \in ToSet(e.subs)
  BY Body
<1>2. /\ e.subs[1] \in Seq(Elements)
      /\ \A x \in ToSet(e.subs[1]) : x \in Elements /\ Depth[x] < Depth[e]
  BY <1>1, InsideElement
<1>3. Len(e.subs[1]) = 1 => e.subs[1][1] \in ToSet(e.subs[1])
  BY <1>2 DEF ToSet
<1> QED
  BY <1>2, <1>3

Sequences == Seq(Elements)

LEMMA UnwrappedEquation == \A e \in Elements : Unwrapped[e] = UnwrappedStep(Unwrapped, e)
<1> DEFINE T == Sequences
           F == [e \in Elements |-> [g \in [Elements -> T] |-> UnwrappedStep(g, e)]]
           Equation(g) == g = [e \in Elements |-> UnwrappedStep(g, e)]
<1>1. F \in [Elements -> [[Elements -> T] -> T]]
  <2>1. ASSUME NEW e \in Elements, NEW g \in [Elements -> T] PROVE UnwrappedStep(g, e) \in T
    <3>1. CASE e.op # "group"
      BY <3>1 DEF UnwrappedStep, Sequences
    <3>2. CASE e.op = "group" /\ Len(e.subs[1]) = 1
      BY <3>2, GroupBody DEF UnwrappedStep
    <3>3. CASE e.op = "group" /\ Len(e.subs[1]) # 1
      BY <3>3, GroupBody DEF UnwrappedStep, Sequences
    <3> QED
      BY <3>1, <3>2, <3>3
  <2> QED
    BY <2>1
<1>2. GoesByRank(Elements, T, Depth, F)
  <2>1. ASSUME NEW e \in Elements, NEW g \in [Elements -> T], NEW h \in [Elements -> T],
               \A x \in Elements : Depth[x] < Depth[e] => g[x] = h[x]
        PROVE  F[e][g] = F[e][h]
    <3>1. UnwrappedStep(g, e) = UnwrappedStep(h, e)
      BY <2>1, GroupBody DEF UnwrappedStep
    <3> QED
      BY <3>1
  <2> HIDE DEF F
  <2> QED
    BY <1>1, <2>1, DepthTypes DEF GoesByRank
<1>3. PICK f \in [Elements -> T] : \A e \in Elements : f[e] = F[e][f]
  <2> HIDE DEF F
  <2>1. T # {}
    <3>1. <<>> \in Seq(Elements)
      OBVIOUS
    <3> QED
      BY <3>1 DEF Sequences
  <2> QED
    BY <1>2, <2>1, RecursionExists
<1>4. Equation(f)
  <2>1. f = [e \in Elements |-> f[e]]
    OBVIOUS
  <2>2. \A e \in Elements : f[e] = UnwrappedStep(f, e)
    BY <1>3
  <2> QED
    BY <2>1, <2>2
<1>5. Unwrapped = CHOOSE g : Equation(g)
  BY DEF Unwrapped, UnwrappedStep
<1>6. Equation(Unwrapped)
  <2> HIDE DEF Equation
  <2> QED
    BY <1>4, <1>5
<1> HIDE DEF F
<1> QED
  BY <1>6

LEMMA UnwrappedType == \A e \in Elements : Unwrapped[e] \in Seq(Elements)
<1> DEFINE S == {e \in Elements : Unwrapped[e] \in Seq(Elements)}
<1> SUFFICES ASSUME NEW e \in Elements, Shallower(e) \subseteq S
             PROVE  Unwrapped[e] \in Seq(Elements)
  BY TreeInduction
<1>1. Unwrapped[e] = UnwrappedStep(Unwrapped, e)
  BY UnwrappedEquation
<1>2. CASE e.op # "group"
  BY <1>1, <1>2 DEF UnwrappedStep
<1>3. CASE e.op = "group" /\ Len(e.subs[1]) = 1
  <2>1. e.subs[1][1] \in Shallower(e)
    BY <1>3, GroupBody DEF Shallower
  <2> QED
    BY <1>1, <1>3, <2>1 DEF UnwrappedStep
<1>4. CASE e.op = "group" /\ Len(e.subs[1]) # 1
  BY <1>1, <1>4, GroupBody DEF UnwrappedStep
<1> QED
  BY <1>2, <1>3, <1>4

LEMMA UnwrappedGroup ==
  ASSUME NEW items \in Seq(Elements)
  PROVE  UnwrapGroup(items) \in Seq(Elements)
<1>1. Len(items) = 1 => items[1] \in Elements
  OBVIOUS
<1> QED
  BY <1>1, UnwrappedType DEF UnwrapGroup

-----------------------------------------------------------------------------
(* A repeated body *)

\* The positions of the text that an element of the body may cover.
Covers(body, text) ==
    [i \in 1..Len(body) |-> {x \in 1..Len(text) : text[x] \in Chars(ConsumedOf[body[i]])}]

Singles(body) == {i \in 1..Len(body) : body[i].op = "char"}

\* A word of the body in the text is an iteration of its elements.
LEMMA IterationOfWord ==
  ASSUME NEW body \in Seq(Elements), NEW text \in Seq(Alphabet),
         NEW a \in Nat, NEW b \in Nat, a <= b, b <= Len(text),
         SubSeq(text, a + 1, b) \in Words(body)
  PROVE  \E p : Iteration(Covers(body, text), Len(body), Singles(body), p, a, b)
<1> DEFINE sets == [i \in DOMAIN body |-> WordsOf[body[i]]]
           n == Len(body)
<1>1. sets \in Seq(Languages) /\ Len(sets) = n /\ n \in Nat
  BY LanguagesOf
<1>2. \A i \in 1..n : sets[i] = WordsOf[body[i]] /\ body[i] \in Elements
  OBVIOUS
<1>3. SubSeq(text, a + 1, b) \in Joined(sets)
  BY DEF Words, WordsIn
<1> HIDE DEF sets, n
<1>4. PICK p : Parts(text, sets, 1, p, a, b)
  BY <1>1, <1>3, PartsOfJoined
<1>5. /\ \A k \in 1..(n + 1) : p[k] \in Int
      /\ p[1] = a /\ p[n + 1] = b
      /\ \A k, m \in 1..(n + 1) : k <= m => p[k] <= p[m]
      /\ \A k \in 1..n : SubSeq(text, p[k] + 1, p[k + 1]) \in sets[k]
  BY <1>1, <1>4 DEF Parts
<1>6. ASSUME NEW i \in 1..n
      PROVE  /\ p[i] \in Nat /\ p[i + 1] \in Nat /\ p[i] <= p[i + 1]
             /\ p[i + 1] <= Len(text)
  <2>1. 1 \in 1..(n + 1) /\ i \in 1..(n + 1) /\ i + 1 \in 1..(n + 1) /\ n + 1 \in 1..(n + 1)
        /\ 1 <= i /\ i <= i + 1 /\ i + 1 <= n + 1
    BY <1>1
  <2>2. p[1] <= p[i] /\ p[i] <= p[i + 1] /\ p[i + 1] <= p[n + 1]
    BY <1>5, <2>1
  <2>3. p[i] \in Int /\ p[i + 1] \in Int /\ Len(text) \in Nat
    BY <1>5, <2>1
  <2> QED
    BY <1>5, <2>2, <2>3
<1>7. ASSUME NEW i \in 1..n, NEW x \in (p[i] + 1)..p[i + 1]
      PROVE  x \in Covers(body, text)[i]
  <2> DEFINE v == SubSeq(text, p[i] + 1, p[i + 1])
  <2>1. MadeOf(v, ConsumedOf[body[i]])
    BY <1>2, <1>5, MadeOfElement
  <2>2. x - p[i] \in 1..Len(v) /\ v[x - p[i]] = text[x]
    BY <1>6, CharOfPart
  <2> HIDE DEF v
  <2>3. text[x] \in Chars(ConsumedOf[body[i]])
    BY <2>1, <2>2 DEF MadeOf
  <2>4. x \in 1..Len(text)
    BY <1>6
  <2> QED
    BY <2>3, <2>4 DEF Covers, n
<1>8. ASSUME NEW i \in Singles(body) PROVE p[i + 1] = p[i] + 1
  <2> DEFINE v == SubSeq(text, p[i] + 1, p[i + 1])
  <2>1. i \in 1..n /\ body[i].op = "char"
    BY DEF Singles, n
  <2>2. Len(v) = 1
    <3>1. v \in WordsOf[body[i]] /\ WordsOf[body[i]] = WordsStep(WordsOf, body[i])
      BY <1>2, <1>5, <2>1, WordsEquation
    <3>2. v \in {<<c>> : c \in Chars(body[i].set)}
      BY <2>1, <3>1 DEF WordsStep, Repeats
    <3> HIDE DEF v
    <3> QED
      BY <3>2
  <2>3. Len(v) = IF p[i] + 1 <= p[i + 1] THEN p[i + 1] - (p[i] + 1) + 1 ELSE 0
    <3>1. p[i] + 1 \in Int /\ p[i + 1] \in Int
          /\ \A x \in (p[i] + 1)..p[i + 1] : text[x] \in Alphabet
      BY <1>6, <2>1
    <3> QED
      BY <3>1, SubSeqProperties
  <2> HIDE DEF v
  <2> DEFINE c == p[i]
             d == p[i + 1]
  <2>4. c \in Nat /\ d \in Nat
    BY <1>6, <2>1
  <2>5. 1 = IF c + 1 <= d THEN d - (c + 1) + 1 ELSE 0
    BY <2>2, <2>3
  <2>6. d = c + 1
    <3> HIDE DEF c, d
    <3> QED
      BY <2>4, <2>5
  <2> QED
    BY <2>6
<1>9. Iteration(Covers(body, text), n, Singles(body), p, a, b)
  BY <1>5, <1>7, <1>8 DEF Iteration
<1> QED
  BY <1>9 DEF n

LEMMA IterationsOfCut ==
  ASSUME NEW body \in Seq(Elements), NEW text \in Seq(Alphabet),
         NEW ends \in Cuts(text, Words(body))
  PROVE  Iterated(ends, Covers(body, text), Len(body), Singles(body), Len(text))
<1>1. /\ ends \subseteq 0..Len(text) /\ 0 \in ends /\ Len(text) \in ends
      /\ \A i, k \in ends : i < k /\ (\A m \in ends : m <= i \/ k <= m) =>
             SubSeq(text, i + 1, k) \in Words(body)
  BY DEF Cuts
<1>2. ASSUME NEW a \in ends, NEW b \in ends, a < b, \A m \in ends : m <= a \/ b <= m
      PROVE  \E p : Iteration(Covers(body, text), Len(body), Singles(body), p, a, b)
  <2>1. a \in Nat /\ b \in Nat /\ a <= b /\ b <= Len(text)
    BY <1>1, <1>2
  <2>2. SubSeq(text, a + 1, b) \in Words(body)
    BY <1>1, <1>2
  <2> QED
    BY <2>1, <2>2, IterationOfWord
<1> QED
  BY <1>1, <1>2 DEF Iterated

\* Elements whose characters do not overlap do not cover the same position.
LEMMA ApartInText ==
  ASSUME NEW body \in Seq(Elements), OneCase(UNION {ConsumedOf[e] : e \in ToSet(body)}),
         NEW text, NEW i \in 1..Len(body),
         \A k \in 1..Len(body) \ {i} : ~Overlaps(ConsumedOf[body[i]], ConsumedOf[body[k]])
  PROVE  Exclusive(Covers(body, text), Len(body), i)
<1> SUFFICES ASSUME NEW k \in 1..Len(body), k # i,
                    NEW x \in Covers(body, text)[i], x \in Covers(body, text)[k]
             PROVE  FALSE
  BY DEF Exclusive
<1>1. text[x] \in Chars(ConsumedOf[body[i]]) /\ text[x] \in Chars(ConsumedOf[body[k]])
  BY DEF Covers
<1>2. OneCase(ConsumedOf[body[i]] \cup ConsumedOf[body[k]])
  <2>1. body[i] \in ToSet(body) /\ body[k] \in ToSet(body)
    BY DEF ToSet
  <2>2. ConsumedOf[body[i]] \cup ConsumedOf[body[k]] \subseteq
            UNION {ConsumedOf[e] : e \in ToSet(body)}
    BY <2>1
  <2> QED
    BY <2>2 DEF OneCase
<1> QED
  BY <1>1, <1>2, DisjointChars

LEMMA AtMostOne ==
  ASSUME NEW S, IsFiniteSet(S), Cardinality(S) <= 1
  PROVE  S = {} \/ \E t : S = {t}
<1>1. Cardinality(S) \in Nat
  BY FS_CardinalityType
<1>2. Cardinality(S) = 0 \/ Cardinality(S) = 1
  BY <1>1
<1> QED
  BY <1>2, FS_EmptySet, FS_Singleton

LEMMA SeparatedBody ==
  ASSUME NEW body \in Seq(Elements), Separable(body), ~RiskInRepeatedBody(body),
         OneCase(UNION {ConsumedOf[e] : e \in ToSet(body)}), NEW text
  PROVE  \E f : \/ CutFromLeft(Covers(body, text), Len(body), Singles(body), f)
               \/ CutFromRight(Covers(body, text), Len(body), Singles(body), f)
<1> DEFINE n == Len(body)
           at == Covers(body, text)
           single == Singles(body)
           repeats == {i \in 1..n : HasBacktrackingRepeat[body[i]]}
           Apart(i, k) == ~Overlaps(ConsumedOf[body[i]], ConsumedOf[body[k]])
<1>1. n \in Nat /\ DOMAIN body = 1..n
  OBVIOUS
<1>2. repeats = {} \/ \E t : repeats = {t}
  <2>1. IsFiniteSet(1..n)
    BY <1>1, FS_Interval
  <2>2. IsFiniteSet(repeats)
    BY <2>1, FS_Subset
  <2>3. Cardinality(repeats) <= 1
    BY <1>1 DEF Separable
  <2> HIDE DEF repeats
  <2> QED
    BY <2>2, <2>3, AtMostOne
<1>3. \A i \in (1..n) \ repeats :
         /\ body[i].op = "char" \/ NullableElement[body[i]]
         /\ \A k \in (1..n) \ {i} :
                ~Apart(i, k) => body[i].op = "char" /\ repeats \subseteq {k}
  BY <1>1 DEF Separable
<1>4. \A i \in 1..n : i \in single <=> body[i].op = "char"
  BY DEF Singles
<1>5. \A i \in (1..n) \ repeats : i \in single \/ Exclusive(at, n, i)
  BY <1>3, <1>4, ApartInText
<1>6. single \subseteq 1..n
  BY DEF Singles
<1>7. CASE repeats = {}
  <2>1. PICK i \in 1..n : ~NullableElement[body[i]]
    BY <1>1 DEF RiskInRepeatedBody, Nullable, AllOf, ToSet
  <2>2. i \in single
    BY <1>3, <1>4, <1>7, <2>1
  <2>3. 1 \in 1..(n + 1)
    BY <1>1
  <2> HIDE DEF n, at, single, repeats
  <2>4. CutFromLeft(at, n, single, 1)
    BY <1>1, <1>5, <1>6, <1>7, <2>2, <2>3 DEF CutFromLeft
  <2> QED
    BY <2>4 DEF n, at, single
<1>8. ASSUME NEW t, repeats = {t}
      PROVE  \E f : CutFromLeft(at, n, single, f) \/ CutFromRight(at, n, single, f)
  <2>1. t \in 1..n /\ HasBacktrackingRepeat[body[t]]
    BY <1>8
  <2>2. PICK c \in (1..n) \ {t} : ~NullableElement[body[c]] /\ Apart(c, t)
    <3>1. Separated(body, t)
      BY <1>1, <2>1 DEF RiskInRepeatedBody
    <3> QED
      BY <1>1, <3>1 DEF Separated
  <2>3. c \notin repeats
    BY <1>8, <2>2
  <2>4. c \in single
    BY <1>3, <1>4, <2>2, <2>3
  <2>5. \A k \in (1..n) \ {c} : Apart(c, k)
    <3> SUFFICES ASSUME NEW k \in (1..n) \ {c}, ~Apart(c, k) PROVE FALSE
      OBVIOUS
    <3>1. repeats \subseteq {k}
      BY <1>3, <2>2, <2>3
    <3> QED
      BY <1>8, <2>2, <3>1
  <2>6. Exclusive(at, n, c)
    BY <2>2, <2>5, ApartInText
  <2> HIDE DEF n, at, single, repeats
  <2>7. CASE t < c
    <3>1. c + 1 \in 1..(n + 1) /\ (c + 1) - 1 = c /\ \A i \in (c + 1)..n : i \in (1..n) \ {t}
      BY <1>1, <2>1, <2>2, <2>7
    <3>2. CutFromLeft(at, n, single, c + 1)
      BY <1>1, <1>5, <1>6, <1>8, <2>4, <2>6, <3>1 DEF CutFromLeft
    <3> QED
      BY <3>2
  <2>8. CASE c < t
    <3>1. c - 1 \in 0..n /\ (c - 1) + 1 = c /\ \A i \in 1..(c - 1) : i \in (1..n) \ {t}
      BY <1>1, <2>1, <2>2, <2>8
    <3>2. CutFromRight(at, n, single, c - 1)
      BY <1>1, <1>5, <1>6, <1>8, <2>4, <2>6, <3>1 DEF CutFromRight
    <3> QED
      BY <3>2
  <2> QED
    BY <1>1, <2>1, <2>2, <2>7, <2>8
<1> QED
  BY <1>2, <1>7, <1>8

\* A body that passes can be cut in one way.
LEMMA BodyIsCutOneWay ==
  ASSUME NEW body \in Seq(Elements), Separable(body), ~RiskInRepeatedBody(body),
         OneCase(UNION {ConsumedOf[e] : e \in ToSet(body)}), NEW text \in Seq(Alphabet)
  PROVE  Cardinality(Cuts(text, Words(body))) <= 1
<1> DEFINE C == Cuts(text, Words(body))
<1>1. ASSUME NEW E \in C, NEW F \in C PROVE E = F
  <2>1. /\ Iterated(E, Covers(body, text), Len(body), Singles(body), Len(text))
        /\ Iterated(F, Covers(body, text), Len(body), Singles(body), Len(text))
    BY IterationsOfCut
  <2>2. PICK f : \/ CutFromLeft(Covers(body, text), Len(body), Singles(body), f)
                 \/ CutFromRight(Covers(body, text), Len(body), Singles(body), f)
    BY SeparatedBody
  <2>3. Len(text) \in Nat
    OBVIOUS
  <2> QED
    BY <2>1, <2>2, <2>3, OneCut, OneCutFromRight
<1>2. C = {} \/ \E E : C = {E}
  <2> HIDE DEF C
  <2> SUFFICES ASSUME NEW E \in C PROVE C = {E}
    OBVIOUS
  <2> QED
    BY <1>1
<1> HIDE DEF C
<1>3. Cardinality(C) = 0 \/ Cardinality(C) = 1
  BY <1>2, FS_EmptySet, FS_Singleton
<1> QED
  BY <1>3 DEF C

LEMMA CutsOfWritten ==
  ASSUME TypeOK
  PROVE  IterationsAreCutOneWay
<1>1. UnwrapGroup(Written) \in Seq(Elements)
  BY WrittenTypes, UnwrappedGroup
<1>2. \A text \in WordsUpTo : text \in Seq(Alphabet)
  BY WordTypes
<1> QED
  BY <1>1, <1>2, BodyIsCutOneWay DEF IterationsAreCutOneWay, CutOneWay

-----------------------------------------------------------------------------
(* The theorems *)

Inv ==
    /\ TypeOK /\ Shape /\ PatternOK /\ SpecOK /\ ColumnsOK /\ RowOK
    /\ NeverAskedForNothing /\ OnlyCheckedPatternsRun
    /\ ColumnsFoundUpFrontStay /\ NoColumnIsIgnored

LEMMA Invariant == Spec => []Inv
<1>1. Init => Inv
  BY InitTypes, InitPattern, InitSpec, InitColumns, InitRow DEF Inv
<1>2. Inv /\ [Next]_vars => Inv'
  BY StepTypes, StepPattern, StepSpec, StepColumns, StepRow DEF Inv
<1> QED
  BY <1>1, <1>2, PTL DEF Spec

\* Every reachable state of Submission is well typed, however often the run starts again.
THEOREM SubmissionTypes == Spec => []TypeOK
<1>1. Inv => TypeOK
  BY DEF Inv
<1> QED
  BY <1>1, Invariant, PTL

\* "Describe what to find, or enter a regex." (serializers.py): whatever the forms are, the
\* worker never asks the LLM with neither a description nor samples.
THEOREM AskedWithSomething == Spec => []NeverAskedForNothing
<1>1. Inv => NeverAskedForNothing
  BY DEF Inv
<1> QED
  BY <1>1, Invariant, PTL

\* _resolve_pattern and build_from_spec: every pattern that reaches Spark passed
\* validate_pattern, typed, proposed or in a rule, in a first run or in a retry.
THEOREM CheckedBeforeRun == Spec => []OnlyCheckedPatternsRun
<1>1. Inv => OnlyCheckedPatternsRun
  BY DEF Inv
<1> QED
  BY <1>1, Invariant, PTL

\* validate_source against require_columns: if Spark has, of the columns asked for, those the
\* preview has, a file that was looked into at the submission and has not been replaced
\* since never makes a run fail for want of a column.
THEOREM ColumnsStay == Spec => []ColumnsFoundUpFrontStay
<1>1. Inv => ColumnsFoundUpFrontStay
  BY DEF Inv
<1> QED
  BY <1>1, Invariant, PTL

\* require_columns: a job that succeeds has looked up every column it was asked for.
THEOREM ColumnsLookedUp == Spec => []NoColumnIsIgnored
<1>1. Inv => NoColumnIsIgnored
  BY DEF Inv
<1> QED
  BY <1>1, Invariant, PTL

\* validate_replacement: what a saved replacement says is what Java's engine reads, for
\* replacements of any length and patterns with any number of groups.
THEOREM ReplacementsAreRead == Spec => []ReplacementsReadAlike
<1>1. Inv => ReplacementsReadAlike
  BY SavedReadsAlike DEF Inv
<1> QED
  BY <1>1, Invariant, PTL

\* rewrite_columns: for any rule, format list and masking, a row that does not count as
\* matched is the row of the file.
THEOREM UnmatchedStays == Spec => []UnmatchedRowIsUnchanged
<1>1. Inv => UnmatchedRowIsUnchanged
  BY DEF Inv, RowOK
<1> QED
  BY <1>1, Invariant, PTL

\* IN_TEXT_MASKS in their order: for any text and any set of kinds, no word of a masked kind
\* is left, and cards are masked as cards.
THEOREM NothingIsLeft == Spec => []MasksLeaveNothing
<1>1. Inv => MasksLeaveNothing
  BY DEF Inv, RowOK
<1> QED
  BY <1>1, Invariant, PTL

\* "no pattern that can match empty text": of whatever pattern a user writes, _nullable says
\* that it matches the empty text if and only if it does, however deep its empty parts are.
THEOREM EmptyTextIsFound == Spec => []EmptyIsFound
<1>1. TypeOK => EmptyIsFound
  BY WrittenTypes, EmptyOfWritten DEF EmptyIsFound
<1> QED
  BY <1>1, SubmissionTypes, PTL

\* _branches_overlap: of the alternatives it lets pass, no text of one begins with a text of
\* another, whatever is in them and however long the texts are, with and without (?i); with
\* it, if they begin with each letter in one case only.
THEOREM AlternativesToldApart == Spec => []AlternativesAreDisjoint
<1>1. TypeOK => AlternativesAreDisjoint
  <2> SUFFICES ASSUME TypeOK, NEW e \in ToSet(Written), e.op = "branch",
                      ~BranchesOverlap(e.subs), OneCase(FirstOf[e])
               PROVE  \A i, k \in DOMAIN e.subs : i # k =>
                          \A v \in Words(e.subs[i]), w \in Words(e.subs[k]) : ~IsPrefix(v, w)
    BY DEF AlternativesAreDisjoint
  <2>1. e \in Elements
    BY WrittenTypes DEF ToSet
  <2> QED
    BY <2>1, AlternativesDiffer
<1> QED
  BY <1>1, SubmissionTypes, PTL

\* "no repeated groups whose contents can be split ambiguously across iterations", for a
\* body of the shape the separator is meant for (Separable) and, with (?i), each letter in
\* one case only: if _risk_in_repeated_body finds nothing, every text is cut into iterations
\* in at most one way.
THEOREM IterationsCutOneWay == Spec => []IterationsAreCutOneWay
<1>1. TypeOK => IterationsAreCutOneWay
  BY CutsOfWritten
<1> QED
  BY <1>1, SubmissionTypes, PTL
=============================================================================
