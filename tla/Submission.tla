---------------------------- MODULE Submission ----------------------------
(***************************************************************************)
(* A job from the form to the rewritten row: the request is validated      *)
(* (serializers.py), its file is checked with the preview and the row is   *)
(* created (services.py), and the task resolves the pattern, loads the     *)
(* connection and the file again, builds the transformation and applies it *)
(* (tasks.py, transform_builders.py, pipeline.py).  Between two of these   *)
(* steps the file may be replaced and the connection may expire, and a     *)
(* transient failure starts the run again.  One job and one worker:        *)
(* delivery, crashes and cancellation are the subject of JobSystem.        *)
(***************************************************************************)
EXTENDS FiniteSets, Transforms

CONSTANTS
    Patterns,    \* the patterns that users type and the model proposes
    Verdict(_),  \* what the checks say of a pattern that compiles: see RegexSafety
    Forms,       \* what the client may send
    Files,       \* what the file may hold: see FileStates
    Lower(_),    \* the name of a column in lower case
    RegexRules,  \* what a pattern and its replacement do to a value
    Normalizations, Maskings,  \* the specifications the LLM may propose
    Row,         \* the rows of the file, for each transformation
    NoFile, NoPattern, NoSpec, NoRow, \* nothing there
    MaxChanges,  \* bound on how often the file is replaced
    MaxAttempts  \* 1 + MAX_TRANSIENT_RETRIES

TransformTypes == {"regex_replace", "normalize_format", "mask_pii"}

\* What is known of a pattern: "none" if there is none, "malformed" if it does not compile.
PatternKinds == {"none", "malformed", "nullable", "risky", "fine"}

\* header: the names of the columns as Spark's reader takes them from the file; preview: can
\* the API read them cheaply; columns: what its reader makes of them then.  The two parse a
\* file each in its own way: quotes around a line break, empty names, a broken line.
FileStates == [header : Seq(STRING), preview : BOOLEAN, columns : Seq(STRING)]

ASSUME SubmissionAssumption ==
    /\ \A f \in Forms :
        /\ f.transform_type \in TransformTypes
        /\ {f.supported, f.nl_prompt, f.replacement_value} \subseteq BOOLEAN
        /\ f.pattern \in {"none", "malformed", "typed"}
    /\ \A p \in Patterns : Verdict(p) \in PatternKinds \ {"none", "malformed"}
    /\ Files \subseteq FileStates
    /\ \A rule \in RegexRules : Null \notin DOMAIN rule
    /\ \A spec \in Normalizations :
        /\ spec.kind \in {"rules", "date"}
        /\ spec.rules \in Seq({spec.rules[i] : i \in DOMAIN spec.rules})
        /\ \A i \in DOMAIN spec.rules : Null \notin DOMAIN spec.rules[i]
        /\ spec.patterns \subseteq PatternKinds \ {"none"}
        /\ spec.replacement \in Seq(STRING)
        /\ spec.groups \in Nat
    /\ \A spec \in Maskings : \A c \in DOMAIN spec : spec[c] \subseteq PiiTypes
    /\ MaxChanges \in Nat
    /\ MaxAttempts \in Nat \ {0}

VARIABLES
    pattern,   \* the pattern in the form, while it is being written
    typed,     \* what the checks say of it, once it is
    file, connected, changes,  \* the file, the connection, how often the file was replaced
    form,      \* the validated request
    checked,   \* did submit_job see the header of the file
    place,     \* where the job is
    attempt,   \* the run in progress
    saved,     \* what the row keeps: the pattern and the specification
    columns,   \* the columns of the file as this run loaded them
    found,     \* history: the columns that some run has looked up in the file
    applied,   \* history: the patterns handed to Spark
    asked,     \* history: what the LLM was asked with: a description, samples or nothing
    output,    \* a rewritten row
    error      \* the code of the failure or the refusal

formVars == <<pattern, typed, form>>
fileVars == <<file, connected, changes>>
runVars  == <<attempt, saved, columns>>
history  == <<found, applied, asked>>
vars == <<formVars, fileVars, checked, place, runVars, history, output, error>>

Empty  == [pattern |-> "none", spec |-> NoSpec]
Unsent == [transform_type |-> "mask_pii", nl_prompt |-> FALSE, target_columns |-> {}]

Init ==
    /\ pattern \in Patterns
    /\ typed = "none"
    /\ file = NoFile
    /\ connected = TRUE
    /\ changes = 0
    /\ form = Unsent
    /\ checked = FALSE
    /\ place = "writing"
    /\ attempt = 0
    /\ saved = Empty
    /\ columns = {}
    /\ found = {} /\ applied = {} /\ asked = {}
    /\ output = NoRow
    /\ error = "none"

Running == {"queued", "resolve", "load", "build", "write"}

TypeOK ==
    /\ pattern \in Patterns \cup {NoPattern}
    /\ typed \in PatternKinds
    /\ file \in Files \cup {NoFile}
    /\ connected \in BOOLEAN
    /\ changes \in 0..MaxChanges
    /\ form.transform_type \in TransformTypes
    /\ checked \in BOOLEAN
    /\ place \in {"writing", "form", "refused", "done"} \cup Running
    /\ attempt \in 0..MaxAttempts
    /\ saved.pattern \in PatternKinds
    /\ applied \subseteq PatternKinds

Names(header) == {header[i] : i \in DOMAIN header}

\* Spark renames the columns whose name is not the only one of its kind, be it that the
\* others differ in case (spark.sql.caseSensitive is not set).
SparkColumns(header) ==
    {name \in Names(header) :
        Cardinality({i \in DOMAIN header : Lower(header[i]) = Lower(name)}) = 1}

-----------------------------------------------------------------------------
(* The API process *)

\* The user has written a pattern; by then the file is in the bucket, or it is not.
Write ==
    /\ place = "writing"
    /\ file' \in Files \cup {NoFile}
    /\ typed' = Verdict(pattern)
    /\ pattern' = NoPattern
    /\ place' = "form"
    /\ UNCHANGED <<form, connected, changes, checked, runVars, history, output, error>>

\* Mutant: the fields of a find and replace are not checked against each other.
FieldsAnyHow(f) ==
    CASE f.transform_type = "regex_replace"    -> TRUE
      [] f.transform_type = "normalize_format" ->
             f.pattern = "none" /\ ~f.replacement_value /\ f.nl_prompt
      [] f.transform_type = "mask_pii"         ->
             ~f.nl_prompt /\ f.pattern = "none" /\ ~f.replacement_value

\* JobCreateSerializer.validate
FieldsFit(f) ==
    CASE f.transform_type = "regex_replace"    -> f.nl_prompt # (f.pattern # "none")
      [] f.transform_type = "normalize_format" ->
             f.pattern = "none" /\ ~f.replacement_value /\ f.nl_prompt
      [] f.transform_type = "mask_pii"         ->
             ~f.nl_prompt /\ f.pattern = "none" /\ ~f.replacement_value

\* The serializer: a supported file name, at least one column, a pattern that compiles
\* (check_syntax; nothing more is checked of it here) and fields that fit.
Valid(f) ==
    /\ f.supported
    /\ f.target_columns # <<>>
    /\ f.pattern # "malformed"
    /\ FieldsFit(f)

\* Mutant: a file that can be previewed is not looked into.
SourceUnread(f) == IF file = NoFile THEN "VALIDATION_ERROR" ELSE "none"

\* validate_source: the code of the refusal, if any.  A file the preview cannot read is
\* left to the run.
SourceError(f) ==
    IF \/ file = NoFile
       \/ file.preview /\ Missing(Names(file.columns), Names(f.target_columns)) # {}
      THEN "VALIDATION_ERROR" ELSE "none"

\* submit_job for a valid request: the connection, the file, then the row.
Refusal(f) ==
    IF ~Valid(f) THEN "VALIDATION_ERROR"
    ELSE IF ~connected THEN "S3_CONNECTION_EXPIRED"
    ELSE SourceError(f)

\* JobCreateView.post.  The row keeps the columns without duplicates and the pattern.
Submit(f) ==
    /\ place = "form"
    /\ error' = Refusal(f)
    /\ IF error' = "none"
         THEN /\ form' = [transform_type |-> f.transform_type, nl_prompt |-> f.nl_prompt,
                          target_columns |-> Names(f.target_columns)]
              /\ checked' = file.preview
              /\ saved' = [Empty EXCEPT !.pattern = IF f.pattern = "none" THEN "none" ELSE typed]
              /\ place' = "queued"
         ELSE place' = "refused" /\ UNCHANGED <<form, checked, saved>>
    /\ UNCHANGED <<pattern, typed, fileVars, attempt, columns, history, output>>

-----------------------------------------------------------------------------
(* The environment *)

\* Somebody uploads another file under the key, or deletes it.
ReplaceFile ==
    /\ place \in Running
    /\ changes < MaxChanges
    /\ changes' = changes + 1
    /\ file' \in (Files \cup {NoFile}) \ {file}
    /\ UNCHANGED <<formVars, connected, checked, place, runVars, history, output, error>>

\* The entry of the connection reaches its lifetime, or is evicted.
ConnectionExpires ==
    /\ place \in Running \cup {"form"}
    /\ connected
    /\ connected' = FALSE
    /\ UNCHANGED <<formVars, file, changes, checked, place, runVars, history, output, error>>

-----------------------------------------------------------------------------
(* The run *)

\* run_job: a row that may run; find and replace resolves its pattern first.
Begin ==
    /\ place = "queued"
    /\ attempt' = attempt + 1
    /\ columns' = {}
    /\ place' = IF form.transform_type = "regex_replace" THEN "resolve" ELSE "load"
    /\ UNCHANGED <<formVars, fileVars, checked, saved, history, output, error>>

\* _handle_failure: the code is recorded ...
Fail(code) == place' = "done" /\ error' = code

\* ... or, for a transient failure, the run starts again as often as the bound allows.
FailOrRetry(code) ==
    IF attempt < MaxAttempts THEN place' = "queued" /\ UNCHANGED error ELSE Fail(code)

\* Mutant: a stored pattern is used as it is.
ResolveStored ==
    /\ place = "resolve"
    /\ saved.pattern # "none"
    /\ place' = "load"
    /\ UNCHANGED <<formVars, fileVars, checked, runVars, history, output, error>>

\* _resolve_pattern with a pattern in the row: validate_pattern.  The timed probes may
\* refuse a pattern that the other checks let through.
UseStoredPattern ==
    /\ place = "resolve"
    /\ saved.pattern # "none"
    /\ \/ saved.pattern = "fine" /\ place' = "load" /\ UNCHANGED error
       \/ Fail("INVALID_PATTERN")
    /\ UNCHANGED <<formVars, fileVars, checked, runVars, history, output>>

\* _resolve_pattern without one: the LLM is asked with the description, and what it
\* proposes is validated before it is saved.
AskForPattern ==
    /\ place = "resolve"
    /\ saved.pattern = "none"
    /\ IF form.nl_prompt
         THEN /\ asked' = asked \cup {"description"}
              /\ \/ /\ saved' = [saved EXCEPT !.pattern = "fine"]
                    /\ place' = "load" /\ UNCHANGED error
                 \/ /\ UNCHANGED saved
                    /\ \/ Fail("INVALID_PATTERN") \/ Fail("PATTERN_NOT_EXPRESSIBLE")
                       \/ Fail("LLM_INVALID_RESPONSE") \/ FailOrRetry("LLM_UNAVAILABLE")
         ELSE Fail("INVALID_PATTERN") /\ asked' = asked \cup {"nothing"} /\ UNCHANGED saved
    /\ UNCHANGED <<formVars, fileVars, checked, attempt, columns, found, applied, output>>

\* _run_spark and load_source: the connection, then the header of the file as it is now.
Load ==
    /\ place = "load"
    /\ \/ ~connected /\ Fail("S3_CONNECTION_EXPIRED") /\ UNCHANGED columns
       \/ /\ connected
          /\ \/ file # NoFile /\ columns' = SparkColumns(file.header)
                /\ place' = "build" /\ UNCHANGED error
             \/ UNCHANGED columns
                /\ (Fail("SOURCE_READ_ERROR") \/ FailOrRetry("STORAGE_UNAVAILABLE"))
    /\ UNCHANGED <<formVars, fileVars, checked, attempt, saved, history, output>>

\* require_columns: every requested column is among those of the file.
RequireColumns(requested) ==
    /\ Missing(columns, requested) = {}
    /\ found' = found \cup requested

LacksColumns(requested) ==
    /\ Missing(columns, requested) # {}
    /\ Fail("COLUMN_NOT_FOUND")
    /\ UNCHANGED found

\* regex_replace: the columns, then the JVM compiles the pattern.
BuildReplace ==
    /\ place = "build" /\ form.transform_type = "regex_replace"
    /\ \/ LacksColumns(form.target_columns) /\ UNCHANGED applied
       \/ /\ RequireColumns(form.target_columns)
          /\ applied' = applied \cup {saved.pattern}
          /\ (place' = "write" /\ UNCHANGED error) \/ Fail("INVALID_PATTERN")
    /\ UNCHANGED <<formVars, fileVars, checked, runVars, asked, output>>

Proposals == IF form.transform_type = "mask_pii" THEN Maskings ELSE Normalizations

\* A normalization is validated before it is saved, a masking has nothing to validate.
Acceptable(spec) == form.transform_type = "mask_pii" \/ ValidSpec(spec)

\* The specification of a masking names columns of the request only.
Usable(spec) ==
    IF form.transform_type = "mask_pii"
      THEN [c \in DOMAIN spec \cap form.target_columns |-> spec[c]] ELSE spec

\* Mutant: the samples are taken from the columns that are there.
SampleAvailable ==
    /\ place = "build" /\ form.transform_type # "regex_replace"
    /\ saved.spec = NoSpec
    /\ found' = found \cup (form.target_columns \cap columns)
    /\ asked' = asked \cup {"samples"}
    /\ \E spec \in Proposals : saved' = [saved EXCEPT !.spec = Usable(spec)]
    /\ UNCHANGED <<formVars, fileVars, checked, attempt, columns, applied, output, place, error>>

\* _generate_spec: sample the columns, ask the LLM, save the validated specification.  The
\* sample is the first look at the data: an unreadable file or an outage may show here.
GenerateSpec ==
    /\ place = "build" /\ form.transform_type # "regex_replace"
    /\ saved.spec = NoSpec
    /\ \/ LacksColumns(form.target_columns) /\ UNCHANGED <<saved, asked>>
       \/ /\ RequireColumns(form.target_columns)
          /\ UNCHANGED <<saved, asked>>
          /\ Fail("SOURCE_READ_ERROR") \/ FailOrRetry("STORAGE_UNAVAILABLE")
       \/ /\ RequireColumns(form.target_columns)
          /\ asked' = asked \cup {IF form.transform_type = "mask_pii" THEN "samples"
                                  ELSE IF form.nl_prompt THEN "description" ELSE "nothing"}
          /\ \/ /\ \E spec \in {proposed \in Proposals : Acceptable(proposed)} :
                       saved' = [saved EXCEPT !.spec = Usable(spec)]
                /\ UNCHANGED <<place, error>>
             \/ /\ UNCHANGED saved
                /\ \/ Fail("INVALID_SPEC") \/ Fail("INVALID_PATTERN")
                   \/ Fail("NORMALIZATION_NOT_POSSIBLE") \/ Fail("LLM_INVALID_RESPONSE")
                   \/ FailOrRetry("LLM_UNAVAILABLE")
    /\ UNCHANGED <<formVars, fileVars, checked, attempt, columns, applied, output>>

\* The columns a specification rewrites.
Targets ==
    IF form.transform_type = "mask_pii" THEN DOMAIN saved.spec ELSE form.target_columns

\* The patterns in a specification.
PatternsIn(spec) == IF form.transform_type = "mask_pii" THEN {} ELSE spec.patterns

\* normalize_format and mask_pii with the specification in hand, new or saved by an earlier
\* run and validated again: the columns, then the JVM compiles the rules or the formats.
BuildFromSpec ==
    /\ place = "build" /\ form.transform_type # "regex_replace"
    /\ saved.spec # NoSpec
    /\ \/ LacksColumns(Targets) /\ UNCHANGED applied
       \/ /\ form.transform_type = "normalize_format"
          /\ Fail("INVALID_SPEC") \/ Fail("INVALID_PATTERN")
          /\ UNCHANGED <<found, applied>>
       \/ /\ RequireColumns(Targets)
          /\ applied' = applied \cup PatternsIn(saved.spec)
          /\ \/ place' = "write" /\ UNCHANGED error
             \/ form.transform_type = "normalize_format"
                /\ (Fail("INVALID_SPEC") \/ Fail("INVALID_PATTERN"))
    /\ UNCHANGED <<formVars, fileVars, checked, runVars, asked, output>>

\* The builder's plan, on one row.
Transformed(row) ==
    CASE form.transform_type = "regex_replace"    ->
           {RegexReplace(row, form.target_columns, rule) : rule \in RegexRules}
      [] form.transform_type = "normalize_format" ->
           {NormalizeFormat(row, form.target_columns, saved.spec)}
      [] form.transform_type = "mask_pii"         -> {MaskPii(row, saved.spec)}

\* write_parquet and collect_stats.  A file that has a column of the name of the appended
\* one cannot be written; an outage of the storage is transient, any other error is not.
WriteOutput ==
    /\ place = "write"
    /\ \/ /\ MATCHED_COLUMN \notin columns
          /\ \E row \in Row[form.transform_type] :
                 output' \in Transformed([c \in columns |-> row[c]])
          /\ place' = "done" /\ UNCHANGED error
       \/ Fail("INTERNAL_ERROR") /\ UNCHANGED output
       \/ FailOrRetry("STORAGE_UNAVAILABLE") /\ UNCHANGED output
    /\ UNCHANGED <<formVars, fileVars, checked, runVars, history>>

-----------------------------------------------------------------------------
RunStep ==
    \/ Begin \/ UseStoredPattern \/ AskForPattern \/ Load
    \/ BuildReplace \/ GenerateSpec \/ BuildFromSpec \/ WriteOutput

Next ==
    \/ Write \/ ReplaceFile \/ ConnectionExpires \/ RunStep
    \/ \E f \in Forms : Submit(f)

Spec == Init /\ [][Next]_vars

-----------------------------------------------------------------------------
(* Properties of the job *)

\* Whatever the client sends, an accepted job has what its builder needs: the LLM is never
\* asked without a description, and nobody finds out in the worker that there is nothing
\* to do.
NeverAskedForNothing == "nothing" \notin asked

\* Java's engine only ever gets patterns that passed every check, be they typed, proposed,
\* kept in the row or part of a normalization, and whichever run of the job applies them;
\* the request is accepted with less.
OnlyCheckedPatternsRun == applied \subseteq {"fine"}

\* "Reject missing files and unknown columns up front": after a preview of a file that is
\* still there, no run ends for want of a column, if the columns that the preview shows of
\* those asked for are columns to Spark, too.
ColumnsFoundUpFrontStay ==
    /\ checked /\ changes = 0
    /\ form.target_columns \cap Names(file.columns) \subseteq SparkColumns(file.header)
    => error # "COLUMN_NOT_FOUND"

\* "Allow literal text plus `$n` references to groups that exist" (validate_replacement): the
\* replacements of a specification that was saved say to Java's engine what they say, however
\* many groups the pattern has and whatever stands behind a reference.
ReplacementsReadAlike ==
    form.transform_type = "normalize_format" /\ saved.spec # NoSpec =>
        (saved.spec.kind = "rules" =>
            JavaReading(saved.spec.replacement, saved.spec.groups)
                = PlainReading(saved.spec.replacement))

\* A job that succeeds has looked up every requested column in the file, though a masking
\* only rewrites some, and though a later run starts from the saved specification.
NoColumnIsIgnored ==
    place = "done" /\ error = "none" => form.target_columns \subseteq found

\* "so the data is unchanged" (JobStatus.tsx): a row that does not count as matched is the
\* row of the source, for every transformation, with nulls and with several columns.
UnmatchedRowIsUnchanged ==
    output # NoRow /\ ~output.matched => output.after = output.before

\* "card numbers first, so their digits are not taken for a phone" and "masked wherever
\* they appear": no word of a kind the column was classified with is left, and a card is
\* masked as a card.  Columns that hold names are masked by initials alone.
MasksLeaveNothing ==
    output # NoRow /\ form.transform_type = "mask_pii" =>
        \A c \in DOMAIN saved.spec \cap DOMAIN output.before :
            LET text  == output.before[c]
                types == saved.spec[c]
            IN  text # Null /\ types \cap (WholeValueTypes \cup {"person_name"}) = {} =>
                    \A i \in DOMAIN text, t \in types :
                        /\ output.after[c][i] \notin Finds[t]
                        /\ t = "credit_card" /\ text[i] = "card" =>
                               output.after[c][i] = Masked[t]
=============================================================================
