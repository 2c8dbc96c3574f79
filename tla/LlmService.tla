---------------------------- MODULE LlmService ----------------------------
(***************************************************************************)
(* The LLM use cases (apps/llm/service.py) as the worker processes run      *)
(* them: look a suggestion up in the Redis cache they share, ask the model  *)
(* otherwise, interpret the suggestion with this release's validation, and  *)
(* store it.  Redis may fail or drop an entry at any moment, and a worker   *)
(* may restart with another release while others still run the old one.     *)
(***************************************************************************)
EXTENDS Integers

CONSTANTS
    Callers,      \* tasks that call the service, one at a time per worker process
    Releases,     \* releases of the code that may be deployed
    Descriptions, \* what a user asks for, as typed
    SampleSets,   \* sample values per column, as shown to the LLM
    Suggestions,  \* what the LLM may say, as far as a schema can read it
    NoEntry,      \* nothing in the cache or in hand
    Questions,    \* the questions asked: see Question
    Words,        \* normalize_description: the words of a description
    Prompt,       \* the prompt version and the model of a release
    Schema,       \* the output type of a release
    Accepts       \* the suggestions the validation of a release lets through

Question == [kind : {"regex"}, description : Descriptions]
    \cup [kind : {"normalize"}, description : Descriptions, samples : SampleSets]
    \cup [kind : {"pii"}, samples : SampleSets]

ASSUME LlmServiceAssumption ==
    /\ Questions \subseteq Question
    /\ DOMAIN Words = Descriptions
    /\ DOMAIN Prompt = Releases
    /\ DOMAIN Schema = Releases
    /\ Accepts \in [Releases -> SUBSET Suggestions]

\* What a suggestion is an answer to: everything that shapes it.  A wording that differs
\* in its spaces only asks for the same.
Meaning(r, q) ==
    [kind   |-> q.kind,
     prompt |-> Prompt[r],
     words  |-> IF q.kind = "pii" THEN {} ELSE {Words[q.description]},
     sample |-> IF q.kind = "regex" THEN {} ELSE {q.samples}]

\* Mutant: the samples are left out of the key.
KeyWithoutSamples(r, q) ==
    IF q.kind = "pii" THEN <<"pii", Prompt[r]>>
                      ELSE <<q.kind, Prompt[r], Words[q.description]>>

\* cache_key: a namespace and a hash of the parts.  No part holds the separator: it is
\* white space to normalize_description and escaped in the samples.
Key(r, q) ==
    CASE q.kind = "regex"     -> <<"regex", Prompt[r], Words[q.description]>>
      [] q.kind = "normalize" -> <<"normalize", Prompt[r], Words[q.description], q.samples>>
      [] q.kind = "pii"       -> <<"pii", Prompt[r], q.samples>>

Keys     == {Key(r, q) : r \in Releases, q \in Questions}
Meanings == {Meaning(r, q) : r \in Releases, q \in Questions}
Schemas  == {Schema[r] : r \in Releases}
Entries  == [says : Suggestions, about : Meanings, schema : Schemas]

VARIABLES
    cache,     \* the Redis cache
    pc,        \* where each caller is in _complete
    release,   \* the release its process runs
    question,  \* what it was asked
    answer,    \* the suggestion in hand
    cached,    \* did it come from the cache
    outcome    \* how the call ended

vars == <<cache, pc, release, question, answer, cached, outcome>>

TypeOK ==
    /\ cache \in [Keys -> Entries \cup {NoEntry}]
    /\ pc \in [Callers -> {"idle", "lookup", "request", "interpret", "store"}]
    /\ release \in [Callers -> Releases]
    /\ question \in [Callers -> Questions]
    /\ answer \in [Callers -> Entries \cup {NoEntry}]
    /\ cached \in [Callers -> BOOLEAN]
    /\ outcome \in [Callers -> {"none", "answered", "retryable", "permanent"}]

Init ==
    /\ cache = [k \in Keys |-> NoEntry]
    /\ pc = [c \in Callers |-> "idle"]
    /\ release \in [Callers -> Releases]
    /\ question \in [Callers -> Questions]
    /\ answer = [c \in Callers |-> NoEntry]
    /\ cached = [c \in Callers |-> FALSE]
    /\ outcome = [c \in Callers |-> "none"]

Goto(c, place) == pc' = [pc EXCEPT ![c] = place]
KeyOf(c) == Key(release[c], question[c])

\* The call ends: with the answer in hand, or with an error and no answer.
End(c, how) ==
    /\ Goto(c, "idle")
    /\ outcome' = [outcome EXCEPT ![c] = how]
    /\ answer' = [answer EXCEPT ![c] = IF how = "answered" THEN @ ELSE NoEntry]

\* generate_pattern, generate_normalization or classify_pii is called.
Call(c) ==
    /\ pc[c] = "idle"
    /\ \E q \in Questions : question' = [question EXCEPT ![c] = q]
    /\ Goto(c, "lookup")
    /\ answer' = [answer EXCEPT ![c] = NoEntry]
    /\ outcome' = [outcome EXCEPT ![c] = "none"]
    /\ UNCHANGED <<cache, release, cached>>

\* get_cached: an entry this release can read.  Without one, with one of another schema,
\* and when Redis fails, the lookup misses.
Lookup(c) ==
    /\ pc[c] = "lookup"
    /\ \/ /\ cache[KeyOf(c)] # NoEntry
          /\ cache[KeyOf(c)].schema = Schema[release[c]]
          /\ answer' = [answer EXCEPT ![c] = cache[KeyOf(c)]]
          /\ cached' = [cached EXCEPT ![c] = TRUE]
          /\ Goto(c, "interpret")
       \/ /\ cached' = [cached EXCEPT ![c] = FALSE]
          /\ Goto(c, "request")
          /\ UNCHANGED answer
    /\ UNCHANGED <<cache, release, question, outcome>>

\* OllamaLLM.complete: a suggestion that fits the schema; an outage, retryable; or no
\* usable reply (model missing, request refused, output cut off or malformed).
Request(c) ==
    /\ pc[c] = "request"
    /\ \/ /\ \E s \in Suggestions : answer' = [answer EXCEPT ![c] =
                [says |-> s, about |-> Meaning(release[c], question[c]),
                 schema |-> Schema[release[c]]]]
          /\ Goto(c, "interpret")
          /\ UNCHANGED outcome
       \/ \E how \in {"retryable", "permanent"} : End(c, how)
    /\ UNCHANGED <<cache, release, question, cached>>

\* Mutant: a cached suggestion is trusted.
TrustCache(c) ==
    /\ pc[c] = "interpret"
    /\ \/ cached[c] /\ End(c, "answered")
       \/ /\ ~cached[c] /\ answer[c].says \in Accepts[release[c]]
          /\ Goto(c, "store")
          /\ UNCHANGED <<answer, outcome>>
    /\ UNCHANGED <<cache, release, question, cached>>

\* Mutant: a new suggestion is stored before it is validated.
StoreFirst(c) ==
    /\ pc[c] = "interpret"
    /\ \/ cached[c] /\ answer[c].says \notin Accepts[release[c]] /\ End(c, "permanent")
       \/ cached[c] /\ answer[c].says \in Accepts[release[c]] /\ End(c, "answered")
       \/ ~cached[c] /\ Goto(c, "store") /\ UNCHANGED <<answer, outcome>>
    /\ UNCHANGED <<cache, release, question, cached>>

\* interpret: infeasible, unsafe or invalid suggestions end the call with an error, new
\* and cached ones alike; a cached one is not stored again.
Interpret(c) ==
    /\ pc[c] = "interpret"
    /\ \/ answer[c].says \notin Accepts[release[c]] /\ End(c, "permanent")
       \/ answer[c].says \in Accepts[release[c]] /\ cached[c] /\ End(c, "answered")
       \/ /\ answer[c].says \in Accepts[release[c]] /\ ~cached[c]
          /\ Goto(c, "store")
          /\ UNCHANGED <<answer, outcome>>
    /\ UNCHANGED <<cache, release, question, cached>>

\* store: whatever Redis says, the caller has its answer.
Store(c) ==
    /\ pc[c] = "store"
    /\ cache' \in {cache, [cache EXCEPT ![KeyOf(c)] = answer[c]]}
    /\ End(c, "answered")
    /\ UNCHANGED <<release, question, cached>>

\* The time to live of an entry is over, or Redis evicts it.
Expire(k) ==
    /\ cache[k] # NoEntry
    /\ cache' = [cache EXCEPT ![k] = NoEntry]
    /\ UNCHANGED <<pc, release, question, answer, cached, outcome>>

\* A time limit ends the call, or its process dies or is replaced, wherever it was.
Restart(c) ==
    /\ \E r \in Releases : release' = [release EXCEPT ![c] = r]
    /\ Goto(c, "idle")
    /\ answer' = [answer EXCEPT ![c] = NoEntry]
    /\ cached' = [cached EXCEPT ![c] = FALSE]
    /\ outcome' = [outcome EXCEPT ![c] = "none"]
    /\ UNCHANGED <<cache, question>>

CallStep(c) == Lookup(c) \/ Request(c) \/ Interpret(c) \/ Store(c)

Next ==
    \/ \E c \in Callers : Call(c) \/ CallStep(c) \/ Restart(c)
    \/ \E k \in Keys : Expire(k)

Spec == Init /\ [][Next]_vars

-----------------------------------------------------------------------------
\* "A key over every input that shapes the answer" (cache_key): no caller is given a
\* suggestion for another question, other samples, another prompt or another model.
AnswerFitsQuestion ==
    \A c \in Callers : outcome[c] = "answered" =>
        answer[c].about = Meaning(release[c], question[c])

\* "Cached suggestions are validated again on read, so tightening the validation also applies
\* to existing entries": no caller is given a suggestion that its own release refuses,
\* though another release stored it.
AnswerPassesOwnRules ==
    \A c \in Callers : outcome[c] = "answered" => answer[c].says \in Accepts[release[c]]

\* "caches it only if valid": a refused suggestion never becomes an entry, so that the next
\* identical question asks the model again.
CacheHoldsAcceptedOnly ==
    \A k \in Keys : cache[k] # NoEntry =>
        \E r \in Releases : Schema[r] = cache[k].schema /\ cache[k].says \in Accepts[r]
=============================================================================
