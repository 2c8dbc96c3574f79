------------------------- MODULE LlmServiceProofs -------------------------
(* What holds of LlmService for any callers, releases, questions and suggestions. *)
EXTENDS LlmService, TLAPS

\* The entry is what some release stored under this key: an answer to what the key
\* stands for, that it accepted.
Sound(k) ==
    cache[k] # NoEntry =>
        /\ \A r \in Releases, q \in Questions : Key(r, q) = k => cache[k].about = Meaning(r, q)
        /\ \E r \in Releases : Schema[r] = cache[k].schema /\ cache[k].says \in Accepts[r]

\* What a caller holds at each place of _complete.
Holds(c) ==
    /\ pc[c] \in {"interpret", "store"} \/ outcome[c] = "answered" =>
         answer[c].about = Meaning(release[c], question[c])
    /\ pc[c] = "interpret" /\ ~cached[c] => answer[c].schema = Schema[release[c]]
    /\ pc[c] = "store" => answer[c].schema = Schema[release[c]]
    /\ pc[c] = "store" \/ outcome[c] = "answered" => answer[c].says \in Accepts[release[c]]
    /\ outcome[c] = "answered" => pc[c] = "idle"

CallerTypeOK ==
    /\ DOMAIN cache = Keys
    /\ pc \in [Callers -> {"idle", "lookup", "request", "interpret", "store"}]
    /\ release \in [Callers -> Releases]
    /\ question \in [Callers -> Questions]
    /\ DOMAIN answer = Callers
    /\ cached \in [Callers -> BOOLEAN]
    /\ DOMAIN outcome = Callers

ServiceInv ==
    /\ CallerTypeOK
    /\ \A c \in Callers : Holds(c)
    /\ \A k \in Keys : Sound(k)

\* Questions with one key ask for the same: nothing that shapes an answer is missing in it.
LEMMA KeyMeaning ==
  ASSUME NEW r \in Releases, NEW q \in Questions, NEW r2 \in Releases, NEW q2 \in Questions,
         Key(r, q) = Key(r2, q2)
  PROVE  Meaning(r, q) = Meaning(r2, q2)
<1> DEFINE D(x) == Words[x.description]
<1>1. q \in Question /\ q2 \in Question
  BY LlmServiceAssumption
<1>2. q.kind \in {"regex", "normalize", "pii"} /\ q2.kind \in {"regex", "normalize", "pii"}
  BY <1>1 DEF Question
<1>3. Key(r, q)[1] = q.kind /\ Key(r2, q2)[1] = q2.kind
  BY <1>2 DEF Key
<1>4. q.kind = q2.kind
  BY <1>3
<1>5. CASE q.kind = "regex"
  <2>1. <<"regex", Prompt[r], D(q)>> = <<"regex", Prompt[r2], D(q2)>>
    BY <1>4, <1>5 DEF Key
  <2>2. Prompt[r] = Prompt[r2] /\ D(q) = D(q2)
    BY <2>1
  <2> QED
    BY <1>4, <1>5, <2>2 DEF Meaning
<1>6. CASE q.kind = "normalize"
  <2>1. <<"normalize", Prompt[r], D(q), q.samples>> = <<"normalize", Prompt[r2], D(q2), q2.samples>>
    BY <1>4, <1>6 DEF Key
  <2>2. Prompt[r] = Prompt[r2] /\ D(q) = D(q2) /\ q.samples = q2.samples
    BY <2>1
  <2> QED
    BY <1>4, <1>6, <2>2 DEF Meaning
<1>7. CASE q.kind = "pii"
  <2>1. <<"pii", Prompt[r], q.samples>> = <<"pii", Prompt[r2], q2.samples>>
    BY <1>4, <1>7 DEF Key
  <2>2. Prompt[r] = Prompt[r2] /\ q.samples = q2.samples
    BY <2>1
  <2> QED
    BY <1>4, <1>7, <2>2 DEF Meaning
<1> QED
  BY <1>2, <1>5, <1>6, <1>7

LEMMA InitService == Init => ServiceInv
<1> SUFFICES ASSUME Init PROVE ServiceInv
  OBVIOUS
<1>1. CallerTypeOK
  BY DEF Init, CallerTypeOK
<1>2. ASSUME NEW c \in Callers PROVE Holds(c)
  <2>1. pc[c] = "idle" /\ outcome[c] = "none"
    BY DEF Init
  <2> QED
    BY <2>1 DEF Holds
<1>3. ASSUME NEW k \in Keys PROVE Sound(k)
  <2>1. cache[k] = NoEntry
    BY DEF Init
  <2> QED
    BY <2>1 DEF Sound
<1> QED
  BY <1>1, <1>2, <1>3 DEF ServiceInv

\* A caller that a step leaves alone still holds what its place needs.
LEMMA OthersHold ==
  ASSUME NEW c \in Callers, Holds(c),
         UNCHANGED <<pc[c], release[c], question[c], answer[c], cached[c], outcome[c]>>
  PROVE  Holds(c)'
  BY DEF Holds

\* So does an entry.
LEMMA EntriesHold ==
  ASSUME NEW k \in Keys, Sound(k), UNCHANGED cache
  PROVE  Sound(k)'
  BY DEF Sound

LEMMA KeyInKeys ==
  ASSUME CallerTypeOK, NEW c \in Callers
  PROVE  KeyOf(c) \in Keys
  BY DEF CallerTypeOK, KeyOf, Keys

\* A step of caller c keeps the types of all and what the other callers hold.
LEMMA OneCaller ==
  ASSUME ServiceInv, NEW c \in Callers, Call(c) \/ CallStep(c) \/ Restart(c)
  PROVE  /\ CallerTypeOK'
         /\ \A d \in Callers : d # c => Holds(d)'
<1>0. CallerTypeOK
  BY DEF ServiceInv
<1>1. CASE Call(c)
  <2>1. CallerTypeOK'
    BY <1>0, <1>1 DEF CallerTypeOK, Call, Goto
  <2>2. ASSUME NEW d \in Callers, d # c PROVE Holds(d)'
    <3>1. UNCHANGED <<pc[d], release[d], question[d], answer[d], cached[d], outcome[d]>>
      BY <1>0, <1>1, <2>2 DEF CallerTypeOK, Call, Goto
    <3> QED
      BY <3>1, OthersHold DEF ServiceInv
  <2> QED
    BY <2>1, <2>2
<1>2. CASE Lookup(c)
  <2>1. CallerTypeOK'
    BY <1>0, <1>2 DEF CallerTypeOK, Lookup, Goto
  <2>2. ASSUME NEW d \in Callers, d # c PROVE Holds(d)'
    <3>1. UNCHANGED <<pc[d], release[d], question[d], answer[d], cached[d], outcome[d]>>
      BY <1>0, <1>2, <2>2 DEF CallerTypeOK, Lookup, Goto
    <3> QED
      BY <3>1, OthersHold DEF ServiceInv
  <2> QED
    BY <2>1, <2>2
<1>3. CASE Request(c)
  <2>1. CallerTypeOK'
    BY <1>0, <1>3 DEF CallerTypeOK, Request, Goto, End
  <2>2. ASSUME NEW d \in Callers, d # c PROVE Holds(d)'
    <3>1. UNCHANGED <<pc[d], release[d], question[d], answer[d], cached[d], outcome[d]>>
      BY <1>0, <1>3, <2>2 DEF CallerTypeOK, Request, Goto, End
    <3> QED
      BY <3>1, OthersHold DEF ServiceInv
  <2> QED
    BY <2>1, <2>2
<1>4. CASE Interpret(c)
  <2>1. CallerTypeOK'
    BY <1>0, <1>4 DEF CallerTypeOK, Interpret, Goto, End
  <2>2. ASSUME NEW d \in Callers, d # c PROVE Holds(d)'
    <3>1. UNCHANGED <<pc[d], release[d], question[d], answer[d], cached[d], outcome[d]>>
      BY <1>0, <1>4, <2>2 DEF CallerTypeOK, Interpret, Goto, End
    <3> QED
      BY <3>1, OthersHold DEF ServiceInv
  <2> QED
    BY <2>1, <2>2
<1>5. CASE Store(c)
  <2>1. CallerTypeOK'
    BY <1>0, <1>5 DEF CallerTypeOK, Store, Goto, End
  <2>2. ASSUME NEW d \in Callers, d # c PROVE Holds(d)'
    <3>1. UNCHANGED <<pc[d], release[d], question[d], answer[d], cached[d], outcome[d]>>
      BY <1>0, <1>5, <2>2 DEF CallerTypeOK, Store, Goto, End
    <3> QED
      BY <3>1, OthersHold DEF ServiceInv
  <2> QED
    BY <2>1, <2>2
<1>6. CASE Restart(c)
  <2>1. CallerTypeOK'
    BY <1>0, <1>6 DEF CallerTypeOK, Restart, Goto
  <2>2. ASSUME NEW d \in Callers, d # c PROVE Holds(d)'
    <3>1. UNCHANGED <<pc[d], release[d], question[d], answer[d], cached[d], outcome[d]>>
      BY <1>0, <1>6, <2>2 DEF CallerTypeOK, Restart, Goto
    <3> QED
      BY <3>1, OthersHold DEF ServiceInv
  <2> QED
    BY <2>1, <2>2
<1> QED
  BY <1>1, <1>2, <1>3, <1>4, <1>5, <1>6 DEF CallStep

\* The cache after a step of caller c: the entry it stores is its own answer.
LEMMA CallerEntries ==
  ASSUME ServiceInv, NEW c \in Callers, Call(c) \/ CallStep(c) \/ Restart(c), NEW k \in Keys
  PROVE  Sound(k)'
<1>0. CallerTypeOK /\ Holds(c) /\ Sound(k) /\ KeyOf(c) \in Keys
  BY KeyInKeys DEF ServiceInv
<1>1. CASE UNCHANGED cache
  BY <1>0, <1>1, EntriesHold
<1>2. CASE Store(c) /\ cache' = [cache EXCEPT ![KeyOf(c)] = answer[c]]
  <2>1. CASE k # KeyOf(c)
    BY <1>0, <1>2, <2>1 DEF Sound, CallerTypeOK
  <2>2. CASE k = KeyOf(c)
    <3>1. cache'[k] = answer[c]
      BY <1>0, <1>2, <2>2 DEF CallerTypeOK
    <3>2. /\ answer[c].about = Meaning(release[c], question[c])
          /\ Schema[release[c]] = answer[c].schema
          /\ answer[c].says \in Accepts[release[c]]
      BY <1>0, <1>2 DEF Store, Holds
    <3>3. release[c] \in Releases /\ question[c] \in Questions
      BY <1>0 DEF CallerTypeOK
    <3>4. ASSUME NEW r \in Releases, NEW q \in Questions, Key(r, q) = k
          PROVE  answer[c].about = Meaning(r, q)
      <4>1. Key(r, q) = Key(release[c], question[c])
        BY <2>2, <3>4 DEF KeyOf
      <4> QED
        BY <3>2, <3>3, <4>1, KeyMeaning
    <3> QED
      BY <3>1, <3>2, <3>3, <3>4 DEF Sound
  <2> QED
    BY <2>1, <2>2
<1>3. CASE Call(c) \/ Restart(c)
  BY <1>1, <1>3 DEF Call, Restart
<1>4. CASE Lookup(c) \/ Request(c) \/ Interpret(c)
  <2>1. UNCHANGED cache
    BY <1>4 DEF Lookup, Request, Interpret
  <2> QED
    BY <1>1, <2>1
<1>5. CASE Store(c)
  <2>1. cache' = cache \/ cache' = [cache EXCEPT ![KeyOf(c)] = answer[c]]
    BY <1>5 DEF Store
  <2> QED
    BY <1>1, <1>2, <1>5, <2>1
<1> QED
  BY <1>3, <1>4, <1>5 DEF CallStep

\* What caller c itself holds after its step.
LEMMA CallerHolds ==
  ASSUME ServiceInv, NEW c \in Callers, Call(c) \/ CallStep(c) \/ Restart(c)
  PROVE  Holds(c)'
<1>0. CallerTypeOK /\ Holds(c) /\ KeyOf(c) \in Keys
  BY KeyInKeys DEF ServiceInv
<1>1. CASE Call(c)
  <2>1. pc'[c] = "lookup" /\ outcome'[c] = "none"
    BY <1>0, <1>1 DEF Call, Goto, CallerTypeOK
  <2> QED
    BY <2>1 DEF Holds
<1>2. CASE Restart(c)
  <2>1. pc'[c] = "idle" /\ outcome'[c] = "none"
    BY <1>0, <1>2 DEF Restart, Goto, CallerTypeOK
  <2> QED
    BY <2>1 DEF Holds
<1>3. CASE Lookup(c)
  <2>1. outcome'[c] # "answered" /\ UNCHANGED <<release, question>>
    BY <1>0, <1>3 DEF Lookup, Holds
  <2>2. CASE pc'[c] = "request"
    BY <2>1, <2>2 DEF Holds
  <2>3. CASE /\ cache[KeyOf(c)] # NoEntry
             /\ answer' = [answer EXCEPT ![c] = cache[KeyOf(c)]]
             /\ cached' = [cached EXCEPT ![c] = TRUE]
             /\ Goto(c, "interpret")
    <3>1. pc'[c] = "interpret" /\ cached'[c] /\ answer'[c] = cache[KeyOf(c)]
      BY <1>0, <2>3 DEF Goto, CallerTypeOK
    <3>2. Sound(KeyOf(c)) /\ release[c] \in Releases /\ question[c] \in Questions
      BY <1>0 DEF ServiceInv, CallerTypeOK
    <3>3. cache[KeyOf(c)].about = Meaning(release[c], question[c])
      BY <2>3, <3>2 DEF Sound, KeyOf
    <3> QED
      BY <2>1, <3>1, <3>3 DEF Holds, Meaning
  <2> QED
    BY <1>0, <1>3, <2>2, <2>3 DEF Lookup, Goto, CallerTypeOK
<1>4. CASE Request(c)
  <2>1. CASE Goto(c, "interpret") /\ UNCHANGED outcome
    <3>1. outcome'[c] # "answered" /\ pc'[c] = "interpret"
      BY <1>0, <1>4, <2>1 DEF Request, Holds, Goto, CallerTypeOK
    <3>2. UNCHANGED <<release, question>>
      BY <1>4 DEF Request
    <3>3. pc'[c] # "idle"
      BY <3>1
    <3>4. \E s \in Suggestions : answer' = [answer EXCEPT ![c] =
              [says |-> s, about |-> Meaning(release[c], question[c]),
               schema |-> Schema[release[c]]]]
      BY <1>0, <1>4, <3>3 DEF Request, End, Goto, CallerTypeOK
    <3>5. /\ answer'[c].about = Meaning(release[c], question[c])
          /\ answer'[c].schema = Schema[release[c]]
      BY <1>0, <3>4 DEF CallerTypeOK
    <3> QED
      BY <3>1, <3>2, <3>5 DEF Holds, Meaning
  <2>2. CASE \E how \in {"retryable", "permanent"} : End(c, how)
    <3>1. pc'[c] = "idle" /\ outcome'[c] # "answered"
      BY <1>0, <2>2 DEF End, Goto, CallerTypeOK
    <3> QED
      BY <3>1 DEF Holds
  <2> QED
    BY <1>4, <2>1, <2>2 DEF Request
<1>5. CASE Interpret(c)
  <2>1. UNCHANGED <<release, question, cached>> /\ pc[c] = "interpret" /\ outcome[c] # "answered"
    BY <1>0, <1>5 DEF Interpret, Holds
  <2>2. CASE End(c, "permanent")
    <3>1. pc'[c] = "idle" /\ outcome'[c] # "answered"
      BY <1>0, <2>2 DEF End, Goto, CallerTypeOK
    <3> QED
      BY <3>1 DEF Holds
  <2>3. CASE answer[c].says \in Accepts[release[c]] /\ End(c, "answered")
    <3>1. pc'[c] = "idle" /\ answer'[c] = answer[c]
      BY <1>0, <2>3 DEF End, Goto, CallerTypeOK
    <3> QED
      BY <1>0, <2>1, <2>3, <3>1 DEF Holds, Meaning
  <2>4. CASE answer[c].says \in Accepts[release[c]] /\ ~cached[c] /\ Goto(c, "store")
             /\ UNCHANGED <<answer, outcome>>
    <3>1. pc'[c] = "store"
      BY <1>0, <2>4 DEF Goto, CallerTypeOK
    <3> QED
      BY <1>0, <2>1, <2>4, <3>1 DEF Holds, Meaning
  <2> QED
    BY <1>5, <2>2, <2>3, <2>4 DEF Interpret
<1>6. CASE Store(c)
  <2>1. pc[c] = "store" /\ UNCHANGED <<release, question>>
    BY <1>6 DEF Store
  <2>2. pc'[c] = "idle" /\ answer'[c] = answer[c]
    BY <1>0, <1>6 DEF Store, End, Goto, CallerTypeOK
  <2> QED
    BY <1>0, <2>1, <2>2 DEF Holds, Meaning
<1> QED
  BY <1>1, <1>2, <1>3, <1>4, <1>5, <1>6 DEF CallStep

LEMMA ServiceSteps ==
  ASSUME ServiceInv, [Next]_vars
  PROVE  ServiceInv'
<1>1. ASSUME NEW c \in Callers, Call(c) \/ CallStep(c) \/ Restart(c) PROVE ServiceInv'
  BY <1>1, OneCaller, CallerHolds, CallerEntries DEF ServiceInv
<1>2. ASSUME NEW k \in Keys, Expire(k) PROVE ServiceInv'
  <2>1. CallerTypeOK' /\ \A c \in Callers : Holds(c)'
    BY <1>2, OthersHold DEF ServiceInv, CallerTypeOK, Expire
  <2>2. ASSUME NEW i \in Keys PROVE Sound(i)'
    BY <1>2 DEF ServiceInv, CallerTypeOK, Expire, Sound
  <2> QED
    BY <2>1, <2>2 DEF ServiceInv
<1>3. CASE UNCHANGED vars
  BY <1>3, OthersHold, EntriesHold DEF ServiceInv, CallerTypeOK, vars
<1> QED
  BY <1>1, <1>2, <1>3 DEF Next

LEMMA ServiceInvariant == Spec => []ServiceInv
  BY InitService, ServiceSteps, PTL DEF Spec

-----------------------------------------------------------------------------
(* Types *)

\* What the model is asked and says makes an entry of the right types.
LEMMA EntryTypes ==
  ASSUME TypeOK, NEW c \in Callers
  PROVE  /\ KeyOf(c) \in Keys
         /\ \A s \in Suggestions :
              [says |-> s, about |-> Meaning(release[c], question[c]),
               schema |-> Schema[release[c]]] \in Entries
<1>1. release[c] \in Releases /\ question[c] \in Questions
  BY DEF TypeOK
<1>2. KeyOf(c) \in Keys
  BY <1>1 DEF KeyOf, Keys
<1>3. Meaning(release[c], question[c]) \in Meanings
  BY <1>1 DEF Meanings
<1>4. Schema[release[c]] \in Schemas
  BY <1>1 DEF Schemas
<1> QED
  BY <1>2, <1>3, <1>4 DEF Entries

LEMMA TypeSteps ==
  ASSUME TypeOK, [Next]_vars
  PROVE  TypeOK'
<1> USE DEF TypeOK
<1>1. ASSUME NEW c \in Callers, NEW how \in {"answered", "retryable", "permanent"}, End(c, how)
      PROVE  /\ pc' \in [Callers -> {"idle", "lookup", "request", "interpret", "store"}]
             /\ answer' \in [Callers -> Entries \cup {NoEntry}]
             /\ outcome' \in [Callers -> {"none", "answered", "retryable", "permanent"}]
  BY <1>1 DEF End, Goto
<1>2. ASSUME NEW c \in Callers, Call(c) PROVE TypeOK'
  BY <1>2 DEF Call, Goto
<1>3. ASSUME NEW c \in Callers, Lookup(c) PROVE TypeOK'
  <2>1. cache[KeyOf(c)] \in Entries \cup {NoEntry}
    BY EntryTypes
  <2> QED
    BY <1>3, <2>1 DEF Lookup, Goto
<1>4. ASSUME NEW c \in Callers, Request(c) PROVE TypeOK'
  <2>1. CASE \E how \in {"retryable", "permanent"} : End(c, how)
    BY <1>1, <1>4, <2>1 DEF Request
  <2>2. CASE /\ \E s \in Suggestions : answer' = [answer EXCEPT ![c] =
                   [says |-> s, about |-> Meaning(release[c], question[c]),
                    schema |-> Schema[release[c]]]]
             /\ Goto(c, "interpret")
             /\ UNCHANGED outcome
    <3>1. answer' \in [Callers -> Entries \cup {NoEntry}]
      BY <2>2, EntryTypes
    <3> QED
      BY <1>4, <2>2, <3>1 DEF Request, Goto
  <2> QED
    BY <1>4, <2>1, <2>2 DEF Request
<1>5. ASSUME NEW c \in Callers, Interpret(c) PROVE TypeOK'
  <2>1. CASE Goto(c, "store") /\ UNCHANGED <<answer, outcome>>
    BY <1>5, <2>1 DEF Interpret, Goto
  <2>2. CASE End(c, "permanent") \/ End(c, "answered")
    BY <1>1, <1>5, <2>2 DEF Interpret
  <2> QED
    BY <1>5, <2>1, <2>2 DEF Interpret
<1>6. ASSUME NEW c \in Callers, Store(c) PROVE TypeOK'
  <2>1. End(c, "answered") /\ UNCHANGED <<release, question, cached>>
    BY <1>6 DEF Store
  <2>2. cache' \in [Keys -> Entries \cup {NoEntry}]
    BY <1>6, EntryTypes DEF Store
  <2> QED
    BY <1>1, <2>1, <2>2
<1>7. ASSUME NEW c \in Callers, Restart(c) PROVE TypeOK'
  BY <1>7 DEF Restart, Goto
<1>8. ASSUME NEW k \in Keys, Expire(k) PROVE TypeOK'
  BY <1>8 DEF Expire
<1>9. CASE UNCHANGED vars
  BY <1>9 DEF vars
<1> QED
  BY <1>2, <1>3, <1>4, <1>5, <1>6, <1>7, <1>8, <1>9 DEF Next, CallStep

-----------------------------------------------------------------------------
(* The theorems *)

\* The cache, and what every caller has in hand, have their types, whichever release wrote
\* an entry and whichever reads it.
THEOREM ServiceTypes == Spec => []TypeOK
<1>1. Init => TypeOK
  BY DEF Init, TypeOK
<1> QED
  BY <1>1, TypeSteps, PTL DEF Spec

\* No caller is given the answer to another question, however calls overlap, whoever stored
\* the entry and whatever release it ran.
THEOREM AnswersFit == Spec => []AnswerFitsQuestion
<1>1. ServiceInv => AnswerFitsQuestion
  BY DEF ServiceInv, Holds, AnswerFitsQuestion
<1> QED
  BY <1>1, ServiceInvariant, PTL

\* No caller is given a suggestion that the validation of its own release refuses.
THEOREM AnswersPass == Spec => []AnswerPassesOwnRules
<1>1. ServiceInv => AnswerPassesOwnRules
  BY DEF ServiceInv, Holds, AnswerPassesOwnRules
<1> QED
  BY <1>1, ServiceInvariant, PTL

\* No refused suggestion gets into the cache.
THEOREM OnlyAcceptedCached == Spec => []CacheHoldsAcceptedOnly
<1>1. ServiceInv => CacheHoldsAcceptedOnly
  BY DEF ServiceInv, Sound, CacheHoldsAcceptedOnly
<1> QED
  BY <1>1, ServiceInvariant, PTL
=============================================================================
