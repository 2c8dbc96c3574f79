-------------------------- MODULE WebClientProofs --------------------------
(* What holds of WebClient for any jobs, any row ids and any page sizes. *)
EXTENDS WebClient, FiniteSetTheorems, TLAPS

-----------------------------------------------------------------------------
(* Result pages: positions of rows *)

LEMMA Rows ==
  /\ IsFiniteSet(RowIds)
  /\ TotalRows \in Nat
  /\ \A i \in RowIds : i \in Nat /\ IsFiniteSet(Before(i)) /\ Cardinality(Before(i)) \in Nat
  /\ \A i \in RowIds : Position(i) \in 1..TotalRows
<1>1. IsFiniteSet(RowIds) /\ RowIds \subseteq Nat
  BY ResultPagesAssumption
<1>2. TotalRows \in Nat
  BY <1>1, FS_CardinalityType DEF TotalRows
<1>3. ASSUME NEW i \in RowIds
      PROVE  /\ IsFiniteSet(Before(i)) /\ Cardinality(Before(i)) \in Nat
             /\ Position(i) \in 1..TotalRows
  <2>1. Before(i) \in SUBSET RowIds /\ i \notin Before(i)
    BY <1>1 DEF Before
  <2>2. IsFiniteSet(Before(i)) /\ Cardinality(Before(i)) \in Nat
    BY <1>1, <2>1, FS_Subset, FS_CardinalityType
  <2>3. Cardinality(Before(i)) <= TotalRows /\ Cardinality(Before(i)) # TotalRows
    BY <1>1, <2>1, FS_Subset DEF TotalRows
  <2> QED
    BY <1>2, <2>2, <2>3 DEF Position
<1> QED
  BY <1>1, <1>2, <1>3

\* Rows are numbered in the order of their ids.
LEMMA PositionGrows ==
  ASSUME NEW i \in RowIds, NEW k \in RowIds
  PROVE  i < k <=> Position(i) < Position(k)
<1>1. ASSUME NEW a \in RowIds, NEW b \in RowIds, a < b
      PROVE  Position(a) < Position(b)
  <2>1. a \in Nat /\ b \in Nat /\ \A j \in RowIds : j \in Nat
    BY Rows
  <2>2. \A j \in RowIds : j < a => j < b
    BY <1>1, <2>1
  <2>3. Before(a) \subseteq Before(b)
    BY <2>2 DEF Before
  <2>4. a \in Before(b) /\ a \notin Before(a)
    BY <1>1, <2>1 DEF Before
  <2>5. Cardinality(Before(a)) <= Cardinality(Before(b))
        /\ Cardinality(Before(a)) # Cardinality(Before(b))
    BY <2>3, <2>4, Rows, FS_Subset
  <2> QED
    BY <2>5, Rows DEF Position
<1>2. i \in Nat /\ k \in Nat /\ Position(i) \in Nat /\ Position(k) \in Nat
  BY Rows
<1> QED
  BY <1>1, <1>2

\* Every number has its row.
LEMMA EveryPosition ==
  \A p \in 1..TotalRows : \E i \in RowIds : Position(i) = p
<1> DEFINE f == [i \in RowIds |-> Position(i)]
<1>1. f \in Injection(RowIds, 1..TotalRows)
  <2>1. f \in [RowIds -> 1..TotalRows]
    BY Rows
  <2>2. ASSUME NEW a \in RowIds, NEW b \in RowIds, f[a] = f[b] PROVE a = b
    BY <2>2, PositionGrows, Rows
  <2> QED
    BY <2>1, <2>2 DEF Injection, IsInjective
<1>2. IsFiniteSet(1..TotalRows) /\ Cardinality(1..TotalRows) = TotalRows
  BY Rows, FS_Interval
<1>3. Cardinality(RowIds) = TotalRows
  BY DEF TotalRows
<1>4. f \in Surjection(RowIds, 1..TotalRows)
  BY <1>1, <1>2, <1>3, FS_Injection
<1> QED
  BY <1>4 DEF Surjection

UpToPosition(n) == {i \in RowIds : Position(i) <= n}

LEMMA FirstRows ==
  ASSUME NEW n \in 0..TotalRows
  PROVE  IsFiniteSet(UpToPosition(n)) /\ Cardinality(UpToPosition(n)) = n
<1> DEFINE S == UpToPosition(n)
           f == [i \in S |-> Position(i)]
<1>1. S \in SUBSET RowIds /\ IsFiniteSet(S)
  BY Rows, FS_Subset DEF UpToPosition
<1>2. f \in Bijection(S, 1..n)
  <2>1. f \in [S -> 1..n]
    BY Rows DEF UpToPosition
  <2>2. \A a, b \in S : f[a] = f[b] => a = b
    BY PositionGrows, Rows DEF UpToPosition
  <2>3. \A p \in 1..n : \E i \in S : f[i] = p
    BY EveryPosition, Rows DEF UpToPosition
  <2> QED
    BY <2>1, <2>2, <2>3 DEF Bijection, Injection, IsInjective, Surjection
<1>3. ExistsBijection(S, 1..n)
  BY <1>2 DEF ExistsBijection
<1>4. Cardinality(1..n) = n
  BY Rows, FS_Interval
<1> QED
  BY <1>1, <1>3, <1>4, FS_Bijection

-----------------------------------------------------------------------------
(* Result pages: the two queries *)

\* An offset and the range of row numbers of a page.
LEMMA PageRange ==
  ASSUME NEW page \in Nat \ {0}, NEW size \in Nat \ {0}
  PROVE  /\ Offset(page, size) \in Nat
         /\ \A n \in Nat \ {0} :
              n > Offset(page, size) /\ n <= Offset(page, size) + size
                <=> (n - 1) \div size = page - 1
<1>1. Offset(page, size) = (page - 1) * size
  BY DEF Offset
<1>2. (page - 1) * size \in Nat
  OBVIOUS
<1>3. ASSUME NEW n \in Nat \ {0}
      PROVE  (page - 1) * size < n /\ n <= (page - 1) * size + size
               <=> (n - 1) \div size = page - 1
  <2> DEFINE a == n - 1
             q == (n - 1) \div size
             r == (n - 1) % size
  <2>1. a \in Nat /\ q \in Nat /\ r \in 0..(size - 1) /\ a = size * q + r
    OBVIOUS
  <2> HIDE DEF q, r
  <2> DEFINE p == page - 1
  <2>2. p \in Nat
    OBVIOUS
  <2> HIDE DEF p
  <2>3. ASSUME q = p PROVE p * size <= a /\ a < p * size + size
    BY <2>1, <2>2, <2>3
  <2>4. ASSUME p * size <= a, a < p * size + size PROVE q = p
    <3>1. CASE q < p
      <4>1. (q + 1) * size <= p * size
        BY <2>1, <2>2, <3>1
      <4> QED
        BY <4>1, <2>1, <2>2, <2>4
    <3>2. CASE p < q
      <4>1. (p + 1) * size <= q * size
        BY <2>1, <2>2, <3>2
      <4> QED
        BY <4>1, <2>1, <2>2, <2>4
    <3> QED
      BY <3>1, <3>2, <2>1, <2>2
  <2>5. (p * size < n <=> p * size <= a) /\ (n <= p * size + size <=> a < p * size + size)
    BY <2>2
  <2> QED
    BY <2>3, <2>4, <2>5 DEF p, q
<1> QED
  BY <1>1, <1>2, <1>3

\* The ends of a page found by the first query.
LEMMA SliceEnds ==
  ASSUME NEW page \in Nat \ {0}, NEW size \in Nat \ {0}, Slice(page, size) # {}
  PROVE  LET low  == Least(Slice(page, size))
             high == Greatest(Slice(page, size))
         IN  /\ low \in Slice(page, size) /\ high \in Slice(page, size)
             /\ \A i \in Slice(page, size) : low <= i /\ i <= high
             /\ Position(low) = Offset(page, size) + 1
<1> DEFINE S   == Slice(page, size)
           off == Offset(page, size)
           last == IF off + size <= TotalRows THEN off + size ELSE TotalRows
<1>1. off \in Nat /\ TotalRows \in Nat
  BY PageRange, Rows
<1> HIDE DEF off
<1>2. \A i \in RowIds : i \in S <=> Position(i) > off /\ Position(i) <= off + size
  BY DEF Slice, off
<1>3. S \subseteq RowIds
  BY DEF Slice
<1> HIDE DEF S
<1>4. PICK s \in S : TRUE
  BY DEF S
<1>5. off + 1 \in 1..TotalRows /\ last \in 1..TotalRows /\ last > off
  BY <1>1, <1>2, <1>3, <1>4, Rows
<1>6. PICK low \in RowIds : Position(low) = off + 1
  BY <1>5, EveryPosition
<1>7. PICK high \in RowIds : Position(high) = last
  BY <1>5, EveryPosition
<1>8. low \in S /\ high \in S
  BY <1>1, <1>2, <1>5, <1>6, <1>7
<1>9. \A i \in S : Position(low) <= Position(i) /\ Position(i) <= Position(high)
  BY <1>1, <1>2, <1>3, <1>6, <1>7, Rows
<1>10. \A i \in S : low <= i /\ i <= high
  <2> SUFFICES ASSUME NEW i \in S PROVE low <= i /\ i <= high
    OBVIOUS
  <2>1. ~(i < low) /\ ~(high < i)
    BY <1>3, <1>9, PositionGrows, Rows
  <2> QED
    BY <2>1, <1>3, Rows
<1>11. Least(S) = low /\ Greatest(S) = high
  <2>1. \A i \in S : i \in Nat
    BY <1>3, Rows
  <2>2. \A i \in S : (\A j \in S : i <= j) => i = low
    BY <1>8, <1>10, <2>1
  <2>3. \A i \in S : (\A j \in S : j <= i) => i = high
    BY <1>8, <1>10, <2>1
  <2> QED
    BY <1>8, <1>10, <2>2, <2>3 DEF Least, Greatest
<1> QED
  BY <1>6, <1>8, <1>10, <1>11 DEF S, off

\* The second query finds the rows of the first, whatever gaps the ids have.
LEMMA RecordsAreSlice ==
  ASSUME NEW page \in Nat \ {0}, NEW size \in Nat \ {0}
  PROVE  Records(page, size) = Slice(page, size)
<1>1. CASE Slice(page, size) = {}
  BY <1>1 DEF Records
<1>2. CASE Slice(page, size) # {}
  <2> DEFINE S    == Slice(page, size)
             low  == Least(S)
             high == Greatest(S)
  <2>1. low \in S /\ high \in S /\ \A i \in S : low <= i /\ i <= high
    BY <1>2, SliceEnds
  <2>2. Offset(page, size) \in Nat
    BY PageRange
  <2>3. ASSUME NEW i \in RowIds, low <= i, i <= high PROVE i \in S
    <3>1. low \in RowIds /\ high \in RowIds
      BY <2>1 DEF Slice
    <3>2. ~(Position(i) < Position(low)) /\ ~(Position(high) < Position(i))
      BY <2>3, <3>1, PositionGrows, Rows
    <3>3. Position(low) > Offset(page, size) /\ Position(high) <= Offset(page, size) + size
      BY <2>1 DEF Slice
    <3> QED
      BY <2>2, <3>1, <3>2, <3>3, Rows DEF Slice
  <2>4. S \subseteq RowIds
    BY DEF Slice
  <2>5. Records(page, size) = {i \in RowIds : low <= i /\ i <= high}
    BY <1>2 DEF Records
  <2> HIDE DEF S, low, high
  <2>6. {i \in RowIds : low <= i /\ i <= high} = S
    BY <2>1, <2>3, <2>4
  <2> QED
    BY <2>5, <2>6 DEF S
<1> QED
  BY <1>1, <1>2

\* A row of a page is shown under its position in the whole output.
LEMMA RowNumbers ==
  ASSUME NEW page \in Nat \ {0}, NEW size \in Nat \ {0}, NEW i \in Slice(page, size)
  PROVE  Offset(page, size) + Cardinality({j \in Slice(page, size) : j <= i}) = Position(i)
<1> DEFINE off == Offset(page, size)
<1>1. off \in Nat /\ TotalRows \in Nat
  BY PageRange, Rows
<1> HIDE DEF off
<1>2. i \in RowIds /\ Position(i) > off /\ Position(i) <= off + size
  BY DEF Slice, off
<1>3. off \in 0..TotalRows /\ Position(i) \in 0..TotalRows
  BY <1>1, <1>2, Rows
<1>4. \A j \in RowIds : j <= i <=> Position(j) <= Position(i)
  BY <1>2, PositionGrows, Rows
<1>5. {j \in Slice(page, size) : j <= i} = UpToPosition(Position(i)) \ UpToPosition(off)
  <2>1. \A j : j \in Slice(page, size) /\ j <= i
           <=> j \in RowIds /\ Position(j) <= Position(i) /\ ~(Position(j) <= off)
    BY <1>1, <1>2, <1>4, Rows DEF Slice, off
  <2> QED
    BY <2>1 DEF UpToPosition
<1>6. UpToPosition(Position(i)) \cap UpToPosition(off) = UpToPosition(off)
  BY <1>1, <1>2, Rows DEF UpToPosition
<1>7. Cardinality({j \in Slice(page, size) : j <= i}) = Position(i) - off
  <2> DEFINE A == UpToPosition(Position(i))
             B == UpToPosition(off)
  <2>1. IsFiniteSet(A) /\ Cardinality(A) = Position(i) /\ Cardinality(B) = off
    BY <1>3, FirstRows
  <2>2. A \cap B = B
    BY <1>6
  <2>3. {j \in Slice(page, size) : j <= i} = A \ B
    BY <1>5
  <2> HIDE DEF A, B
  <2>4. Cardinality(A \ B) = Cardinality(A) - Cardinality(A \cap B)
    BY <2>1, FS_Difference
  <2> QED
    BY <2>1, <2>2, <2>3, <2>4
<1> QED
  BY <1>1, <1>2, <1>7, Rows DEF off

\* A page of results: every row of it, and no other, under its own number.
LEMMA PageShowsItsRows ==
  ASSUME NEW page \in Nat \ {0}, NEW requested \in Int
  PROVE  LET results == ReadPage(page, requested)
         IN  results.rows = {[number |-> Position(i), id |-> i] :
               i \in {r \in RowIds : (Position(r) - 1) \div results.size = results.page - 1}}
<1> DEFINE size == Size(requested)
<1>1. size \in Nat \ {0}
  BY ResultPagesAssumption DEF Size
<1> HIDE DEF size
<1>2. Slice(page, size) = {r \in RowIds : (Position(r) - 1) \div size = page - 1}
  <2>1. \A r \in RowIds : Position(r) \in Nat \ {0}
    BY Rows
  <2>2. \A r \in RowIds : Position(r) > Offset(page, size) /\ Position(r) <= Offset(page, size) + size
                            <=> (Position(r) - 1) \div size = page - 1
    BY <1>1, <2>1, PageRange
  <2> QED
    BY <2>2 DEF Slice
<1>3. {[number |-> Offset(page, size) + Cardinality({j \in Records(page, size) : j <= i}), id |-> i] :
         i \in Records(page, size)}
      = {[number |-> Position(i), id |-> i] : i \in Slice(page, size)}
  <2>1. Records(page, size) = Slice(page, size)
    BY <1>1, RecordsAreSlice
  <2>2. \A i \in Slice(page, size) :
          Offset(page, size) + Cardinality({j \in Slice(page, size) : j <= i}) = Position(i)
    BY <1>1, RowNumbers
  <2> QED
    BY <2>1, <2>2
<1>4. LET results == ReadPage(page, requested)
      IN  /\ results.size = size /\ results.page = page
          /\ results.rows = {[number |-> Offset(page, size)
                                + Cardinality({j \in Records(page, size) : j <= i}), id |-> i] :
                             i \in Records(page, size)}
  BY DEF ReadPage, size
<1> QED
  BY <1>2, <1>3, <1>4

\* There is a first page, and no more pages than rows.
LEMMA PagesBound ==
  ASSUME NEW requested \in Int
  PROVE  /\ TotalPages(Size(requested)) \in Nat
         /\ 1 <= TotalPages(Size(requested))
         /\ TotalPages(Size(requested)) <= TotalRows + 1
<1> DEFINE size == Size(requested)
           n == TotalRows
           q == (n + size - 1) \div size
           r == (n + size - 1) % size
<1>1. size \in Nat \ {0} /\ n \in Nat
  BY ResultPagesAssumption, Rows DEF Size
<1>2. TotalPages(size) = IF n = 0 THEN 1 ELSE q
  BY DEF TotalPages
<1> HIDE DEF size, n
<1>3. q \in Nat /\ r \in 0..(size - 1) /\ n + size - 1 = size * q + r
  BY <1>1
<1> HIDE DEF q, r
<1>4. ASSUME n # 0 PROVE q >= 1 /\ q <= n + 1
  <2>1. q # 0
    BY <1>1, <1>3, <1>4
  <2>2. ASSUME q > n + 1 PROVE FALSE
    <3>1. size * q >= size * (n + 1)
      BY <1>1, <1>3, <2>2
    <3>2. size * (n + 1) = size * n + size /\ size * n >= n
      BY <1>1
    <3> QED
      BY <1>1, <1>3, <3>1, <3>2
  <2> QED
    BY <1>1, <1>3, <2>1, <2>2
<1> QED
  BY <1>1, <1>2, <1>3, <1>4 DEF size, n

\* Where the row numbers of two pages lie.
LEMMA PagesApart ==
  ASSUME NEW size \in Nat \ {0}, NEW n \in Nat \ {0}, NEW m \in Nat \ {0}
  PROVE  /\ (n - 1) \div size \in Nat
         /\ (n - 1) \div size < (m - 1) \div size => n < m
<1> DEFINE a == n - 1
           b == m - 1
           q == a \div size
           r == a % size
           u == b \div size
           v == b % size
<1>1. /\ a \in Nat /\ q \in Nat /\ r \in 0..(size - 1) /\ a = size * q + r
      /\ b \in Nat /\ u \in Nat /\ v \in 0..(size - 1) /\ b = size * u + v
  OBVIOUS
<1>2. a < b => n < m
  OBVIOUS
<1>3. q \in Nat /\ (q < u => a < b)
  <2> HIDE DEF a, b, q, r, u, v
  <2> SUFFICES ASSUME q < u PROVE a < b
    BY <1>1
  <2>1. size * (q + 1) <= size * u
    BY <1>1
  <2> QED
    BY <1>1, <2>1
<1> QED
  BY <1>2, <1>3

\* The page of a row number is one of the pages there are.
LEMMA PageOfNumber ==
  ASSUME NEW size \in Nat \ {0}, NEW n \in 1..TotalRows
  PROVE  (n - 1) \div size + 1 \in 1..TotalPages(size)
<1> DEFINE t == TotalRows
           a == n - 1
           b == t + size - 1
           q == a \div size
           r == a % size
           u == b \div size
           v == b % size
<1>1. t \in Nat /\ n \in 1..t /\ t # 0
  BY Rows
<1>2. TotalPages(size) = u
  BY <1>1 DEF TotalPages
<1> HIDE DEF t
<1>3. /\ a \in Nat /\ q \in Nat /\ r \in 0..(size - 1) /\ a = size * q + r
      /\ b \in Nat /\ u \in Nat /\ v \in 0..(size - 1) /\ b = size * u + v
  BY <1>1
<1>4. a + size <= b
  BY <1>1
<1>5. q + 1 \in 1..u
  <2> HIDE DEF a, b, q, r, u, v
  <2> SUFFICES ASSUME u < q + 1 PROVE FALSE
    BY <1>3
  <2>1. size * (u + 1) <= size * (q + 1)
    BY <1>3
  <2>2. size * (u + 1) = size * u + size /\ size * (q + 1) = size * q + size
    BY <1>3
  <2> QED
    BY <1>3, <1>4, <2>1, <2>2
<1> QED
  BY <1>2, <1>5

-----------------------------------------------------------------------------
(* The inductive invariants *)

States == {"NONE", "QUEUED", "RUNNING"} \cup Finished

\* Types, and what is asked of the server or shown is a job that exists: without that the
\* answer to a poll would not be a view.
TypeInv ==
    /\ state \in [Jobs -> States] /\ wanted \in [Jobs -> BOOLEAN]
    /\ ClientTypeOK
    /\ \A j \in Jobs :
        /\ data[j] # NoData \/ creating[j] = "answered" => state[j] # "NONE"
        /\ fetches[j] # {} => data[j] # NoData
    /\ shown # NoJob => data[shown] # NoData
    /\ cancel.of = NoJob => cancel.reply = NoData
    /\ cancel.of # NoJob => shown # NoJob /\ state[cancel.of] # "NONE"

\* A table that is not fetching shows the page it is at, or nothing; and it is at a page there is.
TableInv ==
    /\ table.fetching \/ table.at \in table.loaded \/ table.last = NoData
    /\ table.at[1] <= TotalPages(Size(table.at[2]))

\* A view says what has been true of its job.
Behind(view) ==
    /\ view.wanted => wanted[view.job]
    /\ Rank(view.state) <= Rank(state[view.job])
    /\ view.state \in Finished => view.state = state[view.job]
    /\ state[view.job] # "NONE"

\* ... wherever the view is: on its way, or in the panel.
AnswersInv ==
    /\ \A j \in Jobs :
        /\ data[j] # NoData => Behind(data[j])
        /\ \A view \in fetches[j] \cap View : view.job = j /\ Behind(view)
    /\ cancel.reply \in View =>
        /\ cancel.reply.job = cancel.of /\ cancel.reply.wanted
        /\ Behind(cancel.reply)

\* While no other job comes into the panel during a cancel: every view is in its place, there is
\* one fetch of a job at most, and what it brings is not older than what is there, as long as
\* nobody has cancelled the job.
OrderInv ==
    /\ cancel.of # NoJob => shown = cancel.of
    /\ \A j \in Jobs :
        /\ data[j] # NoData => data[j].job = j
        /\ state[j] = "NONE" \/ creating[j] # "no" => data[j] = NoData
        /\ \A f, g \in fetches[j] : f = g
        /\ ~wanted[j] => \A view \in fetches[j] \cap View :
                             Rank(data[j].state) <= Rank(view.state)

-----------------------------------------------------------------------------
(* The jobs under the client *)

\* The client does nothing to a job but what the contract has: it submits, it cancels, and it
\* lets it run.
LEMMA StepOfContract ==
  ASSUME TypeInv, [ClientNext]_allVars
  PROVE  [Next]_vars
<1>1. CASE UNCHANGED allVars
  BY <1>1 DEF allVars
<1>2. ASSUME NEW j \in Jobs, ServeSubmit(j) \/ JobStep(j) PROVE Next
  BY <1>2 DEF ServeSubmit, JobStep, Next
<1>3. ASSUME NEW j \in Jobs,
             SubmitForm(j) \/ Submitted(j) \/ SubmitFails(j) \/ Poll(j) \/ ServePoll(j)
               \/ Polled(j) \/ Reconnect(j) \/ PollFails(j)
      PROVE  UNCHANGED vars
  BY <1>3 DEF SubmitForm, Submitted, SubmitFails, Poll, ServePoll, Polled, Reconnect, PollFails
<1>4. CASE ServeCancel
  <2>1. CancelQueued(cancel.of) \/ Flag(cancel.of) \/ UNCHANGED vars
    BY <1>4 DEF ServeCancel
  <2>2. cancel.of \in Jobs
    BY <1>4, WebClientAssumption DEF ServeCancel, TypeInv, ClientTypeOK
  <2> QED
    BY <2>1, <2>2 DEF Next
<1>5. CASE ChooseFile \/ Disconnect \/ PressCancel \/ Cancelled \/ CancelFails \/ TableStep
  BY <1>5 DEF ChooseFile, Disconnect, PressCancel, Cancelled, CancelFails, TableStep, OpenTable,
       PageComes, PageFails, NextPage, PreviousPage, ChooseSize
<1> QED
  BY <1>1, <1>2, <1>3, <1>4, <1>5 DEF ClientNext, PollStep

\* What a step can do to the jobs: they go on, and a finished one stays.
JobsGoOn ==
    /\ state' \in [Jobs -> States] /\ wanted' \in [Jobs -> BOOLEAN]
    /\ \A j \in Jobs :
        /\ wanted[j] => wanted'[j]
        /\ state[j] # "NONE" => state'[j] # "NONE" /\ Rank(state[j]) <= Rank(state'[j])
        /\ state[j] \in Finished => state'[j] = state[j]

LEMMA JobsMove ==
  ASSUME TypeInv, [Next]_vars
  PROVE  JobsGoOn
<1>1. state \in [Jobs -> States] /\ wanted \in [Jobs -> BOOLEAN]
  BY DEF TypeInv
<1> USE <1>1 DEF JobsGoOn, States, Finished, Rank
<1>2. CASE UNCHANGED vars
  BY <1>2 DEF vars
<1>3. ASSUME NEW j \in Jobs, Submit(j) PROVE JobsGoOn
  BY <1>3 DEF Submit, Move
<1>4. ASSUME NEW j \in Jobs, Start(j) PROVE JobsGoOn
  BY <1>4 DEF Start, Move
<1>5. ASSUME NEW j \in Jobs, Fail(j) PROVE JobsGoOn
  BY <1>5 DEF Fail, Move
<1>6. ASSUME NEW j \in Jobs, CancelQueued(j) PROVE JobsGoOn
  BY <1>6 DEF CancelQueued, Move
<1>7. ASSUME NEW j \in Jobs, Flag(j) PROVE JobsGoOn
  BY <1>7 DEF Flag
<1>8. ASSUME NEW j \in Jobs, Succeed(j) PROVE JobsGoOn
  BY <1>8 DEF Succeed, Move
<1> QED
  BY <1>2, <1>3, <1>4, <1>5, <1>6, <1>7, <1>8 DEF Next

LEMMA BehindStays ==
  ASSUME TypeInv, [Next]_vars, NEW view \in View, Behind(view)
  PROVE  Behind(view)'
<1>1. view.job \in Jobs /\ view.state \in States /\ view.wanted \in BOOLEAN
  BY DEF View, States
<1>2. state[view.job] \in States /\ state'[view.job] \in States
  BY <1>1, JobsMove DEF TypeInv, JobsGoOn
<1> QED
  BY <1>1, <1>2, JobsMove DEF Behind, JobsGoOn, Rank, States, Finished

-----------------------------------------------------------------------------
(* Types *)

LEMMA FirstPage == NoTable.at \in Pages
<1>1. 1 \in 1..(TotalRows + 1)
  BY Rows
<1> QED
  BY <1>1, WebClientAssumption DEF NoTable, Pages

\* Data that arrives for a job that has some.
LEMMA DataArrives ==
  ASSUME TypeInv, NEW j \in Jobs, data[j] # NoData, NEW view \in View, SetData(j, view)
  PROVE  /\ data' \in [Jobs -> View \cup {NoData}]
         /\ table' = table \/ table' = NoTable
         /\ \A i \in Jobs : data'[i] # NoData <=> data[i] # NoData
         /\ data' = [data EXCEPT ![j] = view]
<1>1. view # NoData
  BY WebClientAssumption
<1> QED
  BY <1>1 DEF SetData, TableUnder, TypeInv, ClientTypeOK

LEMMA TableType ==
  ASSUME TypeInv, [ClientNext]_allVars
  PROVE  table' \in [at : Pages, fetching : BOOLEAN, last : Pages \cup {NoData},
                     loaded : SUBSET Pages]
<1> DEFINE Tables == [at : Pages, fetching : BOOLEAN, last : Pages \cup {NoData},
                      loaded : SUBSET Pages]
<1>1. table \in Tables /\ NoTable \in Tables
  BY FirstPage DEF TypeInv, ClientTypeOK, NoTable
<1>2. CASE table' = table \/ table' = NoTable
  BY <1>1, <1>2
<1>3. OnScreen \in Pages \cup {NoData}
  BY <1>1 DEF OnScreen
<1>4. ASSUME NEW at \in Pages, Goto(at) PROVE table' \in Tables
  BY <1>1, <1>3, <1>4 DEF Goto
<1>5. ASSUME NEW size \in PageSizes, ChooseSize(size) PROVE table' \in Tables
  <2>1. <<1, size>> \in Pages
    BY Rows DEF Pages
  <2> QED
    BY <1>4, <1>5, <2>1 DEF ChooseSize
<1>6. CASE NextPage
  <2>1. table.at[1] \in 1..(TotalRows + 1) /\ table.at[2] \in PageSizes
    BY <1>1 DEF Pages
  <2>2. OnScreen \in Pages
    BY <1>3, <1>6 DEF NextPage
  <2>3. Results.pages <= TotalRows + 1 /\ Results.pages \in Nat
    <3>1. OnScreen[2] \in Int
      <4>1. PageSizes \subseteq Int
        BY WebClientAssumption
      <4> QED
        BY <2>2, <4>1 DEF Pages
    <3> QED
      BY <3>1, PagesBound DEF Results, ReadPage
  <2>4. <<table.at[1] + 1, table.at[2]>> \in Pages
    BY <1>6, <2>1, <2>3, Rows DEF NextPage, Pages
  <2> QED
    BY <1>4, <1>6, <2>4 DEF NextPage
<1>7. CASE PreviousPage
  <2>1. <<table.at[1] - 1, table.at[2]>> \in Pages
    BY <1>1, <1>7, Rows DEF PreviousPage, Pages
  <2> QED
    BY <1>4, <1>7, <2>1 DEF PreviousPage
<1>8. CASE OpenTable \/ PageComes \/ PageFails
  BY <1>1, <1>8 DEF OpenTable, PageComes, PageFails
<1>9. ASSUME NEW j \in Jobs, Polled(j) PROVE table' = table \/ table' = NoTable
  BY <1>9 DEF Polled, SetData, TableUnder
<1>10. CASE Cancelled
  BY <1>2, <1>10 DEF Cancelled, SetData, TableUnder
<1>11. ASSUME NEW j \in Jobs,
              SubmitForm(j) \/ ServeSubmit(j) \/ Submitted(j) \/ SubmitFails(j) \/ Poll(j)
                \/ ServePoll(j) \/ Reconnect(j) \/ PollFails(j) \/ JobStep(j)
       PROVE  table' = table \/ table' = NoTable
  BY <1>11 DEF SubmitForm, ServeSubmit, Submitted, SubmitFails, Poll, ServePoll, Reconnect,
       PollFails, JobStep, clientVars
<1>12. CASE ChooseFile \/ Disconnect \/ PressCancel \/ ServeCancel \/ CancelFails \/ UNCHANGED allVars
  BY <1>2, <1>12 DEF ChooseFile, Disconnect, PressCancel, ServeCancel, CancelFails, allVars,
     clientVars
<1> HIDE DEF Tables
<1> QED
  BY <1>2, <1>5, <1>6, <1>7, <1>8, <1>9, <1>10, <1>11, <1>12
     DEF ClientNext, PollStep, TableStep, Tables

LEMMA TypeSteps ==
  ASSUME TypeInv, [ClientNext]_allVars
  PROVE  TypeInv'
<1>1. JobsGoOn
  BY StepOfContract, JobsMove
<1>2. table' \in [at : Pages, fetching : BOOLEAN, last : Pages \cup {NoData}, loaded : SUBSET Pages]
  BY TableType
<1>3. \A j \in Jobs : Snapshot(j) \in View \/ state[j] = "NONE"
  BY DEF TypeInv, Snapshot, View, States
<1>4. NoData \notin View /\ Asked # NoData /\ Refused # NoData
  BY WebClientAssumption
<1> USE <1>1, <1>2 DEF TypeInv, ClientTypeOK, JobsGoOn
<1>5. CASE ChooseFile \/ Disconnect
  BY <1>5 DEF ChooseFile, Disconnect, vars
<1>6. ASSUME NEW j \in Jobs, SubmitForm(j) PROVE TypeInv'
  BY <1>6 DEF SubmitForm, vars
<1>7. ASSUME NEW j \in Jobs, ServeSubmit(j) PROVE TypeInv'
  <2>1. state'[j] = "QUEUED"
    BY <1>7 DEF ServeSubmit, Submit, Move
  <2> QED
    BY <1>7, <2>1 DEF ServeSubmit
<1>8. ASSUME NEW j \in Jobs, Submitted(j) PROVE TypeInv'
  <2>1. [job |-> j, state |-> "QUEUED", wanted |-> FALSE] \in View
    BY DEF View
  <2>2. state[j] # "NONE" /\ state' = state /\ wanted' = wanted
    BY <1>8 DEF Submitted, vars
  <2>3. /\ data' = [data EXCEPT ![j] = [job |-> j, state |-> "QUEUED", wanted |-> FALSE]]
        /\ creating' = [creating EXCEPT ![j] = "no"]
        /\ shown' = j /\ form' \in {"ready", form} /\ fetches' = fetches /\ cancel' = cancel
    BY <1>8 DEF Submitted
  <2>4. ClientTypeOK'
    BY <2>1, <2>3
  <2>5. \A i \in Jobs : data'[i] # NoData <=> i = j \/ data[i] # NoData
    BY <1>4, <2>1, <2>3
  <2> QED
    BY <2>2, <2>3, <2>4, <2>5, WebClientAssumption
<1>9. ASSUME NEW j \in Jobs, SubmitFails(j) PROVE TypeInv'
  BY <1>9 DEF SubmitFails, vars
<1>10. ASSUME NEW j \in Jobs, Poll(j) \/ Reconnect(j) PROVE TypeInv'
  BY <1>10, WebClientAssumption DEF Poll, Reconnect, vars, pageVars
<1>11. ASSUME NEW j \in Jobs, ServePoll(j) PROVE TypeInv'
  <2>1. Snapshot(j) \in View
    BY <1>11, <1>3 DEF ServePoll
  <2> QED
    BY <1>11, <2>1 DEF ServePoll, vars, pageVars
<1>12. ASSUME NEW j \in Jobs, Polled(j) PROVE TypeInv'
  <2>1. PICK view \in fetches[j] \cap View :
           fetches' = [fetches EXCEPT ![j] = @ \ {view}] /\ SetData(j, view)
    BY <1>12 DEF Polled
  <2>2. data[j] # NoData
    BY <2>1
  <2>3. /\ data' \in [Jobs -> View \cup {NoData}]
        /\ \A i \in Jobs : data'[i] # NoData <=> data[i] # NoData
    BY <2>1, <2>2, DataArrives
  <2> QED
    BY <1>12, <2>1, <2>3 DEF Polled, vars, pageVars
<1>13. ASSUME NEW j \in Jobs, PollFails(j) PROVE TypeInv'
  BY <1>13 DEF PollFails, vars, pageVars
<1>14. CASE PressCancel
  BY <1>14, <1>4, WebClientAssumption DEF PressCancel, vars, pageVars
<1>15. CASE ServeCancel
  <2>1. cancel.of \in Jobs /\ cancel.reply = Asked
    BY <1>15, <1>4 DEF ServeCancel
  <2>2. cancel' = [cancel EXCEPT !.reply = Refused]
        \/ cancel' = [cancel EXCEPT !.reply = [job |-> cancel.of, state |-> state'[cancel.of],
                                               wanted |-> wanted'[cancel.of]]]
    BY <1>15 DEF ServeCancel
  <2>3. [job |-> cancel.of, state |-> state'[cancel.of], wanted |-> wanted'[cancel.of]] \in View
    BY <2>1, <1>4 DEF View, States
  <2>4. cancel' \in [of : Jobs \cup {NoJob}, reply : View \cup {NoData, Asked, Refused}]
        /\ cancel'.of = cancel.of
    BY <2>1, <2>2, <2>3
  <2>5. UNCHANGED <<form, creating, shown, data, fetches, table>>
    BY <1>15 DEF ServeCancel, pageVars
  <2> QED
    BY <2>1, <2>4, <2>5, WebClientAssumption
<1>16. CASE Cancelled
  <2>1. cancel.of # NoJob /\ shown \in Jobs /\ data[shown] # NoData
    BY <1>16, <1>4 DEF Cancelled
  <2>2. /\ data' \in [Jobs -> View \cup {NoData}]
        /\ \A i \in Jobs : data'[i] # NoData <=> data[i] # NoData
    BY <1>16, <2>1, DataArrives DEF Cancelled
  <2> QED
    BY <1>16, <2>1, <2>2 DEF Cancelled, NoCancel, vars, pageVars
<1>17. CASE CancelFails
  BY <1>17 DEF CancelFails, NoCancel, vars, pageVars
<1>18. CASE TableStep
  <2>1. UNCHANGED <<state, wanted, form, creating, shown, data, fetches, cancel>>
    BY <1>18 DEF TableStep, OpenTable, PageComes, PageFails, NextPage, PreviousPage, ChooseSize,
         vars, pageVars
  <2> QED
    BY <2>1
<1>19. ASSUME NEW j \in Jobs, JobStep(j) PROVE TypeInv'
  BY <1>19 DEF JobStep, clientVars
<1>20. CASE UNCHANGED allVars
  BY <1>20 DEF allVars, clientVars
<1> QED
  BY <1>5, <1>6, <1>7, <1>8, <1>9, <1>10, <1>11, <1>12, <1>13, <1>14, <1>15, <1>16, <1>17,
     <1>18,
     <1>19, <1>20 DEF ClientNext, PollStep


-----------------------------------------------------------------------------
(* The table *)

LEMMA TableSteps ==
  ASSUME TypeInv, TableInv, [ClientNext]_allVars
  PROVE  TableInv'
<1>1. PageSizes \subseteq Int
  BY WebClientAssumption
<1>2. /\ table.at[1] \in Int /\ TotalPages(Size(table.at[2])) \in Nat
      /\ table.fetching \in BOOLEAN
  <2>1. table.at \in Pages /\ table.fetching \in BOOLEAN
    BY DEF TypeInv, ClientTypeOK
  <2>2. table.at[1] \in 1..(TotalRows + 1) /\ table.at[2] \in PageSizes
    BY <2>1 DEF Pages
  <2>3. table.at[1] \in Int
    BY <2>2
  <2>4. table.at[2] \in Int
    BY <1>1, <2>2
  <2>5. TotalPages(Size(table.at[2])) \in Nat
    BY <2>4, PagesBound
  <2> QED
    BY <2>1, <2>3, <2>5
<1>3. /\ ~NoTable.fetching /\ NoTable.last = NoData
      /\ NoTable.at[1] <= TotalPages(Size(NoTable.at[2]))
  BY <1>1, WebClientAssumption, PagesBound DEF NoTable
<1>4. CASE table' = table
  BY <1>4 DEF TableInv
<1>5. CASE table' = NoTable
  BY <1>3, <1>5 DEF TableInv
<1>6. ASSUME NEW at, at[1] <= TotalPages(Size(at[2])), Goto(at) PROVE TableInv'
  BY <1>6 DEF Goto, TableInv, TypeInv, ClientTypeOK
<1>7. ASSUME NEW size \in PageSizes, ChooseSize(size) PROVE TableInv'
  BY <1>1, <1>6, <1>7, PagesBound DEF ChooseSize
<1>8. CASE NextPage
  <2>1. OnScreen = table.at
    BY <1>8 DEF NextPage, OnScreen, TableInv
  <2>2. table.at[1] < TotalPages(Size(table.at[2]))
    BY <1>8, <2>1 DEF NextPage, Results, ReadPage
  <2>3. table.at[1] + 1 <= TotalPages(Size(table.at[2]))
    BY <1>2, <2>2
  <2> QED
    BY <1>6, <1>8, <2>3 DEF NextPage
<1>9. CASE PreviousPage
  <2>1. table.at[1] - 1 <= TotalPages(Size(table.at[2]))
    BY <1>2 DEF TableInv
  <2> QED
    BY <1>6, <1>9, <2>1 DEF PreviousPage
<1>10. CASE OpenTable
  BY <1>10 DEF OpenTable, TableInv, TypeInv, ClientTypeOK
<1>11. CASE PageComes
  BY <1>11 DEF PageComes, TableInv, TypeInv, ClientTypeOK
<1>12. CASE PageFails
  BY <1>12 DEF PageFails, TableInv, TypeInv, ClientTypeOK
<1>13. ASSUME NEW j \in Jobs, Polled(j) PROVE table' = table \/ table' = NoTable
  BY <1>13 DEF Polled, SetData, TableUnder
<1>14. CASE Cancelled
  BY <1>4, <1>5, <1>14 DEF Cancelled, SetData, TableUnder
<1>15. ASSUME NEW j \in Jobs,
              SubmitForm(j) \/ ServeSubmit(j) \/ Submitted(j) \/ SubmitFails(j) \/ Poll(j)
                \/ ServePoll(j) \/ Reconnect(j) \/ PollFails(j) \/ JobStep(j)
       PROVE  table' = table \/ table' = NoTable
  BY <1>15 DEF SubmitForm, ServeSubmit, Submitted, SubmitFails, Poll, ServePoll, Reconnect,
       PollFails, JobStep, clientVars
<1>16. CASE ChooseFile \/ Disconnect \/ PressCancel \/ ServeCancel \/ CancelFails \/ UNCHANGED allVars
  BY <1>4, <1>16 DEF ChooseFile, Disconnect, PressCancel, ServeCancel, CancelFails, allVars,
     clientVars
<1> QED
  BY <1>4, <1>5, <1>7, <1>8, <1>9, <1>10, <1>11, <1>12, <1>13, <1>14, <1>15, <1>16
     DEF ClientNext, PollStep, TableStep

-----------------------------------------------------------------------------
(* What the panel says of jobs *)

LEMMA AnswersSteps ==
  ASSUME TypeInv, AnswersInv, [ClientNext]_allVars
  PROVE  AnswersInv'
<1>1. [Next]_vars /\ JobsGoOn
  BY StepOfContract, JobsMove
<1>2. NoData \notin View /\ Asked \notin View /\ Refused \notin View
      /\ Asked # NoData /\ Refused # NoData
  BY WebClientAssumption
<1>3. \A view \in View : Behind(view) => Behind(view)'
  BY <1>1, BehindStays
<1>4. \A j \in Jobs : data[j] # NoData => data[j] \in View /\ Behind(data[j])
  BY DEF TypeInv, ClientTypeOK, AnswersInv
<1>5. ASSUME \A j \in Jobs : data'[j] \in {data[j], NoData} PROVE
        \A j \in Jobs : data'[j] # NoData => Behind(data[j])'
  BY <1>3, <1>4, <1>5 DEF Behind
<1>6. ASSUME \A j \in Jobs : fetches'[j] \cap View \subseteq fetches[j] PROVE
        \A j \in Jobs : \A view \in fetches'[j] \cap View : view.job = j /\ Behind(view)'
  BY <1>3, <1>6 DEF AnswersInv
<1>7. ASSUME cancel'.reply \in View => cancel' = cancel PROVE
        cancel'.reply \in View => /\ cancel'.reply.job = cancel'.of /\ cancel'.reply.wanted
                                  /\ Behind(cancel.reply)'
  BY <1>3, <1>7 DEF AnswersInv, Behind
<1>8. CASE UNCHANGED <<data, fetches, cancel>>
  BY <1>5, <1>6, <1>7, <1>8 DEF AnswersInv
<1>9. ASSUME NEW j \in Jobs, Submitted(j) PROVE AnswersInv'
  <2>1. \A i \in Jobs : data'[i] # NoData => Behind(data[i])'
    <3>1. state'[j] # "NONE" /\ UNCHANGED <<state, wanted>>
      BY <1>9 DEF Submitted, TypeInv, vars
    <3>2. Rank("QUEUED") <= Rank(state[j])
      BY DEF Rank
    <3>3. data' = [data EXCEPT ![j] = [job |-> j, state |-> "QUEUED", wanted |-> FALSE]]
      BY <1>9 DEF Submitted
    <3>4. Behind(data[j])'
      BY <3>1, <3>2, <3>3 DEF TypeInv, ClientTypeOK, Behind, Finished
    <3>5. ASSUME NEW i \in Jobs, i # j PROVE data'[i] = data[i]
      BY <3>3, <3>5 DEF TypeInv, ClientTypeOK
    <3> QED
      BY <1>3, <1>4, <3>4, <3>5 DEF Behind
  <2> QED
    BY <1>6, <1>7, <1>9, <2>1 DEF Submitted, AnswersInv
<1>10. ASSUME NEW j \in Jobs, Poll(j) \/ Reconnect(j) \/ PollFails(j) PROVE AnswersInv'
  <2>1. \A i \in Jobs : fetches'[i] \cap View \subseteq fetches[i]
    BY <1>2, <1>10 DEF Poll, Reconnect, PollFails, TypeInv, ClientTypeOK
  <2> QED
    BY <1>5, <1>6, <1>7, <1>10, <2>1 DEF Poll, Reconnect, PollFails, AnswersInv
<1>11. ASSUME NEW j \in Jobs, ServePoll(j) PROVE AnswersInv'
  <2>1. \A i \in Jobs : \A view \in fetches'[i] \cap View : view.job = i /\ Behind(view)'
    <3>1. UNCHANGED <<state, wanted>> /\ state[j] # "NONE"
      BY <1>11 DEF ServePoll, TypeInv, vars
    <3>2. Rank(state[j]) <= Rank(state[j])
      BY DEF Rank
    <3>3. Snapshot(j).job = j /\ Behind(Snapshot(j))'
      BY <3>1, <3>2 DEF Snapshot, Behind
    <3>4. \A i \in Jobs : \A view \in fetches'[i] \cap View :
             view \in fetches[i] \/ (i = j /\ view = Snapshot(j))
      BY <1>11 DEF ServePoll, TypeInv, ClientTypeOK
    <3>5. ASSUME NEW i \in Jobs, NEW view \in fetches'[i] \cap View, view \in fetches[i]
          PROVE  view.job = i /\ Behind(view)'
      BY <1>3, <3>5 DEF AnswersInv
    <3> QED
      BY <3>1, <3>3, <3>4, <3>5 DEF Behind, Snapshot
  <2> QED
    BY <1>5, <1>7, <1>11, <2>1 DEF ServePoll, AnswersInv
<1>12. ASSUME NEW j \in Jobs, NEW view \in View, Behind(view), data[j] # NoData, SetData(j, view)
       PROVE  \A i \in Jobs : data'[i] # NoData => Behind(data[i])'
  <2>1. data' = [data EXCEPT ![j] = view]
    BY <1>12 DEF SetData
  <2>2. \A i \in Jobs : data'[i] = data[i] \/ data'[i] = view
    BY <2>1 DEF TypeInv, ClientTypeOK
  <2> QED
    BY <1>3, <1>4, <1>12, <2>2 DEF Behind
<1>13. ASSUME NEW j \in Jobs, Polled(j) PROVE AnswersInv'
  <2>1. PICK view \in fetches[j] \cap View :
           fetches' = [fetches EXCEPT ![j] = @ \ {view}] /\ SetData(j, view)
    BY <1>13 DEF Polled
  <2>2. Behind(view) /\ data[j] # NoData
    BY <2>1 DEF AnswersInv, TypeInv
  <2>3. \A i \in Jobs : fetches'[i] \cap View \subseteq fetches[i]
    BY <2>1 DEF TypeInv, ClientTypeOK
  <2>4. \A i \in Jobs : data'[i] # NoData => Behind(data[i])'
    BY <1>12, <2>1, <2>2
  <2> QED
    BY <1>6, <1>7, <1>13, <2>3, <2>4 DEF Polled, AnswersInv
<1>14. CASE PressCancel
  BY <1>2, <1>5, <1>6, <1>7, <1>14 DEF PressCancel, AnswersInv
<1>15. CASE CancelFails
  BY <1>2, <1>5, <1>6, <1>7, <1>15 DEF CancelFails, NoCancel, AnswersInv
<1>16. CASE Cancelled
  <2>1. /\ cancel.reply \in View /\ Behind(cancel.reply)
        /\ SetData(shown, cancel.reply) /\ cancel' = NoCancel /\ fetches' = fetches
    BY <1>16 DEF Cancelled, AnswersInv
  <2>2. shown \in Jobs /\ data[shown] # NoData
    BY <1>2, <2>1 DEF TypeInv, ClientTypeOK
  <2>3. \A i \in Jobs : data'[i] # NoData => Behind(data[i])'
    BY <1>12, <2>1, <2>2
  <2> QED
    BY <1>2, <1>6, <1>7, <2>1, <2>3 DEF NoCancel, AnswersInv
<1>17. CASE ServeCancel
  <2>1. cancel.of \in Jobs /\ cancel.of # NoJob /\ state[cancel.of] # "NONE"
    BY <1>2, <1>17 DEF ServeCancel, TypeInv, ClientTypeOK
  <2>2. \/ cancel' = [cancel EXCEPT !.reply = Refused]
        \/ /\ CancelQueued(cancel.of) \/ Flag(cancel.of)
           /\ cancel' = [cancel EXCEPT !.reply = [job |-> cancel.of, state |-> state'[cancel.of],
                                                  wanted |-> wanted'[cancel.of]]]
    BY <1>17 DEF ServeCancel
  <2>3. CASE cancel' = [cancel EXCEPT !.reply = Refused]
    BY <1>2, <1>5, <1>6, <1>7, <1>17, <2>3 DEF ServeCancel, AnswersInv, TypeInv, ClientTypeOK
  <2>4. CASE /\ CancelQueued(cancel.of) \/ Flag(cancel.of)
             /\ cancel' = [cancel EXCEPT !.reply = [job |-> cancel.of, state |-> state'[cancel.of],
                                                    wanted |-> wanted'[cancel.of]]]
    <3>1. wanted'[cancel.of]
      BY <2>1, <2>4 DEF CancelQueued, Flag, TypeInv
    <3>2. state'[cancel.of] # "NONE" /\ Rank(state'[cancel.of]) <= Rank(state'[cancel.of])
      BY <1>1, <2>1 DEF JobsGoOn, Rank
    <3>3. /\ cancel'.of = cancel.of
          /\ cancel'.reply = [job |-> cancel.of, state |-> state'[cancel.of],
                              wanted |-> wanted'[cancel.of]]
      BY <2>4 DEF TypeInv, ClientTypeOK
    <3>4. /\ cancel'.reply.job = cancel'.of /\ cancel'.reply.wanted
          /\ Behind(cancel.reply)'
      BY <3>1, <3>2, <3>3 DEF Behind
    <3> QED
      BY <1>5, <1>6, <1>17, <3>4 DEF ServeCancel, AnswersInv
  <2> QED
    BY <2>2, <2>3, <2>4
<1>18. CASE ChooseFile \/ Disconnect \/ TableStep \/ UNCHANGED allVars
  BY <1>8, <1>18 DEF ChooseFile, Disconnect, TableStep, OpenTable, PageComes, PageFails,
     NextPage,
       PreviousPage, ChooseSize, allVars, clientVars
<1>19. ASSUME NEW j \in Jobs, SubmitForm(j) \/ ServeSubmit(j) \/ SubmitFails(j) \/ JobStep(j)
       PROVE  AnswersInv'
  BY <1>8, <1>19 DEF SubmitForm, ServeSubmit, SubmitFails, JobStep, clientVars
<1> QED
  BY <1>9, <1>10, <1>11, <1>13, <1>14, <1>15, <1>16, <1>17, <1>18, <1>19 DEF ClientNext,
     PollStep

\* No other job comes into the panel while a cancel is unanswered.
NoSwitch == ~SwitchWhileCancelling

LEMMA OrderSteps ==
  ASSUME NoSwitch, TypeInv, AnswersInv, OrderInv, [ClientNext]_allVars
  PROVE  OrderInv' /\ (\A j \in Jobs : data[j] # NoData /\ ~wanted[j] =>
                          Rank(data'[j].state) >= Rank(data[j].state))
<1> DEFINE NotBack == \A j \in Jobs : data[j] # NoData /\ ~wanted[j] =>
                          Rank(data'[j].state) >= Rank(data[j].state)
           OneOf(S) == \A f, g \in S : f = g
<1>1. JobsGoOn /\ \A s : Rank(s) \in Int
  BY StepOfContract, JobsMove DEF Rank
<1>2. NoData \notin View /\ Asked \notin View /\ Asked # NoData /\ NoJob \notin Jobs
  BY WebClientAssumption
<1>3. /\ data \in [Jobs -> View \cup {NoData}] /\ fetches \in [Jobs -> SUBSET (View \cup {Asked})]
      /\ creating \in [Jobs -> {"no", "asked", "answered"}]
      /\ state \in [Jobs -> States] /\ wanted \in [Jobs -> BOOLEAN]
  BY DEF TypeInv, ClientTypeOK
<1> USE <1>1, <1>2, <1>3
\* A job whose entry, fetches and submission stay as they are.
<1>4. ASSUME NEW j \in Jobs, data'[j] = data[j], fetches'[j] \cap View \subseteq fetches[j],
             OneOf(fetches'[j]), creating'[j] = creating[j] \/ creating'[j] = "no"
               \/ data[j] = NoData
      PROVE  /\ data'[j] # NoData => data'[j].job = j
             /\ state'[j] = "NONE" \/ creating'[j] # "no" => data'[j] = NoData
             /\ OneOf(fetches'[j])
             /\ ~wanted'[j] => \A view \in fetches'[j] \cap View :
                                 Rank(data'[j].state) <= Rank(view.state)
             /\ Rank(data'[j].state) >= Rank(data[j].state)
  BY <1>4 DEF OrderInv, JobsGoOn, TypeInv
<1>5. \A j \in Jobs : OneOf(fetches[j])
  BY DEF OrderInv
<1>6. CASE /\ UNCHANGED <<data, fetches>>
           /\ \A j \in Jobs : creating'[j] \in {creating[j], "no"} \/ data[j] = NoData
           /\ cancel'.of # NoJob => shown' = cancel'.of
  BY <1>4, <1>5, <1>6 DEF OrderInv
<1>7. ASSUME NEW j \in Jobs, Submitted(j) PROVE OrderInv' /\ NotBack
  <2>1. data[j] = NoData /\ fetches[j] = {} /\ cancel.of = NoJob /\ cancel' = cancel
    BY <1>7 DEF Submitted, OrderInv, TypeInv, NoSwitch
  <2>2. /\ data' = [data EXCEPT ![j] = [job |-> j, state |-> "QUEUED", wanted |-> FALSE]]
        /\ creating' = [creating EXCEPT ![j] = "no"] /\ fetches' = fetches
    BY <1>7 DEF Submitted
  <2>3. data'[j].job = j /\ state'[j] # "NONE" /\ creating'[j] = "no"
    BY <1>7, <2>2 DEF Submitted, TypeInv, JobsGoOn
  <2>4. ASSUME NEW i \in Jobs, i # j
        PROVE  data'[i] = data[i] /\ creating'[i] = creating[i] /\ fetches'[i] = fetches[i]
    BY <2>2, <2>4
  <2> QED
    BY <1>4, <1>5, <2>1, <2>2, <2>3, <2>4 DEF OrderInv
<1>8. ASSUME NEW j \in Jobs, Poll(j) \/ Reconnect(j) \/ PollFails(j) PROVE OrderInv' /\ NotBack
  <2>1. UNCHANGED <<data, creating, cancel, shown>>
    BY <1>8 DEF Poll, Reconnect, PollFails, pageVars
  <2>2. \A i \in Jobs : fetches'[i] \cap View \subseteq fetches[i] /\ OneOf(fetches'[i])
    BY <1>5, <1>8 DEF Poll, Reconnect, PollFails
  <2> QED
    BY <1>4, <2>1, <2>2 DEF OrderInv
<1>9. ASSUME NEW j \in Jobs, ServePoll(j) PROVE OrderInv' /\ NotBack
  <2>1. UNCHANGED <<data, creating, cancel, shown>> /\ UNCHANGED <<state, wanted>>
    BY <1>9 DEF ServePoll, pageVars, vars
  <2>2. fetches'[j] = {Snapshot(j)} /\ \A i \in Jobs : i # j => fetches'[i] = fetches[i]
    BY <1>5, <1>9 DEF ServePoll
  <2>3. Rank(data[j].state) <= Rank(Snapshot(j).state)
    BY <1>9, <2>2 DEF ServePoll, Snapshot, TypeInv, AnswersInv, OrderInv, Behind
  <2>4. ASSUME NEW i \in Jobs
        PROVE  /\ data'[i] # NoData => data'[i].job = i
               /\ state'[i] = "NONE" \/ creating'[i] # "no" => data'[i] = NoData
               /\ OneOf(fetches'[i])
               /\ ~wanted'[i] => \A view \in fetches'[i] \cap View :
                                    Rank(data'[i].state) <= Rank(view.state)
    BY <2>1, <2>2, <2>3 DEF OrderInv
  <2> QED
    BY <2>1, <2>4 DEF OrderInv
<1>10. ASSUME NEW j \in Jobs, Polled(j) PROVE OrderInv' /\ NotBack
  <2>1. PICK view \in fetches[j] \cap View :
           fetches' = [fetches EXCEPT ![j] = @ \ {view}] /\ SetData(j, view)
    BY <1>10 DEF Polled
  <2>2. /\ data' = [data EXCEPT ![j] = view]
        /\ UNCHANGED <<state, wanted, creating, shown, cancel>>
    BY <1>10, <2>1 DEF Polled, SetData, vars, pageVars
  <2>3. view.job = j /\ data[j] # NoData /\ (~wanted[j] => Rank(data[j].state) <= Rank(view.state))
    BY <2>1 DEF AnswersInv, OrderInv, TypeInv
  <2>4. fetches'[j] = {} /\ \A i \in Jobs : i # j => fetches'[i] = fetches[i] /\ data'[i] = data[i]
    BY <1>5, <2>1, <2>2
  <2> QED
    BY <1>4, <1>5, <2>2, <2>3, <2>4 DEF OrderInv
<1>11. CASE Cancelled
  <2>1. /\ cancel.reply \in View /\ cancel.of # NoJob /\ shown = cancel.of
        /\ cancel.reply.job = shown /\ wanted[shown]
    BY <1>11 DEF Cancelled, AnswersInv, OrderInv, TypeInv, Behind
  <2>2. shown \in Jobs /\ data[shown] # NoData
    BY <2>1 DEF TypeInv, ClientTypeOK
  <2>3. /\ data' = [data EXCEPT ![shown] = cancel.reply] /\ cancel' = NoCancel
        /\ UNCHANGED <<state, wanted, creating, shown, fetches>>
    BY <1>11 DEF Cancelled, SetData, vars, pageVars
  <2>4. data'[shown].job = shown /\ \A i \in Jobs : i # shown => data'[i] = data[i]
    BY <2>1, <2>2, <2>3
  <2> QED
    BY <1>4, <1>5, <2>1, <2>2, <2>3, <2>4 DEF OrderInv, NoCancel
<1>12. CASE ChooseFile \/ Disconnect \/ TableStep \/ UNCHANGED allVars
  BY <1>6, <1>12 DEF ChooseFile, Disconnect, TableStep, OpenTable, PageComes, PageFails,
     NextPage,
       PreviousPage, ChooseSize, allVars, clientVars, pageVars, OrderInv
<1>13. ASSUME NEW j \in Jobs, SubmitForm(j) PROVE OrderInv' /\ NotBack
  BY <1>6, <1>13 DEF SubmitForm, OrderInv
<1>14. ASSUME NEW j \in Jobs, ServeSubmit(j) PROVE OrderInv' /\ NotBack
  BY <1>6, <1>14 DEF ServeSubmit, OrderInv
<1>15. ASSUME NEW j \in Jobs, SubmitFails(j) PROVE OrderInv' /\ NotBack
  BY <1>6, <1>15 DEF SubmitFails, OrderInv
<1>16. ASSUME NEW j \in Jobs, JobStep(j) PROVE OrderInv' /\ NotBack
  BY <1>6, <1>16 DEF JobStep, clientVars, OrderInv
<1>17. CASE PressCancel \/ CancelFails
  BY <1>6, <1>17 DEF PressCancel, CancelFails, NoCancel, pageVars, OrderInv
<1>18. CASE ServeCancel
  <2>1. cancel'.of = cancel.of
    BY <1>18 DEF ServeCancel, TypeInv, ClientTypeOK
  <2> QED
    BY <1>6, <1>18, <2>1 DEF ServeCancel, pageVars, OrderInv
<1> QED
  BY <1>7, <1>8, <1>9, <1>10, <1>11, <1>12, <1>13, <1>14, <1>15, <1>16, <1>17, <1>18
     DEF ClientNext, PollStep

-----------------------------------------------------------------------------
(* The theorems *)

LEMMA InitialClient ==
  ClientInit => TypeInv /\ TableInv /\ AnswersInv /\ OrderInv
<1> SUFFICES ASSUME ClientInit PROVE TypeInv /\ TableInv /\ AnswersInv /\ OrderInv
  OBVIOUS
<1>1. /\ state = [j \in Jobs |-> "NONE"] /\ wanted = [j \in Jobs |-> FALSE]
      /\ form = "none" /\ creating = [j \in Jobs |-> "no"] /\ shown = NoJob
      /\ data = [j \in Jobs |-> NoData] /\ fetches = [j \in Jobs |-> {}]
      /\ cancel = [of |-> NoJob, reply |-> NoData] /\ table = NoTable
  BY DEF ClientInit, Init, NoCancel
<1>2. NoData \notin View
  BY WebClientAssumption
<1>3. TypeInv
  <2>1. NoTable \in [at : Pages, fetching : BOOLEAN, last : Pages \cup {NoData},
                     loaded : SUBSET Pages]
    BY FirstPage DEF NoTable
  <2> QED
    BY <1>1, <2>1 DEF TypeInv, ClientTypeOK, States
<1>4. TableInv
  <2>1. FirstSize \in Int
    BY WebClientAssumption
  <2> QED
    BY <1>1, <2>1, PagesBound DEF TableInv, NoTable
<1>5. AnswersInv
  BY <1>1, <1>2 DEF AnswersInv
<1>6. OrderInv
  BY <1>1 DEF OrderInv
<1> QED
  BY <1>3, <1>4, <1>5, <1>6

\* The client changes jobs only in the ways of the API's contract: it implements JobContract
\* with more of it visible.
THEOREM ClientKeepsContract == ClientSpec => Spec
<1>1. ClientInit => Init
  BY DEF ClientInit
<1> QED
  BY <1>1, InitialClient, TypeSteps, StepOfContract, PTL DEF ClientSpec, Spec

\* The state of the page has its types, whatever arrives in whichever order.
THEOREM ClientTypes == ClientSpec => []ClientTypeOK
<1>1. TypeInv => ClientTypeOK
  BY DEF TypeInv
<1> QED
  BY <1>1, InitialClient, TypeSteps, PTL DEF ClientSpec

\* For any row ids, page sizes and sequence of clicks and answers, the rows on the screen are
\* those of their page, under their own numbers.
THEOREM ScreenIsRight == ClientSpec => []ScreenShowsItsRows
<1>1. TypeInv => ScreenShowsItsRows
  <2> SUFFICES ASSUME TypeInv, OnScreen # NoData
               PROVE  Results.rows = {[number |-> Position(i), id |-> i] :
                          i \in {r \in RowIds : (Position(r) - 1) \div Results.size
                                                  = Results.page - 1}}
    BY DEF ScreenShowsItsRows
  <2>1. OnScreen \in Pages
    BY DEF OnScreen, TypeInv, ClientTypeOK
  <2>2. OnScreen[1] \in 1..(TotalRows + 1) /\ OnScreen[2] \in PageSizes
    BY <2>1 DEF Pages
  <2>3. OnScreen[1] \in Nat \ {0}
    BY <2>2
  <2>4. PageSizes \subseteq Int
    BY WebClientAssumption
  <2>5. OnScreen[2] \in Int
    BY <2>2, <2>4
  <2> QED
    BY <2>3, <2>5, PageShowsItsRows DEF Results
<1> QED
  BY <1>1, InitialClient, TypeSteps, PTL DEF ClientSpec

\* read_results_page, whatever gaps the ids have and whatever page and size are asked for: a
\* page below the first is the first; a page has the row numbers of its range, each of them and
\* no other; every row is on one of the pages there are, under its own number; no row is on two
\* pages, and what is on a later page comes later in the output.
THEOREM EveryRowOnOnePage ==
  ASSUME NEW requested \in Int
  PROVE  LET size    == Size(requested)
             rows(p) == ReadPage(p, requested).rows
         IN  /\ \A p \in Int : p < 1 => ReadPage(p, requested) = ReadPage(1, requested)
             /\ \A p \in Nat \ {0} :
                  {x.number : x \in rows(p)} = {n \in 1..TotalRows : (n - 1) \div size = p - 1}
             /\ \A i \in RowIds : \E p \in 1..TotalPages(size) :
                  [number |-> Position(i), id |-> i] \in rows(p)
             /\ \A p, q \in Nat \ {0} : \A x \in rows(p), y \in rows(q) :
                  /\ x.id = y.id => p = q /\ x.number = y.number
                  /\ p < q => x.id < y.id /\ x.number < y.number
<1> DEFINE size    == Size(requested)
           rows(p) == ReadPage(p, requested).rows
           On(p)   == {i \in RowIds : (Position(i) - 1) \div size = p - 1}
<1>1. size \in Nat \ {0}
  BY ResultPagesAssumption DEF Size
<1>2. ASSUME NEW p \in Int, p < 1 PROVE ReadPage(p, requested) = ReadPage(1, requested)
  <2>1. Offset(p, size) = Offset(1, size)
    BY <1>2 DEF Offset
  <2>2. Slice(p, size) = Slice(1, size)
    BY <2>1 DEF Slice
  <2>3. Records(p, size) = Records(1, size)
    BY <2>2 DEF Records
  <2> QED
    BY <1>2, <2>1, <2>3 DEF ReadPage
<1>3. ASSUME NEW p \in Nat \ {0}
      PROVE  rows(p) = {[number |-> Position(i), id |-> i] : i \in On(p)}
  <2>1. ReadPage(p, requested).size = size /\ ReadPage(p, requested).page = p
    BY <1>3 DEF ReadPage
  <2> QED
    BY <2>1, PageShowsItsRows
<1> HIDE DEF size, rows
<1>4. \A i \in RowIds : Position(i) \in 1..TotalRows /\ Position(i) \in Nat \ {0}
  BY Rows
<1>5. ASSUME NEW p \in Nat \ {0}
      PROVE  {x.number : x \in rows(p)} = {n \in 1..TotalRows : (n - 1) \div size = p - 1}
  <2>1. ASSUME NEW x \in rows(p)
        PROVE  x.number \in 1..TotalRows /\ (x.number - 1) \div size = p - 1
    BY <1>3, <1>4
  <2>2. ASSUME NEW n \in 1..TotalRows, (n - 1) \div size = p - 1
        PROVE  \E x \in rows(p) : x.number = n
    <3>1. PICK i \in RowIds : Position(i) = n
      BY EveryPosition
    <3>2. i \in On(p)
      BY <2>2, <3>1
    <3> DEFINE x == [number |-> Position(i), id |-> i]
    <3>3. x \in rows(p)
      BY <1>3, <3>2
    <3>4. x.number = n
      BY <3>1
    <3> QED
      BY <3>3, <3>4
  <2> QED
    BY <2>1, <2>2
<1>6. ASSUME NEW i \in RowIds
      PROVE  \E p \in 1..TotalPages(size) : [number |-> Position(i), id |-> i] \in rows(p)
  <2> DEFINE p == (Position(i) - 1) \div size + 1
  <2>1. p \in 1..TotalPages(size)
    BY <1>1, <1>4, PageOfNumber
  <2>2. p \in Nat \ {0} /\ (Position(i) - 1) \div size = p - 1
    BY <1>1, <1>4, PagesApart
  <2> HIDE DEF p
  <2>3. i \in On(p)
    BY <2>2
  <2> QED
    BY <1>3, <2>1, <2>2, <2>3
<1>7. ASSUME NEW p \in Nat \ {0}, NEW q \in Nat \ {0}, NEW x \in rows(p), NEW y \in rows(q)
      PROVE  /\ x.id = y.id => p = q /\ x.number = y.number
             /\ p < q => x.id < y.id /\ x.number < y.number
  <2>1. PICK i \in On(p) : x = [number |-> Position(i), id |-> i]
    BY <1>3
  <2>2. PICK k \in On(q) : y = [number |-> Position(k), id |-> k]
    BY <1>3
  <2>3. /\ x.id = i /\ x.number = Position(i) /\ y.id = k /\ y.number = Position(k)
        /\ i \in RowIds /\ k \in RowIds
        /\ (Position(i) - 1) \div size = p - 1 /\ (Position(k) - 1) \div size = q - 1
    BY <2>1, <2>2
  <2>4. i = k => p = q
    BY <2>3
  <2>5. ASSUME p < q PROVE i < k /\ Position(i) < Position(k)
    <3>1. (Position(i) - 1) \div size < (Position(k) - 1) \div size
      BY <2>3, <2>5
    <3>2. Position(i) < Position(k)
      BY <1>1, <1>4, <2>3, <3>1, PagesApart
    <3> QED
      BY <2>3, <3>2, PositionGrows
  <2> QED
    BY <2>3, <2>4, <2>5
<1> QED
  BY <1>2, <1>5, <1>6, <1>7 DEF size, rows

\* The table is never behind the last page.
THEOREM TableStaysInResults == ClientSpec => []NeverBehindTheEnd
<1>1. TableInv => NeverBehindTheEnd
  BY DEF TableInv, NeverBehindTheEnd
<1> QED
  BY <1>1, InitialClient, TypeSteps, TableSteps, PTL DEF ClientSpec

\* In whichever order polls, submissions and cancels are answered, the panel is not ahead of the
\* server and shows each job's own data, as long as no other job comes into it during a cancel.
THEOREM PanelNeverAhead ==
  ASSUME NoSwitch
  PROVE  ClientSpec => []NeverAhead
<1>1. AnswersInv /\ OrderInv => NeverAhead
  BY DEF AnswersInv, OrderInv, NeverAhead, Behind
<1>2. TypeInv /\ AnswersInv /\ OrderInv /\ [ClientNext]_allVars
        => (TypeInv /\ AnswersInv /\ OrderInv)'
  BY TypeSteps, AnswersSteps, OrderSteps
<1> QED
  BY <1>1, <1>2, InitialClient, PTL DEF ClientSpec

\* Polls are never shown out of order: only the answer of a cancel can put the panel back.
THEOREM OnlyCancelled ==
  ASSUME NoSwitch
  PROVE  ClientSpec => OnlyCancelPutsBack
<1>1. TypeInv /\ AnswersInv /\ OrderInv /\ [ClientNext]_allVars
        => /\ (TypeInv /\ AnswersInv /\ OrderInv)'
           /\ [\A j \in Jobs : data[j] # NoData /\ ~wanted[j] =>
                  Rank(data'[j].state) >= Rank(data[j].state)]_allVars
  BY TypeSteps, AnswersSteps, OrderSteps
<1> QED
  BY <1>1, InitialClient, PTL DEF ClientSpec, OnlyCancelPutsBack
=============================================================================
