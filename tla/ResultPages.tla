---------------------------- MODULE ResultPages ----------------------------
(***************************************************************************)
(* One page of a job's results (apps/jobs/results.py).  The Parquet output *)
(* keeps the row ids Spark gave when it read the source: they grow, and    *)
(* leave gaps between its partitions.  A page is found by the range of its  *)
(* ids, so it must not matter where the gaps are.                          *)
(***************************************************************************)
EXTENDS Integers, FiniteSets

CONSTANTS
    RowIds,      \* the row ids in the output of a job
    MaxPageSize  \* MAX_PAGE_SIZE

ASSUME ResultPagesAssumption ==
    /\ RowIds \subseteq Nat /\ IsFiniteSet(RowIds)
    /\ MaxPageSize \in Nat \ {0}

Least(S)    == CHOOSE i \in S : \A j \in S : i <= j
Greatest(S) == CHOOSE i \in S : \A j \in S : j <= i

\* The rows in front of one, in ORDER BY ROW_ID_COLUMN.
Before(i) == {j \in RowIds : j < i}
Position(i) == Cardinality(Before(i)) + 1

TotalRows == Cardinality(RowIds)

\* read_results_page clamps the size.  The serializer refuses one below 1 and leaves the
\* upper limit to this.
Size(requested) ==
    IF requested > MaxPageSize THEN MaxPageSize ELSE IF requested < 1 THEN 1 ELSE requested

Offset(page, size) == ((IF page < 1 THEN 1 ELSE page) - 1) * size

\* ResultsPage.total_pages: at least one, rounded up.
TotalPages(size) == IF TotalRows = 0 THEN 1 ELSE (TotalRows + size - 1) \div size

\* SELECT ... ORDER BY ... LIMIT size OFFSET offset
Slice(page, size) ==
    {i \in RowIds : /\ Position(i) > Offset(page, size)
                    /\ Position(i) <= Offset(page, size) + size}

\* Mutant: the upper end of the range is reckoned from its lower end, without the gaps.
RecordsWithoutGaps(page, size) ==
    LET slice == Slice(page, size)
    IN  IF slice = {} THEN {}
        ELSE {i \in RowIds : Least(slice) <= i /\ i < Least(slice) + size}

\* SELECT * ... WHERE id BETWEEN low AND high: both are null, and nothing is found, when
\* the page is behind the end.
Records(page, size) ==
    LET slice == Slice(page, size)
    IN  {i \in RowIds : /\ slice # {}
                        /\ Least(slice) <= i /\ i <= Greatest(slice)}

\* read_results_page: each row with the number it is shown under.
ReadPage(page, requested) ==
    LET size == Size(requested)
        records == Records(page, size)
    IN  [page  |-> IF page < 1 THEN 1 ELSE page,
         size  |-> size,
         pages |-> TotalPages(size),
         rows  |-> {[number |-> Offset(page, size)
                                  + Cardinality({j \in records : j <= i}),
                     id |-> i] : i \in records}]
=============================================================================
