------------------------- MODULE FileListingProofs -------------------------
(***************************************************************************)
(* The list of a bucket's files, for any keys, page size and number of     *)
(* changes: each page begins where the one before it ends, whatever comes  *)
(* and goes in between.                                                    *)
(***************************************************************************)
EXTENDS FileListing, FiniteSetTheorems, SequenceTheorems, TLAPS

\* The list that the request under way will add a page to.
Base == IF fetch = "next" THEN pages ELSE fresh

\* The objects that this list must not miss.
Keep == IF fetch = "next" THEN steady ELSE renewed

\* The pages of a list follow each other: each of them but the last is full and has its last
\* file for a cursor, behind which the next ones begin.
InOrder(list) ==
    \A p \in DOMAIN list :
        /\ Cardinality(list[p].files) <= PageSize
        /\ list[p].next # None =>
             /\ Cardinality(list[p].files) = PageSize
             /\ list[p].next \in list[p].files
             /\ \A k \in list[p].files : k <= list[p].next
        /\ \A q \in DOMAIN list : p < q =>
             list[p].next # None /\ \A k \in list[q].files : list[p].next < k

\* A list has the files that were there all the time, up to its cursor.
Complete(list, keep) ==
    list # <<>> =>
        \A k \in keep \cap Supported :
            Cursor(list) = None \/ k <= Cursor(list) =>
                \E p \in DOMAIN list : k \in list[p].files

\* What is loaded when: the next page behind a cursor, or all pages, again behind a cursor.
FetchOK ==
    /\ call.busy <=> fetch # "none"
    /\ fetch # "all" => fresh = <<>>
    /\ fetch = "next" => pages # <<>>
    /\ fetch # "none" /\ Base # <<>> => Cursor(Base) # None

\* list_files is between the cursor it was given and the last key it has seen, and has all
\* the files in between.
CallOK ==
    call.busy =>
        /\ Cursor(Base) <= call.after
        /\ Cardinality(call.files) < PageSize
        /\ \A k \in call.files : Cursor(Base) < k /\ k <= call.after
        /\ \A k \in Keep \cap Supported :
             Cursor(Base) < k /\ k <= call.after => k \in call.files

ListInv ==
    /\ TypeOK
    /\ steady \subseteq bucket /\ renewed \subseteq bucket
    /\ InOrder(pages) /\ InOrder(fresh)
    /\ Complete(pages, steady) /\ Complete(fresh, renewed)
    /\ FetchOK /\ CallOK

-----------------------------------------------------------------------------
(* Finite sets of keys *)

UpTo(S, k) == {l \in S : l <= k}

\* The more elements are below it, the greater an element is.
LEMMA CountUpTo ==
  ASSUME NEW S \in SUBSET Nat, IsFiniteSet(S)
  PROVE  /\ \A k \in Nat : /\ IsFiniteSet(UpTo(S, k)) /\ Cardinality(UpTo(S, k)) \in Nat
                           /\ Cardinality(UpTo(S, k)) <= Cardinality(S)
         /\ \A k \in S : Cardinality(UpTo(S, k)) \in 1..Cardinality(S)
         /\ \A k, l \in S : k < l => Cardinality(UpTo(S, k)) < Cardinality(UpTo(S, l))
<1>0. Cardinality(S) \in Nat
  BY FS_CardinalityType
<1>1. ASSUME NEW k \in Nat
      PROVE  /\ IsFiniteSet(UpTo(S, k)) /\ Cardinality(UpTo(S, k)) \in Nat
             /\ Cardinality(UpTo(S, k)) <= Cardinality(S)
  <2>1. UpTo(S, k) \in SUBSET S
    BY DEF UpTo
  <2> QED
    BY <2>1, FS_Subset, FS_CardinalityType
<1>2. ASSUME NEW k \in S PROVE Cardinality(UpTo(S, k)) \in 1..Cardinality(S)
  <2>1. k \in UpTo(S, k) /\ k \in Nat
    BY DEF UpTo
  <2>2. Cardinality(UpTo(S, k)) # 0
    BY <1>1, <2>1, FS_EmptySet
  <2> QED
    BY <1>0, <1>1, <2>1, <2>2
<1>3. ASSUME NEW k \in S, NEW l \in S, k < l
      PROVE  Cardinality(UpTo(S, k)) < Cardinality(UpTo(S, l))
  <2>1. k \in Nat /\ l \in Nat /\ \A x \in S : x \in Nat
    OBVIOUS
  <2>2. \A x \in S : x <= k => x <= l
    BY <1>3, <2>1
  <2>3. UpTo(S, k) \in SUBSET UpTo(S, l)
    BY <2>2 DEF UpTo
  <2>4. l \in UpTo(S, l) /\ l \notin UpTo(S, k)
    BY <1>3, <2>1 DEF UpTo
  <2>5. /\ Cardinality(UpTo(S, k)) <= Cardinality(UpTo(S, l))
        /\ Cardinality(UpTo(S, k)) # Cardinality(UpTo(S, l))
    BY <1>1, <2>1, <2>3, <2>4, FS_Subset
  <2> QED
    BY <1>1, <2>1, <2>5
<1> QED
  BY <1>1, <1>2, <1>3

\* A finite set of keys has a first and a last one.
LEMMA Ends ==
  ASSUME NEW S \in SUBSET Nat, IsFiniteSet(S), S # {}
  PROVE  /\ Least(S) \in S /\ \A l \in S : Least(S) <= l
         /\ Greatest(S) \in S /\ \A l \in S : l <= Greatest(S)
<1> DEFINE n == Cardinality(S)
           f == [k \in S |-> Cardinality(UpTo(S, k))]
<1>1. n \in Nat \ {0}
  BY FS_CardinalityType, FS_EmptySet
<1>2. f \in Injection(S, 1..n)
  <2>1. f \in [S -> 1..n]
    BY CountUpTo
  <2>2. ASSUME NEW a \in S, NEW b \in S, f[a] = f[b] PROVE a = b
    <3>1. a \in Nat /\ b \in Nat /\ f[a] \in Nat /\ f[b] \in Nat
      BY CountUpTo
    <3>2. ~(a < b) /\ ~(b < a)
      BY <2>2, <3>1, CountUpTo
    <3> QED
      BY <3>1, <3>2
  <2> QED
    BY <2>1, <2>2 DEF Injection, IsInjective
<1>3. IsFiniteSet(1..n) /\ Cardinality(1..n) = n
  BY <1>1, FS_Interval
<1>4. f \in Surjection(S, 1..n)
  BY <1>2, <1>3, FS_Injection
<1>5. 1 \in 1..n /\ n \in 1..n
  BY <1>1
<1>6. PICK a \in S : Cardinality(UpTo(S, a)) = 1
  BY <1>4, <1>5 DEF Surjection
<1>7. PICK b \in S : Cardinality(UpTo(S, b)) = n
  BY <1>4, <1>5 DEF Surjection
<1>8. ASSUME NEW l \in S PROVE a <= l /\ l <= b
  <2>1. a \in Nat /\ b \in Nat /\ l \in Nat
    OBVIOUS
  <2>2. Cardinality(UpTo(S, l)) \in 1..n
    BY CountUpTo
  <2>3. ~(l < a)
    <3>1. SUFFICES ASSUME l < a PROVE FALSE
      OBVIOUS
    <3>2. Cardinality(UpTo(S, l)) < 1
      BY <1>6, <3>1, CountUpTo
    <3> QED
      BY <2>2, <3>2
  <2>4. ~(b < l)
    <3>1. SUFFICES ASSUME b < l PROVE FALSE
      OBVIOUS
    <3>2. n < Cardinality(UpTo(S, l))
      BY <1>7, <3>1, CountUpTo
    <3> QED
      BY <1>1, <2>2, <3>2
  <2> QED
    BY <2>1, <2>3, <2>4
<1>9. Least(S) \in S /\ \A l \in S : Least(S) <= l
  BY <1>6, <1>8 DEF Least
<1>10. Greatest(S) \in S /\ \A l \in S : l <= Greatest(S)
  BY <1>7, <1>8 DEF Greatest
<1> QED
  BY <1>9, <1>10

\* The first n elements of a set: with each one those before it, n of them or all.
LEMMA FirstOfSet ==
  ASSUME NEW S \in SUBSET Nat, IsFiniteSet(S), NEW n \in Nat
  PROVE  /\ FirstOf(S, n) \subseteq S /\ IsFiniteSet(FirstOf(S, n))
         /\ \A k \in FirstOf(S, n) : \A l \in S : l <= k => l \in FirstOf(S, n)
         /\ Cardinality(FirstOf(S, n)) \in Nat /\ Cardinality(FirstOf(S, n)) <= n
         /\ Cardinality(FirstOf(S, n)) < n => FirstOf(S, n) = S
<1> DEFINE F == FirstOf(S, n)
<1>1. F \in SUBSET S /\ \A k \in S : k \in F <=> Cardinality(UpTo(S, k)) <= n
  BY DEF FirstOf, UpTo
<1>2. IsFiniteSet(F) /\ Cardinality(F) \in Nat
  BY <1>1, FS_Subset, FS_CardinalityType
<1>3. ASSUME NEW k \in F, NEW l \in S, l <= k PROVE l \in F
  <2>1. k \in Nat /\ l \in Nat /\ k \in S
    BY <1>1
  <2>2. Cardinality(UpTo(S, k)) \in Nat /\ Cardinality(UpTo(S, l)) \in Nat
    BY <2>1, CountUpTo
  <2>3. Cardinality(UpTo(S, l)) <= Cardinality(UpTo(S, k))
    <3>1. CASE l = k
      BY <2>2, <3>1
    <3>2. CASE l < k
      BY <2>1, <2>2, <3>2, CountUpTo
    <3> QED
      BY <1>3, <2>1, <3>1, <3>2
  <2>4. Cardinality(UpTo(S, k)) <= n
    BY <1>1, <2>1
  <2> QED
    BY <1>1, <2>2, <2>3, <2>4
<1> HIDE DEF F
<1>4. Cardinality(F) <= n
  <2>1. CASE F = {}
    BY <2>1, FS_EmptySet
  <2>2. CASE F # {}
    <3>1. F \in SUBSET Nat
      BY <1>1
    <3>2. Greatest(F) \in F /\ \A l \in F : l <= Greatest(F)
      BY <1>2, <2>2, <3>1, Ends
    <3>3. F = UpTo(S, Greatest(F))
      BY <1>1, <1>3, <3>2 DEF UpTo
    <3> QED
      BY <1>1, <3>2, <3>3
  <2> QED
    BY <2>1, <2>2
<1>5. ASSUME F # S PROVE Cardinality(F) >= n
  <2> DEFINE R == S \ F
             m == Least(R)
  <2>1. R \in SUBSET Nat /\ R # {} /\ IsFiniteSet(R)
    BY <1>1, <1>5, FS_Difference
  <2>2. m \in R /\ \A l \in R : m <= l
    BY <2>1, Ends
  <2>3. m \in S /\ m \notin F /\ m \in Nat
    BY <2>2
  <2> HIDE DEF m
  <2>4. UpTo(S, m) = F \cup {m}
    <3>1. ASSUME NEW l \in F PROVE l <= m
      <4>1. l \in Nat /\ l \in S
        BY <1>1
      <4>2. ~(m <= l)
        BY <1>3, <2>3
      <4> QED
        BY <2>3, <4>1, <4>2
    <3>2. ASSUME NEW l \in S, l <= m, l \notin F PROVE l = m
      <4>1. l \in Nat /\ m <= l
        BY <2>2, <3>2
      <4> QED
        BY <2>3, <3>2, <4>1
    <3>3. m <= m
      BY <2>3
    <3> QED
      BY <1>1, <2>3, <3>1, <3>2, <3>3 DEF UpTo
  <2>5. Cardinality(UpTo(S, m)) = Cardinality(F) + 1
    BY <1>2, <2>3, <2>4, FS_AddElement
  <2>6. ~(Cardinality(UpTo(S, m)) <= n)
    BY <1>1, <2>3
  <2> QED
    BY <1>2, <2>5, <2>6
<1> QED
  BY <1>1, <1>2, <1>3, <1>4, <1>5 DEF F

-----------------------------------------------------------------------------
(* Lists of pages *)

LEMMA KeysAreNumbers ==
  /\ Keys \in SUBSET Nat /\ IsFiniteSet(Keys) /\ Supported \in SUBSET Keys
  /\ None \notin Keys /\ \A k \in Keys : k \in Nat /\ None < k
  /\ \A k \in Keys \cup {None} : k \in Nat
  /\ PageSize \in Nat \ {0} /\ MaxChanges \in Nat
<1>1. /\ Keys \subseteq Nat \ {0} /\ IsFiniteSet(Keys) /\ Supported \subseteq Keys
      /\ PageSize \in Nat \ {0} /\ MaxChanges \in Nat
  BY FileListingAssumption
<1>2. \A k \in Keys : k \in Nat /\ None < k
  BY <1>1 DEF None
<1> QED
  BY <1>1, <1>2 DEF None

LEMMA PageFields ==
  ASSUME NEW page \in Page
  PROVE  /\ page.files \in SUBSET Supported /\ page.next \in Supported \cup {None}
         /\ page.next \in Nat /\ \A k \in page.files : k \in Nat /\ None < k
<1>1. page.files \in SUBSET Supported /\ page.next \in Supported \cup {None}
  BY DEF Page
<1> QED
  BY <1>1, KeysAreNumbers

LEMMA LastPage ==
  ASSUME NEW list \in Seq(Page)
  PROVE  /\ Cursor(list) \in Supported \cup {None} /\ Cursor(list) \in Nat
         /\ Len(list) \in Nat /\ DOMAIN list = 1..Len(list)
         /\ \A p \in DOMAIN list : list[p] \in Page
         /\ list = <<>> => Cursor(list) = None /\ DOMAIN list = {}
         /\ list # <<>> => Len(list) \in DOMAIN list /\ Cursor(list) = list[Len(list)].next
<1>1. Len(list) \in Nat /\ DOMAIN list = 1..Len(list)
      /\ \A p \in DOMAIN list : list[p] \in Page
  BY LenProperties, ElementOfSeq
<1>2. list # <<>> => Len(list) \in DOMAIN list
  <2>1. list # <<>> => Len(list) # 0
    BY EmptySeq
  <2> QED
    BY <1>1, <2>1
<1>3. list = <<>> => Cursor(list) = None /\ DOMAIN list = {}
  <2>1. Len(<<>>) = 0
    BY EmptySeq
  <2> QED
    BY <1>1, <2>1 DEF Cursor
<1>4. list # <<>> => Cursor(list) = list[Len(list)].next
  BY DEF Cursor
<1>5. Cursor(list) \in Supported \cup {None} /\ Cursor(list) \in Nat
  <2>1. CASE list = <<>>
    BY <1>3, <2>1 DEF None
  <2>2. CASE list # <<>>
    <3>1. list[Len(list)] \in Page
      BY <1>1, <1>2, <2>2
    <3> QED
      BY <1>4, <2>2, <3>1, PageFields
  <2> QED
    BY <2>1, <2>2
<1> QED
  BY <1>1, <1>2, <1>3, <1>4, <1>5

LEMMA PageAdded ==
  ASSUME NEW list \in Seq(Page), NEW page \in Page
  PROVE  LET longer == Append(list, page)
             last   == Len(list) + 1
         IN  /\ longer \in Seq(Page) /\ longer # <<>> /\ Len(longer) = last
             /\ DOMAIN longer = (DOMAIN list) \cup {last}
             /\ \A p \in DOMAIN list : longer[p] = list[p] /\ p \in Nat /\ p < last
             /\ longer[last] = page /\ last \in Nat
             /\ Cursor(longer) = page.next
<1> DEFINE longer == Append(list, page)
           last   == Len(list) + 1
<1>1. /\ longer \in Seq(Page) /\ longer # <<>> /\ Len(longer) = last
      /\ \A p \in 1..Len(list) : longer[p] = list[p]
      /\ longer[last] = page
  BY AppendProperties
<1>2. Len(list) \in Nat /\ DOMAIN list = 1..Len(list) /\ DOMAIN longer = 1..Len(longer)
  BY <1>1, LastPage
<1>3. last \in Nat /\ 1..last = (1..Len(list)) \cup {last}
      /\ \A p \in 1..Len(list) : p \in Nat /\ p < last
  BY <1>2
<1> HIDE DEF longer, last
<1>4. Cursor(longer) = page.next
  BY <1>1 DEF Cursor
<1> QED
  BY <1>1, <1>2, <1>3, <1>4 DEF longer, last

\* A page of files behind the cursor continues a list in order ...
LEMMA OrderKept ==
  ASSUME NEW list \in Seq(Page), NEW page \in Page, InOrder(list),
         list # <<>> => Cursor(list) # None,
         \A k \in page.files : Cursor(list) < k,
         Cardinality(page.files) <= PageSize,
         page.next # None => /\ Cardinality(page.files) = PageSize
                             /\ page.next \in page.files
                             /\ \A k \in page.files : k <= page.next
  PROVE  InOrder(Append(list, page))
<1> DEFINE longer == Append(list, page)
           last   == Len(list) + 1
<1>1. /\ DOMAIN longer = (DOMAIN list) \cup {last} /\ last \in Nat
      /\ \A p \in DOMAIN list : longer[p] = list[p] /\ p \in Nat /\ p < last
      /\ longer[last] = page
  BY PageAdded
<1> HIDE DEF longer, last
<1>2. ASSUME NEW p \in DOMAIN list
      PROVE  list[p].next # None /\ \A k \in page.files : list[p].next < k
  <2>1. /\ list # <<>> /\ Len(list) \in DOMAIN list /\ Len(list) \in Nat
        /\ Cursor(list) = list[Len(list)].next /\ DOMAIN list = 1..Len(list)
        /\ Cursor(list) # None
    BY LastPage
  <2>2. CASE p = Len(list)
    BY <2>1, <2>2
  <2>3. CASE p # Len(list)
    <3>1. p < Len(list)
      BY <2>1, <2>3
    <3>2. list[p].next # None /\ \A k \in list[Len(list)].files : list[p].next < k
      BY <2>1, <3>1 DEF InOrder
    <3>3. Cursor(list) \in list[Len(list)].files
      BY <2>1 DEF InOrder
    <3>4. list[p].next < Cursor(list) /\ list[p].next \in Nat /\ Cursor(list) \in Nat
      BY <3>2, <3>3, LastPage, PageFields
    <3>5. ASSUME NEW k \in page.files PROVE list[p].next < k
      <4>1. k \in Nat /\ Cursor(list) < k
        BY PageFields
      <4> QED
        BY <3>4, <4>1
    <3> QED
      BY <3>2, <3>5
  <2> QED
    BY <2>2, <2>3
<1>3. ASSUME NEW p \in DOMAIN longer
      PROVE  /\ Cardinality(longer[p].files) <= PageSize
             /\ longer[p].next # None =>
                  /\ Cardinality(longer[p].files) = PageSize
                  /\ longer[p].next \in longer[p].files
                  /\ \A k \in longer[p].files : k <= longer[p].next
  BY <1>1 DEF InOrder
<1>4. ASSUME NEW p \in DOMAIN longer, NEW q \in DOMAIN longer, p < q
      PROVE  longer[p].next # None /\ \A k \in longer[q].files : longer[p].next < k
  <2>1. p # last
    BY <1>1, <1>4
  <2>2. p \in DOMAIN list
    BY <1>1, <2>1
  <2>3. CASE q = last
    BY <1>1, <1>2, <2>2, <2>3
  <2>4. CASE q # last
    <3>1. q \in DOMAIN list
      BY <1>1, <2>4
    <3> QED
      BY <1>1, <1>4, <2>2, <3>1 DEF InOrder
  <2> QED
    BY <2>3, <2>4
<1> QED
  BY <1>3, <1>4 DEF InOrder, longer

\* ... and with all that was there between the cursors, it misses nothing.
LEMMA CompleteKept ==
  ASSUME NEW list \in Seq(Page), NEW page \in Page, NEW keep \in SUBSET Keys,
         Complete(list, keep), list # <<>> => Cursor(list) # None,
         \A k \in keep \cap Supported :
            Cursor(list) < k /\ (page.next = None \/ k <= page.next) => k \in page.files
  PROVE  Complete(Append(list, page), keep)
<1> DEFINE longer == Append(list, page)
           last   == Len(list) + 1
<1>1. /\ DOMAIN longer = (DOMAIN list) \cup {last}
      /\ \A p \in DOMAIN list : longer[p] = list[p]
      /\ longer[last] = page /\ Cursor(longer) = page.next
  BY PageAdded
<1> HIDE DEF longer, last
<1>2. ASSUME NEW k \in keep \cap Supported, Cursor(longer) = None \/ k <= Cursor(longer)
      PROVE  \E p \in DOMAIN longer : k \in longer[p].files
  <2>1. k \in Nat /\ None < k /\ Cursor(list) \in Nat
    BY KeysAreNumbers, LastPage
  <2>2. CASE Cursor(list) < k
    BY <1>1, <1>2, <2>2
  <2>3. CASE k <= Cursor(list)
    <3>1. Cursor(list) # None
      BY <2>1, <2>3 DEF None
    <3>2. list # <<>>
      BY <3>1, LastPage
    <3>3. \E p \in DOMAIN list : k \in list[p].files
      BY <2>3, <3>2 DEF Complete
    <3> QED
      BY <1>1, <3>3
  <2> QED
    BY <2>1, <2>2, <2>3
<1> QED
  BY <1>2 DEF Complete, longer

-----------------------------------------------------------------------------
(* One turn of list_files *)

FilesOf(n)   == Collect(Contents(n))
Truncated(n) == \E k \in bucket : k > call.after /\ k \notin Contents(n)
Ended(n)     == Exhausted(FilesOf(n), Contents(n), Truncated(n))

\* What a turn finds, in order.
LEMMA TurnFiles ==
  ASSUME TypeOK, CallOK, call.busy, NEW n \in 1..PageSize
  PROVE  LET contents == Contents(n)
             more     == FirstOf(contents \cap Supported, PageSize - Cardinality(call.files))
             files    == FilesOf(n)
         IN  /\ contents \in SUBSET {k \in bucket : k > call.after} /\ IsFiniteSet(contents)
             /\ \A k \in contents : \A l \in bucket : l > call.after /\ l <= k => l \in contents
             /\ contents = {} => ~\E k \in bucket : k > call.after
             /\ files = call.files \cup more /\ files \in SUBSET Supported
             /\ more \subseteq contents \cap Supported
             /\ \A k \in more : \A l \in contents \cap Supported : l <= k => l \in more
             /\ IsFiniteSet(files) /\ Cardinality(files) \in Nat
             /\ Cardinality(files) <= PageSize
             /\ Cardinality(files) < PageSize => more = contents \cap Supported
             /\ call.after \in Nat
             /\ \A k \in call.files : k <= call.after
<1> DEFINE contents == Contents(n)
           rest     == {k \in bucket : k > call.after}
           room     == PageSize - Cardinality(call.files)
           found    == contents \cap Supported
           more     == FirstOf(found, room)
           files    == FilesOf(n)
<1>1. /\ bucket \in SUBSET Keys /\ call.files \in SUBSET Supported
      /\ call.after \in Keys \cup {None} /\ call.after \in Nat
  <2>1. /\ bucket \in SUBSET Keys /\ call.files \in SUBSET Supported
        /\ call.after \in Keys \cup {None}
    BY DEF TypeOK
  <2> QED
    BY <2>1, KeysAreNumbers
<1>2. rest \in SUBSET Nat /\ IsFiniteSet(rest) /\ n \in Nat /\ n # 0
  <2>1. rest \in SUBSET Keys
    BY <1>1
  <2> QED
    <3>1. rest \in SUBSET Nat /\ IsFiniteSet(rest)
      BY <2>1, KeysAreNumbers, FS_Subset
    <3>2. n \in Nat /\ n # 0
      BY KeysAreNumbers
    <3> QED
      BY <3>1, <3>2
<1>3. IsFiniteSet(call.files) /\ Cardinality(call.files) \in Nat
  BY <1>1, KeysAreNumbers, FS_Subset, FS_CardinalityType
<1>4. Cardinality(call.files) < PageSize /\ \A k \in call.files : k <= call.after
  BY DEF CallOK
<1>5. room \in Nat /\ Cardinality(call.files) + room = PageSize
  BY <1>3, <1>4, KeysAreNumbers
<1>6. contents = FirstOf(rest, n)
  BY DEF Contents
<1>7. files = call.files \cup more
  BY DEF FilesOf, Collect
<1> HIDE DEF contents, rest, room, more, files
<1>8. /\ contents \in SUBSET rest /\ IsFiniteSet(contents)
      /\ \A k \in contents : \A l \in rest : l <= k => l \in contents
      /\ contents = {} => rest = {}
  <2>1. Cardinality({}) = 0 /\ 0 < n
    BY <1>2, FS_EmptySet
  <2> QED
    BY <1>2, <1>6, <2>1, FirstOfSet
<1>9. found \in SUBSET Nat /\ IsFiniteSet(found)
  BY <1>2, <1>8, FS_Subset
<1>10. /\ more \subseteq found /\ IsFiniteSet(more) /\ Cardinality(more) \in Nat
       /\ \A k \in more : \A l \in found : l <= k => l \in more
       /\ Cardinality(more) <= room
       /\ Cardinality(more) < room => more = found
  BY <1>5, <1>9, FirstOfSet DEF more
<1>11. call.files \cap more = {}
  <2>1. \A k \in more : k > call.after /\ k \in Nat
    BY <1>8, <1>9, <1>10 DEF rest
  <2>2. \A k \in call.files : k \in Nat
    BY <1>1, KeysAreNumbers
  <2> QED
    BY <1>1, <1>4, <2>1, <2>2
<1>12. IsFiniteSet(files) /\ Cardinality(files) = Cardinality(call.files) + Cardinality(more)
  <2>1. Cardinality(call.files \cap more) = 0
    BY <1>11, FS_EmptySet
  <2> QED
    BY <1>3, <1>7, <1>10, <2>1, FS_Union
<1>13. /\ Cardinality(files) \in Nat /\ Cardinality(files) <= PageSize
       /\ Cardinality(files) < PageSize => more = found
  BY <1>3, <1>5, <1>10, <1>12, KeysAreNumbers
<1>14. files \in SUBSET Supported
  BY <1>1, <1>7, <1>10
<1> QED
  BY <1>1, <1>4, <1>7, <1>8, <1>10, <1>12, <1>13, <1>14 DEF contents, rest, more, files, room

\* A turn that leaves room goes on behind the last key it saw, and missed no file before it.
LEMMA TurnGoesOn ==
  ASSUME TypeOK, CallOK, call.busy, Keep \subseteq bucket, NEW n \in 1..PageSize,
         Cardinality(FilesOf(n)) < PageSize
  PROVE  LET after == Resume(FilesOf(n), Contents(n))
         IN  /\ after \in Keys \cup {None} /\ call.after <= after
             /\ \A k \in FilesOf(n) : Cursor(Base) < k /\ k <= after
             /\ \A k \in Keep \cap Supported :
                  Cursor(Base) < k /\ k <= after => k \in FilesOf(n)
<1> DEFINE contents == Contents(n)
           files    == FilesOf(n)
           after    == Resume(files, contents)
<1>0. /\ contents \in SUBSET {k \in bucket : k > call.after} /\ IsFiniteSet(contents)
      /\ \A k \in contents : \A l \in bucket : l > call.after /\ l <= k => l \in contents
      /\ files = call.files \cup (contents \cap Supported)
      /\ call.after \in Nat
  BY TurnFiles
<1>1. /\ bucket \in SUBSET Keys /\ call.after \in Keys \cup {None}
      /\ call.files \in SUBSET Supported
  BY DEF TypeOK
<1>2. contents \in SUBSET Nat /\ contents \in SUBSET Keys
  BY <1>0, <1>1, KeysAreNumbers
<1>3. /\ after \in Keys \cup {None} /\ call.after <= after
      /\ \A k \in contents : k <= after
      /\ (contents = {} /\ after = call.after) \/ after \in contents
  <2>1. CASE contents = {}
    BY <1>0, <1>1, <2>1 DEF Resume
  <2>2. CASE contents # {}
    <3>1. Greatest(contents) \in contents /\ \A k \in contents : k <= Greatest(contents)
      BY <1>0, <1>2, <2>2, Ends
    <3>2. Greatest(contents) > call.after /\ Greatest(contents) \in Nat
      BY <1>0, <1>2, <3>1
    <3> QED
      BY <1>0, <1>2, <2>2, <3>1, <3>2 DEF Resume
  <2> QED
    BY <2>1, <2>2
<1>4. Cursor(Base) \in Nat /\ Cursor(Base) <= call.after /\ after \in Nat
  <2>1. Base \in Seq(Page)
    BY DEF Base, TypeOK
  <2> QED
    BY <1>3, <2>1, LastPage, KeysAreNumbers DEF CallOK
<1> HIDE DEF contents, files, after
<1>5. ASSUME NEW k \in files PROVE Cursor(Base) < k /\ k <= after
  <2>1. CASE k \in call.files
    <3>1. Cursor(Base) < k /\ k <= call.after /\ k \in Nat
      BY <1>1, <2>1, KeysAreNumbers DEF CallOK
    <3> QED
      BY <1>0, <1>3, <1>4, <3>1
  <2>2. CASE k \in contents
    <3>1. k > call.after /\ k <= after /\ k \in Nat
      BY <1>0, <1>2, <1>3, <2>2
    <3> QED
      BY <1>0, <1>4, <3>1
  <2> QED
    BY <1>0, <2>1, <2>2
<1>6. ASSUME NEW k \in Keep \cap Supported, Cursor(Base) < k, k <= after PROVE k \in files
  <2>1. k \in bucket /\ k \in Nat /\ k \in Supported
    BY KeysAreNumbers
  <2>2. CASE k <= call.after
    BY <1>0, <1>6, <2>2 DEF CallOK
  <2>3. CASE k > call.after
    <3>1. after \in contents
      BY <1>0, <1>3, <1>6, <2>1, <2>3
    <3> QED
      BY <1>0, <1>6, <2>1, <2>3, <3>1
  <2> QED
    BY <1>0, <2>1, <2>2, <2>3
<1> QED
  BY <1>3, <1>5, <1>6 DEF files, contents, after

\* A page begins behind the cursor it was asked for, has its last file for a cursor, and has
\* all the files that were there in between.
LEMMA TurnEnds ==
  ASSUME TypeOK, CallOK, call.busy, Keep \subseteq bucket, NEW n \in 1..PageSize,
         ~(Cardinality(FilesOf(n)) < PageSize /\ ~Ended(n))
  PROVE  LET files == FilesOf(n)
             next  == NextCursor(files, Contents(n), Ended(n))
         IN  /\ [files |-> files, next |-> next] \in Page
             /\ Cardinality(files) <= PageSize
             /\ \A k \in files : Cursor(Base) < k
             /\ next # None => /\ Cardinality(files) = PageSize
                               /\ next \in files /\ \A k \in files : k <= next
             /\ \A k \in Keep \cap Supported :
                  Cursor(Base) < k /\ (next = None \/ k <= next) => k \in files
<1> DEFINE contents == Contents(n)
           found    == contents \cap Supported
           more     == FirstOf(found, PageSize - Cardinality(call.files))
           files    == FilesOf(n)
           next     == NextCursor(files, contents, Ended(n))
<1>0. /\ contents \in SUBSET {k \in bucket : k > call.after} /\ IsFiniteSet(contents)
      /\ \A k \in contents : \A l \in bucket : l > call.after /\ l <= k => l \in contents
      /\ contents = {} => ~\E k \in bucket : k > call.after
      /\ files = call.files \cup more /\ files \in SUBSET Supported
      /\ more \subseteq found
      /\ \A k \in more : \A l \in found : l <= k => l \in more
      /\ IsFiniteSet(files) /\ Cardinality(files) \in Nat
      /\ Cardinality(files) <= PageSize
      /\ Cardinality(files) < PageSize => more = found
      /\ call.after \in Nat
      /\ \A k \in call.files : k <= call.after
  BY TurnFiles
<1>1. /\ bucket \in SUBSET Keys /\ call.files \in SUBSET Supported
      /\ files \in SUBSET Nat /\ contents \in SUBSET Nat /\ \A k \in files : k # None
  <2>1. bucket \in SUBSET Keys /\ call.files \in SUBSET Supported
    BY DEF TypeOK
  <2> QED
    BY <1>0, <2>1, KeysAreNumbers
<1>2. Cursor(Base) \in Nat /\ Cursor(Base) <= call.after
  <2>1. Base \in Seq(Page)
    BY DEF Base, TypeOK
  <2> QED
    BY <2>1, LastPage DEF CallOK
<1>3. files # {} => Greatest(files) \in files /\ \A k \in files : k <= Greatest(files)
  BY <1>0, <1>1, Ends
<1>4. Ended(n) => \/ /\ Cardinality(files) = PageSize
                     /\ Greatest(files) = Greatest(contents) /\ ~Truncated(n)
                  \/ /\ Cardinality(files) # PageSize
                     /\ ~Truncated(n) \/ contents = {}
  BY DEF Ended, Exhausted
<1>5. next = IF files # {} /\ ~Ended(n) THEN Greatest(files) ELSE None
  BY DEF NextCursor
<1>6. ~Truncated(n) => \A k \in bucket : k > call.after => k \in contents
  BY DEF Truncated
<1>7. ~(Cardinality(files) < PageSize /\ ~Ended(n))
  OBVIOUS
<1> HIDE DEF contents, found, more, files, next
<1>8. ASSUME NEW k \in files PROVE Cursor(Base) < k
  <2>1. CASE k \in call.files
    BY <2>1 DEF CallOK
  <2>2. CASE k \in contents
    <3>1. k > call.after /\ k \in Nat
      BY <1>0, <1>1, <2>2
    <3> QED
      BY <1>0, <1>2, <3>1
  <2> QED
    BY <1>0, <2>1, <2>2 DEF found
<1>9. ~Ended(n) => Cardinality(files) = PageSize /\ files # {}
  <2>1. ~Ended(n) => Cardinality(files) = PageSize
    BY <1>0, <1>7, KeysAreNumbers
  <2>2. Cardinality({}) = 0 /\ PageSize # 0
    BY FS_EmptySet, KeysAreNumbers
  <2> QED
    BY <2>1, <2>2
<1>10. /\ next # None => /\ Cardinality(files) = PageSize /\ ~Ended(n)
                         /\ next = Greatest(files)
                         /\ next \in files /\ \A k \in files : k <= next
       /\ next = None => Ended(n)
       /\ next \in Supported \cup {None}
  BY <1>0, <1>1, <1>3, <1>5, <1>9
<1>11. ASSUME NEW k \in Keep \cap Supported, Cursor(Base) < k, next = None \/ k <= next
       PROVE  k \in files
  <2>1. k \in bucket /\ k \in Nat /\ k \in Supported
    BY KeysAreNumbers
  <2>2. CASE k <= call.after
    BY <1>0, <1>11, <2>2 DEF CallOK
  <2>3. CASE k > call.after
    \* A last file that S3 gave in this turn has all files before it.
    <3>1. ASSUME NEW g \in files, g \in contents, k <= g PROVE k \in files
      <4>1. g \in Nat /\ g > call.after
        BY <1>0, <1>1, <3>1
      <4>2. g \in more
        <5>1. g \notin call.files
          BY <1>0, <4>1
        <5> QED
          BY <1>0, <5>1
      <4>3. k \in found
        BY <1>0, <2>1, <2>3, <3>1 DEF found
      <4> QED
        BY <1>0, <3>1, <4>2, <4>3
    <3>2. CASE next # None
      <4>1. next \in files /\ k <= next /\ next \in Nat
        BY <1>1, <1>10, <1>11, <3>2
      <4>2. next \in contents
        <5>1. next \notin call.files
          BY <1>0, <2>1, <2>3, <4>1
        <5> QED
          BY <1>0, <4>1, <5>1 DEF found
      <4> QED
        BY <3>1, <4>1, <4>2
    <3>3. CASE next = None
      <4>1. ~Truncated(n) \/ contents = {}
        BY <1>4, <1>10, <3>3
      <4>2. k \in contents
        BY <1>0, <1>6, <2>1, <2>3, <4>1
      <4>3. k \in found
        BY <2>1, <4>2 DEF found
      <4>4. CASE Cardinality(files) # PageSize
        <5>1. Cardinality(files) < PageSize
          BY <1>0, <4>4, KeysAreNumbers
        <5> QED
          BY <1>0, <4>3, <5>1
      <4>5. CASE Cardinality(files) = PageSize
        <5>1. Greatest(contents) \in contents /\ k <= Greatest(contents)
          BY <1>0, <1>1, <4>2, Ends
        <5>2. files # {}
          BY <4>5, FS_EmptySet, KeysAreNumbers
        <5>3. Greatest(files) = Greatest(contents)
          BY <1>4, <1>10, <3>3, <4>5
        <5> QED
          BY <1>3, <3>1, <5>1, <5>2, <5>3
      <4> QED
        BY <4>4, <4>5
    <3> QED
      BY <3>2, <3>3
  <2> QED
    BY <1>0, <2>1, <2>2, <2>3
<1>12. [files |-> files, next |-> next] \in Page
  BY <1>0, <1>10 DEF Page
<1> QED
  BY <1>0, <1>8, <1>10, <1>11, <1>12 DEF files, contents, next

-----------------------------------------------------------------------------
(* The inductive invariant *)

LEMMA EmptyList ==
  /\ <<>> \in Seq(Page) /\ InOrder(<<>>) /\ \A keep : Complete(<<>>, keep)
  /\ Cursor(<<>>) = None
<1>1. <<>> \in Seq(Page)
  BY EmptySeq
<1> QED
  BY <1>1, LastPage DEF InOrder, Complete

\* With fewer objects to keep, a list is still complete.
LEMMA KeepLess ==
  ASSUME NEW list, NEW keep, NEW less \in SUBSET keep, Complete(list, keep)
  PROVE  Complete(list, less)
BY DEF Complete

LEMMA NoCallType == NoCall \in [files : SUBSET Supported, after : Keys \cup {None}, busy : BOOLEAN]
BY DEF NoCall

\* A request begins behind the cursor of its list.
LEMMA CallBegins ==
  ASSUME NEW list \in Seq(Page), Call(Cursor(list)), Base' = list
  PROVE  /\ call' \in [files : SUBSET Supported, after : Keys \cup {None}, busy : BOOLEAN]
         /\ call'.busy /\ CallOK'
<1>1. /\ Cursor(list) \in Supported \cup {None} /\ Cursor(list) \in Nat
      /\ Cardinality({}) = 0 /\ 0 < PageSize /\ Supported \subseteq Keys
  BY LastPage, FS_EmptySet, KeysAreNumbers
<1>2. call' = [files |-> {}, after |-> Cursor(list), busy |-> TRUE]
  BY DEF Call
<1>3. /\ call'.files = {} /\ call'.after = Cursor(list) /\ call'.busy
      /\ call' \in [files : SUBSET Supported, after : Keys \cup {None}, busy : BOOLEAN]
  BY <1>1, <1>2
<1>4. ASSUME NEW k \in (Keep \cap Supported)', Cursor(list) < k, k <= Cursor(list) PROVE FALSE
  <2>1. k \in Supported
    OBVIOUS
  <2>2. k \in Nat
    BY <2>1, KeysAreNumbers
  <2> QED
    BY <1>1, <1>4, <2>2
<1> QED
  BY <1>1, <1>3, <1>4 DEF CallOK

LEMMA ListSteps ==
  ASSUME ListInv, [Next]_vars
  PROVE  ListInv'
<1>0. /\ TypeOK /\ steady \subseteq bucket /\ renewed \subseteq bucket
      /\ InOrder(pages) /\ InOrder(fresh)
      /\ Complete(pages, steady) /\ Complete(fresh, renewed)
      /\ FetchOK /\ CallOK
  BY DEF ListInv
<1>t. /\ bucket \in SUBSET Keys /\ pages \in Seq(Page) /\ fresh \in Seq(Page)
      /\ steady \in SUBSET Keys /\ renewed \in SUBSET Keys
      /\ fetch \in {"none", "next", "all"}
  BY <1>0 DEF TypeOK
<1>e. InOrder(<<>>) /\ \A keep : Complete(<<>>, keep)
  BY EmptyList
<1>1. CASE Reload
  <2>1. /\ fetch = "none" /\ fetch' = "all" /\ fresh' = <<>> /\ Call(Cursor(<<>>))
        /\ renewed' = bucket /\ UNCHANGED <<bucket, changes, pages, failed, steady>>
    BY <1>1, EmptyList DEF Reload
  <2>2. Base' = <<>>
    BY <2>1 DEF Base
  <2>3. /\ call' \in [files : SUBSET Supported, after : Keys \cup {None}, busy : BOOLEAN]
        /\ call'.busy /\ CallOK'
    BY <2>1, <2>2, CallBegins, EmptyList
  <2>4. TypeOK'
    BY <1>0, <2>1, <2>3, EmptyList DEF TypeOK
  <2>5. FetchOK'
    BY <2>1, <2>2, <2>3 DEF FetchOK
  <2> QED
    BY <1>0, <1>e, <2>1, <2>3, <2>4, <2>5 DEF ListInv
<1>2. CASE LoadMore
  <2>1. /\ fetch' = "next" /\ fresh' = <<>> /\ Call(Cursor(pages)) /\ Cursor(pages) # None
        /\ renewed' = {} /\ UNCHANGED <<bucket, changes, pages, failed, steady>>
    BY <1>2 DEF LoadMore
  <2>2. Base' = pages /\ pages # <<>>
    BY <1>t, <2>1, LastPage DEF Base
  <2>3. /\ call' \in [files : SUBSET Supported, after : Keys \cup {None}, busy : BOOLEAN]
        /\ call'.busy /\ CallOK'
    BY <1>t, <2>1, <2>2, CallBegins
  <2>4. TypeOK'
    BY <1>0, <2>1, <2>3, EmptyList DEF TypeOK
  <2>5. FetchOK'
    BY <2>1, <2>2, <2>3 DEF FetchOK
  <2> QED
    BY <1>0, <1>e, <2>1, <2>3, <2>4, <2>5 DEF ListInv
<1>3. CASE LoadFails
  <2>1. /\ fetch' = "none" /\ fresh' = <<>> /\ failed' = TRUE /\ call' = NoCall
        /\ renewed' = {} /\ UNCHANGED <<bucket, changes, pages, steady>>
    BY <1>3 DEF LoadFails
  <2>2. ~call'.busy
    BY <2>1 DEF NoCall
  <2>3. TypeOK'
    BY <1>0, <2>1, EmptyList, NoCallType DEF TypeOK
  <2>4. FetchOK' /\ CallOK'
    BY <2>1, <2>2 DEF FetchOK, CallOK
  <2> QED
    BY <1>0, <1>e, <2>1, <2>3, <2>4 DEF ListInv
<1>4. CASE ListObjects
  <2>1. PICK n \in 1..PageSize :
          IF Cardinality(FilesOf(n)) < PageSize /\ ~Ended(n)
            THEN /\ call' = [call EXCEPT !.files = FilesOf(n),
                                         !.after = Resume(FilesOf(n), Contents(n))]
                 /\ UNCHANGED <<listVars, historyVars>>
            ELSE PageComes([files |-> FilesOf(n),
                            next |-> NextCursor(FilesOf(n), Contents(n), Ended(n))])
    BY <1>4 DEF ListObjects, FilesOf, Ended, Truncated
  <2>2. call.busy /\ UNCHANGED <<bucket, changes>>
    BY <1>4 DEF ListObjects
  <2>3. /\ Keep \subseteq bucket /\ Keep \in SUBSET Keys /\ Base \in Seq(Page)
        /\ InOrder(Base) /\ Complete(Base, Keep)
        /\ Base # <<>> => Cursor(Base) # None
        /\ fetch \in {"next", "all"}
    BY <1>0, <1>t, <2>2 DEF Keep, Base, FetchOK
  <2>4. CASE Cardinality(FilesOf(n)) < PageSize /\ ~Ended(n)
    <3> DEFINE after == Resume(FilesOf(n), Contents(n))
    <3>1. /\ call' = [call EXCEPT !.files = FilesOf(n), !.after = after]
          /\ UNCHANGED <<pages, fetch, fresh, failed, steady, renewed, bucket, changes>>
      BY <2>1, <2>2, <2>4 DEF listVars, historyVars
    <3>2. /\ after \in Keys \cup {None} /\ call.after <= after
          /\ \A k \in FilesOf(n) : Cursor(Base) < k /\ k <= after
          /\ \A k \in Keep \cap Supported :
               Cursor(Base) < k /\ k <= after => k \in FilesOf(n)
      BY <1>0, <2>2, <2>3, <2>4, TurnGoesOn
    <3>3. FilesOf(n) \in SUBSET Supported
      BY <1>0, <2>2, TurnFiles
    <3> HIDE DEF after
    <3>4. /\ call' \in [files : SUBSET Supported, after : Keys \cup {None}, busy : BOOLEAN]
          /\ call'.busy /\ call'.files = FilesOf(n) /\ call'.after = after
      BY <1>0, <2>2, <3>1, <3>2, <3>3 DEF TypeOK
    <3>5. TypeOK'
      BY <1>0, <3>1, <3>4 DEF TypeOK
    <3>6. Base' = Base /\ Keep' = Keep
      BY <3>1 DEF Base, Keep
    <3>7. Cursor(Base) <= after
      <4>1. Cursor(Base) \in Nat /\ Cursor(Base) <= call.after /\ call.after \in Nat
            /\ after \in Nat
        BY <1>0, <2>2, <2>3, <3>2, LastPage, KeysAreNumbers DEF CallOK, TypeOK
      <4> QED
        BY <3>2, <4>1
    <3>8. CallOK'
      BY <2>4, <3>2, <3>4, <3>6, <3>7 DEF CallOK
    <3>9. FetchOK'
      BY <1>0, <2>2, <3>1, <3>4, <3>6 DEF FetchOK
    <3> QED
      BY <1>0, <3>1, <3>5, <3>8, <3>9 DEF ListInv
  <2>5. CASE ~(Cardinality(FilesOf(n)) < PageSize /\ ~Ended(n))
    <3> DEFINE page == [files |-> FilesOf(n),
                        next |-> NextCursor(FilesOf(n), Contents(n), Ended(n))]
               longer == Append(Base, page)
    <3>1. PageComes(page)
      BY <2>1, <2>5
    <3>2. /\ page \in Page
          /\ Cardinality(page.files) <= PageSize
          /\ \A k \in page.files : Cursor(Base) < k
          /\ page.next # None => /\ Cardinality(page.files) = PageSize
                                 /\ page.next \in page.files
                                 /\ \A k \in page.files : k <= page.next
          /\ \A k \in Keep \cap Supported :
               Cursor(Base) < k /\ (page.next = None \/ k <= page.next) => k \in page.files
      BY <1>0, <2>2, <2>3, <2>5, TurnEnds
    <3> HIDE DEF page
    <3>3. /\ InOrder(longer) /\ Complete(longer, Keep)
      BY <2>3, <3>2, OrderKept, CompleteKept
    <3>4. longer \in Seq(Page) /\ longer # <<>> /\ Cursor(longer) = page.next
      BY <2>3, <3>2, PageAdded
    <3>5. NoCall \in [files : SUBSET Supported, after : Keys \cup {None}, busy : BOOLEAN]
          /\ ~NoCall.busy
      BY NoCallType DEF NoCall
    <3>6. CASE fetch = "next"
      <4>1. /\ pages' = longer /\ fetch' = "none" /\ failed' = FALSE /\ call' = NoCall
            /\ UNCHANGED <<fresh, steady, renewed, bucket, changes>>
        BY <2>2, <3>1, <3>6 DEF PageComes, historyVars, Base
      <4>2. InOrder(pages') /\ Complete(pages', steady') /\ fresh = <<>>
        BY <1>0, <3>3, <3>6, <4>1 DEF Keep, FetchOK
      <4>3. TypeOK'
        BY <1>0, <3>4, <3>5, <4>1 DEF TypeOK
      <4>4. FetchOK' /\ CallOK'
        BY <3>5, <4>1, <4>2 DEF FetchOK, CallOK
      <4> QED
        BY <1>0, <4>1, <4>2, <4>3, <4>4 DEF ListInv
    <3>7. CASE fetch = "all" /\ Len(longer) < Len(pages) /\ page.next # None
      <4>1. /\ fresh' = longer /\ Call(Cursor(longer))
            /\ UNCHANGED <<pages, fetch, failed, steady, renewed, bucket, changes>>
        BY <2>2, <3>1, <3>4, <3>7 DEF PageComes, historyVars, Base
      <4>2. Base' = longer
        BY <3>7, <4>1 DEF Base
      <4>3. /\ call' \in [files : SUBSET Supported, after : Keys \cup {None}, busy : BOOLEAN]
            /\ call'.busy /\ CallOK'
        BY <3>4, <4>1, <4>2, CallBegins
      <4>4. InOrder(fresh') /\ Complete(fresh', renewed')
        BY <3>3, <3>7, <4>1 DEF Keep
      <4>5. TypeOK'
        BY <1>0, <3>4, <4>1, <4>3 DEF TypeOK
      <4>6. FetchOK'
        BY <3>4, <3>7, <4>1, <4>2, <4>3 DEF FetchOK
      <4> QED
        BY <1>0, <4>1, <4>3, <4>4, <4>5, <4>6 DEF ListInv
    <3>8. CASE fetch = "all" /\ ~(Len(longer) < Len(pages) /\ page.next # None)
      <4>1. /\ pages' = longer /\ fresh' = <<>> /\ fetch' = "none" /\ failed' = FALSE
            /\ call' = NoCall /\ steady' = renewed /\ renewed' = {}
            /\ UNCHANGED <<bucket, changes>>
        BY <2>2, <3>1, <3>8 DEF PageComes, Base
      <4>2. InOrder(pages') /\ Complete(pages', steady')
        BY <3>3, <3>8, <4>1 DEF Keep
      <4>3. TypeOK'
        BY <1>0, <3>4, <3>5, <4>1, EmptyList DEF TypeOK
      <4>4. FetchOK' /\ CallOK'
        BY <3>5, <4>1 DEF FetchOK, CallOK
      <4> QED
        BY <1>0, <1>e, <4>1, <4>2, <4>3, <4>4 DEF ListInv
    <3> QED
      BY <2>3, <3>6, <3>7, <3>8
  <2> QED
    BY <2>4, <2>5
<1>5. ASSUME NEW k \in Keys, Put(k) PROVE ListInv'
  <2>1. /\ bucket' = bucket \cup {k} /\ changes' = changes + 1 /\ changes < MaxChanges
        /\ UNCHANGED <<pages, fetch, fresh, failed, call, steady, renewed>>
    BY <1>5 DEF Put, listVars, historyVars
  <2>2. changes' \in 0..MaxChanges
    <3>1. changes \in 0..MaxChanges /\ MaxChanges \in Nat
      BY <1>0, KeysAreNumbers DEF TypeOK
    <3> QED
      BY <2>1, <3>1
  <2>3. TypeOK'
    BY <1>0, <2>1, <2>2 DEF TypeOK
  <2>4. FetchOK' /\ CallOK'
    BY <1>0, <2>1 DEF FetchOK, CallOK, Base, Keep
  <2> QED
    BY <1>0, <2>1, <2>3, <2>4 DEF ListInv
<1>6. ASSUME NEW k \in Keys, Delete(k) PROVE ListInv'
  <2>1. /\ bucket' = bucket \ {k} /\ changes' = changes + 1 /\ changes < MaxChanges
        /\ steady' = steady \ {k} /\ renewed' = renewed \ {k}
        /\ UNCHANGED <<pages, fetch, fresh, failed, call>>
    BY <1>6 DEF Delete, listVars
  <2>2. changes' \in 0..MaxChanges
    <3>1. changes \in 0..MaxChanges /\ MaxChanges \in Nat
      BY <1>0, KeysAreNumbers DEF TypeOK
    <3> QED
      BY <2>1, <3>1
  <2>3. TypeOK'
    BY <1>0, <2>1, <2>2 DEF TypeOK
  <2>4. Base' = Base /\ Keep' = Keep \ {k}
    BY <2>1 DEF Base, Keep
  <2>5. FetchOK' /\ CallOK'
    BY <1>0, <2>1, <2>4 DEF FetchOK, CallOK
  <2>6. Complete(pages', steady') /\ Complete(fresh', renewed')
    BY <1>0, <2>1, KeepLess
  <2>7. steady' \subseteq bucket' /\ renewed' \subseteq bucket'
    BY <1>0, <2>1
  <2> QED
    BY <1>0, <2>1, <2>3, <2>5, <2>6, <2>7 DEF ListInv
<1>7. CASE UNCHANGED vars
  BY <1>0, <1>7 DEF vars, listVars, historyVars, ListInv, TypeOK, FetchOK, CallOK, Base, Keep
<1> QED
  BY <1>1, <1>2, <1>3, <1>4, <1>5, <1>6, <1>7 DEF Next

LEMMA InitialList == Init => ListInv
<1> SUFFICES ASSUME Init PROVE ListInv
  OBVIOUS
<1>1. /\ pages = <<>> /\ fresh = <<>> /\ fetch = "none" /\ call = NoCall
      /\ steady = {} /\ renewed = {} /\ ~NoCall.busy
  BY DEF Init, NoCall
<1>2. TypeOK
  <2>1. 0 \in 0..MaxChanges
    BY KeysAreNumbers
  <2> QED
    BY <2>1, EmptyList, NoCallType DEF Init, TypeOK
<1>3. FetchOK /\ CallOK
  BY <1>1 DEF FetchOK, CallOK
<1> QED
  BY <1>1, <1>2, <1>3, EmptyList DEF ListInv

-----------------------------------------------------------------------------
(* The theorems *)

\* The state of the list has its types.
THEOREM ListTypes == Spec => []TypeOK
<1>1. ListInv => TypeOK
  BY DEF ListInv
<1> QED
  BY <1>1, InitialList, ListSteps, PTL DEF Spec

\* Whatever is put and deleted in between, the list is in key order and has no file twice.
THEOREM ListInOrder == Spec => []InOrderOnce
<1>1. ListInv => InOrderOnce
  <2> SUFFICES ASSUME ListInv, NEW p \in DOMAIN pages, NEW q \in DOMAIN pages, p < q,
                      NEW k \in pages[p].files, NEW l \in pages[q].files
               PROVE  k < l
    BY DEF InOrderOnce
  <2>1. InOrder(pages) /\ pages \in Seq(Page)
    BY DEF ListInv, TypeOK
  <2>2. pages[p] \in Page /\ pages[q] \in Page
    BY <2>1, LastPage
  <2>3. k \in Nat /\ l \in Nat /\ pages[p].next \in Nat
    BY <2>2, PageFields
  <2>4. k <= pages[p].next /\ pages[p].next < l
    BY <2>1 DEF InOrder
  <2> QED
    BY <2>3, <2>4
<1> QED
  BY <1>1, InitialList, ListSteps, PTL DEF Spec

\* Only the last page of a list may be short.
THEOREM PagesAreFull == Spec => []OnlyLastPageShort
<1>1. ListInv => OnlyLastPageShort
  BY DEF ListInv, InOrder, OnlyLastPageShort
<1> QED
  BY <1>1, InitialList, ListSteps, PTL DEF Spec

\* A file that was there all the time is in the part of the list that has been loaded.
THEOREM NoFileSkipped == Spec => []NothingSkipped
<1>1. ListInv => NothingSkipped
  <2> SUFFICES ASSUME ListInv, pages # <<>>, NEW k \in steady \cap Supported,
                      Cursor(pages) = None \/ k <= Cursor(pages)
               PROVE  k \in Listed
    BY DEF NothingSkipped
  <2>1. \E p \in DOMAIN pages : k \in pages[p].files
    BY DEF ListInv, Complete
  <2> QED
    BY <2>1 DEF Listed
<1> QED
  BY <1>1, InitialList, ListSteps, PTL DEF Spec
=============================================================================
