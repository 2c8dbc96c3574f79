---------------------------- MODULE FileListing ----------------------------
(***************************************************************************)
(* Browsing a bucket (apps/files/services.py list_files, FileList.tsx).    *)
(* The browser loads the list page by page, each from the cursor the page  *)
(* before it gave, and can load it all again; the server puts a page       *)
(* together from as many S3 calls as it takes to find page_size supported  *)
(* files; and objects come and go all the while.                           *)
(***************************************************************************)
EXTENDS Integers, FiniteSets, Sequences

CONSTANTS
    Keys,       \* object keys, numbered in key order from 1
    Supported,  \* those that end in .csv or .xlsx (FileType.from_key)
    PageSize,   \* page_size
    MaxChanges  \* bound: objects put or deleted

ASSUME FileListingAssumption ==
    /\ Keys \subseteq Nat \ {0} /\ IsFiniteSet(Keys) /\ Supported \subseteq Keys
    /\ PageSize \in Nat \ {0} /\ MaxChanges \in Nat

VARIABLES
    bucket,   \* the objects in it
    changes,  \* how often it has changed
    pages,    \* the query data: the pages of the list
    fetch,    \* what the browser is loading: nothing, the next page, or all again
    fresh,    \* the pages of a reload so far
    failed,   \* the last load failed: an alert and a button instead of the list
    call,     \* list_files: files found, start_after, and is it at work
    steady,   \* history: objects there ever since the list in pages was begun
    renewed   \* history: objects there ever since the list in fresh was begun

listVars    == <<pages, fetch, fresh, failed>>
historyVars == <<steady, renewed>>
vars        == <<bucket, changes, listVars, call, historyVars>>

None == 0
Page == [files : SUBSET Supported, next : Supported \cup {None}]
NoCall == [files |-> {}, after |-> None, busy |-> FALSE]

TypeOK ==
    /\ bucket \subseteq Keys /\ changes \in 0..MaxChanges
    /\ pages \in Seq(Page) /\ fresh \in Seq(Page)
    /\ fetch \in {"none", "next", "all"} /\ failed \in BOOLEAN
    /\ call \in [files : SUBSET Supported, after : Keys \cup {None}, busy : BOOLEAN]
    /\ steady \subseteq Keys /\ renewed \subseteq Keys

Init ==
    /\ bucket \in SUBSET Keys /\ changes = 0
    /\ pages = <<>> /\ fresh = <<>>
    /\ fetch = "none" /\ failed = FALSE
    /\ call = NoCall
    /\ steady = {} /\ renewed = {}

Least(S)    == CHOOSE k \in S : \A l \in S : k <= l
Greatest(S) == CHOOSE k \in S : \A l \in S : l <= k

\* The n least elements of S, or all of them.
FirstOf(S, n) == {k \in S : Cardinality({l \in S : l <= k}) <= n}

-----------------------------------------------------------------------------
(* The browser *)

\* The cursor of a page after the last one of a list.
Cursor(list) == IF list = <<>> THEN None ELSE list[Len(list)].next

Call(cursor) == call' = [files |-> {}, after |-> cursor, busy |-> TRUE]

\* The list appears and loads its first page, or it is loaded anew: by the button of the
\* alert, or because the connection to the server is back.
Reload ==
    /\ fetch = "none"
    /\ fetch' = "all" /\ fresh' = <<>>
    /\ Call(None)
    /\ renewed' = bucket
    /\ UNCHANGED <<bucket, changes, pages, failed, steady>>

\* "Load more", shown while the last page has a cursor; it takes the place of a reload.
LoadMore ==
    /\ fetch # "next" /\ ~failed /\ Cursor(pages) # None
    /\ fetch' = "next" /\ fresh' = <<>>
    /\ Call(Cursor(pages))
    /\ renewed' = {}
    /\ UNCHANGED <<bucket, changes, pages, failed, steady>>

\* A page has come: at the end of the list, or as one of those that will replace it.
PageComes(page) ==
    LET list == Append(fresh, page)
    IN  CASE fetch = "next" ->
               /\ pages' = Append(pages, page)
               /\ fetch' = "none" /\ failed' = FALSE
               /\ call' = NoCall
               /\ UNCHANGED <<fresh, historyVars>>
          [] fetch = "all" /\ Len(list) < Len(pages) /\ page.next # None ->
               /\ fresh' = list
               /\ Call(page.next)
               /\ UNCHANGED <<pages, fetch, failed, historyVars>>
          [] OTHER ->
               /\ pages' = list /\ fresh' = <<>>
               /\ fetch' = "none" /\ failed' = FALSE
               /\ call' = NoCall
               /\ steady' = renewed /\ renewed' = {}

\* The connection has expired, S3 is out of reach, or the answer is lost.
LoadFails ==
    /\ call.busy
    /\ fetch' = "none" /\ fresh' = <<>> /\ failed' = TRUE
    /\ call' = NoCall
    /\ renewed' = {}
    /\ UNCHANGED <<bucket, changes, pages, steady>>

-----------------------------------------------------------------------------
(* The server: one turn of the loop in list_files *)

\* Mutant: the listing is taken up behind the last file found, not the last key seen.
ResumeAfterFile(files, contents) ==
    IF files # {} THEN Greatest(files) ELSE None

\* Where the loop goes on after contents that did not fill the page.
Resume(files, contents) ==
    IF contents # {} THEN Greatest(contents) ELSE call.after

\* Mutant: a full page ends the list when S3 has no more keys, taken or not.
EndsWhenNotTruncated(files, contents, truncated) == ~truncated

\* exhausted: a full page is the last one if it took all that S3 gave and S3 has no more.
Exhausted(files, contents, truncated) ==
    IF Cardinality(files) = PageSize
      THEN Greatest(files) = Greatest(contents) /\ ~truncated
      ELSE ~truncated \/ contents = {}

\* Mutant: files beyond a full page are kept.
KeepAll(contents) == call.files \cup (contents \cap Supported)

\* Files are added in order until the page is full.
Collect(contents) ==
    call.files \cup FirstOf(contents \cap Supported, PageSize - Cardinality(call.files))

\* next_cursor: the last file of the page, unless the list ends with it.
NextCursor(files, contents, ended) ==
    IF files # {} /\ ~ended THEN Greatest(files) ELSE None

\* Mutant: S3 is asked for the keys from the cursor on.
ContentsFromCursor(n) == FirstOf({k \in bucket : k >= call.after}, n)

\* S3 returns the first keys behind StartAfter, no more than MaxKeys, and says if there are
\* others.
Contents(n) == FirstOf({k \in bucket : k > call.after}, n)

ListObjects ==
    /\ call.busy
    /\ \E n \in 1..PageSize :
         LET contents  == Contents(n)
             truncated == \E k \in bucket : k > call.after /\ k \notin contents
             files     == Collect(contents)
             ended     == Exhausted(files, contents, truncated)
         IN  IF Cardinality(files) < PageSize /\ ~ended
               THEN /\ call' = [call EXCEPT !.files = files, !.after = Resume(files, contents)]
                    /\ UNCHANGED <<listVars, historyVars>>
               ELSE PageComes([files |-> files, next |-> NextCursor(files, contents, ended)])
    /\ UNCHANGED <<bucket, changes>>

-----------------------------------------------------------------------------
(* Other users of the bucket *)

Put(k) ==
    /\ changes < MaxChanges /\ k \notin bucket
    /\ bucket' = bucket \cup {k} /\ changes' = changes + 1
    /\ UNCHANGED <<listVars, call, historyVars>>

Delete(k) ==
    /\ changes < MaxChanges /\ k \in bucket
    /\ bucket' = bucket \ {k} /\ changes' = changes + 1
    /\ steady' = steady \ {k} /\ renewed' = renewed \ {k}
    /\ UNCHANGED <<listVars, call>>

Next ==
    \/ Reload \/ LoadMore \/ LoadFails \/ ListObjects
    \/ \E k \in Keys : Put(k) \/ Delete(k)

\* The server goes on with a request it has begun.
Spec == Init /\ [][Next]_vars /\ WF_vars(ListObjects)

-----------------------------------------------------------------------------
Listed == UNION {pages[p].files : p \in DOMAIN pages}

\* However the bucket changes between two pages, or within one: the list is in key order and
\* has no file twice.
InOrderOnce ==
    \A p, q \in DOMAIN pages : p < q =>
        \A k \in pages[p].files, l \in pages[q].files : k < l

\* list_files resumes after the last file it returned: a file that was there all the time is
\* not missing from the part of the list that has been loaded.
NothingSkipped ==
    pages # <<>> =>
        \A k \in steady \cap Supported :
            Cursor(pages) = None \/ k <= Cursor(pages) => k \in Listed

\* "pages have exactly page_size files even when unsupported objects are skipped"
\* (list_files): only the last page may be short.
OnlyLastPageShort ==
    \A p \in DOMAIN pages :
        /\ Cardinality(pages[p].files) <= PageSize
        /\ pages[p].next # None => Cardinality(pages[p].files) = PageSize

\* The loop of list_files ends, however many unsupported objects it has to skip.
ListingEnds == call.busy ~> ~call.busy
=============================================================================
