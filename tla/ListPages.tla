------------------------------ MODULE ListPages ------------------------------
(***************************************************************************)
(* The paged lists of the admin interface, ListTraces and ListAnomalies,   *)
(* read page by page while rows are added.  A request makes two            *)
(* statements, a count and SELECT ... LIMIT OFFSET, with a snapshot each. *)
(*                                                                         *)
(* A row is its id and its created_at.  The tables only grow, and a trace  *)
(* that needs no review may come to need one when its analysis is stored.  *)
(***************************************************************************)
EXTENDS Integers, Sequences, FiniteSets, SequencesExt

CONSTANTS Ids,        \* ids, as numbers
          MaxStamp,   \* bound: the last created_at
          Late,       \* how far behind the newest row a commit may come
          PageSize,   \* defaultListPageSize
          MaxAsked    \* bound: the highest page asked for

ASSUME PagesAssumption ==
    /\ Ids \subseteq Nat
    /\ {MaxStamp, Late, MaxAsked} \subseteq Nat
    /\ PageSize \in 1 .. 100

VARIABLES
    rows,      \* the table: traces, or usage_anomalies
    reviewed,  \* traces with a result of severity review
    list,      \* what is read: traces or anomalies, and the filter
    request,   \* the request being served: nothing, or its page once counted
    wanted,    \* the page a reader who goes through them all asks for next
    answer,    \* the last answer
    first,     \* the rows that matched when the reader began with page 1
    shown,     \* the rows shown since
    moved      \* a row was added between the last count and its SELECT

listVars == <<rows, reviewed, list, request, wanted, answer, first, shown, moved>>

ListRow == [id : Ids, at : 0 .. MaxStamp]
Lists == [kind : {"traces"}, needs_review : BOOLEAN]
         \cup [kind : {"anomalies"}, needs_review : {FALSE}]
NoPage == [page |-> -1, total_items |-> 0, total_pages |-> 0, has_next |-> FALSE]
NoAnswer == [pagination |-> NoPage, rows |-> <<>>]
Asked == -1 .. MaxAsked       \* what the query says: -1 is no number
-----------------------------------------------------------------------------
ParsePageParam(raw) == IF raw < 1 THEN 1 ELSE raw
NormalizeListPage(page) == IF page < 1 THEN 1 ELSE page
NormalizeListLimit(limit) == IF limit <= 0 \/ limit > 100 THEN 100 ELSE limit

\* Mutant: a page past the last one is left as it is.
ClampPagination_past_end(page, limit, total) ==
    LET pages == (total + limit - 1) \div limit
    IN  [page |-> page, total_items |-> total, total_pages |-> pages,
         has_next |-> page < pages]

\* Mutant: an empty list has no page.
ClampPagination_page_zero(page, limit, total) ==
    LET pages == (total + limit - 1) \div limit
    IN  [page |-> IF page > pages THEN pages ELSE page,
         total_items |-> total, total_pages |-> pages, has_next |-> page < pages]

ClampPagination(page, limit, total) ==
    LET pages == IF total > 0 THEN (total + limit - 1) \div limit ELSE 0
        valid == IF total = 0 THEN 1 ELSE IF page > pages THEN pages ELSE page
    IN  [page |-> valid, total_items |-> total, total_pages |-> pages,
         has_next |-> pages > 0 /\ valid < pages]

\* traceFilterWhereArgs and anomalyFilterWhereArgs: the count and the rows have one WHERE.
Where == {r \in rows : list.needs_review => r.id \in reviewed}

\* Mutant: ORDER BY created_at DESC alone.
OrderBy_time(r, s) == r.at > s.at

\* ORDER BY created_at DESC, trace_id DESC.
OrderBy(r, s) == r.at > s.at \/ (r.at = s.at /\ r.id > s.id)

\* The orders the database may return the rows in.
Orders(kind, set) ==
    LET Before(r, s) == IF kind = "traces" THEN OrderBy(r, s) ELSE r.at > s.at
    IN  {seq \in SetToSeqs(set) :
            \A i, j \in DOMAIN seq : Before(seq[i], seq[j]) => i < j}

\* LIMIT and OFFSET.
Slice(seq, page, limit) ==
    LET offset == (page - 1) * limit
        end == IF offset + limit < Len(seq) THEN offset + limit ELSE Len(seq)
    IN  SubSeq(seq, offset + 1, end)

NoReader == 0
Through == -1

ListTypeOK ==
    /\ rows \subseteq ListRow
    /\ reviewed \subseteq Ids
    /\ list \in Lists
    /\ wanted \in {NoReader, Through} \cup 1 .. Cardinality(Ids)
    /\ {first, shown} \subseteq SUBSET rows
    /\ request # NoPage => request.page \in 1 .. Cardinality(Ids)
    /\ moved \in BOOLEAN
-----------------------------------------------------------------------------
Insert(r) ==
    /\ \A s \in rows : s.id # r.id /\ r.at + Late >= s.at
    /\ rows' = rows \cup {r}
    /\ moved' = (moved \/ request # NoPage)
    /\ UNCHANGED <<reviewed, list, request, wanted, answer, first, shown>>

\* The analysis of a trace is stored, with a finding to review.
Review(r) ==
    /\ list.kind = "traces"
    /\ r \in rows
    /\ r.id \notin reviewed
    /\ reviewed' = reviewed \cup {r.id}
    /\ moved' = (moved \/ request # NoPage)
    /\ UNCHANGED <<rows, list, request, wanted, answer, first, shown>>

\* A reader takes a list and a filter, and will read it from its first page.
Browse(l) ==
    /\ request = NoPage
    /\ rows = {} \/ l.kind = list.kind
    /\ list' = l
    /\ wanted' = 1
    /\ first' = {r \in rows : l.needs_review => r.id \in reviewed}
    /\ shown' = {}
    /\ answer' = NoAnswer
    /\ moved' = FALSE
    /\ UNCHANGED <<rows, reviewed, request>>

\* The count of a request.  Who reads the pages one by one asks for the next one, others
\* for any.
Count(raw) ==
    /\ request = NoPage
    /\ wanted > 0 => raw = wanted
    /\ request' = ClampPagination(NormalizeListPage(ParsePageParam(raw)),
                                  NormalizeListLimit(PageSize), Cardinality(Where))
    /\ wanted' = IF wanted > 0 THEN wanted ELSE NoReader
    /\ moved' = FALSE
    /\ UNCHANGED <<rows, reviewed, list, answer, first, shown>>

\* Its SELECT, and the answer.
Select ==
    /\ request # NoPage
    /\ \E seq \in Orders(list.kind, Where) :
         LET page == Slice(seq, request.page, NormalizeListLimit(PageSize))
         IN  /\ answer' = [pagination |-> request, rows |-> page]
             /\ shown' = IF wanted = NoReader THEN shown ELSE shown \cup ToSet(page)
    /\ wanted' = IF wanted = NoReader THEN NoReader
                 ELSE IF request.has_next THEN wanted + 1 ELSE Through
    /\ request' = NoPage
    /\ UNCHANGED <<rows, reviewed, list, first, moved>>

ListInit ==
    /\ rows = {}
    /\ reviewed = {}
    /\ list = [kind |-> "traces", needs_review |-> FALSE]
    /\ request = NoPage
    /\ wanted = NoReader
    /\ answer = NoAnswer
    /\ first = {}
    /\ shown = {}
    /\ moved = FALSE

ListNext ==
    \/ \E r \in ListRow : Insert(r) \/ Review(r)
    \/ \E l \in Lists : Browse(l)
    \/ \E raw \in Asked : Count(raw)
    \/ Select

ListSpec == ListInit /\ [][ListNext]_listVars
-----------------------------------------------------------------------------
\* No ghost pages: whatever page is asked for, and whatever is added between the two
\* statements, an answer that counts rows shows some of them, and a page that has a
\* next one is full.
NoGhostPages ==
    /\ answer.pagination.total_items > 0 => answer.rows # <<>>
    /\ answer.pagination.has_next => Len(answer.rows) = PageSize

\* Going through the traces page by page misses none of those that matched at the start,
\* although new ones come in on every page: the order is total, so that an addition only
\* moves rows to later pages.  The one exception is a row that comes between the count
\* and the SELECT of the last page, which can push another off its end.
SweepShowsAll ==
    list.kind = "traces" /\ wanted = Through /\ ~moved => first \subseteq shown
=============================================================================
