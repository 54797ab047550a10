----------------------------- MODULE ListPages -----------------------------
(***************************************************************************)
(* One browser page that shows a list: sources, reports, invoices, usage   *)
(* events or schedules (internal/web, the services below it, the list      *)
(* statements of internal/db, and the generated templates).  The server    *)
(* renders one page of rows; htmx appends one more page when the sentinel  *)
(* below the table is scrolled into view, polls the list of reports, and   *)
(* removes a row when its Delete button succeeds.  Rows and count are two  *)
(* statements, and the table changes between any two steps.                *)
(*                                                                         *)
(* Rows are natural numbers in the order they are created.                 *)
(***************************************************************************)
EXTENDS Naturals, Integers, FiniteSets

CONSTANTS
  Rows,
  PageRows,       \* reportsPageSize, sourcesPageSize, ...: 20 in the code
  PeriodStart,    \* invoices.period_start of each row
  OffsetRange,    \* 2^31 in the code: offsets wrap at this number
  PagesOpened,    \* values of ?page= the user opens
  MaxListFaults,  \* bound on failed requests and lost workspace cookies
  NoView, NoFetch

ASSUME RowsAssumption == IsFiniteSet(Rows) /\ Rows = 1 .. Cardinality(Rows)
ASSUME PageRowsAssumption ==
  /\ {PageRows, OffsetRange} \subseteq Nat \ {0} /\ PagesOpened \subseteq Nat \ {0}
  /\ PeriodStart \in [Rows -> Nat] /\ MaxListFaults \in Nat

VARIABLES
  table,       \* rows of the tenant
  created,     \* the newest row so far
  view,        \* the page shown
  fetch,       \* the request under way
  listed,      \* history: the rows there were when the page was opened
  tieOrder,    \* history: the order the page was read in
  added,       \* history: rows inserted since
  removed,     \* history: rows deleted since
  elsewhere,   \* history: those another client deleted
  listFaults

listVars == <<table, created, view, fetch, listed, tieOrder, added, removed,
              elsewhere, listFaults>>

ListKinds == {"sources", "reports", "invoices", "events", "schedules"}

Views ==
  [kind : ListKinds, page : Nat, first : SUBSET Rows, more : SUBSET Rows,
   sentinel : BOOLEAN, polls : BOOLEAN, failed : BOOLEAN, strayed : BOOLEAN]

Fetches ==
  [for : {"open", "reveal", "poll"}, kind : ListKinds, page : Nat,
   step : {"rows", "count"}, rows : SUBSET Rows]

ASSUME NoneAssumption == NoView \notin Views /\ NoFetch \notin Fetches

ListTypeOK ==
  /\ table \subseteq Rows /\ created \in Nat
  /\ view \in Views \cup {NoView}
  /\ fetch \in Fetches \cup {NoFetch}
  /\ {listed, added, removed, elsewhere} \subseteq SUBSET Rows
  /\ tieOrder \in BOOLEAN /\ listFaults \in Nat

ListInit ==
  /\ \E n \in Rows : table = {r \in Rows : r <= n} /\ created = n
  /\ view = NoView /\ fetch = NoFetch
  /\ listed = {} /\ added = {} /\ removed = {} /\ elsewhere = {}
  /\ tieOrder = FALSE /\ listFaults = 0

-----------------------------------------------------------------------------
\* The lists: how many rows a page has, whether a sentinel loads the next page,
\* whether the table polls, and whether a row has a Delete button.

PagedList == [paged |-> TRUE, polls |-> FALSE, deletes |-> FALSE]

ReportsPaging == [PagedList EXCEPT !.polls = TRUE]
SourcesPaging == [PagedList EXCEPT !.deletes = TRUE]
InvoicesPaging == PagedList
EventsPaging == PagedList
SchedulesPaging == [paged |-> FALSE, polls |-> FALSE, deletes |-> TRUE]

ListOf(kind) ==
  CASE kind = "reports" -> ReportsPaging
    [] kind = "sources" -> SourcesPaging
    [] kind = "invoices" -> InvoicesPaging
    [] kind = "events" -> EventsPaging
    [] kind = "schedules" -> SchedulesPaging

SizeOf(kind) == IF ListOf(kind).paged THEN PageRows ELSE Cardinality(Rows)

-----------------------------------------------------------------------------
\* The list statements.  ORDER BY created_at DESC (generated_at for reports) is
\* the order of creation; invoices are ordered by their period, and two of one
\* period come in either order.

Newest(kind, tie, r) ==
  IF kind = "invoices"
  THEN PeriodStart[r] * 2 * Cardinality(Rows)
         + (IF tie THEN r ELSE Cardinality(Rows) - r)
  ELSE r

PlaceIn(kind, tie, rows, r) ==
  Cardinality({s \in rows : Newest(kind, tie, s) >= Newest(kind, tie, r)})

\* The time bounds are time.Time, never NULL, and nobody sets them: no event
\* lies between the year 1 and the year 1.
EventsInRange == {}

Visible(kind) == IF kind = "events" THEN EventsInRange ELSE table

\* Mutant of OffsetOf: pages are counted from 0.
XOffsetFromZero(kind, page) ==
  ((page * SizeOf(kind) + OffsetRange) % (2 * OffsetRange)) - OffsetRange

\* int32((page - 1) * pageSize)
OffsetOf(kind, page) ==
  (((page - 1) * SizeOf(kind) + OffsetRange) % (2 * OffsetRange)) - OffsetRange

Slice(kind, tie, page) ==
  {r \in Visible(kind) :
     /\ PlaceIn(kind, tie, Visible(kind), r) > OffsetOf(kind, page)
     /\ PlaceIn(kind, tie, Visible(kind), r) <= OffsetOf(kind, page) + SizeOf(kind)}

ListReportsByTenant(tie, page) == Slice("reports", tie, page)
ListDataSourcesByTenant(tie, page) == Slice("sources", tie, page)
ListInvoicesByTenant(tie, page) == Slice("invoices", tie, page)
ListUsageEvents(tie, page) == Slice("events", tie, page)
ListSchedulesByTenant == table

QueryOf(kind, tie, page) ==
  CASE kind = "reports" -> ListReportsByTenant(tie, page)
    [] kind = "sources" -> ListDataSourcesByTenant(tie, page)
    [] kind = "invoices" -> ListInvoicesByTenant(tie, page)
    [] kind = "events" -> ListUsageEvents(tie, page)
    [] kind = "schedules" -> ListSchedulesByTenant

CountOf(kind) == Cardinality(Visible(kind))

HasMore(kind, page) == ListOf(kind).paged /\ page * SizeOf(kind) < CountOf(kind)

-----------------------------------------------------------------------------
\* What other clients and the worker do to the table.

Insert ==
  /\ created + 1 \in Rows
  /\ created' = created + 1
  /\ table' = table \cup {created + 1}
  /\ added' = added \cup {created + 1}
  /\ UNCHANGED <<view, fetch, listed, tieOrder, removed, elsewhere, listFaults>>

KindShown == IF view # NoView THEN view.kind
             ELSE IF fetch # NoFetch THEN fetch.kind ELSE "reports"

\* Nothing but a Delete button or its API request deletes a row.
RemoveElsewhere ==
  \E r \in table :
    /\ ListOf(KindShown).deletes
    /\ table' = table \ {r}
    /\ removed' = removed \cup {r} /\ elsewhere' = elsewhere \cup {r}
    /\ UNCHANGED <<created, view, fetch, listed, tieOrder, added, listFaults>>

-----------------------------------------------------------------------------
OpenPage ==
  \E kind \in ListKinds, page \in PagesOpened :
    /\ view = NoView /\ fetch = NoFetch
    /\ ListOf(kind).paged \/ page = 1
    /\ fetch' = [for |-> "open", kind |-> kind, page |-> page, step |-> "rows",
                 rows |-> {}]
    /\ UNCHANGED <<table, created, view, listed, tieOrder, added, removed,
                   elsewhere, listFaults>>

\* The service's first statement.  Postgres refuses a negative OFFSET.
QueryRows ==
  \E tie \in BOOLEAN :
    /\ fetch # NoFetch /\ fetch.step = "rows"
    /\ OffsetOf(fetch.kind, fetch.page) >= 0
    /\ fetch' = [fetch EXCEPT !.step = "count",
                              !.rows = QueryOf(fetch.kind, tie, fetch.page)]
    /\ IF fetch.for = "open"
       THEN /\ listed' = table /\ tieOrder' = tie
            /\ added' = {} /\ removed' = {} /\ elsewhere' = {}
       ELSE UNCHANGED <<listed, tieOrder, added, removed, elsewhere>>
    /\ UNCHANGED <<table, created, view, listFaults>>

\* The request fails: a full page is redirected away with a flash message, a
\* fragment answered with an error status is not swapped, and the sentinel,
\* which is revealed once, is spent.
FetchFails ==
  /\ fetch # NoFetch
  /\ \/ /\ OffsetOf(fetch.kind, fetch.page) < 0 /\ UNCHANGED listFaults
     \/ /\ listFaults < MaxListFaults /\ listFaults' = listFaults + 1
  /\ fetch' = NoFetch
  /\ view' = IF fetch.for = "open" THEN NoView
             ELSE [view EXCEPT !.failed = TRUE]
  /\ UNCHANGED <<table, created, listed, tieOrder, added, removed, elsewhere>>

\* The whole page.  A first page without rows is the empty state, which neither
\* polls nor loads more.
RenderPage ==
  LET kind == fetch.kind
      more == HasMore(kind, fetch.page)
      empty == fetch.rows = {} /\ fetch.page = 1
  IN /\ fetch # NoFetch /\ fetch.step = "count" /\ fetch.for = "open"
     /\ view' = [kind |-> kind, page |-> fetch.page, first |-> fetch.rows,
                 more |-> {}, sentinel |-> more /\ ~ empty,
                 polls |-> ListOf(kind).polls /\ fetch.page = 1 /\ ~ more /\ ~ empty,
                 failed |-> FALSE, strayed |-> FALSE]
     /\ fetch' = NoFetch
     /\ UNCHANGED <<table, created, listed, tieOrder, added, removed, elsewhere,
                    listFaults>>

\* beforeend: the rows are appended, and nothing replaces the sentinel, which
\* lies outside the table.
AppendRows ==
  /\ fetch # NoFetch /\ fetch.step = "count" /\ fetch.for = "reveal"
  /\ view' = [view EXCEPT !.more = fetch.rows]
  /\ fetch' = NoFetch
  /\ UNCHANGED <<table, created, listed, tieOrder, added, removed, elsewhere,
                 listFaults>>

\* innerHTML: the rows of page 1 replace those shown.
ReplaceRows ==
  /\ fetch # NoFetch /\ fetch.step = "count" /\ fetch.for = "poll"
  /\ view' = [view EXCEPT !.first = fetch.rows]
  /\ fetch' = NoFetch
  /\ UNCHANGED <<table, created, listed, tieOrder, added, removed, elsewhere,
                 listFaults>>

-----------------------------------------------------------------------------
Shown == IF view = NoView THEN {} ELSE view.first \cup view.more

Idle == view # NoView /\ fetch = NoFetch /\ ~ view.strayed

Reveal ==
  /\ Idle /\ view.sentinel
  /\ fetch' = [for |-> "reveal", kind |-> view.kind, page |-> view.page + 1,
               step |-> "rows", rows |-> {}]
  /\ view' = [view EXCEPT !.sentinel = FALSE]
  /\ UNCHANGED <<table, created, listed, tieOrder, added, removed, elsewhere,
                 listFaults>>

Poll ==
  /\ Idle /\ view.polls
  /\ fetch' = [for |-> "poll", kind |-> view.kind, page |-> 1, step |-> "rows",
               rows |-> {}]
  /\ UNCHANGED <<table, created, view, listed, tieOrder, added, removed,
                 elsewhere, listFaults>>

\* hx-target="closest tr": one copy of the row goes.  A row that is gone answers
\* 404, which htmx does not swap.
DeleteRow ==
  \E r \in Shown :
    /\ view # NoView /\ ~ view.strayed /\ ListOf(view.kind).deletes
    /\ r \in table
    /\ table' = table \ {r} /\ removed' = removed \cup {r}
    /\ view' = IF r \in view.first THEN [view EXCEPT !.first = @ \ {r}]
                                   ELSE [view EXCEPT !.more = @ \ {r}]
    /\ UNCHANGED <<created, fetch, listed, tieOrder, added, elsewhere, listFaults>>

\* Without the workspace cookie even a fragment is redirected to
\* /select-tenant, and the page that comes back is swapped into the table.
Stray ==
  /\ Idle
  /\ view.sentinel \/ view.polls \/ (ListOf(view.kind).deletes /\ Shown # {})
  /\ listFaults < MaxListFaults /\ listFaults' = listFaults + 1
  /\ view' = [view EXCEPT !.strayed = TRUE]
  /\ UNCHANGED <<table, created, fetch, listed, tieOrder, added, removed,
                 elsewhere>>

ListNext ==
  \/ Insert \/ RemoveElsewhere
  \/ OpenPage \/ QueryRows \/ FetchFails \/ RenderPage \/ AppendRows \/ ReplaceRows
  \/ Reveal \/ Poll \/ DeleteRow \/ Stray

ListSpec == ListInit /\ [][ListNext]_listVars

-----------------------------------------------------------------------------
Tied(r) == \E s \in listed \cup added :
             view.kind = "invoices" /\ s # r /\ PeriodStart[s] = PeriodStart[r]

\* Why a row the table had when the page was opened is not on the page: it lies
\* before the page or beyond the one page the sentinel loads, which begins at an
\* offset that rows inserted or deleted since have moved.
Passed(r) ==
  LET place == PlaceIn(view.kind, tieOrder, listed, r)
      last  == view.page * SizeOf(view.kind)
  IN \/ place <= last - SizeOf(view.kind)
     \/ place > last + SizeOf(view.kind) - Cardinality(added)
     \/ last < place /\ place <= last + Cardinality(removed)
     \/ view.polls /\ place + Cardinality(added) > last

\* A page that has loaded what it will load shows every row the table had when
\* it was opened, but those Passed by, those of a period billed twice, and all
\* of a list whose request failed; it shows no row of an earlier page unless the
\* offset wrapped, no row twice unless rows were inserted or tie, and no deleted
\* row unless another client deleted it or it was shown twice.
MissingRowsExplained ==
  Idle /\ ~ view.sentinel =>
    /\ \A r \in listed \ (removed \cup Shown) :
         Passed(r) \/ Tied(r) \/ view.failed \/ view.kind = "events"
    /\ \A r \in view.first \ added :
         \/ PlaceIn(view.kind, tieOrder, listed, r)
              > (view.page - 1) * SizeOf(view.kind)
         \/ (view.page - 1) * SizeOf(view.kind) >= OffsetRange
    /\ \A r \in view.first \cap view.more : added # {} \/ Tied(r)
    /\ \A r \in Shown \ table : r \in elsewhere \/ added # {}
=============================================================================
