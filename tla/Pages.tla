------------------------------- MODULE Pages -------------------------------
(***************************************************************************)
(* The web pages (web/templates) and the handlers that answer them         *)
(* (internal/web): which controls a screen holds, what the server answers  *)
(* each, and what htmx does with the answer.  A screen is a set of         *)
(* elements; an element lies within the part of the page htmx may swap,    *)
(* and has ids and controls.  The session and the workspace cookie are     *)
(* taken to be good: WebSession says what happens when they are not, and   *)
(* ListPages which rows a list shows.                                      *)
(***************************************************************************)
EXTENDS Naturals, FiniteSets

CONSTANTS
  PageSources, PageSchedules, PageReports, PageInvoices,  \* ids, used once
  AccountKinds,   \* what the user and the tenant may be: see account
  MaxDetours,     \* redirects counted; a longer chain counts as this many
  MaxPageFaults,  \* bound on requests that fail
  NoItem, Nowhere

ASSUME PagesAssumption ==
  /\ AccountKinds \subseteq
       [longer : BOOLEAN, admin : BOOLEAN, workspaces : BOOLEAN, busy : BOOLEAN]
  /\ {MaxDetours, MaxPageFaults} \subseteq Nat

VARIABLES
  present,    \* the items that exist
  used,       \* the ids given so far
  account,    \* whether lists have a second page, the user is an admin and has
              \* a workspace, the month has usage
  screen,     \* where the browser is, and the elements it shows
  going,      \* the navigation under way
  generated,  \* history: the Generate form of this screen was answered
  nested,     \* history: a whole page was swapped into a part of a page
  pageFaults

pagesVars == <<present, used, account, screen, going, generated, nested, pageFaults>>

Items == PageSources \cup PageSchedules \cup PageReports \cup PageInvoices

-----------------------------------------------------------------------------
\* Elements, controls and what a control may target.

Id(name) == <<name, NoItem>>
Body == Id("body")        \* what no swap replaces
Browser == Id("browser")  \* a link
Own == Id("own")          \* closest tr, closest div, or no hx-target

Element(part, within, ids, controls) ==
  [part |-> part, within |-> within, ids |-> ids, controls |-> controls]

Control(verb, route, item, token, target, swap) ==
  [verb |-> verb, route |-> route, item |-> item, token |-> token,
   target |-> target, swap |-> swap]

LinkTo(route, item) == Control("GET", route, item, FALSE, Browser, "page")
Link(route) == LinkTo(route, NoItem)

\* A form with the hidden field _csrf, or a button with the header X-CSRF-Token.
Form(verb, route, item, target) == Control(verb, route, item, TRUE, target, "innerHTML")
RowButton(verb, route, item) == Control(verb, route, item, TRUE, Own, "outerHTML")

\* hx-get: a sentinel, a poll, the form of a date range.
Load(route, target, swap) == Control("GET", route, NoItem, FALSE, target, swap)

-----------------------------------------------------------------------------
\* Layouts and pages without items.

Navbar ==
  Element("Navbar", Body, {},
          {Link(r) : r \in {"/", "/dashboard", "/sources", "/reports", "/schedules",
                            "/usage", "/invoices", "/settings"}})

Base(main) == {Navbar} \cup main
Auth(main) == main

Login ==
  Auth({Element("Login", Body, {Id("login-error")},
                {Form("POST", "/login", NoItem, Id("login-error")),
                 Link("/register")})})

Register ==
  Auth({Element("Register", Body, {Id("register-error")},
                {Form("POST", "/register", NoItem, Id("register-error")),
                 Link("/login")})})

SelectTenant(workspaces) ==
  Auth({Element("SelectTenant", Body, {Id("tenant-error")},
                {Form("POST", r, NoItem, Id("tenant-error")) :
                   r \in {"/create-tenant", "/logout"}
                           \cup (IF workspaces THEN {"/select-tenant"} ELSE {})})})

Home == Base({Element("Home", Body, {},
                      {Link(r) : r \in {"/sources", "/reports", "/settings"}})})

Dashboard == Base({Element("Dashboard", Body, {}, {Link("/reports"), Link("/sources")})})

Settings(admin) ==
  Base({IF admin
        THEN Element("Settings", Body, {Id("budget-form-error")},
                     {Form("POST", "/settings/budget", NoItem, Id("budget-form-error"))})
        ELSE Element("Settings", Body, {}, {})})

UsageModelRow == Element("UsageModelRow", Id("usage-summary"), {}, {})
UsageEventRow == Element("UsageEventRow", Id("usage-events-body"), {}, {})

UsageSummaryFragment(data) == IF data THEN {UsageModelRow} ELSE {}
UsageEventRowsFragment(events) == IF events THEN {UsageEventRow} ELSE {}

\* The event log has no body, and no sentinel, without events.
Usage(events, more) ==
  Base({Element("Usage", Body,
                {Id("usage-summary")}
                  \cup (IF events THEN {Id("usage-events-body")} ELSE {}),
                {Load("/usage/summary", Id("usage-summary"), "innerHTML")}
                  \cup (IF events /\ more
                        THEN {Load("/usage/events", Id("usage-events-body"), "beforeend")}
                        ELSE {}))}
         \cup UsageEventRowsFragment(events))

-----------------------------------------------------------------------------
\* Sources.

StatusFragment == Element("StatusFragment", Body, {}, {})
SyncTriggeredFragment == Element("SyncTriggeredFragment", Body, {}, {})
ErrorFragment == Element("ErrorFragment", Body, {}, {})

SourceRow(s) ==
  LET status == <<"source-status", s>> IN
  Element("SourceRow", Id("sources-table-body"), {status},
          {LinkTo("/sources/:id", s), LinkTo("/sources/:id/edit", s),
           Form("POST", "/sources/:id/test", s, status),
           Form("POST", "/sources/:id/sync", s, status),
           RowButton("DELETE", "/sources/:id", s)})

SourceRowsFragment(rows) == {SourceRow(s) : s \in rows}

SourcesEmptyState == Element("SourcesEmptyState", Body, {}, {Link("/sources/new")})

SourcesList(rows, more) ==
  Base({Element("SourcesList", Body, {}, {Link("/sources/new")})}
       \cup IF rows = {} THEN {SourcesEmptyState}
            ELSE {Element("SourcesTable", Body, {Id("sources-table-body")},
                          IF more
                          THEN {Load("/sources", Id("sources-table-body"), "beforeend")}
                          ELSE {})}
                   \cup SourceRowsFragment(rows))

\* closest div: the Edit link and the Delete button, not the page.
SourceDetail(s) ==
  Base({Element("SourceDetail", Body, {Id("detail-status")},
                {Link("/sources"),
                 Form("POST", "/sources/:id/test", s, Id("detail-status")),
                 Form("POST", "/sources/:id/sync", s, Id("detail-status"))}),
        Element("SourceButtons", Body, {},
                {LinkTo("/sources/:id/edit", s), RowButton("DELETE", "/sources/:id", s)})})

SourceForm(s) ==
  Base({Element("SourceForm", Body, {Id("source-form-error")},
                {Link("/sources"),
                 IF s = NoItem
                 THEN Form("POST", "/sources", NoItem, Id("source-form-error"))
                 ELSE Form("PUT", "/sources/:id", s, Id("source-form-error"))})})

-----------------------------------------------------------------------------
\* Reports and invoices.

ReportRow(r) ==
  Element("ReportRow", Id("reports-body"), {}, {LinkTo("/reports/:id", r)})

ReportRowsFragment(rows) == {ReportRow(r) : r \in rows}

ReportsEmptyState == Element("ReportsEmptyState", Body, {}, {})

\* The form is what its own answer replaces.
GenerateReportModal ==
  {Element("GenerateReportModal", Body, {Id("gen-form-body")}, {}),
   Element("GenerateForm", Id("gen-form-body"), {},
           {Form("POST", "/reports/generate", NoItem, Id("gen-form-body"))})}

GenerateSuccessFragment == Element("GenerateSuccessFragment", Body, {}, {})

GenerationActivityCard ==
  Element("GenerationActivityCard", Body, {Id("gen-activity")},
          {Load("/reports/activity", Own, "outerHTML")})

ReportsList(rows, more) ==
  Base(GenerateReportModal \cup {GenerationActivityCard}
       \cup IF rows = {} THEN {ReportsEmptyState}
            ELSE {Element("ReportsTable", Body, {Id("reports-body")},
                          {Load("/reports", Id("reports-body"),
                                IF more THEN "beforeend" ELSE "innerHTML")})}
                   \cup ReportRowsFragment(rows))

ReportDetail == Base({Element("ReportDetail", Body, {}, {Link("/reports")})})

InvoiceRow(i) ==
  Element("InvoiceRow", Id("invoices-body"), {}, {LinkTo("/invoices/:id", i)})

InvoiceRowsFragment(rows) == {InvoiceRow(i) : i \in rows}

InvoicesEmptyState == Element("InvoicesEmptyState", Body, {}, {})

InvoicesList(rows, more) ==
  Base(IF rows = {} THEN {InvoicesEmptyState}
       ELSE {Element("InvoicesTable", Body, {Id("invoices-body")},
                     IF more THEN {Load("/invoices", Id("invoices-body"), "beforeend")}
                     ELSE {})}
              \cup InvoiceRowsFragment(rows))

InvoiceDetail == Base({Element("InvoiceDetail", Body, {}, {Link("/invoices")})})

-----------------------------------------------------------------------------
\* Schedules.

ScheduleToggle(s) == RowButton("POST", "/schedules/:id/toggle", s)

ScheduleRow(s) ==
  Element("ScheduleRow", Id("schedules-table-body"), {},
          {ScheduleToggle(s), LinkTo("/schedules/:id/edit", s),
           RowButton("DELETE", "/schedules/:id", s)})

ScheduleEmptyState == Element("ScheduleEmptyState", Body, {}, {Link("/schedules/new")})

SchedulesList(rows) ==
  Base({Element("SchedulesList", Body,
                IF rows = {} THEN {} ELSE {Id("schedules-table-body")},
                {Link("/schedules/new")})}
       \cup IF rows = {} THEN {ScheduleEmptyState} ELSE {ScheduleRow(s) : s \in rows})

ScheduleForm(s) ==
  Base({Element("ScheduleForm", Body, {Id("schedule-form-error")},
                {Link("/schedules"),
                 IF s = NoItem
                 THEN Form("POST", "/schedules", NoItem, Id("schedule-form-error"))
                 ELSE Form("PUT", "/schedules/:id", s, Id("schedule-form-error"))})})

-----------------------------------------------------------------------------
\* Answers, and what a request leaves.

Whole(elements) == [kind |-> "page", elements |-> elements, to |-> Nowhere]
Fragment(elements) == [kind |-> "fragment", elements |-> elements, to |-> Nowhere]
Place(route, item) == [route |-> route, item |-> item]
Redirect(route, item) ==   \* HX-Redirect
  [kind |-> "redirect", elements |-> {}, to |-> Place(route, item)]

\* webErrorHandler: a redirect to the referer with a flash message, and for htmx
\* an error status, whose text htmx does not swap.
Refuse == [kind |-> "error", elements |-> {}, to |-> Nowhere]

Keep(answer) == [answer |-> answer, present |-> present, used |-> used]
KeepAny(answers) == {Keep(a) : a \in answers}

Made(item, answer) ==
  [answer |-> answer, present |-> present \cup {item}, used |-> used \cup {item}]

Gone(item, answer) ==
  [answer |-> answer, present |-> present \ {item}, used |-> used]

Invalid == Keep(Fragment({ErrorFragment}))

\* ListPages says which rows a request for one more page, or a poll, brings.
SomeOf(ids) == SUBSET (ids \cap present)

\* The form of the login, register and workspace pages: authError or a redirect.
Credentials(route) == KeepAny({Fragment({ErrorFragment}), Redirect(route, NoItem)})

LoginSubmitted == Credentials("/select-tenant")
RegisterSubmitted == Credentials("/select-tenant")
SelectTenantSubmitted == Credentials("/dashboard")
CreateTenantSubmitted == Credentials("/dashboard")
LogoutSubmitted == KeepAny({Redirect("/login", NoItem)})

SourcesAnswer(htmx) ==
  IF htmx THEN KeepAny({Fragment(SourceRowsFragment(rows)) : rows \in SomeOf(PageSources)})
  ELSE KeepAny({Whole(SourcesList(PageSources \cap present, account.longer))})

SourceAnswer(s) == KeepAny({IF s \in present THEN Whole(SourceDetail(s)) ELSE Refuse})
NewSourceAnswer == KeepAny({Whole(SourceForm(NoItem))})
EditSourceAnswer(s) == KeepAny({IF s \in present THEN Whole(SourceForm(s)) ELSE Refuse})

\* A file goes back to the list, for it is read in the background.
CreateSourceAnswer ==
  {Invalid} \cup {Made(s, Redirect(r, IF r = "/sources" THEN NoItem ELSE s)) :
                    s \in PageSources \ used, r \in {"/sources", "/sources/:id"}}

UpdateSourceAnswer(s) ==
  {Invalid} \cup IF s \in present THEN KeepAny({Redirect("/sources/:id", s)}) ELSE {}

DeleteSourceAnswer(s) ==
  IF s \in present THEN {Gone(s, Fragment({}))} ELSE {Keep(Refuse)}

\* A failure is a fragment with status 200, be it of a source that is gone.
TestConnectionAnswer(s) == KeepAny({Fragment({StatusFragment})})

SyncAnswer(s) ==
  KeepAny({Fragment({StatusFragment})}
            \cup IF s \in present THEN {Fragment({SyncTriggeredFragment})} ELSE {})

\* Mutant of ReportsAnswer: htmx gets the whole page.
XReportsAlwaysWhole(htmx) ==
  KeepAny({Whole(ReportsList(PageReports \cap present, account.longer))})

ReportsAnswer(htmx) ==
  IF htmx THEN KeepAny({Fragment(ReportRowsFragment(rows)) : rows \in SomeOf(PageReports)})
  ELSE KeepAny({Whole(ReportsList(PageReports \cap present, account.longer))})

ReportAnswer(r) == KeepAny({IF r \in present THEN Whole(ReportDetail) ELSE Refuse})
ActivityAnswer == KeepAny({Fragment({GenerationActivityCard})})
GenerateAnswer == KeepAny({Fragment({ErrorFragment}), Fragment({GenerateSuccessFragment})})

InvoicesAnswer(htmx) ==
  IF htmx THEN KeepAny({Fragment(InvoiceRowsFragment(rows)) : rows \in SomeOf(PageInvoices)})
  ELSE KeepAny({Whole(InvoicesList(PageInvoices \cap present, account.longer))})

InvoiceAnswer(i) == KeepAny({IF i \in present THEN Whole(InvoiceDetail) ELSE Refuse})

SchedulesAnswer == KeepAny({Whole(SchedulesList(PageSchedules \cap present))})
NewScheduleAnswer == KeepAny({Whole(ScheduleForm(NoItem))})

EditScheduleAnswer(s) ==
  KeepAny({IF s \in present THEN Whole(ScheduleForm(s)) ELSE Refuse})

CreateScheduleAnswer ==
  {Invalid} \cup {Made(s, Redirect("/schedules", NoItem)) : s \in PageSchedules \ used}

UpdateScheduleAnswer(s) ==
  {Invalid} \cup IF s \in present THEN KeepAny({Redirect("/schedules", NoItem)}) ELSE {}

DeleteScheduleAnswer(s) ==
  IF s \in present THEN {Gone(s, Fragment({}))} ELSE {Keep(Refuse)}

ToggleAnswer(s) == KeepAny({IF s \in present THEN Fragment({ScheduleRow(s)}) ELSE Refuse})

\* No event lies between the zero times ListEvents asks for.
UsageAnswer == KeepAny({Whole(Usage(FALSE, FALSE))})
SummaryAnswer == KeepAny({Refuse, Fragment(UsageSummaryFragment(account.busy))})
EventsAnswer == KeepAny({Fragment(UsageEventRowsFragment(FALSE))})

SettingsAnswer == KeepAny({Whole(Settings(account.admin))})

\* Saved or not, the page is loaded anew with a flash message.
BudgetAnswer ==
  KeepAny({IF account.admin THEN Redirect("/settings", NoItem) ELSE Refuse})

-----------------------------------------------------------------------------
\* The routes each Register mounts.

AuthRoutes ==
  {"GET", "POST"} \X {"/login", "/register", "/select-tenant"}
    \cup {<<"POST", "/create-tenant">>, <<"POST", "/logout">>,
          <<"GET", "/">>, <<"GET", "/dashboard">>}

SourcesRoutes ==
  {<<"GET", "/sources">>, <<"GET", "/sources/new">>, <<"GET", "/sources/:id">>,
   <<"GET", "/sources/:id/edit">>, <<"POST", "/sources">>, <<"PUT", "/sources/:id">>,
   <<"DELETE", "/sources/:id">>, <<"POST", "/sources/:id/test">>,
   <<"POST", "/sources/:id/sync">>}

ReportsRoutes ==
  {<<"GET", "/reports">>, <<"GET", "/reports/activity">>, <<"GET", "/reports/:id">>,
   <<"POST", "/reports/generate">>}

SchedulesRoutes ==
  {<<"GET", "/schedules">>, <<"GET", "/schedules/new">>,
   <<"GET", "/schedules/:id/edit">>, <<"POST", "/schedules">>,
   <<"PUT", "/schedules/:id">>, <<"DELETE", "/schedules/:id">>,
   <<"POST", "/schedules/:id/toggle">>}

UsageRoutes ==
  {<<"GET", "/usage">>, <<"GET", "/usage/summary">>, <<"GET", "/usage/events">>}

InvoicesRoutes == {<<"GET", "/invoices">>, <<"GET", "/invoices/:id">>}

SettingsRoutes == {<<"GET", "/settings">>, <<"POST", "/settings/budget">>}

Routes == AuthRoutes \cup SourcesRoutes \cup ReportsRoutes \cup SchedulesRoutes
            \cup UsageRoutes \cup InvoicesRoutes \cup SettingsRoutes

AnswerAccounts(verb, route) ==
  CASE route = "/login" -> IF verb = "GET" THEN KeepAny({Whole(Login)}) ELSE LoginSubmitted
    [] route = "/register" -> IF verb = "GET" THEN KeepAny({Whole(Register)})
                                              ELSE RegisterSubmitted
    [] route = "/select-tenant" ->
         IF verb = "GET" THEN KeepAny({Whole(SelectTenant(account.workspaces))})
         ELSE SelectTenantSubmitted
    [] route = "/create-tenant" -> CreateTenantSubmitted
    [] route = "/logout" -> LogoutSubmitted
    [] route = "/" -> KeepAny({Whole(Home)})
    [] route = "/dashboard" -> KeepAny({Whole(Dashboard)})

AnswerSources(verb, route, s, htmx) ==
  CASE route = "/sources" -> IF verb = "GET" THEN SourcesAnswer(htmx) ELSE CreateSourceAnswer
    [] route = "/sources/new" -> NewSourceAnswer
    [] route = "/sources/:id" -> (CASE verb = "GET" -> SourceAnswer(s)
                                    [] verb = "PUT" -> UpdateSourceAnswer(s)
                                    [] verb = "DELETE" -> DeleteSourceAnswer(s))
    [] route = "/sources/:id/edit" -> EditSourceAnswer(s)
    [] route = "/sources/:id/test" -> TestConnectionAnswer(s)
    [] route = "/sources/:id/sync" -> SyncAnswer(s)

AnswerSchedules(verb, route, s) ==
  CASE route = "/schedules" -> IF verb = "GET" THEN SchedulesAnswer ELSE CreateScheduleAnswer
    [] route = "/schedules/new" -> NewScheduleAnswer
    [] route = "/schedules/:id" -> IF verb = "PUT" THEN UpdateScheduleAnswer(s)
                                                   ELSE DeleteScheduleAnswer(s)
    [] route = "/schedules/:id/edit" -> EditScheduleAnswer(s)
    [] route = "/schedules/:id/toggle" -> ToggleAnswer(s)

AnswerRecords(route, item, htmx) ==
  CASE route = "/reports" -> ReportsAnswer(htmx)
    [] route = "/reports/activity" -> ActivityAnswer
    [] route = "/reports/:id" -> ReportAnswer(item)
    [] route = "/reports/generate" -> GenerateAnswer
    [] route = "/usage" -> UsageAnswer
    [] route = "/usage/summary" -> SummaryAnswer
    [] route = "/usage/events" -> EventsAnswer
    [] route = "/invoices" -> InvoicesAnswer(htmx)
    [] route = "/invoices/:id" -> InvoiceAnswer(item)
    [] route = "/settings" -> SettingsAnswer
    [] route = "/settings/budget" -> BudgetAnswer

Serve(verb, route, item, htmx) ==
  CASE <<verb, route>> \in AuthRoutes -> AnswerAccounts(verb, route)
    [] <<verb, route>> \in SourcesRoutes -> AnswerSources(verb, route, item, htmx)
    [] <<verb, route>> \in SchedulesRoutes -> AnswerSchedules(verb, route, item)
    [] <<verb, route>> \in Routes \ (AuthRoutes \cup SourcesRoutes \cup SchedulesRoutes) ->
         AnswerRecords(route, item, htmx)
    [] OTHER -> {Keep(Refuse)}

-----------------------------------------------------------------------------
IdsOn(elements) == {Body} \cup UNION {e.ids : e \in elements}

PagesTypeOK ==
  /\ present \subseteq used /\ used \subseteq Items
  /\ account \in AccountKinds
  /\ \A e \in screen.elements : e.within \in IdsOn(screen.elements)
  /\ going = Nowhere \/ going.detours \in 0 .. MaxDetours
  /\ generated \in BOOLEAN /\ nested \in BOOLEAN /\ pageFaults \in Nat

PagesInit ==
  /\ used = {} /\ present = {}
  /\ account \in AccountKinds
  /\ screen = [at |-> Place("/login", NoItem), elements |-> Login]
  /\ going = Nowhere
  /\ generated = FALSE /\ nested = FALSE /\ pageFaults = 0

\* Other clients and the worker.
ElseWhere ==
  /\ \/ \E i \in Items \ used : used' = used \cup {i} /\ present' = present \cup {i}
     \/ \E i \in present \cap (PageSources \cup PageSchedules) :
          present' = present \ {i} /\ UNCHANGED used
  /\ UNCHANGED <<account, screen, going, generated, nested, pageFaults>>

Follow ==
  \E e \in screen.elements : \E c \in e.controls :
    /\ going = Nowhere /\ c.target = Browser
    /\ going' = [to |-> Place(c.route, c.item), from |-> screen.at, detours |-> 0]
    /\ UNCHANGED <<present, used, account, screen, generated, nested, pageFaults>>

\* The server answers a request, or fails to: an error status.
Answered(verb, route, item, htmx, o) ==
  \/ o \in Serve(verb, route, item, htmx) /\ UNCHANGED pageFaults
  \/ /\ o = Keep(Refuse) /\ pageFaults < MaxPageFaults
     /\ pageFaults' = pageFaults + 1

\* Mutant of Swapped: what lies within a replaced element stays.
XSwappedAlone(e, c, elements) ==
  LET into == IF c.target = Own THEN e.within ELSE c.target
      out  == CASE c.target = Own -> {e}
                [] c.target # Own /\ c.swap = "innerHTML" ->
                     {x \in screen.elements : x.within = c.target}
                [] c.target # Own /\ c.swap = "beforeend" -> {}
  IN (screen.elements \ out) \cup {[x EXCEPT !.within = into] : x \in elements}

\* What the swap of an answer's elements leaves on the screen.
Swapped(e, c, elements) ==
  LET into == IF c.target = Own THEN e.within ELSE c.target
      out  == CASE c.target = Own -> {e}
                [] c.target # Own /\ c.swap = "innerHTML" ->
                     {x \in screen.elements : x.within = c.target}
                [] c.target # Own /\ c.swap = "beforeend" -> {}
      with == out \cup {x \in screen.elements : x.within \in UNION {y.ids : y \in out}}
  IN (screen.elements \ with) \cup {[x EXCEPT !.within = into] : x \in elements}

\* A control of htmx: without its target on the screen nothing is sent.
Press ==
  \E e \in screen.elements : \E c \in e.controls :
  \E o \in Serve(c.verb, c.route, c.item, TRUE) \cup {Keep(Refuse)} :
    /\ going = Nowhere /\ c.target # Browser
    /\ c.target = Own \/ c.target \in IdsOn(screen.elements)
    /\ Answered(c.verb, c.route, c.item, TRUE, o)
    /\ present' = o.present /\ used' = o.used
    /\ going' = IF o.answer.kind = "redirect"
                THEN [to |-> o.answer.to, from |-> screen.at, detours |-> 0] ELSE Nowhere
    /\ screen' = IF o.answer.kind \in {"fragment", "page"}
                 THEN [screen EXCEPT !.elements = Swapped(e, c, o.answer.elements)]
                 ELSE screen
    /\ nested' = (nested \/ o.answer.kind = "page")
    /\ generated' = (generated \/ (c.route = "/reports/generate"
                                     /\ o.answer.kind = "fragment"))
    /\ UNCHANGED account

\* A navigation: a redirect to the referer keeps the referer it came with.
Arrive ==
  /\ going # Nowhere
  /\ \E o \in Serve("GET", going.to.route, going.to.item, FALSE) \cup {Keep(Refuse)} :
       /\ Answered("GET", going.to.route, going.to.item, FALSE, o)
       /\ IF o.answer.kind = "page"
          THEN /\ screen' = [at |-> going.to, elements |-> o.answer.elements]
               /\ going' = Nowhere /\ generated' = FALSE
          ELSE /\ going' = [going EXCEPT
                              !.to = going.from,
                              !.detours = IF @ < MaxDetours THEN @ + 1 ELSE @]
               /\ UNCHANGED <<screen, generated>>
  /\ UNCHANGED <<present, used, account, nested>>

PagesNext == ElseWhere \/ Follow \/ Press \/ Arrive

PagesSpec == PagesInit /\ [][PagesNext]_pagesVars

-----------------------------------------------------------------------------
\* Pages a user opens for the form they hold.
FormPages ==
  {"/login", "/register", "/select-tenant", "/sources/new", "/sources/:id/edit",
   "/schedules/new", "/schedules/:id/edit", "/reports"}

\* After any swaps, deletions and navigations, every control on the screen has a
\* route, a CSRF token if it writes, and a target that is still there; no answer
\* to htmx is a whole page; the form a page was opened for is there unless it is
\* the Generate form, which its own answer replaces; and a link that leads
\* nowhere brings the user back to the page at hand, unless that page's own item
\* is gone: then webErrorHandler redirects to it for ever.
ControlsWork ==
  LET controls == UNION {e.controls : e \in screen.elements} IN
  /\ \A c \in controls :
       /\ <<c.verb, c.route>> \in Routes
       /\ c.verb # "GET" => c.token
       /\ c.target \in IdsOn(screen.elements) \cup {Own, Browser}
  /\ ~ nested
  /\ screen.at.route \in FormPages =>
       generated \/ \E c \in controls : c.verb \in {"POST", "PUT"}
  /\ going # Nowhere =>
       \/ going.detours <= 1 + pageFaults
       \/ going.from.item \in Items \ present
=============================================================================
