----------------------------- MODULE WebProofs ------------------------------
(***************************************************************************)
(* Proofs about the web application: its navigations, for any people,      *)
(* workspaces and cookies, and any number of expired cookies and failed    *)
(* lookups; its lists, for any rows, page sizes and pages opened; and its  *)
(* pages, for any items, kinds of account and failures.                    *)
(*                                                                         *)
(* Lists.  A page is explained by the place each row had in the list when  *)
(* the page was opened.  A row keeps its place but for the rows that came  *)
(* and went since (PlaceThen), so what was read of the page is what has    *)
(* its places (FirstRead, Polled), and what the next page misses lies      *)
(* where the offset moved over it (Settled).                               *)
(*                                                                         *)
(* Pages.  The elements with ids lie at most two deep, so a swap leaves    *)
(* what remains in a part of the page that is there (SwapSound), and what  *)
(* an answer brings targets itself or what it is swapped into              *)
(* (BroughtSound).  A route answers htmx with a fragment or a redirect and *)
(* never with a page (HtmxAnswered), and a navigation with its page, or a  *)
(* refusal if the item of the page is gone (Visited).                      *)
(***************************************************************************)
EXTENDS WebSession, ListPages, Pages, FiniteSetTheorems, TLAPS

(***************************************************************************)
(* Sessions and navigations.                                               *)
(***************************************************************************)

(***************************************************************************)
(* Types.                                                                  *)
(***************************************************************************)

\* The pages a navigation can end in.
EndPages == PublicPages \cup TenantPages \cup {"/select-tenant"}

\* Where a request comes from: forms are sent from the pages that have them,
\* and the two paths without a page are only met on the way back to their form.
Referred(r) ==
  /\ r.referer \in EndPages \cup {NoPage}
  /\ r.method = "POST" =>
       r.referer # NoPage /\ r.path \in FormsOf(r.referer)
  /\ r.method = "GET" /\ r.path \in {"/create-tenant", "/logout"} =>
       r.referer = "/select-tenant"

\* Only workspaces that have a row have members.
MembersOfRows == \A m \in memberships : m[2] \in workspaces

SessionInv ==
  /\ WebSessionTypeOK
  /\ page.path \in EndPages \cup {NoPage}
  /\ request # NoPage => Referred(request)
  /\ MembersOfRows

LEMMA SessionFacts ==
  /\ MaxHops \in Nat /\ EndPages \subseteq Paths
  /\ \A u \in People : u # Nobody
  /\ \A t \in Workspaces : t # NoWorkspace
  /\ \A r \in WebRequests : r # NoPage
  /\ \A x \in Paths : x # NoPage
BY SessionAssumption DEF EndPages, Paths

\* Cookies keep their type when fields change.
LEMMA CookieFields ==
  ASSUME NEW c \in Cookies, NEW u \in People, NEW t \in Workspaces, NEW b \in BOOLEAN,
         NEW n \in Nat
  PROVE  /\ [c EXCEPT !.flash = b] \in Cookies
         /\ [c EXCEPT !.csrf = n] \in Cookies
         /\ [c EXCEPT !.jwt = u, !.valid = TRUE] \in Cookies
         /\ [c EXCEPT !.tenant = t] \in Cookies
BY DEF Cookies

\* Whom the cookies name, and where: all that redirects depend on.
Identity(c) == <<c.jwt, c.valid, c.tenant>>

LEMMA CsrfTyped ==
  ASSUME WebSessionTypeOK, NEW c \in Cookies
  PROVE  Csrf(c) \in Cookies /\ Identity(Csrf(c)) = Identity(c)
BY DEF Csrf, Cookies, WebSessionTypeOK, Identity

LEMMA FlashTyped ==
  ASSUME NEW c \in Cookies
  PROVE  /\ WithFlash(c) \in Cookies /\ Identity(WithFlash(c)) = Identity(c)
         /\ [c EXCEPT !.flash = FALSE] \in Cookies
         /\ Identity([c EXCEPT !.flash = FALSE]) = Identity(c)
BY DEF WithFlash, Cookies, Identity

\* The three ways a request ends or goes on.
LEMMA ShowTyped ==
  ASSUME SessionInv, NEW path \in EndPages, NEW c \in Cookies, Show(path, c),
         UNCHANGED serverVars
  PROVE  SessionInv' /\ request' = NoPage
PROOF
<1>1. Csrf(c) \in Cookies
  BY CsrfTyped DEF SessionInv
<1>2. Csrf(c).csrf \in Nat
  BY <1>1 DEF Cookies
<1>3. page' \in [path : Paths \cup {NoPage}, token : Nat] /\ page'.path = path
  BY <1>2, SessionFacts DEF Show
<1>4. tokens' \in Nat
  BY DEF Show, CsrfIssued, SessionInv, WebSessionTypeOK
<1> QED
  BY <1>1, <1>3, <1>4 DEF Show, SessionInv, WebSessionTypeOK, serverVars, MembersOfRows

LEMMA RedirectTyped ==
  ASSUME SessionInv, request # NoPage, NEW path \in Paths, NEW c \in Cookies,
         RedirectTo(path, c),
         path \in {"/create-tenant", "/logout"} => request.referer = "/select-tenant",
         accounts' \subseteq People, workspaces' \subseteq Workspaces,
         memberships' \subseteq People \X Workspaces, MembersOfRows',
         sessionFaults' \in Nat
  PROVE  /\ SessionInv'
         /\ request' \in WebRequests /\ request'.method = "GET" /\ request'.path = path
         /\ request'.referer = request.referer
PROOF
<1> DEFINE q == [request EXCEPT !.method = "GET", !.path = path, !.htmx = FALSE, !.token = 0]
<1>1. Csrf(c) \in Cookies
  BY CsrfTyped DEF SessionInv
<1>2. request \in WebRequests
  BY DEF SessionInv, WebSessionTypeOK
<1>3. /\ q \in WebRequests /\ q.method = "GET" /\ q.path = path
      /\ q.referer = request.referer
  BY <1>2 DEF WebRequests
<1>4. request' = q
  BY DEF RedirectTo
<1> HIDE DEF q
<1>5. tokens' \in Nat /\ hops' \in 0 .. MaxHops /\ astray' \in BOOLEAN
  BY SessionFacts DEF RedirectTo, CsrfIssued, SessionInv, WebSessionTypeOK, ForeignWorkspace
<1>6. Referred(request')
  BY <1>3, <1>4 DEF Referred, SessionInv
<1>7. cookies' = Csrf(c) /\ page' = page /\ visits' = visits
  BY DEF RedirectTo
<1> QED
  BY <1>1, <1>3, <1>4, <1>5, <1>6, <1>7 DEF SessionInv, WebSessionTypeOK

LEMMA StayTyped ==
  ASSUME SessionInv, NEW c \in Cookies, Stay(c),
         accounts' \subseteq People, workspaces' \subseteq Workspaces,
         memberships' \subseteq People \X Workspaces, MembersOfRows',
         sessionFaults' \in Nat
  PROVE  SessionInv' /\ request' = NoPage
BY DEF Stay, SessionInv, WebSessionTypeOK

(***************************************************************************)
(* Redirects still to come.                                                *)
(***************************************************************************)

SignedInBy(c) == c.jwt # Nobody /\ c.valid

\* The redirects a request leads to if no cookie expires, no lookup fails and the
\* workspace is the user's own.
Rest(r, c) ==
  CASE r.method = "POST" /\ r.path \in PublicPages -> 1
    [] r.method = "POST" /\ r.path \notin PublicPages -> 2
    [] r.method = "GET" /\ r.path \in PublicPages -> 0
    [] r.method = "GET" /\ r.path \in {"/create-tenant", "/logout"} ->
         IF SignedInBy(c) THEN 1 ELSE 2
    [] r.method = "GET" /\ r.path = "/select-tenant" ->
         IF SignedInBy(c) THEN 0 ELSE 1
    [] r.method = "GET" /\ r.path \in TenantPages ->
         IF SignedInBy(c) /\ c.tenant # NoWorkspace THEN 0 ELSE 1

LEMMA RestOfForm ==
  ASSUME NEW r, NEW c, r.method = "POST"
  PROVE  /\ r.path \in PublicPages => Rest(r, c) = 1
         /\ r.path \notin PublicPages => Rest(r, c) = 2
BY DEF Rest

LEMMA RestOfPage ==
  ASSUME NEW r, NEW c, r.method = "GET"
  PROVE  /\ r.path \in PublicPages => Rest(r, c) = 0
         /\ r.path \in {"/create-tenant", "/logout"} =>
              Rest(r, c) = IF SignedInBy(c) THEN 1 ELSE 2
         /\ r.path = "/select-tenant" => Rest(r, c) = IF SignedInBy(c) THEN 0 ELSE 1
         /\ r.path \in TenantPages =>
              Rest(r, c) = IF SignedInBy(c) /\ c.tenant # NoWorkspace THEN 0 ELSE 1
BY DEF Rest, PublicPages, TenantPages

LEMMA RestBound ==
  ASSUME NEW r \in WebRequests, NEW c
  PROVE  Rest(r, c) \in 0 .. 2
PROOF
<1>1. r.method \in {"GET", "POST"} /\ r.path \in Paths
  BY DEF WebRequests
<1> QED  BY <1>1, RestOfForm, RestOfPage DEF Paths

\* Only who is signed in, and where, counts.
LEMMA RestOfIdentity ==
  ASSUME NEW r, NEW c, NEW d, Identity(c) = Identity(d)
  PROVE  Rest(r, c) = Rest(r, d)
PROOF
<1>1. c.jwt = d.jwt /\ c.valid = d.valid /\ c.tenant = d.tenant
  BY DEF Identity
<1> QED  BY <1>1 DEF Rest, SignedInBy

\* The request ends, and nothing was redirected.
Ends == request' = NoPage /\ hops' = hops /\ astray' = astray /\ sessionFaults <= sessionFaults'

\* A redirect brings the navigation nearer to its end, or a fault accounts for it.
Nearer ==
  /\ request' # NoPage /\ hops' <= hops + 1
  /\ sessionFaults <= sessionFaults'
  /\ ~astray' => /\ ~astray
                 /\ Rest(request', cookies') + 1 + sessionFaults
                      <= Rest(request, cookies) + sessionFaults'

LEMMA ShowEnds ==
  ASSUME SessionInv, NEW path \in EndPages, NEW c \in Cookies, Show(path, c),
         UNCHANGED serverVars
  PROVE  SessionInv' /\ Ends
PROOF
<1>1. SessionInv' /\ request' = NoPage
  BY ShowTyped
<1> QED  BY <1>1 DEF Show, Ends, SessionInv, WebSessionTypeOK

LEMMA StayEnds ==
  ASSUME SessionInv, NEW c \in Cookies, Stay(c),
         accounts' \subseteq People, workspaces' \subseteq Workspaces,
         memberships' \subseteq People \X Workspaces, MembersOfRows',
         sessionFaults' \in Nat, sessionFaults <= sessionFaults'
  PROVE  SessionInv' /\ Ends
PROOF
<1>1. SessionInv' /\ request' = NoPage
  BY StayTyped
<1> QED  BY <1>1 DEF Stay, Ends

\* A redirect to a page with one redirect less to come.
LEMMA RedirectNearer ==
  ASSUME SessionInv, request # NoPage, NEW path \in Paths, NEW c \in Cookies,
         RedirectTo(path, c),
         path \in {"/create-tenant", "/logout"} => request.referer = "/select-tenant",
         accounts' \subseteq People, workspaces' \subseteq Workspaces,
         memberships' \subseteq People \X Workspaces, MembersOfRows',
         sessionFaults' \in Nat, sessionFaults <= sessionFaults',
         \A q : ~ForeignWorkspace /\ q.method = "GET" /\ q.path = path =>
           Rest(q, c) + 1 + sessionFaults <= Rest(request, cookies) + sessionFaults'
  PROVE  SessionInv' /\ Nearer
PROOF
<1>1. /\ SessionInv' /\ request' \in WebRequests
      /\ request'.method = "GET" /\ request'.path = path
  BY RedirectTyped
<1>2. request' # NoPage
  BY <1>1, SessionFacts
<1>3. cookies' = Csrf(c) /\ Identity(cookies') = Identity(c)
  BY CsrfTyped DEF RedirectTo, SessionInv
<1>4. Rest(request', cookies') = Rest(request', c)
  BY <1>3, RestOfIdentity
<1>5. hops' <= hops + 1
  BY SessionFacts DEF RedirectTo, SessionInv, WebSessionTypeOK
<1>6. ~astray' => ~astray /\ ~ForeignWorkspace
  BY DEF RedirectTo
<1> QED  BY <1>1, <1>2, <1>4, <1>5, <1>6 DEF Nearer

LEMMA RequestFacts ==
  ASSUME SessionInv, request # NoPage
  PROVE  /\ request \in WebRequests /\ request.method \in {"GET", "POST"}
         /\ request.path \in Paths /\ request.user \in People
         /\ request.tenant \in Workspaces
         /\ request.referer \in EndPages \cup {NoPage}
         /\ request.method = "POST" =>
              \/ request.path \in PublicPages /\ request.referer = request.path
              \/ /\ request.path \in {"/select-tenant", "/create-tenant", "/logout"}
                 /\ request.path \notin PublicPages
                 /\ request.referer = "/select-tenant"
         /\ request.method = "GET" /\ request.path \in {"/create-tenant", "/logout"} =>
              request.referer = "/select-tenant"
         /\ Rest(request, cookies) \in 0 .. 2
PROOF
<1>1. request \in WebRequests /\ Referred(request)
  BY DEF SessionInv, WebSessionTypeOK
<1>2. request.method = "POST" =>
        \/ request.path \in PublicPages /\ request.referer = request.path
        \/ /\ request.path \in {"/select-tenant", "/create-tenant", "/logout"}
           /\ request.path \notin PublicPages
           /\ request.referer = "/select-tenant"
  BY <1>1 DEF Referred, FormsOf, EndPages, PublicPages, TenantPages
<1> QED  BY <1>1, <1>2, RestBound DEF WebRequests, Referred

LEMMA StateFacts ==
  ASSUME SessionInv
  PROVE  /\ cookies \in Cookies /\ sessionFaults \in Nat
         /\ accounts \subseteq People /\ workspaces \subseteq Workspaces
         /\ memberships \subseteq People \X Workspaces /\ MembersOfRows
BY DEF SessionInv, WebSessionTypeOK

LEMMA ServerKept ==
  ASSUME SessionInv, UNCHANGED serverVars
  PROVE  /\ accounts' \subseteq People /\ workspaces' \subseteq Workspaces
         /\ memberships' \subseteq People \X Workspaces /\ MembersOfRows'
BY StateFacts DEF serverVars, MembersOfRows

\* The error handlers: the answer to a refused request.
LEMMA WebErrorNearer ==
  ASSUME SessionInv, request # NoPage, WebError, UNCHANGED serverVars,
         sessionFaults' \in Nat, sessionFaults <= sessionFaults',
         \A q, path : /\ ~ForeignWorkspace /\ q.method = "GET" /\ q.path = path
                      /\ path = IF request.referer = NoPage THEN "/" ELSE request.referer
           => Rest(q, cookies) + 1 + sessionFaults <= Rest(request, cookies) + sessionFaults'
  PROVE  SessionInv' /\ (Ends \/ Nearer)
PROOF
<1> DEFINE path == IF request.referer = NoPage THEN "/" ELSE request.referer
<1>1. CASE request.htmx
  BY <1>1, StayEnds, StateFacts, ServerKept DEF WebError
<1>2. CASE ~request.htmx
  <2>1. path \in EndPages /\ path \in Paths /\ path \notin {"/create-tenant", "/logout"}
    BY RequestFacts, SessionFacts DEF EndPages, PublicPages, TenantPages
  <2>2. WithFlash(cookies) \in Cookies /\ Identity(WithFlash(cookies)) = Identity(cookies)
    BY StateFacts, FlashTyped
  <2>3. \A q : Rest(q, WithFlash(cookies)) = Rest(q, cookies)
    BY <2>2, RestOfIdentity
  <2>4. RedirectTo(path, WithFlash(cookies))
    BY <1>2 DEF WebError
  <2>5. \A q : ~ForeignWorkspace /\ q.method = "GET" /\ q.path = path =>
          Rest(q, WithFlash(cookies)) + 1 + sessionFaults
            <= Rest(request, cookies) + sessionFaults'
    BY <2>3
  <2> HIDE DEF path
  <2> QED  BY <2>1, <2>2, <2>4, <2>5, RedirectNearer, ServerKept
<1> QED  BY <1>1, <1>2

LEMMA AuthErrorNearer ==
  ASSUME SessionInv, request # NoPage, request.method = "POST", AuthError,
         accounts' \subseteq People, workspaces' \subseteq Workspaces,
         memberships' \subseteq People \X Workspaces, MembersOfRows',
         sessionFaults' = sessionFaults,
         request.path \in PublicPages \/ SignedInBy(cookies)
  PROVE  SessionInv' /\ (Ends \/ Nearer)
PROOF
<1>1. CASE request.htmx
  BY <1>1, StayEnds, StateFacts DEF AuthError
<1>2. CASE ~request.htmx
  <2> DEFINE path == request.path
  <2>1. path \in Paths /\ (path \in {"/create-tenant", "/logout"} =>
                             request.referer = "/select-tenant")
    BY RequestFacts DEF PublicPages
  <2>2. WithFlash(cookies) \in Cookies /\ Identity(WithFlash(cookies)) = Identity(cookies)
    BY StateFacts, FlashTyped
  <2>3. \A q : Rest(q, WithFlash(cookies)) = Rest(q, cookies)
    BY <2>2, RestOfIdentity
  <2>4. ASSUME NEW q, q.method = "GET", q.path = path
        PROVE  Rest(q, cookies) \in Nat /\ Rest(q, cookies) + 1 <= Rest(request, cookies)
    <3>1. CASE path \in PublicPages
      BY <2>4, <3>1, RestOfForm, RestOfPage
    <3>2. CASE path \notin PublicPages
      <4>1. path \in {"/select-tenant", "/create-tenant", "/logout"}
        BY <3>2, RequestFacts
      <4>2. Rest(q, cookies) \in {0, 1}
        BY <2>4, <3>2, <4>1, RestOfPage
      <4> QED  BY <3>2, <4>2, RestOfForm
    <3> QED  BY <3>1, <3>2
  <2>5. RedirectTo(path, WithFlash(cookies))
    BY <1>2 DEF AuthError
  <2>6. \A q : ~ForeignWorkspace /\ q.method = "GET" /\ q.path = path =>
          Rest(q, WithFlash(cookies)) + 1 + sessionFaults
            <= Rest(request, cookies) + sessionFaults'
    BY <2>3, <2>4, RequestFacts, StateFacts
  <2> HIDE DEF path
  <2> QED  BY <2>1, <2>2, <2>5, <2>6, RedirectNearer, StateFacts
<1> QED  BY <1>1, <1>2

LEMMA ErrorsNearer ==
  ASSUME SessionInv,
         RejectForm \/ MethodNotAllowed \/ CookieAuthRefuses \/ TenantRefused
  PROVE  SessionInv' /\ (Ends \/ Nearer)
PROOF
<1> USE StateFacts, RequestFacts
<1>0. request # NoPage /\ UNCHANGED serverVars
  BY DEF RejectForm, MethodNotAllowed, CookieAuthRefuses, TenantRefused, Handles,
         UnderTenant
<1> DEFINE path == IF request.referer = NoPage THEN "/" ELSE request.referer
           Brings(f) == \A q : ~ForeignWorkspace /\ q.method = "GET" /\ q.path = path =>
                          /\ Rest(q, cookies) \in Nat
                          /\ Rest(q, cookies) + 1 <= Rest(request, cookies) + f
<1>1. CASE RejectForm
  <2>1. request.method = "POST" /\ WebError /\ sessionFaults' = sessionFaults
    BY <1>0, <1>1 DEF RejectForm, TokenAccepted
  <2>2. path = request.referer
    BY <1>0, <2>1, SessionFacts DEF EndPages, PublicPages, TenantPages, Paths
  <2>3. ASSUME NEW q, q.method = "GET", q.path = path
        PROVE  Rest(q, cookies) \in Nat /\ Rest(q, cookies) + 1 <= Rest(request, cookies)
    <3>1. CASE request.path \in PublicPages
      <4>1. Rest(q, cookies) = 0
        BY <1>0, <2>1, <2>2, <2>3, <3>1, RestOfPage DEF PublicPages
      <4> QED  BY <2>1, <3>1, <4>1, RestOfForm
    <3>2. CASE request.path \notin PublicPages
      <4>1. Rest(q, cookies) \in {0, 1}
        BY <1>0, <2>1, <2>2, <2>3, <3>2, RestOfPage
      <4> QED  BY <2>1, <3>2, <4>1, RestOfForm
    <3> QED  BY <3>1, <3>2
  <2> QED  BY <1>0, <2>1, <2>3, WebErrorNearer
<1>2. CASE MethodNotAllowed
  <2>1. /\ request.method = "GET" /\ request.path \in {"/create-tenant", "/logout"}
        /\ WebError /\ sessionFaults' = sessionFaults
    BY <1>2 DEF MethodNotAllowed, Handles
  <2>2. path = "/select-tenant"
    BY <1>0, <2>1, SessionFacts DEF Paths
  <2>3. ASSUME NEW q, q.method = "GET", q.path = path
        PROVE  Rest(q, cookies) \in Nat /\ Rest(q, cookies) + 1 <= Rest(request, cookies)
    BY <2>1, <2>2, <2>3, RestOfPage
  <2> QED  BY <1>0, <2>1, <2>3, WebErrorNearer
<1>3. CASE TenantRefused
  <2>1. /\ request.path \in TenantPages /\ SignedInBy(cookies)
        /\ cookies.tenant # NoWorkspace /\ WebError
    BY <1>3 DEF TenantRefused, UnderTenant, SignedIn, ValidateToken, SignedInBy
  <2>2. \/ sessionFaults' = sessionFaults /\ ForeignWorkspace
        \/ sessionFaults' = sessionFaults + 1
    BY <1>3, <2>1
    DEF TenantRefused, ForeignWorkspace, SignedInBy, IsMember, MembersOfRows
  <2>3. path \in EndPages
    BY <1>0 DEF EndPages, TenantPages
  <2>4. ASSUME NEW q, q.method = "GET", q.path = path PROVE Rest(q, cookies) = 0
    BY <2>1, <2>3, <2>4, RestOfPage DEF EndPages
  <2>5. \A q : ~ForeignWorkspace /\ q.method = "GET" /\ q.path = path
           => Rest(q, cookies) + 1 + sessionFaults <= Rest(request, cookies) + sessionFaults'
    BY <1>0, <2>2, <2>4
  <2>6. sessionFaults' \in Nat /\ sessionFaults <= sessionFaults'
    BY <2>2
  <2> QED  BY <1>0, <2>1, <2>5, <2>6, WebErrorNearer
<1>4. CASE CookieAuthRefuses
  <2>1. /\ ~SignedInBy(cookies) /\ sessionFaults' = sessionFaults /\ Unauthorized
        /\ request.path \notin PublicPages
        /\ request.method = "GET" => request.path \notin {"/create-tenant", "/logout"}
    BY <1>4 DEF CookieAuthRefuses, SignedIn, ValidateToken, SignedInBy, Private
  <2>2. Rest(request, cookies) >= 1
    <3>1. CASE request.method = "POST"
      BY <2>1, <3>1, RestOfForm
    <3>2. CASE request.method = "GET"
      <4>1. request.path = "/select-tenant" \/ request.path \in TenantPages
        BY <1>0, <2>1, <3>2 DEF Paths
      <4> QED  BY <2>1, <3>2, <4>1, RestOfPage
    <3> QED  BY <1>0, <3>1, <3>2
  <2>3. CASE request.htmx
    BY <1>0, <2>1, <2>3, StayEnds, ServerKept DEF Unauthorized
  <2>4. CASE ~request.htmx
    <3>1. WithFlash(cookies) \in Cookies /\ RedirectTo("/login", WithFlash(cookies))
      BY <2>1, <2>4, FlashTyped DEF Unauthorized
    <3>2. \A q : q.method = "GET" /\ q.path = "/login" =>
            Rest(q, WithFlash(cookies)) + 1 + sessionFaults
              <= Rest(request, cookies) + sessionFaults'
      <4>1. \A q : q.method = "GET" /\ q.path = "/login" => Rest(q, WithFlash(cookies)) = 0
        BY RestOfPage DEF PublicPages
      <4> QED  BY <1>0, <2>1, <2>2, <4>1
    <3>3. "/login" \in Paths /\ "/login" \notin {"/create-tenant", "/logout"}
      BY DEF Paths, PublicPages
    <3> QED  BY <1>0, <2>1, <3>1, <3>2, <3>3, RedirectNearer, ServerKept
  <2> QED  BY <2>3, <2>4
<1> QED  BY <1>1, <1>2, <1>3, <1>4

\* A redirect to a page that is shown to whoever the cookies now name.
LEMMA ArrivesNext ==
  ASSUME SessionInv, request # NoPage, Rest(request, cookies) >= 1,
         NEW path \in {"/login", "/select-tenant", "/dashboard"}, NEW c \in Cookies,
         RedirectTo(path, c),
         path = "/select-tenant" => SignedInBy(c),
         path = "/dashboard" => SignedInBy(c) /\ c.tenant # NoWorkspace,
         accounts' \subseteq People, workspaces' \subseteq Workspaces,
         memberships' \subseteq People \X Workspaces, MembersOfRows',
         sessionFaults' = sessionFaults
  PROVE  SessionInv' /\ (Ends \/ Nearer)
PROOF
<1>1. \A q : q.method = "GET" /\ q.path = path => Rest(q, c) = 0
  BY RestOfPage DEF PublicPages, TenantPages
<1>2. \A q : ~ForeignWorkspace /\ q.method = "GET" /\ q.path = path =>
        Rest(q, c) + 1 + sessionFaults <= Rest(request, cookies) + sessionFaults'
  BY <1>1, RequestFacts, StateFacts
<1>3. path \in Paths /\ path \notin {"/create-tenant", "/logout"}
  BY DEF Paths, PublicPages, TenantPages
<1> QED  BY <1>2, <1>3, RedirectNearer, StateFacts

LEMMA FormsNearer ==
  ASSUME SessionInv, LoginSubmit \/ RegisterSubmit \/ SelectTenantSubmit \/ Logout
  PROVE  SessionInv' /\ (Ends \/ Nearer)
PROOF
<1> USE StateFacts, RequestFacts
<1>0. /\ request # NoPage /\ request.method = "POST" /\ sessionFaults' = sessionFaults
      /\ Rest(request, cookies) >= 1
  <2>1. request # NoPage /\ request.method = "POST" /\ sessionFaults' = sessionFaults
    BY DEF LoginSubmit, RegisterSubmit, SelectTenantSubmit, Logout, Handles
  <2> QED  BY <2>1, RestOfForm
<1>1. SetJWT(request.user) \in Cookies /\ SignedInBy(SetJWT(request.user))
  <2>1. request.user \in People /\ request.user # Nobody
    BY <1>0, SessionFacts
  <2>2. /\ [cookies EXCEPT !.jwt = request.user, !.valid = TRUE] \in Cookies
        /\ [cookies EXCEPT !.jwt = request.user, !.valid = TRUE].jwt = request.user
        /\ [cookies EXCEPT !.jwt = request.user, !.valid = TRUE].valid = TRUE
    BY <2>1 DEF Cookies
  <2> QED  BY <2>1, <2>2 DEF SetJWT, SignedInBy
<1>2. CASE LoginSubmit
  <2>1. request.path \in PublicPages /\ UNCHANGED serverVars
    BY <1>2 DEF LoginSubmit, Handles, PublicPages
  <2>2. CASE Authenticates(request.user)
    <3>1. RedirectTo("/select-tenant", SetJWT(request.user))
      BY <1>2, <2>2 DEF LoginSubmit
    <3> QED  BY <1>0, <1>1, <2>1, <3>1, ArrivesNext, ServerKept
  <2>3. CASE ~Authenticates(request.user)
    <3>1. AuthError
      BY <1>2, <2>3 DEF LoginSubmit
    <3> QED  BY <1>0, <2>1, <3>1, AuthErrorNearer, ServerKept
  <2> QED  BY <2>2, <2>3
<1>3. CASE RegisterSubmit
  <2>1. /\ request.path \in PublicPages /\ UNCHANGED <<workspaces, memberships>>
        /\ accounts' \subseteq People
    BY <1>0, <1>3 DEF RegisterSubmit, Handles, PublicPages, CreateAccount
  <2>2. workspaces' \subseteq Workspaces /\ memberships' \subseteq People \X Workspaces
        /\ MembersOfRows'
    BY <2>1 DEF MembersOfRows
  <2>3. CASE Authenticates(request.user)
    <3>1. AuthError
      BY <1>3, <2>3 DEF RegisterSubmit
    <3> QED  BY <1>0, <2>1, <2>2, <3>1, AuthErrorNearer
  <2>4. CASE ~Authenticates(request.user)
    <3>1. RedirectTo("/select-tenant", SetJWT(request.user))
      BY <1>3, <2>4 DEF RegisterSubmit
    <3> QED  BY <1>0, <1>1, <2>1, <2>2, <3>1, ArrivesNext
  <2> QED  BY <2>3, <2>4
<1>4. CASE SelectTenantSubmit
  <2>1. SignedInBy(cookies) /\ UNCHANGED serverVars
    BY <1>4 DEF SelectTenantSubmit, SignedIn, ValidateToken, SignedInBy
  <2>2. CASE IsMember(cookies.jwt, request.tenant)
    <3>1. RedirectTo("/dashboard", SetTenant(request.tenant))
      BY <1>4, <2>2 DEF SelectTenantSubmit
    <3>2. /\ SetTenant(request.tenant) \in Cookies /\ SignedInBy(SetTenant(request.tenant))
          /\ SetTenant(request.tenant).tenant # NoWorkspace
      BY <1>0, <2>1, SessionFacts DEF SetTenant, Cookies, SignedInBy
    <3> QED  BY <1>0, <2>1, <3>1, <3>2, ArrivesNext, ServerKept
  <2>3. CASE ~IsMember(cookies.jwt, request.tenant)
    <3>1. AuthError
      BY <1>4, <2>3 DEF SelectTenantSubmit
    <3> QED  BY <1>0, <2>1, <3>1, AuthErrorNearer, ServerKept
  <2> QED  BY <2>2, <2>3
<1>5. CASE Logout
  <2>1. RedirectTo("/login", ClearCookies) /\ UNCHANGED serverVars
    BY <1>5 DEF Logout
  <2>2. ClearCookies \in Cookies
    BY DEF ClearCookies, Cookies
  <2> QED  BY <1>0, <2>1, <2>2, ArrivesNext, ServerKept
<1> QED  BY <1>2, <1>3, <1>4, <1>5

LEMMA CreateNearer ==
  ASSUME SessionInv, CreateTenantSubmit
  PROVE  SessionInv' /\ (Ends \/ Nearer)
PROOF
<1> USE StateFacts, RequestFacts
<1>0. /\ request # NoPage /\ request.method = "POST" /\ sessionFaults' = sessionFaults
      /\ SignedInBy(cookies)
  BY DEF CreateTenantSubmit, Handles, SignedIn, ValidateToken, SignedInBy
<1>1. Rest(request, cookies) >= 1
  BY <1>0, RestOfForm
<1>2. CASE request.tenant \in workspaces
  <2>1. AuthError /\ UNCHANGED serverVars
    BY <1>2 DEF CreateTenantSubmit
  <2> QED  BY <1>0, <2>1, AuthErrorNearer, ServerKept
<1>3. CASE request.tenant \notin workspaces
  <2>1. /\ RedirectTo("/dashboard", SetTenant(request.tenant))
        /\ workspaces' = workspaces \cup {request.tenant}
        /\ memberships' = memberships \cup {<<cookies.jwt, request.tenant>>}
        /\ accounts' = accounts
    BY <1>3 DEF CreateTenantSubmit
  <2>2. cookies.jwt \in People /\ request.tenant \in Workspaces
    BY <1>0 DEF Cookies, SignedInBy
  <2>3. /\ accounts' \subseteq People /\ workspaces' \subseteq Workspaces
        /\ memberships' \subseteq People \X Workspaces /\ MembersOfRows'
    BY <2>1, <2>2 DEF MembersOfRows
  <2>4. /\ SetTenant(request.tenant) \in Cookies /\ SignedInBy(SetTenant(request.tenant))
        /\ SetTenant(request.tenant).tenant # NoWorkspace
    BY <1>0, SessionFacts DEF SetTenant, Cookies, SignedInBy
  <2> QED  BY <1>0, <1>1, <2>1, <2>3, <2>4, ArrivesNext
<1> QED  BY <1>2, <1>3

LEMMA NoCookieNearer ==
  ASSUME SessionInv, NoTenantCookie
  PROVE  SessionInv' /\ (Ends \/ Nearer)
PROOF
<1> USE StateFacts, RequestFacts
<1>1. /\ request # NoPage /\ sessionFaults' = sessionFaults /\ SignedInBy(cookies)
      /\ cookies.tenant = NoWorkspace /\ request.path \in TenantPages
      /\ RedirectTo("/select-tenant", cookies) /\ UNCHANGED serverVars
  BY DEF NoTenantCookie, UnderTenant, SignedIn, ValidateToken, SignedInBy
<1>2. request.method = "GET" /\ Rest(request, cookies) = 1
  BY <1>1, RestOfPage DEF TenantPages, PublicPages
<1> QED  BY <1>1, <1>2, ArrivesNext, ServerKept

LEMMA PagesEnd ==
  ASSUME SessionInv, PublicPage \/ SelectTenantPage \/ TenantPage
  PROVE  SessionInv' /\ Ends
PROOF
<1> USE StateFacts, RequestFacts
<1>1. ReadFlash \in Cookies
  BY FlashTyped DEF ReadFlash
<1>2. CASE PublicPage
  <2>1. PICK path \in PublicPages : Show(path, cookies)
    BY <1>2 DEF PublicPage
  <2>2. path \in EndPages /\ UNCHANGED serverVars
    BY <1>2 DEF EndPages, PublicPage
  <2> QED  BY <2>1, <2>2, ShowEnds
<1>3. CASE SelectTenantPage
  BY <1>1, <1>3, ShowEnds DEF SelectTenantPage, EndPages
<1>4. CASE TenantPage
  <2>1. request.path \in EndPages /\ Show(request.path, ReadFlash) /\ UNCHANGED serverVars
    BY <1>4 DEF TenantPage, UnderTenant, EndPages
  <2> QED  BY <1>1, <2>1, ShowEnds
<1> QED  BY <1>2, <1>3, <1>4

LEMMA ServeNearer ==
  ASSUME SessionInv, ServeRequest
  PROVE  SessionInv' /\ request # NoPage /\ (Ends \/ Nearer)
PROOF
<1>1. request # NoPage
  BY DEF ServeRequest, RejectForm, PublicPage, LoginSubmit, RegisterSubmit, MethodNotAllowed,
         CookieAuthRefuses, SelectTenantPage, SelectTenantSubmit, CreateTenantSubmit, Logout,
         NoTenantCookie, TenantRefused, TenantPage, Handles, UnderTenant
<1> QED
  BY <1>1, ErrorsNearer, FormsNearer, CreateNearer, NoCookieNearer, PagesEnd DEF ServeRequest

(***************************************************************************)
(* Navigations.                                                            *)
(***************************************************************************)

\* A navigation has redirects left for what it may still need.
RoomToSettle ==
  ~astray => /\ hops <= 2 + sessionFaults
             /\ request # NoPage => hops + Rest(request, cookies) <= 2 + sessionFaults

NavigationInv == SessionInv /\ RoomToSettle

LEMMA RoomKept ==
  ASSUME NEW h \in Nat, NEW k \in Nat, NEW f \in Nat, NEW g \in Nat,
         NEW rest \in Nat, NEW left \in Nat
  PROVE  /\ h <= 2 + f /\ f <= g => h <= 2 + g
         /\ k <= h + 1 /\ left + 1 + f <= rest + g /\ h + rest <= 2 + f =>
              k + left <= 2 + g /\ k <= 2 + g
OBVIOUS

LEMMA ServeSettles == ASSUME NavigationInv, ServeRequest PROVE NavigationInv'
PROOF
<1>1. /\ SessionInv /\ SessionInv' /\ request # NoPage /\ (Ends \/ Nearer)
      /\ hops \in Nat /\ hops' \in Nat
      /\ sessionFaults \in Nat /\ sessionFaults' \in Nat
  BY ServeNearer, SessionFacts DEF NavigationInv, SessionInv, WebSessionTypeOK
<1>2. Rest(request, cookies) \in 0 .. 2
  BY <1>1, RequestFacts
<1>3. ~astray => hops + Rest(request, cookies) <= 2 + sessionFaults
  BY <1>1 DEF NavigationInv, RoomToSettle
<1>4. CASE Ends
  <2>1. /\ request' = NoPage /\ hops' = hops /\ astray' = astray
        /\ sessionFaults <= sessionFaults'
    BY <1>4 DEF Ends
  <2>2. ~astray => hops <= 2 + sessionFaults
    BY DEF NavigationInv, RoomToSettle
  <2>3. ASSUME ~astray' PROVE hops' <= 2 + sessionFaults'
    <3>1. hops <= 2 + sessionFaults
      BY <2>1, <2>2, <2>3, Zenon
    <3>2. hops' = hops /\ sessionFaults <= sessionFaults'
      BY <2>1
    <3>3. hops \in Nat /\ sessionFaults \in Nat /\ sessionFaults' \in Nat
      BY <1>1
    <3> QED  BY <3>1, <3>2, <3>3, RoomKept
  <2> QED  BY <1>1, <2>1, <2>3 DEF NavigationInv, RoomToSettle
<1>5. CASE Nearer
  <2>1. Rest(request', cookies') \in 0 .. 2
    BY <1>1, <1>5, RestBound DEF Nearer, SessionInv, WebSessionTypeOK
  <2>2. /\ hops' <= hops + 1
        /\ ~astray' =>
             ~astray /\ Rest(request', cookies') + 1 + sessionFaults
                          <= Rest(request, cookies) + sessionFaults'
    BY <1>5 DEF Nearer
  <2> DEFINE R == Rest(request, cookies)
             N == Rest(request', cookies')
  <2> HIDE DEF R, N
  <2>3. R \in Nat /\ N \in Nat
    BY <1>2, <2>1 DEF R, N
  <2>4. /\ ~astray' => ~astray /\ N + 1 + sessionFaults <= R + sessionFaults'
        /\ ~astray => hops + R <= 2 + sessionFaults
    BY <1>3, <2>2 DEF R, N
  <2>5. ASSUME ~astray' PROVE hops' + N <= 2 + sessionFaults' /\ hops' <= 2 + sessionFaults'
    <3>1. N + 1 + sessionFaults <= R + sessionFaults' /\ hops + R <= 2 + sessionFaults
      BY <2>4, <2>5, Zenon
    <3>2. hops \in Nat /\ hops' \in Nat /\ sessionFaults \in Nat /\ sessionFaults' \in Nat
      BY <1>1
    <3>3. hops' <= hops + 1
      BY <2>2
    <3> QED  BY <2>3, <3>1, <3>2, <3>3, RoomKept
  <2>6. ~astray' => hops' + Rest(request', cookies') <= 2 + sessionFaults'
    BY <2>5 DEF N
  <2> QED  BY <1>1, <2>5, <2>6 DEF NavigationInv, RoomToSettle
<1> QED  BY <1>1, <1>4, <1>5

\* The user begins a navigation with a page or a form.
LEMMA BeginSettles ==
  ASSUME NavigationInv, NEW r \in WebRequests, Referred(r), Begin(r)
  PROVE  NavigationInv'
PROOF
<1>1. SessionInv /\ sessionFaults \in Nat /\ MaxHops \in Nat
  BY SessionFacts DEF NavigationInv, SessionInv, WebSessionTypeOK
<1>2. /\ request' = r /\ hops' = 0 /\ astray' = FALSE /\ visits' = visits + 1
      /\ UNCHANGED <<cookies, page, accounts, workspaces, memberships, tokens,
                     sessionFaults>>
  BY DEF Begin, serverVars
<1>3. SessionInv'
  <2>0. hops' = 0 /\ astray' = FALSE
    BY <1>2
  <2>1. hops' \in 0 .. MaxHops /\ astray' \in BOOLEAN
    <3>1. 0 \in 0 .. MaxHops
      BY <1>1
    <3> QED  BY <2>0, <3>1
  <2>2. visits' \in Nat
    BY <1>1, <1>2 DEF SessionInv, WebSessionTypeOK
  <2>3. WebSessionTypeOK'
    BY <1>1, <1>2, <2>1, <2>2 DEF SessionInv, WebSessionTypeOK
  <2>4. Referred(request')
    BY <1>2
  <2> QED  BY <1>1, <1>2, <2>3, <2>4 DEF SessionInv, MembersOfRows, Referred
<1>4. Rest(r, cookies) \in 0 .. 2
  BY RestBound
<1> QED  BY <1>1, <1>2, <1>3, <1>4 DEF NavigationInv, RoomToSettle

LEMMA UserSettles == ASSUME NavigationInv, Visit \/ Submit PROVE NavigationInv'
PROOF
<1>0. /\ page.path \in EndPages \cup {NoPage} /\ page.token \in Nat /\ EndPages \subseteq Paths
  BY SessionFacts DEF NavigationInv, SessionInv, WebSessionTypeOK
<1>1. CASE Visit
  <2>1. PICK path \in PublicPages \cup TenantPages \cup {"/select-tenant"},
             referer \in {NoPage, page.path}, u \in People, t \in Workspaces :
          Begin([method |-> "GET", path |-> path, htmx |-> FALSE, token |-> 0,
                 referer |-> referer, user |-> u, tenant |-> t])
    BY <1>1 DEF Visit
  <2> DEFINE r == [method |-> "GET", path |-> path, htmx |-> FALSE, token |-> 0,
                   referer |-> referer, user |-> u, tenant |-> t]
  <2>2. /\ path \in Paths /\ path \notin {"/create-tenant", "/logout"}
        /\ referer \in EndPages \cup {NoPage}
    BY <1>0 DEF Paths, PublicPages, TenantPages
  <2>3. r \in WebRequests /\ Referred(r)
    BY <1>0, <2>2 DEF WebRequests, Referred
  <2> QED  BY <2>1, <2>3, BeginSettles
<1>2. CASE Submit
  <2>1. PICK u \in People, t \in Workspaces, htmx \in BOOLEAN, path \in FormsOf(page.path) :
          Begin([method |-> "POST", path |-> path, htmx |-> htmx, token |-> page.token,
                 referer |-> page.path, user |-> u, tenant |-> t])
    BY <1>2 DEF Submit
  <2> DEFINE r == [method |-> "POST", path |-> path, htmx |-> htmx, token |-> page.token,
                   referer |-> page.path, user |-> u, tenant |-> t]
  <2>2. /\ path \in Paths /\ page.path # NoPage
    BY <1>0, <2>1, SessionFacts DEF FormsOf, Paths, PublicPages, TenantPages
  <2>3. r \in WebRequests /\ Referred(r)
    BY <1>0, <2>1, <2>2 DEF WebRequests, Referred
  <2> QED  BY <2>1, <2>3, BeginSettles
<1> QED  BY <1>1, <1>2

\* A cookie that is gone costs at most one redirect, and is a fault.
LEMMA ExpirySettles == ASSUME NavigationInv, CookieExpires PROVE NavigationInv'
PROOF
<1>0. /\ SessionInv /\ sessionFaults \in Nat /\ hops \in Nat /\ cookies \in Cookies
  BY SessionFacts DEF NavigationInv, SessionInv, WebSessionTypeOK
<1>1. ASSUME NEW c \in Cookies, cookies' = c, sessionFaults' \in Nat,
             UNCHANGED <<page, request, serverVars, tokens, hops, astray, visits>>
      PROVE  SessionInv'
  BY <1>0, <1>1 DEF SessionInv, WebSessionTypeOK, MembersOfRows, serverVars
<1>2. ASSUME NEW c \in Cookies, Forget(c),
             SignedInBy(c) => SignedInBy(cookies),
             ~SignedInBy(c) \/ c.tenant # cookies.tenant \/ Identity(c) = Identity(cookies)
      PROVE  NavigationInv'
  <2>1. SessionInv'
    BY <1>0, <1>1, <1>2 DEF Forget
  <2>2. ASSUME request # NoPage
        PROVE  /\ Rest(request, cookies) \in 0 .. 2 /\ Rest(request, c) \in 0 .. 2
               /\ Rest(request, c) <= Rest(request, cookies) + 1
    <3>1. Rest(request, cookies) \in 0 .. 2 /\ Rest(request, c) \in 0 .. 2
      BY <1>0, <2>2, RequestFacts, RestBound
    <3>2. CASE request.method = "POST"
      BY <3>1, <3>2, RestOfForm
    <3>3. CASE request.method = "GET"
      <4>1. request.path \in Paths
        BY <1>0, <2>2, RequestFacts
      <4> QED  BY <3>1, <3>3, <4>1, RestOfPage DEF Paths
    <3> QED  BY <1>0, <2>2, <3>1, <3>2, <3>3, RequestFacts
  <2>3. /\ cookies' = c /\ sessionFaults' = sessionFaults + 1
        /\ request' = request /\ hops' = hops /\ astray' = astray
    BY <1>2 DEF Forget
  <2> QED  BY <1>0, <2>1, <2>2, <2>3 DEF NavigationInv, RoomToSettle
<1>3. /\ [cookies EXCEPT !.valid = FALSE] \in Cookies
      /\ [cookies EXCEPT !.jwt = Nobody, !.valid = FALSE] \in Cookies
      /\ [cookies EXCEPT !.tenant = NoWorkspace] \in Cookies
      /\ [cookies EXCEPT !.csrf = 0] \in Cookies
  BY <1>0 DEF Cookies
<1>4. CASE \/ Forget([cookies EXCEPT !.valid = FALSE])
           \/ Forget([cookies EXCEPT !.jwt = Nobody, !.valid = FALSE])
  BY <1>0, <1>2, <1>3, <1>4 DEF SignedInBy, Cookies
<1>5. CASE Forget([cookies EXCEPT !.csrf = 0])
  BY <1>0, <1>2, <1>3, <1>5 DEF SignedInBy, Cookies, Identity
<1>6. CASE Forget([cookies EXCEPT !.tenant = NoWorkspace])
  <2>1. CASE cookies.tenant = NoWorkspace
    BY <1>0, <1>2, <1>3, <1>6, <2>1 DEF SignedInBy, Cookies, Identity
  <2>2. CASE cookies.tenant # NoWorkspace
    BY <1>0, <1>2, <1>3, <1>6, <2>2 DEF SignedInBy, Cookies
  <2> QED  BY <2>1, <2>2
<1>7. CASE /\ cookies' = [cookies EXCEPT !.flash = FALSE]
           /\ UNCHANGED <<page, request, serverVars, tokens, hops, astray, visits,
                          sessionFaults>>
  <2>1. cookies' \in Cookies /\ Identity(cookies') = Identity(cookies)
    BY <1>0, <1>7, FlashTyped
  <2>2. SessionInv'
    BY <1>0, <1>1, <1>7, <2>1
  <2>3. Rest(request, cookies') = Rest(request, cookies)
    BY <2>1, RestOfIdentity
  <2> QED  BY <1>7, <2>2, <2>3 DEF NavigationInv, RoomToSettle
<1> QED  BY <1>4, <1>5, <1>6, <1>7 DEF CookieExpires

LEMMA NavigationInvariant == WebSessionSpec => []NavigationInv
PROOF
<1>1. WebSessionInit => NavigationInv
  <2> SUFFICES ASSUME WebSessionInit PROVE NavigationInv
    OBVIOUS
  <2>1. cookies \in Cookies
    BY DEF WebSessionInit, Cookies
  <2>2. page \in [path : Paths \cup {NoPage}, token : Nat] /\ page.path = NoPage
    BY DEF WebSessionInit
  <2>3. hops \in 0 .. MaxHops
    BY SessionFacts DEF WebSessionInit
  <2>4. WebSessionTypeOK
    BY <2>1, <2>2, <2>3 DEF WebSessionInit, WebSessionTypeOK
  <2>5. SessionInv
    BY <2>2, <2>4 DEF WebSessionInit, SessionInv, MembersOfRows
  <2>6. RoomToSettle
    BY DEF WebSessionInit, RoomToSettle
  <2> QED  BY <2>5, <2>6 DEF NavigationInv
<1>2. NavigationInv /\ [WebSessionNext]_webSessionVars => NavigationInv'
  <2> SUFFICES ASSUME NavigationInv, [WebSessionNext]_webSessionVars PROVE NavigationInv'
    OBVIOUS
  <2>1. CASE UNCHANGED webSessionVars
    BY <2>1 DEF webSessionVars, serverVars, NavigationInv, SessionInv, WebSessionTypeOK,
                MembersOfRows, RoomToSettle
  <2> QED  BY <2>1, UserSettles, ServeSettles, ExpirySettles DEF WebSessionNext
<1> QED  BY <1>1, <1>2, PTL DEF WebSessionSpec

\* Cookies, requests and pages keep their types, whatever the server answers.
THEOREM SessionTyped == WebSessionSpec => []WebSessionTypeOK
PROOF
<1>1. NavigationInv => WebSessionTypeOK
  BY DEF NavigationInv, SessionInv
<1> QED  BY <1>1, NavigationInvariant, PTL

\* However forms, expired cookies and refused requests interleave, the redirects
\* of the middleware and of webErrorHandler end in a page after two hops and one
\* for each fault, unless the workspace cookie is another user's.
THEOREM NavigationsEnd == WebSessionSpec => []NavigationSettles
PROOF
<1>1. NavigationInv => NavigationSettles
  BY DEF NavigationInv, RoomToSettle, NavigationSettles
<1> QED  BY <1>1, NavigationInvariant, PTL

(***************************************************************************)
(* Lists.                                                                  *)
(***************************************************************************)

\* A request fits the page it is made for.
Matching ==
  /\ fetch # NoFetch =>
       /\ fetch.for = "open" <=> view = NoView
       /\ fetch.page # 0 /\ (~ListOf(fetch.kind).paged => fetch.page = 1)
       /\ fetch.step = "count" => OffsetOf(fetch.kind, fetch.page) >= 0
       /\ fetch.for = "reveal" =>
            /\ fetch.page = view.page + 1 /\ fetch.kind = view.kind
            /\ ~view.sentinel /\ ~view.polls /\ view.more = {}
            /\ view.page * SizeOf(view.kind) < OffsetRange
       /\ fetch.for = "poll" => fetch.page = 1 /\ fetch.kind = view.kind /\ view.polls
  /\ view # NoView =>
       /\ view.page # 0 /\ (~ListOf(view.kind).paged => view.page = 1)
       /\ view.sentinel =>
            /\ ~view.polls /\ view.more = {} /\ ListOf(view.kind).paged
            /\ view.page * SizeOf(view.kind) < OffsetRange
       /\ view.polls => view.kind = "reports" /\ view.page = 1 /\ view.more = {}

\* The page has been read, or its rows have.
Opened == view # NoView \/ (fetch # NoFetch /\ fetch.for = "open" /\ fetch.step = "count")

\* Since then rows came and went.
History ==
  /\ listed \cup added \subseteq table \cup removed
  /\ table \subseteq listed \cup added

RowPlace(kind, r) == PlaceIn(kind, tieOrder, listed, r)

\* A row is before the page of this number, or after it.
Before(kind, nth, r) ==
  \/ RowPlace(kind, r) <= (nth - 1) * SizeOf(kind)
  \/ OffsetRange <= (nth - 1) * SizeOf(kind)

After(kind, nth, r) == RowPlace(kind, r) > nth * SizeOf(kind)

\* What was read of the page when it was opened: the rows of its place.
FirstRead(kind, nth, rows) ==
  /\ \A r \in listed \ (removed \cup rows) :
       kind = "events" \/ Before(kind, nth, r) \/ After(kind, nth, r)
  /\ \A r \in rows \ added :
       /\ \/ RowPlace(kind, r) > (nth - 1) * SizeOf(kind)
          \/ OffsetRange <= (nth - 1) * SizeOf(kind)
       /\ ~After(kind, nth, r)

\* What a poll read: the first page as it is now.
Polled(rows) ==
  \A r \in listed \ (removed \cup rows) :
    RowPlace("reports", r) + Cardinality(added) > SizeOf("reports")

FetchRead ==
  fetch # NoFetch /\ fetch.step = "count" =>
    /\ fetch.rows \subseteq listed \cup added
    /\ fetch.for = "open" =>
         /\ FirstRead(fetch.kind, fetch.page, fetch.rows)
         /\ fetch.rows = {} /\ fetch.page = 1 => listed = {} \/ fetch.kind = "events"
    /\ fetch.for = "poll" => Polled(fetch.rows)

ViewRead ==
  view # NoView =>
    /\ Shown \subseteq listed \cup added
    /\ ~view.polls => FirstRead(view.kind, view.page, view.first)
    /\ view.polls => Polled(view.first)

Revealing == fetch # NoFetch /\ fetch.for = "reveal"

\* These rows are all the page will show.
Settled(rows) ==
  \A r \in listed \ (removed \cup rows) : Passed(r) \/ Tied(r) \/ view.kind = "events"

Loaded ==
  view # NoView /\ ~view.sentinel /\ ~view.failed =>
    /\ ~Revealing => Settled(Shown)
    /\ Revealing /\ fetch.step = "count" => Settled(view.first \cup fetch.rows)

\* Only rows inserted since, or tied, are read twice.
Twice ==
  view # NoView =>
    /\ \A r \in view.first \cap view.more : added # {} \/ Tied(r)
    /\ Revealing /\ fetch.step = "count" =>
         \A r \in view.first \cap fetch.rows : added # {} \/ Tied(r)

\* What was read and is gone.
Vanished ==
  /\ \A r \in Shown \ table : r \in elsewhere \/ added # {}
  /\ fetch # NoFetch /\ fetch.step = "count" =>
       \A r \in fetch.rows \ table : r \in elsewhere \/ added # {}

ListInv ==
  /\ ListTypeOK /\ Matching /\ (Opened => History)
  /\ FetchRead /\ ViewRead /\ Loaded /\ Twice /\ Vanished

(***************************************************************************)
(* Places.                                                                 *)
(***************************************************************************)

\* The arithmetic of offsets and of the keys invoices are ordered by.
LEMMA WrapBelow ==
  ASSUME NEW n \in Nat, NEW m \in Nat \ {0}, n < m
  PROVE  (n + m) % (2 * m) = n + m
PROOF
<1> DEFINE x == n + m
           k == 2 * m
<1>1. x \in Nat /\ k \in Nat /\ k > 0 /\ x < k
  OBVIOUS
<1> HIDE DEF x, k
<1>2. x % k = x
  BY <1>1
<1> QED  BY <1>2 DEF x, k

LEMMA WrapAbove ==
  ASSUME NEW n \in Nat, NEW m \in Nat \ {0}, m <= n, n < 2 * m
  PROVE  (n + m) % (2 * m) = n - m
PROOF
<1> DEFINE y == n - m
           k == 2 * m
<1>1. y \in Nat /\ k \in Nat /\ k > 0 /\ y < k /\ n + m = y + k
  OBVIOUS
<1> HIDE DEF y, k
<1>2. (y + k) % k = y
  BY <1>1
<1> QED  BY <1>1, <1>2 DEF y, k

LEMMA WrapTyped ==
  ASSUME NEW n \in Nat, NEW m \in Nat \ {0}
  PROVE  (n + m) % (2 * m) \in Int
OBVIOUS

LEMMA KeyGap ==
  ASSUME NEW a \in Nat, NEW b \in Nat, NEW c \in Nat, a < b
  PROVE  a * 2 * c + 2 * c <= b * 2 * c
PROOF
<1>1. PICK d \in Nat : b = a + 1 + d
  <2>1. b - a - 1 \in Nat /\ b = a + 1 + (b - a - 1)
    OBVIOUS
  <2> QED  BY <2>1
<1>2. d * c \in Nat /\ a * c \in Nat
  OBVIOUS
<1>3. b * 2 * c = a * 2 * c + 2 * c + 2 * (d * c)
  BY <1>1
<1> QED  BY <1>2, <1>3

LEMMA RowsCounted ==
  /\ Cardinality(Rows) \in Nat /\ Rows \subseteq Nat
  /\ \A r \in Rows : 1 <= r /\ r <= Cardinality(Rows)
  /\ \A S \in SUBSET Rows : /\ IsFiniteSet(S) /\ Cardinality(S) \in Nat
                            /\ Cardinality(S) <= Cardinality(Rows)
PROOF
<1>1. Cardinality(Rows) \in Nat
  BY RowsAssumption, FS_CardinalityType
<1>2. \A S \in SUBSET Rows : /\ IsFiniteSet(S) /\ Cardinality(S) \in Nat
                             /\ Cardinality(S) <= Cardinality(Rows)
  BY RowsAssumption, FS_Subset, FS_CardinalityType
<1> QED  BY <1>1, <1>2, RowsAssumption

LEMMA CountGrows ==
  ASSUME NEW S \in SUBSET Rows, NEW T \in SUBSET S
  PROVE  /\ Cardinality(T) <= Cardinality(S)
         /\ T # S => Cardinality(T) < Cardinality(S)
PROOF
<1>1. IsFiniteSet(S) /\ T \in SUBSET Rows
  BY RowsCounted
<1>2. Cardinality(T) \in Nat /\ Cardinality(S) \in Nat
  BY <1>1, RowsCounted
<1>3. Cardinality(T) <= Cardinality(S) /\ (Cardinality(S) = Cardinality(T) => S = T)
  BY <1>1, FS_Subset
<1> QED  BY <1>2, <1>3

\* Rows are ordered, and only those of one period depend on how ties fall.
LEMMA NewestOrders ==
  ASSUME NEW kind, NEW tie \in BOOLEAN, NEW r \in Rows, NEW s \in Rows
  PROVE  /\ Newest(kind, tie, r) \in Int
         /\ Newest(kind, tie, r) = Newest(kind, tie, s) => r = s
         /\ kind # "invoices" => Newest(kind, tie, r) = r
         /\ kind = "invoices" /\ PeriodStart[r] < PeriodStart[s] =>
              Newest(kind, tie, r) < Newest(kind, tie, s)
PROOF
<1> DEFINE C == Cardinality(Rows)
<1>1. C \in Nat /\ r \in Nat /\ s \in Nat /\ 1 <= r /\ 1 <= s /\ r <= C /\ s <= C
  BY RowsCounted
<1>2. PeriodStart[r] \in Nat /\ PeriodStart[s] \in Nat
  BY PageRowsAssumption
<1>3. CASE kind # "invoices"
  BY <1>1, <1>3 DEF Newest
<1>4. CASE kind = "invoices"
  <2> DEFINE p == PeriodStart[r] * 2 * C
             q == PeriodStart[s] * 2 * C
             a == IF tie THEN r ELSE C - r
             b == IF tie THEN s ELSE C - s
  <2>1. p \in Nat /\ q \in Nat
    BY <1>1, <1>2
  <2>2. /\ a \in Nat /\ b \in Nat /\ a <= C /\ b <= C
        /\ a = b => r = s
    BY <1>1
  <2>3. Newest(kind, tie, r) = p + a /\ Newest(kind, tie, s) = q + b
    BY <1>4 DEF Newest
  <2>4. /\ PeriodStart[r] < PeriodStart[s] => p + 2 * C <= q
        /\ PeriodStart[s] < PeriodStart[r] => q + 2 * C <= p
        /\ PeriodStart[r] = PeriodStart[s] => p = q
    BY <1>1, <1>2, KeyGap
  <2>5. C \in Nat /\ 0 < C
    BY <1>1
  <2> HIDE DEF p, q, a, b, C
  <2>6. PeriodStart[r] < PeriodStart[s] => p + a < q + b
    BY <2>1, <2>2, <2>4, <2>5
  <2>7. PeriodStart[s] < PeriodStart[r] => q + b < p + a
    BY <2>1, <2>2, <2>4, <2>5
  <2>8. p + a = q + b => r = s
    BY <1>2, <2>1, <2>2, <2>4, <2>6, <2>7
  <2> QED  BY <1>4, <2>1, <2>2, <2>3, <2>6, <2>8
<1> QED  BY <1>3, <1>4

NotBelow(kind, tie, S, r) == {s \in S : Newest(kind, tie, s) >= Newest(kind, tie, r)}

LEMMA PlaceTyped ==
  ASSUME NEW kind, NEW tie \in BOOLEAN, NEW S \in SUBSET Rows, NEW r \in Rows
  PROVE  /\ PlaceIn(kind, tie, S, r) \in Nat
         /\ PlaceIn(kind, tie, S, r) <= Cardinality(S)
         /\ PlaceIn(kind, tie, S, r) <= Cardinality(Rows)
         /\ r \in S => 1 <= PlaceIn(kind, tie, S, r)
PROOF
<1> DEFINE N == NotBelow(kind, tie, S, r)
<1>1. N \in SUBSET S /\ N \in SUBSET Rows /\ PlaceIn(kind, tie, S, r) = Cardinality(N)
  BY DEF NotBelow, PlaceIn
<1>2. /\ Cardinality(N) \in Nat /\ Cardinality(N) <= Cardinality(Rows)
      /\ Cardinality(N) <= Cardinality(S) /\ IsFiniteSet(N)
  BY <1>1, RowsCounted, CountGrows
<1>3. r \in S => Cardinality(N) # 0
  <2>1. r \in S => r \in N
    BY NewestOrders DEF NotBelow
  <2> QED  BY <1>2, <2>1, FS_EmptySet
<1> QED  BY <1>1, <1>2, <1>3

\* Rows that go, and rows that come, move a place by at most as many.
LEMMA PlaceMoves ==
  ASSUME NEW kind, NEW tie \in BOOLEAN, NEW r \in Rows, NEW S \in SUBSET Rows,
         NEW T \in SUBSET Rows, NEW D \in SUBSET Rows, S \subseteq T \cup D
  PROVE  PlaceIn(kind, tie, S, r) <= PlaceIn(kind, tie, T, r) + Cardinality(D)
PROOF
<1> DEFINE N == NotBelow(kind, tie, S, r)
           M == NotBelow(kind, tie, T, r)
<1>1. /\ PlaceIn(kind, tie, S, r) = Cardinality(N)
      /\ PlaceIn(kind, tie, T, r) = Cardinality(M)
  BY DEF NotBelow, PlaceIn
<1>2. /\ N \in SUBSET (M \cup D) /\ M \in SUBSET Rows /\ M \cup D \in SUBSET Rows
      /\ M \cap D \in SUBSET Rows /\ N \in SUBSET Rows
  BY DEF NotBelow
<1> HIDE DEF N, M
<1>3. /\ IsFiniteSet(M) /\ IsFiniteSet(D) /\ Cardinality(M) \in Nat /\ Cardinality(D) \in Nat
      /\ Cardinality(N) \in Nat /\ Cardinality(M \cup D) \in Nat
      /\ Cardinality(M \cap D) \in Nat
  BY <1>2, RowsCounted
<1>4. Cardinality(M \cup D) = Cardinality(M) + Cardinality(D) - Cardinality(M \cap D)
  BY <1>3, FS_Union
<1>5. Cardinality(N) <= Cardinality(M \cup D)
  BY <1>2, CountGrows
<1> QED  BY <1>1, <1>3, <1>4, <1>5

\* The place of a row that shares its period with none is the same however ties
\* fall.
LEMMA PlaceUntied ==
  ASSUME NEW kind, NEW tie \in BOOLEAN, NEW other \in BOOLEAN, NEW S \in SUBSET Rows,
         NEW r \in Rows,
         kind = "invoices" => \A s \in S : s # r => PeriodStart[s] # PeriodStart[r]
  PROVE  PlaceIn(kind, tie, S, r) = PlaceIn(kind, other, S, r)
PROOF
<1>1. ASSUME NEW s \in S, NEW t \in BOOLEAN, NEW u \in BOOLEAN,
             Newest(kind, t, s) >= Newest(kind, t, r)
      PROVE  Newest(kind, u, s) >= Newest(kind, u, r)
  <2>1. /\ Newest(kind, t, s) \in Int /\ Newest(kind, t, r) \in Int
        /\ Newest(kind, u, s) \in Int /\ Newest(kind, u, r) \in Int
        /\ PeriodStart[s] \in Nat /\ PeriodStart[r] \in Nat
    BY NewestOrders, PageRowsAssumption
  <2>2. CASE kind # "invoices"
    BY <1>1, <2>2, NewestOrders
  <2>3. CASE s = r
    BY <2>1, <2>3
  <2>4. CASE kind = "invoices" /\ s # r
    <3>1. PeriodStart[s] # PeriodStart[r]
      BY <2>4
    <3>2. ~ (PeriodStart[s] < PeriodStart[r])
      BY <1>1, <2>1, <2>4, NewestOrders
    <3>3. PeriodStart[r] < PeriodStart[s]
      BY <2>1, <3>1, <3>2
    <3>4. Newest(kind, u, r) < Newest(kind, u, s)
      BY <2>4, <3>3, NewestOrders
    <3> QED  BY <2>1, <3>4
  <2> QED  BY <2>2, <2>3, <2>4
<1>2. NotBelow(kind, tie, S, r) = NotBelow(kind, other, S, r)
  BY <1>1 DEF NotBelow
<1> QED  BY <1>2 DEF NotBelow, PlaceIn

\* Some row is first.
LEMMA FirstPlace ==
  ASSUME NEW kind, NEW tie \in BOOLEAN, NEW S \in SUBSET Rows, S # {}
  PROVE  \E r \in S : PlaceIn(kind, tie, S, r) = 1
PROOF
<1> DEFINE n == Cardinality(S)
           place == [r \in S |-> PlaceIn(kind, tie, S, r)]
<1>1. SUFFICES ASSUME \A r \in S : PlaceIn(kind, tie, S, r) # 1 PROVE FALSE
  OBVIOUS
<1>2. IsFiniteSet(S) /\ n \in Nat /\ n # 0
  BY RowsCounted, FS_EmptySet
<1>3. place \in [S -> 2 .. n]
  <2>1. \A r \in S : PlaceIn(kind, tie, S, r) \in 2 .. n
    <3> SUFFICES ASSUME NEW r \in S PROVE PlaceIn(kind, tie, S, r) \in 2 .. n
      OBVIOUS
    <3>1. /\ PlaceIn(kind, tie, S, r) \in Nat /\ PlaceIn(kind, tie, S, r) <= n
          /\ 1 <= PlaceIn(kind, tie, S, r) /\ PlaceIn(kind, tie, S, r) # 1
      BY <1>1, PlaceTyped
    <3> QED  BY <1>2, <3>1
  <2> QED  BY <2>1
<1>4. IsFiniteSet(2 .. n) /\ Cardinality(2 .. n) < n
  <2> HIDE DEF n
  <2>1. /\ IsFiniteSet(2 .. n)
        /\ Cardinality(2 .. n) = IF 2 > n THEN 0 ELSE n - 2 + 1
    BY <1>2, FS_Interval
  <2> QED  BY <1>2, <2>1
<1>5. PICK x \in S, y \in S : x # y /\ place[x] = place[y]
  <2> HIDE DEF place
  <2> QED  BY <1>2, <1>3, <1>4, FS_PigeonHole
<1>6. ASSUME NEW a \in S, NEW b \in S, Newest(kind, tie, a) < Newest(kind, tie, b)
      PROVE  place[a] # place[b]
  <2> DEFINE A == NotBelow(kind, tie, S, a)
             B == NotBelow(kind, tie, S, b)
  <2>1. /\ B \in SUBSET A /\ a \in A /\ a \notin B /\ A \in SUBSET Rows
    <3>1. \A s \in S : Newest(kind, tie, s) \in Int
      BY NewestOrders
    <3> QED  BY <1>6, <3>1 DEF NotBelow
  <2>2. place[a] = Cardinality(A) /\ place[b] = Cardinality(B)
    BY DEF NotBelow, PlaceIn
  <2> HIDE DEF A, B, place
  <2>3. Cardinality(B) < Cardinality(A)
    BY <2>1, CountGrows
  <2>4. Cardinality(A) \in Nat /\ Cardinality(B) \in Nat
    BY <2>1, RowsCounted
  <2> QED  BY <2>2, <2>3, <2>4
<1>7. Newest(kind, tie, x) # Newest(kind, tie, y)
  BY <1>5, NewestOrders
<1>8. Newest(kind, tie, x) \in Int /\ Newest(kind, tie, y) \in Int
  BY NewestOrders
<1> QED  BY <1>5, <1>6, <1>7, <1>8

(***************************************************************************)
(* Lists and their statements.                                             *)
(***************************************************************************)

LEMMA Kinds ==
  ASSUME NEW kind \in ListKinds
  PROVE  /\ ListOf(kind).paged \in BOOLEAN /\ ListOf(kind).polls \in BOOLEAN
         /\ ListOf(kind).deletes \in BOOLEAN
         /\ ListOf(kind).paged <=> kind # "schedules"
         /\ ListOf(kind).polls <=> kind = "reports"
         /\ ListOf(kind).deletes => kind \in {"sources", "schedules"}
         /\ SizeOf(kind) \in Nat
         /\ ListOf(kind).paged => 1 <= SizeOf(kind)
         /\ ~ListOf(kind).paged => SizeOf(kind) = Cardinality(Rows)
PROOF
<1> USE DEF ListOf, PagedList, ReportsPaging, SourcesPaging, InvoicesPaging, EventsPaging,
            SchedulesPaging
<1>1. kind \in {"sources", "reports", "invoices", "events", "schedules"}
  BY DEF ListKinds
<1>2. Cardinality(Rows) \in Nat /\ PageRows \in Nat /\ 1 <= PageRows
  BY RowsCounted, PageRowsAssumption
<1>3. CASE kind = "reports"
  BY <1>2, <1>3 DEF SizeOf
<1>4. CASE kind = "sources"
  BY <1>2, <1>4 DEF SizeOf
<1>5. CASE kind = "invoices"
  BY <1>2, <1>5 DEF SizeOf
<1>6. CASE kind = "events"
  BY <1>2, <1>6 DEF SizeOf
<1>7. CASE kind = "schedules"
  BY <1>2, <1>7 DEF SizeOf
<1> QED  BY <1>1, <1>3, <1>4, <1>5, <1>6, <1>7

\* The offset of a page is where it begins, unless that wraps.
LEMMA Offsets ==
  ASSUME NEW kind \in ListKinds, NEW nth \in Nat \ {0}
  PROVE  /\ (nth - 1) * SizeOf(kind) \in Nat
         /\ nth * SizeOf(kind) = (nth - 1) * SizeOf(kind) + SizeOf(kind)
         /\ OffsetRange \in Nat
         /\ (nth - 1) * SizeOf(kind) < OffsetRange =>
              OffsetOf(kind, nth) = (nth - 1) * SizeOf(kind)
PROOF
<1> DEFINE size == SizeOf(kind)
           base == (nth - 1) * size
<1>1. size \in Nat
  BY Kinds
<1>2. nth - 1 \in Nat /\ nth = (nth - 1) + 1
  OBVIOUS
<1>3. base \in Nat /\ nth * size = base + size
  BY <1>1, <1>2
<1>4. OffsetRange \in Nat \ {0}
  BY PageRowsAssumption
<1>5. OffsetOf(kind, nth) = ((base + OffsetRange) % (2 * OffsetRange)) - OffsetRange
  BY DEF OffsetOf
<1> HIDE DEF base
<1>6. base < OffsetRange => (base + OffsetRange) % (2 * OffsetRange) = base + OffsetRange
  BY <1>3, <1>4, WrapBelow
<1>7. base < OffsetRange => OffsetOf(kind, nth) = base
  BY <1>3, <1>4, <1>5, <1>6
<1> QED  BY <1>3, <1>4, <1>7 DEF base

\* What a list statement answers.
LEMMA QueryReads ==
  ASSUME table \in SUBSET Rows, NEW kind \in ListKinds, NEW tie \in BOOLEAN,
         NEW nth \in Nat \ {0}, ~ListOf(kind).paged => nth = 1
  PROVE  /\ QueryOf(kind, tie, nth) \in SUBSET table
         /\ (nth - 1) * SizeOf(kind) < OffsetRange =>
              \A r \in Rows :
                r \in QueryOf(kind, tie, nth) <=>
                  /\ r \in table /\ kind # "events"
                  /\ PlaceIn(kind, tie, table, r) > (nth - 1) * SizeOf(kind)
                  /\ PlaceIn(kind, tie, table, r) <= nth * SizeOf(kind)
PROOF
<1>1. kind \in {"sources", "reports", "invoices", "events", "schedules"}
  BY DEF ListKinds
<1>2. CASE kind = "schedules"
  <2>1. QueryOf(kind, tie, nth) = table
    BY <1>2 DEF QueryOf, ListSchedulesByTenant
  <2>2. nth = 1 /\ SizeOf(kind) = Cardinality(Rows)
    BY <1>2, Kinds
  <2>3. (nth - 1) * SizeOf(kind) = 0 /\ nth * SizeOf(kind) = Cardinality(Rows)
    BY <2>2, RowsCounted
  <2>4. \A r \in table : /\ PlaceIn(kind, tie, table, r) > 0
                         /\ PlaceIn(kind, tie, table, r) <= Cardinality(Rows)
    <3> SUFFICES ASSUME NEW r \in table
                 PROVE  /\ PlaceIn(kind, tie, table, r) > 0
                        /\ PlaceIn(kind, tie, table, r) <= Cardinality(Rows)
      OBVIOUS
    <3>1. r \in Rows
      OBVIOUS
    <3>2. /\ PlaceIn(kind, tie, table, r) \in Nat /\ 1 <= PlaceIn(kind, tie, table, r)
          /\ PlaceIn(kind, tie, table, r) <= Cardinality(Rows)
      BY <3>1, PlaceTyped
    <3> QED  BY <3>2
  <2> QED  BY <1>2, <2>1, <2>3, <2>4
<1>3. CASE kind # "schedules"
  <2>1. QueryOf(kind, tie, nth) = Slice(kind, tie, nth)
    BY <1>1, <1>3 DEF QueryOf, ListReportsByTenant, ListDataSourcesByTenant,
                      ListInvoicesByTenant, ListUsageEvents
  <2>2. CASE kind = "events"
    <3>1. Slice(kind, tie, nth) = {}
      BY <2>2 DEF Slice, Visible, EventsInRange
    <3> QED  BY <2>1, <2>2, <3>1
  <2>3. CASE kind # "events"
    <3>1. Visible(kind) = table
      BY <2>3 DEF Visible
    <3>2. Slice(kind, tie, nth) =
            {r \in table :
               /\ PlaceIn(kind, tie, table, r) > OffsetOf(kind, nth)
               /\ PlaceIn(kind, tie, table, r) <= OffsetOf(kind, nth) + SizeOf(kind)}
      BY <3>1 DEF Slice
    <3>3. (nth - 1) * SizeOf(kind) < OffsetRange =>
            /\ OffsetOf(kind, nth) = (nth - 1) * SizeOf(kind)
            /\ OffsetOf(kind, nth) + SizeOf(kind) = nth * SizeOf(kind)
      BY Offsets
    <3> QED  BY <2>1, <2>3, <3>2, <3>3
  <2> QED  BY <2>2, <2>3
<1> QED  BY <1>2, <1>3

\* The parts of the page and of the request.
LEMMA ListFields ==
  ASSUME ListTypeOK
  PROVE  /\ view # NoView =>
              /\ view \in Views /\ view.kind \in ListKinds /\ view.page \in Nat
              /\ view.first \in SUBSET Rows /\ view.more \in SUBSET Rows
              /\ view.sentinel \in BOOLEAN /\ view.polls \in BOOLEAN
              /\ view.failed \in BOOLEAN /\ view.strayed \in BOOLEAN
         /\ fetch # NoFetch =>
              /\ fetch \in Fetches /\ fetch.kind \in ListKinds /\ fetch.page \in Nat
              /\ fetch.rows \in SUBSET Rows /\ fetch.step \in {"rows", "count"}
              /\ fetch.for \in {"open", "reveal", "poll"}
         /\ table \in SUBSET Rows /\ listed \in SUBSET Rows /\ added \in SUBSET Rows
         /\ removed \in SUBSET Rows /\ elsewhere \in SUBSET Rows
         /\ tieOrder \in BOOLEAN /\ created \in Nat /\ listFaults \in Nat
PROOF
<1>1. view # NoView => view \in Views
  BY DEF ListTypeOK
<1>2. fetch # NoFetch => fetch \in Fetches
  BY DEF ListTypeOK
<1>3. view # NoView =>
              /\ view \in Views /\ view.kind \in ListKinds /\ view.page \in Nat
              /\ view.first \in SUBSET Rows /\ view.more \in SUBSET Rows
              /\ view.sentinel \in BOOLEAN /\ view.polls \in BOOLEAN
              /\ view.failed \in BOOLEAN /\ view.strayed \in BOOLEAN
  BY <1>1 DEF Views
<1>4. fetch # NoFetch =>
              /\ fetch \in Fetches /\ fetch.kind \in ListKinds /\ fetch.page \in Nat
              /\ fetch.rows \in SUBSET Rows /\ fetch.step \in {"rows", "count"}
              /\ fetch.for \in {"open", "reveal", "poll"}
  BY <1>2 DEF Fetches
<1>5. /\ table \in SUBSET Rows /\ listed \in SUBSET Rows /\ added \in SUBSET Rows
      /\ removed \in SUBSET Rows /\ elsewhere \in SUBSET Rows
      /\ tieOrder \in BOOLEAN /\ created \in Nat /\ listFaults \in Nat
  BY DEF ListTypeOK
<1> QED  BY <1>3, <1>4, <1>5

\* Where a row was when the page was opened is where it is now, but for the rows
\* that came and went.
LEMMA PlaceThen ==
  ASSUME ListTypeOK, History, NEW kind \in ListKinds, NEW tie \in BOOLEAN, NEW r \in Rows,
         kind = "invoices" =>
           \A s \in listed \cup added : s # r => PeriodStart[s] # PeriodStart[r]
  PROVE  /\ RowPlace(kind, r) \in Nat /\ PlaceIn(kind, tie, table, r) \in Nat
         /\ Cardinality(added) \in Nat /\ Cardinality(removed) \in Nat
         /\ RowPlace(kind, r) <= PlaceIn(kind, tie, table, r) + Cardinality(removed)
         /\ PlaceIn(kind, tie, table, r) <= RowPlace(kind, r) + Cardinality(added)
PROOF
<1>1. /\ table \in SUBSET Rows /\ listed \in SUBSET Rows /\ added \in SUBSET Rows
      /\ removed \in SUBSET Rows /\ tieOrder \in BOOLEAN
  BY ListFields
<1>2. /\ listed \subseteq table \cup removed /\ table \subseteq listed \cup added
  BY DEF History
<1>3. /\ RowPlace(kind, r) \in Nat /\ PlaceIn(kind, tie, table, r) \in Nat
  BY <1>1, PlaceTyped DEF RowPlace
<1>4. /\ Cardinality(added) \in Nat /\ Cardinality(removed) \in Nat
  BY <1>1, RowsCounted
<1>5. PlaceIn(kind, tie, table, r) = PlaceIn(kind, tieOrder, table, r)
  BY <1>1, <1>2, PlaceUntied
<1>6. RowPlace(kind, r) <= PlaceIn(kind, tieOrder, table, r) + Cardinality(removed)
  BY <1>1, <1>2, PlaceMoves DEF RowPlace
<1>7. PlaceIn(kind, tieOrder, table, r) <= RowPlace(kind, r) + Cardinality(added)
  BY <1>1, <1>2, PlaceMoves DEF RowPlace
<1> QED  BY <1>3, <1>4, <1>5, <1>6, <1>7

(***************************************************************************)
(* What was read stays explained.                                          *)
(***************************************************************************)

\* As rows come and go, what was read of the page stays what it was.
LEMMA ReadStays ==
  ASSUME ListTypeOK, ListTypeOK', listed' = listed, tieOrder' = tieOrder,
         added \subseteq added', removed \subseteq removed',
         NEW kind \in ListKinds, NEW nth \in Nat \ {0}, NEW rows
  PROVE  /\ FirstRead(kind, nth, rows) => FirstRead(kind, nth, rows)'
         /\ Polled(rows) => Polled(rows)'
PROOF
<1>1. /\ added \in SUBSET Rows /\ added' \in SUBSET Rows /\ listed \in SUBSET Rows
      /\ tieOrder \in BOOLEAN
  BY DEF ListTypeOK
<1>2. /\ Cardinality(added) \in Nat /\ Cardinality(added') \in Nat
      /\ Cardinality(added) <= Cardinality(added')
  BY <1>1, RowsCounted, CountGrows
<1>3. FirstRead(kind, nth, rows) => FirstRead(kind, nth, rows)'
  BY DEF FirstRead, Before, After, RowPlace
<1>4. ASSUME Polled(rows) PROVE Polled(rows)'
  <2> SUFFICES ASSUME NEW r \in listed \ (removed' \cup rows)
               PROVE  PlaceIn("reports", tieOrder, listed, r) + Cardinality(added')
                        > SizeOf("reports")
    BY DEF Polled, RowPlace
  <2>1. PlaceIn("reports", tieOrder, listed, r) + Cardinality(added) > SizeOf("reports")
    BY <1>4 DEF Polled, RowPlace
  <2>2. r \in Rows
    BY <1>1
  <2>3. PlaceIn("reports", tieOrder, listed, r) \in Nat
    BY <1>1, <2>2, PlaceTyped
  <2>4. SizeOf("reports") \in Nat
    BY Kinds DEF ListKinds
  <2> QED  BY <1>2, <2>1, <2>3, <2>4
<1> QED  BY <1>3, <1>4

\* And so do the reasons a row is missing for.
LEMMA PassedStays ==
  ASSUME ListTypeOK, ListTypeOK', listed' = listed, tieOrder' = tieOrder,
         added \subseteq added', removed \subseteq removed',
         view # NoView, view.page # 0, view'.kind = view.kind, view'.page = view.page,
         view'.polls = view.polls, NEW r \in Rows
  PROVE  (Passed(r) => Passed(r)') /\ (Tied(r) => Tied(r)')
PROOF
<1> DEFINE place == PlaceIn(view.kind, tieOrder, listed, r)
           size == SizeOf(view.kind)
           last == view.page * size
<1>1. /\ added \in SUBSET Rows /\ added' \in SUBSET Rows /\ listed \in SUBSET Rows
      /\ tieOrder \in BOOLEAN /\ removed \in SUBSET Rows /\ removed' \in SUBSET Rows
  BY DEF ListTypeOK
<1>2. /\ Cardinality(added) \in Nat /\ Cardinality(added') \in Nat
      /\ Cardinality(added) <= Cardinality(added')
      /\ Cardinality(removed) \in Nat /\ Cardinality(removed') \in Nat
      /\ Cardinality(removed) <= Cardinality(removed')
  BY <1>1, RowsCounted, CountGrows
<1>3. /\ view.kind \in ListKinds /\ view.page \in Nat /\ view.polls \in BOOLEAN
  BY ListFields
<1>4. place \in Nat
  BY <1>1, PlaceTyped
<1>5. size \in Nat
  BY <1>3, Kinds
<1>6. last \in Nat
  BY <1>3, <1>5
<1>7. Passed(r) <=> \/ place <= last - size
                    \/ place > last + size - Cardinality(added)
                    \/ last < place /\ place <= last + Cardinality(removed)
                    \/ view.polls /\ place + Cardinality(added) > last
  BY DEF Passed
<1>8. Passed(r)' <=> \/ place <= last - size
                     \/ place > last + size - Cardinality(added')
                     \/ last < place /\ place <= last + Cardinality(removed')
                     \/ view.polls /\ place + Cardinality(added') > last
  BY DEF Passed
<1> HIDE DEF place, last, size
<1>9. /\ place > last + size - Cardinality(added) => place > last + size - Cardinality(added')
      /\ place <= last + Cardinality(removed) => place <= last + Cardinality(removed')
      /\ place + Cardinality(added) > last => place + Cardinality(added') > last
  BY <1>2, <1>4, <1>5, <1>6
<1>10. Passed(r) => Passed(r)'
  BY <1>7, <1>8, <1>9
<1>11. Tied(r) => Tied(r)'
  BY DEF Tied
<1> QED  BY <1>10, <1>11

\* A step that changes neither page nor request, but lets rows come and go.
LEMMA Bystander ==
  ASSUME ListInv, ListTypeOK', UNCHANGED <<view, fetch, listed, tieOrder>>,
         added \subseteq added', removed \subseteq removed'
  PROVE  Matching' /\ FetchRead' /\ ViewRead' /\ Loaded' /\ Twice'
PROOF
<1> USE DEF ListInv
<1>1. Matching'
  BY DEF Matching
<1>2. /\ fetch # NoFetch => fetch.kind \in ListKinds /\ fetch.page \in Nat \ {0}
      /\ view # NoView => view.kind \in ListKinds /\ view.page \in Nat \ {0}
  BY ListFields DEF Matching
<1>3. FetchRead'
  <2> SUFFICES ASSUME fetch # NoFetch, fetch.step = "count"
               PROVE  /\ fetch.rows \subseteq listed \cup added'
                      /\ fetch.for = "open" =>
                           /\ FirstRead(fetch.kind, fetch.page, fetch.rows)'
                           /\ fetch.rows = {} /\ fetch.page = 1 =>
                                listed = {} \/ fetch.kind = "events"
                      /\ fetch.for = "poll" => Polled(fetch.rows)'
    BY DEF FetchRead
  <2>1. /\ FirstRead(fetch.kind, fetch.page, fetch.rows) =>
             FirstRead(fetch.kind, fetch.page, fetch.rows)'
        /\ Polled(fetch.rows) => Polled(fetch.rows)'
    BY <1>2, ReadStays
  <2> QED  BY <2>1 DEF FetchRead
<1>4. ViewRead'
  <2> SUFFICES ASSUME view # NoView
               PROVE  /\ Shown \subseteq listed \cup added'
                      /\ ~view.polls => FirstRead(view.kind, view.page, view.first)'
                      /\ view.polls => Polled(view.first)'
    BY DEF ViewRead, Shown
  <2>1. /\ FirstRead(view.kind, view.page, view.first) =>
             FirstRead(view.kind, view.page, view.first)'
        /\ Polled(view.first) => Polled(view.first)'
    BY <1>2, ReadStays
  <2> QED  BY <2>1 DEF ViewRead
<1>5. ASSUME view # NoView, NEW r \in Rows
      PROVE  (Passed(r) => Passed(r)') /\ (Tied(r) => Tied(r)')
  BY <1>2, <1>5, PassedStays
<1>6. listed \in SUBSET Rows /\ (view # NoView => view.first \in SUBSET Rows)
  BY ListFields
<1>7. ASSUME view # NoView, NEW rows, Settled(rows)
      PROVE  Settled(rows)'
  BY <1>5, <1>6, <1>7 DEF Settled
<1>8. Loaded'
  BY <1>7 DEF Loaded, Revealing, Shown
<1>9. Twice'
  <2>1. added # {} => added' # {}
    OBVIOUS
  <2> QED  BY <1>5, <1>6, <2>1 DEF Twice, Revealing
<1> QED  BY <1>1, <1>3, <1>4, <1>8, <1>9

(***************************************************************************)
(* What other clients do, and requests that begin or fail.                 *)
(***************************************************************************)

LEMMA InsertKeeps ==
  ASSUME ListInv, Insert
  PROVE  ListInv'
PROOF
<1> USE DEF ListInv, Insert
<1>1. ListTypeOK'
  <2>1. created + 1 \in Rows /\ created \in Nat /\ table \in SUBSET Rows /\ added \in SUBSET Rows
    BY ListFields
  <2>2. created' \in Nat /\ table' \in SUBSET Rows /\ added' \in SUBSET Rows
    BY <2>1
  <2> QED  BY <2>2 DEF ListTypeOK
<1>2. Matching' /\ FetchRead' /\ ViewRead' /\ Loaded' /\ Twice'
  BY <1>1, Bystander
<1>3. Opened => History'
  BY DEF History
<1>4. Opened' => Opened
  BY DEF Opened
<1>5. Vanished'
  BY DEF Vanished
<1> QED  BY <1>1, <1>2, <1>3, <1>4, <1>5

LEMMA RemoveElsewhereKeeps ==
  ASSUME ListInv, RemoveElsewhere
  PROVE  ListInv'
PROOF
<1> USE DEF ListInv
<1>1. PICK r \in table :
        /\ table' = table \ {r}
        /\ removed' = removed \cup {r} /\ elsewhere' = elsewhere \cup {r}
        /\ UNCHANGED <<created, view, fetch, listed, tieOrder, added, listFaults>>
  BY DEF RemoveElsewhere
<1>2. ListTypeOK'
  BY <1>1 DEF ListTypeOK
<1>3. Matching' /\ FetchRead' /\ ViewRead' /\ Loaded' /\ Twice'
  BY <1>1, <1>2, Bystander
<1>4. Opened => History'
  BY <1>1 DEF History
<1>5. Opened' => Opened
  BY <1>1 DEF Opened
<1>6. Vanished'
  BY <1>1 DEF Vanished, Shown
<1> QED  BY <1>2, <1>3, <1>4, <1>5, <1>6

LEMMA OpenPageKeeps ==
  ASSUME ListInv, OpenPage
  PROVE  ListInv'
PROOF
<1> USE DEF ListInv
<1>1. PICK kind \in ListKinds, nth \in PagesOpened :
        /\ view = NoView /\ fetch = NoFetch
        /\ ListOf(kind).paged \/ nth = 1
        /\ fetch' = [for |-> "open", kind |-> kind, page |-> nth, step |-> "rows",
                     rows |-> {}]
        /\ UNCHANGED <<table, created, view, listed, tieOrder, added, removed,
                       elsewhere, listFaults>>
  BY DEF OpenPage
<1>2. nth \in Nat \ {0}
  BY PageRowsAssumption
<1>3. fetch' \in Fetches /\ fetch' # NoFetch
  BY <1>1, <1>2, NoneAssumption DEF Fetches
<1>4. ListTypeOK'
  BY <1>1, <1>3 DEF ListTypeOK
<1>5. Matching'
  BY <1>1, <1>2, <1>3 DEF Matching
<1>6. ~Opened'
  BY <1>1 DEF Opened
<1>7. FetchRead' /\ ViewRead' /\ Loaded' /\ Twice' /\ Vanished'
  BY <1>1 DEF FetchRead, ViewRead, Loaded, Twice, Vanished, Shown
<1> QED  BY <1>4, <1>5, <1>6, <1>7

\* A step that changes nothing of the rows, and of the page only what no row is
\* explained by.
LEMMA RowsStay ==
  ASSUME ListInv, ListTypeOK', view # NoView, view' # NoView,
         view'.kind = view.kind, view'.page = view.page, view'.polls = view.polls,
         view'.first = view.first, view'.more = view.more,
         UNCHANGED <<table, listed, tieOrder, added, removed, elsewhere>>
  PROVE  /\ History' /\ ViewRead'
         /\ \A r \in Rows : (Passed(r) => Passed(r)') /\ (Tied(r) => Tied(r)')
         /\ \A rows : Settled(rows) => Settled(rows)'
         /\ \A r \in view.first \cap view.more : added' # {} \/ Tied(r)'
         /\ \A r \in Shown' \ table' : r \in elsewhere' \/ added' # {}
         /\ Shown' = Shown
PROOF
<1> USE DEF ListInv
<1>1. /\ view.kind \in ListKinds /\ view.page \in Nat \ {0}
      /\ view.first \in SUBSET Rows /\ listed \in SUBSET Rows
  BY ListFields DEF Matching
<1>2. Shown' = Shown
  BY DEF Shown
<1>3. History'
  BY DEF Opened, History
<1>4. ViewRead'
  <2> DEFINE k == view.kind
             p == view.page
             f == view.first
  <2>1. /\ ~view.polls => FirstRead(k, p, f)
        /\ view.polls => Polled(f)
        /\ Shown \subseteq listed \cup added
    BY DEF ViewRead
  <2>2. FirstRead(k, p, f) => FirstRead(k, p, f)'
    BY DEF FirstRead, Before, After, RowPlace
  <2>3. Polled(f) => Polled(f)'
    BY DEF Polled, RowPlace
  <2> QED  BY <1>2, <2>1, <2>2, <2>3 DEF ViewRead
<1>5. ASSUME NEW r \in Rows PROVE (Passed(r) => Passed(r)') /\ (Tied(r) => Tied(r)')
  BY <1>1, PassedStays
<1>6. \A rows : Settled(rows) => Settled(rows)'
  BY <1>1, <1>5 DEF Settled
<1>7. \A r \in view.first \cap view.more : added' # {} \/ Tied(r)'
  BY <1>1, <1>5 DEF Twice
<1>8. \A r \in Shown' \ table' : r \in elsewhere' \/ added' # {}
  BY <1>2 DEF Vanished
<1> QED  BY <1>2, <1>3, <1>4, <1>5, <1>6, <1>7, <1>8

LEMMA StrayKeeps ==
  ASSUME ListInv, Stray
  PROVE  ListInv'
PROOF
<1> USE DEF ListInv
<1>1. /\ view # NoView /\ fetch = NoFetch
      /\ view' = [view EXCEPT !.strayed = TRUE] /\ listFaults' = listFaults + 1
      /\ UNCHANGED <<table, created, fetch, listed, tieOrder, added, removed, elsewhere>>
  BY DEF Stray, Idle
<1>2. view \in Views /\ listFaults \in Nat
  BY <1>1, ListFields
<1>3. /\ view' \in Views /\ view' # NoView
      /\ view'.kind = view.kind /\ view'.page = view.page /\ view'.polls = view.polls
      /\ view'.first = view.first /\ view'.more = view.more
      /\ view'.sentinel = view.sentinel /\ view'.failed = view.failed
  BY <1>1, <1>2, NoneAssumption DEF Views
<1>4. ListTypeOK'
  BY <1>1, <1>2, <1>3 DEF ListTypeOK
<1>5. Matching'
  BY <1>1, <1>3 DEF Matching
<1>6. FetchRead'
  BY <1>1 DEF FetchRead
<1>7. /\ History' /\ ViewRead' /\ Shown' = Shown
      /\ \A rows : Settled(rows) => Settled(rows)'
      /\ \A r \in view.first \cap view.more : added' # {} \/ Tied(r)'
      /\ \A r \in Shown' \ table' : r \in elsewhere' \/ added' # {}
  BY <1>1, <1>3, <1>4, RowsStay
<1>8. Loaded'
  <2>1. ~view.sentinel /\ ~view.failed => Settled(Shown)
    BY <1>1 DEF Loaded, Revealing
  <2>2. Settled(Shown) => Settled(Shown)'
    BY <1>7 DEF Settled
  <2> QED  BY <1>1, <1>3, <2>1, <2>2 DEF Loaded, Revealing
<1>9. Twice'
  BY <1>1, <1>3, <1>7 DEF Twice, Revealing
<1>10. Vanished'
  BY <1>1, <1>7 DEF Vanished
<1> QED  BY <1>4, <1>5, <1>6, <1>7, <1>8, <1>9, <1>10

LEMMA PollKeeps ==
  ASSUME ListInv, Poll
  PROVE  ListInv'
PROOF
<1> USE DEF ListInv
<1>1. /\ view # NoView /\ fetch = NoFetch /\ view.polls
      /\ fetch' = [for |-> "poll", kind |-> view.kind, page |-> 1, step |-> "rows",
                   rows |-> {}]
      /\ UNCHANGED <<table, created, view, listed, tieOrder, added, removed, elsewhere,
                     listFaults>>
  BY DEF Poll, Idle
<1>2. view.kind \in ListKinds /\ view \in Views
  BY <1>1, ListFields
<1>3. fetch' \in Fetches /\ fetch' # NoFetch
  BY <1>1, <1>2, NoneAssumption DEF Fetches
<1>4. ListTypeOK'
  BY <1>1, <1>3 DEF ListTypeOK
<1>5. Matching'
  BY <1>1, <1>3 DEF Matching
<1>6. FetchRead'
  BY <1>1 DEF FetchRead
<1>7. /\ History' /\ ViewRead' /\ Shown' = Shown
      /\ \A rows : Settled(rows) => Settled(rows)'
      /\ \A r \in view.first \cap view.more : added' # {} \/ Tied(r)'
      /\ \A r \in Shown' \ table' : r \in elsewhere' \/ added' # {}
  BY <1>1, <1>4, RowsStay
<1>8. Loaded'
  <2>1. ~view.sentinel /\ ~view.failed => Settled(Shown)
    BY <1>1 DEF Loaded, Revealing
  <2>2. Settled(Shown) => Settled(Shown)'
    BY <1>7 DEF Settled
  <2> QED  BY <1>1, <2>1, <2>2 DEF Loaded, Revealing
<1>9. Twice'
  BY <1>1, <1>7 DEF Twice, Revealing
<1>10. Vanished'
  BY <1>1, <1>7 DEF Vanished
<1> QED  BY <1>4, <1>5, <1>6, <1>7, <1>8, <1>9, <1>10

LEMMA RevealKeeps ==
  ASSUME ListInv, Reveal
  PROVE  ListInv'
PROOF
<1> USE DEF ListInv
<1>1. /\ view # NoView /\ fetch = NoFetch /\ view.sentinel
      /\ fetch' = [for |-> "reveal", kind |-> view.kind, page |-> view.page + 1,
                   step |-> "rows", rows |-> {}]
      /\ view' = [view EXCEPT !.sentinel = FALSE]
      /\ UNCHANGED <<table, created, listed, tieOrder, added, removed, elsewhere,
                     listFaults>>
  BY DEF Reveal, Idle
<1>2. view.kind \in ListKinds /\ view \in Views /\ view.page \in Nat
  BY <1>1, ListFields
<1>3. /\ view' \in Views /\ view' # NoView
      /\ view'.kind = view.kind /\ view'.page = view.page /\ view'.polls = view.polls
      /\ view'.first = view.first /\ view'.more = view.more
      /\ view'.sentinel = FALSE /\ view'.failed = view.failed
  BY <1>1, <1>2, NoneAssumption DEF Views
<1>4. fetch' \in Fetches /\ fetch' # NoFetch /\ view.page + 1 # 0
  BY <1>1, <1>2, NoneAssumption DEF Fetches
<1>5. ListTypeOK'
  BY <1>1, <1>3, <1>4 DEF ListTypeOK
<1>6. Matching'
  <2>1. /\ view.page # 0 /\ (~ListOf(view.kind).paged => view.page = 1)
        /\ ~view.polls /\ view.more = {} /\ ListOf(view.kind).paged
        /\ view.page * SizeOf(view.kind) < OffsetRange
    BY <1>1 DEF Matching
  <2>2. /\ fetch'.for = "reveal" /\ fetch'.page = view.page + 1 /\ fetch'.kind = view.kind
        /\ fetch'.step = "rows"
    BY <1>1
  <2> QED  BY <1>3, <1>4, <2>1, <2>2 DEF Matching
<1>7. FetchRead'
  BY <1>1 DEF FetchRead
<1>8. /\ History' /\ ViewRead' /\ Shown' = Shown
      /\ \A r \in view.first \cap view.more : added' # {} \/ Tied(r)'
      /\ \A r \in Shown' \ table' : r \in elsewhere' \/ added' # {}
  BY <1>1, <1>3, <1>5, RowsStay
<1>9. Loaded'
  BY <1>1, <1>4 DEF Loaded, Revealing
<1>10. Twice'
  BY <1>1, <1>3, <1>8 DEF Twice, Revealing
<1>11. Vanished'
  BY <1>1, <1>8 DEF Vanished
<1> QED  BY <1>5, <1>6, <1>7, <1>8, <1>9, <1>10, <1>11

LEMMA FetchFailsKeeps ==
  ASSUME ListInv, FetchFails
  PROVE  ListInv'
PROOF
<1> USE DEF ListInv
<1>1. /\ fetch # NoFetch /\ fetch' = NoFetch
      /\ UNCHANGED <<table, created, listed, tieOrder, added, removed, elsewhere>>
  BY DEF FetchFails
<1>2. listFaults' \in Nat
  BY ListFields DEF FetchFails
<1>3. fetch.for = "open" <=> view = NoView
  BY <1>1 DEF Matching
<1>4. CASE fetch.for = "open"
  <2>1. view = NoView /\ view' = NoView
    BY <1>3, <1>4 DEF FetchFails
  <2>2. ListTypeOK'
    BY <1>1, <1>2, <2>1 DEF ListTypeOK
  <2>3. ~Opened'
    BY <1>1, <2>1 DEF Opened
  <2>4. Matching' /\ FetchRead' /\ ViewRead' /\ Loaded' /\ Twice' /\ Vanished'
    BY <1>1, <2>1 DEF Matching, FetchRead, ViewRead, Loaded, Twice, Vanished, Shown
  <2> QED  BY <2>2, <2>3, <2>4
<1>5. CASE fetch.for # "open"
  <2>1. view # NoView /\ view' = [view EXCEPT !.failed = TRUE]
    BY <1>3, <1>5 DEF FetchFails
  <2>2. view \in Views
    BY <2>1, ListFields
  <2>3. /\ view' \in Views /\ view' # NoView
        /\ view'.kind = view.kind /\ view'.page = view.page /\ view'.polls = view.polls
        /\ view'.first = view.first /\ view'.more = view.more
        /\ view'.sentinel = view.sentinel /\ view'.failed
    BY <2>1, <2>2, NoneAssumption DEF Views
  <2>4. ListTypeOK'
    BY <1>1, <1>2, <2>3 DEF ListTypeOK
  <2>5. Matching'
    BY <1>1, <2>1, <2>3 DEF Matching
  <2>6. FetchRead'
    BY <1>1 DEF FetchRead
  <2>7. /\ History' /\ ViewRead' /\ Shown' = Shown
        /\ \A r \in view.first \cap view.more : added' # {} \/ Tied(r)'
        /\ \A r \in Shown' \ table' : r \in elsewhere' \/ added' # {}
    BY <1>1, <2>1, <2>3, <2>4, RowsStay
  <2>8. Loaded'
    BY <2>3 DEF Loaded
  <2>9. Twice'
    BY <1>1, <2>3, <2>7 DEF Twice, Revealing
  <2>10. Vanished'
    BY <1>1, <2>7 DEF Vanished
  <2> QED  BY <2>4, <2>5, <2>6, <2>7, <2>8, <2>9, <2>10
<1> QED  BY <1>4, <1>5

(***************************************************************************)
(* Rows that are read, and rows that are swapped in.                       *)
(***************************************************************************)

\* A page that begins where its number says holds the rows of its place; if its
\* offset wraps, no row has a place as high as where it should begin.
LEMMA ReadsThePage ==
  ASSUME Cardinality(Rows) <= OffsetRange, ListTypeOK, NEW kind \in ListKinds,
         NEW tie \in BOOLEAN, NEW nth \in Nat \ {0}, ~ListOf(kind).paged => nth = 1
  PROVE  /\ \A r \in table \ QueryOf(kind, tie, nth) :
              \/ kind = "events"
              \/ PlaceIn(kind, tie, table, r) <= (nth - 1) * SizeOf(kind)
              \/ OffsetRange <= (nth - 1) * SizeOf(kind)
              \/ PlaceIn(kind, tie, table, r) > nth * SizeOf(kind)
         /\ \A r \in QueryOf(kind, tie, nth) :
              /\ \/ PlaceIn(kind, tie, table, r) > (nth - 1) * SizeOf(kind)
                 \/ OffsetRange <= (nth - 1) * SizeOf(kind)
              /\ ~(PlaceIn(kind, tie, table, r) > nth * SizeOf(kind))
         /\ QueryOf(kind, tie, nth) = {} /\ nth = 1 => table = {} \/ kind = "events"
PROOF
<1> DEFINE base == (nth - 1) * SizeOf(kind)
           end == nth * SizeOf(kind)
           rows == QueryOf(kind, tie, nth)
<1>1. /\ base \in Nat /\ end \in Nat /\ base <= end /\ OffsetRange \in Nat \ {0}
  <2>1. /\ base \in Nat /\ end = base + SizeOf(kind) /\ OffsetRange \in Nat
    BY Offsets
  <2>2. SizeOf(kind) \in Nat
    BY Kinds
  <2>3. OffsetRange \in Nat \ {0}
    BY PageRowsAssumption
  <2> HIDE DEF base, end
  <2> QED  BY <2>1, <2>2, <2>3
<1>2. table \in SUBSET Rows
  BY ListFields
<1>3. /\ rows \in SUBSET table
      /\ base < OffsetRange =>
           \A r \in Rows : r \in rows <=> /\ r \in table /\ kind # "events"
                                          /\ PlaceIn(kind, tie, table, r) > base
                                          /\ PlaceIn(kind, tie, table, r) <= end
  BY <1>2, QueryReads
<1>4. ASSUME NEW r \in table
      PROVE  /\ PlaceIn(kind, tie, table, r) \in Nat /\ 1 <= PlaceIn(kind, tie, table, r)
             /\ PlaceIn(kind, tie, table, r) <= OffsetRange
  <2>1. r \in Rows
    BY <1>2
  <2>2. /\ PlaceIn(kind, tie, table, r) \in Nat /\ 1 <= PlaceIn(kind, tie, table, r)
        /\ PlaceIn(kind, tie, table, r) <= Cardinality(Rows) /\ Cardinality(Rows) \in Nat
    BY <1>2, <2>1, PlaceTyped, RowsCounted
  <2> QED  BY <1>1, <2>2
<1> HIDE DEF base, end, rows
<1>5. \A r \in table \ rows :
              \/ kind = "events"
              \/ PlaceIn(kind, tie, table, r) <= base
              \/ OffsetRange <= base
              \/ PlaceIn(kind, tie, table, r) > end
  BY <1>1, <1>2, <1>3, <1>4
<1>6. \A r \in rows :
              /\ \/ PlaceIn(kind, tie, table, r) > base
                 \/ OffsetRange <= base
              /\ ~(PlaceIn(kind, tie, table, r) > end)
  BY <1>1, <1>2, <1>3, <1>4
<1>7. ASSUME rows = {}, nth = 1, table # {}, kind # "events" PROVE FALSE
  <2>1. PICK r \in table : PlaceIn(kind, tie, table, r) = 1
    BY <1>2, <1>7, FirstPlace
  <2>2. r \in Rows
    BY <1>2
  <2>3. base = 0 /\ end = SizeOf(kind) /\ SizeOf(kind) \in Nat
    BY <1>7, Kinds DEF base, end
  <2>4. 1 <= SizeOf(kind)
    <3>1. CASE ListOf(kind).paged
      BY <3>1, Kinds
    <3>2. CASE ~ListOf(kind).paged
      <4>1. SizeOf(kind) = Cardinality(Rows)
        BY <3>2, Kinds
      <4>2. 1 <= r /\ r <= Cardinality(Rows) /\ r \in Nat /\ Cardinality(Rows) \in Nat
        BY <2>2, RowsCounted
      <4> QED  BY <4>1, <4>2
    <3> QED  BY <3>1, <3>2
  <2> QED  BY <1>1, <1>3, <1>7, <2>1, <2>2, <2>3, <2>4
<1> QED  BY <1>5, <1>6, <1>7 DEF base, end, rows

\* Every row of the list is shown by now, tied, or passed by: before the page, past
\* the second one, or between the two as they were read.
LEMMA SecondPageSettles ==
  ASSUME Cardinality(Rows) <= OffsetRange, ListInv, Opened, view # NoView, ~view.polls,
         view.page * SizeOf(view.kind) < OffsetRange,
         ListOf(view.kind).paged,
         NEW tie \in BOOLEAN, NEW rows,
         rows = QueryOf(view.kind, tie, view.page + 1)
  PROVE  /\ Settled(view.first \cup rows)
         /\ \A r \in view.first \cap rows : added # {} \/ Tied(r)
PROOF
<1> USE DEF ListInv
<1> DEFINE kind == view.kind
           size == SizeOf(view.kind)
           last == view.page * SizeOf(view.kind)
<1>1. /\ kind \in ListKinds /\ view.page \in Nat \ {0} /\ view.polls \in BOOLEAN
      /\ view.first \in SUBSET Rows /\ listed \in SUBSET Rows /\ table \in SUBSET Rows
      /\ added \in SUBSET Rows /\ tieOrder \in BOOLEAN
  BY ListFields DEF Matching
<1>2. view.page + 1 \in Nat \ {0} /\ (view.page + 1) - 1 = view.page
  BY <1>1
<1>3. size \in Nat
  BY <1>1, Kinds
<1>4. /\ (view.page - 1) * size \in Nat /\ last = (view.page - 1) * size + size
      /\ OffsetRange \in Nat
  BY <1>1, Offsets
<1>5. (view.page + 1) * size = last + size
  BY <1>2, <1>1, Offsets
<1>6. \A r \in Rows : r \in rows <=> /\ r \in table /\ kind # "events"
                                     /\ PlaceIn(kind, tie, table, r) > last
                                     /\ PlaceIn(kind, tie, table, r) <= last + size
  <2>1. (view.page + 1 - 1) * SizeOf(kind) = last
    BY <1>2
  <2>2. \A r \in Rows :
          r \in QueryOf(kind, tie, view.page + 1) <=>
            /\ r \in table /\ kind # "events"
            /\ PlaceIn(kind, tie, table, r) > (view.page + 1 - 1) * SizeOf(kind)
            /\ PlaceIn(kind, tie, table, r) <= (view.page + 1) * SizeOf(kind)
    BY <1>1, <1>2, <2>1, QueryReads
  <2> QED  BY <1>5, <2>1, <2>2
<1>7. FirstRead(kind, view.page, view.first)
  BY DEF ViewRead
<1>8. ASSUME NEW r \in Rows, ~Tied(r), r \in listed \cup added
      PROVE  /\ RowPlace(kind, r) \in Nat /\ PlaceIn(kind, tie, table, r) \in Nat
             /\ Cardinality(added) \in Nat /\ Cardinality(removed) \in Nat
             /\ RowPlace(kind, r) <= PlaceIn(kind, tie, table, r) + Cardinality(removed)
             /\ PlaceIn(kind, tie, table, r) <= RowPlace(kind, r) + Cardinality(added)
             /\ RowPlace(kind, r) <= OffsetRange
  <2>1. kind = "invoices" =>
           \A s \in listed \cup added : s # r => PeriodStart[s] # PeriodStart[r]
    BY <1>8 DEF Tied
  <2>2. /\ RowPlace(kind, r) \in Nat /\ PlaceIn(kind, tie, table, r) \in Nat
        /\ Cardinality(added) \in Nat /\ Cardinality(removed) \in Nat
        /\ RowPlace(kind, r) <= PlaceIn(kind, tie, table, r) + Cardinality(removed)
        /\ PlaceIn(kind, tie, table, r) <= RowPlace(kind, r) + Cardinality(added)
    BY <1>1, <2>1, PlaceThen
  <2>3. RowPlace(kind, r) <= Cardinality(Rows) /\ Cardinality(Rows) \in Nat
    BY <1>1, PlaceTyped, RowsCounted DEF RowPlace
  <2> QED  BY <1>4, <2>2, <2>3
<1>9. ASSUME NEW r \in listed \ (removed \cup view.first \cup rows), ~Tied(r),
             kind # "events"
      PROVE  Passed(r)
  <2>1. r \in Rows /\ r \in table
    BY <1>1 DEF History
  <2>2. \/ RowPlace(kind, r) <= (view.page - 1) * size
        \/ OffsetRange <= (view.page - 1) * size
        \/ RowPlace(kind, r) > last
    BY <1>7, <1>9 DEF FirstRead, Before, After
  <2>3. ~(PlaceIn(kind, tie, table, r) > last) \/ ~(PlaceIn(kind, tie, table, r) <= last + size)
    BY <1>6, <1>9, <2>1
  <2>4. /\ RowPlace(kind, r) \in Nat /\ PlaceIn(kind, tie, table, r) \in Nat
        /\ Cardinality(added) \in Nat /\ Cardinality(removed) \in Nat
        /\ RowPlace(kind, r) <= PlaceIn(kind, tie, table, r) + Cardinality(removed)
        /\ PlaceIn(kind, tie, table, r) <= RowPlace(kind, r) + Cardinality(added)
        /\ RowPlace(kind, r) <= OffsetRange
    BY <1>8, <1>9, <2>1
  <2>5. Passed(r) <=> \/ RowPlace(kind, r) <= last - size
                      \/ RowPlace(kind, r) > last + size - Cardinality(added)
                      \/ last < RowPlace(kind, r) /\ RowPlace(kind, r) <= last + Cardinality(removed)
                      \/ view.polls /\ RowPlace(kind, r) + Cardinality(added) > last
    BY DEF Passed, RowPlace
  <2> DEFINE b == (view.page - 1) * size
             p == RowPlace(kind, r)
             q == PlaceIn(kind, tie, table, r)
             a == Cardinality(added)
             d == Cardinality(removed)
  <2> HIDE DEF b, p, q, a, d, last, size
  <2>6. b \in Nat /\ last = b + size
    BY <1>4 DEF b
  <2>7. p <= b \/ OffsetRange <= b \/ p > last
    BY <2>2 DEF b, p
  <2>8. ~(q > last) \/ ~(q <= last + size)
    BY <2>3 DEF q
  <2>9. /\ p \in Nat /\ q \in Nat /\ a \in Nat /\ d \in Nat /\ p <= q + d /\ q <= p + a
        /\ p <= OffsetRange
    BY <2>4 DEF p, q, a, d
  <2>10. \/ p <= last - size \/ p > last + size - a
         \/ last < p /\ p <= last + d
    BY <1>3, <1>4, <2>6, <2>7, <2>8, <2>9
  <2> QED  BY <2>5, <2>10 DEF p, a, d
<1>10. Settled(view.first \cup rows)
  BY <1>9 DEF Settled
<1>11. ASSUME NEW r \in view.first \cap rows, added = {}, ~Tied(r) PROVE FALSE
  <2>1. r \in Rows /\ r \in listed \cup added
    BY <1>1 DEF ViewRead, Shown
  <2>2. ~(RowPlace(kind, r) > last)
    BY <1>7, <1>11 DEF FirstRead, After
  <2>3. PlaceIn(kind, tie, table, r) > last
    BY <1>6, <1>11, <2>1
  <2>4. /\ RowPlace(kind, r) \in Nat /\ PlaceIn(kind, tie, table, r) \in Nat
        /\ PlaceIn(kind, tie, table, r) <= RowPlace(kind, r) + Cardinality(added)
    BY <1>8, <1>11, <2>1
  <2>5. Cardinality(added) = 0
    BY <1>11, FS_EmptySet
  <2> HIDE DEF last
  <2>6. last \in Nat
    BY <1>3, <1>4 DEF last
  <2> QED  BY <2>2, <2>3, <2>4, <2>5, <2>6
<1> QED  BY <1>10, <1>11

LEMMA QueryRowsKeeps ==
  ASSUME Cardinality(Rows) <= OffsetRange, ListInv, QueryRows
  PROVE  ListInv'
PROOF
<1> USE DEF ListInv
<1>1. PICK tie \in BOOLEAN :
    /\ fetch # NoFetch /\ fetch.step = "rows"
    /\ OffsetOf(fetch.kind, fetch.page) >= 0
    /\ fetch' = [fetch EXCEPT !.step = "count",
                              !.rows = QueryOf(fetch.kind, tie, fetch.page)]
    /\ IF fetch.for = "open"
       THEN /\ listed' = table /\ tieOrder' = tie
            /\ added' = {} /\ removed' = {} /\ elsewhere' = {}
       ELSE UNCHANGED <<listed, tieOrder, added, removed, elsewhere>>
    /\ UNCHANGED <<table, created, view, listFaults>>
  BY DEF QueryRows
<1>0. PICK rows : rows = QueryOf(fetch.kind, tie, fetch.page)
  OBVIOUS
<1>2. /\ fetch \in Fetches /\ fetch.kind \in ListKinds /\ fetch.page \in Nat \ {0}
      /\ table \in SUBSET Rows /\ (~ListOf(fetch.kind).paged => fetch.page = 1)
      /\ fetch.for \in {"open", "reveal", "poll"}
  BY <1>1, ListFields DEF Matching
<1>3. rows \in SUBSET table
  BY <1>0, <1>2, QueryReads
<1>4. /\ fetch' \in Fetches /\ fetch' # NoFetch
      /\ fetch'.for = fetch.for /\ fetch'.kind = fetch.kind /\ fetch'.page = fetch.page
      /\ fetch'.step = "count" /\ fetch'.rows = rows
  <2>1. fetch' = [fetch EXCEPT !.step = "count", !.rows = rows]
    BY <1>0, <1>1
  <2> QED  BY <1>2, <1>3, <2>1, NoneAssumption DEF Fetches
<1>5. ListTypeOK'
  BY <1>1, <1>2, <1>4 DEF ListTypeOK
<1>6. Matching'
  BY <1>1, <1>4 DEF Matching
<1>7. CASE fetch.for = "open"
  <2>1. view = NoView /\ view' = NoView
    BY <1>1, <1>7 DEF Matching
  <2>2. /\ listed' = table /\ tieOrder' = tie /\ added' = {} /\ removed' = {}
        /\ table' = table
    BY <1>1, <1>7
  <2>3. History'
    BY <2>2 DEF History
  <2>4. ViewRead' /\ Loaded' /\ Twice'
    BY <2>1 DEF ViewRead, Loaded, Twice
  <2>5. Vanished'
    BY <1>3, <1>4, <2>1, <2>2 DEF Vanished, Shown
  <2>6. FirstRead(fetch.kind, fetch.page, rows)'
        /\ (rows = {} /\ fetch.page = 1 => table = {} \/ fetch.kind = "events")
    <3>1. /\ \A r \in table \ rows :
               \/ fetch.kind = "events"
               \/ PlaceIn(fetch.kind, tie, table, r) <= (fetch.page - 1) * SizeOf(fetch.kind)
               \/ OffsetRange <= (fetch.page - 1) * SizeOf(fetch.kind)
               \/ PlaceIn(fetch.kind, tie, table, r) > fetch.page * SizeOf(fetch.kind)
          /\ \A r \in rows :
               /\ \/ PlaceIn(fetch.kind, tie, table, r) > (fetch.page - 1) * SizeOf(fetch.kind)
                  \/ OffsetRange <= (fetch.page - 1) * SizeOf(fetch.kind)
               /\ ~(PlaceIn(fetch.kind, tie, table, r) > fetch.page * SizeOf(fetch.kind))
          /\ rows = {} /\ fetch.page = 1 => table = {} \/ fetch.kind = "events"
      BY <1>0, <1>2, ReadsThePage
    <3>2. FirstRead(fetch.kind, fetch.page, rows)'
      BY <1>4, <2>2, <3>1 DEF FirstRead, Before, After, RowPlace
    <3> QED  BY <3>1, <3>2
  <2>7. FetchRead'
    <3>1. FirstRead(fetch.kind, fetch.page, fetch.rows)'
      BY <1>4, <2>6 DEF FirstRead, Before, After, RowPlace
    <3>2. fetch.rows' \subseteq table
      BY <1>3, <1>4
    <3> QED  BY <1>4, <1>7, <2>2, <2>6, <3>1, <3>2 DEF FetchRead
  <2> QED  BY <1>5, <1>6, <2>3, <2>4, <2>5, <2>7
<1>8. CASE fetch.for # "open"
  <2>1. view # NoView /\ Opened
    BY <1>1, <1>8 DEF Matching, Opened
  <2>2. UNCHANGED <<listed, tieOrder, added, removed, elsewhere, table, view>>
    BY <1>1, <1>8
  <2>3. /\ History' /\ ViewRead' /\ Shown' = Shown
        /\ \A s : Settled(s) => Settled(s)'
        /\ \A r \in Rows : Tied(r) => Tied(r)'
        /\ \A r \in view.first \cap view.more : added' # {} \/ Tied(r)'
        /\ \A r \in Shown' \ table' : r \in elsewhere' \/ added' # {}
    BY <1>5, <2>1, <2>2, RowsStay
  <2>4. rows \subseteq listed \cup added
    BY <1>3, <2>1 DEF History
  <2>5. Vanished'
    BY <1>3, <1>4, <2>2, <2>3 DEF Vanished
  <2>6. CASE fetch.for = "reveal"
    <3>1. /\ fetch.page = view.page + 1 /\ fetch.kind = view.kind
          /\ ~view.sentinel /\ ~view.polls /\ view.more = {}
          /\ view.page * SizeOf(view.kind) < OffsetRange
      BY <1>1, <2>6 DEF Matching
    <3>2. view.page \in Nat \ {0} /\ view.page + 1 # 1
      BY <2>1, ListFields DEF Matching
    <3>3. ListOf(view.kind).paged
      BY <1>2, <3>1, <3>2
    <3>4. /\ Settled(view.first \cup rows)
          /\ \A r \in view.first \cap rows : added # {} \/ Tied(r)
      BY <2>1, <3>1, <3>3, <1>0, SecondPageSettles
    <3>5. Settled(view.first \cup rows)'
      <4> QED  BY <2>2, <3>4 DEF Settled, Passed, Tied
    <3>6. Loaded'
      <4>1. (view.first \cup fetch.rows)' = (view.first \cup rows)'
        BY <1>4
      <4>2. Settled(view.first \cup fetch.rows)'
        BY <3>5, <4>1 DEF Settled
      <4> QED  BY <1>4, <2>2, <2>6, <4>2 DEF Loaded, Revealing
    <3>7. Twice'
      <4>1. view.first \in SUBSET Rows
        BY <2>1, ListFields
      <4> QED  BY <1>4, <2>2, <2>3, <3>4, <4>1 DEF Twice, Revealing
    <3>8. FetchRead'
      BY <1>4, <2>2, <2>4, <2>6 DEF FetchRead
    <3> QED  BY <1>5, <1>6, <2>3, <2>5, <3>6, <3>7, <3>8
  <2>7. CASE fetch.for = "poll"
    <3>1. /\ fetch.page = 1 /\ fetch.kind = "reports" /\ view.polls
      BY <1>1, <2>1, <2>7 DEF Matching
    <3>2. Polled(rows)
      <4> SUFFICES ASSUME NEW r \in listed \ (removed \cup rows)
                   PROVE  RowPlace("reports", r) + Cardinality(added) > SizeOf("reports")
        BY DEF Polled
      <4>1. r \in Rows /\ r \in table
        BY <2>1, ListFields DEF History
      <4>2. /\ RowPlace("reports", r) \in Nat /\ PlaceIn("reports", tie, table, r) \in Nat
            /\ Cardinality(added) \in Nat
            /\ PlaceIn("reports", tie, table, r) <= RowPlace("reports", r) + Cardinality(added)
        BY <2>1, <4>1, PlaceThen DEF ListKinds
      <4>3. 1 <= PlaceIn("reports", tie, table, r)
        BY <1>2, <4>1, PlaceTyped
      <4>4. SizeOf("reports") \in Nat /\ OffsetRange \in Nat \ {0}
        BY Kinds, PageRowsAssumption DEF ListKinds
      <4>5. (1 - 1) * SizeOf("reports") = 0 /\ 1 * SizeOf("reports") = SizeOf("reports")
        BY <4>4
      <4>6. PlaceIn("reports", tie, table, r) > SizeOf("reports")
        <5>1. \/ PlaceIn("reports", tie, table, r) <= (1 - 1) * SizeOf("reports")
              \/ OffsetRange <= (1 - 1) * SizeOf("reports")
              \/ PlaceIn("reports", tie, table, r) > 1 * SizeOf("reports")
          BY <1>2, <3>1, <4>1, <1>0, ReadsThePage
        <5> QED  BY <4>2, <4>3, <4>4, <4>5, <5>1
      <4> QED  BY <4>2, <4>4, <4>6
    <3>3. Polled(rows)'
      <4> QED  BY <2>2, <3>2 DEF Polled, RowPlace
    <3>4. FetchRead'
      <4>1. Polled(fetch.rows)'
        BY <1>4, <3>3 DEF Polled
      <4> QED  BY <1>4, <2>2, <2>4, <2>7, <4>1 DEF FetchRead
    <3>5. Loaded'
      <4>1. view # NoView /\ ~view.sentinel /\ ~view.failed => Settled(Shown)
        BY <2>7 DEF Loaded, Revealing
      <4>2. Settled(Shown) => Settled(Shown)'
        BY <2>3 DEF Settled
      <4> QED  BY <1>4, <2>2, <2>7, <4>1, <4>2 DEF Loaded, Revealing
    <3>6. Twice'
      BY <1>4, <2>2, <2>3, <2>7 DEF Twice, Revealing
    <3> QED  BY <1>5, <1>6, <2>3, <2>5, <3>4, <3>5, <3>6
  <2> QED  BY <1>2, <1>8, <2>6, <2>7
<1> QED  BY <1>7, <1>8

LEMMA RenderPageKeeps ==
  ASSUME Cardinality(Rows) <= OffsetRange, ListInv, RenderPage
  PROVE  ListInv'
PROOF
<1> USE DEF ListInv
<1>0. PICK kind, nth, rows, more, empty :
        /\ kind = fetch.kind /\ nth = fetch.page /\ rows = fetch.rows
        /\ more = HasMore(kind, nth)
        /\ empty = (rows = {} /\ nth = 1)
  OBVIOUS
<1>1. /\ fetch # NoFetch /\ fetch.step = "count" /\ fetch.for = "open"
      /\ view' = [kind |-> kind, page |-> nth, first |-> rows, more |-> {},
                  sentinel |-> more /\ ~ empty,
                  polls |-> ListOf(kind).polls /\ nth = 1 /\ ~ more /\ ~ empty,
                  failed |-> FALSE, strayed |-> FALSE]
      /\ fetch' = NoFetch
      /\ UNCHANGED <<table, created, listed, tieOrder, added, removed, elsewhere, listFaults>>
  BY <1>0 DEF RenderPage
<1>2. /\ kind \in ListKinds /\ nth \in Nat \ {0} /\ rows \in SUBSET Rows
      /\ table \in SUBSET Rows /\ listed \in SUBSET Rows /\ added \in SUBSET Rows
      /\ removed \in SUBSET Rows /\ tieOrder \in BOOLEAN
      /\ (~ListOf(kind).paged => nth = 1) /\ view = NoView
  BY <1>0, <1>1, ListFields DEF Matching
<1>3. /\ ListOf(kind).paged \in BOOLEAN /\ ListOf(kind).polls \in BOOLEAN
      /\ SizeOf(kind) \in Nat
      /\ ListOf(kind).paged => 1 <= SizeOf(kind)
      /\ ~ListOf(kind).paged => SizeOf(kind) = Cardinality(Rows)
      /\ ListOf(kind).polls => kind = "reports"
  BY <1>2, Kinds
<1>4. empty \in BOOLEAN /\ more \in BOOLEAN
      /\ (more <=> ListOf(kind).paged /\ nth * SizeOf(kind) < CountOf(kind))
  BY <1>0 DEF HasMore
<1>5. /\ view' \in Views /\ view' # NoView
      /\ view'.kind = kind /\ view'.page = nth /\ view'.first = rows /\ view'.more = {}
      /\ view'.sentinel <=> (more /\ ~empty)
      /\ view'.polls <=> (ListOf(kind).polls /\ nth = 1 /\ ~ more /\ ~ empty)
      /\ view'.failed = FALSE
  <2>1. /\ (more /\ ~empty) \in BOOLEAN
        /\ (ListOf(kind).polls /\ nth = 1 /\ ~ more /\ ~ empty) \in BOOLEAN
    OBVIOUS
  <2>2. view' \in Views
    BY <1>1, <1>2, <2>1 DEF Views
  <2> QED  BY <1>1, <2>2, NoneAssumption
<1>6. ListTypeOK'
  BY <1>1, <1>5 DEF ListTypeOK
<1>7. Opened /\ History
  BY <1>1 DEF Opened
<1>8. History'
  BY <1>1, <1>7 DEF History
<1>9. /\ rows \subseteq listed \cup added
      /\ FirstRead(kind, nth, rows)
      /\ rows = {} /\ nth = 1 => listed = {} \/ kind = "events"
  BY <1>0, <1>1 DEF FetchRead
<1>10. \A r \in Rows : /\ RowPlace(kind, r) \in Nat /\ RowPlace(kind, r) <= OffsetRange
                       /\ RowPlace(kind, r) <= Cardinality(Rows)
                       /\ r \in listed => 1 <= RowPlace(kind, r)
  <2> SUFFICES ASSUME NEW r \in Rows
               PROVE  /\ RowPlace(kind, r) \in Nat /\ RowPlace(kind, r) <= OffsetRange
                      /\ RowPlace(kind, r) <= Cardinality(Rows)
                      /\ r \in listed => 1 <= RowPlace(kind, r)
    OBVIOUS
  <2>1. /\ RowPlace(kind, r) \in Nat /\ RowPlace(kind, r) <= Cardinality(Rows)
        /\ r \in listed => 1 <= RowPlace(kind, r)
    BY <1>2, PlaceTyped DEF RowPlace
  <2>2. OffsetRange \in Nat /\ Cardinality(Rows) \in Nat
    BY PageRowsAssumption, RowsCounted
  <2> QED  BY <2>1, <2>2
<1>11. CountOf(kind) \in Nat /\ CountOf(kind) <= OffsetRange
  <2>1. Visible(kind) \in SUBSET Rows
    BY <1>2 DEF Visible, EventsInRange
  <2>2. /\ CountOf(kind) \in Nat /\ CountOf(kind) <= Cardinality(Rows)
        /\ Cardinality(Rows) \in Nat /\ OffsetRange \in Nat
    BY <2>1, RowsCounted, PageRowsAssumption DEF CountOf
  <2> QED  BY <2>2
<1>12. /\ (nth - 1) * SizeOf(kind) \in Nat /\ OffsetRange \in Nat \ {0}
       /\ nth * SizeOf(kind) = (nth - 1) * SizeOf(kind) + SizeOf(kind)
  BY <1>2, Offsets, PageRowsAssumption
<1>13. Matching'
  <2>1. more => nth * SizeOf(kind) < OffsetRange
    <3> DEFINE last == nth * SizeOf(kind)
               count == CountOf(kind)
    <3>1. last \in Nat
      BY <1>3, <1>12
    <3>2. more => last < count
      BY <1>4
    <3>3. count \in Nat /\ count <= OffsetRange
      BY <1>11
    <3> HIDE DEF last, count
    <3>4. more => last < OffsetRange
      BY <1>12, <3>1, <3>2, <3>3
    <3> QED  BY <3>4 DEF last
  <2>2. view'.sentinel => ~view'.polls /\ ListOf(kind).paged
    BY <1>4, <1>5
  <2>3. view'.polls => kind = "reports" /\ nth = 1
    BY <1>3, <1>5
  <2> QED  BY <1>1, <1>2, <1>5, <2>1, <2>2, <2>3 DEF Matching
<1>14. FetchRead'
  BY <1>1 DEF FetchRead
<1>15. Shown' = rows
  BY <1>5 DEF Shown
<1>16. ASSUME kind = "reports", nth = 1
       PROVE  Polled(rows)
  <2> SUFFICES ASSUME NEW r \in listed \ (removed \cup rows)
               PROVE  RowPlace("reports", r) + Cardinality(added) > SizeOf("reports")
    BY DEF Polled
  <2>1. /\ RowPlace(kind, r) \in Nat /\ 1 <= RowPlace(kind, r)
    BY <1>2, <1>10
  <2>2. \/ RowPlace(kind, r) <= (nth - 1) * SizeOf(kind)
        \/ OffsetRange <= (nth - 1) * SizeOf(kind)
        \/ RowPlace(kind, r) > nth * SizeOf(kind)
    BY <1>9, <1>16 DEF FirstRead, Before, After
  <2>3. (nth - 1) * SizeOf(kind) = 0 /\ nth * SizeOf(kind) = SizeOf(kind)
    BY <1>3, <1>16
  <2>4. RowPlace(kind, r) > SizeOf(kind)
    BY <1>12, <2>1, <2>2, <2>3
  <2>5. Cardinality(added) \in Nat
    BY <1>2, RowsCounted
  <2>6. RowPlace(kind, r) + Cardinality(added) > SizeOf(kind)
    BY <1>3, <2>1, <2>4, <2>5
  <2> QED  BY <1>16, <2>6
<1>17. ViewRead'
  <2>1. FirstRead(view.kind, view.page, view.first)'
    BY <1>1, <1>5, <1>9 DEF FirstRead, Before, After, RowPlace
  <2>2. view'.polls => Polled(rows)
    BY <1>3, <1>5, <1>16
  <2>3. view'.polls => Polled(view.first)'
    BY <1>1, <1>5, <2>2 DEF Polled, RowPlace
  <2> QED  BY <1>1, <1>9, <1>15, <2>1, <2>3 DEF ViewRead
<1>18. ASSUME ~view'.sentinel, NEW r \in listed \ (removed \cup rows), kind # "events"
       PROVE  Passed(r)'
  <2> DEFINE p == RowPlace(kind, r)
             b == (nth - 1) * SizeOf(kind)
             size == SizeOf(kind)
             last == nth * SizeOf(kind)
             d == Cardinality(removed)
             a == Cardinality(added)
  <2>1. Passed(r)' <=> \/ p <= last - size
                       \/ p > last + size - a
                       \/ last < p /\ p <= last + d
                       \/ view'.polls /\ p + a > last
    BY <1>1, <1>5 DEF Passed, RowPlace
  <2>2. p <= b \/ OffsetRange <= b \/ p > last
    BY <1>9, <1>18 DEF FirstRead, Before, After
  <2>3. /\ p \in Nat /\ 1 <= p /\ p <= OffsetRange /\ p <= Cardinality(Rows)
        /\ d \in Nat /\ a \in Nat
        /\ b \in Nat /\ size \in Nat /\ OffsetRange \in Nat /\ last = b + size
    BY <1>2, <1>3, <1>10, <1>12, RowsCounted
  <2>4. ~empty
    BY <1>0, <1>9, <1>18
  <2>5. ~more
    BY <1>5, <1>18, <2>4
  <2>6. p <= last + d
    <3>1. CASE ListOf(kind).paged
      <4>1. ~(last < CountOf(kind)) /\ CountOf(kind) = Cardinality(table)
        BY <1>4, <1>18, <2>5, <3>1 DEF CountOf, Visible
      <4>2. Cardinality(table) \in Nat
        BY <1>2, RowsCounted
      <4>3. p <= PlaceIn(kind, tieOrder, table, r) + d
        BY <1>2, <1>7, PlaceMoves DEF RowPlace, History
      <4>4. /\ PlaceIn(kind, tieOrder, table, r) \in Nat
            /\ PlaceIn(kind, tieOrder, table, r) <= Cardinality(table)
        BY <1>2, PlaceTyped
      <4> HIDE DEF p, b, size, last, d, a
      <4> QED  BY <2>3, <4>1, <4>2, <4>3, <4>4
    <3>2. CASE ~ListOf(kind).paged
      <4>1. last = Cardinality(Rows)
        BY <1>2, <1>3, <3>2
      <4> HIDE DEF p, b, size, last, d, a
      <4> QED  BY <2>3, <4>1
    <3> QED  BY <3>1, <3>2
  <2> HIDE DEF p, b, size, last, d, a
  <2>7. p <= last - size \/ (last < p /\ p <= last + d)
    BY <2>2, <2>3, <2>6
  <2> QED  BY <2>1, <2>7
<1>19. Loaded'
  <2>1. ~view'.sentinel => Settled(Shown)'
    BY <1>1, <1>5, <1>15, <1>18 DEF Settled
  <2> QED  BY <1>1, <2>1 DEF Loaded, Revealing
<1>20. Twice'
  BY <1>1, <1>5 DEF Twice, Revealing
<1>21. Vanished'
  <2>1. \A r \in rows \ table : r \in elsewhere \/ added # {}
    BY <1>0, <1>1 DEF Vanished
  <2> QED  BY <1>1, <1>15, <2>1 DEF Vanished
<1> QED  BY <1>6, <1>8, <1>13, <1>14, <1>17, <1>19, <1>20, <1>21

LEMMA AppendRowsKeeps ==
  ASSUME ListInv, AppendRows
  PROVE  ListInv'
PROOF
<1> USE DEF ListInv
<1>0. PICK rows : rows = fetch.rows
  OBVIOUS
<1>1. /\ fetch # NoFetch /\ fetch.step = "count" /\ fetch.for = "reveal"
      /\ view' = [view EXCEPT !.more = rows] /\ fetch' = NoFetch
      /\ UNCHANGED <<table, created, listed, tieOrder, added, removed, elsewhere, listFaults>>
  BY <1>0 DEF AppendRows
<1>2. /\ view # NoView /\ ~view.sentinel /\ ~view.polls
  BY <1>1 DEF Matching
<1>3. /\ view \in Views /\ rows \in SUBSET Rows /\ view.first \in SUBSET Rows
      /\ listed \in SUBSET Rows
  BY <1>0, <1>1, <1>2, ListFields
<1>4. /\ view' \in Views /\ view' # NoView
      /\ view'.kind = view.kind /\ view'.page = view.page /\ view'.polls = view.polls
      /\ view'.first = view.first /\ view'.more = rows
      /\ view'.sentinel = view.sentinel /\ view'.failed = view.failed
  BY <1>1, <1>2, <1>3, NoneAssumption DEF Views
<1>5. ListTypeOK'
  BY <1>1, <1>4 DEF ListTypeOK
<1>6. Matching'
  BY <1>1, <1>2, <1>4 DEF Matching
<1>7. History'
  BY <1>1, <1>2 DEF Opened, History
<1>8. FetchRead'
  BY <1>1 DEF FetchRead
<1>9. Shown' = view.first \cup rows
  BY <1>4 DEF Shown
<1>10. ViewRead'
  <2>1. view.first \subseteq listed \cup added /\ FirstRead(view.kind, view.page, view.first)
    BY <1>2 DEF ViewRead, Shown
  <2>2. FirstRead(view.kind, view.page, view.first)'
    BY <1>1, <1>4, <2>1 DEF FirstRead, Before, After, RowPlace
  <2>3. rows \subseteq listed \cup added
    BY <1>0, <1>1 DEF FetchRead
  <2> QED  BY <1>1, <1>2, <1>4, <1>9, <2>1, <2>2, <2>3 DEF ViewRead
<1>11. \A r \in Rows : (Passed(r) => Passed(r)') /\ (Tied(r) => Tied(r)')
  BY <1>1, <1>4 DEF Passed, Tied
<1>12. Loaded'
  <2>1. ~view.failed => Settled(view.first \cup rows)
    BY <1>0, <1>1, <1>2 DEF Loaded, Revealing
  <2>2. ~view.failed => Settled(Shown)'
    BY <1>1, <1>3, <1>4, <1>9, <1>11, <2>1 DEF Settled
  <2> QED  BY <1>1, <1>4, <2>2 DEF Loaded, Revealing
<1>13. Twice'
  <2>1. \A r \in view.first \cap rows : added # {} \/ Tied(r)
    BY <1>0, <1>1, <1>2 DEF Twice, Revealing
  <2> QED  BY <1>1, <1>3, <1>4, <1>11, <2>1 DEF Twice, Revealing
<1>14. Vanished'
  <2>1. \A r \in view.first \ table : r \in elsewhere \/ added # {}
    BY <1>2 DEF Vanished, Shown
  <2>2. \A r \in rows \ table : r \in elsewhere \/ added # {}
    BY <1>0, <1>1 DEF Vanished
  <2> QED  BY <1>1, <1>9, <2>1, <2>2 DEF Vanished
<1> QED  BY <1>5, <1>6, <1>7, <1>8, <1>10, <1>12, <1>13, <1>14

LEMMA ReplaceRowsKeeps ==
  ASSUME ListInv, ReplaceRows
  PROVE  ListInv'
PROOF
<1> USE DEF ListInv
<1>0. PICK rows : rows = fetch.rows
  OBVIOUS
<1>1. /\ fetch # NoFetch /\ fetch.step = "count" /\ fetch.for = "poll"
      /\ view' = [view EXCEPT !.first = rows] /\ fetch' = NoFetch
      /\ UNCHANGED <<table, created, listed, tieOrder, added, removed, elsewhere, listFaults>>
  BY <1>0 DEF ReplaceRows
<1>2. /\ view # NoView /\ view.polls /\ view.kind = "reports" /\ view.page = 1
      /\ view.more = {}
  BY <1>1 DEF Matching
<1>3. /\ view \in Views /\ rows \in SUBSET Rows /\ listed \in SUBSET Rows
      /\ added \in SUBSET Rows /\ tieOrder \in BOOLEAN
  BY <1>0, <1>1, <1>2, ListFields
<1>4. /\ view' \in Views /\ view' # NoView
      /\ view'.kind = view.kind /\ view'.page = view.page /\ view'.polls = view.polls
      /\ view'.first = rows /\ view'.more = view.more
      /\ view'.sentinel = view.sentinel /\ view'.failed = view.failed
  BY <1>1, <1>2, <1>3, NoneAssumption DEF Views
<1>5. ListTypeOK'
  BY <1>1, <1>4 DEF ListTypeOK
<1>6. Matching'
  BY <1>1, <1>2, <1>4 DEF Matching
<1>7. History'
  BY <1>1, <1>2 DEF Opened, History
<1>8. FetchRead'
  BY <1>1 DEF FetchRead
<1>9. Shown' = rows
  BY <1>2, <1>4 DEF Shown
<1>10. rows \subseteq listed \cup added /\ Polled(rows)
  BY <1>0, <1>1 DEF FetchRead
<1>11. ViewRead'
  <2>1. Polled(view.first)'
    BY <1>1, <1>4, <1>10 DEF Polled, RowPlace
  <2> QED  BY <1>1, <1>2, <1>4, <1>9, <1>10, <2>1 DEF ViewRead
<1>12. ASSUME NEW r \in listed \ (removed \cup rows)
       PROVE  Passed(r)'
  <2>1. RowPlace("reports", r) + Cardinality(added) > SizeOf("reports")
    BY <1>10 DEF Polled
  <2>2. SizeOf("reports") \in Nat
    BY Kinds DEF ListKinds
  <2>3. 1 * SizeOf("reports") = SizeOf("reports")
    BY <2>2
  <2> QED  BY <1>1, <1>2, <1>4, <2>1, <2>3 DEF Passed, RowPlace
<1>13. Loaded'
  <2>1. Settled(Shown)'
    BY <1>1, <1>9, <1>12 DEF Settled
  <2> QED  BY <1>1, <2>1 DEF Loaded, Revealing
<1>14. Twice'
  BY <1>1, <1>2, <1>4 DEF Twice, Revealing
<1>15. Vanished'
  <2>1. \A r \in rows \ table : r \in elsewhere \/ added # {}
    BY <1>0, <1>1 DEF Vanished
  <2> QED  BY <1>1, <1>9, <2>1 DEF Vanished
<1> QED  BY <1>5, <1>6, <1>7, <1>8, <1>11, <1>13, <1>14, <1>15

\* One copy of the row goes.  Another is left, or is being read, only if the row
\* came twice, and a row that can be deleted is never tied.
LEMMA DeleteRowKeeps ==
  ASSUME ListInv, DeleteRow
  PROVE  ListInv'
PROOF
<1> USE DEF ListInv
<1>1. PICK r \in Shown :
    /\ view # NoView /\ ListOf(view.kind).deletes
    /\ r \in table
    /\ table' = table \ {r} /\ removed' = removed \cup {r}
    /\ view' = IF r \in view.first THEN [view EXCEPT !.first = @ \ {r}]
                                   ELSE [view EXCEPT !.more = @ \ {r}]
    /\ UNCHANGED <<created, fetch, listed, tieOrder, added, elsewhere, listFaults>>
  BY DEF DeleteRow
<1>2. /\ view \in Views /\ view.kind \in ListKinds /\ view.page \in Nat \ {0}
      /\ view.first \in SUBSET Rows /\ view.more \in SUBSET Rows
      /\ table \in SUBSET Rows /\ listed \in SUBSET Rows /\ added \in SUBSET Rows
      /\ removed \in SUBSET Rows /\ Shown = view.first \cup view.more
  BY <1>1, ListFields DEF Matching, Shown
<1>3. view.kind \in {"sources", "schedules"} /\ ~view.polls
  <2>1. view.kind \in {"sources", "schedules"}
    BY <1>1, <1>2, Kinds
  <2> QED  BY <1>1, <2>1 DEF Matching
<1>4. /\ view' \in Views /\ view' # NoView
      /\ view'.kind = view.kind /\ view'.page = view.page /\ view'.polls = view.polls
      /\ view'.sentinel = view.sentinel /\ view'.failed = view.failed
      /\ view'.first = view.first \ {r}
      /\ view'.more \subseteq view.more /\ view.more \ {r} \subseteq view'.more
      /\ r \in view'.more => r \in view.first
  <2>1. CASE r \in view.first
    BY <1>1, <1>2, <2>1, NoneAssumption DEF Views
  <2>2. CASE r \notin view.first
    BY <1>1, <1>2, <2>2, NoneAssumption DEF Views
  <2> QED  BY <2>1, <2>2
<1>5. ListTypeOK'
  BY <1>1, <1>2, <1>4 DEF ListTypeOK
<1>6. Matching'
  BY <1>1, <1>4 DEF Matching
<1>7. History /\ History'
  BY <1>1 DEF Opened, History
<1>8. FetchRead'
  <2>1. fetch # NoFetch => fetch.for = "reveal"
    BY <1>1, <1>3, ListFields DEF Matching
  <2> QED  BY <1>1, <2>1 DEF FetchRead
<1>9. /\ Shown' \subseteq Shown /\ Shown \ {r} \subseteq Shown'
      /\ r \in Shown' => r \in view.first \cap view.more
  BY <1>2, <1>4 DEF Shown
<1>10. ViewRead'
  <2>1. Shown \subseteq listed \cup added /\ FirstRead(view.kind, view.page, view.first)
    BY <1>1, <1>3 DEF ViewRead
  <2>2. FirstRead(view.kind, view.page, view.first)'
    BY <1>1, <1>4, <2>1 DEF FirstRead, Before, After, RowPlace
  <2> QED  BY <1>1, <1>3, <1>4, <1>9, <2>1, <2>2 DEF ViewRead
<1>11. ASSUME NEW s \in Rows
       PROVE  (Passed(s) => Passed(s)') /\ (Tied(s) => Tied(s)') /\ ~Tied(s)
  <2>1. (Passed(s) => Passed(s)') /\ (Tied(s) => Tied(s)')
    BY <1>1, <1>2, <1>4, <1>5, PassedStays
  <2>2. ~Tied(s)
    BY <1>3 DEF Tied
  <2> QED  BY <2>1, <2>2
<1>12. Loaded'
  <2>1. Settled(Shown) => Settled(Shown)'
    BY <1>1, <1>2, <1>4, <1>9, <1>11 DEF Settled
  <2>2. Settled(view.first \cup fetch.rows) => Settled(view.first \cup fetch.rows)'
    BY <1>1, <1>2, <1>4, <1>11 DEF Settled
  <2> QED  BY <1>1, <1>4, <2>1, <2>2 DEF Loaded, Revealing
<1>13. Twice'
  <2>1. \A s \in view.first \cap view.more : added # {} \/ Tied(s)'
    BY <1>1, <1>2, <1>11 DEF Twice
  <2>2. Revealing /\ fetch.step = "count" =>
          \A s \in view.first \cap fetch.rows : added # {} \/ Tied(s)'
    BY <1>1, <1>2, <1>11 DEF Twice
  <2> QED  BY <1>1, <1>4, <2>1, <2>2 DEF Twice, Revealing
<1>14. Vanished'
  <2>1. r \in view.first \cap view.more => added # {}
    BY <1>1, <1>2, <1>11 DEF Twice
  <2>2. \A s \in Shown' \ table' : s \in elsewhere \/ added # {}
    BY <1>1, <1>9, <2>1 DEF Vanished
  <2>3. ASSUME fetch # NoFetch, fetch.step = "count", r \in fetch.rows
        PROVE  added # {}
    <3>1. fetch.for = "reveal" /\ view.more = {}
      BY <1>1, <1>3, <2>3, ListFields DEF Matching
    <3>2. r \in view.first
      BY <1>1, <1>2, <3>1
    <3> QED  BY <1>1, <1>2, <1>11, <2>3, <3>1, <3>2 DEF Twice, Revealing
  <2>4. fetch # NoFetch /\ fetch.step = "count" =>
          \A s \in fetch.rows \ table' : s \in elsewhere \/ added # {}
    BY <1>1, <2>3 DEF Vanished
  <2> QED  BY <1>1, <2>2, <2>4 DEF Vanished
<1> QED  BY <1>5, <1>6, <1>7, <1>8, <1>10, <1>12, <1>13, <1>14

(***************************************************************************)
(* The theorems.                                                           *)
(***************************************************************************)

LEMMA ListStarts ==
  ASSUME ListInit
  PROVE  ListInv
PROOF
<1>1. PICK n \in Rows : table = {r \in Rows : r <= n} /\ created = n
  BY DEF ListInit
<1>2. /\ view = NoView /\ fetch = NoFetch /\ listed = {} /\ added = {} /\ removed = {}
      /\ elsewhere = {} /\ tieOrder = FALSE /\ listFaults = 0
  BY DEF ListInit
<1>3. ListTypeOK
  BY <1>1, <1>2, RowsCounted DEF ListTypeOK
<1>4. /\ Matching /\ (Opened => History) /\ FetchRead /\ ViewRead /\ Loaded /\ Twice /\ Vanished
  BY <1>2 DEF Matching, Opened, FetchRead, ViewRead, Loaded, Twice, Vanished, Shown
<1> QED  BY <1>3, <1>4 DEF ListInv

LEMMA ListStutters ==
  ASSUME ListInv, UNCHANGED listVars
  PROVE  ListInv'
PROOF
<1> USE DEF ListInv, listVars
<1>1. ListTypeOK' /\ Matching' /\ (Opened' => History')
  BY DEF ListTypeOK, Matching, Opened, History
<1>2. FetchRead' /\ ViewRead' /\ Loaded' /\ Twice'
  BY <1>1, Bystander
<1>3. Vanished'
  BY DEF Vanished, Shown
<1> QED  BY <1>1, <1>2, <1>3

LEMMA ListSteps ==
  ASSUME Cardinality(Rows) <= OffsetRange, ListInv, [ListNext]_listVars
  PROVE  ListInv'
BY InsertKeeps, RemoveElsewhereKeeps, OpenPageKeeps, QueryRowsKeeps, FetchFailsKeeps,
   RenderPageKeeps, AppendRowsKeeps, ReplaceRowsKeeps, RevealKeeps, PollKeeps,
   DeleteRowKeeps, StrayKeeps, ListStutters DEF ListNext

LEMMA ListInvExplains ==
  ASSUME ListInv
  PROVE  MissingRowsExplained
PROOF
<1> USE DEF ListInv
<1> SUFFICES ASSUME Idle, ~view.sentinel
             PROVE  /\ \A r \in listed \ (removed \cup Shown) :
                         Passed(r) \/ Tied(r) \/ view.failed \/ view.kind = "events"
                    /\ \A r \in view.first \ added :
                         \/ PlaceIn(view.kind, tieOrder, listed, r)
                              > (view.page - 1) * SizeOf(view.kind)
                         \/ (view.page - 1) * SizeOf(view.kind) >= OffsetRange
                    /\ \A r \in view.first \cap view.more : added # {} \/ Tied(r)
                    /\ \A r \in Shown \ table : r \in elsewhere \/ added # {}
  BY DEF MissingRowsExplained
<1>1. view # NoView /\ fetch = NoFetch
  BY DEF Idle
<1>2. \A r \in listed \ (removed \cup Shown) :
        Passed(r) \/ Tied(r) \/ view.failed \/ view.kind = "events"
  BY <1>1 DEF Loaded, Revealing, Settled
<1>3. /\ view.kind \in ListKinds /\ view.page \in Nat \ {0} /\ tieOrder \in BOOLEAN
      /\ view.first \in SUBSET Rows /\ listed \in SUBSET Rows /\ added \in SUBSET Rows
      /\ view.polls \in BOOLEAN
  BY <1>1, ListFields DEF Matching
<1>4. (view.page - 1) * SizeOf(view.kind) \in Nat /\ OffsetRange \in Nat
  BY <1>3, Offsets
<1>5. ASSUME NEW r \in view.first \ added
      PROVE  \/ PlaceIn(view.kind, tieOrder, listed, r) > (view.page - 1) * SizeOf(view.kind)
             \/ (view.page - 1) * SizeOf(view.kind) >= OffsetRange
  <2>1. CASE ~view.polls
    <3>1. \/ PlaceIn(view.kind, tieOrder, listed, r) > (view.page - 1) * SizeOf(view.kind)
          \/ OffsetRange <= (view.page - 1) * SizeOf(view.kind)
      BY <1>1, <2>1 DEF ViewRead, FirstRead, RowPlace
    <3> QED  BY <1>4, <3>1
  <2>2. CASE view.polls
    <3>1. view.page = 1 /\ r \in listed /\ r \in Rows
      BY <1>1, <1>3, <2>2 DEF Matching, ViewRead, Shown
    <3>2. (view.page - 1) * SizeOf(view.kind) = 0
      BY <1>3, <3>1, Kinds
    <3>3. /\ PlaceIn(view.kind, tieOrder, listed, r) \in Nat
          /\ 1 <= PlaceIn(view.kind, tieOrder, listed, r)
      BY <1>3, <3>1, PlaceTyped
    <3> QED  BY <3>2, <3>3
  <2> QED  BY <1>3, <2>1, <2>2
<1>6. \A r \in view.first \cap view.more : added # {} \/ Tied(r)
  BY <1>1 DEF Twice
<1>7. \A r \in Shown \ table : r \in elsewhere \/ added # {}
  BY DEF Vanished
<1> QED  BY <1>2, <1>5, <1>6, <1>7

\* The page, its request and the rows keep their types, whatever is opened, loaded
\* and deleted.
THEOREM ListTyped ==
  ASSUME Cardinality(Rows) <= OffsetRange
  PROVE  ListSpec => []ListTypeOK
PROOF
<1>1. ListInit => ListInv
  BY ListStarts
<1>2. ListInv /\ [ListNext]_listVars => ListInv'
  BY ListSteps
<1>3. ListInv => ListTypeOK
  BY DEF ListInv
<1> QED  BY <1>1, <1>2, <1>3, PTL DEF ListSpec

\* A page that has loaded what it will load shows every row its list had when it
\* was opened, but those the offset passes by as rows come and go, those of a
\* period billed twice, and those of a list whose request failed; it shows no row
\* of an earlier page unless the offset wrapped, no row twice unless rows came or
\* tie, and no deleted row unless another client deleted it or it was shown twice:
\* the handlers of the list pages, as long as a tenant has at most as many rows as
\* an int32 offset counts.
THEOREM MissingRows ==
  ASSUME Cardinality(Rows) <= OffsetRange
  PROVE  ListSpec => []MissingRowsExplained
PROOF
<1>1. ListInit => ListInv
  BY ListStarts
<1>2. ListInv /\ [ListNext]_listVars => ListInv'
  BY ListSteps
<1>3. ListInv => MissingRowsExplained
  BY ListInvExplains
<1> QED  BY <1>1, <1>2, <1>3, PTL DEF ListSpec

(***************************************************************************)
(* Pages and their controls.                                               *)
(***************************************************************************)

SourceTable == Id("sources-table-body")
GenerateBody == Id("gen-form-body")
Activity == Id("gen-activity")

\* Pages a link or a redirect leads to: those of the application, and those of
\* an item that exists or did.
OpenPages ==
  {"/login", "/register", "/select-tenant", "/", "/dashboard", "/sources", "/sources/new",
   "/reports", "/schedules", "/schedules/new", "/usage", "/invoices", "/settings"}

ItemPages ==
  {"/sources/:id", "/sources/:id/edit", "/reports/:id", "/invoices/:id",
   "/schedules/:id/edit"}

Reachable(place, known) ==
  /\ place = Place(place.route, place.item)
  /\ place.route \in OpenPages \cup ItemPages
  /\ place.route \in ItemPages => place.item \in known

\* What htmx gets with GET, and where it goes.
Loads ==
  {<<"/sources", SourceTable>>, <<"/reports", Id("reports-body")>>,
   <<"/invoices", Id("invoices-body")>>, <<"/usage/summary", Id("usage-summary")>>,
   <<"/usage/events", Id("usage-events-body")>>, <<"/reports/activity", Own>>}

\* A link leads to a page; a target is the control's own element, one of its
\* ids, or what the element lies in.
LinkSound(c, known) == c.verb = "GET" /\ Reachable(Place(c.route, c.item), known)

TargetSound(e, c) ==
  /\ c.target \in (e.ids \cup {e.within}) \ {Body}
  /\ c.swap \in {"innerHTML", "beforeend"}
  /\ c.target = GenerateBody => c.route = "/reports/generate"

ControlSound(e, c, known) ==
  /\ <<c.verb, c.route>> \in Routes
  /\ c.verb # "GET" => c.token
  /\ c.target = Browser => LinkSound(c, known)
  /\ c.target \notin {Own, Browser} => TargetSound(e, c)
  /\ c.target # Browser /\ c.verb = "GET" => <<c.route, c.target>> \in Loads
  /\ c.target # Browser /\ c.route = "/reports/activity" => e.within = Body

ActsOutside(e) == \A c \in e.controls : c.target # Own

\* Elements with ids lie in the page or in the table of the sources; the two that
\* others lie in lie in the page, and no control of theirs replaces them.
ElementSound(e, known) ==
  /\ e = Element(e.part, e.within, e.ids, e.controls)
  /\ Body \notin e.ids /\ e.within \notin e.ids
  /\ e.ids # {} => e.within \in {Body, SourceTable}
  /\ e.ids \cap {SourceTable, GenerateBody} # {} => e.within = Body /\ ActsOutside(e)
  /\ \A c \in e.controls : ControlSound(e, c, known)

Rooted(elements) == \A e \in elements : e.within \in IdsOn(elements)

HoldsForm(e) ==
  /\ e.within \in {Body, GenerateBody} /\ ActsOutside(e)
  /\ \E c \in e.controls : c.verb \in {"POST", "PUT"}

\* A whole page, as a handler answers it.
PageSound(route, elements, known) ==
  /\ \A e \in elements : ElementSound(e, known)
  /\ Rooted(elements)
  /\ route \in FormPages => \E e \in elements : HoldsForm(e)

ScreenInv ==
  /\ screen = [at |-> screen.at, elements |-> screen.elements]
  /\ Reachable(screen.at, used)
  /\ \A e \in screen.elements : ElementSound(e, used)
  /\ Rooted(screen.elements)
  /\ screen.at.route \in FormPages =>
       generated \/ \E e \in screen.elements : HoldsForm(e)

\* A navigation was not refused more often than requests failed, or it is back at
\* the page it came from and was refused once more, or that page is gone.
GoingInv ==
  going # Nowhere =>
    /\ going = [to |-> going.to, from |-> screen.at, detours |-> going.detours]
    /\ Reachable(going.to, used) /\ going.detours \in 0 .. MaxDetours
    /\ \/ going.detours <= pageFaults
       \/ going.to = going.from /\ going.detours <= 1 + pageFaults
       \/ going.from.item \in used \ present

PagesInv ==
  /\ present \subseteq used /\ used \subseteq Items
  /\ account \in AccountKinds
  /\ generated \in BOOLEAN /\ nested = FALSE /\ pageFaults \in Nat
  /\ ScreenInv /\ GoingInv

(***************************************************************************)
(* Controls and elements.                                                  *)
(***************************************************************************)

LEMMA ElementFields ==
  ASSUME NEW part, NEW within, NEW ids, NEW controls
  PROVE  /\ Element(part, within, ids, controls).within = within
         /\ Element(part, within, ids, controls).ids = ids
         /\ Element(part, within, ids, controls).controls = controls
         /\ Element(part, within, ids, controls).part = part
         /\ \A into : [Element(part, within, ids, controls) EXCEPT !.within = into]
                       = Element(part, into, ids, controls)
BY DEF Element

LEMMA PlaceFields ==
  ASSUME NEW route, NEW item
  PROVE  /\ Place(route, item).route = route /\ Place(route, item).item = item
         /\ Place(route, item) = Place(Place(route, item).route, Place(route, item).item)
BY DEF Place

\* Ids differ when their names do.
LEMMA IdsDiffer ==
  /\ \A a, b : Id(a) = Id(b) => a = b
  /\ \A a, s : Id(a) = <<"source-status", s>> => a = "source-status"
  /\ Body # Browser /\ Body # Own /\ Browser # Own
  /\ SourceTable \notin {Body, Browser, Own, GenerateBody}
  /\ GenerateBody \notin {Body, Browser, Own}
BY DEF Id, Body, Browser, Own, SourceTable, GenerateBody

LEMMA PageRoutes ==
  /\ \A route \in OpenPages \cup ItemPages : <<"GET", route>> \in Routes
  /\ OpenPages \cap ItemPages = {}
PROOF
<1>1. \A route \in OpenPages : <<"GET", route>> \in Routes
  BY DEF OpenPages, Routes, AuthRoutes, SourcesRoutes, ReportsRoutes, SchedulesRoutes,
         UsageRoutes, InvoicesRoutes, SettingsRoutes
<1>2. \A route \in ItemPages : <<"GET", route>> \in Routes
  BY DEF ItemPages, Routes, SourcesRoutes, ReportsRoutes, SchedulesRoutes, InvoicesRoutes
<1>3. OpenPages \cap ItemPages = {}
  BY DEF OpenPages, ItemPages
<1> QED  BY <1>1, <1>2, <1>3

LEMMA OpenLinkSound ==
  ASSUME NEW e, NEW known, NEW route \in OpenPages
  PROVE  /\ ControlSound(e, Link(route), known) /\ Link(route).target = Browser
PROOF
<1>1. Link(route) = Control("GET", route, NoItem, FALSE, Browser, "page")
  BY DEF Link, LinkTo
<1>2. Reachable(Place(route, NoItem), known)
  BY PlaceFields, PageRoutes DEF Reachable
<1> PICK c : c = Link(route)
  OBVIOUS
<1>3. /\ c.verb = "GET" /\ c.route = route /\ c.item = NoItem /\ c.target = Browser
  BY <1>1 DEF Control
<1>4. <<"GET", route>> \in Routes
  BY PageRoutes
<1>5. ControlSound(e, c, known)
  BY <1>2, <1>3, <1>4 DEF ControlSound, LinkSound
<1> QED  BY <1>3, <1>5

LEMMA ItemLinkSound ==
  ASSUME NEW e, NEW known, NEW route \in ItemPages, NEW item \in known
  PROVE  /\ ControlSound(e, LinkTo(route, item), known)
         /\ LinkTo(route, item).target = Browser
PROOF
<1>1. LinkTo(route, item) = Control("GET", route, item, FALSE, Browser, "page")
  BY DEF LinkTo
<1>2. Reachable(Place(route, item), known)
  BY PlaceFields DEF Reachable
<1> PICK c : c = LinkTo(route, item)
  OBVIOUS
<1>3. /\ c.verb = "GET" /\ c.route = route /\ c.item = item /\ c.target = Browser
  BY <1>1 DEF Control
<1>4. <<"GET", route>> \in Routes
  BY PageRoutes
<1>5. ControlSound(e, c, known)
  BY <1>2, <1>3, <1>4 DEF ControlSound, LinkSound
<1> QED  BY <1>3, <1>5

LEMMA FormIsSound ==
  ASSUME NEW e, NEW known, NEW verb, verb # "GET", NEW route, <<verb, route>> \in Routes,
         route # "/reports/activity", NEW item, NEW target \in e.ids \cup {e.within},
         target \notin {Body, Own, Browser},
         target = GenerateBody => route = "/reports/generate"
  PROVE  /\ ControlSound(e, Form(verb, route, item, target), known)
         /\ Form(verb, route, item, target).target # Own
         /\ Form(verb, route, item, target).verb = verb
PROOF
<1>1. Form(verb, route, item, target)
        = Control(verb, route, item, TRUE, target, "innerHTML")
  BY DEF Form
<1> PICK c : c = Form(verb, route, item, target)
  OBVIOUS
<1>2. /\ c.verb = verb /\ c.route = route /\ c.token = TRUE /\ c.target = target
      /\ c.swap = "innerHTML"
  BY <1>1 DEF Control
<1>3. ControlSound(e, c, known)
  BY <1>2 DEF ControlSound, TargetSound
<1> QED  BY <1>2, <1>3

LEMMA RowButtonSound ==
  ASSUME NEW e, NEW known, NEW verb, verb # "GET", NEW route, <<verb, route>> \in Routes,
         route # "/reports/activity", NEW item
  PROVE  ControlSound(e, RowButton(verb, route, item), known)
PROOF
<1>1. RowButton(verb, route, item)
        = Control(verb, route, item, TRUE, Own, "outerHTML")
  BY DEF RowButton
<1> PICK c : c = RowButton(verb, route, item)
  OBVIOUS
<1>2. /\ c.verb = verb /\ c.route = route /\ c.token = TRUE /\ c.target = Own
  BY <1>1 DEF Control
<1>3. ControlSound(e, c, known)
  BY <1>2, IdsDiffer DEF ControlSound
<1> QED  BY <1>3

LEMMA LoadSound ==
  ASSUME NEW e, NEW known, NEW route, <<"GET", route>> \in Routes,
         NEW target \in e.ids \ {Body, Own, Browser, GenerateBody},
         <<route, target>> \in Loads, NEW swap \in {"innerHTML", "beforeend"}
  PROVE  /\ ControlSound(e, Load(route, target, swap), known)
         /\ Load(route, target, swap).target # Own
PROOF
<1>1. Load(route, target, swap) = Control("GET", route, NoItem, FALSE, target, swap)
  BY DEF Load
<1>2. route # "/reports/activity"
  BY DEF Loads
<1> PICK c : c = Load(route, target, swap)
  OBVIOUS
<1>3. /\ c.verb = "GET" /\ c.route = route /\ c.target = target /\ c.swap = swap
  BY <1>1 DEF Control
<1>4. ControlSound(e, c, known)
  BY <1>2, <1>3 DEF ControlSound, TargetSound
<1> QED  BY <1>3, <1>4

\* A place stays reachable, and an element sound, as items are added.
LEMMA KnownGrows ==
  ASSUME NEW known, NEW more, known \subseteq more
  PROVE  /\ \A place : Reachable(place, known) => Reachable(place, more)
         /\ \A e : ElementSound(e, known) => ElementSound(e, more)
BY DEF Reachable, ElementSound, ControlSound, LinkSound

(***************************************************************************)
(* What a swap leaves is sound and rooted: the elements with ids lie two   *)
(* deep, so that what remains has what it lies in, and what an answer      *)
(* brings has the target it was swapped into.                              *)
(***************************************************************************)

\* The part of the page an answer goes into, and the elements it replaces.
Into(e, c) == IF c.target = Own THEN e.within ELSE c.target

Out(elements, e, c) ==
  CASE c.target = Own -> {e}
    [] c.target # Own /\ c.swap = "innerHTML" -> {x \in elements : x.within = c.target}
    [] c.target # Own /\ c.swap = "beforeend" -> {}

With(elements, out) ==
  out \cup {x \in elements : x.within \in UNION {y.ids : y \in out}}

LEMMA OutSound ==
  ASSUME NEW elements, NEW known, \A x \in elements : ElementSound(x, known),
         Rooted(elements), NEW e \in elements, NEW c \in e.controls, c.target # Browser,
         c.target = Own \/ c.target \in IdsOn(elements)
  PROVE  /\ Into(e, c) \in IdsOn(elements)
         /\ \A y \in Out(elements, e, c) :
              /\ y \in elements /\ Into(e, c) \notin y.ids
              /\ y.within # Body \/ ~ActsOutside(y)
              /\ ActsOutside(y) => y.within = c.target
PROOF
<1>1. ElementSound(e, known) /\ ControlSound(e, c, known)
  BY DEF ElementSound
<1>2. CASE c.target = Own
  <2>1. Into(e, c) = e.within /\ Out(elements, e, c) = {e}
    BY <1>2 DEF Into, Out
  <2>2. ~ActsOutside(e)
    BY <1>2 DEF ActsOutside
  <2> QED  BY <1>1, <2>1, <2>2 DEF Rooted, ElementSound
<1>3. CASE c.target # Own
  <2>1. Into(e, c) = c.target /\ TargetSound(e, c)
    BY <1>1, <1>3 DEF Into, ControlSound
  <2>2. \/ Out(elements, e, c) = {x \in elements : x.within = c.target}
        \/ Out(elements, e, c) = {}
    BY <1>3, <2>1 DEF Out, TargetSound
  <2>3. c.target # Body
    BY <2>1 DEF TargetSound
  <2>4. \A y \in Out(elements, e, c) : y \in elements /\ y.within = c.target
    BY <2>2
  <2>5. \A y \in elements : y.within \notin y.ids
    BY DEF ElementSound
  <2> QED  BY <1>3, <2>1, <2>3, <2>4, <2>5
<1> QED  BY <1>2, <1>3

\* An id that is gone was that of an element that was replaced itself.
LEMMA GoneIds ==
  ASSUME NEW elements, NEW known, \A x \in elements : ElementSound(x, known),
         NEW out, out \subseteq elements,
         \A y \in out : y.within # Body \/ ~ActsOutside(y),
         NEW id \in IdsOn(elements), \A y \in out : id \notin y.ids
  PROVE  id \in IdsOn(elements \ With(elements, out))
PROOF
<1>1. CASE id = Body
  BY <1>1 DEF IdsOn
<1>2. CASE id # Body
  <2>1. PICK z \in elements : id \in z.ids
    BY <1>2 DEF IdsOn
  <2>2. SUFFICES ASSUME z \in With(elements, out) PROVE FALSE
    BY <2>1 DEF IdsOn
  <2>3. PICK y \in out : z.within \in y.ids
    BY <2>1, <2>2 DEF With
  <2>4. y \in elements /\ ElementSound(y, known) /\ ElementSound(z, known)
    BY <2>1, <2>3
  <2>5. z.within = SourceTable
    BY <2>1, <2>3, <2>4 DEF ElementSound
  <2>6. y.within = Body /\ ActsOutside(y)
    BY <2>3, <2>4, <2>5 DEF ElementSound
  <2> QED  BY <2>3, <2>6
<1> QED  BY <1>1, <1>2

LEMMA SwapSound ==
  ASSUME NEW elements, NEW known, \A x \in elements : ElementSound(x, known),
         Rooted(elements), NEW e \in elements, NEW c \in e.controls, c.target # Browser,
         c.target = Own \/ c.target \in IdsOn(elements),
         NEW brought, \A x \in brought : x.within = Into(e, c)
  PROVE  /\ Rooted((elements \ With(elements, Out(elements, e, c))) \cup brought)
         /\ \A x \in elements :
              HoldsForm(x) /\ c.target # GenerateBody =>
                x \notin With(elements, Out(elements, e, c))
PROOF
<1> PICK out : out = Out(elements, e, c)
  OBVIOUS
<1>1. /\ Into(e, c) \in IdsOn(elements) /\ out \subseteq elements
      /\ \A y \in out : Into(e, c) \notin y.ids
      /\ \A y \in out : y.within # Body \/ ~ActsOutside(y)
      /\ \A y \in out : ActsOutside(y) => y.within = c.target
  BY OutSound
<1> PICK kept : kept = elements \ With(elements, out)
  OBVIOUS
<1>2. \A id \in IdsOn(elements) : (\A y \in out : id \notin y.ids) => id \in IdsOn(kept)
  BY <1>1, GoneIds
<1>3. IdsOn(kept) \subseteq IdsOn(kept \cup brought)
  BY DEF IdsOn
<1>4. \A x \in kept : x.within \in IdsOn(kept)
  <2> SUFFICES ASSUME NEW x \in kept PROVE x.within \in IdsOn(kept)
    OBVIOUS
  <2>1. x \in elements /\ \A y \in out : x.within \notin y.ids
    BY DEF With
  <2>2. x.within \in IdsOn(elements)
    BY <2>1 DEF Rooted
  <2> QED  BY <1>2, <2>1, <2>2
<1>5. Into(e, c) \in IdsOn(kept)
  BY <1>1, <1>2
<1>6. Rooted(kept \cup brought)
  BY <1>3, <1>4, <1>5 DEF Rooted
<1>7. ASSUME NEW x \in elements, HoldsForm(x), c.target # GenerateBody,
             x \in With(elements, out)
      PROVE  FALSE
  <2>1. x.within \in {Body, GenerateBody} /\ ActsOutside(x)
    BY <1>7 DEF HoldsForm
  <2>2. x \notin out
    BY <1>1, <1>7, <2>1
  <2>3. PICK y \in out : x.within \in y.ids
    BY <1>7, <2>2 DEF With
  <2>4. y \in elements /\ ElementSound(y, known)
    BY <1>1, <2>3
  <2>5. y.within = Body /\ ActsOutside(y)
    BY <2>1, <2>3, <2>4 DEF ElementSound
  <2> QED  BY <1>1, <2>3, <2>5
<1> QED  BY <1>6, <1>7

\* What an answer to htmx brings: elements without ids, whose controls are links
\* and buttons of their own; or rows of sources, for their table; or the activity.
Loose(e, known) ==
  /\ e = Element(e.part, e.within, e.ids, e.controls) /\ e.ids = {}
  /\ \A c \in e.controls :
       /\ ControlSound(e, c, known) /\ c.target \in {Own, Browser}
       /\ c.verb # "GET" \/ c.target = Browser

Brought(verb, route, e, known) ==
  \/ Loose(e, known)
  \/ verb = "GET" /\ route = "/sources" /\ \E s \in known : e = SourceRow(s)
  \/ route = "/reports/activity" /\ e = GenerationActivityCard

LEMMA ActivityRoute ==
  \A verb : <<verb, "/reports/activity">> \in Routes => verb = "GET"
BY DEF Routes, AuthRoutes, SourcesRoutes, ReportsRoutes, SchedulesRoutes, UsageRoutes,
       InvoicesRoutes, SettingsRoutes

LEMMA LooseSound ==
  ASSUME NEW e, NEW known, Loose(e, known), NEW into
  PROVE  /\ ElementSound([e EXCEPT !.within = into], known)
         /\ [e EXCEPT !.within = into].within = into
PROOF
<1> PICK x : x = [e EXCEPT !.within = into]
  OBVIOUS
<1>1. e = Element(e.part, e.within, e.ids, e.controls)
  BY DEF Loose
<1>2. x = Element(e.part, into, e.ids, e.controls)
  BY <1>1, ElementFields
<1>3. /\ x.part = e.part /\ x.within = into /\ x.ids = {} /\ x.controls = e.controls
      /\ x = Element(x.part, x.within, x.ids, x.controls)
  BY <1>2, ElementFields DEF Loose
<1>4. ASSUME NEW c \in x.controls PROVE ControlSound(x, c, known)
  <2>1. /\ ControlSound(e, c, known) /\ c.target \in {Own, Browser}
        /\ c.verb # "GET" \/ c.target = Browser
    BY <1>3 DEF Loose
  <2>2. c.target # Browser => c.route # "/reports/activity"
    BY <2>1, ActivityRoute DEF ControlSound
  <2> QED  BY <2>1, <2>2 DEF ControlSound
<1>5. ElementSound(x, known)
  BY <1>3, <1>4 DEF ElementSound
<1> QED  BY <1>3, <1>5

\* A row of a source: its status lies in it, and its forms show theirs there.
LEMMA SourceRowSound ==
  ASSUME NEW known, NEW s \in known
  PROVE  /\ ElementSound(SourceRow(s), known)
         /\ SourceRow(s).within = SourceTable /\ SourceRow(s).ids = {<<"source-status", s>>}
         /\ [SourceRow(s) EXCEPT !.within = SourceTable] = SourceRow(s)
PROOF
<1> DEFINE status == <<"source-status", s>>
           controls == {LinkTo("/sources/:id", s), LinkTo("/sources/:id/edit", s),
                        Form("POST", "/sources/:id/test", s, status),
                        Form("POST", "/sources/:id/sync", s, status),
                        RowButton("DELETE", "/sources/:id", s)}
<1> PICK e : e = SourceRow(s)
  OBVIOUS
<1>1. e = Element("SourceRow", SourceTable, {status}, controls)
  BY DEF SourceRow, SourceTable
<1>2. status \notin {Body, Browser, Own, SourceTable, GenerateBody}
  BY DEF Id, Body, Browser, Own, SourceTable, GenerateBody
<1>3. {<<"POST", "/sources/:id/test">>, <<"POST", "/sources/:id/sync">>,
       <<"DELETE", "/sources/:id">>} \subseteq Routes
  BY DEF Routes, SourcesRoutes
<1> HIDE DEF status
<1>4. /\ e.within = SourceTable /\ e.ids = {status} /\ e.controls = controls
      /\ e = Element(e.part, e.within, e.ids, e.controls)
      /\ [e EXCEPT !.within = SourceTable] = e
  BY <1>1 DEF Element
<1>5. ControlSound(e, LinkTo("/sources/:id", s), known)
  BY ItemLinkSound DEF ItemPages
<1>6. ControlSound(e, LinkTo("/sources/:id/edit", s), known)
  BY ItemLinkSound DEF ItemPages
<1>7. ControlSound(e, Form("POST", "/sources/:id/test", s, status), known)
  BY <1>2, <1>3, <1>4, FormIsSound
<1>8. ControlSound(e, Form("POST", "/sources/:id/sync", s, status), known)
  BY <1>2, <1>3, <1>4, FormIsSound
<1>9. ControlSound(e, RowButton("DELETE", "/sources/:id", s), known)
  BY <1>3, RowButtonSound
<1>10. \A c \in controls : ControlSound(e, c, known)
  BY <1>5, <1>6, <1>7, <1>8, <1>9
<1> HIDE DEF controls
<1>11. ElementSound(e, known)
  BY <1>2, <1>4, <1>10, IdsDiffer DEF ElementSound
<1> QED  BY <1>4, <1>11 DEF status

LEMMA ActivitySound ==
  ASSUME NEW known
  PROVE  /\ ElementSound(GenerationActivityCard, known)
         /\ GenerationActivityCard.within = Body
         /\ GenerationActivityCard.ids = {Activity}
         /\ [GenerationActivityCard EXCEPT !.within = Body] = GenerationActivityCard
PROOF
<1> PICK e : e = GenerationActivityCard
  OBVIOUS
<1> PICK c : c = Load("/reports/activity", Own, "outerHTML")
  OBVIOUS
<1>1. e = Element("GenerationActivityCard", Body, {Activity}, {c})
  BY DEF GenerationActivityCard, Activity
<1>2. /\ e.within = Body /\ e.ids = {Activity} /\ e.controls = {c}
      /\ e = Element(e.part, e.within, e.ids, e.controls)
      /\ [e EXCEPT !.within = Body] = e
  BY <1>1 DEF Element
<1>3. c.verb = "GET" /\ c.route = "/reports/activity" /\ c.target = Own
  BY DEF Load, Control
<1>4. <<"GET", "/reports/activity">> \in Routes /\ <<"/reports/activity", Own>> \in Loads
  BY DEF Routes, ReportsRoutes, Loads
<1>5. ControlSound(e, c, known)
  BY <1>2, <1>3, <1>4, IdsDiffer DEF ControlSound
<1>6. Activity \notin {Body, SourceTable, GenerateBody}
  BY DEF Activity, Id, Body, SourceTable, GenerateBody
<1>7. ElementSound(e, known)
  BY <1>2, <1>5, <1>6 DEF ElementSound
<1> QED  BY <1>2, <1>7

LEMMA BroughtSound ==
  ASSUME NEW e, NEW known, NEW c \in e.controls, ControlSound(e, c, known),
         c.target # Browser, NEW more, NEW x, Brought(c.verb, c.route, x, more)
  PROVE  /\ ElementSound([x EXCEPT !.within = Into(e, c)], more)
         /\ [x EXCEPT !.within = Into(e, c)].within = Into(e, c)
PROOF
<1>1. CASE Loose(x, more)
  BY <1>1, LooseSound
<1>2. CASE c.verb = "GET" /\ c.route = "/sources" /\ \E s \in more : x = SourceRow(s)
  <2>1. <<c.route, c.target>> \in Loads
    BY <1>2 DEF ControlSound
  <2>2. c.target = SourceTable
    BY <1>2, <2>1 DEF Loads
  <2>3. Into(e, c) = SourceTable
    BY <2>2, IdsDiffer DEF Into
  <2> QED  BY <1>2, <2>3, SourceRowSound
<1>3. CASE c.route = "/reports/activity" /\ x = GenerationActivityCard
  <2>1. e.within = Body /\ c.verb = "GET"
    BY <1>3, ActivityRoute DEF ControlSound
  <2>2. <<c.route, c.target>> \in Loads
    BY <2>1 DEF ControlSound
  <2>3. c.target = Own
    BY <1>3, <2>2 DEF Loads
  <2>4. Into(e, c) = Body
    BY <2>1, <2>3 DEF Into
  <2> QED  BY <1>3, <2>4, ActivitySound
<1> QED  BY <1>1, <1>2, <1>3 DEF Brought

(***************************************************************************)
(* The pages.                                                              *)
(***************************************************************************)

\* The elements of a page that links and forms are made of.
LinkHere(c) == \E route \in OpenPages : c = Link(route)

FormHere(c, id) ==
  \E verb \in {"POST", "PUT"} : \E route, item :
    <<verb, route>> \in Routes /\ c = Form(verb, route, item, id)

LEMMA LinksSound ==
  ASSUME NEW part, NEW controls, \A c \in controls : LinkHere(c), NEW known,
         NEW e, e = Element(part, Body, {}, controls)
  PROVE  ElementSound(e, known) /\ e.within = Body /\ e.ids = {}
PROOF
<1>1. /\ e.within = Body /\ e.ids = {} /\ e.controls = controls
      /\ e = Element(e.part, e.within, e.ids, e.controls)
  BY ElementFields
<1>2. \A c \in controls : ControlSound(e, c, known)
  BY OpenLinkSound DEF LinkHere
<1> QED  BY <1>1, <1>2 DEF ElementSound

LEMMA SectionSound ==
  ASSUME NEW id, id \notin {Body, Own, Browser, SourceTable, GenerateBody}, NEW known,
         NEW e, e = Element(e.part, e.within, e.ids, e.controls),
         e.within = Body, e.ids = {id},
         \A c \in e.controls : LinkHere(c) \/ FormHere(c, id)
  PROVE  /\ ElementSound(e, known)
         /\ (\E c \in e.controls : FormHere(c, id)) => HoldsForm(e)
PROOF
<1> PICK controls : controls = e.controls
  OBVIOUS
<1>1. /\ e.within = Body /\ e.ids = {id} /\ e.controls = controls
      /\ e = Element(e.part, e.within, e.ids, e.controls)
  OBVIOUS
<1>2. ASSUME NEW c \in controls, LinkHere(c)
      PROVE  ControlSound(e, c, known) /\ c.target # Own
  BY <1>2, OpenLinkSound, IdsDiffer DEF LinkHere
<1>3. ASSUME NEW c \in controls, FormHere(c, id)
      PROVE  /\ ControlSound(e, c, known) /\ c.target # Own
             /\ c.verb \in {"POST", "PUT"}
  <2>1. PICK verb \in {"POST", "PUT"} : \E route, item :
               <<verb, route>> \in Routes /\ c = Form(verb, route, item, id)
    BY <1>3 DEF FormHere
  <2>2. PICK route, item : <<verb, route>> \in Routes /\ c = Form(verb, route, item, id)
    BY <2>1
  <2>3. verb # "GET" /\ route # "/reports/activity"
    BY <2>1, <2>2, ActivityRoute
  <2>4. id \in e.ids \cup {e.within}
    BY <1>1
  <2>5. /\ ControlSound(e, Form(verb, route, item, id), known)
        /\ Form(verb, route, item, id).target # Own
        /\ Form(verb, route, item, id).verb = verb
    BY <2>2, <2>3, <2>4, FormIsSound
  <2> QED  BY <2>1, <2>2, <2>5
<1>4. ActsOutside(e) /\ \A c \in controls : ControlSound(e, c, known)
  BY <1>1, <1>2, <1>3 DEF ActsOutside
<1>5. ElementSound(e, known)
  BY <1>1, <1>4 DEF ElementSound
<1>6. (\E c \in controls : FormHere(c, id)) => HoldsForm(e)
  BY <1>1, <1>3, <1>4 DEF HoldsForm
<1> QED  BY <1>1, <1>5, <1>6

LEMMA NavbarSound ==
  ASSUME NEW known
  PROVE  ElementSound(Navbar, known) /\ Navbar.within = Body
PROOF
<1>1. {"/", "/dashboard", "/sources", "/reports", "/schedules",
       "/usage", "/invoices", "/settings"} \subseteq OpenPages
  BY DEF OpenPages
<1> DEFINE controls == {Link(r) : r \in {"/", "/dashboard", "/sources", "/reports",
                                        "/schedules", "/usage", "/invoices", "/settings"}}
<1>2. \A c \in controls : LinkHere(c)
  BY <1>1 DEF LinkHere
<1>3. Navbar = Element("Navbar", Body, {}, controls)
  BY DEF Navbar
<1> HIDE DEF controls
<1> QED  BY <1>2, <1>3, LinksSound

LEMMA BasePage ==
  ASSUME NEW route, NEW main, NEW known, PageSound(route, main, known)
  PROVE  PageSound(route, Base(main), known)
PROOF
<1>1. Base(main) = {Navbar} \cup main
  BY DEF Base
<1>2. \A e \in Base(main) : ElementSound(e, known)
  BY <1>1, NavbarSound DEF PageSound
<1>3. IdsOn(main) \subseteq IdsOn(Base(main)) /\ Body \in IdsOn(Base(main))
  BY <1>1 DEF IdsOn
<1>4. Rooted(Base(main))
  BY <1>1, <1>3, NavbarSound DEF Rooted, PageSound
<1> QED  BY <1>1, <1>2, <1>4 DEF PageSound

\* A page of elements that lie in its body.
LEMMA FlatPage ==
  ASSUME NEW elements, NEW known,
         \A e \in elements : ElementSound(e, known) /\ e.within = Body,
         NEW route, route \in FormPages => \E e \in elements : HoldsForm(e)
  PROVE  PageSound(route, elements, known)
BY DEF PageSound, Rooted, IdsOn

FormErrors ==
  {"login-error", "register-error", "tenant-error", "budget-form-error",
   "source-form-error", "schedule-form-error", "detail-status"}

LEMMA ErrorIds ==
  ASSUME NEW name \in FormErrors
  PROVE  Id(name) \notin {Body, Own, Browser, SourceTable, GenerateBody}
BY IdsDiffer DEF FormErrors, Body, Own, Browser, SourceTable, GenerateBody

LEMMA FormRoutes ==
  {<<"POST", "/login">>, <<"POST", "/register">>, <<"POST", "/select-tenant">>,
   <<"POST", "/create-tenant">>, <<"POST", "/logout">>, <<"POST", "/settings/budget">>,
   <<"POST", "/sources">>, <<"PUT", "/sources/:id">>, <<"POST", "/sources/:id/test">>,
   <<"POST", "/sources/:id/sync">>, <<"POST", "/schedules">>, <<"PUT", "/schedules/:id">>}
    \subseteq Routes
BY DEF Routes, AuthRoutes, SourcesRoutes, SchedulesRoutes, SettingsRoutes

\* A page that is one form.
LEMMA FormPage ==
  ASSUME NEW part, NEW name \in FormErrors, NEW controls,
         \A c \in controls : LinkHere(c) \/ FormHere(c, Id(name)),
         \E c \in controls : FormHere(c, Id(name)), NEW route, NEW known
  PROVE  PageSound(route, {Element(part, Body, {Id(name)}, controls)}, known)
PROOF
<1> PICK e : e = Element(part, Body, {Id(name)}, controls)
  OBVIOUS
<1>1. Id(name) \notin {Body, Own, Browser, SourceTable, GenerateBody}
  BY ErrorIds
<1> PICK id : id = Id(name)
  OBVIOUS
<1>2. /\ e.within = Body /\ e.ids = {id} /\ e.controls = controls
      /\ e = Element(e.part, e.within, e.ids, e.controls)
  BY ElementFields
<1>3. /\ ElementSound(e, known)
      /\ (\E c \in e.controls : FormHere(c, id)) => HoldsForm(e)
  <2>1. id \notin {Body, Own, Browser, SourceTable, GenerateBody}
    BY <1>1
  <2>2. \A c \in e.controls : LinkHere(c) \/ FormHere(c, id)
    BY <1>2
  <2> QED  BY <1>2, <2>1, <2>2, SectionSound
<1>4. HoldsForm(e) /\ e.within = Body
  BY <1>2, <1>3
<1> QED  BY <1>3, <1>4, FlatPage

LEMMA LoginPage ==
  ASSUME NEW known, NEW route PROVE PageSound(route, Login, known)
PROOF
<1> DEFINE controls == {Form("POST", "/login", NoItem, Id("login-error")), Link("/register")}
<1>1. /\ \A c \in controls : LinkHere(c) \/ FormHere(c, Id("login-error"))
      /\ \E c \in controls : FormHere(c, Id("login-error"))
  BY FormRoutes DEF LinkHere, FormHere, OpenPages
<1>2. Login = {Element("Login", Body, {Id("login-error")}, controls)}
  BY DEF Login, Auth
<1>3. "login-error" \in FormErrors
  BY DEF FormErrors
<1> HIDE DEF controls
<1> QED  BY <1>1, <1>2, <1>3, FormPage

LEMMA RegisterPage ==
  ASSUME NEW known, NEW route PROVE PageSound(route, Register, known)
PROOF
<1> DEFINE controls == {Form("POST", "/register", NoItem, Id("register-error")),
                        Link("/login")}
<1>1. /\ \A c \in controls : LinkHere(c) \/ FormHere(c, Id("register-error"))
      /\ \E c \in controls : FormHere(c, Id("register-error"))
  BY FormRoutes DEF LinkHere, FormHere, OpenPages
<1>2. Register = {Element("Register", Body, {Id("register-error")}, controls)}
  BY DEF Register, Auth
<1>3. "register-error" \in FormErrors
  BY DEF FormErrors
<1> HIDE DEF controls
<1> QED  BY <1>1, <1>2, <1>3, FormPage

LEMMA TenantsPage ==
  ASSUME NEW known, NEW route, NEW some \in BOOLEAN
  PROVE  PageSound(route, SelectTenant(some), known)
PROOF
<1> DEFINE routes == {"/create-tenant", "/logout"}
                       \cup (IF some THEN {"/select-tenant"} ELSE {})
           controls == {Form("POST", r, NoItem, Id("tenant-error")) : r \in routes}
<1>1. /\ \A r \in routes : <<"POST", r>> \in Routes
      /\ "/logout" \in routes
  BY FormRoutes
<1>2. SelectTenant(some)
        = {Element("SelectTenant", Body, {Id("tenant-error")}, controls)}
  BY DEF SelectTenant, Auth
<1>3. "tenant-error" \in FormErrors
  BY DEF FormErrors
<1> HIDE DEF routes
<1>4. /\ \A c \in controls : LinkHere(c) \/ FormHere(c, Id("tenant-error"))
      /\ \E c \in controls : FormHere(c, Id("tenant-error"))
  BY <1>1 DEF FormHere
<1> HIDE DEF controls
<1> QED  BY <1>2, <1>3, <1>4, FormPage

\* A page that only links.
LEMMA LinkPage ==
  ASSUME NEW part, NEW controls, \A c \in controls : LinkHere(c),
         NEW route, route \notin FormPages, NEW known
  PROVE  PageSound(route, {Element(part, Body, {}, controls)}, known)
PROOF
<1> PICK e : e = Element(part, Body, {}, controls)
  OBVIOUS
<1>1. ElementSound(e, known) /\ e.within = Body
  BY LinksSound
<1> QED  BY <1>1, FlatPage

LEMMA PlainPages ==
  ASSUME NEW known
  PROVE  /\ PageSound("/", Home, known)
         /\ PageSound("/dashboard", Dashboard, known)
         /\ PageSound("/reports/:id", ReportDetail, known)
         /\ PageSound("/invoices/:id", InvoiceDetail, known)
PROOF
<1>1. {"/", "/dashboard", "/reports/:id", "/invoices/:id"} \cap FormPages = {}
  BY DEF FormPages
<1>2. \A r \in {"/sources", "/reports", "/settings", "/invoices"} : LinkHere(Link(r))
  BY DEF LinkHere, OpenPages
<1>3. PageSound("/", Home, known)
  <2> DEFINE controls == {Link(r) : r \in {"/sources", "/reports", "/settings"}}
  <2>1. \A c \in controls : LinkHere(c)
    BY <1>2
  <2> HIDE DEF controls
  <2>2. PageSound("/", {Element("Home", Body, {}, controls)}, known)
    BY <1>1, <2>1, LinkPage
  <2> QED  BY <2>2, BasePage DEF Home, controls
<1>4. PageSound("/dashboard", Dashboard, known)
  <2> DEFINE controls == {Link("/reports"), Link("/sources")}
  <2>1. \A c \in controls : LinkHere(c)
    BY <1>2
  <2> HIDE DEF controls
  <2>2. PageSound("/dashboard", {Element("Dashboard", Body, {}, controls)}, known)
    BY <1>1, <2>1, LinkPage
  <2> QED  BY <2>2, BasePage DEF Dashboard, controls
<1>5. PageSound("/reports/:id", ReportDetail, known)
  <2>1. PageSound("/reports/:id", {Element("ReportDetail", Body, {}, {Link("/reports")})},
                  known)
    BY <1>1, <1>2, LinkPage
  <2> QED  BY <2>1, BasePage DEF ReportDetail
<1>6. PageSound("/invoices/:id", InvoiceDetail, known)
  <2>1. PageSound("/invoices/:id", {Element("InvoiceDetail", Body, {}, {Link("/invoices")})},
                  known)
    BY <1>1, <1>2, LinkPage
  <2> QED  BY <2>1, BasePage DEF InvoiceDetail
<1> QED  BY <1>3, <1>4, <1>5, <1>6

LEMMA SettingsPage ==
  ASSUME NEW known, NEW admin \in BOOLEAN
  PROVE  PageSound("/settings", Settings(admin), known)
PROOF
<1> DEFINE controls == {Form("POST", "/settings/budget", NoItem, Id("budget-form-error"))}
<1>1. PageSound("/settings",
                {Element("Settings", Body, {Id("budget-form-error")}, controls)}, known)
  <2>1. /\ \A c \in controls : LinkHere(c) \/ FormHere(c, Id("budget-form-error"))
        /\ \E c \in controls : FormHere(c, Id("budget-form-error"))
    BY FormRoutes DEF FormHere
  <2>2. "budget-form-error" \in FormErrors
    BY DEF FormErrors
  <2> HIDE DEF controls
  <2> QED  BY <2>1, <2>2, FormPage
<1>2. PageSound("/settings", {Element("Settings", Body, {}, {})}, known)
  <2>1. "/settings" \notin FormPages
    BY DEF FormPages
  <2> QED  BY <2>1, LinkPage
<1> DEFINE main == {IF admin THEN Element("Settings", Body, {Id("budget-form-error")}, controls)
                             ELSE Element("Settings", Body, {}, {})}
<1>3. PageSound("/settings", main, known)
  BY <1>1, <1>2
<1>4. Settings(admin) = Base(main)
  BY DEF Settings
<1> HIDE DEF main, controls
<1> QED  BY <1>3, <1>4, BasePage

\* Elements with an id of their own, that their controls load into.
LoadHere(c, id) ==
  \E route : \E swap \in {"innerHTML", "beforeend"} :
    /\ <<"GET", route>> \in Routes /\ <<route, id>> \in Loads
    /\ c = Load(route, id, swap)

LEMMA LoaderSound ==
  ASSUME NEW id, id \notin {Body, Own, Browser, GenerateBody}, NEW known,
         NEW e, e = Element(e.part, e.within, e.ids, e.controls),
         e.within = Body, e.ids = {id},
         \A c \in e.controls : LoadHere(c, id)
  PROVE  ElementSound(e, known)
PROOF
<1>1. ASSUME NEW c \in e.controls PROVE ControlSound(e, c, known) /\ c.target # Own
  <2>1. PICK route : \E swap \in {"innerHTML", "beforeend"} :
             /\ <<"GET", route>> \in Routes /\ <<route, id>> \in Loads
             /\ c = Load(route, id, swap)
    BY DEF LoadHere
  <2>2. PICK swap \in {"innerHTML", "beforeend"} :
             /\ <<"GET", route>> \in Routes /\ <<route, id>> \in Loads
             /\ c = Load(route, id, swap)
    BY <2>1
  <2>3. id \in e.ids \ {Body, Own, Browser, GenerateBody}
    OBVIOUS
  <2> QED  BY <2>2, <2>3, LoadSound
<1>2. ActsOutside(e)
  BY <1>1 DEF ActsOutside
<1> QED  BY <1>1, <1>2 DEF ElementSound

LEMMA UsagePage ==
  ASSUME NEW known PROVE PageSound("/usage", Usage(FALSE, FALSE), known)
PROOF
<1> PICK id : id = Id("usage-summary")
  OBVIOUS
<1> DEFINE controls == {Load("/usage/summary", id, "innerHTML")}
<1> PICK e : e = Element("Usage", Body, {id}, controls)
  OBVIOUS
<1>1. /\ e.within = Body /\ e.ids = {id} /\ e.controls = controls
      /\ e = Element(e.part, e.within, e.ids, e.controls)
  BY ElementFields
<1>2. id \notin {Body, Own, Browser, GenerateBody}
  BY DEF Id, Body, Own, Browser, GenerateBody
<1>3. <<"GET", "/usage/summary">> \in Routes /\ <<"/usage/summary", id>> \in Loads
  BY DEF Routes, UsageRoutes, Loads
<1>4. ElementSound(e, known)
  <2>1. \A c \in e.controls : LoadHere(c, id)
    BY <1>1, <1>3 DEF LoadHere
  <2> QED  BY <1>1, <1>2, <2>1, LoaderSound
<1>5. "/usage" \notin FormPages
  BY DEF FormPages
<1>6. PageSound("/usage", {e}, known)
  BY <1>1, <1>4, <1>5, FlatPage
<1>7. Usage(FALSE, FALSE) = Base({e})
  BY DEF Usage, UsageEventRowsFragment
<1> QED  BY <1>6, <1>7, BasePage, ZenonT(30)

\* A page with elements that lie in others of it.
LEMMA TablePage ==
  ASSUME NEW elements, NEW known,
         \A e \in elements : ElementSound(e, known),
         \A e \in elements : e.within = Body \/ \E y \in elements : e.within \in y.ids,
         NEW route, route \in FormPages => \E e \in elements : HoldsForm(e)
  PROVE  PageSound(route, elements, known)
BY DEF PageSound, Rooted, IdsOn

LEMMA SourcesPage ==
  ASSUME NEW known, NEW rows, rows \subseteq known, NEW more \in BOOLEAN
  PROVE  PageSound("/sources", SourcesList(rows, more), known)
PROOF
<1>0. "/sources" \notin FormPages /\ "/sources/new" \in OpenPages
  BY DEF FormPages, OpenPages
<1> PICK head : head = Element("SourcesList", Body, {}, {Link("/sources/new")})
  OBVIOUS
<1>1. ElementSound(head, known) /\ head.within = Body
  BY <1>0, LinksSound DEF LinkHere
<1>2. CASE rows = {}
  <2>1. SourcesEmptyState = Element("SourcesEmptyState", Body, {}, {Link("/sources/new")})
    BY DEF SourcesEmptyState
  <2>2. ElementSound(SourcesEmptyState, known) /\ SourcesEmptyState.within = Body
    BY <1>0, <2>1, LinksSound DEF LinkHere
  <2>3. SourcesList(rows, more) = Base({head} \cup {SourcesEmptyState})
    BY <1>2 DEF SourcesList
  <2>4. PageSound("/sources", {head} \cup {SourcesEmptyState}, known)
    BY <1>0, <1>1, <2>2, FlatPage
  <2> QED  BY <2>3, <2>4, BasePage
<1>3. CASE rows # {}
  <2> DEFINE controls == IF more THEN {Load("/sources", SourceTable, "beforeend")} ELSE {}
  <2> PICK tbody : tbody = Element("SourcesTable", Body, {SourceTable}, controls)
    OBVIOUS
  <2>1. SourcesList(rows, more) = Base({head} \cup ({tbody} \cup SourceRowsFragment(rows)))
    BY <1>3 DEF SourcesList, SourceTable
  <2>2. /\ tbody.within = Body /\ tbody.ids = {SourceTable} /\ tbody.controls = controls
        /\ tbody = Element(tbody.part, tbody.within, tbody.ids, tbody.controls)
    BY ElementFields
  <2>3. <<"GET", "/sources">> \in Routes /\ <<"/sources", SourceTable>> \in Loads
    BY DEF Routes, SourcesRoutes, Loads
  <2>4. \A c \in controls : LoadHere(c, SourceTable)
    BY <2>3 DEF LoadHere
  <2> HIDE DEF controls
  <2>5. ElementSound(tbody, known)
    BY <2>2, <2>4, LoaderSound, IdsDiffer
  <2>6. \A e \in SourceRowsFragment(rows) :
           ElementSound(e, known) /\ e.within = SourceTable
    BY SourceRowSound DEF SourceRowsFragment
  <2> PICK main : main = {head} \cup ({tbody} \cup SourceRowsFragment(rows))
    OBVIOUS
  <2>7. \A e \in main : ElementSound(e, known)
    BY <1>1, <2>5, <2>6
  <2>8. \A e \in main : e.within = Body \/ \E y \in main : e.within \in y.ids
    BY <1>1, <2>2, <2>6
  <2>9. PageSound("/sources", main, known)
    BY <1>0, <2>7, <2>8, TablePage
  <2> QED  BY <2>1, <2>9, BasePage
<1> QED  BY <1>2, <1>3

LEMMA SourceDetailPage ==
  ASSUME NEW known, NEW s \in known
  PROVE  PageSound("/sources/:id", SourceDetail(s), known)
PROOF
<1>0. "/sources/:id" \notin FormPages /\ "/sources" \in OpenPages
  BY DEF FormPages, OpenPages
<1> PICK id : id = Id("detail-status")
  OBVIOUS
<1> DEFINE controls == {Link("/sources"), Form("POST", "/sources/:id/test", s, id),
                        Form("POST", "/sources/:id/sync", s, id)}
<1> PICK head : head = Element("SourceDetail", Body, {id}, controls)
  OBVIOUS
<1>1. /\ head.within = Body /\ head.ids = {id} /\ head.controls = controls
      /\ head = Element(head.part, head.within, head.ids, head.controls)
  BY ElementFields
<1>2. \A c \in controls : LinkHere(c) \/ FormHere(c, id)
  BY <1>0, FormRoutes DEF LinkHere, FormHere
<1>3. id \notin {Body, Own, Browser, SourceTable, GenerateBody}
  <2>1. "detail-status" \in FormErrors
    BY DEF FormErrors
  <2> QED  BY <2>1, ErrorIds
<1> HIDE DEF controls
<1>4. ElementSound(head, known)
  BY <1>1, <1>2, <1>3, SectionSound
<1> PICK edit : edit = LinkTo("/sources/:id/edit", s)
  OBVIOUS
<1> PICK delete : delete = RowButton("DELETE", "/sources/:id", s)
  OBVIOUS
<1> PICK buttons : buttons = Element("SourceButtons", Body, {}, {edit, delete})
  OBVIOUS
<1>5. /\ buttons.within = Body /\ buttons.ids = {} /\ buttons.controls = {edit, delete}
      /\ buttons = Element(buttons.part, buttons.within, buttons.ids, buttons.controls)
  BY ElementFields
<1>6. ControlSound(buttons, edit, known)
  BY ItemLinkSound DEF ItemPages
<1>7. ControlSound(buttons, delete, known)
  <2>1. <<"DELETE", "/sources/:id">> \in Routes
    BY DEF Routes, SourcesRoutes
  <2> QED  BY <2>1, RowButtonSound
<1>8. ElementSound(buttons, known)
  BY <1>5, <1>6, <1>7 DEF ElementSound
<1>9. PageSound("/sources/:id", {head, buttons}, known)
  BY <1>0, <1>1, <1>4, <1>5, <1>8, FlatPage, SMTT(20)
<1>10. SourceDetail(s) = Base({head, buttons})
  BY DEF SourceDetail, controls
<1> QED  BY <1>9, <1>10, BasePage

LEMMA SourceFormPage ==
  ASSUME NEW known, NEW s, NEW route PROVE PageSound(route, SourceForm(s), known)
PROOF
<1> DEFINE controls == {Link("/sources"),
                        IF s = NoItem
                        THEN Form("POST", "/sources", NoItem, Id("source-form-error"))
                        ELSE Form("PUT", "/sources/:id", s, Id("source-form-error"))}
<1>1. /\ \A c \in controls : LinkHere(c) \/ FormHere(c, Id("source-form-error"))
      /\ \E c \in controls : FormHere(c, Id("source-form-error"))
  BY FormRoutes DEF LinkHere, FormHere, OpenPages
<1>2. SourceForm(s) = Base({Element("SourceForm", Body, {Id("source-form-error")}, controls)})
  BY DEF SourceForm
<1>3. "source-form-error" \in FormErrors
  BY DEF FormErrors
<1> HIDE DEF controls
<1> QED  BY <1>1, <1>2, <1>3, FormPage, BasePage

LEMMA ScheduleFormPage ==
  ASSUME NEW known, NEW s, NEW route PROVE PageSound(route, ScheduleForm(s), known)
PROOF
<1> DEFINE controls == {Link("/schedules"),
                        IF s = NoItem
                        THEN Form("POST", "/schedules", NoItem, Id("schedule-form-error"))
                        ELSE Form("PUT", "/schedules/:id", s, Id("schedule-form-error"))}
<1>1. /\ \A c \in controls : LinkHere(c) \/ FormHere(c, Id("schedule-form-error"))
      /\ \E c \in controls : FormHere(c, Id("schedule-form-error"))
  BY FormRoutes DEF LinkHere, FormHere, OpenPages
<1>2. ScheduleForm(s)
        = Base({Element("ScheduleForm", Body, {Id("schedule-form-error")}, controls)})
  BY DEF ScheduleForm
<1>3. "schedule-form-error" \in FormErrors
  BY DEF FormErrors
<1> HIDE DEF controls
<1> QED  BY <1>1, <1>2, <1>3, FormPage, BasePage

\* Rows that link to their item, or act on it, wherever they lie.
LEMMA RowsSound ==
  ASSUME NEW known, NEW s \in known
  PROVE  /\ Loose(ReportRow(s), known) /\ ReportRow(s).within = Id("reports-body")
         /\ Loose(InvoiceRow(s), known) /\ InvoiceRow(s).within = Id("invoices-body")
         /\ Loose(ScheduleRow(s), known)
         /\ ScheduleRow(s).within = Id("schedules-table-body")
PROOF
<1>1. Loose(ReportRow(s), known) /\ ReportRow(s).within = Id("reports-body")
  <2> PICK e : e = ReportRow(s)
    OBVIOUS
  <2>1. e = Element("ReportRow", Id("reports-body"), {}, {LinkTo("/reports/:id", s)})
    BY DEF ReportRow
  <2>2. /\ e.within = Id("reports-body") /\ e.ids = {}
        /\ e.controls = {LinkTo("/reports/:id", s)}
        /\ e = Element(e.part, e.within, e.ids, e.controls)
    BY <2>1, ElementFields
  <2>3. /\ ControlSound(e, LinkTo("/reports/:id", s), known)
        /\ LinkTo("/reports/:id", s).target = Browser
    BY ItemLinkSound DEF ItemPages
  <2>4. Loose(e, known)
    BY <2>2, <2>3 DEF Loose
  <2> QED  BY <2>2, <2>4
<1>2. Loose(InvoiceRow(s), known) /\ InvoiceRow(s).within = Id("invoices-body")
  <2> PICK e : e = InvoiceRow(s)
    OBVIOUS
  <2>1. e = Element("InvoiceRow", Id("invoices-body"), {}, {LinkTo("/invoices/:id", s)})
    BY DEF InvoiceRow
  <2>2. /\ e.within = Id("invoices-body") /\ e.ids = {}
        /\ e.controls = {LinkTo("/invoices/:id", s)}
        /\ e = Element(e.part, e.within, e.ids, e.controls)
    BY <2>1, ElementFields
  <2>3. /\ ControlSound(e, LinkTo("/invoices/:id", s), known)
        /\ LinkTo("/invoices/:id", s).target = Browser
    BY ItemLinkSound DEF ItemPages
  <2>4. Loose(e, known)
    BY <2>2, <2>3 DEF Loose
  <2> QED  BY <2>2, <2>4
<1>3. Loose(ScheduleRow(s), known) /\ ScheduleRow(s).within = Id("schedules-table-body")
  <2> PICK edit : edit = LinkTo("/schedules/:id/edit", s)
    OBVIOUS
  <2> PICK toggle : toggle = RowButton("POST", "/schedules/:id/toggle", s)
    OBVIOUS
  <2> PICK delete : delete = RowButton("DELETE", "/schedules/:id", s)
    OBVIOUS
  <2> PICK e : e = ScheduleRow(s)
    OBVIOUS
  <2>1. e = Element("ScheduleRow", Id("schedules-table-body"), {}, {toggle, edit, delete})
    BY DEF ScheduleRow, ScheduleToggle
  <2>2. /\ e.within = Id("schedules-table-body") /\ e.ids = {}
        /\ e.controls = {toggle, edit, delete}
        /\ e = Element(e.part, e.within, e.ids, e.controls)
    BY <2>1, ElementFields
  <2>3. ControlSound(e, edit, known) /\ edit.target = Browser
    BY ItemLinkSound DEF ItemPages
  <2>4. {<<"POST", "/schedules/:id/toggle">>, <<"DELETE", "/schedules/:id">>} \subseteq Routes
    BY DEF Routes, SchedulesRoutes
  <2>5. ControlSound(e, toggle, known) /\ ControlSound(e, delete, known)
    BY <2>4, RowButtonSound
  <2>6. /\ toggle.target = Own /\ toggle.verb # "GET"
        /\ delete.target = Own /\ delete.verb # "GET"
    BY DEF RowButton, Control
  <2>7. Loose(e, known)
    BY <2>2, <2>3, <2>5, <2>6 DEF Loose
  <2> QED  BY <2>2, <2>7
<1> QED  BY <1>1, <1>2, <1>3

\* Answers that bring text.
LEMMA TextsSound ==
  ASSUME NEW known
  PROVE  /\ Loose(StatusFragment, known) /\ Loose(SyncTriggeredFragment, known)
         /\ Loose(ErrorFragment, known) /\ Loose(GenerateSuccessFragment, known)
         /\ Loose(UsageModelRow, known) /\ Loose(UsageEventRow, known)
         /\ Loose(ReportsEmptyState, known) /\ Loose(InvoicesEmptyState, known)
         /\ ReportsEmptyState.within = Body /\ InvoicesEmptyState.within = Body
PROOF
<1>1. \A part, within : Loose(Element(part, within, {}, {}), known)
  BY ElementFields DEF Loose
<1> QED
  BY <1>1, ElementFields
     DEF StatusFragment, SyncTriggeredFragment, ErrorFragment, GenerateSuccessFragment,
         UsageModelRow, UsageEventRow, ReportsEmptyState, InvoicesEmptyState

LEMMA LooseInPlace ==
  ASSUME NEW e, NEW known, Loose(e, known) PROVE ElementSound(e, known)
PROOF
<1>1. \A c \in e.controls : ControlSound(e, c, known)
  BY DEF Loose
<1> QED  BY <1>1 DEF Loose, ElementSound

LEMMA SchedulesPage ==
  ASSUME NEW known, NEW rows, rows \subseteq known
  PROVE  PageSound("/schedules", SchedulesList(rows), known)
PROOF
<1>0. "/schedules" \notin FormPages /\ LinkHere(Link("/schedules/new"))
  BY DEF FormPages, LinkHere, OpenPages
<1> PICK id : id = Id("schedules-table-body")
  OBVIOUS
<1>1. CASE rows = {}
  <2> PICK head : head = Element("SchedulesList", Body, {}, {Link("/schedules/new")})
    OBVIOUS
  <2>1. ElementSound(head, known) /\ head.within = Body
    BY <1>0, LinksSound
  <2>2. ScheduleEmptyState = Element("ScheduleEmptyState", Body, {}, {Link("/schedules/new")})
    BY DEF ScheduleEmptyState
  <2>3. ElementSound(ScheduleEmptyState, known) /\ ScheduleEmptyState.within = Body
    BY <1>0, <2>2, LinksSound
  <2>4. SchedulesList(rows) = Base({head} \cup {ScheduleEmptyState})
    BY <1>1 DEF SchedulesList
  <2>5. PageSound("/schedules", {head} \cup {ScheduleEmptyState}, known)
    BY <1>0, <2>1, <2>3, FlatPage
  <2> QED  BY <2>4, <2>5, BasePage
<1>2. CASE rows # {}
  <2> PICK head : head = Element("SchedulesList", Body, {id}, {Link("/schedules/new")})
    OBVIOUS
  <2>1. /\ head.within = Body /\ head.ids = {id} /\ head.controls = {Link("/schedules/new")}
        /\ head = Element(head.part, head.within, head.ids, head.controls)
    BY ElementFields
  <2>2. id \notin {Body, Own, Browser, SourceTable, GenerateBody}
    BY DEF Id, Body, Own, Browser, SourceTable, GenerateBody
  <2>3. ElementSound(head, known)
    BY <1>0, <2>1, <2>2, SectionSound
  <2>4. SchedulesList(rows) = Base({head} \cup {ScheduleRow(s) : s \in rows})
    BY <1>2 DEF SchedulesList
  <2> PICK main : main = {head} \cup {ScheduleRow(s) : s \in rows}
    OBVIOUS
  <2>5. \A s \in rows : ElementSound(ScheduleRow(s), known) /\ ScheduleRow(s).within = id
    BY RowsSound, LooseInPlace
  <2>6. \A e \in main : ElementSound(e, known)
    BY <2>3, <2>5
  <2>7. \A e \in main : e.within = Body \/ \E y \in main : e.within \in y.ids
    <3>1. head \in main /\ id \in head.ids
      BY <2>1
    <3>2. \A e \in main : e.within = Body \/ e.within = id
      BY <2>1, <2>5
    <3> QED  BY <3>1, <3>2
  <2>8. PageSound("/schedules", main, known)
    BY <1>0, <2>6, <2>7, TablePage
  <2> QED  BY <2>4, <2>8, BasePage
<1> QED  BY <1>1, <1>2

LEMMA InvoicesPage ==
  ASSUME NEW known, NEW rows, rows \subseteq known, NEW more \in BOOLEAN
  PROVE  PageSound("/invoices", InvoicesList(rows, more), known)
PROOF
<1>0. "/invoices" \notin FormPages
  BY DEF FormPages
<1> PICK id : id = Id("invoices-body")
  OBVIOUS
<1>1. CASE rows = {}
  <2>1. ElementSound(InvoicesEmptyState, known) /\ InvoicesEmptyState.within = Body
    BY TextsSound, LooseInPlace
  <2>2. InvoicesList(rows, more) = Base({InvoicesEmptyState})
    BY <1>1 DEF InvoicesList
  <2>3. PageSound("/invoices", {InvoicesEmptyState}, known)
    BY <1>0, <2>1, FlatPage
  <2> QED  BY <2>2, <2>3, BasePage
<1>2. CASE rows # {}
  <2> DEFINE controls == IF more THEN {Load("/invoices", id, "beforeend")} ELSE {}
  <2> PICK tbody : tbody = Element("InvoicesTable", Body, {id}, controls)
    OBVIOUS
  <2>1. InvoicesList(rows, more) = Base({tbody} \cup InvoiceRowsFragment(rows))
    BY <1>2 DEF InvoicesList
  <2>2. /\ tbody.within = Body /\ tbody.ids = {id} /\ tbody.controls = controls
        /\ tbody = Element(tbody.part, tbody.within, tbody.ids, tbody.controls)
    BY ElementFields
  <2>3. <<"GET", "/invoices">> \in Routes /\ <<"/invoices", id>> \in Loads
    BY DEF Routes, InvoicesRoutes, Loads
  <2>4. \A c \in controls : LoadHere(c, id)
    BY <2>3 DEF LoadHere
  <2>5. id \notin {Body, Own, Browser, GenerateBody}
    BY DEF Id, Body, Own, Browser, GenerateBody
  <2> HIDE DEF controls
  <2>6. ElementSound(tbody, known)
    BY <2>2, <2>4, <2>5, LoaderSound
  <2>7. \A e \in InvoiceRowsFragment(rows) : ElementSound(e, known) /\ e.within = id
    BY RowsSound, LooseInPlace DEF InvoiceRowsFragment
  <2> PICK main : main = {tbody} \cup InvoiceRowsFragment(rows)
    OBVIOUS
  <2>8. \A e \in main : ElementSound(e, known)
    BY <2>6, <2>7
  <2>9. \A e \in main : e.within = Body \/ \E y \in main : e.within \in y.ids
    BY <2>2, <2>7
  <2>10. PageSound("/invoices", main, known)
    BY <1>0, <2>8, <2>9, TablePage
  <2> QED  BY <2>1, <2>10, BasePage
<1> QED  BY <1>1, <1>2

\* The Generate form lies in what its own answer replaces.
LEMMA GenerateSound ==
  ASSUME NEW known
  PROVE  /\ \A e \in GenerateReportModal : ElementSound(e, known)
         /\ \A e \in GenerateReportModal :
              e.within = Body \/ \E y \in GenerateReportModal : e.within \in y.ids
         /\ \E e \in GenerateReportModal : HoldsForm(e)
PROOF
<1> PICK modal : modal = Element("GenerateReportModal", Body, {GenerateBody}, {})
  OBVIOUS
<1> PICK c : c = Form("POST", "/reports/generate", NoItem, GenerateBody)
  OBVIOUS
<1> PICK form : form = Element("GenerateForm", GenerateBody, {}, {c})
  OBVIOUS
<1>1. GenerateReportModal = {modal, form}
  BY DEF GenerateReportModal, GenerateBody
<1>2. /\ modal.within = Body /\ modal.ids = {GenerateBody} /\ modal.controls = {}
      /\ modal = Element(modal.part, modal.within, modal.ids, modal.controls)
  BY ElementFields
<1>3. /\ form.within = GenerateBody /\ form.ids = {} /\ form.controls = {c}
      /\ form = Element(form.part, form.within, form.ids, form.controls)
  BY ElementFields
<1>4. ElementSound(modal, known)
  BY <1>2, IdsDiffer DEF ElementSound, ActsOutside
<1>5. <<"POST", "/reports/generate">> \in Routes
  BY DEF Routes, ReportsRoutes
<1>6. ControlSound(form, c, known) /\ c.target # Own /\ c.verb = "POST"
  <2>1. GenerateBody \in form.ids \cup {form.within}
    BY <1>3
  <2> QED  BY <1>5, <2>1, IdsDiffer, FormIsSound
<1>7. ElementSound(form, known) /\ HoldsForm(form)
  BY <1>3, <1>6 DEF ElementSound, HoldsForm, ActsOutside
<1> QED  BY <1>1, <1>2, <1>3, <1>4, <1>7

LEMMA ReportsPage ==
  ASSUME NEW known, NEW rows, rows \subseteq known, NEW more \in BOOLEAN
  PROVE  PageSound("/reports", ReportsList(rows, more), known)
PROOF
<1> PICK id : id = Id("reports-body")
  OBVIOUS
<1> PICK above : above = GenerateReportModal \cup {GenerationActivityCard}
  OBVIOUS
<1>1. /\ \A e \in above : ElementSound(e, known)
      /\ \A e \in above : e.within = Body \/ \E y \in above : e.within \in y.ids
      /\ \E e \in above : HoldsForm(e)
  BY GenerateSound, ActivitySound
<1>2. CASE rows = {}
  <2>1. ElementSound(ReportsEmptyState, known) /\ ReportsEmptyState.within = Body
    BY TextsSound, LooseInPlace
  <2>2. ReportsList(rows, more) = Base(above \cup {ReportsEmptyState})
    BY <1>2 DEF ReportsList
  <2>3. PageSound("/reports", above \cup {ReportsEmptyState}, known)
    BY <1>1, <2>1, TablePage
  <2> QED  BY <2>2, <2>3, BasePage
<1>3. CASE rows # {}
  <2> PICK swap : swap = IF more THEN "beforeend" ELSE "innerHTML"
    OBVIOUS
  <2> PICK c : c = Load("/reports", id, swap)
    OBVIOUS
  <2> PICK tbody : tbody = Element("ReportsTable", Body, {id}, {c})
    OBVIOUS
  <2>1. ReportsList(rows, more) = Base(above \cup ({tbody} \cup ReportRowsFragment(rows)))
    BY <1>3 DEF ReportsList
  <2>2. /\ tbody.within = Body /\ tbody.ids = {id} /\ tbody.controls = {c}
        /\ tbody = Element(tbody.part, tbody.within, tbody.ids, tbody.controls)
    BY ElementFields
  <2>3. <<"GET", "/reports">> \in Routes /\ <<"/reports", id>> \in Loads
    BY DEF Routes, ReportsRoutes, Loads
  <2>4. LoadHere(c, id)
    BY <2>3 DEF LoadHere
  <2>5. id \notin {Body, Own, Browser, GenerateBody}
    BY DEF Id, Body, Own, Browser, GenerateBody
  <2>6. ElementSound(tbody, known)
    BY <2>2, <2>4, <2>5, LoaderSound
  <2>7. \A e \in ReportRowsFragment(rows) : ElementSound(e, known) /\ e.within = id
    BY RowsSound, LooseInPlace DEF ReportRowsFragment
  <2> PICK main : main = above \cup ({tbody} \cup ReportRowsFragment(rows))
    OBVIOUS
  <2>8. \A e \in main : ElementSound(e, known)
    BY <1>1, <2>6, <2>7
  <2>9. \A e \in main : e.within = Body \/ \E y \in main : e.within \in y.ids
    BY <1>1, <2>2, <2>7, ZenonT(30)
  <2>10. \E e \in main : HoldsForm(e)
    BY <1>1
  <2>11. PageSound("/reports", main, known)
    BY <2>8, <2>9, <2>10, TablePage, ZenonT(30)
  <2> QED  BY <2>1, <2>11, BasePage
<1> QED  BY <1>2, <1>3

(***************************************************************************)
(* Answers.  What has gone does not come back, since ids are used once.    *)
(***************************************************************************)

ItemsInv == present \subseteq used /\ used \subseteq Items

OutcomeSound(o) ==
  /\ o.used \subseteq Items /\ o.present \subseteq o.used /\ used \subseteq o.used
  /\ used \ present \subseteq o.used \ o.present

\* What htmx may get: no whole page.
HtmxSound(verb, route, o) ==
  /\ OutcomeSound(o)
  /\ o.answer.kind \in {"fragment", "redirect", "error"}
  /\ o.answer.kind = "redirect" => Reachable(o.answer.to, o.used)
  /\ o.answer.kind = "fragment" =>
       \A e \in o.answer.elements : Brought(verb, route, e, o.used)

\* What a navigation gets: the page, or a refusal because its item is gone.
VisitSound(route, item, o) ==
  \/ o.answer.kind = "page" /\ PageSound(route, o.answer.elements, used)
  \/ o.answer.kind = "error" /\ item \in used \ present

LEMMA AnswerFields ==
  /\ \A elements : Whole(elements).kind = "page" /\ Whole(elements).elements = elements
  /\ \A elements : /\ Fragment(elements).kind = "fragment"
                   /\ Fragment(elements).elements = elements
  /\ \A route, item : /\ Redirect(route, item).kind = "redirect"
                      /\ Redirect(route, item).to = Place(route, item)
  /\ Refuse.kind = "error"
BY DEF Whole, Fragment, Redirect, Refuse

LEMMA Kept ==
  ASSUME ItemsInv, NEW answer
  PROVE  OutcomeSound(Keep(answer)) /\ Keep(answer).answer = answer /\ Keep(answer).used = used
BY DEF ItemsInv, OutcomeSound, Keep

LEMMA KeptAny ==
  ASSUME NEW answers, NEW o \in KeepAny(answers) PROVE \E a \in answers : o = Keep(a)
BY DEF KeepAny

LEMMA Added ==
  ASSUME ItemsInv, NEW item \in Items \ used, NEW answer
  PROVE  /\ OutcomeSound(Made(item, answer)) /\ Made(item, answer).answer = answer
         /\ item \in Made(item, answer).used
BY DEF ItemsInv, OutcomeSound, Made

LEMMA Deleted ==
  ASSUME ItemsInv, NEW item, NEW answer
  PROVE  OutcomeSound(Gone(item, answer)) /\ Gone(item, answer).answer = answer
BY DEF ItemsInv, OutcomeSound, Gone

LEMMA RefuseSound ==
  ASSUME ItemsInv, NEW verb, NEW route PROVE HtmxSound(verb, route, Keep(Refuse))
BY Kept, AnswerFields DEF HtmxSound

LEMMA TextAnswer ==
  ASSUME ItemsInv, NEW verb, NEW route, NEW elements,
         \A e \in elements : Loose(e, used)
  PROVE  HtmxSound(verb, route, Keep(Fragment(elements)))
BY Kept, AnswerFields DEF HtmxSound, Brought

LEMMA InvalidSound ==
  ASSUME ItemsInv, NEW verb, NEW route PROVE HtmxSound(verb, route, Invalid)
BY TextAnswer, TextsSound DEF Invalid

LEMMA RedirectAnswer ==
  ASSUME ItemsInv, NEW verb, NEW route, NEW to, NEW item, Reachable(Place(to, item), used)
  PROVE  HtmxSound(verb, route, Keep(Redirect(to, item)))
BY Kept, AnswerFields DEF HtmxSound

LEMMA OpenPlaces ==
  ASSUME NEW to \in OpenPages, NEW item, NEW known PROVE Reachable(Place(to, item), known)
BY PlaceFields, PageRoutes DEF Reachable

LEMMA ItemPlaces ==
  ASSUME NEW to \in ItemPages, NEW known, NEW item \in known
  PROVE  Reachable(Place(to, item), known)
BY PlaceFields DEF Reachable

LEMMA MadeSound ==
  ASSUME ItemsInv, NEW verb, NEW route, NEW s \in Items \ used, NEW to, NEW item,
         Reachable(Place(to, item), used \cup {s})
  PROVE  HtmxSound(verb, route, Made(s, Redirect(to, item)))
PROOF
<1> PICK o : o = Made(s, Redirect(to, item))
  OBVIOUS
<1>1. OutcomeSound(o) /\ o.answer = Redirect(to, item) /\ o.used = used \cup {s}
  BY Added DEF Made
<1> QED  BY <1>1, AnswerFields DEF HtmxSound

LEMMA GoneSound ==
  ASSUME ItemsInv, NEW verb, NEW route, NEW s
  PROVE  HtmxSound(verb, route, Gone(s, Fragment({})))
BY Deleted, AnswerFields DEF HtmxSound

(***************************************************************************)
(* What each route answers htmx.                                           *)
(***************************************************************************)

LEMMA HtmxAccounts ==
  ASSUME ItemsInv, NEW verb, NEW route, <<verb, route>> \in AuthRoutes, verb # "GET",
         NEW o \in AnswerAccounts(verb, route)
  PROVE  HtmxSound(verb, route, o)
PROOF
<1>1. route \in {"/login", "/register", "/select-tenant", "/create-tenant", "/logout"}
  BY DEF AuthRoutes
<1>2. {"/select-tenant", "/dashboard", "/login"} \subseteq OpenPages
  BY DEF OpenPages
<1>3. ASSUME NEW to \in OpenPages, o \in Credentials(to) PROVE HtmxSound(verb, route, o)
  <2>1. o = Keep(Fragment({ErrorFragment})) \/ o = Keep(Redirect(to, NoItem))
    <3> PICK error : error = Fragment({ErrorFragment})
      OBVIOUS
    <3> PICK there : there = Redirect(to, NoItem)
      OBVIOUS
    <3>1. o \in KeepAny({error, there})
      BY <1>3 DEF Credentials
    <3> QED  BY <3>1 DEF KeepAny
  <2>2. HtmxSound(verb, route, Keep(Fragment({ErrorFragment})))
    BY TextAnswer, TextsSound
  <2>3. HtmxSound(verb, route, Keep(Redirect(to, NoItem)))
    BY <1>3, OpenPlaces, RedirectAnswer
  <2> QED  BY <2>1, <2>2, <2>3
<1>4. CASE route \in {"/login", "/register"}
  <2>1. o \in Credentials("/select-tenant")
    BY <1>4 DEF AnswerAccounts, LoginSubmitted, RegisterSubmitted
  <2> QED  BY <1>2, <1>3, <2>1
<1>5. CASE route \in {"/select-tenant", "/create-tenant"}
  <2>1. o \in Credentials("/dashboard")
    BY <1>5 DEF AnswerAccounts, SelectTenantSubmitted, CreateTenantSubmitted
  <2> QED  BY <1>2, <1>3, <2>1
<1>6. CASE route = "/logout"
  <2>1. o = Keep(Redirect("/login", NoItem))
    BY <1>6, KeptAny DEF AnswerAccounts, LogoutSubmitted
  <2>2. Reachable(Place("/login", NoItem), used)
    BY <1>2, OpenPlaces
  <2> QED  BY <2>1, <2>2, RedirectAnswer
<1> QED  BY <1>1, <1>4, <1>5, <1>6

LEMMA HtmxSources ==
  ASSUME ItemsInv, NEW verb, NEW route, <<verb, route>> \in SourcesRoutes,
         verb = "GET" => route = "/sources", NEW s, NEW o \in AnswerSources(verb, route, s, TRUE)
  PROVE  HtmxSound(verb, route, o)
PROOF
<1>1. <<verb, route>> \in {<<"GET", "/sources">>, <<"POST", "/sources">>,
                           <<"PUT", "/sources/:id">>, <<"DELETE", "/sources/:id">>,
                           <<"POST", "/sources/:id/test">>, <<"POST", "/sources/:id/sync">>}
  BY DEF SourcesRoutes
<1>2. CASE verb = "GET" /\ route = "/sources"
  <2>1. o \in SourcesAnswer(TRUE)
    BY <1>2 DEF AnswerSources
  <2>2. PICK rows \in SomeOf(PageSources) : o = Keep(Fragment(SourceRowsFragment(rows)))
    BY <2>1, KeptAny DEF SourcesAnswer
  <2>3. rows \subseteq used
    BY <2>2 DEF SomeOf, ItemsInv
  <2>4. \A e \in SourceRowsFragment(rows) : Brought(verb, route, e, used)
    BY <1>2, <2>3 DEF Brought, SourceRowsFragment
  <2> QED  BY <2>2, <2>4, Kept, AnswerFields DEF HtmxSound
<1>3. CASE verb = "POST" /\ route = "/sources"
  <2>1. o \in CreateSourceAnswer
    BY <1>3 DEF AnswerSources
  <2>2. CASE o = Invalid
    BY <2>2, InvalidSound
  <2>3. CASE \E x \in PageSources \ used, r \in {"/sources", "/sources/:id"} :
               o = Made(x, Redirect(r, IF r = "/sources" THEN NoItem ELSE x))
    <3>1. PICK x \in PageSources \ used, r \in {"/sources", "/sources/:id"} :
               o = Made(x, Redirect(r, IF r = "/sources" THEN NoItem ELSE x))
      BY <2>3
    <3>2. x \in Items \ used /\ "/sources" \in OpenPages /\ "/sources/:id" \in ItemPages
      BY DEF Items, OpenPages, ItemPages
    <3>3. CASE r = "/sources"
      <4>1. Reachable(Place(r, NoItem), used \cup {x})
        BY <3>2, <3>3, OpenPlaces
      <4> QED  BY <3>1, <3>2, <3>3, <4>1, MadeSound
    <3>4. CASE r = "/sources/:id"
      <4>1. Reachable(Place(r, x), used \cup {x})
        BY <3>2, <3>4, ItemPlaces
      <4>2. o = Made(x, Redirect(r, x))
        BY <3>1, <3>4
      <4> QED  BY <3>2, <4>1, <4>2, MadeSound
    <3> QED  BY <3>1, <3>3, <3>4
  <2> QED  BY <2>1, <2>2, <2>3 DEF CreateSourceAnswer
<1>4. CASE verb = "PUT" /\ route = "/sources/:id"
  <2>1. o \in UpdateSourceAnswer(s)
    BY <1>4 DEF AnswerSources
  <2>2. o = Invalid \/ (s \in used /\ o = Keep(Redirect("/sources/:id", s)))
    BY <2>1, KeptAny DEF UpdateSourceAnswer, ItemsInv
  <2>3. "/sources/:id" \in ItemPages
    BY DEF ItemPages
  <2>4. CASE o = Invalid
    BY <2>4, InvalidSound
  <2>5. CASE s \in used /\ o = Keep(Redirect("/sources/:id", s))
    <3>1. Reachable(Place("/sources/:id", s), used)
      BY <2>3, <2>5, ItemPlaces
    <3> QED  BY <2>5, <3>1, RedirectAnswer
  <2> QED  BY <2>2, <2>4, <2>5
<1>5. CASE verb = "DELETE" /\ route = "/sources/:id"
  <2>1. o \in DeleteSourceAnswer(s)
    BY <1>5 DEF AnswerSources
  <2>2. o = Gone(s, Fragment({})) \/ o = Keep(Refuse)
    BY <2>1 DEF DeleteSourceAnswer
  <2> QED  BY <2>2, GoneSound, RefuseSound
<1>6. CASE route = "/sources/:id/test"
  <2>1. o \in TestConnectionAnswer(s)
    BY <1>6 DEF AnswerSources
  <2>2. o = Keep(Fragment({StatusFragment}))
    BY <2>1, KeptAny DEF TestConnectionAnswer
  <2> QED  BY <2>2, TextAnswer, TextsSound
<1>7. CASE route = "/sources/:id/sync"
  <2>1. o \in SyncAnswer(s)
    BY <1>7 DEF AnswerSources
  <2>2. o = Keep(Fragment({StatusFragment})) \/ o = Keep(Fragment({SyncTriggeredFragment}))
    BY <2>1, KeptAny DEF SyncAnswer
  <2>3. HtmxSound(verb, route, Keep(Fragment({StatusFragment})))
    BY TextAnswer, TextsSound
  <2>4. HtmxSound(verb, route, Keep(Fragment({SyncTriggeredFragment})))
    BY TextAnswer, TextsSound
  <2> QED  BY <2>2, <2>3, <2>4
<1> QED  BY <1>1, <1>2, <1>3, <1>4, <1>5, <1>6, <1>7

LEMMA HtmxSchedules ==
  ASSUME ItemsInv, NEW verb, NEW route, <<verb, route>> \in SchedulesRoutes,
         verb # "GET", NEW s, NEW o \in AnswerSchedules(verb, route, s)
  PROVE  HtmxSound(verb, route, o)
PROOF
<1>1. <<verb, route>> \in {<<"POST", "/schedules">>, <<"PUT", "/schedules/:id">>,
                           <<"DELETE", "/schedules/:id">>,
                           <<"POST", "/schedules/:id/toggle">>}
  BY DEF SchedulesRoutes
<1>2. "/schedules" \in OpenPages
  BY DEF OpenPages
<1>3. CASE verb = "POST" /\ route = "/schedules"
  <2>1. o \in CreateScheduleAnswer
    BY <1>3 DEF AnswerSchedules
  <2>2. CASE o = Invalid
    BY <2>2, InvalidSound
  <2>3. CASE \E x \in PageSchedules \ used : o = Made(x, Redirect("/schedules", NoItem))
    <3>1. PICK x \in PageSchedules \ used : o = Made(x, Redirect("/schedules", NoItem))
      BY <2>3
    <3>2. x \in Items \ used
      BY DEF Items
    <3>3. Reachable(Place("/schedules", NoItem), used \cup {x})
      BY <1>2, OpenPlaces
    <3> QED  BY <3>1, <3>2, <3>3, MadeSound
  <2> QED  BY <2>1, <2>2, <2>3 DEF CreateScheduleAnswer
<1>4. CASE verb = "PUT" /\ route = "/schedules/:id"
  <2>1. o \in UpdateScheduleAnswer(s)
    BY <1>4 DEF AnswerSchedules
  <2>2. o = Invalid \/ o = Keep(Redirect("/schedules", NoItem))
    BY <2>1, KeptAny DEF UpdateScheduleAnswer
  <2>3. HtmxSound(verb, route, Keep(Redirect("/schedules", NoItem)))
    BY <1>2, OpenPlaces, RedirectAnswer
  <2> QED  BY <2>2, <2>3, InvalidSound
<1>5. CASE verb = "DELETE" /\ route = "/schedules/:id"
  <2>1. o \in DeleteScheduleAnswer(s)
    BY <1>5 DEF AnswerSchedules
  <2>2. o = Gone(s, Fragment({})) \/ o = Keep(Refuse)
    BY <2>1 DEF DeleteScheduleAnswer
  <2> QED  BY <2>2, GoneSound, RefuseSound
<1>6. CASE route = "/schedules/:id/toggle"
  <2>1. o \in ToggleAnswer(s)
    BY <1>6 DEF AnswerSchedules
  <2>2. o = Keep(Refuse) \/ (s \in used /\ o = Keep(Fragment({ScheduleRow(s)})))
    <3>1. o = Keep(IF s \in present THEN Fragment({ScheduleRow(s)}) ELSE Refuse)
      BY <2>1, KeptAny DEF ToggleAnswer
    <3> QED  BY <3>1 DEF ItemsInv
  <2>3. s \in used => HtmxSound(verb, route, Keep(Fragment({ScheduleRow(s)})))
    BY TextAnswer, RowsSound
  <2> QED  BY <2>2, <2>3, RefuseSound
<1> QED  BY <1>1, <1>3, <1>4, <1>5, <1>6

LEMMA HtmxRecords ==
  ASSUME ItemsInv, NEW verb, NEW route, <<verb, route>> \in Routes,
         <<verb, route>> \notin AuthRoutes \cup SourcesRoutes \cup SchedulesRoutes,
         verb = "GET" => \E target : <<route, target>> \in Loads,
         NEW item, NEW o \in AnswerRecords(route, item, TRUE)
  PROVE  HtmxSound(verb, route, o)
PROOF
<1>1. route \in {"/reports", "/reports/activity", "/reports/generate", "/usage/summary",
                 "/usage/events", "/invoices", "/settings/budget"}
  <2>1. CASE verb = "GET"
    <3>1. route \in {"/sources", "/reports", "/invoices", "/usage/summary", "/usage/events",
                     "/reports/activity"}
      BY <2>1 DEF Loads
    <3>2. <<"GET", "/sources">> \in SourcesRoutes
      BY DEF SourcesRoutes
    <3> QED  BY <2>1, <3>1, <3>2
  <2>2. CASE verb # "GET"
    BY <2>2 DEF Routes, ReportsRoutes, UsageRoutes, InvoicesRoutes, SettingsRoutes
  <2> QED  BY <2>1, <2>2
<1>2. CASE route = "/reports"
  <2>1. o \in ReportsAnswer(TRUE)
    BY <1>2 DEF AnswerRecords
  <2>2. PICK rows \in SomeOf(PageReports) : o = Keep(Fragment(ReportRowsFragment(rows)))
    BY <2>1, KeptAny DEF ReportsAnswer
  <2>3. rows \subseteq used
    BY <2>2 DEF SomeOf, ItemsInv
  <2>4. \A e \in ReportRowsFragment(rows) : Loose(e, used)
    BY <2>3, RowsSound DEF ReportRowsFragment
  <2> QED  BY <2>2, <2>4, TextAnswer
<1>3. CASE route = "/invoices"
  <2>1. o \in InvoicesAnswer(TRUE)
    BY <1>3 DEF AnswerRecords
  <2>2. PICK rows \in SomeOf(PageInvoices) : o = Keep(Fragment(InvoiceRowsFragment(rows)))
    BY <2>1, KeptAny DEF InvoicesAnswer
  <2>3. rows \subseteq used
    BY <2>2 DEF SomeOf, ItemsInv
  <2>4. \A e \in InvoiceRowsFragment(rows) : Loose(e, used)
    BY <2>3, RowsSound DEF InvoiceRowsFragment
  <2> QED  BY <2>2, <2>4, TextAnswer
<1>4. CASE route = "/reports/activity"
  <2>1. o \in ActivityAnswer
    BY <1>4 DEF AnswerRecords
  <2>2. o = Keep(Fragment({GenerationActivityCard}))
    BY <2>1, KeptAny DEF ActivityAnswer
  <2>3. Brought(verb, route, GenerationActivityCard, used)
    BY <1>4 DEF Brought
  <2> QED  BY <2>2, <2>3, Kept, AnswerFields DEF HtmxSound
<1>5. CASE route = "/reports/generate"
  <2>1. o \in GenerateAnswer
    BY <1>5 DEF AnswerRecords
  <2>2. o = Keep(Fragment({ErrorFragment})) \/ o = Keep(Fragment({GenerateSuccessFragment}))
    <3> PICK error : error = Fragment({ErrorFragment})
      OBVIOUS
    <3> PICK success : success = Fragment({GenerateSuccessFragment})
      OBVIOUS
    <3>1. o \in KeepAny({error, success})
      BY <2>1 DEF GenerateAnswer
    <3> QED  BY <3>1 DEF KeepAny
  <2>3. HtmxSound(verb, route, Keep(Fragment({ErrorFragment})))
    BY TextAnswer, TextsSound
  <2>4. HtmxSound(verb, route, Keep(Fragment({GenerateSuccessFragment})))
    BY TextAnswer, TextsSound
  <2> QED  BY <2>2, <2>3, <2>4
<1>6. CASE route = "/usage/summary"
  <2>1. o \in SummaryAnswer
    BY <1>6 DEF AnswerRecords
  <2>2. o = Keep(Refuse) \/ o = Keep(Fragment(UsageSummaryFragment(account.busy)))
    BY <2>1, KeptAny DEF SummaryAnswer
  <2>3. \A e \in UsageSummaryFragment(account.busy) : Loose(e, used)
    <3>1. UsageSummaryFragment(account.busy) \subseteq {UsageModelRow}
      BY DEF UsageSummaryFragment
    <3> QED  BY <3>1, TextsSound
  <2>4. HtmxSound(verb, route, Keep(Fragment(UsageSummaryFragment(account.busy))))
    BY <2>3, TextAnswer
  <2> QED  BY <2>2, <2>4, RefuseSound
<1>7. CASE route = "/usage/events"
  <2>1. o \in EventsAnswer
    BY <1>7 DEF AnswerRecords
  <2>2. o = Keep(Fragment({}))
    BY <2>1, KeptAny DEF EventsAnswer, UsageEventRowsFragment
  <2> QED  BY <2>2, TextAnswer
<1>8. CASE route = "/settings/budget"
  <2>1. o \in BudgetAnswer
    BY <1>8 DEF AnswerRecords
  <2>2. o = Keep(Redirect("/settings", NoItem)) \/ o = Keep(Refuse)
    BY <2>1, KeptAny DEF BudgetAnswer
  <2>3. "/settings" \in OpenPages
    BY DEF OpenPages
  <2>4. HtmxSound(verb, route, Keep(Redirect("/settings", NoItem)))
    BY <2>3, OpenPlaces, RedirectAnswer
  <2> QED  BY <2>2, <2>4, RefuseSound
<1> QED  BY <1>1, <1>2, <1>3, <1>4, <1>5, <1>6, <1>7, <1>8

LEMMA RoutesApart ==
  /\ AuthRoutes \cap SourcesRoutes = {} /\ AuthRoutes \cap SchedulesRoutes = {}
  /\ SourcesRoutes \cap SchedulesRoutes = {}
BY DEF AuthRoutes, SourcesRoutes, SchedulesRoutes

LEMMA Served ==
  ASSUME NEW verb, NEW route, <<verb, route>> \in Routes, NEW item, NEW htmx,
         NEW o \in Serve(verb, route, item, htmx)
  PROVE  \/ <<verb, route>> \in AuthRoutes /\ o \in AnswerAccounts(verb, route)
         \/ <<verb, route>> \in SourcesRoutes /\ o \in AnswerSources(verb, route, item, htmx)
         \/ <<verb, route>> \in SchedulesRoutes /\ o \in AnswerSchedules(verb, route, item)
         \/ /\ <<verb, route>> \notin AuthRoutes \cup SourcesRoutes \cup SchedulesRoutes
            /\ o \in AnswerRecords(route, item, htmx)
PROOF
<1> PICK r : r = <<verb, route>>
  OBVIOUS
<1>1. CASE r \in AuthRoutes
  <2>1. r \notin SourcesRoutes /\ r \notin SchedulesRoutes
    BY <1>1, RoutesApart
  <2> QED  BY <1>1, <2>1 DEF Serve
<1>2. CASE r \in SourcesRoutes
  <2>1. r \notin AuthRoutes /\ r \notin SchedulesRoutes
    BY <1>2, RoutesApart
  <2> QED  BY <1>2, <2>1 DEF Serve
<1>3. CASE r \in SchedulesRoutes
  <2>1. r \notin AuthRoutes /\ r \notin SourcesRoutes
    BY <1>3, RoutesApart
  <2> QED  BY <1>3, <2>1 DEF Serve
<1>4. CASE r \notin AuthRoutes \cup SourcesRoutes \cup SchedulesRoutes
  BY <1>4 DEF Serve
<1> QED  BY <1>1, <1>2, <1>3, <1>4

\* A control htmx sends never gets a whole page.
LEMMA HtmxAnswered ==
  ASSUME ItemsInv, NEW verb, NEW route, <<verb, route>> \in Routes,
         verb = "GET" => \E target : <<route, target>> \in Loads,
         NEW item, NEW o \in Serve(verb, route, item, TRUE)
  PROVE  HtmxSound(verb, route, o)
PROOF
<1>1. verb = "GET" => route \in {"/sources", "/reports", "/invoices", "/usage/summary",
                                 "/usage/events", "/reports/activity"}
  BY DEF Loads
<1>2. CASE <<verb, route>> \in AuthRoutes /\ o \in AnswerAccounts(verb, route)
  <2>1. verb # "GET"
    BY <1>1, <1>2 DEF AuthRoutes
  <2> QED  BY <1>2, <2>1, HtmxAccounts
<1>3. CASE <<verb, route>> \in SourcesRoutes /\ o \in AnswerSources(verb, route, item, TRUE)
  <2>1. verb = "GET" => route = "/sources"
    BY <1>1, <1>3 DEF SourcesRoutes
  <2> QED  BY <1>3, <2>1, HtmxSources
<1>4. CASE <<verb, route>> \in SchedulesRoutes /\ o \in AnswerSchedules(verb, route, item)
  <2>1. verb # "GET"
    BY <1>1, <1>4 DEF SchedulesRoutes
  <2> QED  BY <1>4, <2>1, HtmxSchedules
<1>5. CASE /\ <<verb, route>> \notin AuthRoutes \cup SourcesRoutes \cup SchedulesRoutes
           /\ o \in AnswerRecords(route, item, TRUE)
  BY <1>5, HtmxRecords
<1> QED  BY <1>2, <1>3, <1>4, <1>5, Served

(***************************************************************************)
(* What each page answers a navigation.                                    *)
(***************************************************************************)

LEMMA AccountFields ==
  ASSUME account \in AccountKinds
  PROVE  account.longer \in BOOLEAN /\ account.admin \in BOOLEAN
         /\ account.workspaces \in BOOLEAN
BY PagesAssumption

LEMMA PageAnswer ==
  ASSUME ItemsInv, NEW route, NEW item, NEW elements, PageSound(route, elements, used),
         NEW o \in KeepAny({Whole(elements)})
  PROVE  VisitSound(route, item, o)
BY KeptAny, Kept, AnswerFields DEF VisitSound

LEMMA ItemPageAnswer ==
  ASSUME ItemsInv, NEW route, NEW item \in used, NEW elements,
         PageSound(route, elements, used),
         NEW o \in KeepAny({IF item \in present THEN Whole(elements) ELSE Refuse})
  PROVE  VisitSound(route, item, o)
PROOF
<1>1. o = Keep(IF item \in present THEN Whole(elements) ELSE Refuse)
  BY KeptAny
<1> QED  BY <1>1, Kept, AnswerFields DEF VisitSound

LEMMA VisitAccounts ==
  ASSUME ItemsInv, account \in AccountKinds, NEW route, <<"GET", route>> \in AuthRoutes,
         NEW item, NEW o \in AnswerAccounts("GET", route)
  PROVE  VisitSound(route, item, o)
PROOF
<1>1. route \in {"/login", "/register", "/select-tenant", "/", "/dashboard"}
  BY DEF AuthRoutes
<1>2. CASE route = "/login"
  <2>1. o \in KeepAny({Whole(Login)})
    BY <1>2 DEF AnswerAccounts
  <2> QED  BY <2>1, LoginPage, PageAnswer
<1>3. CASE route = "/register"
  <2>1. o \in KeepAny({Whole(Register)})
    BY <1>3 DEF AnswerAccounts
  <2> QED  BY <2>1, RegisterPage, PageAnswer
<1>4. CASE route = "/select-tenant"
  <2>1. o \in KeepAny({Whole(SelectTenant(account.workspaces))})
    BY <1>4 DEF AnswerAccounts
  <2>2. PageSound(route, SelectTenant(account.workspaces), used)
    BY AccountFields, TenantsPage
  <2> QED  BY <2>1, <2>2, PageAnswer
<1>5. CASE route = "/"
  <2>1. o \in KeepAny({Whole(Home)})
    BY <1>5 DEF AnswerAccounts
  <2> QED  BY <1>5, <2>1, PlainPages, PageAnswer
<1>6. CASE route = "/dashboard"
  <2>1. o \in KeepAny({Whole(Dashboard)})
    BY <1>6 DEF AnswerAccounts
  <2> QED  BY <1>6, <2>1, PlainPages, PageAnswer
<1> QED  BY <1>1, <1>2, <1>3, <1>4, <1>5, <1>6

LEMMA VisitSources ==
  ASSUME ItemsInv, account \in AccountKinds, NEW route, <<"GET", route>> \in SourcesRoutes,
         NEW item, route \in ItemPages => item \in used,
         NEW o \in AnswerSources("GET", route, item, FALSE)
  PROVE  VisitSound(route, item, o)
PROOF
<1>1. route \in {"/sources", "/sources/new", "/sources/:id", "/sources/:id/edit"}
  BY DEF SourcesRoutes
<1>2. CASE route = "/sources"
  <2> PICK rows : rows = PageSources \cap present
    OBVIOUS
  <2>1. o \in KeepAny({Whole(SourcesList(rows, account.longer))})
    BY <1>2 DEF AnswerSources, SourcesAnswer
  <2>2. rows \subseteq used
    BY DEF ItemsInv
  <2>3. PageSound(route, SourcesList(rows, account.longer), used)
    BY <1>2, <2>2, AccountFields, SourcesPage
  <2> QED  BY <2>1, <2>3, PageAnswer
<1>3. CASE route = "/sources/new"
  <2>1. o \in KeepAny({Whole(SourceForm(NoItem))})
    BY <1>3 DEF AnswerSources, NewSourceAnswer
  <2> QED  BY <2>1, SourceFormPage, PageAnswer
<1>4. CASE route = "/sources/:id"
  <2>1. o \in KeepAny({IF item \in present THEN Whole(SourceDetail(item)) ELSE Refuse})
    BY <1>4 DEF AnswerSources, SourceAnswer
  <2>2. item \in used
    BY <1>4 DEF ItemPages
  <2>3. PageSound(route, SourceDetail(item), used)
    BY <1>4, <2>2, SourceDetailPage
  <2> QED  BY <2>1, <2>2, <2>3, ItemPageAnswer
<1>5. CASE route = "/sources/:id/edit"
  <2>1. o \in KeepAny({IF item \in present THEN Whole(SourceForm(item)) ELSE Refuse})
    BY <1>5 DEF AnswerSources, EditSourceAnswer
  <2>2. item \in used
    BY <1>5 DEF ItemPages
  <2> QED  BY <2>1, <2>2, SourceFormPage, ItemPageAnswer
<1> QED  BY <1>1, <1>2, <1>3, <1>4, <1>5

LEMMA VisitSchedules ==
  ASSUME ItemsInv, NEW route, <<"GET", route>> \in SchedulesRoutes,
         NEW item, route \in ItemPages => item \in used,
         NEW o \in AnswerSchedules("GET", route, item)
  PROVE  VisitSound(route, item, o)
PROOF
<1>1. route \in {"/schedules", "/schedules/new", "/schedules/:id/edit"}
  BY DEF SchedulesRoutes
<1>2. CASE route = "/schedules"
  <2> PICK rows : rows = PageSchedules \cap present
    OBVIOUS
  <2>1. o \in KeepAny({Whole(SchedulesList(rows))})
    BY <1>2 DEF AnswerSchedules, SchedulesAnswer
  <2>2. rows \subseteq used
    BY DEF ItemsInv
  <2>3. PageSound(route, SchedulesList(rows), used)
    BY <1>2, <2>2, SchedulesPage
  <2> QED  BY <2>1, <2>3, PageAnswer
<1>3. CASE route = "/schedules/new"
  <2>1. o \in KeepAny({Whole(ScheduleForm(NoItem))})
    BY <1>3 DEF AnswerSchedules, NewScheduleAnswer
  <2> QED  BY <2>1, ScheduleFormPage, PageAnswer
<1>4. CASE route = "/schedules/:id/edit"
  <2>1. o \in KeepAny({IF item \in present THEN Whole(ScheduleForm(item)) ELSE Refuse})
    BY <1>4 DEF AnswerSchedules, EditScheduleAnswer
  <2>2. item \in used
    BY <1>4 DEF ItemPages
  <2> QED  BY <2>1, <2>2, ScheduleFormPage, ItemPageAnswer
<1> QED  BY <1>1, <1>2, <1>3, <1>4

LEMMA VisitRecords ==
  ASSUME ItemsInv, account \in AccountKinds, NEW route \in OpenPages \cup ItemPages,
         <<"GET", route>> \notin AuthRoutes \cup SourcesRoutes \cup SchedulesRoutes,
         NEW item, route \in ItemPages => item \in used,
         NEW o \in AnswerRecords(route, item, FALSE)
  PROVE  VisitSound(route, item, o)
PROOF
<1>1. route \in {"/reports", "/reports/:id", "/usage", "/invoices", "/invoices/:id",
                 "/settings"}
  BY DEF OpenPages, ItemPages, AuthRoutes, SourcesRoutes, SchedulesRoutes
<1>2. CASE route = "/reports"
  <2> PICK rows : rows = PageReports \cap present
    OBVIOUS
  <2>1. o \in KeepAny({Whole(ReportsList(rows, account.longer))})
    BY <1>2 DEF AnswerRecords, ReportsAnswer
  <2>2. rows \subseteq used
    BY DEF ItemsInv
  <2>3. PageSound(route, ReportsList(rows, account.longer), used)
    BY <1>2, <2>2, AccountFields, ReportsPage
  <2> QED  BY <2>1, <2>3, PageAnswer
<1>3. CASE route = "/invoices"
  <2> PICK rows : rows = PageInvoices \cap present
    OBVIOUS
  <2>1. o \in KeepAny({Whole(InvoicesList(rows, account.longer))})
    BY <1>3 DEF AnswerRecords, InvoicesAnswer
  <2>2. rows \subseteq used
    BY DEF ItemsInv
  <2>3. PageSound(route, InvoicesList(rows, account.longer), used)
    BY <1>3, <2>2, AccountFields, InvoicesPage
  <2> QED  BY <2>1, <2>3, PageAnswer
<1>4. CASE route = "/reports/:id"
  <2>1. o \in KeepAny({IF item \in present THEN Whole(ReportDetail) ELSE Refuse})
    BY <1>4 DEF AnswerRecords, ReportAnswer
  <2>2. item \in used
    BY <1>4 DEF ItemPages
  <2>3. PageSound(route, ReportDetail, used)
    BY <1>4, PlainPages
  <2> QED  BY <2>1, <2>2, <2>3, ItemPageAnswer
<1>5. CASE route = "/invoices/:id"
  <2>1. o \in KeepAny({IF item \in present THEN Whole(InvoiceDetail) ELSE Refuse})
    BY <1>5 DEF AnswerRecords, InvoiceAnswer
  <2>2. item \in used
    BY <1>5 DEF ItemPages
  <2>3. PageSound(route, InvoiceDetail, used)
    BY <1>5, PlainPages
  <2> QED  BY <2>1, <2>2, <2>3, ItemPageAnswer
<1>6. CASE route = "/usage"
  <2>1. o \in KeepAny({Whole(Usage(FALSE, FALSE))})
    BY <1>6 DEF AnswerRecords, UsageAnswer
  <2> QED  BY <1>6, <2>1, UsagePage, PageAnswer
<1>7. CASE route = "/settings"
  <2>1. o \in KeepAny({Whole(Settings(account.admin))})
    BY <1>7 DEF AnswerRecords, SettingsAnswer
  <2>2. PageSound(route, Settings(account.admin), used)
    BY <1>7, AccountFields, SettingsPage
  <2> QED  BY <2>1, <2>2, PageAnswer
<1> QED  BY <1>1, <1>2, <1>3, <1>4, <1>5, <1>6, <1>7

LEMMA Visited ==
  ASSUME ItemsInv, account \in AccountKinds, NEW route \in OpenPages \cup ItemPages,
         NEW item, route \in ItemPages => item \in used,
         NEW o \in Serve("GET", route, item, FALSE)
  PROVE  VisitSound(route, item, o)
PROOF
<1>1. <<"GET", route>> \in Routes
  BY PageRoutes
<1> QED  BY <1>1, Served, VisitAccounts, VisitSources, VisitSchedules, VisitRecords

(***************************************************************************)
(* The invariant.                                                          *)
(***************************************************************************)

LEMMA PagesInitial == PagesInit => PagesInv
PROOF
<1> SUFFICES ASSUME PagesInit PROVE PagesInv
  OBVIOUS
<1>1. /\ used = {} /\ present = {} /\ account \in AccountKinds
      /\ screen = [at |-> Place("/login", NoItem), elements |-> Login]
      /\ going = Nowhere /\ generated = FALSE /\ nested = FALSE /\ pageFaults = 0
  BY DEF PagesInit
<1>2. screen.at = Place("/login", NoItem) /\ screen.elements = Login
  BY <1>1
<1>3. PageSound("/login", Login, used)
  BY LoginPage
<1>4. Reachable(Place("/login", NoItem), used)
  BY OpenPlaces DEF OpenPages
<1>5. Place("/login", NoItem).route = "/login"
  BY PlaceFields
<1>6. ScreenInv
  BY <1>1, <1>2, <1>3, <1>4, <1>5 DEF ScreenInv, PageSound, FormPages
<1>7. GoingInv
  BY <1>1 DEF GoingInv
<1> QED  BY <1>1, <1>6, <1>7 DEF PagesInv

\* Other clients add and delete items; the screen does not notice.
LEMMA ElseWhereStep == PagesInv /\ ElseWhere => PagesInv'
PROOF
<1> SUFFICES ASSUME PagesInv, ElseWhere PROVE PagesInv'
  OBVIOUS
<1>1. /\ present \subseteq used /\ used \subseteq Items /\ account \in AccountKinds
      /\ generated \in BOOLEAN /\ nested = FALSE /\ pageFaults \in Nat
      /\ ScreenInv /\ GoingInv
  BY DEF PagesInv
<1>2. UNCHANGED <<account, screen, going, generated, nested, pageFaults>>
  BY DEF ElseWhere
<1>3. /\ present' \subseteq used' /\ used' \subseteq Items /\ used \subseteq used'
      /\ used \ present \subseteq used' \ present'
  <2>1. CASE \E i \in Items \ used : used' = used \cup {i} /\ present' = present \cup {i}
    BY <1>1, <2>1
  <2>2. CASE \E i \in present : present' = present \ {i} /\ UNCHANGED used
    BY <1>1, <2>2
  <2> QED  BY <2>1, <2>2 DEF ElseWhere
<1>4. ScreenInv'
  BY <1>1, <1>2, <1>3, KnownGrows DEF ScreenInv
<1>5. GoingInv'
  <2>1. going # Nowhere => Reachable(going.to, used')
    BY <1>1, <1>3, KnownGrows DEF GoingInv
  <2> QED  BY <1>1, <1>2, <1>3, <2>1 DEF GoingInv
<1> QED  BY <1>1, <1>2, <1>3, <1>4, <1>5 DEF PagesInv

LEMMA FollowStep == PagesInv /\ Follow => PagesInv'
PROOF
<1> SUFFICES ASSUME PagesInv, Follow PROVE PagesInv'
  OBVIOUS
<1>1. /\ present \subseteq used /\ used \subseteq Items /\ account \in AccountKinds
      /\ generated \in BOOLEAN /\ nested = FALSE /\ pageFaults \in Nat
      /\ ScreenInv
  BY DEF PagesInv
<1>2. PICK e \in screen.elements : \E c \in e.controls :
        /\ c.target = Browser
        /\ going' = [to |-> Place(c.route, c.item), from |-> screen.at, detours |-> 0]
        /\ UNCHANGED <<present, used, account, screen, generated, nested, pageFaults>>
  BY DEF Follow
<1>3. PICK c \in e.controls :
        /\ c.target = Browser
        /\ going' = [to |-> Place(c.route, c.item), from |-> screen.at, detours |-> 0]
        /\ UNCHANGED <<present, used, account, screen, generated, nested, pageFaults>>
  BY <1>2
<1>4. Reachable(Place(c.route, c.item), used)
  BY <1>1, <1>3 DEF ScreenInv, ElementSound, ControlSound, LinkSound
<1>5. ScreenInv'
  BY <1>1, <1>3 DEF ScreenInv
<1>6. GoingInv'
  <2>1. /\ going' = [to |-> going'.to, from |-> screen'.at, detours |-> going'.detours]
        /\ going'.to = Place(c.route, c.item) /\ going'.detours = 0
    BY <1>3
  <2>2. 0 \in 0 .. MaxDetours /\ 0 <= pageFaults
    BY <1>1, PagesAssumption
  <2> QED  BY <1>3, <1>4, <2>1, <2>2 DEF GoingInv
<1> QED  BY <1>1, <1>3, <1>5, <1>6 DEF PagesInv

LEMMA SwappedOut ==
  ASSUME NEW e, NEW c, NEW elements
  PROVE  Swapped(e, c, elements)
           = (screen.elements \ With(screen.elements, Out(screen.elements, e, c)))
               \cup {[x EXCEPT !.within = Into(e, c)] : x \in elements}
BY DEF Swapped, With, Out, Into

LEMMA PressStep == PagesInv /\ Press => PagesInv'
PROOF
<1> SUFFICES ASSUME PagesInv, Press PROVE PagesInv'
  OBVIOUS
<1>1. /\ present \subseteq used /\ used \subseteq Items /\ account \in AccountKinds
      /\ generated \in BOOLEAN /\ nested = FALSE /\ pageFaults \in Nat
      /\ ScreenInv /\ ItemsInv
  BY DEF PagesInv, ItemsInv
<1> DEFINE Sent(e, c, o) ==
        /\ c.target # Browser
        /\ c.target = Own \/ c.target \in IdsOn(screen.elements)
        /\ Answered(c.verb, c.route, c.item, TRUE, o)
        /\ present' = o.present /\ used' = o.used
        /\ going' = IF o.answer.kind = "redirect"
                    THEN [to |-> o.answer.to, from |-> screen.at, detours |-> 0] ELSE Nowhere
        /\ screen' = IF o.answer.kind \in {"fragment", "page"}
                     THEN [screen EXCEPT !.elements = Swapped(e, c, o.answer.elements)]
                     ELSE screen
        /\ nested' = (nested \/ o.answer.kind = "page")
        /\ generated' = (generated \/ (c.route = "/reports/generate"
                                         /\ o.answer.kind = "fragment"))
        /\ UNCHANGED account
<1>2a. PICK e \in screen.elements :
        \E c \in e.controls :
          \E o \in Serve(c.verb, c.route, c.item, TRUE) \cup {Keep(Refuse)} : Sent(e, c, o)
  BY ZenonT(30) DEF Press
<1>2b. PICK c \in e.controls :
        \E o \in Serve(c.verb, c.route, c.item, TRUE) \cup {Keep(Refuse)} : Sent(e, c, o)
  BY <1>2a
<1>2. PICK o \in Serve(c.verb, c.route, c.item, TRUE) \cup {Keep(Refuse)} : Sent(e, c, o)
  BY <1>2b
<1>3. ElementSound(e, used) /\ ControlSound(e, c, used)
  BY <1>1 DEF ScreenInv, ElementSound
<1>4. HtmxSound(c.verb, c.route, o)
  <2>1. CASE o = Keep(Refuse)
    BY <1>1, <2>1, RefuseSound
  <2>2. CASE o \in Serve(c.verb, c.route, c.item, TRUE)
    <3>1. <<c.verb, c.route>> \in Routes
      BY <1>3 DEF ControlSound
    <3>2. c.verb = "GET" => \E target : <<c.route, target>> \in Loads
      BY <1>2, <1>3 DEF ControlSound
    <3> QED  BY <1>1, <2>2, <3>1, <3>2, HtmxAnswered
  <2> QED  BY <1>2, <2>1, <2>2
<1>5. pageFaults' \in Nat /\ pageFaults <= pageFaults'
  <2>1. Answered(c.verb, c.route, c.item, TRUE, o)
    BY <1>2
  <2>2. pageFaults' = pageFaults \/ pageFaults' = pageFaults + 1
    BY <2>1 DEF Answered
  <2> QED  BY <1>1, <2>2
<1>6. /\ present' \subseteq used' /\ used' \subseteq Items /\ used \subseteq used'
      /\ used \ present \subseteq used' \ present'
  BY <1>2, <1>4 DEF HtmxSound, OutcomeSound
<1>7. nested' = FALSE
  BY <1>1, <1>2, <1>4 DEF HtmxSound
<1>8. generated' \in BOOLEAN /\ (generated => generated')
  BY <1>1, <1>2
<1>9. Reachable(screen.at, used') /\ \A x \in screen.elements : ElementSound(x, used')
  BY <1>1, <1>6, KnownGrows DEF ScreenInv
<1>10. ScreenInv'
  <2>1. CASE o.answer.kind # "fragment"
    <3>1. screen' = screen
      BY <1>2, <1>4, <2>1 DEF HtmxSound
    <3> QED  BY <1>1, <1>8, <1>9, <3>1 DEF ScreenInv
  <2>2. CASE o.answer.kind = "fragment"
    <3> PICK brought : brought = {[x EXCEPT !.within = Into(e, c)] : x \in o.answer.elements}
      OBVIOUS
    <3> PICK kept : kept = screen.elements
                             \ With(screen.elements, Out(screen.elements, e, c))
      OBVIOUS
    <3>1. screen' = [at |-> screen.at, elements |-> kept \cup brought]
      <4>1. screen' = [screen EXCEPT !.elements = Swapped(e, c, o.answer.elements)]
        BY <1>2, <2>2
      <4>2. screen = [at |-> screen.at, elements |-> screen.elements]
        BY <1>1 DEF ScreenInv
      <4>3. Swapped(e, c, o.answer.elements) = kept \cup brought
        BY SwappedOut
      <4> QED  BY <4>1, <4>2, <4>3
    <3>2. screen'.at = screen.at /\ screen'.elements = kept \cup brought
      BY <3>1
    <3>3. \A x \in o.answer.elements :
            /\ ElementSound([x EXCEPT !.within = Into(e, c)], used')
            /\ [x EXCEPT !.within = Into(e, c)].within = Into(e, c)
      <4>1. \A x \in o.answer.elements : Brought(c.verb, c.route, x, used')
        BY <1>2, <1>4, <2>2 DEF HtmxSound
      <4> QED  BY <1>2, <1>3, <4>1, BroughtSound
    <3>4. /\ \A x \in brought : ElementSound(x, used')
          /\ \A x \in brought : x.within = Into(e, c)
      BY <3>3
    <3>5. /\ Rooted(kept \cup brought)
          /\ \A x \in screen.elements :
               HoldsForm(x) /\ c.target # GenerateBody => x \in kept
      <4>1. \A x \in screen.elements : ElementSound(x, used)
        BY <1>1 DEF ScreenInv
      <4>2. Rooted(screen.elements)
        BY <1>1 DEF ScreenInv
      <4> QED  BY <1>2, <3>4, <4>1, <4>2, SwapSound
    <3>6. \A x \in kept \cup brought : ElementSound(x, used')
      BY <1>9, <3>4
    <3>7. screen.at.route \in FormPages =>
            generated' \/ \E x \in kept \cup brought : HoldsForm(x)
      <4>1. CASE c.target = GenerateBody
        <5>1. c.route = "/reports/generate"
          BY <1>2, <1>3, <4>1, IdsDiffer DEF ControlSound, TargetSound
        <5> QED  BY <1>2, <2>2, <5>1
      <4>2. CASE c.target # GenerateBody
        BY <1>1, <1>8, <3>5, <4>2 DEF ScreenInv
      <4> QED  BY <4>1, <4>2
    <3> QED  BY <1>9, <3>1, <3>2, <3>5, <3>6, <3>7 DEF ScreenInv
  <2> QED  BY <2>1, <2>2
<1>11. GoingInv'
  <2>1. CASE o.answer.kind # "redirect"
    BY <1>2, <2>1 DEF GoingInv
  <2>2. CASE o.answer.kind = "redirect"
    <3>1. /\ going' = [to |-> o.answer.to, from |-> screen.at, detours |-> 0]
          /\ screen' = screen
      BY <1>2, <2>2
    <3>2. /\ going' = [to |-> going'.to, from |-> screen'.at, detours |-> going'.detours]
          /\ going'.to = o.answer.to /\ going'.detours = 0
      BY <3>1
    <3>3. Reachable(o.answer.to, used')
      BY <1>2, <1>4, <2>2 DEF HtmxSound
    <3>4. 0 \in 0 .. MaxDetours /\ 0 <= pageFaults'
      BY <1>5, PagesAssumption
    <3> QED  BY <3>2, <3>3, <3>4 DEF GoingInv
  <2> QED  BY <2>1, <2>2
<1> QED  BY <1>1, <1>2, <1>5, <1>6, <1>7, <1>8, <1>10, <1>11 DEF PagesInv

LEMMA ArriveStep == PagesInv /\ Arrive => PagesInv'
PROOF
<1> SUFFICES ASSUME PagesInv, Arrive PROVE PagesInv'
  OBVIOUS
<1>1. /\ present \subseteq used /\ used \subseteq Items /\ account \in AccountKinds
      /\ generated \in BOOLEAN /\ nested = FALSE /\ pageFaults \in Nat
      /\ ScreenInv /\ ItemsInv /\ GoingInv /\ going # Nowhere
  BY DEF PagesInv, ItemsInv, Arrive
<1>2. PICK o \in Serve("GET", going.to.route, going.to.item, FALSE) \cup {Keep(Refuse)} :
        /\ Answered("GET", going.to.route, going.to.item, FALSE, o)
        /\ IF o.answer.kind = "page"
           THEN /\ screen' = [at |-> going.to, elements |-> o.answer.elements]
                /\ going' = Nowhere /\ generated' = FALSE
           ELSE /\ going' = [going EXCEPT
                               !.to = going.from,
                               !.detours = IF @ < MaxDetours THEN @ + 1 ELSE @]
                /\ UNCHANGED <<screen, generated>>
  BY DEF Arrive
<1>3. UNCHANGED <<present, used, account, nested>>
  BY DEF Arrive
<1>4. /\ going = [to |-> going.to, from |-> screen.at, detours |-> going.detours]
      /\ going.from = screen.at
      /\ Reachable(going.to, used) /\ going.detours \in 0 .. MaxDetours
      /\ \/ going.detours <= pageFaults
         \/ going.to = going.from /\ going.detours <= 1 + pageFaults
         \/ going.from.item \in used \ present
  BY <1>1 DEF GoingInv
<1> PICK detours : detours = going.detours
  OBVIOUS
<1>5. detours \in Nat /\ detours <= MaxDetours /\ MaxDetours \in Nat
  BY <1>4, PagesAssumption
<1>6. \/ VisitSound(going.to.route, going.to.item, o) /\ pageFaults' = pageFaults
      \/ o.answer.kind = "error" /\ pageFaults' = pageFaults + 1
  <2>1. /\ going.to.route \in OpenPages \cup ItemPages
        /\ going.to.route \in ItemPages => going.to.item \in used
    BY <1>4 DEF Reachable
  <2>2. CASE /\ o \in Serve("GET", going.to.route, going.to.item, FALSE)
             /\ UNCHANGED pageFaults
    BY <1>1, <2>1, <2>2, Visited
  <2>3. CASE o = Keep(Refuse) /\ pageFaults' = pageFaults + 1
    BY <1>1, <2>3, Kept, AnswerFields
  <2> QED  BY <1>2, <2>2, <2>3 DEF Answered
<1>7. pageFaults' \in Nat
  BY <1>1, <1>6
<1>8. CASE o.answer.kind = "page"
  <2>1. /\ screen' = [at |-> going.to, elements |-> o.answer.elements]
        /\ going' = Nowhere /\ generated' = FALSE
    BY <1>2, <1>8
  <2>2. screen'.at = going.to /\ screen'.elements = o.answer.elements
    BY <2>1
  <2>3. PageSound(going.to.route, o.answer.elements, used)
    BY <1>6, <1>8 DEF VisitSound
  <2>4. ScreenInv'
    BY <1>3, <1>4, <2>1, <2>2, <2>3 DEF ScreenInv, PageSound
  <2>5. GoingInv'
    BY <2>1 DEF GoingInv
  <2> QED  BY <1>1, <1>3, <1>7, <2>1, <2>4, <2>5 DEF PagesInv
<1>9. CASE o.answer.kind # "page"
  <2> PICK more : more = IF detours < MaxDetours THEN detours + 1 ELSE detours
    OBVIOUS
  <2>1. more \in 0 .. MaxDetours /\ more <= detours + 1
    BY <1>5
  <2>2. going' = [to |-> screen.at, from |-> screen.at, detours |-> more]
    <3>1. going' = [going EXCEPT !.to = going.from,
                                 !.detours = IF @ < MaxDetours THEN @ + 1 ELSE @]
      BY <1>2, <1>9
    <3> QED  BY <1>4, <3>1
  <2>3. UNCHANGED <<screen, generated>>
    BY <1>2, <1>9
  <2>4. /\ going' = [to |-> going'.to, from |-> screen'.at, detours |-> going'.detours]
        /\ going'.to = screen.at /\ going'.from = screen.at /\ going'.detours = more
    BY <2>2, <2>3
  <2>5. \/ more <= 1 + pageFaults'
        \/ screen.at.item \in used \ present
    <3>1. CASE pageFaults' = pageFaults + 1
      <4>1. detours <= 1 + pageFaults \/ screen.at.item \in used \ present
        BY <1>1, <1>4, <1>5
      <4>2. detours <= 1 + pageFaults => more <= 1 + pageFaults'
        BY <1>1, <1>5, <2>1, <3>1
      <4> QED  BY <4>1, <4>2
    <3>2. CASE VisitSound(going.to.route, going.to.item, o) /\ pageFaults' = pageFaults
      <4>1. going.to.item \in used \ present
        BY <1>9, <3>2 DEF VisitSound
      <4>2. detours <= pageFaults => more <= 1 + pageFaults'
        BY <1>1, <1>5, <2>1, <3>2
      <4>3. going.to = going.from => screen.at.item \in used \ present
        BY <1>4, <4>1
      <4> QED  BY <1>4, <4>2, <4>3
    <3> QED  BY <1>6, <3>1, <3>2
  <2>6. Reachable(screen.at, used)
    BY <1>1 DEF ScreenInv
  <2>7. GoingInv'
    <3>1. /\ Reachable(going'.to, used') /\ going'.detours \in 0 .. MaxDetours
          /\ going'.to = going'.from
      BY <1>3, <2>1, <2>4, <2>6
    <3>2. going'.detours <= 1 + pageFaults' \/ going'.from.item \in used' \ present'
      BY <1>3, <2>4, <2>5
    <3> QED  BY <2>4, <3>1, <3>2 DEF GoingInv
  <2>8. ScreenInv'
    BY <1>1, <1>3, <2>3 DEF ScreenInv
  <2> QED  BY <1>1, <1>3, <1>7, <2>3, <2>7, <2>8 DEF PagesInv
<1> QED  BY <1>8, <1>9

LEMMA PagesStep == PagesInv /\ [PagesNext]_pagesVars => PagesInv'
PROOF
<1> SUFFICES ASSUME PagesInv, [PagesNext]_pagesVars PROVE PagesInv'
  OBVIOUS
<1>1. CASE UNCHANGED pagesVars
  <2>1. UNCHANGED <<present, used, account, screen, going, generated, nested, pageFaults>>
    BY <1>1 DEF pagesVars
  <2>2. ScreenInv' /\ GoingInv'
    BY <2>1 DEF PagesInv, ScreenInv, GoingInv
  <2> QED  BY <2>1, <2>2 DEF PagesInv
<1> QED  BY <1>1, ElseWhereStep, FollowStep, PressStep, ArriveStep DEF PagesNext

LEMMA PagesInvariant == PagesSpec => []PagesInv
BY PagesInitial, PagesStep, PTL DEF PagesSpec

\* Whatever is swapped in, every element of a screen lies in a part of the page
\* that is there (the templates' hx-target), and the ids of items are given once.
THEOREM PagesTyped == PagesSpec => []PagesTypeOK
PROOF
<1>1. PagesInv => PagesTypeOK
  <2> SUFFICES ASSUME PagesInv PROVE PagesTypeOK
    OBVIOUS
  <2>1. \A e \in screen.elements : e.within \in IdsOn(screen.elements)
    BY DEF PagesInv, ScreenInv, Rooted
  <2>2. going = Nowhere \/ going.detours \in 0 .. MaxDetours
    BY DEF PagesInv, GoingInv
  <2> QED  BY <2>1, <2>2 DEF PagesInv, PagesTypeOK
<1> QED  BY <1>1, PagesInvariant, PTL

\* After any swaps, deletions and navigations every control on the screen reaches
\* a route, carries its token and finds its target, the form of the page is still
\* there, and a refused navigation comes back (web/templates, webErrorHandler).
THEOREM PageControlsWork == PagesSpec => []ControlsWork
PROOF
<1>1. PagesInv => ControlsWork
  <2> SUFFICES ASSUME PagesInv PROVE ControlsWork
    OBVIOUS
  <2>1. /\ \A e \in screen.elements : ElementSound(e, used)
        /\ Rooted(screen.elements) /\ ~nested /\ GoingInv
        /\ screen.at.route \in FormPages =>
             generated \/ \E e \in screen.elements : HoldsForm(e)
        /\ used \subseteq Items /\ pageFaults \in Nat
    BY DEF PagesInv, ScreenInv
  <2>2. ASSUME NEW e \in screen.elements, NEW c \in e.controls
        PROVE  /\ <<c.verb, c.route>> \in Routes
               /\ c.verb # "GET" => c.token
               /\ c.target \in IdsOn(screen.elements) \cup {Own, Browser}
    <3>1. ElementSound(e, used) /\ ControlSound(e, c, used)
      BY <2>1 DEF ElementSound
    <3>2. e.ids \cup {e.within} \subseteq IdsOn(screen.elements)
      BY <2>1 DEF Rooted, IdsOn
    <3> QED  BY <3>1, <3>2 DEF ControlSound, TargetSound
  <2>3. screen.at.route \in FormPages =>
          generated \/ \E c \in UNION {e.controls : e \in screen.elements} :
                         c.verb \in {"POST", "PUT"}
    BY <2>1 DEF HoldsForm
  <2>4. going # Nowhere =>
          going.detours <= 1 + pageFaults \/ going.from.item \in Items \ present
    <3>1. going # Nowhere =>
            /\ going.detours \in 0 .. MaxDetours
            /\ \/ going.detours <= pageFaults
               \/ going.to = going.from /\ going.detours <= 1 + pageFaults
               \/ going.from.item \in used \ present
      BY <2>1 DEF GoingInv
    <3>2. going # Nowhere /\ going.detours <= pageFaults => going.detours <= 1 + pageFaults
      BY <2>1, <3>1, PagesAssumption
    <3> QED  BY <2>1, <3>1, <3>2
  <2>5. \A c \in UNION {e.controls : e \in screen.elements} :
          /\ <<c.verb, c.route>> \in Routes
          /\ c.verb # "GET" => c.token
          /\ c.target \in IdsOn(screen.elements) \cup {Own, Browser}
    BY <2>2
  <2> QED  BY <2>1, <2>3, <2>4, <2>5 DEF ControlsWork
<1> QED  BY <1>1, PagesInvariant, PTL
=============================================================================
