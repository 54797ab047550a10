----------------------------- MODULE WebSession -----------------------------
(***************************************************************************)
(* One browser and the middleware of the web pages (internal/web and       *)
(* internal/auth): the cookies for the session, the workspace, the CSRF    *)
(* token and the flash message, the forms that set them, and the redirects *)
(* of webErrorHandler.  A navigation is a request and the redirects that   *)
(* follow it; cookies may expire between any two of them.                  *)
(*                                                                         *)
(* "/" and "/dashboard" stand for every page under CookieTenantMiddleware. *)
(***************************************************************************)
EXTENDS Naturals

CONSTANTS
  People,            \* users, each with an e-mail address
  Workspaces,        \* tenants
  MaxVisits,         \* bound on navigations the user begins
  MaxHops,           \* redirects counted; a longer chain counts as this many
  MaxSessionFaults,  \* bound on expired cookies and failed lookups
  Nobody,            \* no session cookie
  NoWorkspace,       \* no workspace cookie
  NoPage             \* no request; no page the navigation came from

VARIABLES
  cookies,        \* jwt, whether its token is valid, tenant, flash, csrf
  page,           \* the page shown and the CSRF token in its forms
  request,        \* the request under way
  accounts,       \* users registered
  workspaces,     \* tenants that have a row
  memberships,    \* <<user, tenant>>
  tokens,         \* CSRF tokens generated
  hops,           \* redirects since the user acted
  astray,         \* history: one of them was for a foreign workspace
  visits, sessionFaults

serverVars     == <<accounts, workspaces, memberships>>
webSessionVars == <<cookies, page, request, serverVars, tokens, hops, astray,
                    visits, sessionFaults>>

PublicPages == {"/login", "/register"}
TenantPages == {"/", "/dashboard"}
Paths == PublicPages \cup TenantPages
           \cup {"/select-tenant", "/create-tenant", "/logout"}

Cookies ==
  [jwt : People \cup {Nobody}, valid : BOOLEAN, csrf : Nat,
   tenant : Workspaces \cup {NoWorkspace}, flash : BOOLEAN]

WebRequests ==
  [method : {"GET", "POST"}, path : Paths, htmx : BOOLEAN, token : Nat,
   referer : Paths \cup {NoPage}, user : People, tenant : Workspaces]

ASSUME SessionAssumption ==
  /\ MaxHops \in Nat
  /\ Nobody \notin People /\ NoWorkspace \notin Workspaces
  /\ NoPage \notin WebRequests \cup Paths

WebSessionTypeOK ==
  /\ cookies \in Cookies
  /\ page \in [path : Paths \cup {NoPage}, token : Nat]
  /\ request \in WebRequests \cup {NoPage}
  /\ accounts \subseteq People /\ workspaces \subseteq Workspaces
  /\ memberships \subseteq People \X Workspaces
  /\ hops \in 0 .. MaxHops /\ astray \in BOOLEAN
  /\ {tokens, visits, sessionFaults} \subseteq Nat

WebSessionInit ==
  /\ cookies = [jwt |-> Nobody, valid |-> FALSE, csrf |-> 0,
                tenant |-> NoWorkspace, flash |-> FALSE]
  /\ page = [path |-> NoPage, token |-> 0]
  /\ request = NoPage
  /\ accounts = {} /\ workspaces = {} /\ memberships = {}
  /\ tokens = 0 /\ hops = 0 /\ astray = FALSE /\ visits = 0 /\ sessionFaults = 0

-----------------------------------------------------------------------------
\* The user opens a page, by a link on the page shown or by its address, or
\* sends a form of the page shown, with htmx or without.
Begin(r) ==
  /\ request = NoPage /\ visits < MaxVisits
  /\ visits' = visits + 1
  /\ request' = r
  /\ hops' = 0 /\ astray' = FALSE
  /\ UNCHANGED <<cookies, page, serverVars, tokens, sessionFaults>>

Visit ==
  \E path \in PublicPages \cup TenantPages \cup {"/select-tenant"},
     referer \in {NoPage, page.path}, u \in People, t \in Workspaces :
    /\ u = CHOOSE v \in People : TRUE
    /\ t = CHOOSE v \in Workspaces : TRUE
    /\ Begin([method |-> "GET", path |-> path, htmx |-> FALSE, token |-> 0,
              referer |-> referer, user |-> u, tenant |-> t])

\* The pages of a workspace have no form and no link that leads out of it.
FormsOf(path) ==
  CASE path \in PublicPages -> {path}
    [] path = "/select-tenant" -> {"/select-tenant", "/create-tenant", "/logout"}
    [] OTHER -> {}

Submit ==
  \E u \in People, t \in Workspaces, htmx \in BOOLEAN,
     path \in FormsOf(page.path) :
    Begin([method |-> "POST", path |-> path, htmx |-> htmx,
           token |-> page.token, referer |-> page.path, user |-> u, tenant |-> t])

-----------------------------------------------------------------------------
\* What the server answers.  A response to a safe method issues a CSRF cookie
\* where there is none.

Csrf(c) == IF request.method = "GET" /\ c.csrf = 0
           THEN [c EXCEPT !.csrf = tokens + 1] ELSE c

CsrfIssued == tokens' = IF request.method = "GET" /\ cookies.csrf = 0
                        THEN tokens + 1 ELSE tokens

\* Render: FlashMiddleware has cleared the flash cookie on the groups it serves.
Show(path, c) ==
  /\ CsrfIssued
  /\ cookies' = Csrf(c)
  /\ page' = [path |-> path, token |-> Csrf(c).csrf]
  /\ request' = NoPage
  /\ UNCHANGED <<hops, astray, visits, sessionFaults>>

IsMember(u, t) == <<u, t>> \in memberships

\* The workspace of another user who used this browser: login leaves the cookie.
ForeignWorkspace ==
  /\ cookies.jwt # Nobody /\ cookies.tenant # NoWorkspace
  /\ ~ IsMember(cookies.jwt, cookies.tenant)

\* A redirect, or for htmx HX-Redirect: the browser keeps the referer of the
\* first and sends the page shown as the referer of the second.
RedirectTo(path, c) ==
  /\ CsrfIssued
  /\ cookies' = Csrf(c)
  /\ request' = [request EXCEPT !.method = "GET", !.path = path, !.htmx = FALSE,
                                !.token = 0]
  /\ hops' = IF hops < MaxHops THEN hops + 1 ELSE MaxHops
  /\ astray' = (astray \/ ForeignWorkspace)
  /\ UNCHANGED <<page, visits>>

\* A fragment of HTML for htmx: the page stays.
Stay(c) ==
  /\ cookies' = c
  /\ request' = NoPage
  /\ UNCHANGED <<page, tokens, hops, astray, visits>>

WithFlash(c) == [c EXCEPT !.flash = TRUE]

\* webErrorHandler for a 401 and for every other error.
Unauthorized ==
  IF request.htmx THEN Stay(cookies) ELSE RedirectTo("/login", WithFlash(cookies))

WebError ==
  IF request.htmx THEN Stay(cookies)
  ELSE RedirectTo(IF request.referer = NoPage THEN "/" ELSE request.referer,
                  WithFlash(cookies))

\* AuthHandler.authError: a fragment, or back to the path of the form.
AuthError ==
  IF request.htmx THEN Stay(cookies)
  ELSE RedirectTo(request.path, WithFlash(cookies))

-----------------------------------------------------------------------------
Handles(method, path) ==
  /\ request # NoPage
  /\ request.method = method /\ request.path = path

\* CSRFMiddleware: the token of the form must be the token of the cookie.
TokenAccepted ==
  request.method = "GET" \/ (cookies.csrf # 0 /\ request.token = cookies.csrf)

RejectForm ==
  /\ request # NoPage /\ ~ TokenAccepted
  /\ WebError
  /\ UNCHANGED <<serverVars, sessionFaults>>

\* /login and /register lie outside the group that reads the flash cookie.
PublicPage ==
  \E path \in PublicPages :
    /\ Handles("GET", path)
    /\ Show(path, cookies)
    /\ UNCHANGED serverVars

\* The workspace cookie is left as it is.
SetJWT(u) == [cookies EXCEPT !.jwt = u, !.valid = TRUE]

\* authService: an account and its password are one value here.
Authenticates(u) == u \in accounts

CreateAccount(u) == accounts' = accounts \cup {u}

LoginSubmit ==
  /\ Handles("POST", "/login") /\ TokenAccepted
  /\ IF Authenticates(request.user)
     THEN RedirectTo("/select-tenant", SetJWT(request.user)) ELSE AuthError
  /\ UNCHANGED <<serverVars, sessionFaults>>

\* Register, then login with the same credentials.
RegisterSubmit ==
  /\ Handles("POST", "/register") /\ TokenAccepted
  /\ IF Authenticates(request.user) THEN AuthError
     ELSE RedirectTo("/select-tenant", SetJWT(request.user))
  /\ CreateAccount(request.user)
  /\ UNCHANGED <<workspaces, memberships, sessionFaults>>

\* Only POST is routed for these paths.
MethodNotAllowed ==
  /\ Handles("GET", "/create-tenant") \/ Handles("GET", "/logout")
  /\ WebError
  /\ UNCHANGED <<serverVars, sessionFaults>>

-----------------------------------------------------------------------------
\* CookieAuthMiddleware: no cookie falls back to the Authorization header,
\* which a browser does not send.
ValidateToken == cookies.valid

SignedIn == cookies.jwt # Nobody /\ ValidateToken

Private(path) ==
  /\ request # NoPage /\ TokenAccepted
  /\ request.path = path
  /\ path \notin PublicPages
  /\ request.method = "GET" => path \notin {"/create-tenant", "/logout"}

CookieAuthRefuses ==
  /\ request # NoPage /\ Private(request.path) /\ ~ SignedIn
  /\ Unauthorized
  /\ UNCHANGED <<serverVars, sessionFaults>>

ReadFlash == [cookies EXCEPT !.flash = FALSE]

SelectTenantPage ==
  /\ Handles("GET", "/select-tenant") /\ SignedIn
  /\ Show("/select-tenant", ReadFlash)
  /\ UNCHANGED serverVars

SetTenant(t) == [cookies EXCEPT !.tenant = t]

SelectTenantSubmit ==
  /\ Handles("POST", "/select-tenant") /\ Private("/select-tenant") /\ SignedIn
  /\ IF IsMember(cookies.jwt, request.tenant)
     THEN RedirectTo("/dashboard", SetTenant(request.tenant))
     ELSE AuthError
  /\ UNCHANGED <<serverVars, sessionFaults>>

CreateTenantSubmit ==
  /\ Handles("POST", "/create-tenant") /\ Private("/create-tenant") /\ SignedIn
  /\ IF request.tenant \in workspaces
     THEN AuthError /\ UNCHANGED serverVars
     ELSE /\ RedirectTo("/dashboard", SetTenant(request.tenant))
          /\ workspaces' = workspaces \cup {request.tenant}
          /\ memberships' = memberships \cup {<<cookies.jwt, request.tenant>>}
          /\ UNCHANGED accounts
  /\ UNCHANGED sessionFaults

ClearCookies ==
  [cookies EXCEPT !.jwt = Nobody, !.valid = FALSE, !.tenant = NoWorkspace]

Logout ==
  /\ Handles("POST", "/logout") /\ Private("/logout") /\ SignedIn
  /\ RedirectTo("/login", ClearCookies)
  /\ UNCHANGED <<serverVars, sessionFaults>>

-----------------------------------------------------------------------------
\* CookieTenantMiddleware, on the pages of a workspace.
UnderTenant == /\ request # NoPage /\ request.path \in TenantPages /\ SignedIn

\* Mutant of NoTenantCookie: home instead of the choice of a workspace.
XNoTenantCookieHome ==
  /\ UnderTenant /\ cookies.tenant = NoWorkspace
  /\ RedirectTo("/", cookies)
  /\ UNCHANGED <<serverVars, sessionFaults>>

NoTenantCookie ==
  /\ UnderTenant /\ cookies.tenant = NoWorkspace
  /\ RedirectTo("/select-tenant", cookies)
  /\ UNCHANGED <<serverVars, sessionFaults>>

\* The workspace has no row, the user is no member, or a lookup failed: a failed
\* lookup reads as either.
TenantRefused ==
  /\ UnderTenant /\ cookies.tenant # NoWorkspace
  /\ \/ /\ cookies.tenant \notin workspaces \/ ~ IsMember(cookies.jwt, cookies.tenant)
        /\ UNCHANGED sessionFaults
     \/ /\ sessionFaults < MaxSessionFaults
        /\ sessionFaults' = sessionFaults + 1
  /\ WebError
  /\ UNCHANGED serverVars

TenantPage ==
  /\ UnderTenant
  /\ cookies.tenant \in workspaces /\ IsMember(cookies.jwt, cookies.tenant)
  /\ Show(request.path, ReadFlash)
  /\ UNCHANGED serverVars

ServeRequest ==
  \/ RejectForm \/ PublicPage \/ LoginSubmit \/ RegisterSubmit \/ MethodNotAllowed
  \/ CookieAuthRefuses \/ SelectTenantPage \/ SelectTenantSubmit
  \/ CreateTenantSubmit \/ Logout \/ NoTenantCookie \/ TenantRefused \/ TenantPage

-----------------------------------------------------------------------------
\* A cookie passes its MaxAge, the token in the session cookie expires, or the
\* browser is closed and forgets the CSRF cookie.
Forget(c) ==
  /\ sessionFaults < MaxSessionFaults
  /\ sessionFaults' = sessionFaults + 1
  /\ c # cookies /\ cookies' = c
  /\ UNCHANGED <<page, request, serverVars, tokens, hops, astray, visits>>

CookieExpires ==
  \/ Forget([cookies EXCEPT !.valid = FALSE])
  \/ Forget([cookies EXCEPT !.jwt = Nobody, !.valid = FALSE])
  \/ Forget([cookies EXCEPT !.tenant = NoWorkspace])
  \/ Forget([cookies EXCEPT !.csrf = 0])
  \/ /\ cookies.flash /\ cookies' = [cookies EXCEPT !.flash = FALSE]
     /\ UNCHANGED <<page, request, serverVars, tokens, hops, astray, visits,
                    sessionFaults>>

WebSessionNext == Visit \/ Submit \/ ServeRequest \/ CookieExpires

WebSessionSpec == WebSessionInit /\ [][WebSessionNext]_webSessionVars

-----------------------------------------------------------------------------
\* A navigation ends in a page after at most two redirects, and one more for
\* each cookie that expires or lookup that fails, unless the workspace cookie
\* names a workspace the user is no member of: then "/" redirects to itself.
NavigationSettles == hops <= 2 + sessionFaults \/ astray
=============================================================================
