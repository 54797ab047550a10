------------------------------ MODULE MCPortal ------------------------------
(***************************************************************************)
(* A small instance of every part of the web application: the behaviours   *)
(* are those of one component, the focus, while the others stay as they    *)
(* began.  The focus "algorithms" has no steps: each of its initial states *)
(* is one input of the pure algorithms.                                    *)
(***************************************************************************)
EXTENDS Tenancy, Schedules, WebSession, ListPages, Invoicing, Lifecycle, Pages,
        CronForm, Chunking, Presentation, SequencesExt

VARIABLES focus, sample

NoSample == [of |-> "nothing"]

MCPeriodStart == [r \in Rows |-> IF r = 3 THEN 2 ELSE r]

MCAccountKinds ==
  {[longer |-> b, admin |-> b, workspaces |-> b, busy |-> b] : b \in BOOLEAN}

-----------------------------------------------------------------------------
\* The inputs of the algorithms.

Times ==
  {NoTime} \cup {[hour |-> t[1], minute |-> t[2]] :
                   t \in {<<0, 0>>, <<9, 5>>, <<23, 59>>, <<Star, 5>>, <<9, Other>>}}

SomeForms ==
  [type : FormTypes \cup {NoWord}, time : Times,
   dow : {Empty, Star, Other, 0, 1, 6},
   dom : {Empty, Star, Other, 1, 2, 3, 4, 10, 11, 13, 20, 21, 22, 23, 30, 31}]

SomeCrons ==
  [minute : {Star, Other, 0, 60}, hour : {Star, Other, 9, 24},
   dom : {Star, Other, 1, 11, 22, 31}, month : {Star, 6}, dow : {Star, Other, 0, 7}]

CronSamples ==
  \/ \E f \in SomeForms : sample = [of |-> "form", form |-> f]
  \/ \E t \in FormTypes, c \in SomeCrons : sample = [of |-> "cron", type |-> t, cron |-> c]

Paragraphs == [runes : {0, 1, 2, 4, 7}, wide : BOOLEAN]

PdfLines ==
  {[blank |-> k = "blank", ends |-> k = "ends", hyphen |-> k = "hyphen"] :
     k \in {"blank", "word", "ends", "hyphen"}}

TableBodies ==
  {b \in SeqOf({"row", "cell", "body", "blank"}, 5) :
     \A i \in DOMAIN b : b[i] = "cell" => \E j \in 1 .. i - 1 : b[j] = "row"}

TextSamples ==
  \/ \E size \in {3, 4}, overlap \in 1 .. 3, doc \in SeqOf(Paragraphs, 3) :
       sample = [of |-> "chunks", size |-> size, overlap |-> overlap, doc |-> doc]
  \/ \E lines \in SeqOf(PdfLines, 5) : sample = [of |-> "page", lines |-> lines]
  \/ \E body \in TableBodies : sample = [of |-> "table", body |-> body]
  \/ \E size \in {3, 4}, sheets \in SeqOf(SeqOf({"text", "blank"}, 4), 2) :
       sample = [of |-> "sheets", size |-> size, sheets |-> sheets]

Spendings ==
  {0, 79 * Cent, 80 * Cent, 95 * Cent - 1, 95 * Cent, 95 * Cent + 1, 99 * Cent,
   100 * Cent, 101 * Cent}

ViewSamples ==
  \/ \E budget \in {NotANumber, 0, 100 * Cent}, mtd \in Spendings,
        model \in {"qwen-max", "text-embedding", "unpriced"}, input \in {0, 1000, 5000} :
       sample = [of |-> "budget", budget |-> budget, mtd |-> mtd, model |-> model,
                 input |-> input, output |-> 20 * input]
  \/ \E budget \in {Huge, Unparsed, Negative, NotANumber, 0, 1, Cent \div 2 - 1,
                    Cent \div 2 + 1, Cent, 3 * Cent + 7, 3 * Cent + 70007} :
       sample = [of |-> "field", budget |-> budget]
  \/ \E kind \in DOMAIN BadgeKinds : \E value \in BadgeKinds[kind] :
       sample = [of |-> "badge", badge |-> kind, value |-> value]
  \/ \E status \in BadgeKinds["job"], error, focused \in BOOLEAN,
        live \in {NoStatus} \cup
          [state : {"pending", "retry", "active", "completed", "archived", "other"},
           lastErr : BOOLEAN] :
       sample = [of |-> "job", job |-> [status |-> status, error |-> error],
                 live |-> live, focused |-> focused]
  \/ \E count \in {0, 999, 1000, 1049, 1050, 999949, 999950, 999999, 1000000, 12345678},
        seconds \in {-5, 0, 59, 60, 119, 120, 3599, 3600, 86399, 86400, 200000},
        active \in SUBSET (1 .. 3) :
       sample = [of |-> "numbers", tokens |-> count, seconds |-> seconds, active |-> active]

-----------------------------------------------------------------------------
PortalInit ==
  /\ focus \in {"tenancy", "schedules", "session", "lists", "invoicing", "lifecycle",
                "pages", "algorithms"}
  /\ IF focus = "algorithms" THEN CronSamples \/ TextSamples \/ ViewSamples
                             ELSE sample = NoSample
  /\ TenancyInit /\ SchedulesInit /\ WebSessionInit /\ InvoicingInit
  /\ ListInit /\ (focus # "lists" => created = 1)
  /\ LifecycleInit /\ (focus # "lifecycle" => process = "server")
  /\ PagesInit /\ (focus # "pages" => account.admin)

PortalNext ==
  \/ /\ focus = "tenancy" /\ TenancyNext
     /\ UNCHANGED <<focus, sample, schedulesVars, webSessionVars, listVars, invoicingVars,
                    lifecycleVars, pagesVars>>
  \/ /\ focus = "schedules" /\ SchedulesNext
     /\ UNCHANGED <<focus, sample, tenancyVars, webSessionVars, listVars, invoicingVars,
                    lifecycleVars, pagesVars>>
  \/ /\ focus = "session" /\ WebSessionNext
     /\ UNCHANGED <<focus, sample, tenancyVars, schedulesVars, listVars, invoicingVars,
                    lifecycleVars, pagesVars>>
  \/ /\ focus = "lists" /\ ListNext
     /\ UNCHANGED <<focus, sample, tenancyVars, schedulesVars, webSessionVars,
                    invoicingVars, lifecycleVars, pagesVars>>
  \/ /\ focus = "invoicing" /\ InvoicingNext
     /\ UNCHANGED <<focus, sample, tenancyVars, schedulesVars, webSessionVars, listVars,
                    lifecycleVars, pagesVars>>
  \/ /\ focus = "lifecycle" /\ LifecycleNext
     /\ UNCHANGED <<focus, sample, tenancyVars, schedulesVars, webSessionVars, listVars,
                    invoicingVars, pagesVars>>
  \/ /\ focus = "pages" /\ PagesNext
     /\ UNCHANGED <<focus, sample, tenancyVars, schedulesVars, webSessionVars, listVars,
                    invoicingVars, lifecycleVars>>

portalVars == <<focus, sample, tenancyVars, schedulesVars, webSessionVars, listVars,
                invoicingVars, lifecycleVars, pagesVars>>

PortalSpec == PortalInit /\ [][PortalNext]_portalVars

-----------------------------------------------------------------------------
\* Every part keeps its types.
PortalTypeOK ==
  /\ TenancyTypeOK /\ SchedulesTypeOK /\ WebSessionTypeOK /\ ListTypeOK
  /\ InvoicingTypeOK /\ LifecycleTypeOK /\ PagesTypeOK

\* The pure algorithms do what their readers rely on, for every input sampled: the
\* cron expressions of the schedule form mean the same to the form, the service and
\* the list; no text of a file is lost on its way into chunks; and what the pages
\* say of budgets, statuses and numbers is what the services do.  The definitions
\* named here say where the code falls short of that.
AlgorithmsAgree ==
  focus = "algorithms" =>
    CASE sample.of = "form" -> FormAgrees(sample.form)
      [] sample.of = "cron" -> CronAgrees(sample.type, sample.cron)
      [] sample.of = "chunks" -> ChunksAgree(sample.size, sample.overlap, sample.doc)
      [] sample.of = "page" -> PagesAgree(sample.lines)
      [] sample.of = "table" -> TablesAgree(sample.body)
      [] sample.of = "sheets" -> SheetsAgree(sample.size, 1, sample.sheets)
      [] sample.of = "budget" -> BudgetAgrees(sample.budget, sample.mtd, sample.model,
                                              sample.input, sample.output)
      [] sample.of = "field" -> BudgetFormAgrees(sample.budget)
      [] sample.of = "badge" -> BadgesAgree(sample.badge, sample.value)
      [] sample.of = "job" -> ActivityAgrees(sample.job, sample.live, sample.focused)
      [] sample.of = "numbers" -> NumbersAgree(sample.tokens, sample.seconds, sample.active)
=============================================================================
