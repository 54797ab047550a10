---------------------------- MODULE Presentation ----------------------------
(***************************************************************************)
(* What the pages tell the user about the state behind them: the budget    *)
(* (internal/budget, internal/webui/mapper.go, the dashboard and settings  *)
(* templates) next to what CheckBudget decides, the colours of the status  *)
(* badges, the generation activity, and the rounded numbers.               *)
(*                                                                         *)
(* Money is counted in ten-millionths of a dollar, a percentage is the     *)
(* fraction mtd / budget and is compared without dividing.                 *)
(***************************************************************************)
EXTENDS Integers, FiniteSets

CONSTANTS
  DashboardSources,   \* 100 in the code: sources the dashboard reads
  NoStatus            \* nil: the status could not be read

BudgetStatuses ==
  [MonthlyBudget : Int, MonthToDateCost : Nat, RemainingBudget : Nat,
   PercentUsed : [mtd : Nat, of : Nat], IsExceeded : BOOLEAN]

\* A task of the queue, in a state of asynq's or one the pages do not know.
TaskStates ==
  {"pending", "scheduled", "retry", "aggregating", "active", "completed", "archived",
   "other"}

TaskInfos == [state : TaskStates, lastErr : BOOLEAN]

ASSUME ViewsAssumption ==
  DashboardSources \in Nat /\ NoStatus \notin BudgetStatuses \cup TaskInfos

Cent == 100000

\* Budgets that are no amount, and what a client may send for one besides.
NotANumber == -1
Negative   == -2
Unparsed   == -3
Huge       == -4   \* from a million dollars on: NUMERIC(12,6) has no place for it
Refused    == -5

-----------------------------------------------------------------------------
\* internal/budget.  The prices, per token, are those usage charges.

ModelPricing ==
  [m \in {"qwen-max", "qwen-plus", "qwen-turbo", "text-embedding"} |->
     CASE m = "qwen-max" -> [input |-> 20, output |-> 60]
       [] m = "qwen-plus" -> [input |-> 10, output |-> 30]
       [] m = "qwen-turbo" -> [input |-> 5, output |-> 15]
       [] m = "text-embedding" -> [input |-> 1, output |-> 0]]

ComputeCost(model, input, output) ==
  IF model \in DOMAIN ModelPricing
  THEN input * ModelPricing[model].input + output * ModelPricing[model].output
  ELSE 0

\* A comparison with NaN is false, also that of CheckBudget with 0.
Percent(mtd, budget) ==
  IF budget > 0 THEN [mtd |-> mtd, of |-> budget] ELSE [mtd |-> 0, of |-> 1]

AtLeast(pct, p) == 100 * pct.mtd >= p * pct.of
Above(pct, p) == 100 * pct.mtd > p * pct.of

GetBudgetStatus(budget, mtd) ==
  [MonthlyBudget |-> budget, MonthToDateCost |-> mtd,
   RemainingBudget |-> IF budget > mtd THEN budget - mtd ELSE 0,
   PercentUsed |-> Percent(mtd, budget),
   IsExceeded |-> budget > 0 /\ mtd >= budget]

CheckBudget(budget, mtd, cost) ==
  LET allowed == budget > 0 => mtd + cost <= budget
      pct == Percent(mtd, budget)
  IN [Allowed |-> allowed,
      ThresholdReached |->
        CASE allowed /\ AtLeast(pct, 95) -> 95
          [] allowed /\ AtLeast(pct, 80) /\ ~ AtLeast(pct, 95) -> 80
          [] OTHER -> 0]

\* webui: the intent of a percentage, the dashboard and the settings page.
BudgetIntent(pct) ==
  CASE Above(pct, 95) -> "error"
    [] AtLeast(pct, 80) /\ ~ Above(pct, 95) -> "warning"
    [] OTHER -> "success"

MapDashboard(status) ==
  IF status = NoStatus
  THEN [BudgetPercent |-> Percent(0, 0), BudgetIntent |-> "success", BudgetExceeded |-> FALSE]
  ELSE [BudgetPercent |-> status.PercentUsed,
        BudgetIntent |-> BudgetIntent(status.PercentUsed),
        BudgetExceeded |-> status.IsExceeded]

\* The warning below the bar, and whether the bar is full.
BudgetBanner(data) ==
  CASE data.BudgetExceeded -> "exceeded"
    [] ~ data.BudgetExceeded /\ AtLeast(data.BudgetPercent, 80) -> "approaching"
    [] OTHER -> "none"

BarFull(data) == AtLeast(data.BudgetPercent, 100)   \* clampPercent

\* The budget form: prefilled with whole cents; the server takes what ParseFloat
\* takes and is not below 0, and NaN is not.
FormatUSD(amount) == ((amount + Cent \div 2) \div Cent) * Cent

BudgetField(budget) == IF budget = NotANumber THEN Unparsed ELSE FormatUSD(budget)

BudgetSubmit(field) == IF field \in {Negative, Unparsed, Huge} THEN Refused ELSE field

-----------------------------------------------------------------------------
\* What a status is to mean, and how its badge paints it.  Of two class attributes
\* of one element a browser takes the first.

SourceIntent(status) ==
  CASE status = "active" -> "success" [] status = "error" -> "error" [] OTHER -> "muted"
InvoiceStatusIntent(status) ==
  CASE status = "issued" -> "info" [] status = "paid" -> "success"
    [] status = "overdue" -> "error" [] OTHER -> "muted"
IntentForTenantStatus(status) ==
  CASE status = "active" -> "success" [] status = "suspended" -> "warning"
    [] status = "deleted" -> "error" [] OTHER -> "muted"
ReportTypeIntent(type) ==
  CASE type = "daily" -> "info" [] type = "on_demand" -> "warning" [] OTHER -> "primary"
EventTypeIntent(type) ==
  CASE type = "tool" -> "warning" [] type = "embedding" -> "success" [] OTHER -> "info"
JobIntent(status) ==
  CASE status \in {"queued", "running"} -> "info" [] status = "succeeded" -> "success"
    [] status = "failed" -> "error" [] OTHER -> "muted"

Painted(known, intent, other) == IF intent \in known THEN intent ELSE other
FirstClass(first, second) == first

StatusBadge(intent) ==
  FirstClass("plain", Painted({"success", "error", "warning"}, intent, "muted"))
InvoiceStatusClass(intent) == Painted({"info", "success", "error"}, intent, "muted")
StatusBadgeClass(intent) == Painted({"success", "warning", "error"}, intent, "muted")
ReportTypeClass(intent) == Painted({"info", "warning"}, intent, "primary")
StatusClass(intent) == Painted({"info", "success", "error"}, intent, "muted")
BudgetPercentClass(intent) == Painted({"success", "warning"}, intent, "error")
ProgressBarClass(intent) == Painted({"success", "warning"}, intent, "error")
DashboardBudget(intent) ==
  FirstClass("plain", Painted({"success", "warning"}, intent, "error"))

Badge(kind, value) ==
  CASE kind = "source" -> [intent |-> SourceIntent(value),
                           paint |-> StatusBadge(SourceIntent(value))]
    [] kind = "invoice" -> [intent |-> InvoiceStatusIntent(value),
                            paint |-> InvoiceStatusClass(InvoiceStatusIntent(value))]
    [] kind = "tenant" -> [intent |-> IntentForTenantStatus(value),
                           paint |-> StatusBadgeClass(IntentForTenantStatus(value))]
    [] kind = "report" -> [intent |-> ReportTypeIntent(value),
                           paint |-> ReportTypeClass(ReportTypeIntent(value))]
    [] kind = "event" -> [intent |-> EventTypeIntent(value),
                          paint |-> ReportTypeClass(EventTypeIntent(value))]
    [] kind = "job" -> [intent |-> JobIntent(value), paint |-> StatusClass(JobIntent(value))]

BadgeKinds ==
  [k \in {"source", "invoice", "tenant", "report", "event", "job"} |->
     CASE k = "source" -> {"active", "error", "inactive"}
       [] k = "invoice" -> {"draft", "issued", "paid", "overdue"}
       [] k = "tenant" -> {"active", "suspended", "deleted"}
       [] k = "report" -> {"daily", "weekly", "monthly", "on_demand"}
       [] k = "event" -> {"llm", "tool", "embedding"}
       [] k = "job" -> {"queued", "running", "succeeded", "failed", "unknown"}]

-----------------------------------------------------------------------------
\* The generation activity: recorded jobs, and what the queue still knows of them.

MapTaskState(state) ==
  CASE state \in {"pending", "scheduled", "retry", "aggregating"} -> "queued"
    [] state = "active" -> "running"
    [] state = "completed" -> "succeeded"
    [] state = "archived" -> "failed"
    [] OTHER -> "unknown"

\* GenerationStatusMeta: only a failed job keeps its message.
GenerationStatusMeta(status, error) ==
  [status |-> status, error |-> status = "failed" /\ error]

MapGenerationActivity(job, live) ==
  IF live = NoStatus THEN GenerationStatusMeta(job.status, job.error)
  ELSE GenerationStatusMeta(MapTaskState(live.state), live.lastErr)

\* GenerationActivityRow: the line below the badge.
ActivityLine(item, focus) ==
  CASE item.error -> "error" [] ~ item.error /\ focus -> "focus" [] OTHER -> "none"

-----------------------------------------------------------------------------
\* Rounded numbers.

\* Tenths of a unit, and the unit; %.1f rounds.
FormatTokens(n) ==
  LET tenths(unit) == (10 * n + unit \div 2) \div unit IN
  CASE n >= 1000000 -> [tenths |-> tenths(1000000), unit |-> 1000000]
    [] n >= 1000 /\ n < 1000000 -> [tenths |-> tenths(1000), unit |-> 1000]
    [] OTHER -> [tenths |-> 10 * n, unit |-> 1]

FormatTimeAgo(seconds) ==
  LET of(unit) == [count |-> seconds \div unit, unit |-> unit] IN
  CASE seconds < 60 -> [count |-> 0, unit |-> 60]
    [] seconds >= 60 /\ seconds < 3600 -> of(60)
    [] seconds >= 3600 /\ seconds < 86400 -> of(3600)
    [] OTHER -> of(86400)

\* The dashboard counts among the newest DashboardSources sources; source 1 is
\* the newest.
CountActiveSources(active) == Cardinality({s \in active : s <= DashboardSources})

-----------------------------------------------------------------------------
\* A page that says the budget is exceeded is right that calls are refused, but for
\* a call estimated at nothing when the budget is exactly spent; a call refused
\* without that banner costs more than the rest; the banner, its colour and the
\* checker's alerts agree, but at exactly 95%; a month that fills the bar is an
\* exceeded one; and without a budget, or with one that is not a number, nothing is
\* refused and nothing shown.
BudgetAgrees(budget, mtd, model, input, output) ==
  LET status == GetBudgetStatus(budget, mtd)
      data   == MapDashboard(status)
      cost   == ComputeCost(model, input, output)
      check  == CheckBudget(budget, mtd, cost)
      banner == BudgetBanner(data)
  IN /\ banner = "exceeded" => (check.Allowed <=> cost = 0 /\ mtd = budget)
     /\ ~ check.Allowed => banner = "exceeded" \/ cost > status.RemainingBudget
     /\ check.Allowed => (check.ThresholdReached = 0 <=> banner = "none")
     /\ banner = "none" <=> data.BudgetIntent = "success"
     /\ check.Allowed /\ data.BudgetIntent = "error" => check.ThresholdReached = 95
     /\ check.ThresholdReached = 95 /\ data.BudgetIntent # "error" => 20 * mtd = 19 * budget
     /\ BarFull(data) <=> banner = "exceeded"
     /\ ~ (budget > 0) => check.Allowed /\ banner = "none"
     /\ BudgetBanner(MapDashboard(NoStatus)) = "none"

\* What the budget form shows and sends back unchanged is the budget there is, but
\* for fractions of a cent; one of less than half a cent is sent back as 0, which
\* turns enforcement off, and one that is not a number is not sent at all.
BudgetFormAgrees(budget) ==
  LET saved == BudgetSubmit(BudgetField(budget)) IN
  /\ saved = budget <=> budget >= 0 /\ budget % Cent = 0
  /\ saved = Refused <=> budget = NotANumber
  /\ budget > 0 /\ saved = 0 <=> budget \in 1 .. Cent \div 2 - 1
  /\ budget >= 0 => saved - budget \in -(Cent \div 2) .. Cent \div 2
  /\ BudgetSubmit(budget) = Refused <=> budget \in {Negative, Unparsed, Huge}

\* A badge is painted as its status is meant, but for embedding events, whose green
\* the badge of report types does not know, and for sources, whose badge has its
\* colour in a second class attribute, as the dashboard's budget has.
BadgesAgree(kind, value) ==
  LET badge == Badge(kind, value) IN
  /\ badge.paint = badge.intent <=>
       ~ (kind = "source" \/ (kind = "event" /\ value = "embedding"))
  /\ \A intent \in {"success", "warning", "error"} :
       /\ BudgetPercentClass(intent) = intent /\ ProgressBarClass(intent) = intent
       /\ DashboardBudget(intent) = "plain"

\* The activity shows what the queue knows before what was recorded; an error text
\* stands only below a job shown as failed, in place of its focus.
ActivityAgrees(job, live, focus) ==
  LET item == MapGenerationActivity(job, live)
      line == ActivityLine(item, focus)
  IN /\ line = "error" <=>
          /\ item.status = "failed"
          /\ IF live = NoStatus THEN job.error ELSE live.lastErr
     /\ line = "focus" => focus
     /\ live # NoStatus /\ item.status = "queued" =>
          live.state \in {"pending", "scheduled", "retry", "aggregating"}
     /\ job.status # item.status => live # NoStatus
     /\ Badge("job", item.status).paint = "error" <=> item.status = "failed"

\* A number of tokens is shown to half a tenth of its unit, 999950 and more of a
\* thousand as 1000.0K; a time ago is the largest whole number of its unit; and the
\* number of active sources is right unless one of them is beyond those read.
NumbersAgree(tokens, seconds, active) ==
  LET shown == FormatTokens(tokens)
      ago   == FormatTimeAgo(seconds)
  IN /\ 20 * tokens - 2 * shown.tenths * shown.unit \in -shown.unit .. shown.unit
     /\ shown.tenths >= 10000 /\ shown.unit < 1000000 <=> tokens \in 999950 .. 999999
     /\ seconds >= 60 => /\ ago.count >= 1
                         /\ ago.count * ago.unit <= seconds
                         /\ seconds < (ago.count + 1) * ago.unit
     /\ CountActiveSources(active) = Cardinality(active)
          <=> \A s \in active : s <= DashboardSources
=============================================================================
