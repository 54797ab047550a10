----------------------------- MODULE Invoicing -----------------------------
(***************************************************************************)
(* The invoices of a tenant (internal/budget) and the daily usage they are *)
(* made from (usage_daily, internal/usage).  GenerateInvoice reads the     *)
(* days of a period in one statement and inserts the invoice in another,   *)
(* outside a transaction, while the rollup keeps adding to those days; no  *)
(* constraint keeps a period from being billed twice.                      *)
(***************************************************************************)
EXTENDS Naturals, FiniteSets, Functions

CONSTANTS
  BillDays,       \* 1 .. n, the days with usage
  LlmModels,
  Billers,        \* calls of GenerateInvoice in progress
  MaxInvoices,    \* bound on calls
  MaxRecords,     \* bound on rolled up events
  NoBill

ASSUME InvoicingAssumption ==
  /\ BillDays \subseteq Nat \ {0} /\ IsFiniteSet(BillDays)
  /\ IsFiniteSet(LlmModels)

VARIABLES
  daily,      \* usage_daily.estimated_cost_usd by day and model, 0 for no row
  bills,      \* the call each biller is in
  invoices,   \* rows of invoices
  billed,     \* calls begun
  records

invoicingVars == <<daily, bills, invoices, billed, records>>

Lines == [BillDays \X LlmModels -> Nat]

Bills ==
  [step : {"read", "insert"}, from : BillDays, to : BillDays, number : Nat,
   lines : Lines, total : Nat, late : Nat]

InvoicingTypeOK ==
  /\ daily \in Lines
  /\ bills \in [Billers -> Bills \cup {NoBill}]
  /\ invoices \subseteq Bills
  /\ {billed, records} \subseteq Nat

NoLines == [row \in BillDays \X LlmModels |-> 0]

InvoicingInit ==
  /\ daily = NoLines
  /\ bills = [b \in Billers |-> NoBill]
  /\ invoices = {} /\ billed = 0 /\ records = 0

-----------------------------------------------------------------------------
Period(from, to) == {d \in BillDays : from <= d /\ d <= to}

CostOver(lines, days) == SumFunctionOnSet(lines, days \X LlmModels)

\* Mutant of GetUsageDailySummary: the last day of the period is left out.
XSummaryUpTo(from, to) ==
  [row \in BillDays \X LlmModels |->
     IF row[1] \in Period(from, to) \ {to} THEN daily[row] ELSE 0]

\* The rows of both ends of the period; a day and model without a row has no
\* line.  The line of a day names its model only.
GetUsageDailySummary(from, to) ==
  [row \in BillDays \X LlmModels |->
     IF row[1] \in Period(from, to) THEN daily[row] ELSE 0]

\* The collector's rollup adds an event to its day's row, however late.
UpsertUsageDaily(row) == daily' = [daily EXCEPT ![row] = @ + 1]

Later(bill, row) ==
  IF row[1] \in Period(bill.from, bill.to) THEN [bill EXCEPT !.late = @ + 1]
  ELSE bill

RollUp ==
  \E row \in BillDays \X LlmModels :
    /\ records < MaxRecords
    /\ records' = records + 1
    /\ UpsertUsageDaily(row)
    /\ invoices' = {Later(inv, row) : inv \in invoices}
    /\ bills' = [b \in Billers |->
                   IF bills[b] # NoBill /\ bills[b].step = "insert"
                   THEN Later(bills[b], row) ELSE bills[b]]
    /\ UNCHANGED billed

\* The period ends after it begins, but may do so on the day it begins: the dates
\* are what is left of its two times.
StartInvoice(b) ==
  \E from, to \in BillDays :
    /\ bills[b] = NoBill /\ billed < MaxInvoices
    /\ to >= from
    /\ billed' = billed + 1
    /\ bills' = [bills EXCEPT
                   ![b] = [step |-> "read", from |-> from, to |-> to,
                           number |-> billed, lines |-> NoLines, total |-> 0,
                           late |-> 0]]
    /\ UNCHANGED <<daily, invoices, records>>

ReadUsage(b) ==
  LET lines == GetUsageDailySummary(bills[b].from, bills[b].to) IN
  /\ bills[b] # NoBill /\ bills[b].step = "read"
  /\ bills' = [bills EXCEPT ![b] = [@ EXCEPT !.step = "insert", !.lines = lines,
                                             !.total = CostOver(lines, BillDays)]]
  /\ UNCHANGED <<daily, invoices, billed, records>>

InsertInvoice(bill) == invoices' = invoices \cup {bill}

CreateInvoice(b) ==
  /\ bills[b] # NoBill /\ bills[b].step = "insert"
  /\ InsertInvoice(bills[b])
  /\ bills' = [bills EXCEPT ![b] = NoBill]
  /\ UNCHANGED <<daily, billed, records>>

\* Either statement fails: nothing is inserted.
InvoiceFails(b) ==
  /\ bills[b] # NoBill
  /\ bills' = [bills EXCEPT ![b] = NoBill]
  /\ UNCHANGED <<daily, invoices, billed, records>>

InvoicingNext ==
  \/ RollUp
  \/ \E b \in Billers :
       StartInvoice(b) \/ ReadUsage(b) \/ CreateInvoice(b) \/ InvoiceFails(b)

InvoicingSpec == InvoicingInit /\ [][InvoicingNext]_invoicingVars

-----------------------------------------------------------------------------
Totals == [inv \in invoices |-> inv.total]

\* An invoice and the usage of its days differ by what was rolled up after the
\* invoice read them, and invoices of periods that share no day, be it the last
\* of one and the first of the other, bill no usage twice.
InvoicesExplained ==
  /\ \A inv \in invoices :
       CostOver(daily, Period(inv.from, inv.to)) = inv.total + inv.late
  /\ \A some \in SUBSET invoices :
       (\A i, j \in some :
          i # j => Period(i.from, i.to) \cap Period(j.from, j.to) = {})
       => SumFunctionOnSet(Totals, some) <= CostOver(daily, BillDays)
=============================================================================
