----------------------------- MODULE ReportAgent -----------------------------
(***************************************************************************)
(* Report generation by the agent loop (internal/reports/agent_loop.go),   *)
(* the LLM client it calls (internal/llm/client.go) and the budget check   *)
(* before every call (internal/budget/checker.go), over the usage counters *)
(* the check reads and the loop writes.                                    *)
(*                                                                         *)
(* Several agents run at once, in several workers.  The check reads the    *)
(* counters, the call is made later, and its cost is counted later still.  *)
(* The provider's answers are arbitrary: any cost in Costs, and up to      *)
(* MaxBatch tool calls.  A tool call stands for its key, name:params.      *)
(***************************************************************************)
EXTENDS UsageCounters, FiniteSets, SequencesExt

CONSTANTS
  Agents,
  TenantOf,      \* the tenant each agent works for
  Budget,        \* monthly_budget_usd of each tenant; 0 is no enforcement
  Costs,         \* what one LLM call may cost; 0 for a model without a price
  ToolCalls,     \* keys of the tool calls the provider may ask for
  MaxToolCalls,  \* maxToolCalls
  MaxLLMCalls,   \* maxLLMCalls
  MaxRetries,    \* maxRetries of the LLM client
  MaxBatch,      \* bound on the tool calls in one answer
  MaxRuns,       \* bound on the runs of all agents
  MaxEmbedded,   \* bound on the embedding cost of a tenant
  MaxFaults      \* bound on lost emissions

ASSUME AgentsAssumption ==
  /\ IsFiniteSet(Agents)
  /\ TenantOf \in [Agents -> Tenants]
ASSUME BudgetAssumption ==
  /\ Budget \in [Tenants -> Nat]
  /\ Costs \subseteq Nat
  /\ \E c \in Costs : \A x \in Costs : x <= c
ASSUME LimitsAssumption ==
  {MaxToolCalls, MaxLLMCalls, MaxRetries, MaxBatch, MaxRuns, MaxEmbedded,
   MaxFaults} \subseteq Nat

VARIABLES
  step,       \* where each agent's run is
  synth,      \* whether the run is in synthesize
  alive,      \* whether the run's context is still valid
  llmCalls,   \* llmCallCount
  toolCalls,  \* toolCallCount
  history,    \* toolCallHistory
  pending,    \* tool calls of the last answer not yet processed
  attempt,    \* attempts of the current call that failed
  cost,       \* cost of the last answer, not yet counted
  answered,   \* history: LLM calls of the run that were answered
  counted,    \* history: LLM calls of the run whose usage was emitted
  month,      \* history: cost each tenant emitted in the current month
  embedded,   \* history: embedding cost of each tenant
  runs, faults

runVars  == <<synth, alive, llmCalls, toolCalls, history, pending, attempt>>
usageVars == <<cost, answered, counted>>
historyVars == <<month, embedded, runs, faults>>
vars == <<countersVars, step, runVars, usageVars, historyVars>>

Answers == BoundedSeq(ToolCalls, MaxBatch)

TypeOK ==
  /\ CountersTypeOK
  /\ step \in [Agents ->
       {"idle", "check", "chat", "emit", "tools", "done", "failed"}]
  /\ synth \in [Agents -> BOOLEAN]
  /\ alive \in [Agents -> BOOLEAN]
  /\ llmCalls \in [Agents -> 0 .. MaxLLMCalls]
  /\ toolCalls \in [Agents -> 0 .. MaxToolCalls]
  /\ history \in [Agents -> SUBSET ToolCalls]
  /\ pending \in [Agents -> Seq(ToolCalls)]
  /\ attempt \in [Agents -> 0 .. MaxRetries]
  /\ cost \in [Agents -> Costs \cup {0}]
  /\ answered \in [Agents -> Nat]
  /\ counted \in [Agents -> Nat]
  /\ month \in [Tenants -> Nat]
  /\ embedded \in [Tenants -> Nat]
  /\ runs \in 0 .. MaxRuns
  /\ faults \in 0 .. MaxFaults

Init ==
  /\ CountersInit
  /\ step = [a \in Agents |-> "idle"]
  /\ synth = [a \in Agents |-> FALSE]
  /\ alive = [a \in Agents |-> TRUE]
  /\ llmCalls = [a \in Agents |-> 0]
  /\ toolCalls = [a \in Agents |-> 0]
  /\ history = [a \in Agents |-> {}]
  /\ pending = [a \in Agents |-> <<>>]
  /\ attempt = [a \in Agents |-> 0]
  /\ cost = [a \in Agents |-> 0]
  /\ answered = [a \in Agents |-> 0]
  /\ counted = [a \in Agents |-> 0]
  /\ month = [n \in Tenants |-> 0]
  /\ embedded = [n \in Tenants |-> 0]
  /\ runs = 0
  /\ faults = 0

Goto(a, from, to) ==
  /\ step[a] = from
  /\ step' = [step EXCEPT ![a] = to]

(***************************************************************************)
(* AgentLoop.Run.                                                          *)
(***************************************************************************)

\* The loop's condition: once MaxLLMCalls answers are in, synthesize.
StartRun(a) ==
  /\ step[a] \in {"idle", "done", "failed"}
  /\ runs < MaxRuns
  /\ runs' = runs + 1
  /\ step' = [step EXCEPT ![a] = "check"]
  /\ synth' = [synth EXCEPT ![a] = (MaxLLMCalls = 0)]
  /\ alive' = [alive EXCEPT ![a] = TRUE]
  /\ llmCalls' = [llmCalls EXCEPT ![a] = 0]
  /\ toolCalls' = [toolCalls EXCEPT ![a] = 0]
  /\ history' = [history EXCEPT ![a] = {}]
  /\ pending' = [pending EXCEPT ![a] = <<>>]
  /\ attempt' = [attempt EXCEPT ![a] = 0]
  /\ answered' = [answered EXCEPT ![a] = 0]
  /\ counted' = [counted EXCEPT ![a] = 0]
  /\ UNCHANGED <<countersVars, cost, month, embedded, faults>>

\* CheckBudget.  The loop names no model, so the call is estimated at 0.
EstimatedCallCost == 0

WithinBudget(n) ==
  Budget[n] = 0 \/ MonthToDate(n) + EstimatedCallCost <= Budget[n]

CheckBudget(a) ==
  /\ Goto(a, "check", "chat")
  /\ alive[a]
  /\ WithinBudget(TenantOf[a])
  /\ attempt' = [attempt EXCEPT ![a] = 0]
  /\ UNCHANGED <<synth, alive, llmCalls, toolCalls, history, pending>>
  /\ UNCHANGED <<countersVars, usageVars, historyVars>>

\* ErrBudgetExceeded, or the check itself fails.
CheckRefused(a) ==
  /\ Goto(a, "check", "failed")
  /\ ~alive[a] \/ ~WithinBudget(TenantOf[a])
  /\ UNCHANGED <<countersVars, runVars, usageVars, historyVars>>

\* Mutant of Chat: an answer without tool calls is returned before it is
\* counted.
ChatReturnsEarly(a) ==
  /\ alive[a]
  /\ \E c \in Costs, calls \in Answers :
       /\ answered' = [answered EXCEPT ![a] = @ + 1]
       /\ IF synth[a] \/ calls = <<>>
          THEN /\ Goto(a, "chat", "done")
               /\ UNCHANGED <<cost, llmCalls, pending>>
          ELSE /\ Goto(a, "chat", "emit")
               /\ cost' = [cost EXCEPT ![a] = c]
               /\ pending' = [pending EXCEPT ![a] = calls]
               /\ llmCalls' = [llmCalls EXCEPT ![a] = @ + 1]
  /\ UNCHANGED <<synth, alive, toolCalls, history, attempt, counted>>
  /\ UNCHANGED <<countersVars, historyVars>>

\* The provider answers.  The answer to the synthesis is the report, and its
\* usage is not emitted.
Chat(a) ==
  /\ alive[a]
  /\ \E c \in Costs, calls \in Answers :
       /\ answered' = [answered EXCEPT ![a] = @ + 1]
       /\ IF synth[a]
          THEN /\ Goto(a, "chat", "done")
               /\ UNCHANGED <<cost, llmCalls, pending>>
          ELSE /\ Goto(a, "chat", "emit")
               /\ cost' = [cost EXCEPT ![a] = c]
               /\ pending' = [pending EXCEPT ![a] = calls]
               /\ llmCalls' = [llmCalls EXCEPT ![a] = @ + 1]
  /\ UNCHANGED <<synth, alive, toolCalls, history, attempt, counted>>
  /\ UNCHANGED <<countersVars, historyVars>>

\* An attempt fails and callWithRetry tries again.
ChatRetries(a) ==
  /\ step[a] = "chat"
  /\ alive[a]
  /\ attempt[a] < MaxRetries
  /\ attempt' = [attempt EXCEPT ![a] = @ + 1]
  /\ UNCHANGED <<step, synth, alive, llmCalls, toolCalls, history, pending>>
  /\ UNCHANGED <<countersVars, usageVars, historyVars>>

\* Mutant of ChatFails: a call whose context is dead is waited for.
ChatFailsPatiently(a) ==
  /\ Goto(a, "chat", "failed")
  /\ attempt[a] = MaxRetries
  /\ UNCHANGED <<countersVars, runVars, usageVars, historyVars>>

\* The last attempt fails, or the context is dead; there is no fallback.
ChatFails(a) ==
  /\ Goto(a, "chat", "failed")
  /\ ~alive[a] \/ attempt[a] = MaxRetries
  /\ UNCHANGED <<countersVars, runVars, usageVars, historyVars>>

\* An answer without tool calls is the report.
AfterEmit(a) == Goto(a, "emit", IF pending[a] = <<>> THEN "done" ELSE "tools")

EmitUsage(a) ==
  /\ AfterEmit(a)
  /\ alive[a]
  /\ CountCost(TenantOf[a], cost[a])
  /\ month' = [month EXCEPT ![TenantOf[a]] = @ + cost[a]]
  /\ counted' = [counted EXCEPT ![a] = @ + 1]
  /\ cost' = [cost EXCEPT ![a] = 0]
  /\ UNCHANGED <<today, runVars, answered, embedded, runs, faults>>

\* The emission fails; the loop ignores the error.
EmitUsageFails(a) ==
  /\ AfterEmit(a)
  /\ IF alive[a] THEN faults < MaxFaults /\ faults' = faults + 1
     ELSE UNCHANGED faults
  /\ cost' = [cost EXCEPT ![a] = 0]
  /\ UNCHANGED <<countersVars, runVars, answered, counted, month, embedded, runs>>

(***************************************************************************)
(* The tool calls of one answer, in order.                                 *)
(***************************************************************************)

AtToolCall(a) == step[a] = "tools" /\ pending[a] # <<>>

\* Mutant of ForceSynthesis: the limit is exceeded by one.
ForceSynthesisLate(a) ==
  /\ AtToolCall(a)
  /\ toolCalls[a] >= MaxToolCalls
  /\ toolCalls' = [toolCalls EXCEPT ![a] = @ + 1]
  /\ synth' = [synth EXCEPT ![a] = TRUE]
  /\ step' = [step EXCEPT ![a] = "check"]
  /\ UNCHANGED <<alive, llmCalls, history, pending, attempt>>
  /\ UNCHANGED <<countersVars, usageVars, historyVars>>

\* The limit is tested before each call: what is left is never answered.
ForceSynthesis(a) ==
  /\ AtToolCall(a)
  /\ toolCalls[a] >= MaxToolCalls
  /\ synth' = [synth EXCEPT ![a] = TRUE]
  /\ step' = [step EXCEPT ![a] = "check"]
  /\ UNCHANGED <<alive, llmCalls, toolCalls, history, pending, attempt>>
  /\ UNCHANGED <<countersVars, usageVars, historyVars>>

\* Mutant of RefuseDuplicate: the call is executed again.
RepeatDuplicate(a) ==
  /\ AtToolCall(a)
  /\ toolCalls[a] < MaxToolCalls
  /\ Head(pending[a]) \in history[a]
  /\ toolCalls' = [toolCalls EXCEPT ![a] = @ + 1]
  /\ pending' = [pending EXCEPT ![a] = Tail(@)]
  /\ UNCHANGED <<step, synth, alive, llmCalls, history, attempt>>
  /\ UNCHANGED <<countersVars, usageVars, historyVars>>

\* A duplicate is answered with an error, and the loop goes on.
RefuseDuplicate(a) ==
  /\ AtToolCall(a)
  /\ toolCalls[a] < MaxToolCalls
  /\ Head(pending[a]) \in history[a]
  /\ pending' = [pending EXCEPT ![a] = Tail(@)]
  /\ UNCHANGED <<step, synth, alive, llmCalls, toolCalls, history, attempt>>
  /\ UNCHANGED <<countersVars, usageVars, historyVars>>

\* The tool runs and its usage, which has no cost, is emitted.
InvokeTool(a) ==
  /\ AtToolCall(a)
  /\ toolCalls[a] < MaxToolCalls
  /\ Head(pending[a]) \notin history[a]
  /\ history' = [history EXCEPT ![a] = @ \cup {Head(pending[a])}]
  /\ toolCalls' = [toolCalls EXCEPT ![a] = @ + 1]
  /\ pending' = [pending EXCEPT ![a] = Tail(@)]
  /\ UNCHANGED <<step, synth, alive, llmCalls, attempt>>
  /\ UNCHANGED <<countersVars, usageVars, historyVars>>

\* Mutant of NextTurn: the next call of the run skips the budget check.
NextTurnUnchecked(a) ==
  /\ step[a] = "tools"
  /\ pending[a] = <<>>
  /\ step' = [step EXCEPT ![a] = "chat"]
  /\ synth' = [synth EXCEPT ![a] = (llmCalls[a] >= MaxLLMCalls)]
  /\ UNCHANGED <<alive, llmCalls, toolCalls, history, pending, attempt>>
  /\ UNCHANGED <<countersVars, usageVars, historyVars>>

\* Mutant of NextTurn: the rest of the answer is skipped.
NextTurnEarly(a) ==
  /\ step[a] = "tools"
  /\ step' = [step EXCEPT ![a] = "check"]
  /\ synth' = [synth EXCEPT ![a] = (llmCalls[a] >= MaxLLMCalls)]
  /\ UNCHANGED <<alive, llmCalls, toolCalls, history, pending, attempt>>
  /\ UNCHANGED <<countersVars, usageVars, historyVars>>

\* Every call of the answer is processed: back to the loop's condition.
NextTurn(a) ==
  /\ step[a] = "tools"
  /\ pending[a] = <<>>
  /\ step' = [step EXCEPT ![a] = "check"]
  /\ synth' = [synth EXCEPT ![a] = (llmCalls[a] >= MaxLLMCalls)]
  /\ UNCHANGED <<alive, llmCalls, toolCalls, history, pending, attempt>>
  /\ UNCHANGED <<countersVars, usageVars, historyVars>>

(***************************************************************************)
(* Around the runs.                                                        *)
(***************************************************************************)

\* GenerateReport's deadline, or the task's context, is cancelled.
Deadline(a) ==
  /\ step[a] \notin {"idle", "done", "failed"}
  /\ alive[a]
  /\ alive' = [alive EXCEPT ![a] = FALSE]
  /\ UNCHANGED <<synth, llmCalls, toolCalls, history, pending, attempt>>
  /\ UNCHANGED <<countersVars, step, usageVars, historyVars>>

\* IngestWorker counts the cost of its embeddings without a budget check.
Embed(n) ==
  /\ embedded[n] < MaxEmbedded
  /\ embedded' = [embedded EXCEPT ![n] = @ + 1]
  /\ CountCost(n, 1)
  /\ month' = [month EXCEPT ![n] = @ + 1]
  /\ UNCHANGED <<today, step, runVars, usageVars, runs, faults>>

Midnight ==
  /\ NextDay
  /\ month' = IF MonthOf[today + 1] = MonthOf[today] THEN month
              ELSE [n \in Tenants |-> 0]
  /\ UNCHANGED <<step, runVars, usageVars, embedded, runs, faults>>

Expire(n, d) ==
  /\ ExpireKey(n, d)
  /\ UNCHANGED <<step, runVars, usageVars, historyVars>>

Continue(a) ==
  \/ CheckBudget(a) \/ CheckRefused(a)
  \/ Chat(a) \/ ChatRetries(a) \/ ChatFails(a)
  \/ EmitUsage(a) \/ EmitUsageFails(a)
  \/ ForceSynthesis(a) \/ RefuseDuplicate(a) \/ InvokeTool(a) \/ NextTurn(a)

Next ==
  \/ \E a \in Agents : StartRun(a) \/ Continue(a) \/ Deadline(a)
  \/ \E n \in Tenants : Embed(n)
  \/ Midnight
  \/ \E n \in Tenants, d \in Days : Expire(n, d)

Spec == Init /\ [][Next]_vars

\* A goroutine that can go on goes on: every call it makes returns.
Fairness == \A a \in Agents : WF_vars(Continue(a))

FairSpec == Spec /\ Fairness

(***************************************************************************)
(* What the loop and the budget promise.                                   *)
(***************************************************************************)

\* The most an LLM call may cost.
MaxCost == CHOOSE c \in Costs : \A x \in Costs : x <= c

AgentsOf(n) == {a \in Agents : TenantOf[a] = n}

\* Checking before calling and counting after it lets a tenant overrun its
\* budget by at most one call of each agent that runs for it, plus what
\* ingestion spends unchecked, however the agents interleave.
OvershootBounded ==
  \A n \in Tenants :
    Budget[n] > 0 =>
      MonthToDate(n)
        <= Budget[n] + Cardinality(AgentsOf(n)) * MaxCost + embedded[n]

\* No tool call is executed twice in a run, in one answer or across answers:
\* each execution added a key.
ToolCallsDistinct ==
  \A a \in Agents : toolCalls[a] = Cardinality(history[a])

\* Outside synthesis the model is called only when every tool call of its last
\* answer has a result; only the synthesis forced by the tool limit leaves
\* some unanswered.
AnswersComplete ==
  \A a \in Agents :
    step[a] \in {"check", "chat"} /\ pending[a] # <<>> =>
      synth[a] /\ toolCalls[a] = MaxToolCalls

\* Every run ends, whatever the model answers.
EveryRunEnds ==
  \A a \in Agents : step[a] = "check" ~> step[a] \in {"done", "failed"}

\* Every LLM call that was answered is counted, except the last one of a run
\* that ends in synthesis, and the emissions a fault loses.
OnlySynthesisUncounted ==
  \A a \in Agents :
    step[a] = "done" /\ alive[a] =>
      answered[a] <= counted[a] + faults + (IF synth[a] THEN 1 ELSE 0)

\* CONTEXT.md: the budget is a limit per month, and if the tenant exceeds it
\* calls are rejected.
MonthlyBudgetEnforced ==
  [][\A a \in Agents :
       step[a] = "check" /\ step'[a] = "chat" /\ Budget[TenantOf[a]] > 0
       => month[TenantOf[a]] <= Budget[TenantOf[a]]]_vars
=============================================================================
