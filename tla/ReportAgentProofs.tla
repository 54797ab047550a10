-------------------------- MODULE ReportAgentProofs --------------------------
(***************************************************************************)
(* Proofs about ReportAgent, for any agents, tenants, budgets, costs,      *)
(* limits and calendar.                                                    *)
(***************************************************************************)
EXTENDS ReportAgent, FiniteSetTheorems, TLAPS

(***************************************************************************)
(* Types.  The number of answers stays within its limit because the loop   *)
(* asks again outside synthesis only when it has not reached it.           *)
(***************************************************************************)
CallsLeft ==
  \A a \in Agents :
    step[a] \in {"check", "chat"} /\ ~synth[a] => llmCalls[a] < MaxLLMCalls

IType == TypeOK /\ CallsLeft

LEMMA AnswersAreSequences == Answers \subseteq Seq(ToolCalls)
PROOF
  BY LimitsAssumption DEF Answers, BoundedSeq, SeqOf

\* What happens to the counters.
LEMMA CountersType ==
  ASSUME CountersTypeOK,
         \/ UNCHANGED countersVars
         \/ UNCHANGED today /\ \E n \in Tenants, c \in Nat : CountCost(n, c)
         \/ NextDay
         \/ \E n \in Tenants, d \in Days : ExpireKey(n, d)
  PROVE  CountersTypeOK'
PROOF
<1>1. CASE UNCHANGED countersVars
  BY <1>1 DEF countersVars, CountersTypeOK
<1>2. ASSUME NEW n \in Tenants, NEW c \in Nat, UNCHANGED today, CountCost(n, c)
      PROVE  CountersTypeOK'
  <2>1. counter[n] \in [Days -> Nat] /\ today \in Days
    BY DEF CountersTypeOK
  <2>2. counter[n][today] \in Nat
    BY <2>1
  <2>3. counter[n][today] + c \in Nat
    BY <2>2
  <2>4. counter' = [counter EXCEPT ![n] = [counter[n] EXCEPT ![today] = counter[n][today] + c]]
    BY <1>2, <2>1 DEF CountCost, CountersTypeOK
  <2>5. [counter[n] EXCEPT ![today] = counter[n][today] + c] \in [Days -> Nat]
    BY <2>1, <2>3
  <2> QED  BY <1>2, <2>4, <2>5 DEF CountersTypeOK
<1>3. CASE NextDay
  BY <1>3, DaysAssumption DEF NextDay, CountersTypeOK, Days
<1>4. ASSUME NEW n \in Tenants, NEW d \in Days, ExpireKey(n, d)
      PROVE  CountersTypeOK'
  BY <1>4 DEF ExpireKey, CountersTypeOK
<1> QED  BY <1>1, <1>2, <1>3, <1>4

\* The limits are numbers.
LEMMA Limits ==
  /\ MaxToolCalls \in Nat /\ MaxLLMCalls \in Nat /\ MaxRetries \in Nat
  /\ MaxRuns \in Nat /\ MaxEmbedded \in Nat /\ MaxFaults \in Nat
PROOF
<1>1. \A x \in {MaxToolCalls, MaxLLMCalls, MaxRetries, MaxBatch, MaxRuns,
               MaxEmbedded, MaxFaults} : x \in Nat
  BY LimitsAssumption, Zenon
<1> QED  BY <1>1, Zenon

LEMMA CostsAreNumbers == \A c \in Costs \cup {0} : c \in Nat
PROOF
<1>1. \A c \in Costs : c \in Nat
  BY BudgetAssumption, Zenon
<1>2. 0 \in Nat
  OBVIOUS
<1> QED  BY <1>1, <1>2, Zenon

LEMMA ContinueType ==
  ASSUME IType, NEW a \in Agents, Continue(a)
  PROVE  IType'
PROOF
<1> USE Limits DEF IType, TypeOK, CallsLeft, runVars, usageVars, historyVars, Goto
<1>1. CASE CheckBudget(a)
  <2>1. TypeOK'
    BY <1>1, CountersType, SMTT(20) DEF CheckBudget
  <2>2. CallsLeft'
    BY <1>1 DEF CheckBudget
  <2> QED  BY <2>1, <2>2
<1>2. CASE CheckRefused(a)
  <2>1. TypeOK'
    BY <1>2, CountersType DEF CheckRefused
  <2>2. CallsLeft'
    BY <1>2 DEF CheckRefused
  <2> QED  BY <2>1, <2>2
<1>3. CASE Chat(a)
  <2>1. PICK c \in Costs, calls \in Answers :
          /\ answered' = [answered EXCEPT ![a] = @ + 1]
          /\ IF synth[a]
             THEN /\ Goto(a, "chat", "done")
                  /\ UNCHANGED <<cost, llmCalls, pending>>
             ELSE /\ Goto(a, "chat", "emit")
                  /\ cost' = [cost EXCEPT ![a] = c]
                  /\ pending' = [pending EXCEPT ![a] = calls]
                  /\ llmCalls' = [llmCalls EXCEPT ![a] = @ + 1]
    BY <1>3 DEF Chat
  <2>2. calls \in Seq(ToolCalls)
    BY AnswersAreSequences
  <2>3. cost' \in [Agents -> Costs \cup {0}] /\ pending' \in [Agents -> Seq(ToolCalls)]
    BY <2>1, <2>2, ZenonT(30)
  <2>4. llmCalls' \in [Agents -> 0 .. MaxLLMCalls]
    <3>1. step[a] = "chat"
      BY <2>1
    <3>2. ~synth[a] => llmCalls[a] < MaxLLMCalls
      BY <3>1
    <3>3. llmCalls[a] \in 0 .. MaxLLMCalls
      OBVIOUS
    <3>4. ~synth[a] => llmCalls[a] + 1 \in 0 .. MaxLLMCalls
      BY <3>2, <3>3
    <3>5. synth[a] => llmCalls' = llmCalls
      BY <2>1
    <3>6. ~synth[a] => llmCalls' = [llmCalls EXCEPT ![a] = llmCalls[a] + 1]
      BY <2>1
    <3> QED  BY <3>4, <3>5, <3>6
  <2>5. answered' \in [Agents -> Nat]
    BY <2>1
  <2>6. step' \in [Agents -> {"idle", "check", "chat", "emit", "tools", "done", "failed"}]
    BY <2>1, ZenonT(30)
  <2>7. CountersTypeOK'
    BY <1>3, CountersType DEF Chat
  <2>8. TypeOK'
    BY <1>3, <2>3, <2>4, <2>5, <2>6, <2>7 DEF Chat
  <2>9. CallsLeft'
    BY <1>3, <2>1, SMTT(20) DEF Chat
  <2> QED  BY <2>8, <2>9
<1>4. CASE ChatRetries(a)
  <2>1. TypeOK'
    BY <1>4, CountersType, SMTT(20) DEF ChatRetries
  <2>2. CallsLeft'
    BY <1>4 DEF ChatRetries
  <2> QED  BY <2>1, <2>2
<1>5. CASE ChatFails(a)
  <2>1. TypeOK'
    BY <1>5, CountersType DEF ChatFails
  <2>2. CallsLeft'
    BY <1>5 DEF ChatFails
  <2> QED  BY <2>1, <2>2
<1>6. CASE EmitUsage(a)
  <2>1. cost[a] \in Nat /\ TenantOf[a] \in Tenants
    <3>1. Costs \subseteq Nat /\ TenantOf \in [Agents -> Tenants]
      BY AgentsAssumption, BudgetAssumption
    <3>2. cost[a] \in Costs \cup {0}
      OBVIOUS
    <3>3. cost[a] \in Nat
      BY <3>2, CostsAreNumbers, Zenon
    <3>4. TenantOf[a] \in Tenants
      BY <3>1
    <3> QED  BY <3>3, <3>4
  <2>2. CountersTypeOK'
    BY <1>6, <2>1, CountersType DEF EmitUsage
  <2>3. month' \in [Tenants -> Nat]
    BY <1>6, <2>1, SMTT(20) DEF EmitUsage
  <2>4. TypeOK'
    <3>1. step' \in [Agents -> {"idle", "check", "chat", "emit", "tools", "done", "failed"}]
      BY <1>6 DEF EmitUsage, AfterEmit
    <3>2. counted' \in [Agents -> Nat] /\ cost' \in [Agents -> Costs \cup {0}]
      BY <1>6 DEF EmitUsage
    <3> QED  BY <1>6, <2>2, <2>3, <3>1, <3>2 DEF EmitUsage
  <2>5. CallsLeft'
    BY <1>6 DEF EmitUsage, AfterEmit
  <2> QED  BY <2>4, <2>5
<1>7. CASE EmitUsageFails(a)
  <2>1. TypeOK'
    <3>1. step' \in [Agents -> {"idle", "check", "chat", "emit", "tools", "done", "failed"}]
      BY <1>7 DEF EmitUsageFails, AfterEmit
    <3>2. faults' \in 0 .. MaxFaults /\ cost' \in [Agents -> Costs \cup {0}]
      BY <1>7 DEF EmitUsageFails
    <3>3. CountersTypeOK'
      BY <1>7, CountersType DEF EmitUsageFails
    <3> QED  BY <1>7, <3>1, <3>2, <3>3 DEF EmitUsageFails
  <2>2. CallsLeft'
    BY <1>7 DEF EmitUsageFails, AfterEmit
  <2> QED  BY <2>1, <2>2
<1>8. CASE ForceSynthesis(a)
  <2>1. TypeOK'
    BY <1>8, CountersType DEF ForceSynthesis, AtToolCall
  <2>2. CallsLeft'
    BY <1>8 DEF ForceSynthesis, AtToolCall
  <2> QED  BY <2>1, <2>2
<1>9. CASE RefuseDuplicate(a)
  <2>1. pending[a] \in Seq(ToolCalls) /\ pending[a] # <<>>
    BY <1>9 DEF RefuseDuplicate, AtToolCall
  <2>2. Tail(pending[a]) \in Seq(ToolCalls)
    BY <2>1
  <2>3. TypeOK'
    BY <1>9, <2>2, CountersType DEF RefuseDuplicate, AtToolCall
  <2>4. CallsLeft'
    BY <1>9 DEF RefuseDuplicate, AtToolCall
  <2> QED  BY <2>3, <2>4
<1>10. CASE InvokeTool(a)
  <2>1. pending[a] \in Seq(ToolCalls) /\ pending[a] # <<>>
    BY <1>10 DEF InvokeTool, AtToolCall
  <2>2. Tail(pending[a]) \in Seq(ToolCalls) /\ Head(pending[a]) \in ToolCalls
    BY <2>1
  <2>3. TypeOK'
    <3>1. toolCalls[a] \in 0 .. MaxToolCalls /\ toolCalls[a] < MaxToolCalls
      BY <1>10 DEF InvokeTool
    <3>2. toolCalls' \in [Agents -> 0 .. MaxToolCalls]
      BY <1>10, <3>1 DEF InvokeTool
    <3>3. history' \in [Agents -> SUBSET ToolCalls] /\ pending' \in [Agents -> Seq(ToolCalls)]
      BY <1>10, <2>2 DEF InvokeTool
    <3>4. CountersTypeOK'
      BY <1>10, CountersType DEF InvokeTool
    <3> QED  BY <1>10, <3>2, <3>3, <3>4 DEF InvokeTool
  <2>4. CallsLeft'
    BY <1>10 DEF InvokeTool, AtToolCall
  <2> QED  BY <2>3, <2>4
<1>11. CASE NextTurn(a)
  <2>1. TypeOK'
    BY <1>11, CountersType DEF NextTurn
  <2>2. CallsLeft'
    <3>1. synth'[a] = (llmCalls[a] >= MaxLLMCalls)
      BY <1>11, Zenon DEF NextTurn
    <3>2. llmCalls[a] \in 0 .. MaxLLMCalls
      OBVIOUS
    <3>3. ~synth'[a] => llmCalls[a] < MaxLLMCalls
      <4>1. ~synth'[a] => ~(llmCalls[a] >= MaxLLMCalls)
        BY <3>1, Zenon
      <4>2. ~(llmCalls[a] >= MaxLLMCalls) => llmCalls[a] < MaxLLMCalls
        BY <3>2
      <4> QED  BY <4>1, <4>2, Zenon
    <3>4. \A x \in Agents : x # a => synth'[x] = synth[x] /\ step'[x] = step[x]
      BY <1>11 DEF NextTurn
    <3>5. llmCalls' = llmCalls
      BY <1>11 DEF NextTurn
    <3> QED  BY <3>3, <3>4, <3>5
  <2> QED  BY <2>1, <2>2
<1> QED
  BY <1>1, <1>2, <1>3, <1>4, <1>5, <1>6, <1>7, <1>8, <1>9, <1>10, <1>11 DEF Continue

LEMMA OtherType ==
  ASSUME IType,
         \/ \E a \in Agents : StartRun(a) \/ Deadline(a)
         \/ \E n \in Tenants : Embed(n)
         \/ Midnight
         \/ \E n \in Tenants, d \in Days : Expire(n, d)
         \/ UNCHANGED vars
  PROVE  IType'
PROOF
<1> USE Limits DEF IType, TypeOK, CallsLeft, runVars, usageVars, historyVars
<1>1. ASSUME NEW a \in Agents, StartRun(a)
      PROVE  IType'
  <2>1. TypeOK'
    BY <1>1, CountersType, SMTT(20) DEF StartRun
  <2>2. CallsLeft'
    <3>1. synth'[a] = (MaxLLMCalls = 0)
      BY <1>1, Zenon DEF StartRun
    <3>2. llmCalls'[a] = 0
      BY <1>1 DEF StartRun
    <3>3. ~synth'[a] => llmCalls'[a] < MaxLLMCalls
      <4>1. ~synth'[a] => ~(MaxLLMCalls = 0)
        BY <3>1, Zenon
      <4>2. ~(MaxLLMCalls = 0) => llmCalls'[a] < MaxLLMCalls
        BY <3>2
      <4> QED  BY <4>1, <4>2, Zenon
    <3>4. \A x \in Agents : x # a =>
            synth'[x] = synth[x] /\ step'[x] = step[x] /\ llmCalls'[x] = llmCalls[x]
      BY <1>1 DEF StartRun
    <3> QED  BY <3>3, <3>4
  <2> QED  BY <2>1, <2>2
<1>2. ASSUME NEW a \in Agents, Deadline(a)
      PROVE  IType'
  BY <1>2, CountersType DEF Deadline
<1>3. ASSUME NEW n \in Tenants, Embed(n)
      PROVE  IType'
  <2>1. CountersTypeOK'
    BY <1>3, CountersType DEF Embed
  <2>2. embedded' \in [Tenants -> Nat] /\ month' \in [Tenants -> Nat]
    BY <1>3 DEF Embed
  <2> QED  BY <1>3, <2>1, <2>2 DEF Embed
<1>4. CASE Midnight
  <2>1. CountersTypeOK'
    BY <1>4, CountersType DEF Midnight
  <2> QED  BY <1>4, <2>1 DEF Midnight
<1>5. ASSUME NEW n \in Tenants, NEW d \in Days, Expire(n, d)
      PROVE  IType'
  <2>1. CountersTypeOK'
    BY <1>5, CountersType DEF Expire
  <2> QED  BY <1>5, <2>1 DEF Expire
<1>6. CASE UNCHANGED vars
  BY <1>6, CountersType DEF vars
<1> QED  BY <1>1, <1>2, <1>3, <1>4, <1>5, <1>6

LEMMA TypeInvariant == Spec => []IType
PROOF
<1>1. Init => IType
  BY AgentsAssumption, BudgetAssumption, LimitsAssumption, DaysAssumption
     DEF Init, CountersInit, IType, TypeOK, CallsLeft, CountersTypeOK, Days
<1>2. IType /\ [Next]_vars => IType'
  BY ContinueType, OtherType DEF Next
<1> QED  BY <1>1, <1>2, PTL DEF Spec

\* The counters of the loop stay within the limits the worker configures: no
\* order of answers, retries, refusals and duplicates makes it count past
\* maxToolCalls or maxLLMCalls.
THEOREM TypeCorrect == Spec => []TypeOK
PROOF
<1>1. IType => TypeOK
  BY DEF IType
<1> QED  BY <1>1, TypeInvariant, PTL

(***************************************************************************)
(* Tool calls.                                                             *)
(***************************************************************************)
HistoryFinite == \A a \in Agents : IsFiniteSet(history[a])

CallsOfOneRun == ToolCallsDistinct /\ HistoryFinite

LEMMA CallsStep ==
  ASSUME IType, CallsOfOneRun, [Next]_vars
  PROVE  CallsOfOneRun'
PROOF
<1> USE DEF IType, TypeOK, CallsOfOneRun, ToolCallsDistinct, HistoryFinite
<1>1. CASE UNCHANGED <<toolCalls, history>>
  BY <1>1
<1>2. ASSUME NEW a \in Agents, StartRun(a)
      PROVE  CallsOfOneRun'
  <2>1. /\ toolCalls' = [toolCalls EXCEPT ![a] = 0]
        /\ history' = [history EXCEPT ![a] = {}]
    BY <1>2 DEF StartRun
  <2>2. IsFiniteSet({}) /\ Cardinality({}) = 0
    BY FS_EmptySet
  <2> QED  BY <2>1, <2>2
<1>3. ASSUME NEW a \in Agents, InvokeTool(a)
      PROVE  CallsOfOneRun'
  <2> DEFINE key == Head(pending[a])
  <2>1. /\ toolCalls' = [toolCalls EXCEPT ![a] = toolCalls[a] + 1]
        /\ history' = [history EXCEPT ![a] = history[a] \cup {key}]
        /\ key \notin history[a]
    BY <1>3 DEF InvokeTool
  <2>2. /\ IsFiniteSet(history[a] \cup {key})
        /\ Cardinality(history[a] \cup {key}) = Cardinality(history[a]) + 1
    BY <2>1, FS_AddElement
  <2> HIDE DEF key
  <2> QED  BY <2>1, <2>2
<1>4. ASSUME NEW a \in Agents, Continue(a), ~InvokeTool(a)
      PROVE  UNCHANGED <<toolCalls, history>>
  BY <1>4 DEF Continue, CheckBudget, CheckRefused, Chat, ChatRetries, ChatFails,
     EmitUsage, EmitUsageFails, ForceSynthesis, RefuseDuplicate, NextTurn, runVars
<1> QED
  BY <1>1, <1>2, <1>3, <1>4
  DEF Next, Deadline, Embed, Midnight, Expire, vars, runVars

\* However the model repeats itself, in one answer or across answers, no tool
\* call is executed twice in a run: the executions are as many as the keys in
\* toolCallHistory.
THEOREM NoRepeatedToolCall == Spec => []ToolCallsDistinct
PROOF
<1>1. Init => CallsOfOneRun
  BY FS_EmptySet DEF Init, CallsOfOneRun, ToolCallsDistinct, HistoryFinite
<1>2. IType /\ CallsOfOneRun /\ [Next]_vars => CallsOfOneRun'
  BY CallsStep
<1>3. CallsOfOneRun => ToolCallsDistinct
  BY DEF CallsOfOneRun
<1> QED  BY <1>1, <1>2, <1>3, TypeInvariant, PTL DEF Spec

LEMMA AnswersStep ==
  ASSUME IType, AnswersComplete, [Next]_vars
  PROVE  AnswersComplete'
PROOF
<1> USE DEF IType, TypeOK, AnswersComplete, runVars, Goto, AtToolCall
<1>1. ASSUME NEW a \in Agents, StartRun(a)
      PROVE  AnswersComplete'
  BY <1>1 DEF StartRun
<1>2. ASSUME NEW a \in Agents, CheckBudget(a) \/ CheckRefused(a)
      PROVE  AnswersComplete'
  BY <1>2 DEF CheckBudget, CheckRefused
<1>3. ASSUME NEW a \in Agents, Chat(a)
      PROVE  AnswersComplete'
  <2>1. step'[a] \in {"done", "emit"}
    BY <1>3 DEF Chat
  <2>2. \A x \in Agents : x # a =>
          step'[x] = step[x] /\ pending'[x] = pending[x]
    BY <1>3 DEF Chat
  <2>3. synth' = synth /\ toolCalls' = toolCalls
    BY <1>3 DEF Chat
  <2> QED  BY <2>1, <2>2, <2>3
<1>4. ASSUME NEW a \in Agents, ChatRetries(a) \/ ChatFails(a)
      PROVE  AnswersComplete'
  BY <1>4 DEF ChatRetries, ChatFails
<1>5. ASSUME NEW a \in Agents, EmitUsage(a) \/ EmitUsageFails(a)
      PROVE  AnswersComplete'
  BY <1>5 DEF EmitUsage, EmitUsageFails, AfterEmit
<1>6. ASSUME NEW a \in Agents, ForceSynthesis(a)
      PROVE  AnswersComplete'
  <2>1. toolCalls[a] = MaxToolCalls
    BY <1>6, Limits DEF ForceSynthesis
  <2> QED  BY <1>6, <2>1 DEF ForceSynthesis
<1>7. ASSUME NEW a \in Agents, RefuseDuplicate(a) \/ InvokeTool(a)
      PROVE  AnswersComplete'
  <2>1. step' = step /\ synth' = synth /\ step[a] = "tools"
    BY <1>7 DEF RefuseDuplicate, InvokeTool
  <2>2. \A x \in Agents : x # a =>
          pending'[x] = pending[x] /\ toolCalls'[x] = toolCalls[x]
    BY <1>7 DEF RefuseDuplicate, InvokeTool
  <2> QED  BY <2>1, <2>2
<1>8. ASSUME NEW a \in Agents, NextTurn(a)
      PROVE  AnswersComplete'
  <2>1. pending' = pending /\ toolCalls' = toolCalls /\ pending[a] = <<>>
    BY <1>8 DEF NextTurn
  <2>2. \A x \in Agents : x # a => step'[x] = step[x] /\ synth'[x] = synth[x]
    BY <1>8 DEF NextTurn
  <2> QED  BY <2>1, <2>2
<1>9. CASE UNCHANGED <<step, synth, toolCalls, pending>>
  BY <1>9
<1> QED
  BY <1>1, <1>2, <1>3, <1>4, <1>5, <1>6, <1>7, <1>8, <1>9
  DEF Next, Continue, Deadline, Embed, Midnight, Expire, vars

\* Outside the synthesis that the tool limit forces, the model is never called
\* again while a tool call of its last answer has no result.
THEOREM NoDanglingToolCalls == Spec => []AnswersComplete
PROOF
<1>1. Init => AnswersComplete
  BY DEF Init, AnswersComplete
<1>2. IType /\ AnswersComplete /\ [Next]_vars => AnswersComplete'
  BY AnswersStep
<1> QED  BY <1>1, <1>2, TypeInvariant, PTL DEF Spec

(***************************************************************************)
(* What is counted.  While a run is alive, an answer that is not counted   *)
(* is about to be, was lost to a fault, or was the report of a synthesis.  *)
(***************************************************************************)
Uncounted(s, y) == IF s = "emit" \/ (s = "done" /\ y) THEN 1 ELSE 0

LEMMA UncountedValues == \A s, y : Uncounted(s, y) \in {0, 1}
PROOF
  BY DEF Uncounted

AnsweredCounted ==
  \A a \in Agents :
    alive[a] => answered[a] <= counted[a] + faults + Uncounted(step[a], synth[a])

\* A step disturbs this for the run that takes it only.
LEMMA CountedFrame ==
  ASSUME IType, AnsweredCounted, NEW a \in Agents,
         faults' \in Nat, faults <= faults',
         \A x \in Agents \ {a} :
           /\ step'[x] = step[x] /\ synth'[x] = synth[x] /\ alive'[x] = alive[x]
           /\ answered'[x] = answered[x] /\ counted'[x] = counted[x],
         alive'[a] => answered'[a] <= counted'[a] + faults' + Uncounted(step'[a], synth'[a])
  PROVE  AnsweredCounted'
PROOF
<1> SUFFICES ASSUME NEW x \in Agents, x # a, alive'[x]
             PROVE  answered'[x] <= counted'[x] + faults' + Uncounted(step'[x], synth'[x])
  BY DEF AnsweredCounted
<1>1. Uncounted(step'[x], synth'[x]) = Uncounted(step[x], synth[x])
  OBVIOUS
<1>2. Uncounted(step[x], synth[x]) \in {0, 1}
  BY UncountedValues
<1>3. alive[x]
  BY Zenon
<1>4. answered[x] <= counted[x] + faults + Uncounted(step[x], synth[x])
  BY <1>3 DEF AnsweredCounted
<1>5. answered'[x] = answered[x] /\ counted'[x] = counted[x]
  OBVIOUS
<1>6. answered[x] \in Nat /\ counted[x] \in Nat /\ faults \in Nat
  BY Limits DEF IType, TypeOK
<1> QED  BY <1>1, <1>2, <1>4, <1>5, <1>6

LEMMA CountedStep ==
  ASSUME IType, AnsweredCounted, [Next]_vars
  PROVE  AnsweredCounted'
PROOF
<1> USE DEF runVars, usageVars, historyVars, Goto, AtToolCall
<1>f. /\ step \in [Agents ->
           {"idle", "check", "chat", "emit", "tools", "done", "failed"}]
      /\ synth \in [Agents -> BOOLEAN] /\ alive \in [Agents -> BOOLEAN]
      /\ answered \in [Agents -> Nat] /\ counted \in [Agents -> Nat]
  BY DEF IType, TypeOK
<1>0. ASSUME NEW a \in Agents
      PROVE  /\ Uncounted(step[a], synth[a]) \in {0, 1}
             /\ Uncounted(step'[a], synth'[a]) \in {0, 1}
             /\ alive[a] => answered[a] <= counted[a] + faults + Uncounted(step[a], synth[a])
             /\ answered[a] \in Nat /\ counted[a] \in Nat /\ faults \in Nat
  BY UncountedValues, Limits DEF AnsweredCounted, IType, TypeOK
<1>1. ASSUME NEW a \in Agents, StartRun(a)
      PROVE  AnsweredCounted'
  <2>1. answered'[a] = 0 /\ counted'[a] = 0 /\ faults' = faults
    BY <1>f, <1>1 DEF StartRun
  <2>2. \A x \in Agents \ {a} :
          /\ step'[x] = step[x] /\ synth'[x] = synth[x] /\ alive'[x] = alive[x]
          /\ answered'[x] = answered[x] /\ counted'[x] = counted[x]
    BY <1>f, <1>1 DEF StartRun
  <2>3. answered'[a] <= counted'[a] + faults' + Uncounted(step'[a], synth'[a])
    BY <1>0, <2>1
  <2> QED  BY <1>0, <2>1, <2>2, <2>3, CountedFrame
<1>2. ASSUME NEW a \in Agents, Chat(a)
      PROVE  AnsweredCounted'
  <2>1. answered'[a] = answered[a] + 1 /\ step[a] = "chat"
    BY <1>f, <1>2 DEF Chat
  <2>2. counted' = counted /\ faults' = faults /\ alive' = alive /\ synth' = synth
    BY <1>f, <1>2 DEF Chat
  <2>3. step'[a] = "emit" \/ (step'[a] = "done" /\ synth[a])
    <3>1. synth[a] => step'[a] = "done"
      BY <1>f, <1>2 DEF Chat
    <3>2. ~synth[a] => step'[a] = "emit"
      BY <1>f, <1>2 DEF Chat
    <3> QED  BY <3>1, <3>2, Zenon
  <2>4. \A x \in Agents \ {a} : step'[x] = step[x] /\ answered'[x] = answered[x]
    BY <1>f, <1>2 DEF Chat
  <2>5. Uncounted(step[a], synth[a]) = 0
    BY <2>1 DEF Uncounted
  <2>6. Uncounted(step'[a], synth'[a]) = 1
    BY <2>2, <2>3, Zenon DEF Uncounted
  <2>7. alive'[a] => alive[a]
    BY <2>2, Zenon
  <2>8. alive[a] => answered'[a] <= counted'[a] + faults' + Uncounted(step'[a], synth'[a])
    BY <1>0, <2>1, <2>2, <2>5, <2>6
  <2> QED  BY <1>0, <2>2, <2>4, <2>7, <2>8, CountedFrame
<1>3. ASSUME NEW a \in Agents, EmitUsage(a)
      PROVE  AnsweredCounted'
  <2>1. counted'[a] = counted[a] + 1 /\ step[a] = "emit"
    BY <1>f, <1>3 DEF EmitUsage, AfterEmit
  <2>2. UNCHANGED <<answered, faults, alive, synth>>
    BY <1>f, <1>3 DEF EmitUsage
  <2>3. \A x \in Agents \ {a} : step'[x] = step[x] /\ counted'[x] = counted[x]
    BY <1>f, <1>3 DEF EmitUsage, AfterEmit
  <2>4. alive'[a] => alive[a]
    BY <2>2, Zenon
  <2>5. alive[a] => answered'[a] <= counted'[a] + faults' + Uncounted(step'[a], synth'[a])
    BY <1>0, <2>1, <2>2
  <2> QED  BY <1>0, <2>2, <2>3, <2>4, <2>5, CountedFrame
<1>4. ASSUME NEW a \in Agents, EmitUsageFails(a)
      PROVE  AnsweredCounted'
  <2>1. UNCHANGED <<answered, counted, alive, synth>>
    BY <1>f, <1>4 DEF EmitUsageFails
  <2>2. \A x \in Agents \ {a} : step'[x] = step[x]
    BY <1>f, <1>4 DEF EmitUsageFails, AfterEmit
  <2>3. faults' \in Nat /\ faults <= faults'
    BY <1>0, <1>4 DEF EmitUsageFails
  <2>4. alive'[a] => alive[a] /\ faults' = faults + 1
    BY <1>4, <2>1, Zenon DEF EmitUsageFails
  <2>5. alive[a] /\ faults' = faults + 1
          => answered'[a] <= counted'[a] + faults' + Uncounted(step'[a], synth'[a])
    BY <1>0, <2>1
  <2> QED  BY <2>1, <2>2, <2>3, <2>4, <2>5, CountedFrame
<1>5. ASSUME NEW a \in Agents,
             \/ CheckBudget(a) \/ CheckRefused(a) \/ ChatRetries(a) \/ ChatFails(a)
             \/ ForceSynthesis(a) \/ RefuseDuplicate(a) \/ InvokeTool(a)
             \/ NextTurn(a)
      PROVE  AnsweredCounted'
  <2>1. UNCHANGED <<answered, counted, faults, alive>>
    BY <1>f, <1>5 DEF CheckBudget, CheckRefused, ChatRetries, ChatFails, ForceSynthesis,
       RefuseDuplicate, InvokeTool, NextTurn
  <2>2. step[a] \in {"check", "chat", "tools"}
    BY <1>f, <1>5 DEF CheckBudget, CheckRefused, ChatRetries, ChatFails, ForceSynthesis,
       RefuseDuplicate, InvokeTool, NextTurn
  <2>3. \A x \in Agents \ {a} : step'[x] = step[x] /\ synth'[x] = synth[x]
    BY <1>f, <1>5 DEF CheckBudget, CheckRefused, ChatRetries, ChatFails, ForceSynthesis,
       RefuseDuplicate, InvokeTool, NextTurn
  <2>4. Uncounted(step[a], synth[a]) = 0
    BY <2>2 DEF Uncounted
  <2>5. alive'[a] => alive[a]
    BY <2>1, Zenon
  <2>6. alive[a] => answered'[a] <= counted'[a] + faults' + Uncounted(step'[a], synth'[a])
    BY <1>0, <2>1, <2>4
  <2> QED  BY <1>0, <2>1, <2>3, <2>5, <2>6, CountedFrame
<1>6. ASSUME NEW a \in Agents, Deadline(a)
      PROVE  AnsweredCounted'
  <2>1. UNCHANGED <<step, synth, answered, counted, faults>>
    BY <1>6 DEF Deadline
  <2>2. ~alive'[a]
    <3>1. alive' = [alive EXCEPT ![a] = FALSE]
      BY <1>6 DEF Deadline
    <3> QED  BY <1>f, <3>1, Zenon
  <2>3. \A x \in Agents \ {a} : alive'[x] = alive[x]
    BY <1>f, <1>6 DEF Deadline
  <2>4. alive'[a] =>
          answered'[a] <= counted'[a] + faults' + Uncounted(step'[a], synth'[a])
    BY <2>2, Zenon
  <2> QED  BY <1>0, <2>1, <2>3, <2>4, CountedFrame
<1>7. CASE UNCHANGED <<step, synth, alive, answered, counted, faults>>
  BY <1>7 DEF AnsweredCounted, Uncounted
<1> QED
  BY <1>1, <1>2, <1>3, <1>4, <1>5, <1>6, <1>7
  DEF Next, Continue, Embed, Midnight, Expire, vars

\* Whatever the model answers and however the run ends, the only LLM call of a
\* completed run whose usage is not emitted is the synthesis, except for the
\* emissions that fail.
THEOREM CallsAreCounted == Spec => []OnlySynthesisUncounted
PROOF
<1>1. Init => AnsweredCounted
  BY DEF Init, AnsweredCounted, Uncounted
<1>2. IType /\ AnsweredCounted /\ [Next]_vars => AnsweredCounted'
  BY CountedStep
<1>3. IType /\ AnsweredCounted => OnlySynthesisUncounted
  BY DEF IType, TypeOK, AnsweredCounted, Uncounted, OnlySynthesisUncounted
<1> QED  BY <1>1, <1>2, <1>3, TypeInvariant, PTL DEF Spec

(***************************************************************************)
(* The overshoot.  The bound alone is not inductive: an agent that passed  *)
(* the check may still add the cost of its call.  The invariant sets one   *)
(* call aside for each of these callers.                                   *)
(***************************************************************************)
Callers(n) == {a \in AgentsOf(n) : step[a] \in {"chat", "emit"}}

NothingAhead ==
  \A n \in Tenants, d \in Days : d > today => counter[n][d] = 0

RoomForCallers(n) ==
  MonthToDate(n) + Cardinality(Callers(n)) * MaxCost
    <= Budget[n] + Cardinality(AgentsOf(n)) * MaxCost + embedded[n]

IBudget ==
  /\ IType
  /\ NothingAhead
  /\ \A n \in Tenants : Budget[n] > 0 => RoomForCallers(n)

LEMMA MaxCostBounds ==
  MaxCost \in Costs /\ MaxCost \in Nat /\ \A c \in Costs \cup {0} : c <= MaxCost
PROOF
<1>1. MaxCost \in Costs /\ \A x \in Costs : x <= MaxCost
  BY BudgetAssumption, Zenon DEF MaxCost
<1>2. MaxCost \in Nat
  BY <1>1, BudgetAssumption
<1> QED  BY <1>1, <1>2

LEMMA TimesMonotone ==
  ASSUME NEW i \in Nat, NEW j \in Nat, NEW m \in Nat, i <= j
  PROVE  i * m <= j * m /\ i * m \in Nat /\ j * m \in Nat
PROOF
  OBVIOUS

LEMMA TimesNext ==
  ASSUME NEW i \in Nat, NEW m \in Nat
  PROVE  (i + 1) * m = i * m + m
PROOF
  OBVIOUS

LEMMA CallersFinite ==
  ASSUME NEW n \in Tenants
  PROVE  /\ IsFiniteSet(AgentsOf(n)) /\ IsFiniteSet(Callers(n))
         /\ Cardinality(Callers(n)) \in Nat /\ Cardinality(AgentsOf(n)) \in Nat
         /\ Cardinality(Callers(n)) <= Cardinality(AgentsOf(n))
PROOF
<1>1. AgentsOf(n) \subseteq Agents /\ Callers(n) \subseteq AgentsOf(n)
  BY DEF AgentsOf, Callers
<1>2. IsFiniteSet(AgentsOf(n))
  BY <1>1, AgentsAssumption, FS_Subset
<1>3. IsFiniteSet(Callers(n)) /\ Cardinality(Callers(n)) <= Cardinality(AgentsOf(n))
  BY <1>1, <1>2, FS_Subset
<1> QED  BY <1>2, <1>3, FS_CardinalityType

\* What the steps do to the month to date.
LEMMA MonthType ==
  ASSUME CountersTypeOK, NEW n \in Tenants
  PROVE  /\ MonthToDate(n) \in Nat
         /\ \A d : CostOfDay(n, d) \in Nat
PROOF
<1>1. \A d : CostOfDay(n, d) \in Nat
  BY DEF CountersTypeOK, CostOfDay
<1> QED  BY <1>1 DEF MonthToDate

LEMMA MonthCounts ==
  ASSUME CountersTypeOK, NEW n \in Tenants, NEW c \in Nat,
         CountCost(n, c), today' = today
  PROVE  /\ MonthToDate(n)' = MonthToDate(n) + c
         /\ \A m \in Tenants \ {n} : MonthToDate(m)' = MonthToDate(m)
PROOF
<1>1. today \in Days /\ counter \in [Tenants -> [Days -> Nat]]
  BY DEF CountersTypeOK
<1>2. counter[n] \in [Days -> Nat]
  BY <1>1
<1>3. counter' = [counter EXCEPT ![n] = [counter[n] EXCEPT ![today] = counter[n][today] + c]]
  BY <1>1 DEF CountCost
<1>4. counter'[n][today] = counter[n][today] + c
  BY <1>1, <1>2, <1>3
<1>5. \A d \in Days \ {today} : counter'[n][d] = counter[n][d]
  BY <1>1, <1>2, <1>3
<1>6. today \in Nat /\ today - 1 # today /\ today - 2 # today
  BY <1>1, DaysAssumption DEF Days
<1>7. CostOfDay(n, today)' = CostOfDay(n, today) + c
  BY <1>1, <1>4 DEF CostOfDay
<1>8. /\ CostOfDay(n, today - 1)' = CostOfDay(n, today - 1)
      /\ CostOfDay(n, today - 2)' = CostOfDay(n, today - 2)
  BY <1>5, <1>6 DEF CostOfDay
<1>9. MonthToDate(n)' = MonthToDate(n) + c
  BY <1>7, <1>8, MonthType DEF MonthToDate
<1>10. \A m \in Tenants \ {n} : counter'[m] = counter[m]
  BY <1>1, <1>3
<1> QED  BY <1>9, <1>10 DEF MonthToDate, CostOfDay

\* The new day brings nothing, and what leaves the month or expires only lowers
\* the sum: the months of the days never decrease, so a day outside the month
\* of today is outside the month of tomorrow.
LEMMA MonthTurns ==
  ASSUME CountersTypeOK, NothingAhead, NextDay, NEW n \in Tenants
  PROVE  MonthToDate(n)' <= MonthToDate(n)
PROOF
<1>1. /\ today \in Days /\ counter \in [Tenants -> [Days -> Nat]]
      /\ today' = today + 1 /\ today' \in Days /\ Days \subseteq Nat
  BY DaysAssumption DEF CountersTypeOK, NextDay, Days
<1>2. \A d \in Days : counter'[n][d] \in Nat /\ counter'[n][d] <= counter[n][d]
  BY <1>1 DEF NextDay
<1>3. counter'[n][today'] = 0
  <2>1. counter[n][today'] = 0
    BY <1>1 DEF NothingAhead
  <2> QED  BY <1>1, <1>2, <2>1
<1>4. CostOfDay(n, today)' = 0
  BY <1>1, <1>3 DEF CostOfDay
<1>5. \A d : d <= today =>
        /\ (IF d \in Days /\ MonthOf[d] = MonthOf[today']
            THEN counter'[n][d] ELSE 0) \in Nat
        /\ (IF d \in Days /\ MonthOf[d] = MonthOf[today']
            THEN counter'[n][d] ELSE 0) <= CostOfDay(n, d)
  <2> SUFFICES ASSUME NEW d \in Days, d <= today, MonthOf[d] = MonthOf[today']
               PROVE  counter'[n][d] <= CostOfDay(n, d)
    BY <1>2, MonthType DEF CostOfDay
  <2>1. MonthOf[d] <= MonthOf[today] /\ MonthOf[today] <= MonthOf[today']
    BY <1>1, DaysAssumption
  <2>2. MonthOf[d] = MonthOf[today]
    BY <1>1, <2>1, DaysAssumption
  <2> QED  BY <1>2, <2>2 DEF CostOfDay
<1>6. CostOfDay(n, today - 1)' <= CostOfDay(n, today) /\ CostOfDay(n, today - 1)' \in Nat
  <2>1. today' - 1 = today
    BY <1>1
  <2> QED  BY <1>1, <1>5, <2>1 DEF CostOfDay
<1>7. CostOfDay(n, today - 2)' <= CostOfDay(n, today - 1) /\ CostOfDay(n, today - 2)' \in Nat
  <2>1. today' - 2 = today - 1 /\ today - 1 <= today
    BY <1>1
  <2> QED  BY <1>1, <1>5, <2>1 DEF CostOfDay
<1> QED  BY <1>4, <1>6, <1>7, MonthType DEF MonthToDate

LEMMA MonthExpires ==
  ASSUME CountersTypeOK, NEW m \in Tenants, NEW d \in Days, ExpireKey(m, d),
         NEW n \in Tenants
  PROVE  MonthToDate(n)' <= MonthToDate(n)
PROOF
<1>1. \A e \in Days : counter'[n][e] \in Nat /\ counter[n][e] \in Nat
                      /\ counter'[n][e] <= counter[n][e]
  BY DEF ExpireKey, CountersTypeOK
<1>2. today' = today
  BY DEF ExpireKey
<1>3. \A e : /\ CostOfDay(n, e) \in Nat
             /\ (IF e \in Days /\ MonthOf[e] = MonthOf[today]
                 THEN counter'[n][e] ELSE 0) \in Nat
             /\ (IF e \in Days /\ MonthOf[e] = MonthOf[today]
                 THEN counter'[n][e] ELSE 0) <= CostOfDay(n, e)
  BY <1>1 DEF CostOfDay
<1>4. /\ CostOfDay(n, today)' \in Nat /\ CostOfDay(n, today)' <= CostOfDay(n, today)
      /\ CostOfDay(n, today - 1)' \in Nat
      /\ CostOfDay(n, today - 1)' <= CostOfDay(n, today - 1)
      /\ CostOfDay(n, today - 2)' \in Nat
      /\ CostOfDay(n, today - 2)' <= CostOfDay(n, today - 2)
  BY <1>2, <1>3 DEF CostOfDay
<1> QED  BY <1>3, <1>4 DEF MonthToDate

LEMMA NothingAheadStep ==
  ASSUME CountersTypeOK, NothingAhead,
         \/ UNCHANGED countersVars
         \/ UNCHANGED today /\ \E n \in Tenants, c \in Nat : CountCost(n, c)
         \/ NextDay
         \/ \E n \in Tenants, d \in Days : ExpireKey(n, d)
  PROVE  NothingAhead'
PROOF
<1> USE DEF CountersTypeOK, NothingAhead, Days
<1>1. CASE UNCHANGED countersVars
  BY <1>1 DEF countersVars
<1>2. ASSUME NEW n \in Tenants, NEW c \in Nat, UNCHANGED today, CountCost(n, c)
      PROVE  NothingAhead'
  <2>1. \A m \in Tenants, d \in Days : d # today => counter'[m][d] = counter[m][d]
    BY <1>2 DEF CountCost
  <2>2. today' = today /\ today \in Nat /\ Days \subseteq Nat
    BY <1>2, DaysAssumption
  <2>3. \A d \in Days : d > today => d # today
    BY <2>2
  <2> QED  BY <2>1, <2>2, <2>3
<1>3. CASE NextDay
  BY <1>3, DaysAssumption DEF NextDay
<1>4. ASSUME NEW n \in Tenants, NEW d \in Days, ExpireKey(n, d)
      PROVE  NothingAhead'
  BY <1>4 DEF ExpireKey
<1> QED  BY <1>1, <1>2, <1>3, <1>4

\* A step that neither spends for the tenant nor lets one of its agents past
\* the check.
LEMMA RoomQuiet ==
  ASSUME IType, NEW n \in Tenants, RoomForCallers(n),
         MonthToDate(n)' \in Nat, MonthToDate(n)' <= MonthToDate(n),
         embedded'[n] \in Nat, embedded[n] <= embedded'[n],
         Callers(n)' \subseteq Callers(n)
  PROVE  RoomForCallers(n)'
PROOF
<1> DEFINE k == Cardinality(Callers(n))
<1> DEFINE k2 == Cardinality(Callers(n)')
<1> DEFINE room == Cardinality(AgentsOf(n)) * MaxCost
<1>1. k \in Nat /\ k2 \in Nat /\ k2 <= k
  BY CallersFinite, FS_Subset, FS_CardinalityType
<1>2. k2 * MaxCost <= k * MaxCost /\ k * MaxCost \in Nat /\ k2 * MaxCost \in Nat
  BY <1>1, MaxCostBounds, TimesMonotone
<1>3. room \in Nat
  BY CallersFinite, MaxCostBounds, TimesMonotone
<1>4. MonthToDate(n) \in Nat /\ embedded[n] \in Nat /\ Budget[n] \in Nat
  BY MonthType, BudgetAssumption DEF IType, TypeOK
<1>5. MonthToDate(n) + k * MaxCost <= Budget[n] + room + embedded[n]
  BY DEF RoomForCallers
<1>6. MonthToDate(n)' + k2 * MaxCost <= Budget[n] + room + embedded'[n]
  <2> HIDE DEF k, k2, room
  <2>1. MonthToDate(n)' + k2 * MaxCost <= MonthToDate(n) + k * MaxCost
    BY <1>2, <1>4
  <2> QED  BY <1>2, <1>3, <1>4, <1>5, <2>1
<1>7. AgentsOf(n)' = AgentsOf(n) /\ MaxCost' = MaxCost
  BY DEF AgentsOf, MaxCost
<1> QED  BY <1>6, <1>7 DEF RoomForCallers

\* The check admits an agent only while the month is within the budget, and
\* then there is room for all the tenant's agents.
LEMMA RoomAdmit ==
  ASSUME IType, NEW a \in Agents, NEW n \in Tenants, CheckBudget(a),
         n = TenantOf[a], Budget[n] > 0
  PROVE  RoomForCallers(n)'
PROOF
<1> DEFINE k2 == Cardinality(Callers(n)')
<1> DEFINE room == Cardinality(AgentsOf(n)) * MaxCost
<1>1. Callers(n)' \subseteq AgentsOf(n)
  BY DEF Callers, AgentsOf
<1>2. k2 \in Nat /\ k2 <= Cardinality(AgentsOf(n)) /\ Cardinality(AgentsOf(n)) \in Nat
  BY <1>1, CallersFinite, FS_Subset, FS_CardinalityType
<1>3. k2 * MaxCost <= room /\ k2 * MaxCost \in Nat /\ room \in Nat
  BY <1>2, MaxCostBounds, TimesMonotone
<1>4. MonthToDate(n) \in Nat /\ embedded[n] \in Nat /\ Budget[n] \in Nat
  BY MonthType, BudgetAssumption DEF IType, TypeOK
<1>5. MonthToDate(n) <= Budget[n]
  BY <1>4 DEF CheckBudget, WithinBudget, EstimatedCallCost
<1>6. MonthToDate(n)' = MonthToDate(n) /\ embedded' = embedded
  BY DEF CheckBudget, MonthToDate, CostOfDay, countersVars, historyVars
<1>7. MonthToDate(n)' + k2 * MaxCost <= Budget[n] + room + embedded'[n]
  <2> HIDE DEF k2, room
  <2> QED  BY <1>3, <1>4, <1>5, <1>6
<1>8. AgentsOf(n)' = AgentsOf(n) /\ MaxCost' = MaxCost
  BY DEF AgentsOf, MaxCost
<1> QED  BY <1>7, <1>8 DEF RoomForCallers

\* The agent that adds its cost stops being a caller, and the cost was set
\* aside for it.
LEMMA RoomPay ==
  ASSUME IType, NEW a \in Agents, NEW n \in Tenants, EmitUsage(a),
         n = TenantOf[a], RoomForCallers(n)
  PROVE  RoomForCallers(n)'
PROOF
<1> DEFINE k2 == Cardinality(Callers(n)')
<1> DEFINE room == Cardinality(AgentsOf(n)) * MaxCost
<1>1. step \in [Agents -> {"idle", "check", "chat", "emit", "tools", "done", "failed"}]
  BY DEF IType, TypeOK
<1>2. step[a] = "emit" /\ step'[a] \notin {"chat", "emit"}
  BY <1>1 DEF EmitUsage, AfterEmit, Goto
<1>3. \A x \in Agents : x # a => step'[x] = step[x]
  BY <1>1 DEF EmitUsage, AfterEmit, Goto
<1>4. a \in Callers(n) /\ Callers(n)' = Callers(n) \ {a}
  BY <1>2, <1>3 DEF Callers, AgentsOf
<1>5. k2 \in Nat /\ Cardinality(Callers(n)) = k2 + 1
  <2>1. Cardinality(Callers(n) \ {a}) = Cardinality(Callers(n)) - 1
    BY <1>4, CallersFinite, FS_RemoveElement
  <2>2. k2 \in Nat
    BY <1>4, CallersFinite, FS_RemoveElement, FS_CardinalityType
  <2> QED  BY <1>4, <2>1, <2>2, CallersFinite
<1>6. Cardinality(Callers(n)) * MaxCost = k2 * MaxCost + MaxCost /\ k2 * MaxCost \in Nat
  BY <1>5, MaxCostBounds, TimesNext, TimesMonotone
<1>7. room \in Nat
  BY CallersFinite, MaxCostBounds, TimesMonotone
<1>8. MonthToDate(n) \in Nat /\ embedded[n] \in Nat /\ Budget[n] \in Nat
  BY MonthType, BudgetAssumption DEF IType, TypeOK
<1>9. cost[a] \in Nat /\ cost[a] <= MaxCost
  <2>1. cost[a] \in Costs \cup {0}
    BY DEF IType, TypeOK
  <2>2. cost[a] <= MaxCost
    BY <2>1, MaxCostBounds
  <2>3. cost[a] \in Nat
    BY <2>1, CostsAreNumbers, Zenon
  <2> QED  BY <2>2, <2>3
<1>10. MonthToDate(n)' = MonthToDate(n) + cost[a] /\ embedded' = embedded
  <2>1. CountCost(n, cost[a]) /\ today' = today /\ embedded' = embedded
    BY DEF EmitUsage
  <2> QED  BY <1>9, <2>1, MonthCounts DEF IType, TypeOK
<1>11. MonthToDate(n)' + k2 * MaxCost <= Budget[n] + room + embedded'[n]
  <2>1. MonthToDate(n) + (k2 * MaxCost + MaxCost) <= Budget[n] + room + embedded[n]
    BY <1>6 DEF RoomForCallers
  <2>2. MaxCost \in Nat
    BY MaxCostBounds
  <2> HIDE DEF k2, room
  <2> QED  BY <1>6, <1>7, <1>8, <1>9, <1>10, <2>1, <2>2
<1>12. AgentsOf(n)' = AgentsOf(n) /\ MaxCost' = MaxCost
  BY DEF AgentsOf, MaxCost
<1> QED  BY <1>11, <1>12 DEF RoomForCallers

LEMMA RoomEmbed ==
  ASSUME IType, NEW n \in Tenants, Embed(n), RoomForCallers(n)
  PROVE  RoomForCallers(n)'
PROOF
<1> DEFINE room == Cardinality(AgentsOf(n)) * MaxCost
<1> DEFINE aside == Cardinality(Callers(n)) * MaxCost
<1>1. room \in Nat /\ aside \in Nat
  BY CallersFinite, MaxCostBounds, TimesMonotone
<1>2. MonthToDate(n) \in Nat /\ embedded[n] \in Nat /\ Budget[n] \in Nat
  BY MonthType, BudgetAssumption DEF IType, TypeOK
<1>3. MonthToDate(n)' = MonthToDate(n) + 1
  <2>1. CountCost(n, 1) /\ today' = today
    BY DEF Embed
  <2> QED  BY <2>1, MonthCounts DEF IType, TypeOK
<1>4. embedded'[n] = embedded[n] + 1
  BY DEF Embed, IType, TypeOK
<1>5. MonthToDate(n) + aside <= Budget[n] + room + embedded[n]
  BY DEF RoomForCallers
<1>6. MonthToDate(n)' + aside <= Budget[n] + room + embedded'[n]
  <2> HIDE DEF aside, room
  <2> QED  BY <1>1, <1>2, <1>3, <1>4, <1>5
<1>7. AgentsOf(n)' = AgentsOf(n) /\ MaxCost' = MaxCost /\ Callers(n)' = Callers(n)
  BY DEF AgentsOf, MaxCost, Callers, Embed
<1> QED  BY <1>6, <1>7 DEF RoomForCallers

\* The months of the other tenants.
LEMMA MonthFrame ==
  ASSUME CountersTypeOK, UNCHANGED countersVars, NEW n \in Tenants
  PROVE  MonthToDate(n)' = MonthToDate(n)
PROOF
  BY DEF countersVars, MonthToDate, CostOfDay

LEMMA MonthTypeNext ==
  ASSUME CountersTypeOK', NEW n \in Tenants
  PROVE  MonthToDate(n)' \in Nat
PROOF
<1>1. /\ CostOfDay(n, today)' \in Nat /\ CostOfDay(n, today - 1)' \in Nat
      /\ CostOfDay(n, today - 2)' \in Nat
  BY DEF CountersTypeOK, CostOfDay
<1> QED  BY <1>1 DEF MonthToDate

LEMMA StepAhead ==
  ASSUME IBudget, [Next]_vars
  PROVE  NothingAhead'
PROOF
<1>1. CountersTypeOK /\ NothingAhead
  BY DEF IBudget, IType, TypeOK
<1>2. ASSUME NEW a \in Agents, EmitUsage(a)
      PROVE  NothingAhead'
  <2>1. CountCost(TenantOf[a], cost[a]) /\ UNCHANGED today
    BY <1>2 DEF EmitUsage
  <2>2. TenantOf[a] \in Tenants
    BY AgentsAssumption
  <2>3. cost[a] \in Nat
    <3>1. cost[a] \in Costs \cup {0}
      BY DEF IBudget, IType, TypeOK
    <3> QED  BY <3>1, CostsAreNumbers, Zenon
  <2> QED  BY <1>1, <2>1, <2>2, <2>3, NothingAheadStep
<1>3. ASSUME NEW m \in Tenants, Embed(m)
      PROVE  NothingAhead'
  <2>1. CountCost(m, 1) /\ UNCHANGED today /\ 1 \in Nat
    BY <1>3 DEF Embed
  <2> QED  BY <1>1, <2>1, NothingAheadStep
<1>4. CASE Midnight
  BY <1>1, <1>4, NothingAheadStep DEF Midnight
<1>5. ASSUME NEW m \in Tenants, NEW d \in Days, Expire(m, d)
      PROVE  NothingAhead'
  BY <1>1, <1>5, NothingAheadStep DEF Expire
<1>6. CASE UNCHANGED countersVars
  BY <1>1, <1>6, NothingAheadStep
<1>7. ASSUME NEW a \in Agents,
             StartRun(a) \/ Deadline(a) \/ (Continue(a) /\ ~EmitUsage(a))
      PROVE  UNCHANGED countersVars
  BY <1>7 DEF StartRun, Deadline, Continue, CheckBudget, CheckRefused, Chat,
     ChatRetries, ChatFails, EmitUsageFails, ForceSynthesis, RefuseDuplicate,
     InvokeTool, NextTurn, countersVars
<1>8. UNCHANGED vars => UNCHANGED countersVars
  BY DEF vars
<1> QED  BY <1>2, <1>3, <1>4, <1>5, <1>6, <1>7, <1>8 DEF Next

LEMMA RoomStep ==
  ASSUME IBudget, IType', [Next]_vars, NEW n \in Tenants, Budget[n] > 0
  PROVE  RoomForCallers(n)'
PROOF
<1>1. /\ IType /\ CountersTypeOK /\ NothingAhead /\ RoomForCallers(n)
      /\ MonthToDate(n) \in Nat
      /\ embedded \in [Tenants -> Nat] /\ embedded' \in [Tenants -> Nat]
      /\ step \in [Agents -> {"idle", "check", "chat", "emit", "tools", "done", "failed"}]
  BY MonthType DEF IBudget, IType, TypeOK
<1>2. ASSUME UNCHANGED <<countersVars, embedded>>,
             \A x \in Agents : step'[x] \in {"chat", "emit"}
                               => step[x] \in {"chat", "emit"} \/ TenantOf[x] # n
      PROVE  RoomForCallers(n)'
  <2>1. Callers(n)' \subseteq Callers(n)
    BY <1>2 DEF Callers, AgentsOf
  <2>2. MonthToDate(n)' = MonthToDate(n) /\ embedded' = embedded
    BY <1>1, <1>2, MonthFrame
  <2> QED  BY <1>1, <2>1, <2>2, RoomQuiet
<1>3. ASSUME NEW a \in Agents, CheckBudget(a)
      PROVE  RoomForCallers(n)'
  <2>1. CASE TenantOf[a] = n
    BY <1>1, <1>3, <2>1, RoomAdmit
  <2>2. CASE TenantOf[a] # n
    BY <1>1, <1>2, <1>3, <2>2 DEF CheckBudget, Goto, historyVars
  <2> QED  BY <2>1, <2>2
<1>4. ASSUME NEW a \in Agents, EmitUsage(a)
      PROVE  RoomForCallers(n)'
  <2>1. CASE TenantOf[a] = n
    BY <1>1, <1>4, <2>1, RoomPay
  <2>2. CASE TenantOf[a] # n
    <3>1. CountCost(TenantOf[a], cost[a]) /\ today' = today /\ embedded' = embedded
      BY <1>4 DEF EmitUsage
    <3>2. TenantOf[a] \in Tenants
      BY AgentsAssumption
    <3>3. cost[a] \in Nat
      <4>1. cost[a] \in Costs \cup {0}
        BY <1>1 DEF IType, TypeOK
      <4> QED  BY <4>1, CostsAreNumbers, Zenon
    <3>4. MonthToDate(n)' = MonthToDate(n)
      BY <1>1, <2>2, <3>1, <3>2, <3>3, MonthCounts
    <3>5. Callers(n)' \subseteq Callers(n)
      BY <1>1, <1>4, <2>2 DEF EmitUsage, AfterEmit, Goto, Callers, AgentsOf
    <3> QED  BY <1>1, <3>1, <3>4, <3>5, RoomQuiet
  <2> QED  BY <2>1, <2>2
<1>5. ASSUME NEW a \in Agents,
             \/ StartRun(a) \/ Deadline(a)
             \/ CheckRefused(a) \/ Chat(a) \/ ChatRetries(a) \/ ChatFails(a)
             \/ EmitUsageFails(a)
             \/ ForceSynthesis(a) \/ RefuseDuplicate(a) \/ InvokeTool(a)
             \/ NextTurn(a)
      PROVE  RoomForCallers(n)'
  <2>1. UNCHANGED <<countersVars, embedded>>
    BY <1>5 DEF StartRun, Deadline, CheckRefused, Chat, ChatRetries, ChatFails,
       EmitUsageFails, ForceSynthesis, RefuseDuplicate, InvokeTool, NextTurn,
       historyVars, countersVars
  <2>2. \A x \in Agents : step'[x] \in {"chat", "emit"} => step[x] \in {"chat", "emit"}
    BY <1>1, <1>5 DEF StartRun, Deadline, CheckRefused, Chat, ChatRetries, ChatFails,
       EmitUsageFails, ForceSynthesis, RefuseDuplicate, InvokeTool, NextTurn, AfterEmit,
       Goto
  <2> QED  BY <1>2, <2>1, <2>2
<1>6. ASSUME NEW m \in Tenants, Embed(m)
      PROVE  RoomForCallers(n)'
  <2>1. CASE m = n
    BY <1>1, <1>6, <2>1, RoomEmbed
  <2>2. CASE m # n
    <3>1. CountCost(m, 1) /\ today' = today
      BY <1>6 DEF Embed
    <3>2. MonthToDate(n)' = MonthToDate(n)
      BY <1>1, <2>2, <3>1, MonthCounts
    <3>3. embedded'[n] = embedded[n] /\ Callers(n)' = Callers(n)
      BY <1>1, <1>6, <2>2 DEF Embed, Callers, AgentsOf
    <3> QED  BY <1>1, <3>2, <3>3, RoomQuiet
  <2> QED  BY <2>1, <2>2
<1>7. CASE Midnight
  <2>1. NextDay /\ embedded' = embedded /\ Callers(n)' = Callers(n)
    BY <1>7 DEF Midnight, Callers, AgentsOf
  <2>2. MonthToDate(n)' <= MonthToDate(n)
    BY <1>1, <2>1, MonthTurns
  <2>3. MonthToDate(n)' \in Nat
    BY MonthTypeNext DEF IType, TypeOK
  <2> QED  BY <1>1, <2>1, <2>2, <2>3, RoomQuiet
<1>8. ASSUME NEW m \in Tenants, NEW d \in Days, Expire(m, d)
      PROVE  RoomForCallers(n)'
  <2>1. ExpireKey(m, d) /\ embedded' = embedded /\ Callers(n)' = Callers(n)
    BY <1>8 DEF Expire, Callers, AgentsOf, historyVars
  <2>2. MonthToDate(n)' <= MonthToDate(n)
    BY <1>1, <2>1, MonthExpires
  <2>3. MonthToDate(n)' \in Nat
    BY MonthTypeNext DEF IType, TypeOK
  <2> QED  BY <1>1, <2>1, <2>2, <2>3, RoomQuiet
<1>9. CASE UNCHANGED vars
  BY <1>2, <1>9 DEF vars, historyVars
<1> QED
  BY <1>3, <1>4, <1>5, <1>6, <1>7, <1>8, <1>9 DEF Next, Continue

\* The budget check reads the counters before the call and the loop counts
\* after it, with any number of agents in between: for any number of agents and
\* tenants and any costs, a tenant overruns its monthly budget by at most the
\* most expensive call of each of its agents, plus its unchecked embeddings.
THEOREM BudgetOvershootBounded == Spec => []OvershootBounded
PROOF
<1>1. Init /\ IType => IBudget
  <2> SUFFICES ASSUME Init, IType
               PROVE  IBudget
    OBVIOUS
  <2>1. NothingAhead
    BY DEF Init, CountersInit, NothingAhead
  <2>2. ASSUME NEW n \in Tenants
        PROVE  RoomForCallers(n)
    <3>1. Callers(n) = {}
      BY DEF Init, Callers, AgentsOf
    <3>2. Cardinality(Callers(n)) = 0
      BY <3>1, FS_EmptySet
    <3>3. MonthToDate(n) = 0
      BY DEF Init, CountersInit, MonthToDate, CostOfDay
    <3>4. embedded[n] \in Nat /\ Budget[n] \in Nat
      BY BudgetAssumption DEF IType, TypeOK
    <3>5. Cardinality(AgentsOf(n)) * MaxCost \in Nat /\ 0 * MaxCost = 0
      BY CallersFinite, MaxCostBounds, TimesMonotone
    <3> QED  BY <3>2, <3>3, <3>4, <3>5 DEF RoomForCallers
  <2> QED  BY <2>1, <2>2 DEF IBudget
<1>2. IBudget /\ IType' /\ [Next]_vars => IBudget'
  <2> SUFFICES ASSUME IBudget, IType', [Next]_vars
               PROVE  IBudget'
    OBVIOUS
  <2>1. NothingAhead'
    BY StepAhead
  <2>2. Budget' = Budget /\ Tenants' = Tenants
    OBVIOUS
  <2> QED  BY <2>1, RoomStep DEF IBudget
<1>3. IBudget => OvershootBounded
  <2> SUFFICES ASSUME IBudget, NEW n \in Tenants, Budget[n] > 0
               PROVE  MonthToDate(n)
                        <= Budget[n] + Cardinality(AgentsOf(n)) * MaxCost + embedded[n]
    BY DEF OvershootBounded
  <2>1. Cardinality(Callers(n)) * MaxCost \in Nat
    BY CallersFinite, MaxCostBounds, TimesMonotone
  <2>2. Cardinality(AgentsOf(n)) * MaxCost \in Nat
    BY CallersFinite, MaxCostBounds, TimesMonotone
  <2>3. MonthToDate(n) \in Nat /\ embedded[n] \in Nat /\ Budget[n] \in Nat
    BY MonthType, BudgetAssumption DEF IBudget, IType, TypeOK
  <2> QED  BY <2>1, <2>2, <2>3 DEF IBudget, RoomForCallers
<1> QED  BY <1>1, <1>2, <1>3, TypeInvariant, PTL DEF Spec
=============================================================================
