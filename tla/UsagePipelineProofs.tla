------------------------- MODULE UsagePipelineProofs -------------------------
(***************************************************************************)
(* Proofs about UsagePipeline, for any events, costs, collectors, sizes    *)
(* and number of faults.                                                   *)
(*                                                                         *)
(* What the flush promises follows from the few things a step can do to    *)
(* the queue, the collectors' hands and the table (FlowStep), and how each *)
(* changes the number of an event's copies.  What the rollup promises      *)
(* follows from counting the rollups that are still pending for a day      *)
(* (BookStep): all others have booked at most once what was used.          *)
(***************************************************************************)
EXTENDS UsagePipeline, FiniteSetTheorems, TLAPS

(***************************************************************************)
(* Types.  A collector holds an event between its BRPOP and the end of     *)
(* its INSERT or LPUSH, and a counter between its HGETALL and its upsert.  *)
(***************************************************************************)
HandInv ==
  \A c \in Collectors :
    /\ held[c] # Nothing <=> pc[c] \in {"insert", "requeue"}
    /\ pc[c] = "upsert" <=> read[c] # <<>>
    /\ pc[c] = "insert" => inserted[c] < BatchSize
    /\ keys[c] # {} => pc[c] \in {"read", "upsert"}

IType == TypeOK /\ HandInv

LEMMA Sizes ==
  /\ MaxQueueLen \in Nat /\ MaxQueueLen > 0
  /\ BatchSize \in Nat /\ BatchSize > 0
  /\ MaxRollups \in Nat /\ MaxStops \in Nat /\ MaxFaults \in Nat
PROOF
<1>1. \A x \in {MaxRollups, MaxStops, MaxFaults} : x \in Nat
  BY SizesAssumption, Zenon
<1> QED  BY <1>1, SizesAssumption

\* Adding to one entry of a table of tenants and days.
LEMMA TableAdd ==
  ASSUME NEW table \in [Tenants -> [Days -> Nat]], NEW n \in Tenants,
         NEW d \in Days, NEW x \in Nat,
         NEW table2, table2 = [table EXCEPT ![n][d] = @ + x]
  PROVE  /\ table2 \in [Tenants -> [Days -> Nat]]
         /\ \A m \in Tenants : \A b \in Days :
              table2[m][b] = IF m = n /\ b = d THEN table[m][b] + x ELSE table[m][b]
PROOF
<1>1. table[n] \in [Days -> Nat] /\ table[n][d] + x \in Nat
  OBVIOUS
<1>2. table2 = [table EXCEPT ![n] = [table[n] EXCEPT ![d] = table[n][d] + x]]
  OBVIOUS
<1>3. [table[n] EXCEPT ![d] = table[n][d] + x] \in [Days -> Nat]
  BY <1>1
<1>4. table2 \in [Tenants -> [Days -> Nat]]
  BY <1>2, <1>3
<1>5. \A m \in Tenants : table2[m] = IF m = n THEN [table[n] EXCEPT ![d] = table[n][d] + x]
                                            ELSE table[m]
  BY <1>2
<1>6. \A b \in Days : [table[n] EXCEPT ![d] = table[n][d] + x][b] =
                       IF b = d THEN table[n][d] + x ELSE table[n][b]
  BY <1>1
<1>7. \A m \in Tenants : \A b \in Days :
        table2[m][b] = IF m = n /\ b = d THEN table[m][b] + x ELSE table[m][b]
  BY <1>5, <1>6
<1> QED  BY <1>4, <1>7

(***************************************************************************)
(* The flush queue: what its operations do to the copies of an event.      *)
(***************************************************************************)
Places(q, e) == {i \in DOMAIN q : q[i] = e}

LEMMA QueueTyped ==
  ASSUME NEW q \in Seq(Events)
  PROVE  /\ Len(q) \in Nat /\ DOMAIN q = 1 .. Len(q)
         /\ \A i \in 1 .. Len(q) : q[i] \in Events
  OBVIOUS

LEMMA PlacesFinite ==
  ASSUME NEW q \in Seq(Events), NEW e
  PROVE  /\ Places(q, e) \in SUBSET (1 .. Len(q))
         /\ IsFiniteSet(Places(q, e)) /\ Cardinality(Places(q, e)) \in Nat
PROOF
<1>1. Places(q, e) \in SUBSET (1 .. Len(q))
  BY QueueTyped DEF Places
<1>2. IsFiniteSet(1 .. Len(q))
  BY QueueTyped, FS_Interval
<1> QED  BY <1>1, <1>2, FS_Subset, FS_CardinalityType

\* LPUSH.
LEMMA Pushed ==
  ASSUME NEW q \in Seq(Events), NEW x \in Events, NEW p, p = <<x>> \o q
  PROVE  /\ p \in Seq(Events) /\ Len(p) = Len(q) + 1
         /\ p[1] = x /\ \A i \in 1 .. Len(q) : p[i + 1] = q[i]
         /\ \A i \in 2 .. Len(p) : p[i] = q[i - 1]
PROOF
<1>1. <<x>> \in Seq(Events) /\ Len(<<x>>) = 1 /\ <<x>>[1] = x
  OBVIOUS
<1>2. p \in Seq(Events) /\ Len(p) = Len(q) + 1
  BY <1>1
<1>3. \A i \in 1 .. Len(q) + 1 : p[i] = IF i <= 1 THEN <<x>>[i] ELSE q[i - 1]
  BY <1>1, QueueTyped
<1> QED  BY <1>1, <1>2, <1>3, QueueTyped

LEMMA PushedPlaces ==
  ASSUME NEW q \in Seq(Events), NEW x \in Events, NEW e
  PROVE  Cardinality(Places(<<x>> \o q, e)) =
           Cardinality(Places(q, e)) + IF x = e THEN 1 ELSE 0
PROOF
<1> DEFINE p == <<x>> \o q
           moved == {i \in 2 .. Len(q) + 1 : q[i - 1] = e}
           shift == [i \in Places(q, e) |-> i + 1]
<1>1. Places(q, e) \subseteq 1 .. Len(q) /\ IsFiniteSet(Places(q, e))
  BY PlacesFinite
<1>2. shift \in Bijection(Places(q, e), moved)
  <2>1. \A i \in Places(q, e) : i \in Nat /\ i + 1 \in moved
    BY <1>1, QueueTyped DEF Places
  <2>2. shift \in [Places(q, e) -> moved]
    BY <2>1
  <2>3. \A i, j \in Places(q, e) : shift[i] = shift[j] => i = j
    BY <2>1
  <2>4. \A k \in moved : \E i \in Places(q, e) : shift[i] = k
    <3> SUFFICES ASSUME NEW k \in moved PROVE \E i \in Places(q, e) : shift[i] = k
      OBVIOUS
    <3>1. k - 1 \in Places(q, e) /\ k \in Nat
      BY QueueTyped DEF Places
    <3>2. shift[k - 1] = k
      BY <3>1
    <3> QED  BY <3>1, <3>2
  <2> QED  BY <2>2, <2>3, <2>4 DEF Bijection, Injection, Surjection, IsInjective
<1>3. IsFiniteSet(moved) /\ Cardinality(moved) = Cardinality(Places(q, e))
  BY <1>1, <1>2, FS_Bijection DEF ExistsBijection
<1>4. Places(p, e) = moved \cup IF x = e THEN {1} ELSE {}
  <2>1. /\ p \in Seq(Events) /\ Len(p) = Len(q) + 1
        /\ p[1] = x /\ \A i \in 2 .. Len(p) : p[i] = q[i - 1]
    BY Pushed
  <2> HIDE DEF p
  <2> QED  BY <2>1, QueueTyped DEF Places
<1>5. 1 \notin moved
  BY QueueTyped
<1>6. Cardinality(moved) \in Nat
  BY <1>3, FS_CardinalityType
<1> HIDE DEF moved, p
<1>7. Cardinality(Places(p, e)) = Cardinality(Places(q, e)) + IF x = e THEN 1 ELSE 0
  <2>1. CASE x = e
    <3>1. Cardinality(moved \cup {1}) = Cardinality(moved) + 1
      BY <1>3, <1>5, FS_AddElement
    <3> QED  BY <1>3, <1>4, <2>1, <3>1
  <2>2. CASE x # e
    <3>1. Places(p, e) = moved
      BY <1>4, <2>2
    <3> QED  BY <1>3, <1>6, <2>2, <3>1
  <2> QED  BY <2>1, <2>2
<1> QED  BY <1>7 DEF p

\* BRPOP.
LEMMA Popped ==
  ASSUME NEW q \in Seq(Events), q # <<>>, NEW p, p = Front(q)
  PROVE  /\ Len(q) > 0 /\ Last(q) \in Events
         /\ p \in Seq(Events) /\ Len(p) = Len(q) - 1
         /\ \A i \in 1 .. Len(p) : p[i] = q[i]
PROOF
<1>1. Len(q) \in Nat \ {0}
  OBVIOUS
<1>2. Last(q) \in Events
  BY <1>1, QueueTyped DEF Last
<1>3. PICK n \in Nat : n = Len(q) - 1
  BY <1>1
<1>4. p = SubSeq(q, 1, n) /\ n <= Len(q)
  BY <1>1, <1>3 DEF Front
<1>5. /\ p \in Seq(Events) /\ Len(p) = n
      /\ \A i \in 1 .. n : p[i] = q[i]
  BY <1>1, <1>4, QueueTyped
<1> QED  BY <1>1, <1>2, <1>3, <1>5

LEMMA PoppedPlaces ==
  ASSUME NEW q \in Seq(Events), q # <<>>, NEW e, NEW p, p = Front(q)
  PROVE  Cardinality(Places(q, e)) =
           Cardinality(Places(p, e)) + IF Last(q) = e THEN 1 ELSE 0
PROOF
<1>1. Places(p, e) = Places(q, e) \ {Len(q)}
  BY Popped, QueueTyped DEF Places
<1>2. Len(q) \in Places(q, e) <=> Last(q) = e
  BY Popped, QueueTyped DEF Places, Last
<1>3. IsFiniteSet(Places(q, e)) /\ Cardinality(Places(q, e)) \in Nat
  BY PlacesFinite
<1>4. Cardinality(Places(q, e) \ {Len(q)}) =
        IF Len(q) \in Places(q, e) THEN Cardinality(Places(q, e)) - 1
                                   ELSE Cardinality(Places(q, e))
  BY <1>3, FS_RemoveElement
<1> QED  BY <1>1, <1>2, <1>3, <1>4

\* LTRIM.
LEMMA Trims ==
  ASSUME NEW q \in Seq(Events), NEW p, p = Trimmed(q)
  PROVE  /\ p \in Seq(Events) /\ Len(p) <= MaxQueueLen /\ Len(p) <= Len(q)
         /\ \A i \in 1 .. Len(p) : p[i] = q[i]
         /\ ToSet(CutOff(q)) \subseteq Events
         /\ \A i \in 1 .. Len(q) : i \in 1 .. Len(p) \/ q[i] \in ToSet(CutOff(q))
PROOF
<1>1. Len(q) \in Nat /\ MaxQueueLen \in Nat
  BY QueueTyped, Sizes
<1>2. /\ p \in Seq(Events)
      /\ Len(p) = IF Len(q) < MaxQueueLen THEN Len(q) ELSE MaxQueueLen
      /\ \A i \in 1 .. Len(p) : p[i] = q[i]
  <2>1. CASE Len(q) < MaxQueueLen
    BY <1>1, <2>1, QueueTyped DEF Trimmed
  <2>2. CASE ~ (Len(q) < MaxQueueLen)
    BY <1>1, <2>2, QueueTyped DEF Trimmed
  <2> QED  BY <2>1, <2>2
<1> DEFINE r == CutOff(q)
<1>3. /\ r \in Seq(Events)
      /\ Len(r) = IF MaxQueueLen + 1 <= Len(q) THEN Len(q) - MaxQueueLen ELSE 0
      /\ \A i \in 1 .. Len(q) - MaxQueueLen : r[i] = q[i + MaxQueueLen]
  BY <1>1, QueueTyped DEF CutOff
<1> HIDE DEF r
<1>4. ToSet(r) \subseteq Events
  BY <1>3, QueueTyped DEF ToSet
<1>5. ASSUME NEW i \in 1 .. Len(q), i \notin 1 .. Len(p) PROVE q[i] \in ToSet(r)
  <2>1. i - MaxQueueLen \in 1 .. Len(r) /\ r[i - MaxQueueLen] = q[i]
    BY <1>1, <1>2, <1>3, <1>5
  <2> QED  BY <1>3, <2>1, QueueTyped DEF ToSet
<1> QED  BY <1>1, <1>2, <1>4, <1>5 DEF r

(***************************************************************************)
(* Type correctness, one lemma for the emissions, one for the flush, one   *)
(* for the rollup and one for the process and the clock.                   *)
(***************************************************************************)
LEMMA CountersKept ==
  ASSUME CountersTypeOK,
         \/ UNCHANGED countersVars
         \/ UNCHANGED today /\ \E n \in Tenants, x \in Nat : CountCost(n, x)
         \/ NextDay
         \/ \E n \in Tenants, d \in Days : ExpireKey(n, d)
  PROVE  CountersTypeOK'
PROOF
<1>1. CASE UNCHANGED countersVars
  BY <1>1 DEF countersVars, CountersTypeOK
<1>2. ASSUME NEW n \in Tenants, NEW x \in Nat, UNCHANGED today, CountCost(n, x)
      PROVE  CountersTypeOK'
  BY <1>2, TableAdd DEF CountersTypeOK, CountCost
<1>3. CASE NextDay
  BY <1>3, DaysAssumption DEF NextDay, CountersTypeOK, Days
<1>4. ASSUME NEW n \in Tenants, NEW d \in Days, ExpireKey(n, d)
      PROVE  CountersTypeOK'
  BY <1>4 DEF ExpireKey, CountersTypeOK
<1> QED  BY <1>1, <1>2, <1>3, <1>4

LEMMA FaultType ==
  ASSUME TypeOK, Fault
  PROVE  /\ faults' \in 0 .. MaxFaults /\ faults' = faults + 1
         /\ rollups' = rollups /\ stops' = stops
BY Sizes DEF TypeOK, Fault

\* Counting one more row of an event.
LEMMA RowType ==
  ASSUME TypeOK, NEW e \in Events, rows' = [rows EXCEPT ![e] = @ + 1]
  PROVE  /\ rows' \in [Events -> Nat]
         /\ \A f \in Events : rows'[f] = rows[f] + IF f = e THEN 1 ELSE 0
BY DEF TypeOK

LEMMA UseType ==
  ASSUME TypeOK, NEW e \in Events, Use(e)
  PROVE  /\ emitted' \subseteq Events /\ today' = today /\ today \in Days
         /\ TenantOf[e] \in Tenants /\ CostOf[e] \in Nat
         /\ used' \in [Tenants -> [Days -> Nat]]
         /\ \A n \in Tenants : \A d \in Days :
              used'[n][d] = IF n = TenantOf[e] /\ d = today
                            THEN used[n][d] + CostOf[e] ELSE used[n][d]
PROOF
<1>1. TenantOf[e] \in Tenants /\ CostOf[e] \in Nat /\ today \in Days
  BY EventsAssumption DEF TypeOK, CountersTypeOK
<1>2. used \in [Tenants -> [Days -> Nat]]
  BY DEF TypeOK
<1>3. used' = [used EXCEPT ![TenantOf[e]][today] = @ + CostOf[e]]
  BY DEF Use
<1>4. /\ used' \in [Tenants -> [Days -> Nat]]
      /\ \A n \in Tenants : \A d \in Days :
           used'[n][d] = IF n = TenantOf[e] /\ d = today
                         THEN used[n][d] + CostOf[e] ELSE used[n][d]
  BY <1>1, <1>2, <1>3, TableAdd
<1> QED  BY <1>1, <1>4 DEF Use, TypeOK

LEMMA EmitTypes ==
  ASSUME IType, NEW e \in Events, EmitUsage(e) \/ EmitUsageFails(e)
  PROVE  IType'
PROOF
<1> USE DEF IType
<1>1. CountersTypeOK'
  BY UseType, CountersKept DEF EmitUsage, EmitUsageFails, TypeOK, countersVars
<1>2. queue \in Seq(Events) /\ <<e>> \o queue \in Seq(Events)
  BY Pushed DEF TypeOK
<1>3. UNCHANGED collectorVars /\ UNCHANGED tableVars
  BY DEF EmitUsage, EmitUsageFails
<1>4. CASE EmitUsage(e)
  <2>1. queue' \in Seq(Events) /\ dropped' \subseteq Events
    BY <1>2, <1>4, Trims DEF EmitUsage, TypeOK
  <2>2. UNCHANGED boundVars
    BY <1>4 DEF EmitUsage
  <2>3. UNCHANGED <<pc, ctx, held, inserted, keys, read, rows, daily, rollups, stops, faults>>
    BY <1>3, <2>2 DEF collectorVars, tableVars, boundVars
  <2>4. emitted' \subseteq Events /\ used' \in [Tenants -> [Days -> Nat]]
    BY <1>4, UseType DEF EmitUsage
  <2>5. TypeOK'
    BY <1>1, <2>1, <2>3, <2>4 DEF TypeOK
  <2>6. HandInv'
    BY <2>3 DEF HandInv
  <2> QED  BY <2>5, <2>6
<1>5. CASE EmitUsageFails(e)
  BY <1>1, <1>2, <1>3, <1>5, UseType, FaultType, SMTT(20)
  DEF EmitUsageFails, TypeOK, HandInv, collectorVars, tableVars, boundVars
<1> QED  BY <1>4, <1>5

LEMMA FlushTypes ==
  ASSUME IType, NEW c \in Collectors, StartFlush(c) \/ Flush(c)
  PROVE  IType'
PROOF
<1> USE Sizes DEF IType
<1> USE DEF countersVars, collectorVars, queueVars, tableVars, boundVars
<1>1. CountersTypeOK'
  BY CountersKept
  DEF TypeOK, StartFlush, Flush, Pop, FlushDone, Insert, InsertFails, Requeue, RequeueFails
<1>2. CASE StartFlush(c)
  BY <1>1, <1>2 DEF StartFlush, TypeOK, HandInv
<1>3. CASE Pop(c)
  <2>1. queue' \in Seq(Events) /\ Last(queue) \in Events
    BY <1>3, Popped DEF Pop, TypeOK
  <2>2. TypeOK'
    BY <1>1, <1>3, <2>1 DEF Pop, TypeOK
  <2>3. HandInv'
    BY <1>3, <2>1, EventsAssumption DEF Pop, HandInv, TypeOK
  <2> QED  BY <2>2, <2>3
<1>4. CASE FlushDone(c)
  BY <1>1, <1>4 DEF FlushDone, EndFlush, TypeOK, HandInv
<1>5. CASE Insert(c)
  <2>1. held[c] \in Events /\ inserted[c] < BatchSize
    BY <1>5 DEF Insert, TypeOK, HandInv
  <2>2. rows' \in [Events -> Nat]
    BY <1>5, <2>1, RowType DEF Insert
  <2>3. inserted[c] + 1 \in 0 .. BatchSize
    BY <2>1 DEF TypeOK
  <2>4. TypeOK'
    BY <1>1, <1>5, <2>2, <2>3 DEF Insert, TypeOK
  <2>5. HandInv'
    BY <1>5 DEF Insert, HandInv, TypeOK
  <2> QED  BY <2>4, <2>5
<1>6. CASE InsertFails(c)
  <2>1. held[c] \in Events
    BY <1>6 DEF InsertFails, TypeOK, HandInv
  <2>2. /\ rows' \in [Events -> Nat] /\ rollups' \in 0 .. MaxRollups
        /\ stops' \in 0 .. MaxStops /\ faults' \in 0 .. MaxFaults
    BY <1>6, <2>1, RowType, FaultType DEF InsertFails, TypeOK
  <2>3. TypeOK'
    BY <1>1, <1>6, <2>2 DEF InsertFails, TypeOK
  <2>4. HandInv'
    BY <1>6 DEF InsertFails, HandInv, TypeOK
  <2> QED  BY <2>3, <2>4
<1>7. CASE Requeue(c)
  <2>1. held[c] \in Events
    BY <1>7 DEF Requeue, TypeOK, HandInv
  <2>2. queue' \in Seq(Events)
    BY <1>7, <2>1, Pushed DEF Requeue, TypeOK
  <2>3. TypeOK'
    BY <1>1, <1>7, <2>2 DEF Requeue, EndFlush, TypeOK
  <2>4. HandInv'
    BY <1>7 DEF Requeue, EndFlush, HandInv, TypeOK
  <2> QED  BY <2>3, <2>4
<1>8. CASE RequeueFails(c)
  <2>1. held[c] \in Events
    BY <1>8 DEF RequeueFails, TypeOK, HandInv
  <2>2. /\ rollups' \in 0 .. MaxRollups
        /\ stops' \in 0 .. MaxStops /\ faults' \in 0 .. MaxFaults
    BY <1>8, FaultType DEF RequeueFails, TypeOK
  <2>3. TypeOK'
    BY <1>1, <1>8, <2>1, <2>2 DEF RequeueFails, EndFlush, TypeOK
  <2>4. HandInv'
    BY <1>8 DEF RequeueFails, EndFlush, HandInv, TypeOK
  <2> QED  BY <2>3, <2>4
<1> QED  BY <1>2, <1>3, <1>4, <1>5, <1>6, <1>7, <1>8 DEF Flush

LEMMA RollupTypes ==
  ASSUME IType, NEW c \in Collectors, StartRollup(c) \/ Rollup(c)
  PROVE  IType'
PROOF
<1> USE Sizes DEF IType
<1> USE DEF countersVars, collectorVars, queueVars, tableVars, boundVars
<1>1. CountersTypeOK'
  BY CountersKept
  DEF TypeOK, StartRollup, Rollup, ReadCounter, UpsertDaily, UpsertFails, RollupDone
<1>2. CASE StartRollup(c)
  <2>1. rollups + 1 \in 0 .. MaxRollups
    BY <1>2 DEF StartRollup, TypeOK
  <2>2. TypeOK'
    BY <1>1, <1>2, <2>1 DEF StartRollup, TypeOK
  <2>3. HandInv'
    BY <1>2 DEF StartRollup, HandInv, TypeOK
  <2> QED  BY <2>2, <2>3
<1>3. CASE ReadCounter(c)
  <2>1. PICK k \in keys[c] :
          /\ keys' = [keys EXCEPT ![c] = @ \ {k}]
          /\ IF counter[k[1]][k[2]] > 0
             THEN /\ read' = [read EXCEPT ![c] = <<k, counter[k[1]][k[2]]>>]
                  /\ pc' = [pc EXCEPT ![c] = "upsert"]
             ELSE UNCHANGED <<read, pc>>
    BY <1>3 DEF ReadCounter
  <2>2. k \in Keys /\ counter[k[1]][k[2]] \in Nat
    BY SMTT(20) DEF TypeOK, CountersTypeOK, Keys
  <2>3. PICK x \in Keys \X Nat : x = <<k, counter[k[1]][k[2]]>>
    BY <2>2
  <2>4. x # <<>>
    BY <2>3
  <2>5. \/ read' = [read EXCEPT ![c] = x] /\ pc' = [pc EXCEPT ![c] = "upsert"]
        \/ read' = read /\ pc' = pc
    BY <2>1, <2>3
  <2>6. TypeOK'
    <3>1. read' \in [Collectors -> (Keys \X Nat) \cup {<<>>}]
      <4> DEFINE R == (Keys \X Nat) \cup {<<>>}
      <4>1. read \in [Collectors -> R] /\ x \in R
        BY DEF TypeOK
      <4> HIDE DEF R
      <4>2. read' \in [Collectors -> R]
        BY <2>5, <4>1
      <4> QED  BY <4>2 DEF R
    <3>2. keys' \in [Collectors -> SUBSET Keys]
      BY <2>1 DEF TypeOK
    <3>3. pc' \in [Collectors ->
             {"idle", "pop", "insert", "requeue", "read", "upsert", "stopped"}]
      BY <2>5 DEF TypeOK
    <3> QED  BY <1>1, <1>3, <3>1, <3>2, <3>3 DEF ReadCounter, TypeOK
  <2>7. HandInv'
    BY <1>3, <2>1, <2>4, <2>5 DEF ReadCounter, HandInv, TypeOK
  <2> QED  BY <2>6, <2>7
<1>4. CASE UpsertDaily(c)
  <2>1. read[c] \in Keys \X Nat
    BY <1>4 DEF UpsertDaily, TypeOK, HandInv
  <2>2. read[c][1][1] \in Tenants /\ read[c][1][2] \in Days /\ read[c][2] \in Nat
    BY <2>1 DEF Keys
  <2>3. daily' \in [Tenants -> [Days -> Nat]]
    <3>1. daily \in [Tenants -> [Days -> Nat]]
      BY DEF TypeOK
    <3>2. daily' = [daily EXCEPT ![read[c][1][1]][read[c][1][2]] = @ + read[c][2]]
      BY <1>4 DEF UpsertDaily
    <3> QED  BY <2>2, <3>1, <3>2, TableAdd
  <2>4. TypeOK'
    BY <1>1, <1>4, <2>3 DEF UpsertDaily, TypeOK
  <2>5. HandInv'
    BY <1>4 DEF UpsertDaily, HandInv, TypeOK
  <2> QED  BY <2>4, <2>5
<1>5. CASE UpsertFails(c)
  <2>1. /\ rollups' \in 0 .. MaxRollups
        /\ stops' \in 0 .. MaxStops /\ faults' \in 0 .. MaxFaults
    BY <1>5, FaultType DEF UpsertFails, TypeOK
  <2>2. TypeOK'
    BY <1>1, <1>5, <2>1 DEF UpsertFails, TypeOK
  <2>3. HandInv'
    BY <1>5 DEF UpsertFails, HandInv, TypeOK
  <2> QED  BY <2>2, <2>3
<1>6. CASE RollupDone(c)
  BY <1>1, <1>6 DEF RollupDone, TypeOK, HandInv
<1> QED  BY <1>2, <1>3, <1>4, <1>5, <1>6 DEF Rollup

LEMMA ProcessTypes ==
  ASSUME IType, NEW c \in Collectors, Stop(c) \/ Crash(c) \/ Restart(c)
  PROVE  IType'
PROOF
<1> USE Sizes DEF IType
<1> USE DEF countersVars, collectorVars, queueVars, tableVars, boundVars
<1>1. CountersTypeOK'
  BY CountersKept DEF TypeOK, Stop, Crash, Restart
<1>2. CASE Stop(c)
  BY <1>1, <1>2 DEF Stop, TypeOK, HandInv
<1>3. CASE Crash(c)
  <2>1. /\ rollups' \in 0 .. MaxRollups
        /\ stops' \in 0 .. MaxStops /\ faults' \in 0 .. MaxFaults
    BY <1>3, FaultType DEF Crash, TypeOK
  <2>2. dropped' \subseteq Events
    BY <1>3 DEF Crash, TypeOK
  <2>3. TypeOK'
    BY <1>1, <1>3, <2>1, <2>2 DEF Crash, TypeOK
  <2>4. HandInv'
    BY <1>3 DEF Crash, HandInv, TypeOK
  <2> QED  BY <2>3, <2>4
<1>4. CASE Restart(c)
  BY <1>1, <1>4 DEF Restart, TypeOK, HandInv
<1> QED  BY <1>2, <1>3, <1>4

LEMMA ClockTypes ==
  ASSUME IType, Midnight \/ (\E n \in Tenants, d \in Days : Expire(n, d)) \/ UNCHANGED vars
  PROVE  IType'
PROOF
<1>1. CountersTypeOK'
  BY CountersKept DEF IType, TypeOK, Midnight, Expire, vars
<1>2. UNCHANGED <<queueVars, collectorVars, tableVars, used, dropped, boundVars>>
  BY DEF Midnight, Expire, vars
<1> QED
  BY <1>1, <1>2
  DEF IType, TypeOK, HandInv, collectorVars, queueVars, tableVars, boundVars

LEMMA TypeInit == Init => IType
PROOF
<1> SUFFICES ASSUME Init PROVE IType
  OBVIOUS
<1>1. CountersTypeOK
  BY DaysAssumption DEF Init, CountersInit, CountersTypeOK, Days
<1>2. TypeOK
  BY <1>1, Sizes DEF Init, CollectorsInit, NothingUsed, TypeOK
<1>3. HandInv
  BY DEF Init, CollectorsInit, HandInv
<1> QED  BY <1>2, <1>3 DEF IType

LEMMA TypeStep == IType /\ [Next]_vars => IType'
PROOF
  BY EmitTypes, FlushTypes, RollupTypes, ProcessTypes, ClockTypes DEF Next

\* Whatever the collectors, the clock and the faults do, the variables keep
\* their types; above all, a collector that holds an event or a counter is at
\* the step that hands it on.
THEOREM PipelineTyped == Spec => []TypeOK
PROOF
<1>1. IType => TypeOK
  BY DEF IType
<1> QED  BY <1>1, TypeInit, TypeStep, PTL DEF Spec

LEMMA TypeInvariant == Spec => []IType
  BY TypeInit, TypeStep, PTL DEF Spec

(***************************************************************************)
(* The flow of events.  To the queue, the collectors' hands and the table  *)
(* every step is one of these.                                             *)
(***************************************************************************)
Emitted(e) ==
  /\ e \notin emitted /\ emitted' = emitted \cup {e}
  /\ queue' = Trimmed(<<e>> \o queue)
  /\ dropped' = dropped \cup ToSet(CutOff(<<e>> \o queue))
  /\ UNCHANGED <<held, rows, faults>>

EmittedInVain(e) ==
  /\ e \notin emitted /\ emitted' = emitted \cup {e}
  /\ dropped' = dropped \cup {e}
  /\ faults' = faults + 1
  /\ UNCHANGED <<queue, held, rows>>

Taken(c) ==
  /\ queue # <<>> /\ held[c] = Nothing
  /\ queue' = Front(queue)
  /\ held' = [held EXCEPT ![c] = Last(queue)]
  /\ UNCHANGED <<emitted, rows, dropped, faults>>

HandEmptied(c) ==
  /\ held[c] \in Events
  /\ held' = [held EXCEPT ![c] = Nothing]

Recorded(c) ==
  /\ HandEmptied(c)
  /\ rows' = [rows EXCEPT ![held[c]] = @ + 1]
  /\ UNCHANGED <<emitted, queue, dropped, faults>>

RecordedUnseen(c) ==
  /\ held[c] \in Events
  /\ rows' = [rows EXCEPT ![held[c]] = @ + 1]
  /\ faults' = faults + 1
  /\ UNCHANGED <<emitted, queue, held, dropped>>

Returned(c) ==
  /\ HandEmptied(c)
  /\ queue' = <<held[c]>> \o queue
  /\ UNCHANGED <<emitted, rows, dropped, faults>>

Lost(c) ==
  /\ HandEmptied(c)
  /\ dropped' = dropped \cup {held[c]}
  /\ faults' \in {faults, faults + 1}
  /\ UNCHANGED <<emitted, queue, rows>>

Unmoved ==
  /\ faults' \in {faults, faults + 1}
  /\ UNCHANGED <<emitted, queue, held, rows, dropped>>

FlowStep ==
  \/ \E e \in Events : Emitted(e) \/ EmittedInVain(e)
  \/ \E c \in Collectors :
       Taken(c) \/ Recorded(c) \/ RecordedUnseen(c) \/ Returned(c) \/ Lost(c)
  \/ Unmoved

LEMMA EveryStepFlows ==
  ASSUME IType, [Next]_vars
  PROVE  FlowStep
PROOF
<1> USE DEF countersVars, collectorVars, queueVars, tableVars, boundVars
<1> USE DEF Emitted, EmittedInVain, Taken, HandEmptied, Recorded, RecordedUnseen,
            Returned, Lost, Unmoved
<1>1. ASSUME NEW e \in Events, EmitUsage(e) \/ EmitUsageFails(e)
      PROVE  Emitted(e) \/ EmittedInVain(e)
  BY <1>1 DEF EmitUsage, EmitUsageFails, Use, Fault
<1>2. ASSUME NEW c \in Collectors, StartFlush(c) PROVE Unmoved
  BY <1>2 DEF StartFlush
<1>3. ASSUME NEW c \in Collectors, Pop(c) PROVE Taken(c)
  BY <1>3 DEF Pop, IType, HandInv
<1>4. ASSUME NEW c \in Collectors, FlushDone(c) PROVE Unmoved
  BY <1>4 DEF FlushDone
<1>5. ASSUME NEW c \in Collectors, Insert(c) PROVE Recorded(c)
  BY <1>5 DEF Insert, IType, TypeOK, HandInv
<1>6. ASSUME NEW c \in Collectors, InsertFails(c) PROVE RecordedUnseen(c) \/ Unmoved
  BY <1>6 DEF InsertFails, Fault, IType, TypeOK, HandInv
<1>7. ASSUME NEW c \in Collectors, Requeue(c) PROVE Returned(c)
  BY <1>7 DEF Requeue, IType, TypeOK, HandInv
<1>8. ASSUME NEW c \in Collectors, RequeueFails(c) PROVE Lost(c)
  BY <1>8 DEF RequeueFails, Fault, IType, TypeOK, HandInv
<1>9. ASSUME NEW c \in Collectors, StartRollup(c) \/ Rollup(c) \/ Stop(c) \/ Restart(c)
      PROVE  Unmoved
  BY <1>9
  DEF StartRollup, Rollup, ReadCounter, UpsertDaily, UpsertFails, RollupDone, Stop,
      Restart, Fault
<1>10. ASSUME NEW c \in Collectors, Crash(c) PROVE Lost(c) \/ Unmoved
  <2>1. CASE held[c] = Nothing
    BY <1>10, <2>1 DEF Crash, Fault, IType, TypeOK
  <2>2. CASE held[c] # Nothing
    BY <1>10, <2>2 DEF Crash, Fault, IType, TypeOK
  <2> QED  BY <2>1, <2>2
<1>11. (Midnight \/ \E n \in Tenants, d \in Days : Expire(n, d)) => Unmoved
  BY DEF Midnight, Expire
<1>12. UNCHANGED vars => Unmoved
  BY DEF vars
<1> QED
  BY <1>1, <1>2, <1>3, <1>4, <1>5, <1>6, <1>7, <1>8, <1>9, <1>10, <1>11, <1>12
  DEF Next, Flush, FlowStep

(***************************************************************************)
(* The hands of the collectors.                                            *)
(***************************************************************************)
Hands(h, e) == {c \in Collectors : h[c] = e}
FullHands(h) == {c \in Collectors : h[c] # Nothing}

LEMMA HandsFinite ==
  ASSUME NEW h, NEW e
  PROVE  /\ IsFiniteSet(Hands(h, e)) /\ Cardinality(Hands(h, e)) \in Nat
         /\ IsFiniteSet(FullHands(h)) /\ Cardinality(FullHands(h)) \in Nat
         /\ Cardinality(FullHands(h)) <= Cardinality(Collectors)
         /\ Cardinality(Collectors) \in Nat
PROOF
<1>1. Hands(h, e) \in SUBSET Collectors /\ FullHands(h) \in SUBSET Collectors
  BY DEF Hands, FullHands
<1> QED  BY <1>1, CollectorsAssumption, FS_Subset, FS_CardinalityType

\* Two pictures of the hands that differ in one: empty in h, full in g.
LEMMA OneHand ==
  ASSUME NEW h, NEW g, NEW c \in Collectors, NEW x \in Events, NEW e \in Events,
         h[c] = Nothing, g[c] = x, \A b \in Collectors : b # c => g[b] = h[b]
  PROVE  /\ Cardinality(FullHands(g)) = Cardinality(FullHands(h)) + 1
         /\ Cardinality(Hands(g, e)) = Cardinality(Hands(h, e)) + IF x = e THEN 1 ELSE 0
PROOF
<1>1. FullHands(g) = FullHands(h) \cup {c} /\ c \notin FullHands(h)
  BY EventsAssumption DEF FullHands
<1>2. Cardinality(FullHands(g)) = Cardinality(FullHands(h)) + 1
  BY <1>1, HandsFinite, FS_AddElement
<1>3. CASE x = e
  <2>1. Hands(g, e) = Hands(h, e) \cup {c} /\ c \notin Hands(h, e)
    BY <1>3, EventsAssumption DEF Hands
  <2>2. Cardinality(Hands(g, e)) = Cardinality(Hands(h, e)) + 1
    BY <2>1, HandsFinite, FS_AddElement
  <2> QED  BY <1>2, <1>3, <2>2
<1>4. CASE x # e
  <2>1. Hands(g, e) = Hands(h, e)
    BY <1>4, EventsAssumption DEF Hands
  <2>2. Cardinality(Hands(h, e)) \in Nat
    BY HandsFinite
  <2> QED  BY <1>2, <1>4, <2>1, <2>2
<1> QED  BY <1>3, <1>4

\* A collector takes an event in hand, or lets go of it.
LEMMA HandFilled ==
  ASSUME NEW h \in [Collectors -> Events \cup {Nothing}], NEW c \in Collectors,
         h[c] = Nothing, NEW x \in Events, NEW e \in Events
  PROVE  /\ Cardinality(FullHands([h EXCEPT ![c] = x])) = Cardinality(FullHands(h)) + 1
         /\ Cardinality(Hands([h EXCEPT ![c] = x], e)) =
              Cardinality(Hands(h, e)) + IF x = e THEN 1 ELSE 0
PROOF
<1> DEFINE g == [h EXCEPT ![c] = x]
<1>1. g[c] = x /\ \A b \in Collectors : b # c => g[b] = h[b]
  OBVIOUS
<1> HIDE DEF g
<1>2. /\ Cardinality(FullHands(g)) = Cardinality(FullHands(h)) + 1
      /\ Cardinality(Hands(g, e)) = Cardinality(Hands(h, e)) + IF x = e THEN 1 ELSE 0
  BY <1>1, OneHand
<1> QED  BY <1>2 DEF g

LEMMA HandLeft ==
  ASSUME NEW h \in [Collectors -> Events \cup {Nothing}], NEW c \in Collectors,
         h[c] \in Events, NEW e \in Events
  PROVE  /\ Cardinality(FullHands(h)) =
              Cardinality(FullHands([h EXCEPT ![c] = Nothing])) + 1
         /\ Cardinality(Hands(h, e)) =
              Cardinality(Hands([h EXCEPT ![c] = Nothing], e)) + IF h[c] = e THEN 1 ELSE 0
PROOF
<1> DEFINE g == [h EXCEPT ![c] = Nothing]
<1>1. g[c] = Nothing /\ \A b \in Collectors : b # c => h[b] = g[b]
  OBVIOUS
<1> HIDE DEF g
<1>2. /\ Cardinality(FullHands(h)) = Cardinality(FullHands(g)) + 1
      /\ Cardinality(Hands(h, e)) = Cardinality(Hands(g, e)) + IF h[c] = e THEN 1 ELSE 0
  BY <1>1, OneHand
<1> QED  BY <1>2 DEF g

(***************************************************************************)
(* The copies of an event, and how a step changes their number.            *)
(***************************************************************************)
CopiesAt(q, h, r, e) == Cardinality(Places(q, e)) + Cardinality(Hands(h, e)) + r[e]
Copies(e) == CopiesAt(queue, held, rows, e)

LEMMA CopiesNat ==
  ASSUME NEW q \in Seq(Events), NEW h, NEW r \in [Events -> Nat], NEW e \in Events
  PROVE  CopiesAt(q, h, r, e) \in Nat
PROOF
<1>1. Cardinality(Places(q, e)) \in Nat /\ Cardinality(Hands(h, e)) \in Nat
  BY PlacesFinite, HandsFinite
<1> QED  BY <1>1 DEF CopiesAt

LEMMA CopiesType ==
  ASSUME TypeOK, NEW e \in Events
  PROVE  /\ Cardinality(Places(queue, e)) \in Nat /\ Cardinality(Hands(held, e)) \in Nat
         /\ rows[e] \in Nat /\ Copies(e) \in Nat
BY PlacesFinite, HandsFinite DEF TypeOK, Copies, CopiesAt

LEMMA TrimmedPlaces ==
  ASSUME NEW q \in Seq(Events), NEW e, NEW p, p = Trimmed(q)
  PROVE  /\ Cardinality(Places(p, e)) <= Cardinality(Places(q, e))
         /\ e \notin ToSet(CutOff(q)) => Places(p, e) = Places(q, e)
PROOF
<1>1. /\ p \in Seq(Events) /\ Len(p) <= Len(q)
      /\ \A i \in 1 .. Len(p) : p[i] = q[i]
      /\ \A i \in 1 .. Len(q) : i \in 1 .. Len(p) \/ q[i] \in ToSet(CutOff(q))
  BY Trims
<1>2. Places(p, e) \in SUBSET Places(q, e)
  BY <1>1, QueueTyped DEF Places
<1>3. Cardinality(Places(p, e)) <= Cardinality(Places(q, e))
  BY <1>2, PlacesFinite, FS_Subset
<1>4. e \notin ToSet(CutOff(q)) => Places(q, e) \subseteq Places(p, e)
  BY <1>1, QueueTyped DEF Places
<1> QED  BY <1>2, <1>3, <1>4

LEMMA EmittedCopies ==
  ASSUME TypeOK, NEW e \in Events, Emitted(e), NEW f \in Events
  PROVE  /\ Copies(f)' <= Copies(f) + IF e = f THEN 1 ELSE 0
         /\ f \notin dropped' => Copies(f)' = Copies(f) + IF e = f THEN 1 ELSE 0
PROOF
<1> DEFINE p == <<e>> \o queue
<1>1. queue \in Seq(Events) /\ p \in Seq(Events)
  BY Pushed DEF TypeOK
<1>2. Cardinality(Places(p, f)) =
        Cardinality(Places(queue, f)) + IF e = f THEN 1 ELSE 0
  BY <1>1, PushedPlaces
<1>3. /\ Cardinality(Places(queue', f)) <= Cardinality(Places(p, f))
      /\ f \notin ToSet(CutOff(p)) => Places(queue', f) = Places(p, f)
  BY <1>1, TrimmedPlaces DEF Emitted
<1>4. queue' \in Seq(Events)
  BY <1>1, Trims DEF Emitted
<1>5. Cardinality(Places(queue', f)) \in Nat /\ Cardinality(Places(p, f)) \in Nat
  BY <1>1, <1>4, PlacesFinite
<1>6. f \notin dropped' => f \notin ToSet(CutOff(p))
  BY DEF Emitted
<1>7. held' = held /\ rows' = rows
  BY DEF Emitted
<1> HIDE DEF p
<1> QED
  BY <1>2, <1>3, <1>5, <1>6, <1>7, CopiesType DEF Copies, CopiesAt

LEMMA CollectedCopies ==
  ASSUME IType, NEW c \in Collectors, NEW f \in Events
  PROVE  /\ Taken(c) \/ Recorded(c) \/ Returned(c) => Copies(f)' = Copies(f)
         /\ Lost(c) => Copies(f) = Copies(f)' + IF held[c] = f THEN 1 ELSE 0
         /\ RecordedUnseen(c) => Copies(f)' = Copies(f) + IF held[c] = f THEN 1 ELSE 0
PROOF
<1>0. /\ queue \in Seq(Events) /\ held \in [Collectors -> Events \cup {Nothing}]
      /\ rows \in [Events -> Nat] /\ TypeOK
  BY DEF IType, TypeOK
<1> USE CopiesType DEF Copies, CopiesAt
<1>1. ASSUME Taken(c) PROVE Copies(f)' = Copies(f)
  <2>1. Last(queue) \in Events
    BY <1>0, <1>1, Popped DEF Taken
  <2>2. Cardinality(Places(queue, f)) =
          Cardinality(Places(queue', f)) + IF Last(queue) = f THEN 1 ELSE 0
    BY <1>0, <1>1, PoppedPlaces DEF Taken
  <2>3. Cardinality(Hands(held', f)) =
          Cardinality(Hands(held, f)) + IF Last(queue) = f THEN 1 ELSE 0
    BY <1>0, <1>1, <2>1, HandFilled, ZenonT(30) DEF Taken
  <2>4. queue' \in Seq(Events) /\ Cardinality(Places(queue', f)) \in Nat
    BY <1>0, <1>1, Popped, PlacesFinite DEF Taken
  <2>5. rows' = rows
    BY <1>1 DEF Taken
  <2> QED  BY <1>0, <2>2, <2>3, <2>4, <2>5
<1>2. ASSUME HandEmptied(c)
      PROVE  /\ Cardinality(Hands(held, f)) =
                  Cardinality(Hands(held', f)) + IF held[c] = f THEN 1 ELSE 0
             /\ Cardinality(Hands(held', f)) \in Nat
  BY <1>0, <1>2, HandLeft, HandsFinite DEF HandEmptied
<1>3. ASSUME Recorded(c) PROVE Copies(f)' = Copies(f)
  <2>1. rows'[f] = rows[f] + IF f = held[c] THEN 1 ELSE 0
    BY <1>0, <1>3, RowType DEF Recorded, HandEmptied
  <2>2. queue' = queue
    BY <1>3 DEF Recorded
  <2> QED  BY <1>0, <1>2, <1>3, <2>1, <2>2 DEF Recorded
<1>4. ASSUME Returned(c) PROVE Copies(f)' = Copies(f)
  <2>1. Cardinality(Places(queue', f)) =
          Cardinality(Places(queue, f)) + IF held[c] = f THEN 1 ELSE 0
    BY <1>0, <1>4, PushedPlaces DEF Returned, HandEmptied
  <2>2. rows' = rows
    BY <1>4 DEF Returned
  <2> QED  BY <1>0, <1>2, <1>4, <2>1, <2>2 DEF Returned
<1>5. ASSUME Lost(c) PROVE Copies(f) = Copies(f)' + IF held[c] = f THEN 1 ELSE 0
  <2>1. queue' = queue /\ rows' = rows
    BY <1>5 DEF Lost
  <2> QED  BY <1>0, <1>2, <1>5, <2>1 DEF Lost
<1>6. ASSUME RecordedUnseen(c)
      PROVE  Copies(f)' = Copies(f) + IF held[c] = f THEN 1 ELSE 0
  <2>1. rows'[f] = rows[f] + IF f = held[c] THEN 1 ELSE 0
    BY <1>0, <1>6, RowType DEF RecordedUnseen
  <2>2. queue' = queue /\ held' = held
    BY <1>6 DEF RecordedUnseen
  <2> QED  BY <1>0, <2>1, <2>2
<1> QED  BY <1>1, <1>3, <1>4, <1>5, <1>6

(***************************************************************************)
(* The invariant of the flow.                                              *)
(***************************************************************************)

\* There is room for what the collectors hold: a requeue brings back what a
\* BRPOP has taken.
RoomToReturn ==
  Len(queue) + Cardinality(FullHands(held)) <= MaxQueueLen + Cardinality(Collectors)

CopiesInv ==
  \A e \in Events :
    /\ e \notin emitted => Copies(e) = 0
    /\ e \in emitted \ dropped => Copies(e) > 0
    /\ Copies(e) <= 1 + faults

FlowInv == RoomToReturn /\ CopiesInv

LEMMA FlowInit == Init => FlowInv
PROOF
<1> SUFFICES ASSUME Init PROVE FlowInv
  OBVIOUS
<1>1. held \in [Collectors -> {Nothing}] /\ queue = <<>> /\ emitted = {} /\ faults = 0
  BY DEF Init, CollectorsInit, NothingUsed
<1>2. FullHands(held) = {} /\ Cardinality(FullHands(held)) = 0
  BY <1>1, FS_EmptySet DEF FullHands
<1>3. RoomToReturn
  BY <1>1, <1>2, HandsFinite, Sizes DEF RoomToReturn
<1>4. ASSUME NEW e \in Events PROVE Copies(e) = 0
  <2>1. Places(queue, e) = {} /\ Hands(held, e) = {}
    BY <1>1, EventsAssumption DEF Places, Hands
  <2>2. rows[e] = 0
    BY DEF Init
  <2> QED  BY <2>1, <2>2, FS_EmptySet DEF Copies, CopiesAt
<1>5. CopiesInv
  BY <1>1, <1>4 DEF CopiesInv
<1> QED  BY <1>3, <1>5 DEF FlowInv

LEMMA RoomStep ==
  ASSUME IType, RoomToReturn, FlowStep
  PROVE  RoomToReturn'
PROOF
<1> DEFINE full == Cardinality(FullHands(held))
<1>1. /\ queue \in Seq(Events) /\ held \in [Collectors -> Events \cup {Nothing}]
      /\ Len(queue) \in Nat /\ full \in Nat /\ Cardinality(Collectors) \in Nat
      /\ MaxQueueLen \in Nat /\ full <= Cardinality(Collectors)
  <2>1. queue \in Seq(Events) /\ held \in [Collectors -> Events \cup {Nothing}]
    BY DEF IType, TypeOK
  <2>2. /\ full \in Nat /\ Cardinality(Collectors) \in Nat
        /\ full <= Cardinality(Collectors)
    BY HandsFinite
  <2> HIDE DEF full
  <2> QED  BY <2>1, <2>2, Sizes, QueueTyped
<1>2. ASSUME NEW e \in Events, Emitted(e) PROVE RoomToReturn'
  <2>1. <<e>> \o queue \in Seq(Events)
    BY <1>1, Pushed
  <2>2. queue' \in Seq(Events) /\ Len(queue') <= MaxQueueLen
    BY <1>2, <2>1, Trims DEF Emitted
  <2>3. held' = held /\ Len(queue') \in Nat
    BY <1>2, <2>2, QueueTyped DEF Emitted
  <2> QED  BY <1>1, <2>2, <2>3 DEF RoomToReturn
<1>3. ASSUME NEW e \in Events, EmittedInVain(e) PROVE RoomToReturn'
  BY <1>3 DEF EmittedInVain, RoomToReturn
<1>4. ASSUME NEW c \in Collectors, Taken(c) PROVE RoomToReturn'
  <2>1. Last(queue) \in Events /\ Len(queue') = Len(queue) - 1
    BY <1>1, <1>4, Popped DEF Taken
  <2>2. Cardinality(FullHands(held')) = full + 1
    BY <1>1, <1>4, <2>1, HandFilled DEF Taken
  <2> QED  BY <1>1, <2>1, <2>2 DEF RoomToReturn
<1>5. ASSUME NEW c \in Collectors, HandEmptied(c)
      PROVE  full = Cardinality(FullHands(held')) + 1 /\ Cardinality(FullHands(held')) \in Nat
  BY <1>1, <1>5, HandLeft, HandsFinite DEF HandEmptied
<1>6. ASSUME NEW c \in Collectors, Recorded(c) \/ Lost(c) PROVE RoomToReturn'
  <2>1. queue' = queue /\ HandEmptied(c)
    BY <1>6 DEF Recorded, Lost
  <2> QED  BY <1>1, <1>5, <2>1 DEF RoomToReturn
<1>7. ASSUME NEW c \in Collectors, RecordedUnseen(c) PROVE RoomToReturn'
  BY <1>7 DEF RecordedUnseen, RoomToReturn
<1>8. ASSUME NEW c \in Collectors, Returned(c) PROVE RoomToReturn'
  <2>1. HandEmptied(c) /\ held[c] \in Events
    BY <1>8 DEF Returned, HandEmptied
  <2>2. Len(queue') = Len(queue) + 1
    BY <1>1, <1>8, <2>1, Pushed DEF Returned
  <2> QED  BY <1>1, <1>5, <2>1, <2>2 DEF RoomToReturn
<1>9. CASE Unmoved
  BY <1>9 DEF Unmoved, RoomToReturn
<1> QED  BY <1>2, <1>3, <1>4, <1>6, <1>7, <1>8, <1>9 DEF FlowStep

LEMMA CopiesStep ==
  ASSUME IType, TypeOK', CopiesInv, FlowStep
  PROVE  CopiesInv'
PROOF
<1> SUFFICES ASSUME NEW f \in Events
             PROVE  /\ f \notin emitted' => Copies(f)' = 0
                    /\ f \in emitted' \ dropped' => Copies(f)' > 0
                    /\ Copies(f)' <= 1 + faults'
  BY DEF CopiesInv
<1>1. TypeOK /\ Copies(f) \in Nat /\ faults \in Nat /\ Copies(f)' \in Nat
  <2>1. TypeOK /\ faults \in Nat
    BY Sizes DEF IType, TypeOK
  <2>2. queue' \in Seq(Events) /\ rows' \in [Events -> Nat]
    BY DEF TypeOK
  <2>3. CopiesAt(queue', held', rows', f) \in Nat
    BY <2>2, CopiesNat
  <2> QED  BY <2>1, <2>3, CopiesType DEF Copies
<1>2. /\ f \notin emitted => Copies(f) = 0
      /\ f \in emitted \ dropped => Copies(f) > 0
      /\ Copies(f) <= 1 + faults
  BY DEF CopiesInv
<1>3. ASSUME UNCHANGED <<queue, held, rows>> PROVE Copies(f)' = Copies(f)
  BY <1>3 DEF Copies
\* A held event has a copy: it has been emitted.
<1>4. ASSUME NEW c \in Collectors, held[c] = f PROVE Copies(f) > 0
  <2>1. c \in Hands(held, f)
    BY <1>4 DEF Hands
  <2>2. Cardinality(Hands(held, f)) > 0
    BY <2>1, HandsFinite, FS_EmptySet
  <2> QED  BY <1>1, <2>2, CopiesType DEF Copies, CopiesAt
<1> HIDE DEF Copies
<1>5. ASSUME NEW e \in Events, Emitted(e)
      PROVE  /\ f \notin emitted' => Copies(f)' = 0
             /\ f \in emitted' \ dropped' => Copies(f)' > 0
             /\ Copies(f)' <= 1 + faults'
  <2>1. /\ Copies(f)' <= Copies(f) + IF e = f THEN 1 ELSE 0
        /\ f \notin dropped' => Copies(f)' = Copies(f) + IF e = f THEN 1 ELSE 0
    BY <1>1, <1>5, EmittedCopies
  <2> QED  BY <1>1, <1>2, <1>5, <2>1 DEF Emitted
<1>6. ASSUME NEW e \in Events, EmittedInVain(e)
      PROVE  /\ f \notin emitted' => Copies(f)' = 0
             /\ f \in emitted' \ dropped' => Copies(f)' > 0
             /\ Copies(f)' <= 1 + faults'
  BY <1>1, <1>2, <1>3, <1>6 DEF EmittedInVain
<1>7. ASSUME NEW c \in Collectors, Taken(c) \/ Recorded(c) \/ Returned(c)
      PROVE  /\ f \notin emitted' => Copies(f)' = 0
             /\ f \in emitted' \ dropped' => Copies(f)' > 0
             /\ Copies(f)' <= 1 + faults'
  <2>1. Copies(f)' = Copies(f)
    BY <1>7, CollectedCopies
  <2> QED  BY <1>2, <1>7, <2>1 DEF Taken, Recorded, Returned
<1>8. ASSUME NEW c \in Collectors, Lost(c)
      PROVE  /\ f \notin emitted' => Copies(f)' = 0
             /\ f \in emitted' \ dropped' => Copies(f)' > 0
             /\ Copies(f)' <= 1 + faults'
  <2>1. Copies(f) = Copies(f)' + IF held[c] = f THEN 1 ELSE 0
    BY <1>8, CollectedCopies
  <2> QED  BY <1>1, <1>2, <1>8, <2>1 DEF Lost
<1>9. ASSUME NEW c \in Collectors, RecordedUnseen(c)
      PROVE  /\ f \notin emitted' => Copies(f)' = 0
             /\ f \in emitted' \ dropped' => Copies(f)' > 0
             /\ Copies(f)' <= 1 + faults'
  <2>1. Copies(f)' = Copies(f) + IF held[c] = f THEN 1 ELSE 0
    BY <1>9, CollectedCopies
  <2> QED  BY <1>1, <1>2, <1>4, <1>9, <2>1 DEF RecordedUnseen
<1>10. CASE Unmoved
  BY <1>1, <1>2, <1>3, <1>10 DEF Unmoved
<1> QED  BY <1>5, <1>6, <1>7, <1>8, <1>9, <1>10 DEF FlowStep

LEMMA FlowInvariant == Spec => [](IType /\ FlowInv)
PROOF
<1>1. IType /\ FlowInv /\ [Next]_vars => (IType /\ FlowInv)'
  <2> SUFFICES ASSUME IType, FlowInv, [Next]_vars PROVE (IType /\ FlowInv)'
    OBVIOUS
  <2>1. IType'
    BY TypeStep
  <2>2. FlowStep
    BY EveryStepFlows
  <2>3. RoomToReturn'
    BY <2>2, RoomStep DEF FlowInv
  <2>4. CopiesInv'
    BY <2>1, <2>2, CopiesStep DEF FlowInv, IType
  <2> QED  BY <2>1, <2>3, <2>4 DEF FlowInv
<1> QED  BY <1>1, TypeInit, FlowInit, PTL DEF Spec

\* The copies of an event on their way and in the table.
LEMMA CopiesCounted ==
  ASSUME NEW e \in Events
  PROVE  InFlight(e) + rows[e] = Copies(e)
BY DEF InFlight, Copies, CopiesAt, Places, Hands

\* EmitUsage trims the queue and a requeue does not, but a requeue only brings
\* back the event of its BRPOP: the queue passes its cap by at most one event
\* for each collector, however often flushes fail.
THEOREM QueueStaysBounded == Spec => []QueueBounded
PROOF
<1>1. IType /\ FlowInv => QueueBounded
  <2> SUFFICES ASSUME IType, FlowInv PROVE QueueBounded
    OBVIOUS
  <2>1. /\ Cardinality(FullHands(held)) \in Nat /\ Cardinality(Collectors) \in Nat
    BY HandsFinite
  <2>2. Len(queue) \in Nat
    BY QueueTyped DEF IType, TypeOK
  <2> QED  BY <2>1, <2>2, Sizes DEF FlowInv, RoomToReturn, QueueBounded
<1> QED  BY <1>1, FlowInvariant, PTL

\* Between the Redis list and the table no event is lost but by the cap, a
\* crash, a failed call or a cancelled context (UsageCollector.flush).
THEOREM NothingLostSilently == Spec => []AuditConserved
PROOF
<1>1. IType /\ FlowInv => AuditConserved
  <2> SUFFICES ASSUME IType, FlowInv, NEW e \in emitted \ dropped
               PROVE  InFlight(e) + rows[e] > 0
    BY DEF AuditConserved
  <2>1. e \in Events
    BY DEF IType, TypeOK
  <2>2. Copies(e) > 0
    BY <2>1 DEF FlowInv, CopiesInv
  <2> QED  BY <2>1, <2>2, CopiesCounted
<1> QED  BY <1>1, FlowInvariant, PTL

\* Every row of an event but one is paid for by an INSERT whose reply was lost.
THEOREM RowsNotDuplicated == Spec => []AuditNotDuplicated
PROOF
<1>1. FlowInv => AuditNotDuplicated
  BY CopiesCounted DEF FlowInv, CopiesInv, AuditNotDuplicated
<1> QED  BY <1>1, FlowInvariant, PTL

(***************************************************************************)
(* Billing.  A rollup that has still to book a day, because the day is     *)
(* among its keys or read and not yet added, is pending for it.            *)
(***************************************************************************)
Books(c, n, d) ==
  <<n, d>> \in keys[c] \/ (read[c] # <<>> /\ read[c][1] = <<n, d>>)

Pending(n, d) == {c \in Collectors : Books(c, n, d)}

\* A counter, and what a rollup has read of it, never exceeds what was used.
ReadInv ==
  /\ \A n \in Tenants : \A d \in Days : counter[n][d] <= used[n][d]
  /\ \A c \in Collectors : read[c] # <<>> =>
       /\ read[c][1] \notin keys[c]
       /\ \A n \in Tenants : \A d \in Days :
            read[c][1] = <<n, d>> => read[c][2] <= used[n][d]

\* Each rollup that is over, or is no longer pending for the day, has booked the
\* day's usage at most once.
BookedInv ==
  \A n \in Tenants : \A d \in Days :
    /\ Cardinality(Pending(n, d)) <= rollups
    /\ daily[n][d] <= (rollups - Cardinality(Pending(n, d))) * used[n][d]

BillingInv == ReadInv /\ BookedInv

LEMMA MoreUsed ==
  ASSUME NEW k \in Nat, NEW u \in Nat, NEW v \in Nat, u <= v
  PROVE  k * u <= k * v
  OBVIOUS

LEMMA OneMore ==
  ASSUME NEW k \in Nat, NEW u \in Nat
  PROVE  (k + 1) * u = k * u + u
  OBVIOUS

LEMMA PendingFinite ==
  ASSUME NEW n, NEW d
  PROVE  /\ IsFiniteSet(Pending(n, d)) /\ Cardinality(Pending(n, d)) \in Nat
         /\ IsFiniteSet(Pending(n, d)') /\ Cardinality(Pending(n, d)') \in Nat
PROOF
<1>1. Pending(n, d) \in SUBSET Collectors /\ Pending(n, d)' \in SUBSET Collectors
  BY DEF Pending
<1> QED  BY <1>1, CollectorsAssumption, FS_Subset, FS_CardinalityType

\* To the books of one day every step is one of these.
BookStep(n, d) ==
  \/ /\ Pending(n, d)' = Pending(n, d) /\ rollups' = rollups
     /\ daily'[n][d] = daily[n][d] /\ used'[n][d] >= used[n][d]
  \/ /\ \E c \in Collectors : Pending(n, d)' \subseteq Pending(n, d) \cup {c}
     /\ rollups' = rollups + 1
     /\ daily'[n][d] = daily[n][d] /\ used'[n][d] = used[n][d]
  \/ /\ Pending(n, d)' \subseteq Pending(n, d) /\ rollups' = rollups
     /\ daily'[n][d] = daily[n][d] /\ used'[n][d] = used[n][d]
  \/ /\ \E c \in Pending(n, d) : Pending(n, d)' = Pending(n, d) \ {c}
     /\ rollups' = rollups
     /\ daily'[n][d] <= daily[n][d] + used[n][d] /\ used'[n][d] = used[n][d]

LEMMA BooksKept ==
  ASSUME IType, IType', NEW n \in Tenants, NEW d \in Days, BookStep(n, d),
         Cardinality(Pending(n, d)) <= rollups,
         daily[n][d] <= (rollups - Cardinality(Pending(n, d))) * used[n][d]
  PROVE  /\ Cardinality(Pending(n, d)') <= rollups'
         /\ daily'[n][d] <= (rollups' - Cardinality(Pending(n, d)')) * used'[n][d]
PROOF
<1> DEFINE p == Cardinality(Pending(n, d))
           q == Cardinality(Pending(n, d)')
<1>1. /\ daily[n][d] \in Nat /\ daily'[n][d] \in Nat
      /\ used[n][d] \in Nat /\ used'[n][d] \in Nat
      /\ rollups \in Nat /\ rollups' \in Nat
  BY Sizes DEF IType, TypeOK
<1>2. p \in Nat /\ q \in Nat
  BY PendingFinite
<1>3. PICK k \in Nat : k = rollups - p
  BY <1>1, <1>2
<1>4. daily[n][d] <= k * used[n][d]
  BY <1>3
<1>5. CASE /\ Pending(n, d)' = Pending(n, d) /\ rollups' = rollups
           /\ daily'[n][d] = daily[n][d] /\ used'[n][d] >= used[n][d]
  <2>1. k * used[n][d] <= k * used'[n][d]
    BY <1>1, <1>5, MoreUsed
  <2>2. k * used[n][d] \in Nat /\ k * used'[n][d] \in Nat
    BY <1>1
  <2> QED  BY <1>1, <1>2, <1>3, <1>4, <1>5, <2>1, <2>2
\* As many rollups as before have booked the day, or one more.
<1>6. ASSUME NEW j \in Nat, rollups' - q = k + j, q <= rollups',
             daily'[n][d] <= daily[n][d], used'[n][d] = used[n][d]
      PROVE  /\ q <= rollups'
             /\ daily'[n][d] <= (rollups' - q) * used'[n][d]
  <2>1. k * used[n][d] <= (k + j) * used[n][d]
    BY <1>1
  <2>2. k * used[n][d] \in Nat /\ (k + j) * used[n][d] \in Nat
    BY <1>1
  <2>3. daily'[n][d] <= (k + j) * used[n][d]
    BY <1>1, <1>4, <1>6, <2>1, <2>2
  <2> QED  BY <1>6, <2>3
<1>7. CASE /\ \E c \in Collectors : Pending(n, d)' \subseteq Pending(n, d) \cup {c}
           /\ rollups' = rollups + 1
           /\ daily'[n][d] = daily[n][d] /\ used'[n][d] = used[n][d]
  <2>1. PICK c \in Collectors : Pending(n, d)' \in SUBSET (Pending(n, d) \cup {c})
    BY <1>7
  <2>2. q <= p + 1
    <3> DEFINE pending == Pending(n, d)
    <3>0. IsFiniteSet(pending) /\ p = Cardinality(pending)
      BY PendingFinite
    <3> HIDE DEF p, pending
    <3>4. /\ IsFiniteSet(pending \cup {c})
          /\ Cardinality(pending \cup {c}) =
               IF c \in pending THEN Cardinality(pending) ELSE Cardinality(pending) + 1
      BY <3>0, FS_AddElement
    <3>1. /\ IsFiniteSet(Pending(n, d) \cup {c})
          /\ Cardinality(Pending(n, d) \cup {c}) <= p + 1
      BY <1>2, <3>0, <3>4 DEF pending
    <3>2. q <= Cardinality(Pending(n, d) \cup {c})
      BY <2>1, <3>1, FS_Subset
    <3>3. Cardinality(Pending(n, d) \cup {c}) \in Nat
      BY <3>1, FS_CardinalityType
    <3> QED  BY <1>2, <3>1, <3>2, <3>3
  <2>3. rollups' - q - k \in Nat /\ q <= rollups'
    BY <1>1, <1>2, <1>3, <1>7, <2>2
  <2>4. rollups' - q = k + (rollups' - q - k) /\ daily'[n][d] <= daily[n][d]
    BY <1>1, <1>2, <1>7
  <2> QED  BY <1>6, <1>7, <2>3, <2>4
<1>8. CASE /\ Pending(n, d)' \subseteq Pending(n, d) /\ rollups' = rollups
           /\ daily'[n][d] = daily[n][d] /\ used'[n][d] = used[n][d]
  <2>1. q <= p
    BY <1>8, PendingFinite, FS_Subset
  <2>2. rollups' - q - k \in Nat /\ q <= rollups'
    BY <1>1, <1>2, <1>3, <1>8, <2>1
  <2>3. rollups' - q = k + (rollups' - q - k) /\ daily'[n][d] <= daily[n][d]
    BY <1>1, <1>2, <1>8
  <2> QED  BY <1>6, <1>8, <2>2, <2>3
<1>9. CASE /\ \E c \in Pending(n, d) : Pending(n, d)' = Pending(n, d) \ {c}
           /\ rollups' = rollups
           /\ daily'[n][d] <= daily[n][d] + used[n][d] /\ used'[n][d] = used[n][d]
  <2>1. q = p - 1
    BY <1>9, PendingFinite, FS_RemoveElement, ZenonT(30)
  <2>2. (k + 1) * used[n][d] = k * used[n][d] + used[n][d] /\ k * used[n][d] \in Nat
    BY <1>1, OneMore
  <2>3. rollups' - q = k + 1 /\ q <= rollups'
    BY <1>1, <1>2, <1>3, <1>9, <2>1
  <2>4. daily'[n][d] <= (k + 1) * used[n][d]
    BY <1>1, <1>4, <1>9, <2>2
  <2> QED  BY <1>9, <2>3, <2>4
<1> QED  BY <1>5, <1>7, <1>8, <1>9 DEF BookStep

\* What leaves the pending rollups, the two tables and the day's usage alone.
LEMMA BooksUntouched ==
  ASSUME NEW n \in Tenants, NEW d \in Days,
         UNCHANGED <<keys, read, daily, rollups>>, used'[n][d] >= used[n][d]
  PROVE  BookStep(n, d)
BY DEF BookStep, Pending, Books

LEMMA EveryStepBooks ==
  ASSUME IType, ReadInv, [Next]_vars, NEW n \in Tenants, NEW d \in Days
  PROVE  BookStep(n, d)
PROOF
<1> USE DEF countersVars, collectorVars, queueVars, tableVars, boundVars
<1>0. used[n][d] \in Nat /\ daily[n][d] \in Nat /\ rollups \in Nat
  BY Sizes DEF IType, TypeOK
<1>1. ASSUME NEW e \in Events, EmitUsage(e) \/ EmitUsageFails(e) PROVE BookStep(n, d)
  <2>1. used'[n][d] >= used[n][d]
    BY <1>0, <1>1, UseType DEF IType, EmitUsage, EmitUsageFails
  <2>2. UNCHANGED <<keys, read, daily, rollups>>
    BY <1>1 DEF EmitUsage, EmitUsageFails, Fault
  <2> QED  BY <2>1, <2>2, BooksUntouched
<1>2. ASSUME NEW c \in Collectors, StartFlush(c) \/ Flush(c) \/ Stop(c) \/ Restart(c)
      PROVE  BookStep(n, d)
  <2>1. UNCHANGED <<keys, read, daily, rollups, used>>
    BY <1>2
    DEF StartFlush, Flush, Pop, FlushDone, Insert, InsertFails, Requeue, RequeueFails,
        Fault, Stop, Restart
  <2> QED  BY <1>0, <2>1, BooksUntouched
<1>3. CASE Midnight \/ \E m \in Tenants, b \in Days : Expire(m, b)
  <2>1. UNCHANGED <<keys, read, daily, rollups, used>>
    BY <1>3 DEF Midnight, Expire
  <2> QED  BY <1>0, <2>1, BooksUntouched
<1>4. CASE UNCHANGED vars
  <2>1. UNCHANGED <<keys, read, daily, rollups, used>>
    BY <1>4 DEF vars
  <2> QED  BY <1>0, <2>1, BooksUntouched
<1>5. ASSUME NEW c \in Collectors, StartRollup(c) PROVE BookStep(n, d)
  <2>1. /\ rollups' = rollups + 1 /\ daily' = daily /\ used' = used /\ read' = read
        /\ \A b \in Collectors : b # c => keys'[b] = keys[b]
    BY <1>5 DEF StartRollup, IType, TypeOK
  <2>2. Pending(n, d)' \subseteq Pending(n, d) \cup {c}
    BY <2>1 DEF Pending, Books
  <2> QED  BY <2>1, <2>2 DEF BookStep
<1>6. ASSUME NEW c \in Collectors, ReadCounter(c) PROVE BookStep(n, d)
  <2>1. PICK k \in keys[c] :
          /\ keys' = [keys EXCEPT ![c] = @ \ {k}]
          /\ \/ read' = [read EXCEPT ![c] = <<k, counter[k[1]][k[2]]>>]
             \/ read' = read
    BY <1>6 DEF ReadCounter
  <2>2. \A b \in Collectors : Books(b, n, d)' => Books(b, n, d)
    <3>1. \A b \in Collectors : keys'[b] \subseteq keys[b]
      BY <2>1 DEF IType, TypeOK
    <3>2. \A b \in Collectors :
            read'[b] = read[b] \/ (b = c /\ read'[b] = <<k, counter[k[1]][k[2]]>>)
      BY <2>1 DEF IType, TypeOK
    <3>3. \A b \in Collectors :
            read'[b] = read[b] \/ (b = c /\ read'[b][1] = k)
      BY <3>2
    <3> QED  BY <3>1, <3>3 DEF Books
  <2>3. rollups' = rollups /\ daily' = daily /\ used' = used
    BY <1>6 DEF ReadCounter
  <2> QED  BY <2>2, <2>3 DEF BookStep, Pending
<1>7. ASSUME NEW c \in Collectors, UpsertDaily(c) PROVE BookStep(n, d)
  <2>1. read[c] \in Keys \X Nat /\ read[c] # <<>>
    BY <1>7 DEF UpsertDaily, IType, TypeOK, HandInv
  <2>2. PICK m \in Tenants, b \in Days, x \in Nat : read[c] = <<<<m, b>>, x>>
    BY <2>1 DEF Keys
  <2>3. /\ daily' = [daily EXCEPT ![m][b] = @ + x]
        /\ read' = [read EXCEPT ![c] = <<>>]
        /\ UNCHANGED <<keys, rollups, used>>
    BY <1>7, <2>2 DEF UpsertDaily
  <2>4. daily \in [Tenants -> [Days -> Nat]]
    BY DEF IType, TypeOK
  <2>5. daily'[n][d] = IF n = m /\ d = b THEN daily[n][d] + x ELSE daily[n][d]
    BY <2>3, <2>4, TableAdd
  <2>6. \A a \in Collectors : a # c => (Books(a, n, d)' <=> Books(a, n, d))
    BY <2>3 DEF Books, IType, TypeOK
  <2>7. CASE n = m /\ d = b
    <3>1. Books(c, n, d) /\ ~ Books(c, n, d)'
      <4>1. read[c][1] = <<n, d>> /\ read[c][1] \notin keys[c]
        BY <2>1, <2>2, <2>7 DEF ReadInv
      <4>2. read'[c] = <<>> /\ keys'[c] = keys[c]
        BY <2>3 DEF IType, TypeOK
      <4> QED  BY <2>1, <4>1, <4>2 DEF Books
    <3>2. c \in Pending(n, d) /\ Pending(n, d)' = Pending(n, d) \ {c}
      BY <2>6, <3>1 DEF Pending
    <3>3. x <= used[n][d]
      BY <2>1, <2>2, <2>7 DEF ReadInv
    <3>4. daily'[n][d] <= daily[n][d] + used[n][d]
      BY <1>0, <2>5, <2>7, <3>3
    <3> QED  BY <2>3, <3>2, <3>4 DEF BookStep
  <2>8. CASE ~ (n = m /\ d = b)
    <3>1. Books(c, n, d)' <=> Books(c, n, d)
      BY <2>2, <2>3, <2>8, SMTT(20) DEF Books, IType, TypeOK
    <3>2. Pending(n, d)' = Pending(n, d)
      BY <2>6, <3>1 DEF Pending
    <3> QED  BY <1>0, <2>3, <2>5, <2>8, <3>2 DEF BookStep
  <2> QED  BY <2>7, <2>8
<1>8. ASSUME NEW c \in Collectors, UpsertFails(c) \/ RollupDone(c) \/ Crash(c)
      PROVE  BookStep(n, d)
  <2>1. /\ rollups' = rollups /\ daily' = daily /\ used' = used
        /\ keys' = keys \/ keys' = [keys EXCEPT ![c] = {}]
        /\ read' = read \/ read' = [read EXCEPT ![c] = <<>>]
    BY <1>8 DEF UpsertFails, RollupDone, Crash, Fault
  <2>2. \A b \in Collectors : Books(b, n, d)' => Books(b, n, d)
    BY <2>1 DEF Books, IType, TypeOK
  <2> QED  BY <2>1, <2>2 DEF BookStep, Pending
<1> QED
  BY <1>1, <1>2, <1>3, <1>4, <1>5, <1>6, <1>7, <1>8 DEF Next, Rollup

LEMMA CountedIsUsed ==
  ASSUME IType, ReadInv, [Next]_vars, NEW n \in Tenants, NEW d \in Days
  PROVE  used'[n][d] >= used[n][d] /\ counter'[n][d] <= used'[n][d]
PROOF
<1>0. /\ used[n][d] \in Nat /\ counter[n][d] \in Nat /\ counter[n][d] <= used[n][d]
      /\ counter \in [Tenants -> [Days -> Nat]]
  BY DEF IType, TypeOK, CountersTypeOK, ReadInv
<1>1. ASSUME NEW e \in Events, EmitUsage(e) \/ EmitUsageFails(e)
      PROVE  used'[n][d] >= used[n][d] /\ counter'[n][d] <= used'[n][d]
  <2>1. /\ TenantOf[e] \in Tenants /\ CostOf[e] \in Nat /\ today \in Days
        /\ used'[n][d] = IF n = TenantOf[e] /\ d = today
                         THEN used[n][d] + CostOf[e] ELSE used[n][d]
    BY <1>1, UseType DEF IType, EmitUsage, EmitUsageFails
  <2>2. \/ counter' = counter
        \/ counter'[n][d] = IF n = TenantOf[e] /\ d = today
                            THEN counter[n][d] + CostOf[e] ELSE counter[n][d]
    BY <1>0, <1>1, <2>1, TableAdd DEF EmitUsage, EmitUsageFails, CountCost
  <2> QED  BY <1>0, <2>1, <2>2
<1>2. CASE Midnight
  <2>1. used' = used
    BY <1>2 DEF Midnight
  <2>2. counter' = [m \in Tenants |->
                      [b \in Days |-> IF b + 2 <= today THEN 0 ELSE counter[m][b]]]
    BY <1>2 DEF Midnight, NextDay
  <2>3. counter'[n][d] = 0 \/ counter'[n][d] = counter[n][d]
    BY <2>2
  <2> QED  BY <1>0, <2>1, <2>3
<1>3. ASSUME NEW m \in Tenants, NEW b \in Days, Expire(m, b)
      PROVE  used'[n][d] >= used[n][d] /\ counter'[n][d] <= used'[n][d]
  BY <1>0, <1>3 DEF Expire, ExpireKey
<1>4. ASSUME UNCHANGED <<used, counter>>
      PROVE  used'[n][d] >= used[n][d] /\ counter'[n][d] <= used'[n][d]
  BY <1>0, <1>4
<1>5. ASSUME NEW c \in Collectors,
             StartFlush(c) \/ Flush(c) \/ StartRollup(c) \/ Rollup(c)
               \/ Stop(c) \/ Crash(c) \/ Restart(c)
      PROVE  UNCHANGED <<used, counter>>
  BY <1>5
  DEF StartFlush, Flush, Pop, FlushDone, Insert, InsertFails, Requeue, RequeueFails,
      StartRollup, Rollup, ReadCounter, UpsertDaily, UpsertFails, RollupDone,
      Stop, Crash, Restart, countersVars
<1>6. UNCHANGED vars => UNCHANGED <<used, counter>>
  BY DEF vars, countersVars
<1> QED  BY <1>1, <1>2, <1>3, <1>4, <1>5, <1>6 DEF Next

\* Where the counters read come from.
LEMMA ReadFromCounter ==
  ASSUME IType, [Next]_vars, NEW c \in Collectors, read'[c] # <<>>
  PROVE  \/ read'[c] = read[c] /\ keys'[c] \subseteq keys[c]
         \/ \E k \in keys[c] : /\ read'[c] = <<k, counter[k[1]][k[2]]>>
                               /\ keys'[c] = keys[c] \ {k}
PROOF
<1> USE DEF countersVars, collectorVars, queueVars, tableVars, boundVars
<1>1. ASSUME NEW b \in Collectors, ReadCounter(b)
      PROVE  \/ read'[c] = read[c] /\ keys'[c] \subseteq keys[c]
             \/ \E k \in keys[c] : /\ read'[c] = <<k, counter[k[1]][k[2]]>>
                                   /\ keys'[c] = keys[c] \ {k}
  <2>1. PICK k \in keys[b] :
          /\ keys' = [keys EXCEPT ![b] = @ \ {k}]
          /\ \/ read' = [read EXCEPT ![b] = <<k, counter[k[1]][k[2]]>>]
             \/ read' = read
    BY <1>1 DEF ReadCounter
  <2>2. c # b => read'[c] = read[c] /\ keys'[c] = keys[c]
    BY <2>1 DEF IType, TypeOK
  <2>3. c = b => keys'[c] = keys[c] \ {k}
    BY <2>1 DEF IType, TypeOK
  <2>4. c = b => read'[c] = read[c] \/ read'[c] = <<k, counter[k[1]][k[2]]>>
    BY <2>1 DEF IType, TypeOK
  <2> QED  BY <2>2, <2>3, <2>4
<1>2. ASSUME NEW b \in Collectors, StartRollup(b) PROVE read'[c] = read[c] /\ keys'[c] \subseteq keys[c]
  <2>1. b # c
    BY <1>2 DEF StartRollup, IType, HandInv
  <2> QED  BY <1>2, <2>1 DEF StartRollup, IType, TypeOK
<1>3. ASSUME NEW b \in Collectors, UpsertDaily(b) \/ UpsertFails(b) \/ RollupDone(b) \/ Crash(b)
      PROVE  read'[c] = read[c] /\ keys'[c] \subseteq keys[c]
  <2>1. /\ keys' = keys \/ keys' = [keys EXCEPT ![b] = {}]
        /\ read' = read \/ read' = [read EXCEPT ![b] = <<>>]
    BY <1>3 DEF UpsertDaily, UpsertFails, RollupDone, Crash
  <2> QED  BY <2>1 DEF IType, TypeOK
<1>4. ASSUME UNCHANGED <<read, keys>> PROVE read'[c] = read[c] /\ keys'[c] \subseteq keys[c]
  BY <1>4
<1>5. ASSUME NEW b \in Collectors, StartFlush(b) \/ Flush(b) \/ Stop(b) \/ Restart(b)
      PROVE  UNCHANGED <<read, keys>>
  BY <1>5
  DEF StartFlush, Flush, Pop, FlushDone, Insert, InsertFails, Requeue, RequeueFails,
      Stop, Restart
<1>6. ASSUME \/ \E e \in Events : EmitUsage(e) \/ EmitUsageFails(e)
             \/ Midnight \/ \E n \in Tenants, d \in Days : Expire(n, d)
             \/ UNCHANGED vars
      PROVE  UNCHANGED <<read, keys>>
  BY <1>6 DEF EmitUsage, EmitUsageFails, Midnight, Expire, vars
<1> QED  BY <1>1, <1>2, <1>3, <1>4, <1>5, <1>6 DEF Next, Rollup

LEMMA ReadStep ==
  ASSUME IType, TypeOK', ReadInv, [Next]_vars
  PROVE  ReadInv'
PROOF
<1>1. \A n \in Tenants : \A d \in Days :
        used'[n][d] >= used[n][d] /\ counter'[n][d] <= used'[n][d]
  BY CountedIsUsed
<1>2. ASSUME NEW c \in Collectors, read'[c] # <<>>
      PROVE  /\ read'[c][1] \notin keys'[c]
             /\ \A n \in Tenants : \A d \in Days :
                  read'[c][1] = <<n, d>> => read'[c][2] <= used'[n][d]
  <2> DEFINE Fine == /\ read'[c][1] \notin keys'[c]
                     /\ \A n \in Tenants : \A d \in Days :
                          read'[c][1] = <<n, d>> => read'[c][2] <= used'[n][d]
  <2>0. used \in [Tenants -> [Days -> Nat]] /\ used' \in [Tenants -> [Days -> Nat]]
    BY DEF IType, TypeOK
  <2>1. CASE read'[c] = read[c] /\ keys'[c] \subseteq keys[c]
    <3>1. read[c] \in Keys \X Nat
      BY <1>2, <2>1 DEF IType, TypeOK
    <3>2. /\ read[c][1] \notin keys[c] /\ read[c][2] \in Nat
          /\ \A n \in Tenants : \A d \in Days :
               read[c][1] = <<n, d>> => read[c][2] <= used[n][d]
      BY <1>2, <2>1, <3>1 DEF ReadInv
    <3>3. ASSUME NEW n \in Tenants, NEW d \in Days, read[c][1] = <<n, d>>
          PROVE  read[c][2] <= used'[n][d]
      <4>1. used[n][d] \in Nat /\ read[c][2] <= used[n][d] /\ used'[n][d] >= used[n][d]
        BY <1>1, <2>0, <3>2, <3>3
      <4>2. used'[n][d] \in Nat
        BY <2>0
      <4> QED  BY <3>2, <4>1, <4>2
    <3> QED  BY <2>1, <3>2, <3>3
  <2>2. ASSUME NEW k \in keys[c], read'[c] = <<k, counter[k[1]][k[2]]>>,
               keys'[c] = keys[c] \ {k}
        PROVE  Fine
    <3>1. /\ read'[c][1] = k /\ read'[c][2] = counter[k[1]][k[2]]
          /\ k \in Keys
      BY <2>2 DEF IType, TypeOK
    <3>2. ASSUME NEW n \in Tenants, NEW d \in Days, k = <<n, d>>
          PROVE  counter[n][d] <= used'[n][d]
      <4>1. /\ counter[n][d] \in Nat /\ used[n][d] \in Nat /\ used'[n][d] \in Nat
            /\ counter[n][d] <= used[n][d] /\ used'[n][d] >= used[n][d]
        BY <1>1, <2>0 DEF IType, TypeOK, CountersTypeOK, ReadInv
      <4> QED  BY <4>1
    <3> QED  BY <2>2, <3>1, <3>2
  <2> QED  BY <1>2, <2>1, <2>2, ReadFromCounter
<1> QED  BY <1>1, <1>2 DEF ReadInv

LEMMA BillingInit == Init => BillingInv
PROOF
<1> SUFFICES ASSUME Init PROVE BillingInv
  OBVIOUS
<1>1. ReadInv
  BY DEF Init, CollectorsInit, NothingUsed, CountersInit, ReadInv
<1>2. ASSUME NEW n \in Tenants, NEW d \in Days
      PROVE  /\ Cardinality(Pending(n, d)) <= rollups
             /\ daily[n][d] <= (rollups - Cardinality(Pending(n, d))) * used[n][d]
  <2>1. Pending(n, d) = {}
    BY DEF Init, CollectorsInit, Pending, Books
  <2>2. Cardinality(Pending(n, d)) = 0
    BY <2>1, FS_EmptySet
  <2> QED  BY <2>2 DEF Init, NothingUsed
<1> QED  BY <1>1, <1>2 DEF BillingInv, BookedInv

LEMMA BillingStep ==
  ASSUME IType, IType', BillingInv, [Next]_vars
  PROVE  BillingInv'
PROOF
<1>1. ReadInv'
  BY ReadStep DEF BillingInv, IType
<1>2. ASSUME NEW n \in Tenants, NEW d \in Days
      PROVE  /\ Cardinality(Pending(n, d)') <= rollups'
             /\ daily'[n][d] <= (rollups' - Cardinality(Pending(n, d)')) * used'[n][d]
  BY EveryStepBooks, BooksKept DEF BillingInv, BookedInv
<1>3. BookedInv'
  BY <1>2 DEF BookedInv
<1> QED  BY <1>1, <1>3 DEF BillingInv

LEMMA BillingInvariant == Spec => [](IType /\ BillingInv)
PROOF
<1>1. IType /\ BillingInv /\ [Next]_vars => (IType /\ BillingInv)'
  BY TypeStep, BillingStep
<1> QED  BY <1>1, TypeInit, BillingInit, PTL DEF Spec

\* A rollup reads a counter and adds what it read to the table some time later,
\* and midnight, an expiry, other rollups and emissions may come in between: still
\* nothing is booked on a day without usage, and by each rollup at most the
\* usage of that day (UsageCollector.rollup, UpsertUsageDaily).
THEOREM BookedOnItsDay == Spec => []BilledOnDayOfUse
PROOF
<1>1. IType /\ BillingInv => BilledOnDayOfUse
  <2> SUFFICES ASSUME IType, BillingInv, NEW n \in Tenants, NEW d \in Days
               PROVE  daily[n][d] <= rollups * used[n][d]
    BY DEF BilledOnDayOfUse
  <2>1. /\ daily[n][d] \in Nat /\ used[n][d] \in Nat /\ rollups \in Nat
        /\ Cardinality(Pending(n, d)) \in Nat
    BY PendingFinite, Sizes DEF IType, TypeOK
  <2>2. /\ Cardinality(Pending(n, d)) <= rollups
        /\ daily[n][d] <= (rollups - Cardinality(Pending(n, d))) * used[n][d]
    BY DEF BillingInv, BookedInv
  <2>3. PICK k \in Nat : k = rollups - Cardinality(Pending(n, d))
    BY <2>1, <2>2
  <2>4. used[n][d] * k <= used[n][d] * rollups
    BY <2>1, <2>3, MoreUsed
  <2>5. k * used[n][d] \in Nat /\ rollups * used[n][d] \in Nat
        /\ k * used[n][d] = used[n][d] * k
        /\ rollups * used[n][d] = used[n][d] * rollups
    BY <2>1
  <2> QED  BY <2>1, <2>2, <2>3, <2>4, <2>5
<1> QED  BY <1>1, BillingInvariant, PTL
=============================================================================
