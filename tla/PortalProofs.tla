---------------------------- MODULE PortalProofs ----------------------------
(***************************************************************************)
(* Proofs about the portal as a whole, and about its parts outside the     *)
(* web pages: tenants, invoices, schedules and processes, for any tenants, *)
(* users, keys, models, periods and schedulers, any page and batch sizes,  *)
(* any work in progress and any number of calls and failures.              *)
(*                                                                         *)
(* Tenancy.  A teardown knows at each of its steps what it has left        *)
(* behind. While it lists, every object up to its token is listed or late  *)
(* (ListedSoFar), because a page of ListObjectsV2 skips no key             *)
(* (PageWhole). While it removes, every object is still to be removed,     *)
(* late or refused (RemovalCovers).  Afterwards only late and refused      *)
(* objects are left (ObjectsSwept), and in the end only late documents     *)
(* (DocumentsSwept). Other calls do not disturb this: whatever they write  *)
(* to a tenant is late once a teardown of it has begun.                    *)
(*                                                                         *)
(* Invoicing.  What a bill has read, with what was added to its days       *)
(* since, is what those days cost (Accounted).  The costs of days are sums *)
(* over finite sets; that a sum does not depend on the order it is taken   *)
(* in is shown by induction over the subsets of the set (LeastSubset).     *)
(*                                                                         *)
(* Schedules.  FiringsExplained is not inductive.  That a scheduler has    *)
(* one entry for an owner and a type follows from the table at the time it *)
(* was read (OneOfAType); that the schedule of an archived task is         *)
(* deleted, and not one that never was, from the ids of entries and tasks, *)
(* which all had a row (IdsUsed).                                          *)
(*                                                                         *)
(* Lifecycle.  The lists of releases a process makes, at any step of New   *)
(* that fails and on shutdown, name what is open, each once, every         *)
(* activity before what it uses (Orderly).  Hence a process has open what  *)
(* it is still to release (ReleaseInv), and no activity outlives what it   *)
(* uses unless the shutdown stopped waiting for it (UsersInv).             *)
(*                                                                         *)
(* The portal.  Seen from one part, a step of the portal is a step of that *)
(* part or none, so every part runs in the portal as it runs alone         *)
(* (PartsRunAlone) and what is proved of the parts, here, in WebProofs and *)
(* in AlgorithmProofs, holds of the portal.                                *)
(***************************************************************************)
EXTENDS MCPortal, WebProofs, AlgorithmProofs, FiniteSetTheorems, WellFoundedInduction, TLAPS

(***************************************************************************)
(* Tenants and their teardown.                                             *)
(***************************************************************************)

\* Before it lists, a teardown has no page yet.
NothingListed(c) ==
  At(c, "delete", "admin") \/ At(c, "delete", "exists") => tenantCalls[c].token = 0

ListedSoFar(c) ==
  At(c, "delete", "list") =>
    LET call == tenantCalls[c] IN
    /\ call.token # 0 => call.tenant \in begun
    /\ \A k \in objects[call.tenant] : k <= call.token =>
         k \in call.listed \cup lateObjects[call.tenant]

RemovalCovers(c) ==
  At(c, "delete", "remove") =>
    LET call == tenantCalls[c] IN
    /\ call.tenant \in begun
    /\ objects[call.tenant]
         \subseteq call.listed \cup lateObjects[call.tenant] \cup refusedKeys[call.tenant]

ObjectsOf(t) ==
  /\ t \in begun
  /\ objects[t] \subseteq lateObjects[t] \cup refusedKeys[t]

DocumentsOf(t) ==
  /\ t \in cleared
  /\ documents[t] \subseteq lateDocuments[t]

ObjectsSwept(c) ==
  At(c, "delete", "clear") \/ At(c, "delete", "mark") => ObjectsOf(tenantCalls[c].tenant)

DocumentsSwept(c) ==
  At(c, "delete", "mark") => DocumentsOf(tenantCalls[c].tenant)

SweptCall(c) ==
  /\ NothingListed(c) /\ ListedSoFar(c) /\ RemovalCovers(c)
  /\ ObjectsSwept(c) /\ DocumentsSwept(c)

DeletedSwept ==
  \A t \in Tenants : tenants[t] = "deleted" => ObjectsOf(t) /\ DocumentsOf(t)

SweepInv == (\A c \in TenancyClients : SweptCall(c)) /\ DeletedSwept

(***************************************************************************)
(* Pages of keys.                                                          *)
(***************************************************************************)

\* A set of keys that is not empty has a last one: it is the least number no
\* key of the set exceeds.
LEMMA LastKey ==
  ASSUME NEW S \in SUBSET Keys, S # {}
  PROVE  \E k \in S : \A j \in S : j <= k
PROOF
<1> DEFINE bounds == {n \in Nat : \A j \in S : j <= n}
<1>1. S \subseteq Nat /\ MaxKey \in bounds
  BY KeysAssumption DEF Keys
<1>2. PICK m \in bounds : \A n \in bounds : ~ (<<n, m>> \in OpToRel(<, Nat))
  <2> bounds \subseteq Nat  OBVIOUS
  <2> bounds # {}  BY <1>1
  <2> HIDE DEF bounds
  <2> QED  BY NatLessThanWellFounded, WFMin
<1>3. \A n \in bounds : ~ (n < m)
  BY <1>2 DEF OpToRel
<1>4. m \in S
  <2> SUFFICES ASSUME m \notin S PROVE FALSE
    OBVIOUS
  <2>1. PICK j \in S : TRUE
    OBVIOUS
  <2>2. \A i \in S : i < m
    <3>1. m \in Nat /\ \A i \in S : i <= m
      BY <1>2
    <3>2. \A i \in S : i \in Nat /\ i # m
      BY <1>1
    <3> QED  BY <3>1, <3>2
  <2>3. m - 1 \in Nat /\ \A i \in S : i <= m - 1
    BY <1>1, <2>1, <2>2
  <2> QED  BY <1>3, <2>3
<1> QED  BY <1>4

\* The keys of a page follow the token, and no object between them is skipped.
LEMMA PageWhole ==
  ASSUME TenancyTypeOK, NEW t \in Tenants, NEW token \in Nat,
         NEW k \in PageAfter(t, token),
         NEW j \in objects[t], token < j, j <= k
  PROVE  j \in PageAfter(t, token)
PROOF
<1> USE PagingAssumption
<1> DEFINE upTo(i) == {l \in objects[t] : token < l /\ l <= i}
<1>1. objects[t] \subseteq Keys /\ Keys \subseteq Nat /\ k \in objects[t]
  BY KeysAssumption DEF TenancyTypeOK, PageAfter, Keys
<1>2. upTo(j) \subseteq upTo(k)
  <2>1. j \in Nat /\ k \in Nat /\ \A l \in objects[t] : l \in Nat
    BY <1>1
  <2>2. \A l \in objects[t] : l <= j => l <= k
    BY <2>1
  <2> QED  BY <2>2
<1>3. IsFiniteSet(upTo(k))
  <2>1. IsFiniteSet(Keys)
    BY KeysAssumption, FS_Interval DEF Keys
  <2>2. upTo(k) \subseteq Keys
    BY <1>1
  <2> QED  BY <2>1, <2>2, FS_Subset
<1>4. /\ Cardinality(upTo(j)) \in Nat /\ Cardinality(upTo(k)) \in Nat
      /\ Cardinality(upTo(j)) <= Cardinality(upTo(k))
  BY <1>2, <1>3, FS_Subset, FS_CardinalityType
<1>5. Cardinality(upTo(k)) <= PageSize
  BY DEF PageAfter
<1>6. Cardinality(upTo(j)) <= PageSize
  BY <1>4, <1>5
<1> QED  BY <1>6 DEF PageAfter

(***************************************************************************)
(* Types.                                                                  *)
(***************************************************************************)

LEMMA CallTyped ==
  ASSUME TenancyTypeOK, NEW c \in TenancyClients, tenantCalls[c] # NoCall
  PROVE  /\ tenantCalls[c] \in Calls
         /\ tenantCalls[c].tenant \in Tenants /\ tenantCalls[c].user \in Users
         /\ tenantCalls[c].key \in Keys /\ tenantCalls[c].listed \subseteq Keys
         /\ tenantCalls[c].token \in Nat /\ tenantCalls[c].role \in Roles
BY DEF TenancyTypeOK, Calls

LEMMA GoOnTyped ==
  ASSUME TenancyTypeOK, NEW c \in TenancyClients, tenantCalls[c] # NoCall,
         NEW step \in TenantSteps, GoOn(c, step)
  PROVE  /\ tenantCalls' \in [TenancyClients -> Calls \cup {NoCall}]
         /\ tenantCalls'[c] = [tenantCalls[c] EXCEPT !.step = step]
         /\ tenantCalls'[c] \in Calls
         /\ \A d \in TenancyClients : d # c => tenantCalls'[d] = tenantCalls[d]
PROOF
<1>1. tenantCalls' = [tenantCalls EXCEPT ![c] = [tenantCalls[c] EXCEPT !.step = step]]
  BY DEF GoOn
<1>2. [tenantCalls[c] EXCEPT !.step = step] \in Calls
  BY CallTyped DEF Calls
<1> QED  BY <1>1, <1>2 DEF TenancyTypeOK

LEMMA EndCallTyped ==
  ASSUME TenancyTypeOK, NEW c \in TenancyClients, EndCall(c)
  PROVE  /\ tenantCalls' \in [TenancyClients -> Calls \cup {NoCall}]
         /\ tenantCalls'[c] = NoCall
         /\ \A d \in TenancyClients : d # c => tenantCalls'[d] = tenantCalls[d]
BY DEF EndCall, TenancyTypeOK

LEMMA BatchTyped ==
  ASSUME NEW keys \in SUBSET Keys, NEW refused \in SUBSET NextBatch(keys)
  PROVE  refused \subseteq Keys /\ Cardinality(refused) \in Nat
PROOF
<1>1. refused \subseteq Keys
  BY DEF NextBatch
<1>2. IsFiniteSet(Keys)
  BY KeysAssumption, FS_Interval DEF Keys
<1> QED  BY <1>1, <1>2, FS_Subset, FS_CardinalityType

LEMMA TypesInit == TenancyInit => TenancyTypeOK
BY DEF TenancyInit, TenancyTypeOK

LEMMA TypesStep ==
  ASSUME TenancyTypeOK, [TenancyNext]_tenancyVars
  PROVE  TenancyTypeOK'
PROOF
<1>1. CASE UNCHANGED tenancyVars
  BY <1>1 DEF TenancyTypeOK, tenancyVars, tenantVars, dataVars, sweepVars
<1>2. CASE TenancyNext
  <2>1. PICK c \in TenancyClients :
          \/ StartCall(c) \/ CallFails(c)
          \/ CreateTenant(c) \/ CreateOwner(c)
          \/ CheckTenant(c) \/ LookupMembership(c) \/ AddMember(c)
          \/ CheckMember(c) \/ PutObject(c) \/ GetObject(c) \/ StoreDocument(c)
          \/ DeleteStep(c)
    BY <1>2 DEF TenancyNext
  <2> USE DEF tenantVars, dataVars, sweepVars
  <2>2. CASE StartCall(c)
    <3>1. PICK u \in Users, t \in Tenants, k \in Keys, role \in Roles,
               op \in {"create", "add", "delete", "upload", "ingest"},
               step \in TenantSteps :
            BeginCall(c, Request(op, step, u, t, role, k))
      BY <2>2 DEF StartCall, TenantSteps, Roles
    <3>2. Request(op, step, u, t, role, k) \in Calls
      BY DEF Request, Calls
    <3> QED  BY <3>1, <3>2 DEF BeginCall, TenancyTypeOK
  <2>3. CASE CallFails(c)
    <3>1. /\ tenantCalls[c].tenant \in Tenants
          /\ tenantCalls' \in [TenancyClients -> Calls \cup {NoCall}]
      BY <2>3, CallTyped, EndCallTyped DEF CallFails
    <3>2. halfMade' \subseteq Tenants /\ tenancyFaults' \in Nat
      BY <2>3, <3>1 DEF CallFails, TenancyTypeOK
    <3> QED  BY <2>3, <3>1, <3>2 DEF CallFails, TenancyTypeOK
  <2>4. CASE CreateTenant(c)
    <3>1. tenantCalls' \in [TenancyClients -> Calls \cup {NoCall}]
      BY <2>4, GoOnTyped DEF CreateTenant, At, TenantSteps
    <3>2. tenants' \in [Tenants -> {"none", "active", "deleted"}]
      BY <2>4 DEF CreateTenant, InsertTenant, TenancyTypeOK
    <3> QED  BY <2>4, <3>1, <3>2 DEF CreateTenant, TenancyTypeOK
  <2>5. CASE CreateOwner(c)
    <3>1. /\ tenantCalls' \in [TenancyClients -> Calls \cup {NoCall}]
          /\ tenantCalls[c].tenant \in Tenants /\ tenantCalls[c].user \in Users
      BY <2>5, EndCallTyped, CallTyped DEF CreateOwner, At
    <3>2. members' \in [Tenants -> [Users -> Roles \cup {"none"}]]
      BY <2>5, <3>1 DEF CreateOwner, InsertMembership, TenancyTypeOK, Roles
    <3>3. halfMade' \subseteq Tenants
      BY <2>5, <3>1 DEF CreateOwner, TenancyTypeOK
    <3> QED  BY <2>5, <3>1, <3>2, <3>3 DEF CreateOwner, TenancyTypeOK
  <2>6. CASE CheckTenant(c)
    <3>1. tenantCalls' \in [TenancyClients -> Calls \cup {NoCall}]
      BY <2>6, GoOnTyped, EndCallTyped DEF CheckTenant, At, TenantSteps
    <3> QED  BY <2>6, <3>1 DEF CheckTenant, TenancyTypeOK
  <2>7. CASE LookupMembership(c)
    <3>1. tenantCalls' \in [TenancyClients -> Calls \cup {NoCall}]
      BY <2>7, GoOnTyped, EndCallTyped DEF LookupMembership, At, TenantSteps
    <3>2. tenancyFaults' \in Nat
      BY <2>7 DEF LookupMembership, TenancyTypeOK
    <3> QED  BY <2>7, <3>1, <3>2 DEF LookupMembership, TenancyTypeOK
  <2>8. CASE AddMember(c)
    <3>1. /\ tenantCalls' \in [TenancyClients -> Calls \cup {NoCall}]
          /\ tenantCalls[c].tenant \in Tenants /\ tenantCalls[c].user \in Users
          /\ tenantCalls[c].role \in Roles
      BY <2>8, EndCallTyped, CallTyped DEF AddMember, At
    <3>2. members' \in [Tenants -> [Users -> Roles \cup {"none"}]]
      BY <2>8, <3>1 DEF AddMember, InsertMembership, TenancyTypeOK
    <3> QED  BY <2>8, <3>1, <3>2 DEF AddMember, TenancyTypeOK
  <2>9. CASE CheckMember(c)
    <3>1. tenantCalls' \in [TenancyClients -> Calls \cup {NoCall}]
      BY <2>9, GoOnTyped, EndCallTyped DEF CheckMember, At, TenantSteps
    <3> QED  BY <2>9, <3>1 DEF CheckMember, TenancyTypeOK
  <2>10. CASE PutObject(c)
    <3>1. /\ tenantCalls' \in [TenancyClients -> Calls \cup {NoCall}]
          /\ tenantCalls[c].tenant \in Tenants /\ tenantCalls[c].key \in Keys
      BY <2>10, EndCallTyped, CallTyped DEF PutObject, At
    <3>2. objects' \in [Tenants -> SUBSET Keys] /\ lateObjects' \in [Tenants -> SUBSET Keys]
      BY <2>10, <3>1 DEF PutObject, TenancyTypeOK
    <3> QED  BY <2>10, <3>1, <3>2 DEF PutObject, TenancyTypeOK
  <2>11. CASE GetObject(c)
    <3>1. tenantCalls' \in [TenancyClients -> Calls \cup {NoCall}]
      BY <2>11, GoOnTyped, EndCallTyped DEF GetObject, At, TenantSteps
    <3> QED  BY <2>11, <3>1 DEF GetObject, TenancyTypeOK
  <2>12. CASE StoreDocument(c)
    <3>1. /\ tenantCalls' \in [TenancyClients -> Calls \cup {NoCall}]
          /\ tenantCalls[c].tenant \in Tenants /\ tenantCalls[c].key \in Keys
      BY <2>12, EndCallTyped, CallTyped DEF StoreDocument, At
    <3>2. documents' \in [Tenants -> SUBSET Keys] /\ lateDocuments' \in [Tenants -> SUBSET Keys]
      BY <2>12, <3>1 DEF StoreDocument, TenancyTypeOK
    <3> QED  BY <2>12, <3>1, <3>2 DEF StoreDocument, TenancyTypeOK
  <2>13. CASE CheckAdmin(c) \/ CheckDeleted(c)
    <3>1. tenantCalls' \in [TenancyClients -> Calls \cup {NoCall}]
      BY <2>13, GoOnTyped, EndCallTyped DEF CheckAdmin, CheckDeleted, At, TenantSteps
    <3> QED  BY <2>13, <3>1 DEF CheckAdmin, CheckDeleted, TenancyTypeOK
  <2>14. CASE ListObjects(c)
    <3> DEFINE call == tenantCalls[c]
               batch == PageAfter(call.tenant, call.token)
               last == CHOOSE k \in batch : \A j \in batch : j <= k
    <3>1. call \in Calls /\ call.tenant \in Tenants /\ call.token \in Nat /\ call.listed \subseteq Keys
      BY <2>14, CallTyped DEF ListObjects, At
    <3>2. batch \subseteq Keys
      BY <3>1 DEF PageAfter, TenancyTypeOK
    <3>3. batch # {} => last \in Keys
      BY <3>2, LastKey
    <3>4. \A k \in Keys : k \in Nat
      BY KeysAssumption DEF Keys
    <3>5. \A token \in Nat, seen \in SUBSET Keys, step \in TenantSteps :
            [call EXCEPT !.listed = seen, !.token = token, !.step = step] \in Calls
      BY <3>1 DEF Calls
    <3>6. tenantCalls'[c] \in Calls
      <4> DEFINE more == {k \in objects[call.tenant] : k > call.token} # batch
                 next == [call EXCEPT !.listed = @ \cup batch,
                                      !.token = IF batch = {} THEN @ ELSE last,
                                      !.step = IF more THEN "list" ELSE "remove"]
      <4>1. tenantCalls' = [tenantCalls EXCEPT ![c] = next]
        BY <2>14 DEF ListObjects
      <4>2. /\ call.listed \cup batch \in SUBSET Keys
            /\ (IF batch = {} THEN call.token ELSE last) \in Nat
            /\ (IF more THEN "list" ELSE "remove") \in TenantSteps
        BY <3>1, <3>2, <3>3, <3>4 DEF TenantSteps
      <4>3. next \in Calls
        BY <3>5, <4>2
      <4> QED  BY <4>1, <4>3 DEF TenancyTypeOK
    <3>7. tenantCalls' \in [TenancyClients -> Calls \cup {NoCall}]
      BY <2>14, <3>6 DEF ListObjects, TenancyTypeOK
    <3>8. begun' \subseteq Tenants
      BY <2>14, <3>1 DEF ListObjects, TenancyTypeOK
    <3> QED  BY <2>14, <3>7, <3>8 DEF ListObjects, TenancyTypeOK
  <2>15. CASE RemoveBatch(c)
    <3> DEFINE call == tenantCalls[c]
    <3>1. call \in Calls /\ call.tenant \in Tenants /\ call.listed \subseteq Keys
      BY <2>15, CallTyped DEF RemoveBatch, At
    <3>2. PICK refused \in SUBSET NextBatch(call.listed) :
            /\ tenancyFaults' = tenancyFaults + Cardinality(refused)
            /\ objects' = [objects EXCEPT
                             ![call.tenant] = @ \ (NextBatch(call.listed) \ refused)]
            /\ refusedKeys' = [refusedKeys EXCEPT ![call.tenant] = @ \cup refused]
      BY <2>15 DEF RemoveBatch
    <3>3. refused \subseteq Keys /\ Cardinality(refused) \in Nat
      BY <3>1, BatchTyped
    <3>4. /\ objects' \in [Tenants -> SUBSET Keys] /\ refusedKeys' \in [Tenants -> SUBSET Keys]
          /\ tenancyFaults' \in Nat
      BY <3>1, <3>2, <3>3 DEF TenancyTypeOK
    <3>5. tenantCalls' \in [TenancyClients -> Calls \cup {NoCall}]
      <4>1. [call EXCEPT !.listed = call.listed \ NextBatch(call.listed)] \in Calls
        BY <3>1 DEF Calls
      <4> QED  BY <2>15, <4>1 DEF RemoveBatch, TenancyTypeOK
    <3> QED  BY <2>15, <3>4, <3>5 DEF RemoveBatch, TenancyTypeOK
  <2>16. CASE ObjectsRemoved(c)
    <3>1. tenantCalls' \in [TenancyClients -> Calls \cup {NoCall}]
      BY <2>16, GoOnTyped DEF ObjectsRemoved, At, TenantSteps
    <3> QED  BY <2>16, <3>1 DEF ObjectsRemoved, TenancyTypeOK
  <2>17. CASE ClearKnowledge(c)
    <3>1. /\ tenantCalls' \in [TenancyClients -> Calls \cup {NoCall}]
          /\ tenantCalls[c].tenant \in Tenants
      BY <2>17, GoOnTyped, CallTyped DEF ClearKnowledge, At, TenantSteps
    <3>2. documents' \in [Tenants -> SUBSET Keys] /\ cleared' \subseteq Tenants
      BY <2>17, <3>1 DEF ClearKnowledge, TenancyTypeOK
    <3> QED  BY <2>17, <3>1, <3>2 DEF ClearKnowledge, TenancyTypeOK
  <2>18. CASE MarkTenant(c)
    <3>1. /\ tenantCalls' \in [TenancyClients -> Calls \cup {NoCall}]
          /\ tenantCalls[c].tenant \in Tenants
      BY <2>18, EndCallTyped, CallTyped DEF MarkTenant, At
    <3>2. tenants' \in [Tenants -> {"none", "active", "deleted"}]
      BY <2>18, <3>1 DEF MarkTenant, MarkDeleted, TenancyTypeOK
    <3> QED  BY <2>18, <3>1, <3>2 DEF MarkTenant, TenancyTypeOK
  <2> QED
    BY <2>1, <2>2, <2>3, <2>4, <2>5, <2>6, <2>7, <2>8, <2>9, <2>10, <2>11, <2>12,
       <2>13, <2>14, <2>15, <2>16, <2>17, <2>18 DEF DeleteStep
<1> QED  BY <1>1, <1>2

(***************************************************************************)
(* The sweep.                                                              *)
(***************************************************************************)

\* What a step may do to the tenants' data while a teardown is under way: what
\* it adds to a tenant that was begun, or cleared, is late.
Grows ==
  /\ begun \subseteq begun' /\ cleared \subseteq cleared'
  /\ \A t \in Tenants :
       /\ lateObjects[t] \subseteq lateObjects'[t]
       /\ lateDocuments[t] \subseteq lateDocuments'[t]
       /\ refusedKeys[t] \subseteq refusedKeys'[t]
       /\ t \in begun => objects'[t] \subseteq objects[t] \cup lateObjects'[t]
       /\ t \in cleared => documents'[t] \subseteq documents[t] \cup lateDocuments'[t]

\* What was swept stays so through such a step.
LEMMA SweptStays ==
  ASSUME Grows, NEW t \in Tenants
  PROVE  (ObjectsOf(t) => ObjectsOf(t)') /\ (DocumentsOf(t) => DocumentsOf(t)')
BY DEF Grows, ObjectsOf, DocumentsOf

\* A call that takes no step is not disturbed by one that takes such a step.
LEMMA CallUndisturbed ==
  ASSUME TenancyTypeOK, TenancyTypeOK', Grows, NEW d \in TenancyClients,
         SweptCall(d), tenantCalls'[d] = tenantCalls[d]
  PROVE  SweptCall(d)'
PROOF
<1> DEFINE call == tenantCalls[d]
<1>1. \A op, step : At(d, op, step)' <=> At(d, op, step)
  BY DEF At
<1>2. \A op, step : At(d, op, step) => call.tenant \in Tenants /\ call.token \in Nat
  BY CallTyped DEF At
<1>3. NothingListed(d)'
  BY <1>1 DEF SweptCall, NothingListed
<1>4. ListedSoFar(d)'
  <2> SUFFICES ASSUME At(d, "delete", "list")
               PROVE  /\ call.token # 0 => call.tenant \in begun'
                      /\ \A k \in objects'[call.tenant] : k <= call.token =>
                           k \in call.listed \cup lateObjects'[call.tenant]
    BY <1>1 DEF ListedSoFar
  <2>1. /\ call.token # 0 => call.tenant \in begun
        /\ \A k \in objects[call.tenant] : k <= call.token =>
             k \in call.listed \cup lateObjects[call.tenant]
    BY DEF SweptCall, ListedSoFar
  <2>2. call.tenant \in Tenants /\ call.token \in Nat
    BY <1>2
  <2>3. \A k \in objects'[call.tenant] : k \in Nat /\ k # 0
    BY <2>2, KeysAssumption DEF TenancyTypeOK, Keys
  <2>4. CASE call.token = 0
    BY <2>1, <2>3, <2>4
  <2>5. CASE call.token # 0
    BY <2>1, <2>2, <2>5 DEF Grows
  <2> QED  BY <2>4, <2>5
<1>5. RemovalCovers(d)'
  <2> SUFFICES ASSUME At(d, "delete", "remove")
               PROVE  /\ call.tenant \in begun'
                      /\ objects'[call.tenant]
                           \subseteq call.listed \cup lateObjects'[call.tenant]
                                       \cup refusedKeys'[call.tenant]
    BY <1>1 DEF RemovalCovers
  <2>1. /\ call.tenant \in begun
        /\ objects[call.tenant]
             \subseteq call.listed \cup lateObjects[call.tenant] \cup refusedKeys[call.tenant]
    BY DEF SweptCall, RemovalCovers
  <2> QED  BY <1>2, <2>1 DEF Grows
<1>6. ObjectsSwept(d)' /\ DocumentsSwept(d)'
  <2>1. At(d, "delete", "clear") \/ At(d, "delete", "mark") => ObjectsOf(call.tenant)'
    BY <1>2, SweptStays DEF SweptCall, ObjectsSwept
  <2>2. At(d, "delete", "mark") => DocumentsOf(call.tenant)'
    BY <1>2, SweptStays DEF SweptCall, DocumentsSwept
  <2> QED  BY <1>1, <2>1, <2>2 DEF ObjectsSwept, DocumentsSwept, ObjectsOf, DocumentsOf
<1> QED  BY <1>3, <1>4, <1>5, <1>6 DEF SweptCall

\* A tenant that is not marked now was swept when it was.
LEMMA DeletedUndisturbed ==
  ASSUME Grows, DeletedSwept,
         \A t \in Tenants : tenants'[t] = "deleted" =>
            tenants[t] = "deleted" \/ (ObjectsOf(t) /\ DocumentsOf(t))
  PROVE  DeletedSwept'
PROOF
<1>1. \A t \in Tenants : tenants'[t] = "deleted" => ObjectsOf(t) /\ DocumentsOf(t)
  BY DEF DeletedSwept
<1>2. \A t \in Tenants : tenants'[t] = "deleted" => ObjectsOf(t)' /\ DocumentsOf(t)'
  BY <1>1, SweptStays
<1> QED  BY <1>2 DEF DeletedSwept

\* The step of client c keeps the invariant if it grows the data, marks only
\* tenants that were swept, moves no other call, and leaves its own call swept.
LEMMA SweepByCall ==
  ASSUME TenancyTypeOK, TenancyTypeOK', SweepInv, Grows, NEW c \in TenancyClients,
         \A d \in TenancyClients : d # c => tenantCalls'[d] = tenantCalls[d],
         SweptCall(c)',
         \A t \in Tenants : tenants'[t] = "deleted" =>
            tenants[t] = "deleted" \/ (ObjectsOf(t) /\ DocumentsOf(t))
  PROVE  SweepInv'
PROOF
<1>1. \A d \in TenancyClients : SweptCall(d)'
  <2> TAKE d \in TenancyClients
  <2>1. CASE d = c
    BY <2>1
  <2>2. CASE d # c
    BY <2>2, CallUndisturbed DEF SweepInv
  <2> QED  BY <2>1, <2>2
<1>2. DeletedSwept'
  BY DeletedUndisturbed DEF SweepInv
<1> QED  BY <1>1, <1>2 DEF SweepInv

\* A call outside a teardown, or none, owes nothing.
LEMMA NotInTeardown ==
  ASSUME NEW c \in TenancyClients,
         \A step \in {"admin", "exists", "list", "remove", "clear", "mark"} :
            ~ At(c, "delete", step)'
  PROVE  SweptCall(c)'
BY DEF SweptCall, NothingListed, ListedSoFar, RemovalCovers, ObjectsSwept, DocumentsSwept

LEMMA SweepInit == TenancyInit => SweepInv
PROOF
<1> SUFFICES ASSUME TenancyInit PROVE SweepInv
  OBVIOUS
<1>1. \A c \in TenancyClients : \A op, step : ~ At(c, op, step)
  BY DEF TenancyInit, At
<1>2. \A c \in TenancyClients : SweptCall(c)
  BY <1>1 DEF SweptCall, NothingListed, ListedSoFar, RemovalCovers, ObjectsSwept, DocumentsSwept
<1>3. DeletedSwept
  BY DEF TenancyInit, DeletedSwept
<1> QED  BY <1>2, <1>3 DEF SweepInv

\* A step that leaves the tenants' data and their status alone.
LEMMA QuietGrows ==
  ASSUME UNCHANGED <<tenants, dataVars, sweepVars>>
  PROVE  /\ Grows
         /\ \A t \in Tenants : tenants'[t] = "deleted" => tenants[t] = "deleted"
BY DEF Grows, dataVars, sweepVars

\* A page of the listing: what is listed or late now covers one page more, or
\* everything.
LEMMA SweepList ==
  ASSUME TenancyTypeOK, TenancyTypeOK', SweepInv, NEW c \in TenancyClients, ListObjects(c)
  PROVE  SweptCall(c)'
PROOF
<1> DEFINE call == tenantCalls[c]
           t == call.tenant
           batch == PageAfter(t, call.token)
           last == CHOOSE k \in batch : \A j \in batch : j <= k
           more == {k \in objects[t] : k > call.token} # batch
           next == tenantCalls'[c]
<1>1. t \in Tenants /\ call \in Calls /\ call.token \in Nat /\ call.op = "delete"
  BY CallTyped DEF ListObjects, At
<1>2. /\ next.op = "delete" /\ next.tenant = t
      /\ next.listed = call.listed \cup batch
      /\ next.token = IF batch = {} THEN call.token ELSE last
      /\ next.step = IF more THEN "list" ELSE "remove"
  <2>1. next = [call EXCEPT !.listed = @ \cup batch,
                            !.token = IF batch = {} THEN @ ELSE last,
                            !.step = IF more THEN "list" ELSE "remove"]
    BY DEF ListObjects, TenancyTypeOK
  <2> QED  BY <1>1, <2>1 DEF Calls
<1>3. /\ begun' = begun \cup {t} /\ objects' = objects /\ lateObjects' = lateObjects
      /\ refusedKeys' = refusedKeys
  BY DEF ListObjects, dataVars
<1>4. \A k \in objects[t] : k <= call.token => k \in call.listed \cup lateObjects[t]
  BY DEF SweepInv, SweptCall, ListedSoFar, ListObjects
<1>5. \A k \in objects[t] : k \in Nat
  BY <1>1, KeysAssumption DEF TenancyTypeOK, Keys
<1>6. batch # {} => last \in batch /\ \A j \in batch : j <= last
  <2>1. batch \subseteq Keys
    BY <1>1 DEF PageAfter, TenancyTypeOK
  <2> QED  BY <2>1, LastKey
<1>7. ASSUME more
      PROVE  \A k \in objects[t] : k <= next.token => k \in next.listed \cup lateObjects[t]
  <2> SUFFICES ASSUME NEW k \in objects[t], k <= next.token
               PROVE  k \in next.listed \cup lateObjects[t]
    OBVIOUS
  <2>1. CASE k <= call.token
    BY <1>2, <1>4, <2>1
  <2>2. CASE ~ (k <= call.token)
    <3>1. batch # {} /\ next.token = last
      BY <1>2, <2>2
    <3>2. last \in batch /\ call.token < k /\ k <= last
      BY <1>1, <1>5, <1>6, <2>2, <3>1
    <3>3. k \in batch
      BY <1>1, <3>2, PageWhole
    <3> QED  BY <1>2, <3>3
  <2> QED  BY <2>1, <2>2
<1>8. ASSUME ~ more
      PROVE  objects[t] \subseteq next.listed \cup lateObjects[t]
  <2> SUFFICES ASSUME NEW k \in objects[t]
               PROVE  k \in next.listed \cup lateObjects[t]
    OBVIOUS
  <2>1. CASE k <= call.token
    BY <1>2, <1>4, <2>1
  <2>2. CASE k > call.token
    BY <1>2, <1>8, <2>2
  <2> QED  BY <1>1, <1>5, <2>1, <2>2
<1>9. CASE more
  <2>1. \A step : At(c, "delete", step)' => step = "list"
    BY <1>2, <1>9 DEF At
  <2>2. ListedSoFar(c)'
    BY <1>2, <1>3, <1>7, <1>9 DEF ListedSoFar
  <2> QED  BY <2>1, <2>2 DEF SweptCall, NothingListed, RemovalCovers, ObjectsSwept, DocumentsSwept
<1>10. CASE ~ more
  <2>1. \A step : At(c, "delete", step)' => step = "remove"
    BY <1>2, <1>10 DEF At
  <2>2. RemovalCovers(c)'
    BY <1>2, <1>3, <1>8, <1>10 DEF RemovalCovers
  <2> QED  BY <2>1, <2>2 DEF SweptCall, NothingListed, ListedSoFar, ObjectsSwept, DocumentsSwept
<1> QED  BY <1>9, <1>10

\* A batch: what it names is gone, or refused.
LEMMA SweepRemove ==
  ASSUME TenancyTypeOK, TenancyTypeOK', SweepInv, NEW c \in TenancyClients, RemoveBatch(c)
  PROVE  Grows /\ SweptCall(c)'
PROOF
<1> DEFINE call == tenantCalls[c]
           t == call.tenant
           batch == NextBatch(call.listed)
           next == tenantCalls'[c]
<1>1. t \in Tenants /\ call \in Calls /\ call.op = "delete" /\ call.step = "remove"
  BY CallTyped DEF RemoveBatch, At
<1>2. PICK refused \in SUBSET batch :
        /\ objects' = [objects EXCEPT ![t] = @ \ (batch \ refused)]
        /\ refusedKeys' = [refusedKeys EXCEPT ![t] = @ \cup refused]
  BY DEF RemoveBatch
<1>3. /\ documents' = documents /\ begun' = begun /\ cleared' = cleared
      /\ lateObjects' = lateObjects /\ lateDocuments' = lateDocuments
  BY DEF RemoveBatch
<1>4. /\ \A s \in Tenants : objects'[s] \subseteq objects[s] /\ refusedKeys[s] \subseteq refusedKeys'[s]
      /\ objects'[t] = objects[t] \ (batch \ refused)
      /\ refusedKeys'[t] = refusedKeys[t] \cup refused
  BY <1>1, <1>2 DEF TenancyTypeOK
<1>5. Grows
  BY <1>3, <1>4 DEF Grows
<1>6. /\ next.op = "delete" /\ next.step = "remove" /\ next.tenant = t
      /\ next.listed = call.listed \ batch
  <2>1. next = [call EXCEPT !.listed = call.listed \ batch]
    BY DEF RemoveBatch, TenancyTypeOK
  <2> QED  BY <1>1, <2>1 DEF Calls
<1>7. /\ t \in begun
      /\ objects[t] \subseteq call.listed \cup lateObjects[t] \cup refusedKeys[t]
  BY DEF SweepInv, SweptCall, RemovalCovers, RemoveBatch
<1>8. RemovalCovers(c)'
  <2>1. objects'[t] \subseteq next.listed \cup lateObjects'[t] \cup refusedKeys'[t]
    BY <1>3, <1>4, <1>6, <1>7
  <2> QED  BY <1>3, <1>6, <1>7, <2>1 DEF RemovalCovers
<1>9. \A step : At(c, "delete", step)' => step = "remove"
  BY <1>6 DEF At
<1>10. SweptCall(c)'
  BY <1>8, <1>9 DEF SweptCall, NothingListed, ListedSoFar, ObjectsSwept, DocumentsSwept
<1> QED  BY <1>5, <1>10

LEMMA SweepStep ==
  ASSUME TenancyTypeOK, TenancyTypeOK', SweepInv, [TenancyNext]_tenancyVars
  PROVE  SweepInv'
PROOF
<1>1. CASE UNCHANGED tenancyVars
  <2>1. Grows
    BY <1>1, QuietGrows DEF tenancyVars, tenantVars
  <2>2. tenants' = tenants /\ tenantCalls' = tenantCalls
    BY <1>1 DEF tenancyVars, tenantVars
  <2>3. \A d \in TenancyClients : SweptCall(d)'
    BY <2>1, <2>2, CallUndisturbed DEF SweepInv
  <2>4. DeletedSwept'
    BY <2>1, <2>2, DeletedUndisturbed DEF SweepInv
  <2> QED  BY <2>3, <2>4 DEF SweepInv
<1>2. ASSUME NEW c \in TenancyClients,
             \/ StartCall(c) \/ CallFails(c)
             \/ CheckTenant(c) \/ LookupMembership(c)
             \/ CheckMember(c) \/ GetObject(c)
             \/ CreateOwner(c) \/ AddMember(c)
      PROVE  SweepInv'
  <2> USE <1>2
  <2>1. UNCHANGED <<tenants, dataVars, sweepVars>>
    BY DEF StartCall, BeginCall, CallFails, CheckTenant, LookupMembership, CheckMember,
           GetObject, CreateOwner, AddMember, tenantVars
  <2>2. /\ \A d \in TenancyClients : d # c => tenantCalls'[d] = tenantCalls[d]
        /\ SweptCall(c)'
    <3>1. CASE StartCall(c)
      <4>1. PICK call : /\ BeginCall(c, call)
                        /\ call.token = 0
                        /\ call.op # "delete" \/ call.step = "admin"
        BY <3>1 DEF StartCall, Request
      <4>2. /\ tenantCalls'[c] = call
            /\ \A d \in TenancyClients : d # c => tenantCalls'[d] = tenantCalls[d]
        BY <4>1 DEF BeginCall, TenancyTypeOK
      <4>3. \A step : At(c, "delete", step)' => step = "admin" /\ tenantCalls'[c].token = 0
        BY <4>1, <4>2 DEF At
      <4>4. SweptCall(c)'
        BY <4>3 DEF SweptCall, NothingListed, ListedSoFar, RemovalCovers, ObjectsSwept,
                    DocumentsSwept
      <4> QED  BY <4>2, <4>4
    <3>2. CASE EndCall(c)
      <4>1. /\ \A d \in TenancyClients : d # c => tenantCalls'[d] = tenantCalls[d]
            /\ tenantCalls'[c] = NoCall
        BY <3>2, EndCallTyped
      <4>2. \A op, step : ~ At(c, op, step)'
        BY <4>1 DEF At
      <4> QED  BY <4>1, <4>2, NotInTeardown
    <3>3. CASE \E step \in TenantSteps : GoOn(c, step) /\ tenantCalls[c] # NoCall
                                         /\ tenantCalls[c].op # "delete"
      <4>1. PICK step \in TenantSteps : GoOn(c, step)
        BY <3>3
      <4>2. /\ \A d \in TenancyClients : d # c => tenantCalls'[d] = tenantCalls[d]
            /\ tenantCalls'[c] = [tenantCalls[c] EXCEPT !.step = step]
            /\ tenantCalls[c] \in Calls
        BY <3>3, <4>1, GoOnTyped, CallTyped
      <4>3. tenantCalls'[c].op # "delete"
        BY <3>3, <4>2 DEF Calls
      <4>4. \A s : ~ At(c, "delete", s)'
        BY <4>3 DEF At
      <4> QED  BY <4>2, <4>4, NotInTeardown
    <3>4. \/ StartCall(c) \/ EndCall(c)
          \/ \E step \in TenantSteps : GoOn(c, step) /\ tenantCalls[c] # NoCall
                                       /\ tenantCalls[c].op # "delete"
      BY DEF CallFails, CheckTenant, LookupMembership, CheckMember, GetObject, CreateOwner,
             AddMember, At, TenantSteps
    <3> QED  BY <3>1, <3>2, <3>3, <3>4
  <2>3. Grows /\ \A t \in Tenants : tenants'[t] = "deleted" => tenants[t] = "deleted"
    BY <2>1, QuietGrows
  <2> QED  BY <2>2, <2>3, SweepByCall
<1>3. ASSUME NEW c \in TenancyClients, CreateTenant(c)
      PROVE  SweepInv'
  <2>1. UNCHANGED <<dataVars, sweepVars>> /\ InsertTenant(tenantCalls[c].tenant)
    BY <1>3 DEF CreateTenant
  <2>2. Grows
    BY <2>1 DEF Grows, dataVars, sweepVars
  <2>3. \A t \in Tenants : tenants'[t] = "deleted" => tenants[t] = "deleted"
    BY <2>1 DEF InsertTenant, TenancyTypeOK
  <2>4. /\ \A d \in TenancyClients : d # c => tenantCalls'[d] = tenantCalls[d]
        /\ tenantCalls'[c] = [tenantCalls[c] EXCEPT !.step = "own"]
        /\ tenantCalls[c] \in Calls /\ tenantCalls[c].op = "create"
    BY <1>3, GoOnTyped, CallTyped DEF CreateTenant, At, TenantSteps
  <2>5. tenantCalls'[c].op = "create"
    BY <2>4 DEF Calls
  <2>6. SweptCall(c)'
    BY <2>5, NotInTeardown DEF At
  <2> QED  BY <2>2, <2>3, <2>4, <2>6, SweepByCall
<1>4. ASSUME NEW c \in TenancyClients, PutObject(c) \/ StoreDocument(c)
      PROVE  SweepInv'
  <2> DEFINE t == tenantCalls[c].tenant
             k == tenantCalls[c].key
  <2>1. t \in Tenants /\ k \in Keys
    BY <1>4, CallTyped DEF PutObject, StoreDocument, At
  <2>2. Grows
    <3>1. CASE PutObject(c)
      <4>1. /\ UNCHANGED <<documents, begun, cleared, lateDocuments, refusedKeys>>
            /\ objects' = [objects EXCEPT ![t] = @ \cup {k}]
            /\ lateObjects' = IF t \in begun THEN [lateObjects EXCEPT ![t] = @ \cup {k}]
                                             ELSE lateObjects
        BY <3>1 DEF PutObject
      <4> HIDE DEF t, k
      <4>2. \A s \in Tenants :
              /\ lateObjects[s] \subseteq lateObjects'[s]
              /\ s \in begun => objects'[s] \subseteq objects[s] \cup lateObjects'[s]
        BY <2>1, <4>1 DEF TenancyTypeOK
      <4> QED  BY <4>1, <4>2 DEF Grows
    <3>2. CASE StoreDocument(c)
      <4>1. /\ UNCHANGED <<objects, begun, cleared, lateObjects, refusedKeys>>
            /\ documents' = [documents EXCEPT ![t] = @ \cup {k}]
            /\ lateDocuments' = IF t \in cleared THEN [lateDocuments EXCEPT ![t] = @ \cup {k}]
                                                 ELSE lateDocuments
        BY <3>2 DEF StoreDocument
      <4> HIDE DEF t, k
      <4>2. \A s \in Tenants :
              /\ lateDocuments[s] \subseteq lateDocuments'[s]
              /\ s \in cleared => documents'[s] \subseteq documents[s] \cup lateDocuments'[s]
        BY <2>1, <4>1 DEF TenancyTypeOK
      <4> QED  BY <4>1, <4>2 DEF Grows
    <3> QED  BY <1>4, <3>1, <3>2
  <2>3. tenants' = tenants
    BY <1>4 DEF PutObject, StoreDocument, tenantVars
  <2>4. /\ \A d \in TenancyClients : d # c => tenantCalls'[d] = tenantCalls[d]
        /\ tenantCalls'[c] = NoCall
    BY <1>4, EndCallTyped DEF PutObject, StoreDocument
  <2>5. SweptCall(c)'
    BY <2>4, NotInTeardown DEF At
  <2> QED  BY <2>2, <2>3, <2>4, <2>5, SweepByCall
<1>5. ASSUME NEW c \in TenancyClients, DeleteStep(c)
      PROVE  SweepInv'
  <2> DEFINE t == tenantCalls[c].tenant
  <2>1. CASE CheckAdmin(c)
    <3>1. UNCHANGED <<tenants, dataVars, sweepVars>>
      BY <2>1 DEF CheckAdmin, tenantVars
    <3>2. NothingListed(c) /\ At(c, "delete", "admin") /\ tenantCalls[c] \in Calls
      BY <2>1, CallTyped DEF CheckAdmin, At, SweepInv, SweptCall
    <3>3. /\ \A d \in TenancyClients : d # c => tenantCalls'[d] = tenantCalls[d]
          /\ \/ tenantCalls'[c] = NoCall
             \/ tenantCalls'[c] = [tenantCalls[c] EXCEPT !.step = "exists"]
      BY <2>1, GoOnTyped, EndCallTyped DEF CheckAdmin, At, TenantSteps
    <3>4. \A s : At(c, "delete", s)' => s = "exists" /\ tenantCalls'[c].token = 0
      BY <3>2, <3>3 DEF At, NothingListed, Calls
    <3>5. SweptCall(c)'
      BY <3>4 DEF SweptCall, NothingListed, ListedSoFar, RemovalCovers, ObjectsSwept,
                  DocumentsSwept
    <3> QED  BY <3>1, <3>3, <3>5, QuietGrows, SweepByCall
  <2>2. CASE CheckDeleted(c)
    <3>1. UNCHANGED <<tenants, dataVars, sweepVars>>
      BY <2>2 DEF CheckDeleted, tenantVars
    <3>2. NothingListed(c) /\ At(c, "delete", "exists") /\ tenantCalls[c] \in Calls
      BY <2>2, CallTyped DEF CheckDeleted, At, SweepInv, SweptCall
    <3>3. /\ \A d \in TenancyClients : d # c => tenantCalls'[d] = tenantCalls[d]
          /\ \/ tenantCalls'[c] = NoCall
             \/ tenantCalls'[c] = [tenantCalls[c] EXCEPT !.step = "list"]
      BY <2>2, GoOnTyped, EndCallTyped DEF CheckDeleted, At, TenantSteps
    <3>4. \A s : At(c, "delete", s)' =>
            s = "list" /\ tenantCalls'[c].token = 0 /\ tenantCalls'[c].tenant \in Tenants
      BY <3>2, <3>3 DEF At, NothingListed, Calls
    <3>5. At(c, "delete", "list")' => \A k \in objects'[tenantCalls'[c].tenant] : ~ (k <= 0)
      BY <3>4, KeysAssumption DEF TenancyTypeOK, Keys
    <3>6. SweptCall(c)'
      BY <3>4, <3>5 DEF SweptCall, NothingListed, ListedSoFar, RemovalCovers, ObjectsSwept,
                        DocumentsSwept
    <3> QED  BY <3>1, <3>3, <3>6, QuietGrows, SweepByCall
  <2>3. CASE ListObjects(c)
    <3>1. Grows
      BY <2>3 DEF ListObjects, Grows, dataVars
    <3>2. SweptCall(c)' /\ tenants' = tenants
      BY <2>3, SweepList DEF ListObjects, tenantVars
    <3>3. \A d \in TenancyClients : d # c => tenantCalls'[d] = tenantCalls[d]
      BY <2>3 DEF ListObjects, TenancyTypeOK
    <3> QED  BY <3>1, <3>2, <3>3, SweepByCall
  <2>4. CASE RemoveBatch(c)
    <3>1. Grows /\ SweptCall(c)' /\ tenants' = tenants
      BY <2>4, SweepRemove DEF RemoveBatch, tenantVars
    <3>2. \A d \in TenancyClients : d # c => tenantCalls'[d] = tenantCalls[d]
      BY <2>4 DEF RemoveBatch, TenancyTypeOK
    <3> QED  BY <3>1, <3>2, SweepByCall
  <2>5. CASE ObjectsRemoved(c)
    <3>1. UNCHANGED <<tenants, dataVars, sweepVars>>
      BY <2>5 DEF ObjectsRemoved, tenantVars
    <3>2. Grows
      BY <3>1, QuietGrows
    <3>3. PICK s \in Tenants : s = tenantCalls[c].tenant
      BY <2>5, CallTyped DEF ObjectsRemoved, At
    <3>4. ObjectsOf(s)
      BY <2>5, <3>3 DEF ObjectsRemoved, SweepInv, SweptCall, RemovalCovers, ObjectsOf
    <3>5. ObjectsOf(s)'
      BY <3>2, <3>4, SweptStays
    <3>6. /\ \A d \in TenancyClients : d # c => tenantCalls'[d] = tenantCalls[d]
          /\ tenantCalls'[c] = [tenantCalls[c] EXCEPT !.step = "clear"]
          /\ tenantCalls[c] \in Calls
      BY <2>5, GoOnTyped, CallTyped DEF ObjectsRemoved, At, TenantSteps
    <3>7. tenantCalls'[c].tenant = s /\ \A step : At(c, "delete", step)' => step = "clear"
      BY <3>3, <3>6 DEF At, Calls
    <3>8. SweptCall(c)'
      BY <3>5, <3>7 DEF SweptCall, NothingListed, ListedSoFar, RemovalCovers, ObjectsSwept,
                        DocumentsSwept, ObjectsOf
    <3> QED  BY <3>1, <3>2, <3>6, <3>8, SweepByCall
  <2>6. CASE ClearKnowledge(c)
    <3>1. PICK s \in Tenants : s = tenantCalls[c].tenant
      BY <2>6, CallTyped DEF ClearKnowledge, At
    <3>2. ObjectsOf(s)
      BY <2>6, <3>1 DEF ClearKnowledge, SweepInv, SweptCall, ObjectsSwept
    <3>3. Grows /\ tenants' = tenants
      BY <2>6, <3>1 DEF ClearKnowledge, Grows, tenantVars, TenancyTypeOK
    <3>4. ObjectsOf(s)'
      BY <3>2, <3>3, SweptStays
    <3>5. DocumentsOf(s)'
      <4>1. documents'[s] = {} /\ s \in cleared'
        BY <2>6, <3>1 DEF ClearKnowledge, TenancyTypeOK
      <4> QED  BY <4>1 DEF DocumentsOf
    <3>6. /\ \A d \in TenancyClients : d # c => tenantCalls'[d] = tenantCalls[d]
          /\ tenantCalls'[c] = [tenantCalls[c] EXCEPT !.step = "mark"]
          /\ tenantCalls[c] \in Calls
      BY <2>6, GoOnTyped, CallTyped DEF ClearKnowledge, At, TenantSteps
    <3>7. tenantCalls'[c].tenant = s /\ \A step : At(c, "delete", step)' => step = "mark"
      BY <3>1, <3>6 DEF At, Calls
    <3>8. SweptCall(c)'
      BY <3>4, <3>5, <3>7 DEF SweptCall, NothingListed, ListedSoFar, RemovalCovers,
                              ObjectsSwept, DocumentsSwept, ObjectsOf, DocumentsOf
    <3> QED  BY <3>3, <3>6, <3>8, SweepByCall
  <2>7. CASE MarkTenant(c)
    <3>1. Grows
      BY <2>7 DEF MarkTenant, Grows, dataVars, sweepVars
    <3>2. t \in Tenants /\ ObjectsOf(t) /\ DocumentsOf(t)
      BY <2>7, CallTyped DEF MarkTenant, At, SweepInv, SweptCall, ObjectsSwept, DocumentsSwept
    <3>3. \A s \in Tenants : tenants'[s] = "deleted" => tenants[s] = "deleted" \/ s = t
      BY <2>7 DEF MarkTenant, MarkDeleted, TenancyTypeOK
    <3>4. /\ \A d \in TenancyClients : d # c => tenantCalls'[d] = tenantCalls[d]
          /\ SweptCall(c)'
      <4>1. /\ \A d \in TenancyClients : d # c => tenantCalls'[d] = tenantCalls[d]
            /\ tenantCalls'[c] = NoCall
        BY <2>7, EndCallTyped DEF MarkTenant
      <4> QED  BY <4>1, NotInTeardown DEF At
    <3> QED  BY <3>1, <3>2, <3>3, <3>4, SweepByCall
  <2> QED  BY <1>5, <2>1, <2>2, <2>3, <2>4, <2>5, <2>6, <2>7 DEF DeleteStep
<1> QED  BY <1>1, <1>2, <1>3, <1>4, <1>5 DEF TenancyNext

(***************************************************************************)
(* Owners.                                                                 *)
(***************************************************************************)

\* The tenant whose creator a client is about to make its admin.
Owning(c, t) == At(c, "create", "own") /\ tenantCalls[c].tenant = t

Owned(t) == (\E u \in Users : IsAdmin(t, u)) \/ t \in halfMade

AdminsStay == \A t \in Tenants, u \in Users : IsAdmin(t, u) => IsAdmin(t, u)'

\* ON CONFLICT DO NOTHING never overwrites a role.
LEMMA InsertKeepsAdmins ==
  ASSUME TenancyTypeOK, NEW t \in Tenants, NEW u \in Users, NEW role \in Roles,
         InsertMembership(t, u, role)
  PROVE  /\ AdminsStay
         /\ ~ GetMembership(t, u) => members'[t][u] = role
PROOF
<1>1. CASE GetMembership(t, u)
  BY <1>1 DEF InsertMembership, AdminsStay, IsAdmin
<1>2. CASE ~ GetMembership(t, u)
  <2>1. members' = [members EXCEPT ![t][u] = role] /\ members[t][u] = "none"
    BY <1>2 DEF InsertMembership, GetMembership
  <2>2. /\ members'[t][u] = role
        /\ \A s \in Tenants, v \in Users : s # t \/ v # u => members'[s][v] = members[s][v]
    BY <2>1 DEF TenancyTypeOK
  <2> QED  BY <1>2, <2>1, <2>2 DEF AdminsStay, IsAdmin
<1> QED  BY <1>1, <1>2

LEMMA OwnersByCall ==
  ASSUME OwnerExplained, NEW c \in TenancyClients,
         \A d \in TenancyClients : d # c => tenantCalls'[d] = tenantCalls[d],
         AdminsStay, halfMade \subseteq halfMade',
         \A t \in Tenants : tenants'[t] # "none" => tenants[t] # "none" \/ Owning(c, t)',
         \A t \in Tenants : Owning(c, t) => Owned(t)'
  PROVE  OwnerExplained'
PROOF
<1> SUFFICES ASSUME NEW t \in Tenants, tenants'[t] # "none"
             PROVE  Owned(t)' \/ \E d \in TenancyClients : Owning(d, t)'
  BY DEF OwnerExplained, Owned, Owning
<1>1. CASE Owning(c, t)'
  BY <1>1
<1>2. CASE tenants[t] # "none"
  <2>1. Owned(t) \/ \E d \in TenancyClients : Owning(d, t)
    BY <1>2 DEF OwnerExplained, Owned, Owning
  <2>2. Owned(t) => Owned(t)'
    BY DEF Owned, AdminsStay
  <2>3. \A d \in TenancyClients : d # c /\ Owning(d, t) => Owning(d, t)'
    BY DEF Owning, At
  <2> QED  BY <2>1, <2>2, <2>3
<1> QED  BY <1>1, <1>2

\* A teardown that lists, removes, clears or marks has found its tenant.
DeletesFound ==
  \A c \in TenancyClients :
    (\E step \in {"list", "remove", "clear", "mark"} : At(c, "delete", step)) =>
      GetTenantByID(tenantCalls[c].tenant)

LEMMA OwnersInit == TenancyInit => OwnerExplained /\ DeletesFound
BY DEF TenancyInit, OwnerExplained, DeletesFound, At

LEMMA FoundStep ==
  ASSUME TenancyTypeOK, DeletesFound, [TenancyNext]_tenancyVars
  PROVE  DeletesFound'
PROOF
<1>1. CASE UNCHANGED tenancyVars
  BY <1>1 DEF DeletesFound, GetTenantByID, At, tenancyVars, tenantVars
<1>2. ASSUME NEW c \in TenancyClients,
             \A d \in TenancyClients : d # c => tenantCalls'[d] = tenantCalls[d],
             \A t \in Tenants : tenants[t] # "none" => tenants'[t] # "none",
             \A step \in {"list", "remove", "clear", "mark"} : At(c, "delete", step)' =>
                /\ tenantCalls'[c].tenant \in Tenants
                /\ GetTenantByID(tenantCalls'[c].tenant)
      PROVE  DeletesFound'
  <2> SUFFICES ASSUME NEW d \in TenancyClients,
                      NEW step \in {"list", "remove", "clear", "mark"},
                      At(d, "delete", step)'
               PROVE  tenants'[tenantCalls'[d].tenant] # "none"
    BY DEF DeletesFound, GetTenantByID
  <2>1. CASE d = c
    BY <1>2, <2>1 DEF GetTenantByID
  <2>2. CASE d # c
    BY <1>2, <2>2, CallTyped DEF DeletesFound, GetTenantByID, At
  <2> QED  BY <2>1, <2>2
<1>3. ASSUME NEW c \in TenancyClients,
             \/ StartCall(c) \/ CallFails(c)
             \/ CreateTenant(c) \/ CreateOwner(c)
             \/ CheckTenant(c) \/ LookupMembership(c) \/ AddMember(c)
             \/ CheckMember(c) \/ PutObject(c) \/ GetObject(c) \/ StoreDocument(c)
             \/ CheckAdmin(c) \/ CheckDeleted(c) \/ ListObjects(c) \/ RemoveBatch(c)
             \/ ObjectsRemoved(c) \/ ClearKnowledge(c) \/ MarkTenant(c)
      PROVE  DeletesFound'
  <2> USE <1>3
  <2>1. \A t \in Tenants : tenants[t] # "none" => tenants'[t] # "none"
    BY DEF StartCall, BeginCall, CallFails, CreateTenant, CreateOwner, CheckTenant,
           LookupMembership, AddMember, CheckMember, PutObject, GetObject, StoreDocument,
           CheckAdmin, CheckDeleted, ListObjects, RemoveBatch, ObjectsRemoved,
           ClearKnowledge, MarkTenant, MarkDeleted, InsertTenant, tenantVars, TenancyTypeOK
  <2>2. \A d \in TenancyClients : d # c => tenantCalls'[d] = tenantCalls[d]
    BY DEF StartCall, BeginCall, CallFails, CreateTenant, CreateOwner, CheckTenant,
           LookupMembership, AddMember, CheckMember, PutObject, GetObject, StoreDocument,
           CheckAdmin, CheckDeleted, ListObjects, RemoveBatch, ObjectsRemoved,
           ClearKnowledge, MarkTenant, EndCall, GoOn, TenancyTypeOK
  <2>3. ASSUME NEW step \in {"list", "remove", "clear", "mark"}, At(c, "delete", step)'
        PROVE  /\ tenantCalls'[c].tenant \in Tenants
               /\ GetTenantByID(tenantCalls'[c].tenant)
    <3>1. CASE StartCall(c)
      <4>1. PICK call : /\ BeginCall(c, call)
                        /\ call.op # "delete" \/ call.step = "admin"
        BY <3>1 DEF StartCall, Request
      <4> QED  BY <2>3, <4>1 DEF BeginCall, At, TenancyTypeOK
    <3>2. CASE EndCall(c)
      BY <2>3, <3>2, EndCallTyped DEF At
    <3>3. CASE ~ StartCall(c) /\ ~ EndCall(c)
      <4>1. tenantCalls[c] # NoCall
        BY <3>3 DEF CallFails, CreateTenant, CreateOwner, CheckTenant, LookupMembership,
             AddMember, CheckMember, PutObject, GetObject, StoreDocument, CheckAdmin,
             CheckDeleted, ListObjects, RemoveBatch, ObjectsRemoved, ClearKnowledge,
             MarkTenant, At
      <4>2. tenantCalls[c] \in Calls /\ tenantCalls[c].tenant \in Tenants
        BY <4>1, CallTyped
      <4>3. /\ tenantCalls'[c].op = tenantCalls[c].op
            /\ tenantCalls'[c].tenant = tenantCalls[c].tenant
        <5>1. CASE ListObjects(c)
          <6>1. PICK seen, token, s : tenantCalls' =
                  [tenantCalls EXCEPT ![c] = [tenantCalls[c] EXCEPT !.listed = seen,
                                                !.token = token, !.step = s]]
            BY <5>1 DEF ListObjects
          <6> QED  BY <4>2, <6>1 DEF TenancyTypeOK, Calls
        <5>3. CASE RemoveBatch(c)
          BY <4>2, <5>3 DEF RemoveBatch, TenancyTypeOK, Calls
        <5>2. CASE \E s \in TenantSteps : GoOn(c, s)
          BY <4>2, <5>2 DEF GoOn, TenancyTypeOK, Calls
        <5> QED
          BY <3>3, <5>1, <5>2, <5>3 DEF CallFails, CreateTenant, CreateOwner, CheckTenant,
             LookupMembership, AddMember, CheckMember, PutObject, GetObject, StoreDocument,
             CheckAdmin, CheckDeleted, ObjectsRemoved, ClearKnowledge, MarkTenant, TenantSteps
      <4>4. tenantCalls[c].op = "delete" /\ ~ CheckAdmin(c)
        <5>1. tenantCalls[c].op = "delete"
          BY <2>3, <4>3 DEF At
        <5>2. CASE CheckAdmin(c)
          <6>1. GoOn(c, "exists")
            BY <3>3, <5>2 DEF CheckAdmin
          <6>2. tenantCalls'[c].step = "exists"
            BY <4>2, <6>1 DEF GoOn, TenancyTypeOK, Calls
          <6> QED  BY <2>3, <6>2 DEF At
        <5> QED  BY <5>1, <5>2
      <4>5. GetTenantByID(tenantCalls[c].tenant)
        <5>1. CASE CheckDeleted(c)
          BY <3>3, <5>1 DEF CheckDeleted
        <5>2. CASE \E s \in {"list", "remove", "clear", "mark"} : At(c, "delete", s)
          BY <5>2 DEF DeletesFound
        <5> QED
          BY <3>3, <4>4, <5>1, <5>2 DEF CallFails, CreateTenant, CreateOwner, CheckTenant,
             LookupMembership, AddMember, CheckMember, PutObject, GetObject, StoreDocument,
             ListObjects, RemoveBatch, ObjectsRemoved, ClearKnowledge, MarkTenant, At
      <4> QED  BY <4>2, <4>3, <4>5
    <3> QED  BY <3>1, <3>2, <3>3
  <2> QED  BY <1>2, <2>1, <2>2, <2>3
<1> QED  BY <1>1, <1>3 DEF TenancyNext, DeleteStep

LEMMA OwnersStep ==
  ASSUME TenancyTypeOK, DeletesFound, OwnerExplained, [TenancyNext]_tenancyVars
  PROVE  OwnerExplained'
PROOF
<1>1. CASE UNCHANGED tenancyVars
  BY <1>1 DEF OwnerExplained, IsAdmin, At, tenancyVars, tenantVars
<1>2. ASSUME NEW c \in TenancyClients,
             \/ StartCall(c)
             \/ CheckTenant(c) \/ LookupMembership(c)
             \/ CheckMember(c) \/ PutObject(c) \/ GetObject(c) \/ StoreDocument(c)
             \/ CheckAdmin(c) \/ CheckDeleted(c) \/ ListObjects(c) \/ RemoveBatch(c)
             \/ ObjectsRemoved(c) \/ ClearKnowledge(c)
      PROVE  OwnerExplained'
  <2> USE <1>2
  <2>1. UNCHANGED <<tenantVars, halfMade>>
    BY DEF StartCall, BeginCall, CheckTenant, LookupMembership, CheckMember, PutObject,
           GetObject, StoreDocument, CheckAdmin, CheckDeleted, ListObjects, RemoveBatch,
           ObjectsRemoved, ClearKnowledge
  <2>2. AdminsStay /\ halfMade \subseteq halfMade' /\ tenants' = tenants
    BY <2>1 DEF AdminsStay, IsAdmin, tenantVars
  <2>3. ~ At(c, "create", "own")
    BY SMTT(20) DEF StartCall, BeginCall, CheckTenant, LookupMembership, CheckMember, PutObject,
           GetObject, StoreDocument, CheckAdmin, CheckDeleted, ListObjects, RemoveBatch,
           ObjectsRemoved, ClearKnowledge, At
  <2>4. \A d \in TenancyClients : d # c => tenantCalls'[d] = tenantCalls[d]
    BY DEF StartCall, BeginCall, CheckTenant, LookupMembership, CheckMember, PutObject,
           GetObject, StoreDocument, CheckAdmin, CheckDeleted, ListObjects, RemoveBatch,
           ObjectsRemoved, ClearKnowledge, EndCall, GoOn, TenancyTypeOK
  <2> QED  BY <2>2, <2>3, <2>4, OwnersByCall DEF Owning
<1>3. ASSUME NEW c \in TenancyClients, CallFails(c)
      PROVE  OwnerExplained'
  <2>1. /\ AdminsStay /\ halfMade \subseteq halfMade' /\ tenants' = tenants
        /\ \A t \in Tenants : Owning(c, t) => Owned(t)'
    BY <1>3 DEF CallFails, AdminsStay, IsAdmin, tenantVars, Owning, Owned
  <2>2. \A d \in TenancyClients : d # c => tenantCalls'[d] = tenantCalls[d]
    BY <1>3, EndCallTyped DEF CallFails
  <2> QED  BY <2>1, <2>2, OwnersByCall
<1>4. ASSUME NEW c \in TenancyClients, CreateTenant(c)
      PROVE  OwnerExplained'
  <2>1. /\ \A d \in TenancyClients : d # c => tenantCalls'[d] = tenantCalls[d]
        /\ tenantCalls'[c] = [tenantCalls[c] EXCEPT !.step = "own"]
        /\ tenantCalls[c] \in Calls /\ tenantCalls[c].op = "create"
        /\ tenantCalls'[c] \in Calls
    BY <1>4, GoOnTyped, CallTyped DEF CreateTenant, At, TenantSteps
  <2>2. AdminsStay /\ halfMade' = halfMade
    BY <1>4 DEF CreateTenant, AdminsStay, IsAdmin
  <2>3. \A t \in Tenants :
          tenants'[t] # "none" => tenants[t] # "none" \/ tenantCalls[c].tenant = t
    BY <1>4 DEF CreateTenant, InsertTenant, TenancyTypeOK
  <2>4. /\ tenantCalls'[c].op = "create" /\ tenantCalls'[c].step = "own"
        /\ tenantCalls'[c].tenant = tenantCalls[c].tenant
    BY <2>1 DEF Calls
  <2>5. tenantCalls'[c] # NoCall
    BY <2>1, NoCallAssumption
  <2>6. \A t \in Tenants : Owning(c, t)' <=> tenantCalls[c].tenant = t
    BY <2>4, <2>5 DEF Owning, At
  <2>7. \A t \in Tenants : ~ Owning(c, t)
    BY <1>4 DEF CreateTenant, Owning, At
  <2> QED  BY <2>1, <2>2, <2>3, <2>6, <2>7, OwnersByCall
<1>5. ASSUME NEW c \in TenancyClients, CreateOwner(c) \/ AddMember(c)
      PROVE  OwnerExplained'
  <2> DEFINE call == tenantCalls[c]
  <2>1. call.tenant \in Tenants /\ call.user \in Users /\ call.role \in Roles
    BY <1>5, CallTyped DEF CreateOwner, AddMember, At
  <2>2. /\ \A d \in TenancyClients : d # c => tenantCalls'[d] = tenantCalls[d]
        /\ halfMade \subseteq halfMade' /\ tenants' = tenants
    BY <1>5, EndCallTyped DEF CreateOwner, AddMember
  <2>3. AdminsStay
    BY <1>5, <2>1, InsertKeepsAdmins DEF CreateOwner, AddMember, Roles
  <2>4. ASSUME NEW t \in Tenants, Owning(c, t)
        PROVE  Owned(t)'
    <3>1. CreateOwner(c) /\ t = call.tenant
      BY <1>5, <2>4 DEF Owning, AddMember, At
    <3>2. InsertMembership(t, call.user, "admin")
      BY <3>1 DEF CreateOwner
    <3>3. CASE GetMembership(t, call.user)
      BY <3>1, <3>3 DEF CreateOwner, Owned
    <3>4. CASE ~ GetMembership(t, call.user)
      <4>1. members'[t][call.user] = "admin"
        BY <2>1, <3>2, <3>4, InsertKeepsAdmins DEF Roles
      <4> QED  BY <2>1, <4>1 DEF Owned, IsAdmin
    <3> QED  BY <3>3, <3>4
  <2> QED  BY <2>2, <2>3, <2>4, OwnersByCall
<1>6. ASSUME NEW c \in TenancyClients, MarkTenant(c)
      PROVE  OwnerExplained'
  <2>1. tenantCalls[c].tenant \in Tenants /\ ~ At(c, "create", "own")
    BY <1>6, CallTyped DEF MarkTenant, At
  <2>2. \A d \in TenancyClients : d # c => tenantCalls'[d] = tenantCalls[d]
    BY <1>6, EndCallTyped DEF MarkTenant
  <2>3. AdminsStay /\ halfMade' = halfMade
    BY <1>6 DEF MarkTenant, AdminsStay, IsAdmin
  <2>4. \A t \in Tenants : tenants'[t] # "none" => tenants[t] # "none"
    <3>1. tenants[tenantCalls[c].tenant] # "none"
      BY <1>6 DEF MarkTenant, DeletesFound, GetTenantByID
    <3> QED  BY <1>6, <2>1, <3>1 DEF MarkTenant, MarkDeleted, TenancyTypeOK
  <2>5. \A t \in Tenants : ~ Owning(c, t)
    BY <2>1 DEF Owning
  <2> QED  BY <2>2, <2>3, <2>4, <2>5, OwnersByCall
<1> QED
  BY <1>1, <1>2, <1>3, <1>4, <1>5, <1>6 DEF TenancyNext, DeleteStep

(***************************************************************************)
(* The results.                                                            *)
(***************************************************************************)

\* Every call in progress carries a tenant, a user and keys of the system, and
\* the stores hold nothing but keys.
THEOREM TenancyTyped == TenancySpec => []TenancyTypeOK
PROOF
<1>1. TenancyInit => TenancyTypeOK
  BY TypesInit
<1>2. TenancyTypeOK /\ [TenancyNext]_tenancyVars => TenancyTypeOK'
  BY TypesStep
<1> QED  BY <1>1, <1>2, PTL DEF TenancySpec

\* What a deleted tenant still holds was written behind a teardown's back or
\* refused by the object store, and a tenant without an admin is one whose
\* creation is under way or stopped halfway: for any number of requests,
\* ingestions and teardowns of the same tenant, failures and page sizes
\* (CreateTenant, DeleteTenant, DeletePrefix).
THEOREM TenantsSwept == TenancySpec => []TenantsExplained
PROOF
<1> DEFINE IInv == TenancyTypeOK /\ SweepInv /\ DeletesFound /\ OwnerExplained
<1>1. TenancyInit => IInv
  BY TypesInit, SweepInit, OwnersInit
<1>2. IInv /\ [TenancyNext]_tenancyVars => IInv'
  BY TypesStep, SweepStep, FoundStep, OwnersStep
<1>3. IInv => TenantsExplained
  BY DEF SweepInv, DeletedSwept, ObjectsOf, DocumentsOf, TenantsExplained, LeftoverExplained
<1> HIDE DEF IInv
<1> QED  BY <1>1, <1>2, <1>3, PTL DEF TenancySpec

(***************************************************************************)
(* Invoices.                                                               *)
(***************************************************************************)

\* Induction: among sets of subsets of a finite set there is a least one.
LEMMA LeastSubset ==
  ASSUME NEW S, IsFiniteSet(S), NEW B, B \subseteq SUBSET S, B # {}
  PROVE  \E T \in B : \A U \in B : U \subseteq T => U = T
PROOF
<1>1. IsWellFoundedOn(StrictSubsetOrdering(S), SUBSET S)
  BY FS_StrictSubsetOrderingWellFounded, FS_FiniteSubsetsOfFinite
<1>2. PICK T \in B : \A U \in B : ~ (<<U, T>> \in StrictSubsetOrdering(S))
  BY <1>1, WFMin
<1>3. \A U \in B : U \subseteq T => U = T
  BY <1>2 DEF StrictSubsetOrdering
<1> QED  BY <1>3

\* The recursive function behind SumFunctionOnSet.
Pick(s) == CHOOSE x \in s : TRUE

IsSum(g, f, S) ==
  g = [s \in SUBSET S |-> IF s = {} THEN 0 ELSE f[Pick(s)] + g[s \ {Pick(s)}]]

SumFn(f, S) == CHOOSE g : IsSum(g, f, S)

LEMMA SumIsFn == ASSUME NEW f, NEW S PROVE SumFunctionOnSet(f, S) = SumFn(f, S)[S]
BY DEF SumFunctionOnSet, FoldFunctionOnSet, MapThenFoldSet, SumFn, IsSum, Pick

LEMMA IsSumValues ==
  ASSUME NEW g, NEW f, NEW S, IsSum(g, f, S), NEW s \in SUBSET S
  PROVE  g[s] = IF s = {} THEN 0 ELSE f[Pick(s)] + g[s \ {Pick(s)}]
PROOF
<1> DEFINE h == [t \in SUBSET S |-> IF t = {} THEN 0 ELSE f[Pick(t)] + g[t \ {Pick(t)}]]
<1>1. g = h
  BY DEF IsSum
<1>2. h[s] = IF s = {} THEN 0 ELSE f[Pick(s)] + g[s \ {Pick(s)}]
  OBVIOUS
<1> HIDE DEF h
<1> QED  BY <1>1, <1>2

LEMMA PickIn == ASSUME NEW s, s # {} PROVE Pick(s) \in s
BY DEF Pick

LEMMA SumUnique ==
  ASSUME NEW f, NEW S, IsFiniteSet(S), NEW T \in SUBSET S, NEW g, NEW h,
         IsSum(g, f, S), IsSum(h, f, T), NEW U \in SUBSET T
  PROVE  g[U] = h[U]
PROOF
<1> DEFINE B == {V \in SUBSET T : g[V] # h[V]}
<1>1. SUFFICES ASSUME B # {} PROVE FALSE
  OBVIOUS
<1>2. PICK V \in B : \A W \in B : W \subseteq V => W = V
  <2>1. IsFiniteSet(T)
    BY FS_Subset
  <2>2. B \subseteq SUBSET T
    OBVIOUS
  <2> HIDE DEF B
  <2> QED  BY <1>1, <2>1, <2>2, LeastSubset
<1>3. V \in SUBSET T /\ V \in SUBSET S /\ g[V] # h[V]
  OBVIOUS
<1>4. V # {}
  <2>1. V = {} => g[V] = 0
    BY <1>3, IsSumValues
  <2>2. V = {} => h[V] = 0
    BY <1>3, IsSumValues
  <2> QED  BY <1>3, <2>1, <2>2
<1> DEFINE W == V \ {Pick(V)}
<1>5. W \in SUBSET T /\ W # V /\ W \subseteq V
  BY <1>3, <1>4, PickIn
<1>6. g[W] = h[W]
  BY <1>2, <1>5
<1>7. g[V] = f[Pick(V)] + g[W] /\ h[V] = f[Pick(V)] + h[W]
  <2>1. g[V] = f[Pick(V)] + g[W]
    BY <1>3, <1>4, IsSumValues, ZenonT(30)
  <2>2. h[V] = f[Pick(V)] + h[W]
    BY <1>3, <1>4, IsSumValues
  <2> QED  BY <2>1, <2>2
<1> QED  BY <1>3, <1>6, <1>7

LEMMA SumExists ==
  ASSUME NEW f, NEW S, IsFiniteSet(S)
  PROVE  IsSum(SumFn(f, S), f, S)
PROOF
<1> DEFINE B == {T \in SUBSET S : ~ IsSum(SumFn(f, T), f, T)}
<1>1. SUFFICES ASSUME B # {} PROVE FALSE
  OBVIOUS
<1>2. PICK T \in B : \A U \in B : U \subseteq T => U = T
  <2>1. B \subseteq SUBSET S
    OBVIOUS
  <2> HIDE DEF B
  <2> QED  BY <1>1, <2>1, LeastSubset
<1>3. T \in SUBSET S /\ ~ IsSum(SumFn(f, T), f, T) /\ IsFiniteSet(T)
  BY FS_Subset
<1>4. \A U \in SUBSET T : U # T => IsSum(SumFn(f, U), f, U)
  BY <1>2, <1>3
<1> HIDE DEF B
<1> DEFINE g == [U \in SUBSET T |->
                   IF U = {} THEN 0
                   ELSE f[Pick(U)] + SumFn(f, U \ {Pick(U)})[U \ {Pick(U)}]]
<1>5. \A V \in SUBSET T : V # T => g[V] = SumFn(f, V)[V]
  <2> SUFFICES ASSUME NEW V \in SUBSET T, V # T PROVE g[V] = SumFn(f, V)[V]
    OBVIOUS
  <2>1. IsSum(SumFn(f, V), f, V) /\ IsFiniteSet(V)
    BY <1>3, <1>4, FS_Subset
  <2>2. V \in SUBSET V
    OBVIOUS
  <2>3. CASE V = {}
    BY <2>1, <2>2, <2>3, IsSumValues
  <2>4. CASE V # {}
    <3> DEFINE W == V \ {Pick(V)}
    <3>1. W \in SUBSET V /\ W \in SUBSET T /\ W # T
      BY <2>4, PickIn
    <3>2. SumFn(f, V)[V] = f[Pick(V)] + SumFn(f, V)[W]
      BY <2>1, <2>2, <2>4, IsSumValues
    <3>3. IsSum(SumFn(f, W), f, W)
      BY <1>4, <3>1
    <3>4. W \in SUBSET W
      OBVIOUS
    <3> HIDE DEF W
    <3>5. SumFn(f, V)[W] = SumFn(f, W)[W]
      BY <2>1, <3>1, <3>3, <3>4, SumUnique
    <3>6. g[V] = f[Pick(V)] + SumFn(f, W)[W]
      BY <2>4 DEF W
    <3> QED  BY <3>2, <3>5, <3>6
  <2> QED  BY <2>3, <2>4
<1>6. \A U \in SUBSET T : U # {} => U \ {Pick(U)} \in SUBSET T /\ U \ {Pick(U)} # T
  BY PickIn
<1>7. g = [U \in SUBSET T |-> IF U = {} THEN 0 ELSE f[Pick(U)] + g[U \ {Pick(U)}]]
  <2> DEFINE h == [U \in SUBSET T |-> IF U = {} THEN 0 ELSE f[Pick(U)] + g[U \ {Pick(U)}]]
  <2>1. \A U \in SUBSET T : U # {} => g[U] = h[U]
    <3> SUFFICES ASSUME NEW U \in SUBSET T, U # {} PROVE g[U] = h[U]
      OBVIOUS
    <3>1. g[U \ {Pick(U)}] = SumFn(f, U \ {Pick(U)})[U \ {Pick(U)}]
      BY <1>5, <1>6
    <3>2. g[U] = f[Pick(U)] + SumFn(f, U \ {Pick(U)})[U \ {Pick(U)}]
      OBVIOUS
    <3>3. h[U] = f[Pick(U)] + g[U \ {Pick(U)}]
      OBVIOUS
    <3> HIDE DEF g, h
    <3> QED  BY <3>1, <3>2, <3>3
  <2>2. {} \in SUBSET T => g[{}] = h[{}]
    OBVIOUS
  <2>3. DOMAIN g = SUBSET T /\ DOMAIN h = SUBSET T
    OBVIOUS
  <2>4. g = [U \in SUBSET T |-> g[U]] /\ h = [U \in SUBSET T |-> h[U]]
    OBVIOUS
  <2> HIDE DEF g, h
  <2>5. \A U \in SUBSET T : g[U] = h[U]
    BY <2>1, <2>2
  <2>6. g = h
    BY <2>4, <2>5
  <2> QED  BY <2>6 DEF h
<1>8. IsSum(g, f, T)
  <2> HIDE DEF g
  <2> QED  BY <1>7 DEF IsSum
<1>9. IsSum(SumFn(f, T), f, T)
  <2> HIDE DEF g
  <2> QED  BY <1>8 DEF SumFn
<1> QED  BY <1>3, <1>9

LEMMA SumEmpty == ASSUME NEW f PROVE SumFunctionOnSet(f, {}) = 0
PROOF
<1>1. IsSum(SumFn(f, {}), f, {})
  BY SumExists, FS_EmptySet
<1>2. SumFn(f, {})[{}] = 0
  BY <1>1, IsSumValues
<1> QED  BY <1>2, SumIsFn

LEMMA SumPick ==
  ASSUME NEW f, NEW S, IsFiniteSet(S), S # {}
  PROVE  SumFunctionOnSet(f, S) = f[Pick(S)] + SumFunctionOnSet(f, S \ {Pick(S)})
PROOF
<1> DEFINE T == S \ {Pick(S)}
<1>1. IsFiniteSet(T) /\ T \in SUBSET S /\ S \in SUBSET S /\ T \in SUBSET T
  BY FS_Subset
<1>2. IsSum(SumFn(f, S), f, S) /\ IsSum(SumFn(f, T), f, T)
  BY <1>1, SumExists
<1>3. SumFn(f, S)[S] = f[Pick(S)] + SumFn(f, S)[T]
  BY <1>1, <1>2, IsSumValues
<1> HIDE DEF T
<1>4. SumFn(f, S)[T] = SumFn(f, T)[T]
  BY <1>1, <1>2, SumUnique
<1> QED  BY <1>3, <1>4, SumIsFn DEF T

\* A sum of numbers is one more number and the sum of the others.
LEMMA SumSplit ==
  ASSUME NEW f, NEW S, IsFiniteSet(S), \A y \in S : f[y] \in Nat
  PROVE  /\ SumFunctionOnSet(f, S) \in Nat
         /\ \A x \in S : SumFunctionOnSet(f, S) = f[x] + SumFunctionOnSet(f, S \ {x})
PROOF
<1> DEFINE Split(T) == /\ SumFunctionOnSet(f, T) \in Nat
                       /\ \A x \in T : SumFunctionOnSet(f, T)
                                         = f[x] + SumFunctionOnSet(f, T \ {x})
           B == {T \in SUBSET S : ~ Split(T)}
<1>1. SUFFICES ASSUME B # {} PROVE FALSE
  OBVIOUS
<1>2. PICK T \in B : \A U \in B : U \subseteq T => U = T
  <2>1. B \subseteq SUBSET S
    OBVIOUS
  <2> HIDE DEF B
  <2> QED  BY <1>1, <2>1, LeastSubset
<1>3. T \in SUBSET S /\ ~ Split(T) /\ IsFiniteSet(T)
  BY FS_Subset
<1>4. \A U \in SUBSET T : U # T => Split(U)
  BY <1>2, <1>3
<1> HIDE DEF B
<1>5. T # {}
  BY <1>3, SumEmpty
<1> DEFINE p == Pick(T)
<1>6. p \in T /\ f[p] \in Nat /\ \A y \in T : f[y] \in Nat
  BY <1>3, <1>5, PickIn
<1>7. SumFunctionOnSet(f, T) = f[p] + SumFunctionOnSet(f, T \ {p})
  BY <1>3, <1>5, SumPick
<1> HIDE DEF p
<1>8. Split(T \ {p})
  BY <1>4, <1>6
<1>9. SumFunctionOnSet(f, T) \in Nat
  BY <1>6, <1>7, <1>8
<1>10. ASSUME NEW x \in T
       PROVE  SumFunctionOnSet(f, T) = f[x] + SumFunctionOnSet(f, T \ {x})
  <2>1. CASE x = p
    BY <1>7, <2>1
  <2>2. CASE x # p
    <3>1. Split(T \ {x})
      BY <1>4
    <3>2. /\ SumFunctionOnSet(f, T \ {p}) = f[x] + SumFunctionOnSet(f, (T \ {p}) \ {x})
          /\ SumFunctionOnSet(f, T \ {x}) = f[p] + SumFunctionOnSet(f, (T \ {x}) \ {p})
      BY <1>6, <1>8, <2>2, <3>1
    <3>3. (T \ {p}) \ {x} = (T \ {x}) \ {p}
      OBVIOUS
    <3>4. Split((T \ {x}) \ {p})
      BY <1>4, <1>6
    <3>5. SumFunctionOnSet(f, (T \ {x}) \ {p}) \in Nat /\ f[x] \in Nat
      BY <1>6, <3>4
    <3> DEFINE rest == SumFunctionOnSet(f, (T \ {x}) \ {p})
    <3>6. /\ SumFunctionOnSet(f, T) = f[p] + (f[x] + rest)
          /\ SumFunctionOnSet(f, T \ {x}) = f[p] + rest
      BY <1>7, <3>2, <3>3
    <3>7. rest \in Nat /\ f[x] \in Nat /\ f[p] \in Nat
      BY <1>6, <3>5
    <3> HIDE DEF rest
    <3>8. f[p] + (f[x] + rest) = f[x] + (f[p] + rest)
      BY <3>7
    <3> QED  BY <3>6, <3>8
  <2> QED  BY <2>1, <2>2
<1> QED  BY <1>3, <1>9, <1>10

\* Only the numbers added count, not the function they come from.
LEMMA SumSame ==
  ASSUME NEW f, NEW g, NEW S, IsFiniteSet(S),
         \A y \in S : f[y] \in Nat /\ f[y] = g[y]
  PROVE  SumFunctionOnSet(f, S) = SumFunctionOnSet(g, S)
PROOF
<1> DEFINE Same(T) == SumFunctionOnSet(f, T) = SumFunctionOnSet(g, T)
           B == {T \in SUBSET S : ~ Same(T)}
<1>1. SUFFICES ASSUME B # {} PROVE FALSE
  OBVIOUS
<1>2. PICK T \in B : \A U \in B : U \subseteq T => U = T
  <2>1. B \subseteq SUBSET S
    OBVIOUS
  <2> HIDE DEF B
  <2> QED  BY <1>1, <2>1, LeastSubset
<1>3. T \in SUBSET S /\ ~ Same(T) /\ IsFiniteSet(T)
  BY FS_Subset
<1>4. \A U \in SUBSET T : U # T => Same(U)
  BY <1>2, <1>3
<1> HIDE DEF B
<1>5. T # {}
  BY <1>3, SumEmpty
<1>6. PICK x \in T : TRUE
  BY <1>5
<1>7. \A y \in T : f[y] \in Nat /\ g[y] \in Nat /\ f[y] = g[y]
  BY <1>3
<1>8. /\ SumFunctionOnSet(f, T) = f[x] + SumFunctionOnSet(f, T \ {x})
      /\ SumFunctionOnSet(g, T) = g[x] + SumFunctionOnSet(g, T \ {x})
  <2>1. SumFunctionOnSet(f, T) = f[x] + SumFunctionOnSet(f, T \ {x})
    BY <1>3, <1>7, SumSplit
  <2>2. SumFunctionOnSet(g, T) = g[x] + SumFunctionOnSet(g, T \ {x})
    BY <1>3, <1>7, SumSplit
  <2> QED  BY <2>1, <2>2
<1>9. Same(T \ {x})
  BY <1>4
<1> QED  BY <1>3, <1>7, <1>8, <1>9

LEMMA SumUnion ==
  ASSUME NEW f, NEW S, IsFiniteSet(S), NEW T, IsFiniteSet(T), S \cap T = {},
         \A y \in S \cup T : f[y] \in Nat
  PROVE  SumFunctionOnSet(f, S \cup T) = SumFunctionOnSet(f, S) + SumFunctionOnSet(f, T)
PROOF
<1> DEFINE Sum(U) == SumFunctionOnSet(f, U)
           B == {U \in SUBSET S : Sum(U \cup T) # Sum(U) + Sum(T)}
<1>1. SUFFICES ASSUME B # {} PROVE FALSE
  OBVIOUS
<1>2. PICK U \in B : \A V \in B : V \subseteq U => V = U
  <2>1. B \subseteq SUBSET S
    OBVIOUS
  <2> HIDE DEF B
  <2> QED  BY <1>1, <2>1, LeastSubset
<1>3. U \in SUBSET S /\ Sum(U \cup T) # Sum(U) + Sum(T) /\ IsFiniteSet(U)
  BY FS_Subset
<1>4. \A V \in SUBSET U : V # U => Sum(V \cup T) = Sum(V) + Sum(T)
  BY <1>2, <1>3
<1> HIDE DEF B
<1>5. Sum(T) \in Nat /\ Sum(U) \in Nat
  <2>1. Sum(T) \in Nat
    BY SumSplit
  <2>2. Sum(U) \in Nat
    BY <1>3, SumSplit
  <2> QED  BY <2>1, <2>2
<1>6. U # {}
  <2>1. SUFFICES ASSUME U = {} PROVE FALSE
    OBVIOUS
  <2>2. U \cup T = T /\ Sum(U) = 0
    BY <2>1, SumEmpty
  <2> QED  BY <1>3, <1>5, <2>2
<1>7. PICK x \in U : TRUE
  BY <1>6
<1>8. IsFiniteSet(U \cup T) /\ (U \cup T) \ {x} = (U \ {x}) \cup T
  BY <1>3, FS_Union
<1>9. Sum(U \cup T) = f[x] + Sum((U \ {x}) \cup T)
  BY <1>3, <1>8, SumSplit
<1>10. Sum(U) = f[x] + Sum(U \ {x})
  BY <1>3, SumSplit
<1>11. Sum((U \ {x}) \cup T) = Sum(U \ {x}) + Sum(T)
  BY <1>4
<1>12. Sum(U \ {x}) \in Nat /\ f[x] \in Nat
  <2>1. IsFiniteSet(U \ {x})
    BY <1>3, FS_Subset
  <2>2. \A y \in U \ {x} : f[y] \in Nat
    BY <1>3
  <2>3. Sum(U \ {x}) \in Nat
    BY <2>1, <2>2, SumSplit
  <2> QED  BY <1>3, <2>3
<1> HIDE DEF Sum
<1> QED  BY <1>3, <1>5, <1>9, <1>10, <1>11, <1>12

LEMMA SumMonotone ==
  ASSUME NEW f, NEW S, IsFiniteSet(S), NEW T \in SUBSET S, \A y \in S : f[y] \in Nat
  PROVE  SumFunctionOnSet(f, T) <= SumFunctionOnSet(f, S)
PROOF
<1>1. /\ IsFiniteSet(T) /\ IsFiniteSet(S \ T) /\ (S \ T) \cup T = S
      /\ (S \ T) \cap T = {}
  BY FS_Subset
<1>2. SumFunctionOnSet(f, S) = SumFunctionOnSet(f, S \ T) + SumFunctionOnSet(f, T)
  BY <1>1, SumUnion
<1>3. SumFunctionOnSet(f, S \ T) \in Nat
  <2>1. \A y \in S \ T : f[y] \in Nat
    OBVIOUS
  <2> QED  BY <1>1, <2>1, SumSplit
<1>4. SumFunctionOnSet(f, T) \in Nat
  <2>1. \A y \in T : f[y] \in Nat
    OBVIOUS
  <2> QED  BY <1>1, <2>1, SumSplit
<1> QED  BY <1>2, <1>3, <1>4

LEMMA SumOfZeros ==
  ASSUME NEW f, NEW S, IsFiniteSet(S), \A y \in S : f[y] = 0
  PROVE  SumFunctionOnSet(f, S) = 0
PROOF
<1> DEFINE B == {T \in SUBSET S : SumFunctionOnSet(f, T) # 0}
<1>1. SUFFICES ASSUME B # {} PROVE FALSE
  OBVIOUS
<1>2. PICK T \in B : \A U \in B : U \subseteq T => U = T
  <2>1. B \subseteq SUBSET S
    OBVIOUS
  <2> HIDE DEF B
  <2> QED  BY <1>1, <2>1, LeastSubset
<1>3. T \in SUBSET S /\ SumFunctionOnSet(f, T) # 0 /\ IsFiniteSet(T)
  BY FS_Subset
<1>4. \A U \in SUBSET T : U # T => SumFunctionOnSet(f, U) = 0
  BY <1>2, <1>3
<1> HIDE DEF B
<1>5. PICK x \in T : TRUE
  BY <1>3, SumEmpty
<1>6. SumFunctionOnSet(f, T) = f[x] + SumFunctionOnSet(f, T \ {x})
  BY <1>3, SumSplit
<1> QED  BY <1>3, <1>4, <1>6

\* One more in one place.
LEMMA SumPlusOne ==
  ASSUME NEW D, NEW f \in [D -> Nat], NEW g \in [D -> Nat], NEW x \in D,
         NEW S \in SUBSET D, IsFiniteSet(S),
         g[x] = f[x] + 1, \A y \in D \ {x} : g[y] = f[y]
  PROVE  SumFunctionOnSet(g, S) = SumFunctionOnSet(f, S) + (IF x \in S THEN 1 ELSE 0)
PROOF
<1>1. /\ g \in [D -> Nat] /\ g[x] = f[x] + 1
      /\ \A y \in D \ {x} : g[y] = f[y]
  OBVIOUS
<1>2. /\ \A y \in S : f[y] \in Nat
      /\ \A y \in S : g[y] \in Nat
  BY <1>1
<1>3. CASE x \notin S
  <2>1. \A y \in S : f[y] \in Nat /\ f[y] = g[y]
    BY <1>1, <1>2, <1>3
  <2>2. SumFunctionOnSet(f, S) = SumFunctionOnSet(g, S)
    BY <2>1, SumSame
  <2>3. SumFunctionOnSet(f, S) \in Nat
    BY <1>2, SumSplit
  <2> QED  BY <1>3, <2>2, <2>3
<1>4. CASE x \in S
  <2>1. IsFiniteSet(S \ {x})
    BY FS_Subset
  <2>2. \A y \in S \ {x} : f[y] \in Nat /\ f[y] = g[y]
    BY <1>1, <1>2
  <2>3. SumFunctionOnSet(f, S \ {x}) = SumFunctionOnSet(g, S \ {x})
    BY <2>1, <2>2, SumSame
  <2>4. SumFunctionOnSet(f, S) = f[x] + SumFunctionOnSet(f, S \ {x})
    BY <1>2, <1>4, SumSplit
  <2>5. SumFunctionOnSet(g, S) = g[x] + SumFunctionOnSet(g, S \ {x})
    BY <1>2, <1>4, SumSplit
  <2>6. SumFunctionOnSet(f, S \ {x}) \in Nat
    BY <2>1, <2>2, SumSplit
  <2>7. SumFunctionOnSet(g, S) = SumFunctionOnSet(f, S) + 1
    BY <1>1, <2>3, <2>4, <2>5, <2>6
  <2> QED  BY <1>4, <2>7
<1> QED  BY <1>3, <1>4

(***************************************************************************)
(* Costs.                                                                  *)
(***************************************************************************)

LEMMA BillableDays ==
  ASSUME NEW days \in SUBSET BillDays
  PROVE  IsFiniteSet(days \X LlmModels) /\ days \X LlmModels \subseteq BillDays \X LlmModels
PROOF
<1>1. IsFiniteSet(days)
  BY InvoicingAssumption, FS_Subset
<1> QED  BY <1>1, InvoicingAssumption, FS_Product

LEMMA CostTyped ==
  ASSUME NEW lines \in Lines, NEW days \in SUBSET BillDays
  PROVE  CostOver(lines, days) \in Nat
PROOF
<1>1. \A row \in days \X LlmModels : lines[row] \in Nat
  BY BillableDays DEF Lines
<1> QED  BY <1>1, BillableDays, SumSplit DEF CostOver

LEMMA CostPlusOne ==
  ASSUME NEW lines \in Lines, NEW row \in BillDays \X LlmModels,
         NEW days \in SUBSET BillDays
  PROVE  /\ [lines EXCEPT ![row] = @ + 1] \in Lines
         /\ CostOver([lines EXCEPT ![row] = @ + 1], days)
              = CostOver(lines, days) + (IF row[1] \in days THEN 1 ELSE 0)
PROOF
<1>1. row \in days \X LlmModels <=> row[1] \in days
  OBVIOUS
<1>2. [lines EXCEPT ![row] = @ + 1] \in Lines
  BY DEF Lines
<1>3. lines \in [BillDays \X LlmModels -> Nat]
  BY DEF Lines
<1>4. CostOver([lines EXCEPT ![row] = @ + 1], days)
        = CostOver(lines, days) + (IF row \in days \X LlmModels THEN 1 ELSE 0)
  <2> DEFINE D == BillDays \X LlmModels
             S == days \X LlmModels
             more == [lines EXCEPT ![row] = @ + 1]
  <2>1. S \in SUBSET D /\ IsFiniteSet(S) /\ lines \in [D -> Nat] /\ row \in D
    BY <1>3, BillableDays
  <2>2. more \in [D -> Nat] /\ more[row] = lines[row] + 1
    BY <1>3
  <2>3. \A y \in D \ {row} : more[y] = lines[y]
    BY <1>3
  <2> HIDE DEF D, S, more
  <2>4. SumFunctionOnSet(more, S) = SumFunctionOnSet(lines, S) + (IF row \in S THEN 1 ELSE 0)
    BY <2>1, <2>2, <2>3, SumPlusOne
  <2> QED  BY <2>4 DEF CostOver, S, more
<1> QED  BY <1>1, <1>2, <1>4

\* The days of disjoint periods cost what the periods cost together.
LEMMA CostUnion ==
  ASSUME NEW lines \in Lines, NEW some \in SUBSET BillDays, NEW others \in SUBSET BillDays,
         some \cap others = {}
  PROVE  CostOver(lines, some \cup others) = CostOver(lines, some) + CostOver(lines, others)
PROOF
<1>1. /\ (some \cup others) \X LlmModels = (some \X LlmModels) \cup (others \X LlmModels)
      /\ (some \X LlmModels) \cap (others \X LlmModels) = {}
  OBVIOUS
<1>2. \A row \in (some \X LlmModels) \cup (others \X LlmModels) : lines[row] \in Nat
  BY DEF Lines
<1>3. IsFiniteSet(some \X LlmModels) /\ IsFiniteSet(others \X LlmModels)
  BY BillableDays
<1> QED  BY <1>1, <1>2, <1>3, SumUnion DEF CostOver

LEMMA CostMonotone ==
  ASSUME NEW lines \in Lines, NEW days \in SUBSET BillDays
  PROVE  CostOver(lines, days) <= CostOver(lines, BillDays)
PROOF
<1>1. /\ IsFiniteSet(BillDays \X LlmModels)
      /\ days \X LlmModels \in SUBSET (BillDays \X LlmModels)
  BY BillableDays
<1>2. \A row \in BillDays \X LlmModels : lines[row] \in Nat
  BY DEF Lines
<1> QED  BY <1>1, <1>2, SumMonotone DEF CostOver

(***************************************************************************)
(* Invoices.                                                               *)
(***************************************************************************)

\* What the bill and the usage since its reading come to is what its days cost.
Accounted(lines, bill) ==
  CostOver(lines, Period(bill.from, bill.to)) = bill.total + bill.late

InvoicingInv ==
  /\ InvoicingTypeOK
  /\ IsFiniteSet(invoices)
  /\ \A inv \in invoices : Accounted(daily, inv)
  /\ \A b \in Billers :
       bills[b] # NoBill /\ bills[b].step = "insert" => Accounted(daily, bills[b])
  /\ \A b \in Billers : bills[b] # NoBill /\ bills[b].step = "read" => bills[b].late = 0

LEMMA LaterAccounted ==
  ASSUME NEW lines \in Lines, NEW row \in BillDays \X LlmModels, NEW bill \in Bills
  PROVE  /\ Later(bill, row) \in Bills /\ Later(bill, row).step = bill.step
         /\ Accounted(lines, bill)
              => Accounted([lines EXCEPT ![row] = @ + 1], Later(bill, row))
PROOF
<1> DEFINE next == Later(bill, row)
           days == Period(bill.from, bill.to)
<1>1. /\ next \in Bills /\ next.step = bill.step
      /\ next.from = bill.from /\ next.to = bill.to /\ next.total = bill.total
      /\ next.late = IF row[1] \in days THEN bill.late + 1 ELSE bill.late
      /\ bill.total \in Nat /\ bill.late \in Nat
  BY DEF Later, Bills
<1>2. days \in SUBSET BillDays
  BY DEF Period
<1> HIDE DEF next, days
<1>3. CostOver([lines EXCEPT ![row] = @ + 1], days)
        = CostOver(lines, days) + (IF row[1] \in days THEN 1 ELSE 0)
  BY <1>2, CostPlusOne
<1>4. ASSUME CostOver(lines, days) = bill.total + bill.late
      PROVE  CostOver([lines EXCEPT ![row] = @ + 1], days) = next.total + next.late
  BY <1>1, <1>3, <1>4
<1> QED  BY <1>1, <1>4 DEF Accounted, next, days

\* What a bill reads is what its days cost.
LEMMA SummaryAccounted ==
  ASSUME daily \in Lines, NEW from \in BillDays, NEW to \in BillDays
  PROVE  LET lines == GetUsageDailySummary(from, to)
         IN  /\ lines \in Lines
             /\ CostOver(lines, BillDays) = CostOver(daily, Period(from, to))
             /\ CostOver(lines, BillDays) \in Nat
PROOF
<1> DEFINE lines == GetUsageDailySummary(from, to)
           days == Period(from, to)
           rest == BillDays \ days
           S == days \X LlmModels
           R == rest \X LlmModels
<1>1. /\ lines \in Lines
      /\ \A row \in BillDays \X LlmModels :
           lines[row] = IF row[1] \in days THEN daily[row] ELSE 0
  BY DEF GetUsageDailySummary, Lines
<1>2. /\ days \in SUBSET BillDays /\ rest \in SUBSET BillDays /\ days \cap rest = {}
      /\ days \cup rest = BillDays
  BY DEF Period
<1> HIDE DEF lines, days, rest
<1>3. CostOver(lines, BillDays) = CostOver(lines, days) + CostOver(lines, rest)
  BY <1>1, <1>2, CostUnion
<1>4. CostOver(lines, days) = CostOver(daily, days)
  <2>1. IsFiniteSet(S) /\ S \in SUBSET (BillDays \X LlmModels)
    BY <1>2, BillableDays
  <2>2. \A row \in S : row[1] \in days
    OBVIOUS
  <2>3. \A row \in S : lines[row] \in Nat /\ lines[row] = daily[row]
    BY <1>1, <2>1, <2>2 DEF Lines
  <2> HIDE DEF S
  <2>4. SumFunctionOnSet(lines, S) = SumFunctionOnSet(daily, S)
    BY <2>1, <2>3, SumSame
  <2> QED  BY <2>4 DEF CostOver, S
<1>5. CostOver(lines, rest) = 0
  <2>1. IsFiniteSet(R) /\ R \in SUBSET (BillDays \X LlmModels)
    BY <1>2, BillableDays
  <2>2. \A row \in R : row[1] \notin days
    BY <1>2
  <2>3. \A row \in R : lines[row] = 0
    BY <1>1, <2>1, <2>2
  <2> HIDE DEF R
  <2>4. SumFunctionOnSet(lines, R) = 0
    BY <2>1, <2>3, SumOfZeros
  <2> QED  BY <2>4 DEF CostOver, R
<1>6. CostOver(daily, days) \in Nat
  BY <1>2, CostTyped
<1>7. CostOver(lines, BillDays) = CostOver(daily, days)
  BY <1>3, <1>4, <1>5, <1>6
<1> QED  BY <1>1, <1>6, <1>7 DEF lines, days

LEMMA InvoicingInitial == InvoicingInit => InvoicingInv
PROOF
<1> SUFFICES ASSUME InvoicingInit PROVE InvoicingInv
  OBVIOUS
<1>1. InvoicingTypeOK
  BY DEF InvoicingInit, InvoicingTypeOK, NoLines, Lines
<1>2. IsFiniteSet(invoices)
  BY FS_EmptySet DEF InvoicingInit
<1> QED  BY <1>1, <1>2 DEF InvoicingInit, InvoicingInv

LEMMA InvoicingStep == InvoicingInv /\ [InvoicingNext]_invoicingVars => InvoicingInv'
PROOF
<1> SUFFICES ASSUME InvoicingInv, [InvoicingNext]_invoicingVars PROVE InvoicingInv'
  OBVIOUS
<1>0. /\ InvoicingTypeOK /\ IsFiniteSet(invoices)
      /\ daily \in Lines /\ bills \in [Billers -> Bills \cup {NoBill}]
      /\ invoices \subseteq Bills /\ billed \in Nat /\ records \in Nat
      /\ \A inv \in invoices : Accounted(daily, inv)
      /\ \A b \in Billers :
           bills[b] # NoBill /\ bills[b].step = "insert" => Accounted(daily, bills[b])
  BY DEF InvoicingInv, InvoicingTypeOK
<1>1. CASE RollUp
  <2>1. PICK row \in BillDays \X LlmModels :
          /\ records' = records + 1 /\ daily' = [daily EXCEPT ![row] = @ + 1]
          /\ invoices' = {Later(inv, row) : inv \in invoices}
          /\ bills' = [b \in Billers |->
                         IF bills[b] # NoBill /\ bills[b].step = "insert"
                         THEN Later(bills[b], row) ELSE bills[b]]
          /\ billed' = billed
    BY <1>1 DEF RollUp, UpsertUsageDaily
  <2>2. daily' \in Lines
    BY <1>0, <2>1, CostPlusOne
  <2>3. \A bill \in Bills :
          /\ Later(bill, row) \in Bills /\ Later(bill, row).step = bill.step
          /\ Accounted(daily, bill) => Accounted(daily', Later(bill, row))
    BY <1>0, <2>1, LaterAccounted
  <2>4. bills' \in [Billers -> Bills \cup {NoBill}]
    BY <1>0, <2>1, <2>3
  <2>5. invoices' \subseteq Bills /\ \A inv \in invoices' : Accounted(daily', inv)
    BY <1>0, <2>1, <2>3
  <2>6. IsFiniteSet(invoices')
    <3> DEFINE f == [inv \in invoices |-> Later(inv, row)]
    <3>1. f \in Surjection(invoices, invoices')
      BY <2>1 DEF Surjection
    <3> QED  BY <1>0, <3>1, FS_Surjection
  <2>7. \A b \in Billers :
          bills'[b] # NoBill /\ bills'[b].step = "insert" => Accounted(daily', bills'[b])
    <3> SUFFICES ASSUME NEW b \in Billers, bills'[b] # NoBill, bills'[b].step = "insert"
                 PROVE  Accounted(daily', bills'[b])
      OBVIOUS
    <3>1. CASE bills[b] # NoBill /\ bills[b].step = "insert"
      <4>1. bills'[b] = Later(bills[b], row) /\ bills[b] \in Bills
        BY <1>0, <2>1, <3>1
      <4> QED  BY <1>0, <2>3, <3>1, <4>1
    <3>2. CASE ~ (bills[b] # NoBill /\ bills[b].step = "insert")
      <4>1. bills'[b] = bills[b]
        BY <2>1, <3>2
      <4> QED  BY <3>2, <4>1
    <3> QED  BY <3>1, <3>2
  <2>8. \A b \in Billers :
          bills'[b] # NoBill /\ bills'[b].step = "read" => bills'[b].late = 0
    <3> SUFFICES ASSUME NEW b \in Billers, bills'[b] # NoBill, bills'[b].step = "read"
                 PROVE  bills'[b].late = 0
      OBVIOUS
    <3>1. bills[b] = NoBill \/ bills[b].step # "insert"
      <4> SUFFICES ASSUME bills[b] # NoBill, bills[b].step = "insert" PROVE FALSE
        OBVIOUS
      <4>1. bills'[b] = Later(bills[b], row) /\ bills[b] \in Bills
        BY <1>0, <2>1
      <4>2. Later(bills[b], row).step = "insert"
        BY <2>3, <4>1
      <4> QED  BY <4>1, <4>2
    <3>2. bills'[b] = bills[b]
      BY <2>1, <3>1
    <3> QED  BY <3>2 DEF InvoicingInv
  <2>9. InvoicingTypeOK'
    BY <1>0, <2>1, <2>2, <2>4, <2>5 DEF InvoicingTypeOK
  <2> QED  BY <2>5, <2>6, <2>7, <2>8, <2>9 DEF InvoicingInv
<1>2. ASSUME NEW b \in Billers, StartInvoice(b) PROVE InvoicingInv'
  <2>1. PICK from \in BillDays, to \in BillDays :
          /\ billed' = billed + 1 /\ UNCHANGED <<daily, invoices, records>>
          /\ bills' = [bills EXCEPT
                         ![b] = [step |-> "read", from |-> from, to |-> to,
                                 number |-> billed, lines |-> NoLines, total |-> 0,
                                 late |-> 0]]
    BY <1>2 DEF StartInvoice
  <2> DEFINE bill == [step |-> "read", from |-> from, to |-> to, number |-> billed,
                      lines |-> NoLines, total |-> 0, late |-> 0]
  <2>2. bill \in Bills /\ bill.step = "read"
    BY <1>0 DEF Bills, NoLines, Lines
  <2>3. bills' = [bills EXCEPT ![b] = bill]
    BY <2>1
  <2> HIDE DEF bill
  <2>4. /\ bills' \in [Billers -> Bills \cup {NoBill}] /\ bills'[b] = bill
        /\ \A c \in Billers : c # b => bills'[c] = bills[c]
    BY <1>0, <2>2, <2>3
  <2>5. \A c \in Billers :
          bills'[c] # NoBill /\ bills'[c].step = "insert" => Accounted(daily, bills'[c])
    BY <1>0, <2>2, <2>4
  <2> QED  BY <1>0, <2>1, <2>4, <2>5 DEF InvoicingInv, InvoicingTypeOK
<1>3. ASSUME NEW b \in Billers, ReadUsage(b) PROVE InvoicingInv'
  <2> DEFINE lines == GetUsageDailySummary(bills[b].from, bills[b].to)
             bill == [bills[b] EXCEPT !.step = "insert", !.lines = lines,
                                      !.total = CostOver(lines, BillDays)]
  <2>1. /\ bills[b] # NoBill /\ bills[b].step = "read"
        /\ bills' = [bills EXCEPT ![b] = bill]
        /\ UNCHANGED <<daily, invoices, billed, records>>
    BY <1>3 DEF ReadUsage
  <2>2. bills[b] \in Bills /\ bills[b].from \in BillDays /\ bills[b].to \in BillDays
    BY <1>0, <2>1 DEF Bills
  <2>3. /\ lines \in Lines /\ CostOver(lines, BillDays) \in Nat
        /\ CostOver(lines, BillDays) = CostOver(daily, Period(bills[b].from, bills[b].to))
    BY <1>0, <2>2, SummaryAccounted
  <2>4. bills[b].late = 0
    BY <1>0, <2>1, <2>2 DEF InvoicingInv
  <2> HIDE DEF lines
  <2>5. /\ bill \in Bills /\ bill.total = CostOver(lines, BillDays) /\ bill.late = 0
        /\ bill.from = bills[b].from /\ bill.to = bills[b].to
    BY <2>2, <2>3, <2>4 DEF Bills
  <2> HIDE DEF bill
  <2>6. Accounted(daily, bill)
    BY <2>3, <2>5 DEF Accounted
  <2>7. /\ bills' \in [Billers -> Bills \cup {NoBill}] /\ bills'[b] = bill
        /\ \A c \in Billers : c # b => bills'[c] = bills[c]
    BY <1>0, <2>1, <2>5
  <2>8. \A c \in Billers :
          bills'[c] # NoBill /\ bills'[c].step = "insert" => Accounted(daily, bills'[c])
    BY <1>0, <2>6, <2>7
  <2>9. \A c \in Billers :
          bills'[c] # NoBill /\ bills'[c].step = "read" => bills'[c].late = 0
    BY <2>5, <2>7 DEF InvoicingInv
  <2> QED  BY <1>0, <2>1, <2>7, <2>8, <2>9 DEF InvoicingInv, InvoicingTypeOK
<1>4. ASSUME NEW b \in Billers, CreateInvoice(b) PROVE InvoicingInv'
  <2>1. /\ bills[b] # NoBill /\ bills[b].step = "insert"
        /\ invoices' = invoices \cup {bills[b]}
        /\ bills' = [bills EXCEPT ![b] = NoBill]
        /\ UNCHANGED <<daily, billed, records>>
    BY <1>4 DEF CreateInvoice, InsertInvoice
  <2>2. IsFiniteSet(invoices')
    BY <1>0, <2>1, FS_AddElement
  <2>3. invoices' \subseteq Bills /\ \A inv \in invoices' : Accounted(daily, inv)
    BY <1>0, <2>1
  <2>4. /\ bills' \in [Billers -> Bills \cup {NoBill}]
        /\ \A c \in Billers : bills'[c] # NoBill => bills'[c] = bills[c]
    BY <1>0, <2>1
  <2> QED  BY <1>0, <2>1, <2>2, <2>3, <2>4 DEF InvoicingInv, InvoicingTypeOK
<1>5. ASSUME NEW b \in Billers, InvoiceFails(b) PROVE InvoicingInv'
  <2>1. /\ bills' = [bills EXCEPT ![b] = NoBill]
        /\ UNCHANGED <<daily, invoices, billed, records>>
    BY <1>5 DEF InvoiceFails
  <2>2. /\ bills' \in [Billers -> Bills \cup {NoBill}]
        /\ \A c \in Billers : bills'[c] # NoBill => bills'[c] = bills[c]
    BY <1>0, <2>1
  <2> QED  BY <1>0, <2>1, <2>2 DEF InvoicingInv, InvoicingTypeOK
<1>6. CASE UNCHANGED invoicingVars
  BY <1>0, <1>6 DEF invoicingVars, InvoicingInv, InvoicingTypeOK
<1> QED  BY <1>1, <1>2, <1>3, <1>4, <1>5, <1>6 DEF InvoicingNext

LEMMA InvoicingInvariant == InvoicingSpec => []InvoicingInv
BY InvoicingInitial, InvoicingStep, PTL DEF InvoicingSpec

\* Invoices of disjoint periods together bill at most what their days cost.
LEMMA DisjointTotals ==
  ASSUME InvoicingInv, NEW some \in SUBSET invoices,
         \A i, j \in some : i # j => Period(i.from, i.to) \cap Period(j.from, j.to) = {}
  PROVE  SumFunctionOnSet(Totals, some)
           <= CostOver(daily, UNION {Period(i.from, i.to) : i \in some})
PROOF
<1> DEFINE Days(T) == UNION {Period(i.from, i.to) : i \in T}
           Sum(T) == SumFunctionOnSet(Totals, T)
           B == {T \in SUBSET some : ~ (Sum(T) <= CostOver(daily, Days(T)))}
<1>0. /\ IsFiniteSet(some) /\ daily \in Lines
      /\ \A i \in invoices : /\ i.total \in Nat /\ i.late \in Nat /\ Totals[i] = i.total
                             /\ Accounted(daily, i)
  <2>1. IsFiniteSet(some)
    BY FS_Subset DEF InvoicingInv
  <2> QED  BY <2>1 DEF InvoicingInv, InvoicingTypeOK, Bills, Totals
<1>1. SUFFICES ASSUME B # {} PROVE FALSE
  BY <1>0
<1>2. PICK T \in B : \A U \in B : U \subseteq T => U = T
  <2>1. B \subseteq SUBSET some
    OBVIOUS
  <2> HIDE DEF B
  <2> QED  BY <1>0, <1>1, <2>1, LeastSubset
<1>3. /\ T \in SUBSET some /\ ~ (Sum(T) <= CostOver(daily, Days(T))) /\ IsFiniteSet(T)
  BY <1>0, FS_Subset
<1>4. \A U \in SUBSET T : U # T => Sum(U) <= CostOver(daily, Days(U))
  BY <1>2, <1>3
<1>5. \A U \in SUBSET T : Days(U) \in SUBSET BillDays /\ CostOver(daily, Days(U)) \in Nat
  <2>1. \A U \in SUBSET T : Days(U) \in SUBSET BillDays
    BY DEF Period
  <2> QED  BY <1>0, <2>1, CostTyped
<1> HIDE DEF B
<1>6. T # {}
  <2>1. Sum({}) = 0
    BY SumEmpty
  <2>2. CostOver(daily, Days(T)) \in Nat
    BY <1>5
  <2> HIDE DEF Days, Sum
  <2> QED  BY <1>3, <2>1, <2>2
<1>7. PICK x \in T : TRUE
  BY <1>6
<1> DEFINE U == T \ {x}
           P == Period(x.from, x.to)
<1>8. /\ U \in SUBSET T /\ U # T
      /\ Days(T) = P \cup Days(U) /\ P \cap Days(U) = {}
      /\ P \in SUBSET BillDays
  <2>1. \A i \in U : Period(i.from, i.to) \cap P = {}
    BY <1>3
  <2> QED  BY <2>1 DEF Period
<1>9. Sum(T) = Totals[x] + Sum(U) /\ Sum(U) \in Nat
  <2>1. \A y \in T : Totals[y] \in Nat
    BY <1>0, <1>3
  <2>2. IsFiniteSet(U)
    BY <1>3, FS_Subset
  <2> QED  BY <1>3, <2>1, <2>2, SumSplit
<1>10. CostOver(daily, P) = x.total + x.late /\ Totals[x] = x.total
       /\ x.total \in Nat /\ x.late \in Nat
  BY <1>0, <1>3 DEF Accounted
<1> HIDE DEF U, P, Days
<1>11. CostOver(daily, Days(T)) = CostOver(daily, P) + CostOver(daily, Days(U))
  BY <1>0, <1>5, <1>8, CostUnion
<1>12. Sum(U) <= CostOver(daily, Days(U)) /\ CostOver(daily, Days(U)) \in Nat
  BY <1>4, <1>5, <1>8
<1> HIDE DEF Sum
<1> QED  BY <1>3, <1>9, <1>10, <1>11, <1>12

\* Calls, lines and invoices keep their types; totals are numbers.
THEOREM InvoicingTyped == InvoicingSpec => []InvoicingTypeOK
PROOF
<1>1. InvoicingInv => InvoicingTypeOK
  BY DEF InvoicingInv
<1> QED  BY <1>1, InvoicingInvariant, PTL

\* Whatever rollups and calls of GenerateInvoice interleave, an invoice is what
\* its days cost but for what was added after it read them, and invoices of
\* periods without a common day never bill more than there was.
THEOREM InvoicesAddUp == InvoicingSpec => []InvoicesExplained
PROOF
<1>1. ASSUME InvoicingInv PROVE InvoicesExplained
  <2>1. \A inv \in invoices :
          CostOver(daily, Period(inv.from, inv.to)) = inv.total + inv.late
    BY <1>1 DEF InvoicingInv, Accounted
  <2>2. ASSUME NEW some \in SUBSET invoices,
               \A i, j \in some :
                 i # j => Period(i.from, i.to) \cap Period(j.from, j.to) = {}
        PROVE  SumFunctionOnSet(Totals, some) <= CostOver(daily, BillDays)
    <3> DEFINE days == UNION {Period(i.from, i.to) : i \in some}
    <3>1. SumFunctionOnSet(Totals, some) <= CostOver(daily, days)
      BY <1>1, <2>2, DisjointTotals
    <3>2. daily \in Lines /\ days \in SUBSET BillDays
      BY <1>1 DEF InvoicingInv, InvoicingTypeOK, Period
    <3>3. /\ CostOver(daily, days) \in Nat /\ CostOver(daily, BillDays) \in Nat
          /\ CostOver(daily, days) <= CostOver(daily, BillDays)
      BY <3>2, CostTyped, CostMonotone
    <3>4. SumFunctionOnSet(Totals, some) \in Nat
      <4>1. IsFiniteSet(some) /\ \A y \in some : Totals[y] \in Nat
        BY <1>1, FS_Subset DEF InvoicingInv, InvoicingTypeOK, Bills, Totals
      <4> QED  BY <4>1, SumSplit
    <3> QED  BY <3>1, <3>3, <3>4
  <2> QED  BY <2>1, <2>2 DEF InvoicesExplained
<1> QED  BY <1>1, InvoicingInvariant, PTL

(***************************************************************************)
(* Schedules.                                                              *)
(***************************************************************************)

\* UNIQUE (tenant_id, type).
OneOfAType ==
  \A r, s \in ScheduleIds :
    /\ HasRow(r) /\ HasRow(s)
    /\ schedules[r].owner = schedules[s].owner
    /\ schedules[r].type = schedules[s].type
    => r = s

IdsUsed ==
  /\ \A w \in Schedulers : \A entry \in registered[w] : schedules[entry.id] # NoSchedule
  /\ \A f \in firings : schedules[f.entry.id] # NoSchedule

\* What a scheduler has registered, and the table, but for the touched rows.
EntriesMatch(w) ==
  /\ \A entry \in registered[w] \ ListAllEnabled : entry.id \in touched[w]
  /\ \A entry \in ListAllEnabled \ registered[w] : entry.id \in touched[w]
  /\ \A entry, other \in registered[w] :
       entry.owner = other.owner /\ entry.type = other.type => entry = other

Matched == \A w \in Schedulers : scheduler[w] # "down" => EntriesMatch(w)

LostDropped == \A s \in lost : schedules[s] = Dropped

ScheduleInv ==
  /\ SchedulesTypeOK /\ OneOfAType /\ IdsUsed /\ Matched /\ LostDropped

(***************************************************************************)
(* Rows and the list of enabled ones.                                      *)
(***************************************************************************)

LEMMA RowTyped ==
  ASSUME SchedulesTypeOK, NEW s \in ScheduleIds
  PROVE  HasRow(s) <=> schedules[s] \in ScheduleRecords
BY NamesAssumption DEF SchedulesTypeOK, HasRow

LEMMA EntriesTyped ==
  ASSUME SchedulesTypeOK
  PROVE  ListAllEnabled \subseteq Entry
PROOF
<1> SUFFICES ASSUME NEW s \in ScheduleIds, HasRow(s)
             PROVE  [id |-> s, owner |-> schedules[s].owner, type |-> schedules[s].type,
                     cron |-> schedules[s].cron] \in Entry
  BY DEF ListAllEnabled
<1> QED  BY RowTyped DEF ScheduleRecords, Entry

\* An entry of the list is the row of its id.
LEMMA ListedEntry ==
  ASSUME SchedulesTypeOK, NEW entry \in Entry
  PROVE  entry \in ListAllEnabled <=>
           /\ HasRow(entry.id) /\ schedules[entry.id].enabled
           /\ entry.owner = schedules[entry.id].owner
           /\ entry.type = schedules[entry.id].type
           /\ entry.cron = schedules[entry.id].cron
PROOF
<1> DEFINE Of(s) == [id |-> s, owner |-> schedules[s].owner, type |-> schedules[s].type,
                     cron |-> schedules[s].cron]
<1>1. \A s \in ScheduleIds :
        entry = Of(s) <=> /\ s = entry.id /\ entry.owner = schedules[s].owner
                          /\ entry.type = schedules[s].type
                          /\ entry.cron = schedules[s].cron
  BY DEF Entry
<1>2. entry.id \in ScheduleIds
  BY DEF Entry
<1>3. entry \in ListAllEnabled <=>
        \E s \in ScheduleIds : HasRow(s) /\ schedules[s].enabled /\ entry = Of(s)
  BY DEF ListAllEnabled
<1> HIDE DEF Of
<1> QED  BY <1>1, <1>2, <1>3

\* Two enabled rows of one owner and type are one.
LEMMA ListUnique ==
  ASSUME SchedulesTypeOK, OneOfAType,
         NEW entry \in ListAllEnabled, NEW other \in ListAllEnabled,
         entry.owner = other.owner, entry.type = other.type
  PROVE  entry = other
PROOF
<1>1. entry \in Entry /\ other \in Entry
  BY EntriesTyped
<1>2. entry.id = other.id
  BY <1>1, ListedEntry DEF OneOfAType, Entry
<1>3. entry.cron = other.cron
  BY <1>1, <1>2, ListedEntry
<1> QED  BY <1>1, <1>2, <1>3 DEF Entry

(***************************************************************************)
(* A row that is written.                                                  *)
(***************************************************************************)

\* What a statement on row s may leave there: a row no other one clashes with,
\* where none was dropped before, or the mark of a deleted one.
Writable(s, row) ==
  \/ row = Dropped /\ HasRow(s)
  \/ /\ row \in ScheduleRecords /\ schedules[s] # Dropped
     /\ TypeFree(s, row.owner, row.type)

LEMMA WriteKeeps ==
  ASSUME ScheduleInv, NEW s \in ScheduleIds, NEW row, Writable(s, row), WriteRow(s, row),
         UNCHANGED <<schedulerVars, firingVars>>,
         edits' \in [Editors -> Edit \cup {NoEdit}], editsMade' \in Nat
  PROVE  ScheduleInv'
PROOF
<1> USE DEF ScheduleInv
<1>1. /\ row \in ScheduleRecords \cup {Dropped}
      /\ schedules' = [schedules EXCEPT ![s] = row]
      /\ touched' = [w \in Schedulers |-> touched[w] \cup {s}]
  BY DEF Writable, WriteRow
<1>2. SchedulesTypeOK'
  BY <1>1 DEF SchedulesTypeOK, schedulerVars, firingVars
<1>3. /\ schedules'[s] = row
      /\ \A r \in ScheduleIds \ {s} : schedules'[r] = schedules[r]
      /\ \A w \in Schedulers : s \in touched'[w] /\ touched[w] \subseteq touched'[w]
  BY <1>1 DEF SchedulesTypeOK
<1>4. OneOfAType'
  <2>1. \A r \in ScheduleIds \ {s} : HasRow(r)' = HasRow(r)
    BY <1>3 DEF HasRow
  <2>2. \A r \in ScheduleIds \ {s} :
          HasRow(r)' /\ HasRow(s)' =>
            schedules'[r].owner # row.owner \/ schedules'[r].type # row.type
    BY <1>3, <2>1 DEF Writable, TypeFree, HasRow
  <2> QED  BY <1>3, <2>1, <2>2 DEF OneOfAType
<1>5. IdsUsed' /\ LostDropped'
  <2>1. schedules'[s] # NoSchedule
    BY <1>3, NamesAssumption DEF Writable
  <2>2. \A r \in ScheduleIds : schedules[r] # NoSchedule => schedules'[r] # NoSchedule
    BY <1>3, <2>1
  <2>3. \A r \in ScheduleIds : schedules[r] = Dropped => schedules'[r] = Dropped
    BY <1>3 DEF Writable, HasRow
  <2>4. /\ \A w \in Schedulers : \A entry \in registered[w] : entry.id \in ScheduleIds
        /\ \A f \in firings : f.entry.id \in ScheduleIds
        /\ lost \subseteq ScheduleIds
    BY DEF SchedulesTypeOK, Entry
  <2> QED  BY <2>2, <2>3, <2>4 DEF IdsUsed, LostDropped, schedulerVars, firingVars
<1>6. Matched'
  <2> SUFFICES ASSUME NEW w \in Schedulers, scheduler[w] # "down"
               PROVE  EntriesMatch(w)'
    BY DEF Matched, schedulerVars
  <2>1. EntriesMatch(w) /\ registered'[w] = registered[w]
    BY DEF Matched, schedulerVars
  <2>2. \A entry \in Entry : entry.id # s =>
          (entry \in ListAllEnabled <=> (entry \in ListAllEnabled)')
    <3> SUFFICES ASSUME NEW entry \in Entry, entry.id # s
                 PROVE  entry \in ListAllEnabled <=> (entry \in ListAllEnabled)'
      OBVIOUS
    <3>1. schedules'[entry.id] = schedules[entry.id]
      BY <1>3 DEF Entry
    <3>2. entry \in ListAllEnabled' <=>
            \E r \in ScheduleIds :
              /\ HasRow(r)' /\ schedules'[r].enabled
              /\ entry = [id |-> r, owner |-> schedules'[r].owner,
                          type |-> schedules'[r].type, cron |-> schedules'[r].cron]
      BY DEF ListAllEnabled
    <3>3. entry \in ListAllEnabled <=>
            \E r \in ScheduleIds :
              /\ HasRow(r) /\ schedules[r].enabled
              /\ entry = [id |-> r, owner |-> schedules[r].owner,
                          type |-> schedules[r].type, cron |-> schedules[r].cron]
      BY DEF ListAllEnabled
    <3>4. HasRow(entry.id)' = HasRow(entry.id)
      BY <3>1 DEF HasRow
    <3> QED  BY <3>1, <3>2, <3>3, <3>4
  <2>3. ListAllEnabled' \subseteq Entry /\ registered[w] \subseteq Entry
    <3>1. \A r \in ScheduleIds : HasRow(r)' => schedules'[r] \in ScheduleRecords
      BY <1>2 DEF SchedulesTypeOK, HasRow
    <3>2. ListAllEnabled' \subseteq Entry
      BY <3>1 DEF ListAllEnabled, ScheduleRecords, Entry
    <3> QED  BY <3>2 DEF SchedulesTypeOK
  <2> QED  BY <1>3, <2>1, <2>2, <2>3 DEF EntriesMatch
<1> QED  BY <1>2, <1>4, <1>5, <1>6

\* A step that leaves the table, the schedulers and the tasks alone.
LEMMA QuietKeeps ==
  ASSUME ScheduleInv,
         UNCHANGED <<schedules, schedulerVars, firingVars, touched>>,
         edits' \in [Editors -> Edit \cup {NoEdit}], editsMade' \in Nat
  PROVE  ScheduleInv'
PROOF
<1>1. SchedulesTypeOK'
  BY DEF ScheduleInv, SchedulesTypeOK, schedulerVars, firingVars
<1>2. OneOfAType' /\ IdsUsed' /\ LostDropped'
  BY DEF ScheduleInv, OneOfAType, IdsUsed, LostDropped, HasRow, schedulerVars, firingVars
<1>3. Matched'
  BY DEF ScheduleInv, Matched, EntriesMatch, ListAllEnabled, HasRow, schedulerVars, firingVars
<1> QED  BY <1>1, <1>2, <1>3 DEF ScheduleInv

(***************************************************************************)
(* Requests.                                                               *)
(***************************************************************************)

LEMMA CreateKeeps ==
  ASSUME ScheduleInv, Create
  PROVE  ScheduleInv'
PROOF
<1>1. PICK s \in ScheduleIds, owner \in Owners, type \in Types, cron \in Crons :
        /\ editsMade' = editsMade + 1
        /\ schedules[s] = NoSchedule
        /\ TypeFree(s, owner, type)
        /\ InsertSchedule(s, owner, type, cron)
        /\ UNCHANGED <<edits, schedulerVars, firingVars>>
  BY DEF Create
<1> DEFINE row == [owner |-> owner, type |-> type, cron |-> cron, enabled |-> TRUE]
<1>2. Writable(s, row) /\ WriteRow(s, row)
  BY <1>1, NamesAssumption DEF Writable, InsertSchedule, ScheduleRecords
<1>3. edits' \in [Editors -> Edit \cup {NoEdit}] /\ editsMade' \in Nat
  BY <1>1 DEF ScheduleInv, SchedulesTypeOK
<1> HIDE DEF row
<1> QED  BY <1>1, <1>2, <1>3, WriteKeeps

LEMMA ReadKeeps ==
  ASSUME ScheduleInv, NEW c \in Editors, BeginEdit(c) \/ OwnedSchedule(c)
  PROVE  ScheduleInv'
PROOF
<1>1. CASE BeginEdit(c)
  <2>1. edits' \in [Editors -> Edit \cup {NoEdit}] /\ editsMade' \in Nat
    BY <1>1 DEF BeginEdit, ScheduleInv, SchedulesTypeOK
  <2> QED  BY <1>1, <2>1, QuietKeeps DEF BeginEdit
<1>2. CASE OwnedSchedule(c)
  <2>1. edits[c] \in Edit
    BY <1>2 DEF OwnedSchedule, ScheduleInv, SchedulesTypeOK
  <2>2. [edits[c] EXCEPT !.step = "write"] \in Edit
    BY <2>1 DEF Edit
  <2>3. edits' \in [Editors -> Edit \cup {NoEdit}]
    BY <1>2, <2>2 DEF OwnedSchedule, ScheduleInv, SchedulesTypeOK
  <2> QED  BY <1>2, <2>3, QuietKeeps DEF OwnedSchedule, ScheduleInv, SchedulesTypeOK
<1> QED  BY <1>1, <1>2

LEMMA WriteEditKeeps ==
  ASSUME ScheduleInv, NEW c \in Editors, Update(c) \/ Toggle(c) \/ Delete(c)
  PROVE  ScheduleInv'
PROOF
<1> DEFINE e == edits[c]
<1>1. /\ e \in Edit /\ e.id \in ScheduleIds
      /\ edits' \in [Editors -> Edit \cup {NoEdit}] /\ editsMade' \in Nat
      /\ UNCHANGED <<schedulerVars, firingVars>>
  BY DEF Update, Toggle, Delete, EditOf, ScheduleInv, SchedulesTypeOK, Edit
<1>2. CASE UNCHANGED <<schedules, touched>>
  BY <1>1, <1>2, QuietKeeps
<1>3. CASE HasRow(e.id) /\ TypeFree(e.id, schedules[e.id].owner, e.type)
           /\ UpdateSchedule(e.id, e.type, e.cron)
  <2> DEFINE row == [schedules[e.id] EXCEPT !.type = e.type, !.cron = e.cron]
  <2>1. schedules[e.id] \in ScheduleRecords
    BY <1>1, <1>3, RowTyped DEF ScheduleInv
  <2>2. /\ row \in ScheduleRecords /\ row.owner = schedules[e.id].owner
        /\ row.type = e.type
    BY <1>1, <2>1 DEF ScheduleRecords, Edit
  <2>3. Writable(e.id, row) /\ WriteRow(e.id, row)
    BY <1>3, <2>2 DEF Writable, UpdateSchedule, HasRow
  <2> HIDE DEF row
  <2> QED  BY <1>1, <2>3, WriteKeeps
<1>4. CASE HasRow(e.id) /\ ToggleSchedule(e.id)
  <2> DEFINE row == [schedules[e.id] EXCEPT !.enabled = ~ @]
  <2>1. schedules[e.id] \in ScheduleRecords
    BY <1>1, <1>4, RowTyped DEF ScheduleInv
  <2>2. /\ row \in ScheduleRecords /\ row.owner = schedules[e.id].owner
        /\ row.type = schedules[e.id].type
    BY <2>1 DEF ScheduleRecords
  <2>3. TypeFree(e.id, row.owner, row.type)
    BY <1>1, <1>4, <2>2 DEF ScheduleInv, OneOfAType, TypeFree
  <2>4. Writable(e.id, row) /\ WriteRow(e.id, row)
    BY <1>4, <2>2, <2>3 DEF Writable, ToggleSchedule, HasRow
  <2> HIDE DEF row
  <2> QED  BY <1>1, <2>4, WriteKeeps
<1>5. CASE HasRow(e.id) /\ DeleteSchedule(e.id)
  <2>1. Writable(e.id, Dropped) /\ WriteRow(e.id, Dropped)
    BY <1>5 DEF Writable, DeleteSchedule
  <2> QED  BY <1>1, <2>1, WriteKeeps
<1> QED
  BY <1>2, <1>3, <1>4, <1>5 DEF Update, Toggle, Delete

(***************************************************************************)
(* Schedulers and report tasks.                                            *)
(***************************************************************************)

LEMMA LoadKeeps ==
  ASSUME ScheduleInv, NEW w \in Schedulers, LoadSchedules(w)
  PROVE  ScheduleInv'
PROOF
<1> USE DEF ScheduleInv
<1>1. /\ UNCHANGED <<schedules, edits, editsMade, firings, fired, lost>>
      /\ registered' = [registered EXCEPT ![w] = ListAllEnabled]
      /\ scheduler' = [scheduler EXCEPT ![w] = "loaded"]
      /\ touched' = [touched EXCEPT ![w] = {}]
      /\ starts' = starts + 1
  BY DEF LoadSchedules, scheduleVars, firingVars
<1>2. SchedulesTypeOK'
  BY <1>1, EntriesTyped DEF SchedulesTypeOK
<1>3. /\ registered'[w] = ListAllEnabled
      /\ \A v \in Schedulers \ {w} :
           /\ registered'[v] = registered[v] /\ scheduler'[v] = scheduler[v]
           /\ touched'[v] = touched[v]
  BY <1>1 DEF SchedulesTypeOK
<1>4. ListAllEnabled' = ListAllEnabled
  BY <1>1 DEF ListAllEnabled, HasRow
<1>5. \A entry \in ListAllEnabled : schedules[entry.id] # NoSchedule
  BY DEF ListAllEnabled, HasRow
<1>6. OneOfAType' /\ LostDropped'
  BY <1>1 DEF OneOfAType, LostDropped, HasRow
<1>7. IdsUsed'
  BY <1>1, <1>3, <1>5 DEF IdsUsed
<1>8. EntriesMatch(w)'
  BY <1>3, <1>4, ListUnique DEF EntriesMatch
<1>9. \A v \in Schedulers \ {w} : EntriesMatch(v) => EntriesMatch(v)'
  BY <1>3, <1>4 DEF EntriesMatch
<1>10. Matched'
  BY <1>3, <1>8, <1>9 DEF Matched
<1> QED  BY <1>2, <1>6, <1>7, <1>10

LEMMA SchedulerKeeps ==
  ASSUME ScheduleInv, NEW w \in Schedulers, StartScheduler(w) \/ StopScheduler(w)
  PROVE  ScheduleInv'
PROOF
<1> USE DEF ScheduleInv
<1>1. /\ UNCHANGED <<schedules, edits, editsMade, starts, firings, fired, lost, touched>>
      /\ \/ /\ scheduler[w] = "loaded" /\ registered' = registered
            /\ scheduler' = [scheduler EXCEPT ![w] = "running"]
         \/ /\ scheduler' = [scheduler EXCEPT ![w] = "down"]
            /\ registered' = [registered EXCEPT ![w] = {}]
  BY DEF StartScheduler, StopScheduler, scheduleVars, firingVars
<1>2. SchedulesTypeOK'
  BY <1>1 DEF SchedulesTypeOK
<1>3. \A v \in Schedulers :
        /\ registered'[v] \subseteq registered[v]
        /\ scheduler'[v] # "down" =>
             scheduler[v] # "down" /\ registered'[v] = registered[v]
  BY <1>1 DEF SchedulesTypeOK
<1>4. schedules' = schedules /\ touched' = touched /\ firings' = firings /\ lost' = lost
  BY <1>1
<1>5. OneOfAType' /\ LostDropped'
  BY <1>4 DEF OneOfAType, LostDropped, HasRow
<1>6. IdsUsed'
  BY <1>3, <1>4 DEF IdsUsed
<1>7. ListAllEnabled' = ListAllEnabled
  BY <1>4 DEF ListAllEnabled, HasRow
<1>8. \A v \in Schedulers : scheduler'[v] # "down" => EntriesMatch(v)'
  <2> SUFFICES ASSUME NEW v \in Schedulers, scheduler'[v] # "down"
               PROVE  EntriesMatch(v)'
    OBVIOUS
  <2>1. EntriesMatch(v) /\ registered'[v] = registered[v]
    BY <1>3 DEF Matched
  <2> QED  BY <1>4, <1>7, <2>1 DEF EntriesMatch
<1>9. Matched'
  BY <1>8 DEF Matched
<1> QED  BY <1>2, <1>5, <1>6, <1>9

LEMMA FireKeeps ==
  ASSUME ScheduleInv, NEW w \in Schedulers, Fire(w)
  PROVE  ScheduleInv'
PROOF
<1> USE DEF ScheduleInv
<1>1. PICK entry \in registered[w] :
        /\ fired' = fired + 1
        /\ firings' = firings \cup {[entry |-> entry, number |-> fired, failed |-> 0]}
  BY DEF Fire
<1>2. UNCHANGED <<schedules, edits, editsMade, registered, scheduler, starts, lost, touched>>
  BY DEF Fire, scheduleVars, schedulerVars
<1>3. entry \in Entry /\ schedules[entry.id] # NoSchedule
  BY DEF SchedulesTypeOK, IdsUsed
<1>4. SchedulesTypeOK'
  BY <1>1, <1>2, <1>3 DEF SchedulesTypeOK
<1>5. IdsUsed'
  BY <1>1, <1>2, <1>3 DEF IdsUsed
<1>6. OneOfAType' /\ LostDropped' /\ Matched'
  BY <1>2 DEF OneOfAType, LostDropped, Matched, EntriesMatch, ListAllEnabled, HasRow
<1> QED  BY <1>4, <1>5, <1>6

LEMMA RunKeeps ==
  ASSUME ScheduleInv, RunReport
  PROVE  ScheduleInv'
PROOF
<1> USE DEF ScheduleInv
<1>1. PICK f \in firings :
        /\ firings' =
             IF HasRow(f.entry.id) \/ f.failed + 1 = ReportAttempts THEN firings \ {f}
             ELSE (firings \ {f}) \cup {[f EXCEPT !.failed = @ + 1]}
        /\ lost' = IF ~ HasRow(f.entry.id) /\ f.failed + 1 = ReportAttempts
                   THEN lost \cup {f.entry.id} ELSE lost
  BY DEF RunReport
<1>2. UNCHANGED <<schedules, edits, editsMade, registered, scheduler, starts, fired, touched>>
  BY DEF RunReport, scheduleVars, schedulerVars
<1>3. /\ f \in [entry : Entry, number : Nat, failed : Nat] /\ f.entry.id \in ScheduleIds
      /\ schedules[f.entry.id] # NoSchedule
  BY DEF SchedulesTypeOK, IdsUsed, Entry
<1> DEFINE again == [f EXCEPT !.failed = @ + 1]
<1>4. again \in [entry : Entry, number : Nat, failed : Nat] /\ again.entry = f.entry
  BY <1>3
<1>5. firings' \subseteq firings \cup {again}
  BY <1>1
<1> HIDE DEF again
<1>6. SchedulesTypeOK'
  BY <1>1, <1>2, <1>3, <1>4, <1>5 DEF SchedulesTypeOK
<1>7. IdsUsed'
  BY <1>2, <1>3, <1>4, <1>5 DEF IdsUsed
<1>8. LostDropped'
  BY <1>1, <1>2, <1>3 DEF LostDropped, HasRow
<1>9. OneOfAType' /\ Matched'
  BY <1>2 DEF OneOfAType, Matched, EntriesMatch, ListAllEnabled, HasRow
<1> QED  BY <1>6, <1>7, <1>8, <1>9

(***************************************************************************)
(* The results.                                                            *)
(***************************************************************************)

LEMMA ScheduleInvInit == SchedulesInit => ScheduleInv
BY NamesAssumption DEF SchedulesInit, ScheduleInv, SchedulesTypeOK, OneOfAType, IdsUsed,
   Matched, EntriesMatch, LostDropped, HasRow

LEMMA ScheduleInvStep ==
  ASSUME ScheduleInv, [SchedulesNext]_schedulesVars
  PROVE  ScheduleInv'
PROOF
<1>1. CASE UNCHANGED schedulesVars
  <2>1. edits' \in [Editors -> Edit \cup {NoEdit}] /\ editsMade' \in Nat
    BY <1>1 DEF ScheduleInv, SchedulesTypeOK, schedulesVars, scheduleVars
  <2> QED  BY <1>1, <2>1, QuietKeeps DEF schedulesVars, scheduleVars
<1>2. CASE SchedulesNext
  BY <1>2, CreateKeeps, ReadKeeps, WriteEditKeeps, LoadKeeps, SchedulerKeeps, FireKeeps,
     RunKeeps DEF SchedulesNext
<1> QED  BY <1>1, <1>2

\* Rows, requests, registered entries and report tasks have their types.
THEOREM SchedulesTyped == SchedulesSpec => []SchedulesTypeOK
PROOF
<1>1. ScheduleInv /\ [SchedulesNext]_schedulesVars => ScheduleInv'
  BY ScheduleInvStep
<1>2. ScheduleInv => SchedulesTypeOK
  BY DEF ScheduleInv
<1> QED  BY <1>1, <1>2, ScheduleInvInit, PTL DEF SchedulesSpec

\* However requests, restarts and firings interleave, a scheduler fires what the
\* table says but for the rows changed since it read them, one report for an
\* owner and a type, and a report task that is archived is of a schedule deleted
\* meanwhile (startScheduler, CreateReport).
THEOREM FiringsAsRegistered == SchedulesSpec => []FiringsExplained
PROOF
<1>1. ScheduleInv /\ [SchedulesNext]_schedulesVars => ScheduleInv'
  BY ScheduleInvStep
<1>2. ScheduleInv => FiringsExplained
  BY DEF ScheduleInv, Matched, EntriesMatch, LostDropped, FiringsExplained
<1> QED  BY <1>1, <1>2, ScheduleInvInit, PTL DEF SchedulesSpec

(***************************************************************************)
(* Processes.                                                              *)
(***************************************************************************)

(***************************************************************************)
(* Types of the sequences of releases.                                     *)
(***************************************************************************)

\* What is left to release of a list: the head goes, the others stay.
LEMMA TailReleases ==
  ASSUME NEW S, NEW s \in Seq(S), s # <<>>, IsInjective(s)
  PROVE  /\ Tail(s) \in Seq(S) /\ IsInjective(Tail(s))
         /\ Range(Tail(s)) = Range(s) \ {Head(s)}
         /\ Head(s) \in Range(s)
PROOF
<1>1. /\ Len(s) \in Nat \ {0} /\ DOMAIN s = 1 .. Len(s)
      /\ Tail(s) \in Seq(S) /\ DOMAIN Tail(s) = 1 .. (Len(s) - 1)
      /\ \A i \in 1 .. (Len(s) - 1) : Tail(s)[i] = s[i + 1]
      /\ Head(s) = s[1]
  OBVIOUS
<1>2. IsInjective(Tail(s))
  BY <1>1 DEF IsInjective
<1>3. \A x \in Range(Tail(s)) : x \in Range(s) \ {Head(s)}
  <2> SUFFICES ASSUME NEW i \in 1 .. (Len(s) - 1)
               PROVE  s[i + 1] \in Range(s) \ {Head(s)}
    BY <1>1 DEF Range
  <2>1. i + 1 \in DOMAIN s /\ 1 \in DOMAIN s /\ i + 1 # 1
    BY <1>1
  <2> QED  BY <1>1, <2>1 DEF Range, IsInjective
<1>4. \A x \in Range(s) \ {Head(s)} : x \in Range(Tail(s))
  <2> SUFFICES ASSUME NEW i \in 1 .. Len(s), s[i] # Head(s)
               PROVE  s[i] \in Range(Tail(s))
    BY <1>1 DEF Range
  <2>1. i - 1 \in DOMAIN Tail(s) /\ Tail(s)[i - 1] = s[i]
    BY <1>1
  <2> QED  BY <2>1 DEF Range
<1>5. Head(s) \in Range(s)
  BY <1>1 DEF Range
<1> QED  BY <1>1, <1>2, <1>3, <1>4, <1>5

\* The releases in s are those of the set S, each once, and every activity comes
\* before what it uses.
Orderly(s, S) ==
  /\ s \in Seq(Resources) /\ IsInjective(s) /\ Range(s) = S
  /\ \A i, j \in DOMAIN s : s[j] \in Activities /\ s[i] \in UsedBy(s[j]) => j < i

LEMMA TailOrderly ==
  ASSUME NEW S, NEW s, Orderly(s, S), s # <<>>
  PROVE  /\ Head(s) \in S /\ Orderly(Tail(s), S \ {Head(s)})
         /\ \A a \in S \cap Activities : a # Head(s) => Head(s) \notin UsedBy(a)
PROOF
<1>1. s \in Seq(Resources) /\ IsInjective(s) /\ Range(s) = S
  BY DEF Orderly
<1>2. /\ Len(s) \in Nat \ {0} /\ DOMAIN s = 1 .. Len(s)
      /\ Tail(s) \in Seq(Resources) /\ DOMAIN Tail(s) = 1 .. (Len(s) - 1)
      /\ \A i \in 1 .. (Len(s) - 1) : Tail(s)[i] = s[i + 1]
      /\ Head(s) = s[1]
  BY <1>1
<1>3. ASSUME NEW i \in DOMAIN Tail(s), NEW j \in DOMAIN Tail(s),
             Tail(s)[j] \in Activities, Tail(s)[i] \in UsedBy(Tail(s)[j])
      PROVE  j < i
  <2>1. i + 1 \in DOMAIN s /\ j + 1 \in DOMAIN s /\ i \in Int /\ j \in Int
    BY <1>2
  <2>2. Tail(s)[i] = s[i + 1] /\ Tail(s)[j] = s[j + 1]
    BY <1>2
  <2>3. j + 1 < i + 1
    BY <1>3, <2>1, <2>2 DEF Orderly
  <2> QED  BY <2>1, <2>3
<1>4. ASSUME NEW a \in S \cap Activities, a # Head(s), Head(s) \in UsedBy(a)
      PROVE  FALSE
  <2>1. PICK j \in DOMAIN s : s[j] = a
    BY <1>1 DEF Range
  <2>2. 1 \in DOMAIN s /\ s[1] \in UsedBy(s[j]) /\ s[j] \in Activities
    BY <1>2, <1>4, <2>1
  <2>3. j < 1
    BY <2>2 DEF Orderly
  <2> QED  BY <1>2, <2>3
<1>5. /\ IsInjective(Tail(s)) /\ Range(Tail(s)) = S \ {Head(s)}
      /\ Head(s) \in S
  BY <1>1, TailReleases
<1> QED  BY <1>2, <1>3, <1>4, <1>5 DEF Orderly

LEMMA ConcatOrderly ==
  ASSUME NEW S, NEW T, NEW s, NEW t, Orderly(s, S), Orderly(t, T), S \cap T = {},
         \A a \in T \cap Activities : UsedBy(a) \cap S = {}
  PROVE  Orderly(s \o t, S \cup T)
PROOF
<1> DEFINE m == Len(s)
           n == Len(t)
           u == s \o t
<1>1. /\ s \in Seq(Resources) /\ m \in Nat /\ DOMAIN s = 1 .. m
      /\ t \in Seq(Resources) /\ n \in Nat /\ DOMAIN t = 1 .. n
  BY DEF Orderly
<1>2. /\ u \in Seq(Resources) /\ DOMAIN u = 1 .. (m + n)
      /\ \A i \in 1 .. m : u[i] = s[i]
      /\ \A i \in 1 .. n : u[m + i] = t[i]
  BY <1>1
<1>3. \A i \in DOMAIN u : i \in 1 .. m \/ i - m \in 1 .. n
  BY <1>1, <1>2
<1>4. \A i \in 1 .. m : i \in DOMAIN u /\ u[i] = s[i] /\ s[i] \in S
  BY <1>1, <1>2 DEF Orderly, Range
<1>5. \A i \in Int : i - m \in 1 .. n =>
        i \in DOMAIN u /\ u[i] = t[i - m] /\ t[i - m] \in T
  <2> SUFFICES ASSUME NEW i \in Int, i - m \in 1 .. n
               PROVE  i \in DOMAIN u /\ u[i] = t[i - m] /\ t[i - m] \in T
    OBVIOUS
  <2>1. i \in DOMAIN u /\ m + (i - m) = i
    BY <1>1, <1>2
  <2>2. u[i] = t[i - m]
    BY <1>2, <2>1
  <2>3. t[i - m] \in T
    BY <1>1 DEF Orderly, Range
  <2> QED  BY <2>1, <2>2, <2>3
<1>6. \A i \in DOMAIN u : i \in Int
  BY <1>1, <1>2
<1> HIDE DEF u, m, n
<1>7. IsInjective(u)
  <2> SUFFICES ASSUME NEW i \in DOMAIN u, NEW j \in DOMAIN u, u[i] = u[j] PROVE i = j
    BY DEF IsInjective
  <2>1. CASE i \in 1 .. m /\ j \in 1 .. m
    BY <1>1, <1>4, <2>1 DEF Orderly, IsInjective
  <2>2. CASE i - m \in 1 .. n /\ j - m \in 1 .. n
    <3>1. t[i - m] = t[j - m]
      BY <1>5, <1>6, <2>2
    <3>2. i - m = j - m
      BY <1>1, <2>2, <3>1 DEF Orderly, IsInjective
    <3> QED  BY <1>1, <1>6, <3>2
  <2>3. CASE i \in 1 .. m /\ j - m \in 1 .. n
    BY <1>4, <1>5, <1>6, <2>3
  <2>4. CASE i - m \in 1 .. n /\ j \in 1 .. m
    BY <1>4, <1>5, <1>6, <2>4
  <2> QED  BY <1>3, <2>1, <2>2, <2>3, <2>4
<1>8. Range(u) = S \cup T
  <2>1. \A x \in Range(u) : x \in S \cup T
    BY <1>3, <1>4, <1>5, <1>6 DEF Range
  <2>2. \A x \in S : x \in Range(u)
    <3> SUFFICES ASSUME NEW x \in S PROVE x \in Range(u)
      OBVIOUS
    <3>1. PICK i \in 1 .. m : s[i] = x
      BY <1>1 DEF Orderly, Range
    <3> QED  BY <1>4, <3>1 DEF Range
  <2>3. \A x \in T : x \in Range(u)
    <3> SUFFICES ASSUME NEW x \in T PROVE x \in Range(u)
      OBVIOUS
    <3>1. PICK i \in 1 .. n : t[i] = x
      BY <1>1 DEF Orderly, Range
    <3>2. m + i \in Int /\ (m + i) - m = i
      BY <1>1
    <3>3. m + i \in DOMAIN u /\ u[m + i] = x
      BY <1>5, <3>1, <3>2
    <3> QED  BY <3>3 DEF Range
  <2> QED  BY <2>1, <2>2, <2>3
<1>9. ASSUME NEW i \in DOMAIN u, NEW j \in DOMAIN u,
             u[j] \in Activities, u[i] \in UsedBy(u[j])
      PROVE  j < i
  <2>1. CASE i \in 1 .. m /\ j \in 1 .. m
    BY <1>1, <1>4, <1>9, <2>1 DEF Orderly
  <2>2. CASE i - m \in 1 .. n /\ j - m \in 1 .. n
    <3>1. j - m < i - m
      BY <1>1, <1>5, <1>6, <1>9, <2>2 DEF Orderly
    <3> QED  BY <1>1, <1>6, <3>1
  <2>3. CASE i - m \in 1 .. n /\ j \in 1 .. m
    BY <1>1, <1>6, <2>3
  <2>4. CASE i \in 1 .. m /\ j - m \in 1 .. n
    <3>1. u[i] \in S /\ u[j] \in T
      BY <1>4, <1>5, <1>6, <2>4
    <3> QED  BY <1>9, <3>1
  <2> QED  BY <1>3, <2>1, <2>2, <2>3, <2>4
<1> QED  BY <1>2, <1>7, <1>8, <1>9 DEF Orderly, u

(***************************************************************************)
(* The lists of the code.                                                  *)
(***************************************************************************)

LEMMA AllResources ==
  Resources = {"pool", "reader", "queue", "inspector", "objects", "crypto", "http",
               "emitter", "limiter", "tasks", "collector", "loop", "scheduler"}
BY DEF Resources, Range, ServerSteps, WorkerSteps

LEMMA EmptyOrderly == Orderly(<<>>, {})
BY DEF Orderly, Range, IsInjective

LEMMA OneOrderly ==
  ASSUME NEW r \in Resources
  PROVE  Orderly(<<r>>, {r})
PROOF
<1>1. r \in Activities => r \notin UsedBy(r)
  BY DEF Activities, UsedBy
<1> QED  BY <1>1 DEF Orderly, Range, IsInjective

\* Lists without an activity.
LEMMA PassiveOrderly ==
  ASSUME NEW s \in Seq(Resources), IsInjective(s), Range(s) \cap Activities = {}
  PROVE  Orderly(s, Range(s))
BY DEF Orderly, Range

LEMMA PassiveLists ==
  /\ Orderly(<<"pool">>, {"pool"})
  /\ Orderly(<<"reader", "pool">>, {"reader", "pool"})
  /\ Orderly(<<"queue", "reader", "pool">>, {"queue", "reader", "pool"})
  /\ Orderly(CloseServer, {"reader", "queue", "inspector", "pool"})
  /\ Orderly(CleanupWithEmitter, {"emitter", "reader", "pool"})
PROOF
<1>2. ASSUME NEW s, NEW S, s \in Seq(Resources), IsInjective(s), Range(s) = S,
             S \cap Activities = {}
      PROVE  Orderly(s, S)
  BY <1>2, PassiveOrderly
<1>3. Orderly(<<"pool">>, {"pool"})
  BY OneOrderly, AllResources
<1>4. Orderly(<<"reader", "pool">>, {"reader", "pool"})
  <2> DEFINE s == <<"reader", "pool">>
  <2>1. s \in Seq(Resources) /\ IsInjective(s) /\ Range(s) = {"reader", "pool"}
    BY AllResources DEF IsInjective, Range
  <2> QED  BY <1>2, <2>1 DEF Activities
<1>5. Orderly(<<"queue", "reader", "pool">>, {"queue", "reader", "pool"})
  <2> DEFINE s == <<"queue", "reader", "pool">>
  <2>1. s \in Seq(Resources) /\ IsInjective(s) /\ Range(s) = {"queue", "reader", "pool"}
    BY AllResources DEF IsInjective, Range
  <2> QED  BY <1>2, <2>1 DEF Activities
<1>6. Orderly(CloseServer, {"reader", "queue", "inspector", "pool"})
  <2>1. /\ CloseServer \in Seq(Resources) /\ IsInjective(CloseServer)
        /\ Range(CloseServer) = {"reader", "queue", "inspector", "pool"}
    BY AllResources DEF CloseServer, IsInjective, Range
  <2> QED  BY <1>2, <2>1 DEF Activities
<1>7. Orderly(CleanupWithEmitter, {"emitter", "reader", "pool"})
  <2>1. /\ CleanupWithEmitter \in Seq(Resources) /\ IsInjective(CleanupWithEmitter)
        /\ Range(CleanupWithEmitter) = {"emitter", "reader", "pool"}
    BY AllResources DEF CleanupWithEmitter, IsInjective, Range
  <2> QED  BY <1>2, <2>1 DEF Activities
<1> QED  BY <1>3, <1>4, <1>5, <1>6, <1>7

LEMMA WorkerLists ==
  /\ Orderly(CleanupWithRateLimiter, {"limiter", "emitter", "reader", "pool"})
  /\ Orderly(CleanupWithQueue, {"queue", "limiter", "emitter", "reader", "pool"})
  /\ Orderly(<<"tasks">> \o CleanupWithQueue,
             {"tasks", "queue", "limiter", "emitter", "reader", "pool"})
  /\ Orderly(<<"loop", "collector", "tasks">> \o CleanupWithQueue,
             {"loop", "collector", "tasks", "queue", "limiter", "emitter", "reader",
              "pool"})
  /\ Orderly(CloseWorker,
             {"loop", "scheduler", "tasks", "collector", "queue", "limiter", "emitter",
              "reader", "pool"})
  /\ Orderly(<<"http">> \o CloseServer, {"http", "reader", "queue", "inspector", "pool"})
PROOF
<1>1. ASSUME NEW r \in Resources, NEW t, NEW T, NEW U, Orderly(t, T), r \notin T,
             \A a \in T \cap Activities : r \notin UsedBy(a), U = {r} \cup T
      PROVE  Orderly(<<r>> \o t, U)
  <2>1. Orderly(<<r>>, {r})
    BY OneOrderly
  <2> QED  BY <1>1, <2>1, ConcatOrderly
<1>2. Orderly(CleanupWithRateLimiter, {"limiter", "emitter", "reader", "pool"})
  BY <1>1, PassiveLists, AllResources DEF CleanupWithRateLimiter, Activities
<1>3. Orderly(CleanupWithQueue, {"queue", "limiter", "emitter", "reader", "pool"})
  BY <1>1, <1>2, AllResources DEF CleanupWithQueue, Activities
<1>4. Orderly(<<"tasks">> \o CleanupWithQueue,
              {"tasks", "queue", "limiter", "emitter", "reader", "pool"})
  BY <1>1, <1>3, AllResources DEF Activities
<1>5. Orderly(<<"loop", "collector", "tasks">>, {"loop", "collector", "tasks"})
  <2> DEFINE s == <<"loop", "collector", "tasks">>
  <2>1. s \in Seq(Resources) /\ IsInjective(s) /\ Range(s) = {"loop", "collector", "tasks"}
    BY AllResources DEF IsInjective, Range
  <2>2. \A i, j \in DOMAIN s : s[j] \in Activities /\ s[i] \in UsedBy(s[j]) => j < i
    BY DEF Activities, UsedBy
  <2> QED  BY <2>1, <2>2 DEF Orderly
<1>6. Orderly(<<"loop", "collector", "tasks">> \o CleanupWithQueue,
              {"loop", "collector", "tasks"}
                \cup {"queue", "limiter", "emitter", "reader", "pool"})
  BY <1>3, <1>5, ConcatOrderly DEF Activities
<1>7. Orderly(CloseWorker,
              {"loop", "scheduler", "tasks", "collector", "queue", "limiter", "emitter",
               "reader", "pool"})
  <2>1. /\ CloseWorker \in Seq(Resources) /\ IsInjective(CloseWorker)
        /\ Range(CloseWorker) =
             {"loop", "scheduler", "tasks", "collector", "queue", "limiter", "emitter",
              "reader", "pool"}
    BY AllResources DEF CloseWorker, IsInjective, Range
  <2>2. ASSUME NEW i \in DOMAIN CloseWorker, NEW j \in DOMAIN CloseWorker,
               CloseWorker[j] \in Activities, CloseWorker[i] \in UsedBy(CloseWorker[j])
        PROVE  j < i
    <3>1. CASE CloseWorker[j] = "loop"
      BY <2>2, <3>1 DEF CloseWorker, UsedBy
    <3>2. CASE CloseWorker[j] = "tasks"
      BY <2>2, <3>2 DEF CloseWorker, UsedBy
    <3> QED  BY <2>2, <3>1, <3>2 DEF CloseWorker, Activities
  <2> QED  BY <2>1, <2>2 DEF Orderly
<1>8. Orderly(<<"http">> \o CloseServer, {"http", "reader", "queue", "inspector", "pool"})
  BY <1>1, PassiveLists, AllResources DEF Activities
<1> QED  BY <1>2, <1>3, <1>4, <1>6, <1>7, <1>8

(***************************************************************************)
(* What is open after n steps of New.                                      *)
(***************************************************************************)

OpenAt(p, n) == {StepsOf(p)[i] : i \in 1 .. n} \ Unclosable

LEMMA OpenNext ==
  ASSUME NEW p, NEW n \in Nat
  PROVE  /\ OpenAt(p, 0) = {}
         /\ OpenAt(p, n + 1) = OpenAt(p, n) \cup ({StepsOf(p)[n + 1]} \ Unclosable)
PROOF
<1>1. 1 .. (n + 1) = (1 .. n) \cup {n + 1} /\ 1 .. 0 = {}
  OBVIOUS
<1> QED  BY <1>1 DEF OpenAt

LEMMA ServerOpen ==
  /\ Len(ServerSteps) = 7
  /\ ServerSteps[1] = "pool" /\ OpenAt("server", 0) = {}
  /\ ServerSteps[2] = "reader" /\ OpenAt("server", 1) = {"pool"}
  /\ ServerSteps[3] = "queue" /\ OpenAt("server", 2) = {"pool", "reader"}
  /\ ServerSteps[4] = "inspector" /\ OpenAt("server", 3) = {"pool", "reader", "queue"}
  /\ ServerSteps[5] = "objects"
  /\ OpenAt("server", 4) = {"pool", "reader", "queue", "inspector"}
  /\ ServerSteps[6] = "crypto"
  /\ OpenAt("server", 5) = {"pool", "reader", "queue", "inspector"}
  /\ ServerSteps[7] = "http"
  /\ OpenAt("server", 6) = {"pool", "reader", "queue", "inspector"}
  /\ OpenAt("server", 7) = {"pool", "reader", "queue", "inspector", "http"}
PROOF
<1>1. /\ StepsOf("server") = ServerSteps /\ Len(ServerSteps) = 7
      /\ ServerSteps[1] = "pool" /\ ServerSteps[2] = "reader" /\ ServerSteps[3] = "queue"
      /\ ServerSteps[4] = "inspector" /\ ServerSteps[5] = "objects"
      /\ ServerSteps[6] = "crypto" /\ ServerSteps[7] = "http"
  BY DEF StepsOf, ServerSteps
<1>2. \A n \in Nat :
        OpenAt("server", n + 1)
          = OpenAt("server", n) \cup ({ServerSteps[n + 1]} \ {"objects", "crypto"})
  BY <1>1, OpenNext DEF Unclosable
<1> HIDE DEF ServerSteps
<1>3. OpenAt("server", 0) = {}
  BY OpenNext
<1>4. OpenAt("server", 1) = {"pool"}
  BY <1>1, <1>2, <1>3
<1>5. OpenAt("server", 2) = {"pool", "reader"}
  BY <1>1, <1>2, <1>4
<1>6. OpenAt("server", 3) = {"pool", "reader", "queue"}
  BY <1>1, <1>2, <1>5
<1>7. OpenAt("server", 4) = {"pool", "reader", "queue", "inspector"}
  BY <1>1, <1>2, <1>6
<1>8. OpenAt("server", 5) = {"pool", "reader", "queue", "inspector"}
  BY <1>1, <1>2, <1>7
<1>9. OpenAt("server", 6) = {"pool", "reader", "queue", "inspector"}
  BY <1>1, <1>2, <1>8
<1>10. OpenAt("server", 7) = {"pool", "reader", "queue", "inspector", "http"}
  BY <1>1, <1>2, <1>9
<1> QED  BY <1>1, <1>3, <1>4, <1>5, <1>6, <1>7, <1>8, <1>9, <1>10

LEMMA WorkerOpen ==
  /\ Len(WorkerSteps) = 11
  /\ WorkerSteps[1] = "pool" /\ OpenAt("worker", 0) = {}
  /\ WorkerSteps[2] = "reader" /\ OpenAt("worker", 1) = {"pool"}
  /\ WorkerSteps[3] = "emitter" /\ OpenAt("worker", 2) = {"pool", "reader"}
  /\ WorkerSteps[4] = "objects" /\ OpenAt("worker", 3) = {"pool", "reader", "emitter"}
  /\ WorkerSteps[5] = "crypto" /\ OpenAt("worker", 4) = {"pool", "reader", "emitter"}
  /\ WorkerSteps[6] = "limiter" /\ OpenAt("worker", 5) = {"pool", "reader", "emitter"}
  /\ WorkerSteps[7] = "queue"
  /\ OpenAt("worker", 6) = {"pool", "reader", "emitter", "limiter"}
  /\ WorkerSteps[8] = "tasks"
  /\ OpenAt("worker", 7) = {"pool", "reader", "emitter", "limiter", "queue"}
  /\ WorkerSteps[9] = "collector"
  /\ OpenAt("worker", 8) = {"pool", "reader", "emitter", "limiter", "queue", "tasks"}
  /\ WorkerSteps[10] = "loop"
  /\ OpenAt("worker", 9) =
       {"pool", "reader", "emitter", "limiter", "queue", "tasks", "collector"}
  /\ WorkerSteps[11] = "scheduler"
  /\ OpenAt("worker", 10) =
       {"pool", "reader", "emitter", "limiter", "queue", "tasks", "collector", "loop"}
  /\ OpenAt("worker", 11) =
       {"pool", "reader", "emitter", "limiter", "queue", "tasks", "collector", "loop",
        "scheduler"}
PROOF
<1>1. /\ StepsOf("worker") = WorkerSteps /\ Len(WorkerSteps) = 11
      /\ WorkerSteps[1] = "pool" /\ WorkerSteps[2] = "reader" /\ WorkerSteps[3] = "emitter"
      /\ WorkerSteps[4] = "objects" /\ WorkerSteps[5] = "crypto"
      /\ WorkerSteps[6] = "limiter" /\ WorkerSteps[7] = "queue" /\ WorkerSteps[8] = "tasks"
      /\ WorkerSteps[9] = "collector" /\ WorkerSteps[10] = "loop"
      /\ WorkerSteps[11] = "scheduler"
  BY DEF StepsOf, WorkerSteps
<1>2. \A n \in Nat :
        OpenAt("worker", n + 1)
          = OpenAt("worker", n) \cup ({WorkerSteps[n + 1]} \ {"objects", "crypto"})
  BY <1>1, OpenNext DEF Unclosable
<1> HIDE DEF WorkerSteps
<1>3. OpenAt("worker", 0) = {}
  BY OpenNext
<1>4. OpenAt("worker", 1) = {"pool"}
  BY <1>1, <1>2, <1>3
<1>5. OpenAt("worker", 2) = {"pool", "reader"}
  BY <1>1, <1>2, <1>4
<1>6. OpenAt("worker", 3) = {"pool", "reader", "emitter"}
  BY <1>1, <1>2, <1>5
<1>7. OpenAt("worker", 4) = {"pool", "reader", "emitter"}
  BY <1>1, <1>2, <1>6
<1>8. OpenAt("worker", 5) = {"pool", "reader", "emitter"}
  BY <1>1, <1>2, <1>7
<1>9. OpenAt("worker", 6) = {"pool", "reader", "emitter", "limiter"}
  BY <1>1, <1>2, <1>8
<1>10. OpenAt("worker", 7) = {"pool", "reader", "emitter", "limiter", "queue"}
  BY <1>1, <1>2, <1>9
<1>11. OpenAt("worker", 8) = {"pool", "reader", "emitter", "limiter", "queue", "tasks"}
  BY <1>1, <1>2, <1>10
<1>12. OpenAt("worker", 9) =
         {"pool", "reader", "emitter", "limiter", "queue", "tasks", "collector"}
  BY <1>1, <1>2, <1>11
<1>13. OpenAt("worker", 10) =
         {"pool", "reader", "emitter", "limiter", "queue", "tasks", "collector", "loop"}
  BY <1>1, <1>2, <1>12
<1>14. OpenAt("worker", 11) =
         {"pool", "reader", "emitter", "limiter", "queue", "tasks", "collector", "loop",
          "scheduler"}
  BY <1>1, <1>2, <1>13
<1> QED  BY <1>1, <1>3, <1>4, <1>5, <1>6, <1>7, <1>8, <1>9, <1>10, <1>11, <1>12, <1>13, <1>14

\* The steps of either process, one by one.
LEMMA StepCounts == Len(StepsOf("server")) = 7 /\ Len(StepsOf("worker")) = 11
BY DEF StepsOf, ServerSteps, WorkerSteps

LEMMA StepNames ==
  /\ \A n \in 0 .. 6 : StepsOf("server")[n + 1] = ServerSteps[n + 1]
  /\ \A n \in 0 .. 10 : StepsOf("worker")[n + 1] = WorkerSteps[n + 1]
BY DEF StepsOf, ServerSteps, WorkerSteps

LEMMA ServerCleanups ==
  /\ ServerCleanup("pool") = <<>> /\ ServerCleanup("reader") = <<"pool">>
  /\ ServerCleanup("queue") = <<"reader", "pool">>
  /\ ServerCleanup("inspector") = <<"queue", "reader", "pool">>
  /\ ServerCleanup("objects") = CloseServer /\ ServerCleanup("crypto") = CloseServer
PROOF
<1>1. ServerCleanup("pool") = <<>>
  BY DEF ServerCleanup, NewPool
<1>2. ServerCleanup("reader") = <<"pool">>
  BY DEF ServerCleanup, BuildServicesCleanup
<1>3. ServerCleanup("queue") = <<"reader", "pool">>
  BY DEF ServerCleanup, BuildServicesCleanup
<1>4. ServerCleanup("inspector") = <<"queue", "reader", "pool">>
  BY DEF ServerCleanup, BuildServicesCleanup
<1>5. ServerCleanup("objects") = CloseServer
  BY DEF ServerCleanup, CloseServer
<1>6. ServerCleanup("crypto") = CloseServer
  BY DEF ServerCleanup, CloseServer
<1> QED  BY <1>1, <1>2, <1>3, <1>4, <1>5, <1>6

LEMMA WorkerCleanups ==
  /\ WorkerCleanup("pool") = <<>> /\ WorkerCleanup("reader") = <<"pool">>
  /\ WorkerCleanup("emitter") = <<"reader", "pool">>
  /\ WorkerCleanup("objects") = CleanupWithEmitter
  /\ WorkerCleanup("crypto") = CleanupWithEmitter
  /\ WorkerCleanup("queue") = CleanupWithRateLimiter
  /\ WorkerCleanup("tasks") = CleanupWithQueue
  /\ WorkerCleanup("collector") = <<"tasks">> \o CleanupWithQueue
  /\ WorkerCleanup("scheduler") = <<"loop", "collector", "tasks">> \o CleanupWithQueue
PROOF
<1>1. WorkerCleanup("pool") = <<>>
  BY DEF WorkerCleanup, NewPool
<1>2. WorkerCleanup("reader") = <<"pool">>
  BY DEF WorkerCleanup
<1>3. WorkerCleanup("emitter") = <<"reader", "pool">>
  BY DEF WorkerCleanup
<1>4. WorkerCleanup("objects") = CleanupWithEmitter
  BY DEF WorkerCleanup
<1>5. WorkerCleanup("crypto") = CleanupWithEmitter
  BY DEF WorkerCleanup
<1>6. WorkerCleanup("queue") = CleanupWithRateLimiter
  BY DEF WorkerCleanup
<1>7. WorkerCleanup("tasks") = CleanupWithQueue
  BY DEF WorkerCleanup
<1>8. WorkerCleanup("collector") = <<"tasks">> \o CleanupWithQueue
  BY DEF WorkerCleanup
<1>9. WorkerCleanup("scheduler") = <<"loop", "collector", "tasks">> \o CleanupWithQueue
  BY DEF WorkerCleanup
<1> QED  BY <1>1, <1>2, <1>3, <1>4, <1>5, <1>6, <1>7, <1>8, <1>9

\* Whatever step fails, the cleanup is of what is open.
LEMMA CleanupReleases ==
  ASSUME process \in {"server", "worker"}, NEW n \in Nat, n < Len(StepsOf(process)),
         NEW step, step = StepsOf(process)[n + 1], step \notin NeverFails \cup {"http"}
  PROVE  Orderly(CleanupOf(step), OpenAt(process, n))
PROOF
<1>1. CASE process = "server"
  <2>1. n \in 0 .. 6
    BY <1>1, StepCounts
  <2>2. step = ServerSteps[n + 1]
    BY <1>1, <2>1, StepNames
  <2>3. CleanupOf(step) = ServerCleanup(step)
    BY <1>1 DEF CleanupOf
  <2>4. Orderly(ServerCleanup(step), OpenAt("server", n))
    <3>0. CASE n = 0
      <4>1. step = "pool" /\ OpenAt("server", n) = {}
        BY <2>2, <3>0, ServerOpen
      <4> QED  BY <4>1, ServerCleanups, EmptyOrderly
    <3>1. CASE n = 1
      <4>1. step = "reader" /\ OpenAt("server", n) = {"pool"}
        BY <2>2, <3>1, ServerOpen
      <4> QED  BY <4>1, ServerCleanups, PassiveLists
    <3>2. CASE n = 2
      <4>1. step = "queue" /\ OpenAt("server", n) = {"reader", "pool"}
        BY <2>2, <3>2, ServerOpen
      <4> QED  BY <4>1, ServerCleanups, PassiveLists
    <3>3. CASE n = 3
      <4>1. step = "inspector" /\ OpenAt("server", n) = {"queue", "reader", "pool"}
        BY <2>2, <3>3, ServerOpen
      <4> QED  BY <4>1, ServerCleanups, PassiveLists
    <3>4. CASE n \in {4, 5}
      <4>1. /\ step \in {"objects", "crypto"}
            /\ OpenAt("server", n) = {"reader", "queue", "inspector", "pool"}
        BY <2>2, <3>4, ServerOpen
      <4> QED  BY <4>1, ServerCleanups, PassiveLists
    <3>5. n # 6
      BY <2>2, ServerOpen
    <3> QED  BY <2>1, <3>0, <3>1, <3>2, <3>3, <3>4, <3>5
  <2> QED  BY <1>1, <2>3, <2>4
<1>2. CASE process = "worker"
  <2>1. n \in 0 .. 10
    BY <1>2, StepCounts
  <2>2. step = WorkerSteps[n + 1]
    BY <1>2, <2>1, StepNames
  <2>3. CleanupOf(step) = WorkerCleanup(step)
    BY <1>2 DEF CleanupOf
  <2>4. Orderly(WorkerCleanup(step), OpenAt("worker", n))
    <3>0. CASE n = 0
      <4>1. step = "pool" /\ OpenAt("worker", n) = {}
        BY <2>2, <3>0, WorkerOpen
      <4> QED  BY <4>1, WorkerCleanups, EmptyOrderly
    <3>1. CASE n = 1
      <4>1. step = "reader" /\ OpenAt("worker", n) = {"pool"}
        BY <2>2, <3>1, WorkerOpen
      <4> QED  BY <4>1, WorkerCleanups, PassiveLists
    <3>2. CASE n = 2
      <4>1. step = "emitter" /\ OpenAt("worker", n) = {"reader", "pool"}
        BY <2>2, <3>2, WorkerOpen
      <4> QED  BY <4>1, WorkerCleanups, PassiveLists
    <3>3. CASE n \in {3, 4}
      <4>1. /\ step \in {"objects", "crypto"}
            /\ OpenAt("worker", n) = {"emitter", "reader", "pool"}
        BY <2>2, <3>3, WorkerOpen
      <4> QED  BY <4>1, WorkerCleanups, PassiveLists
    <3>4. CASE n = 6
      <4>1. step = "queue" /\ OpenAt("worker", n) = {"limiter", "emitter", "reader", "pool"}
        BY <2>2, <3>4, WorkerOpen
      <4> QED  BY <4>1, WorkerCleanups, WorkerLists
    <3>5. CASE n = 7
      <4>1. /\ step = "tasks"
            /\ OpenAt("worker", n) = {"queue", "limiter", "emitter", "reader", "pool"}
        BY <2>2, <3>5, WorkerOpen
      <4> QED  BY <4>1, WorkerCleanups, WorkerLists
    <3>6. CASE n = 8
      <4>1. /\ step = "collector"
            /\ OpenAt("worker", n) =
                 {"tasks", "queue", "limiter", "emitter", "reader", "pool"}
        BY <2>2, <3>6, WorkerOpen
      <4> QED  BY <4>1, WorkerCleanups, WorkerLists
    <3>7. CASE n = 10
      <4>1. /\ step = "scheduler"
            /\ OpenAt("worker", n) =
                 {"loop", "collector", "tasks", "queue", "limiter", "emitter", "reader",
                  "pool"}
        BY <2>2, <3>7, WorkerOpen
      <4> QED  BY <4>1, WorkerCleanups, WorkerLists
    <3>8. n # 5 /\ n # 9
      BY <2>2, WorkerOpen DEF NeverFails
    <3> QED  BY <2>1, <3>0, <3>1, <3>2, <3>3, <3>4, <3>5, <3>6, <3>7, <3>8
  <2> QED  BY <1>2, <2>3, <2>4
<1> QED  BY <1>1, <1>2

\* An activity starts when all it uses is open.
LEMMA ActivityStarts ==
  ASSUME NEW p \in {"server", "worker"}, NEW n \in Nat, n < Len(StepsOf(p)),
         StepsOf(p)[n + 1] \in Activities
  PROVE  UsedBy(StepsOf(p)[n + 1]) \subseteq OpenAt(p, n)
PROOF
<1>1. CASE p = "server"
  <2>0. n \in 0 .. 6
    BY <1>1, StepCounts
  <2>1. StepsOf(p)[n + 1] = ServerSteps[n + 1]
    BY <1>1, <2>0, StepNames
  <2>2. n = 6
    BY <2>0, <2>1, ServerOpen DEF Activities
  <2> QED  BY <1>1, <2>1, <2>2, ServerOpen DEF UsedBy
<1>2. CASE p = "worker"
  <2>0. n \in 0 .. 10
    BY <1>2, StepCounts
  <2>1. StepsOf(p)[n + 1] = WorkerSteps[n + 1]
    BY <1>2, <2>0, StepNames
  <2>2. n \in {7, 9}
    BY <2>0, <2>1, WorkerOpen DEF Activities
  <2> QED  BY <1>2, <2>1, <2>2, WorkerOpen DEF UsedBy
<1> QED  BY <1>1, <1>2

(***************************************************************************)
(* The invariant.                                                          *)
(***************************************************************************)

\* While it builds or runs a process has open what New has built; then it has
\* open what it is still to release.
ReleaseInv ==
  /\ phase \in {"building", "running"} => todo = <<>> /\ open = OpenAt(process, built)
  /\ phase = "building" => built < Len(StepsOf(process))
  /\ phase = "running" => built = Len(StepsOf(process))
  /\ phase = "stopping" => Orderly(todo, open)
  /\ phase = "down" => todo = <<>> /\ open = {}

\* No activity is open without what it uses, and none works that is not open.
UsersInv ==
  /\ \A a \in open \cap Activities : UsedBy(a) \subseteq open
  /\ working \ abandoned \subseteq open

LifecycleInv == LifecycleTypeOK /\ ReleaseInv /\ UsersInv

LEMMA LifecycleInitial == LifecycleInit => LifecycleInv
PROOF
<1> SUFFICES ASSUME LifecycleInit PROVE LifecycleInv
  OBVIOUS
<1>1. Len(StepsOf(process)) \in Nat \ {0}
  BY StepCounts DEF LifecycleInit
<1>2. LifecycleTypeOK
  BY <1>1 DEF LifecycleInit, LifecycleTypeOK
<1>3. ReleaseInv
  BY <1>1, OpenNext DEF LifecycleInit, ReleaseInv
<1> QED  BY <1>2, <1>3 DEF LifecycleInit, LifecycleInv, UsersInv

\* The lists that a failure or a shutdown leaves to be released.
LEMMA ShutdownBegins ==
  ASSUME LifecycleTypeOK, UsersInv, phase' = "stopping", Orderly(todo', open'),
         closes' \in Nat, UNCHANGED <<process, built, open, working, abandoned, begunWork>>
  PROVE  LifecycleInv'
PROOF
<1>1. todo' \in Seq(Resources)
  BY DEF Orderly
<1>2. LifecycleTypeOK'
  BY <1>1 DEF LifecycleTypeOK
<1>3. ReleaseInv'
  BY DEF ReleaseInv
<1>4. UsersInv'
  BY DEF UsersInv
<1> QED  BY <1>2, <1>3, <1>4 DEF LifecycleInv

LEMMA LifecycleStep == LifecycleInv /\ [LifecycleNext]_lifecycleVars => LifecycleInv'
PROOF
<1> SUFFICES ASSUME LifecycleInv, [LifecycleNext]_lifecycleVars PROVE LifecycleInv'
  OBVIOUS
<1>0. /\ LifecycleTypeOK /\ ReleaseInv /\ UsersInv
      /\ process \in {"server", "worker"} /\ built \in Nat
      /\ Len(StepsOf(process)) \in Nat \ {0}
  <2>1. process \in {"server", "worker"} /\ built \in 0 .. Len(StepsOf(process))
    BY DEF LifecycleInv, LifecycleTypeOK
  <2>2. Len(StepsOf(process)) \in Nat \ {0}
    BY <2>1, StepCounts
  <2>3. built \in Nat
    BY <2>1, <2>2
  <2> QED  BY <2>1, <2>2, <2>3 DEF LifecycleInv
<1>1. CASE Build
  <2> DEFINE step == StepsOf(process)[built + 1]
  <2>1. /\ phase = "building" /\ built < Len(StepsOf(process)) /\ todo = <<>>
        /\ open = OpenAt(process, built)
    BY <1>0, <1>1 DEF Build, ReleaseInv
  <2>2. /\ built' = built + 1 /\ process' = process /\ todo' = todo
        /\ phase' = IF built + 1 = Len(StepsOf(process)) THEN "running" ELSE "building"
        /\ UNCHANGED <<closes, working, abandoned, begunWork>>
    BY <1>1 DEF Build
  <2>3. open' = open \cup ({step} \ Unclosable)
    BY <1>1 DEF Build
  <2>4. open' = OpenAt(process', built')
    BY <1>0, <2>1, <2>2, <2>3, OpenNext
  <2>5. step \in Resources
    <3>1. built + 1 \in 1 .. Len(StepsOf(process))
      BY <1>0, <2>1
    <3>2. CASE process = "server"
      <4>1. built + 1 \in 1 .. 7 /\ step = ServerSteps[built + 1]
        BY <3>1, <3>2, ServerOpen DEF StepsOf
      <4> QED  BY <4>1, ServerOpen, AllResources
    <3>3. CASE process = "worker"
      <4>1. built + 1 \in 1 .. 11 /\ step = WorkerSteps[built + 1]
        BY <3>1, <3>3, WorkerOpen DEF StepsOf
      <4> QED  BY <4>1, WorkerOpen, AllResources
    <3> QED  BY <1>0, <3>2, <3>3
  <2>6. step \in Activities => UsedBy(step) \subseteq open
    BY <1>0, <2>1, ActivityStarts
  <2>7. built' \in 0 .. Len(StepsOf(process'))
    BY <1>0, <2>1, <2>2
  <2> HIDE DEF step
  <2>8. LifecycleTypeOK'
    BY <1>0, <2>2, <2>3, <2>5, <2>7 DEF LifecycleTypeOK
  <2>9. ReleaseInv'
    BY <1>0, <2>1, <2>2, <2>4, <2>7 DEF ReleaseInv
  <2>10. UsersInv'
    BY <1>0, <2>2, <2>3, <2>6 DEF UsersInv
  <2> QED  BY <2>8, <2>9, <2>10 DEF LifecycleInv
<1>2. CASE BuildFails
  <2>1. /\ phase = "building" /\ built < Len(StepsOf(process))
        /\ open = OpenAt(process, built)
    BY <1>0, <1>2 DEF BuildFails, ReleaseInv
  <2>2. /\ todo' = CleanupOf(StepsOf(process)[built + 1]) /\ phase' = "stopping"
        /\ UNCHANGED <<process, built, open, closes, working, abandoned, begunWork>>
        /\ StepsOf(process)[built + 1] \notin NeverFails \cup {"http"}
    BY <1>2 DEF BuildFails
  <2>3. Orderly(todo', open') /\ closes' \in Nat
    <3>1. Orderly(todo', open')
      BY <1>0, <2>1, <2>2, CleanupReleases
    <3>2. closes' \in Nat
      BY <1>0, <2>2 DEF LifecycleTypeOK
    <3> QED  BY <3>1, <3>2
  <2> QED  BY <1>0, <2>2, <2>3, ShutdownBegins
<1>3. CASE StartFails
  <2>1. /\ process = "server" /\ phase = "building" /\ built < Len(StepsOf(process))
        /\ open = OpenAt(process, built) /\ StepsOf(process)[built + 1] = "http"
    BY <1>0, <1>3 DEF StartFails, ReleaseInv
  <2>2. /\ todo' = CloseServer /\ phase' = "stopping" /\ closes' = 2
        /\ UNCHANGED <<process, built, open, working, abandoned, begunWork>>
    BY <1>3 DEF StartFails
  <2>3. built \in 0 .. 6
    BY <1>0, <2>1, StepCounts
  <2>4. built = 6
    BY <2>1, <2>3, StepNames, ServerOpen
  <2>5. open = {"reader", "queue", "inspector", "pool"}
    BY <2>1, <2>4, ServerOpen
  <2>6. Orderly(todo', open')
    BY <2>2, <2>5, PassiveLists
  <2> QED  BY <1>0, <2>2, <2>6, ShutdownBegins
<1>4. CASE Signal
  <2>1. phase = "running" /\ open = OpenAt(process, Len(StepsOf(process)))
    BY <1>0, <1>4 DEF Signal, ReleaseInv
  <2>2. /\ todo' = IF process = "server" THEN <<"http">> \o CloseServer ELSE CloseWorker
        /\ phase' = "stopping" /\ closes' = 1
        /\ UNCHANGED <<process, built, open, working, abandoned, begunWork>>
    BY <1>4 DEF Signal
  <2>3. CASE process = "server"
    <3>1. open = {"http", "reader", "queue", "inspector", "pool"}
      BY <2>1, <2>3, ServerOpen DEF StepsOf
    <3>2. Orderly(todo', open')
      BY <2>2, <2>3, <3>1, WorkerLists
    <3> QED  BY <1>0, <2>2, <3>2, ShutdownBegins
  <2>4. CASE process = "worker"
    <3>1. open = {"loop", "scheduler", "tasks", "collector", "queue", "limiter", "emitter",
                  "reader", "pool"}
      BY <2>1, <2>4, WorkerOpen DEF StepsOf
    <3>2. Orderly(todo', open')
      BY <2>2, <2>4, <3>1, WorkerLists
    <3> QED  BY <1>0, <2>2, <3>2, ShutdownBegins
  <2> QED  BY <1>0, <2>3, <2>4
<1>5. CASE CloseAgain
  <2>1. /\ closes' \in Nat
        /\ UNCHANGED <<process, phase, built, open, todo, working, abandoned, begunWork>>
    BY <1>0, <1>5 DEF CloseAgain, LifecycleTypeOK
  <2>2. LifecycleTypeOK'
    BY <1>0, <2>1 DEF LifecycleTypeOK
  <2>3. ReleaseInv'
    BY <1>0, <2>1 DEF ReleaseInv
  <2>4. UsersInv'
    BY <1>0, <2>1 DEF UsersInv
  <2> QED  BY <2>2, <2>3, <2>4 DEF LifecycleInv
<1>6. CASE Release
  <2> DEFINE r == Head(todo)
  <2>1. phase = "stopping" /\ todo # <<>> /\ Orderly(todo, open)
    BY <1>0, <1>6 DEF Release, ReleaseInv
  <2>2. /\ r \in open /\ Orderly(Tail(todo), open \ {r})
        /\ \A a \in open \cap Activities : a # r => r \notin UsedBy(a)
    BY <2>1, TailOrderly
  <2>3. /\ open' = open \ {r} /\ todo' = Tail(todo)
        /\ UNCHANGED <<process, phase, built, closes, working, begunWork>>
        /\ \/ r \notin working /\ UNCHANGED abandoned
           \/ r \in working /\ abandoned' = abandoned \cup {r}
    BY <1>6 DEF Release
  <2> HIDE DEF r
  <2>4. Orderly(todo', open')
    BY <2>2, <2>3
  <2>5. LifecycleTypeOK'
    BY <1>0, <2>3, <2>4 DEF LifecycleTypeOK, Orderly
  <2>6. ReleaseInv'
    BY <2>1, <2>3, <2>4 DEF ReleaseInv
  <2>7. UsersInv'
    BY <1>0, <2>2, <2>3 DEF UsersInv
  <2> QED  BY <2>5, <2>6, <2>7 DEF LifecycleInv
<1>7. CASE Released
  <2>1. phase = "stopping" /\ todo = <<>> /\ phase' = "down" /\ Orderly(todo, open)
    BY <1>0, <1>7 DEF Released, ReleaseInv
  <2>2. UNCHANGED <<process, built, open, todo, closes, working, abandoned, begunWork>>
    BY <1>7 DEF Released
  <2>3. open = {}
    BY <2>1 DEF Orderly, Range
  <2>4. LifecycleTypeOK'
    BY <1>0, <2>1, <2>2 DEF LifecycleTypeOK
  <2>5. ReleaseInv'
    BY <2>1, <2>2, <2>3 DEF ReleaseInv
  <2>6. UsersInv'
    BY <1>0, <2>2 DEF UsersInv
  <2> QED  BY <2>4, <2>5, <2>6 DEF LifecycleInv
<1>8. ASSUME NEW a \in Activities, BeginWork(a) PROVE LifecycleInv'
  <2>1. /\ a \in open /\ working' = working \cup {a} /\ begunWork' = begunWork + 1
        /\ UNCHANGED <<process, phase, built, open, todo, closes, abandoned>>
    BY <1>8 DEF BeginWork
  <2>2. LifecycleTypeOK'
    BY <1>0, <2>1 DEF LifecycleTypeOK
  <2>3. ReleaseInv'
    BY <1>0, <2>1 DEF ReleaseInv
  <2>4. UsersInv'
    BY <1>0, <2>1 DEF UsersInv
  <2> QED  BY <2>2, <2>3, <2>4 DEF LifecycleInv
<1>9. ASSUME NEW a \in Activities, EndWork(a) PROVE LifecycleInv'
  <2>1. /\ working' = working \ {a} /\ abandoned' = abandoned \ {a}
        /\ UNCHANGED <<process, phase, built, open, todo, closes, begunWork>>
    BY <1>9 DEF EndWork
  <2>2. LifecycleTypeOK'
    BY <1>0, <2>1 DEF LifecycleTypeOK
  <2>3. ReleaseInv'
    BY <1>0, <2>1 DEF ReleaseInv
  <2>4. UsersInv'
    BY <1>0, <2>1 DEF UsersInv
  <2> QED  BY <2>2, <2>3, <2>4 DEF LifecycleInv
<1>10. CASE UNCHANGED lifecycleVars
  <2>1. UNCHANGED <<process, phase, built, open, todo, closes, working, abandoned,
                    begunWork>>
    BY <1>10 DEF lifecycleVars
  <2>2. LifecycleTypeOK'
    BY <1>0, <2>1 DEF LifecycleTypeOK
  <2>3. ReleaseInv'
    BY <1>0, <2>1 DEF ReleaseInv
  <2>4. UsersInv'
    BY <1>0, <2>1 DEF UsersInv
  <2> QED  BY <2>2, <2>3, <2>4 DEF LifecycleInv
<1> QED
  BY <1>1, <1>2, <1>3, <1>4, <1>5, <1>6, <1>7, <1>8, <1>9, <1>10 DEF LifecycleNext

LEMMA LifecycleInvariant == LifecycleSpec => []LifecycleInv
BY LifecycleInitial, LifecycleStep, PTL DEF LifecycleSpec

\* Every list of releases the two processes make is of resources they own.
THEOREM LifecycleTyped == LifecycleSpec => []LifecycleTypeOK
PROOF
<1>1. LifecycleInv => LifecycleTypeOK
  BY DEF LifecycleInv
<1> QED  BY <1>1, LifecycleInvariant, PTL

\* Whatever step of New fails, whenever the signal comes and whatever work is
\* in progress then, a process closes each thing it has opened once, after the
\* activities that use it, unless a shutdown gave up waiting for them.
THEOREM ProcessesClean == LifecycleSpec => []NothingLeaked
PROOF
<1>1. ASSUME LifecycleInv PROVE NothingLeaked
  <2>1. phase = "down" => open = {}
    BY <1>1 DEF LifecycleInv, ReleaseInv
  <2>2. Range(todo) \subseteq open /\ IsInjective(todo)
    <3>1. CASE todo = <<>>
      BY <3>1 DEF Range, IsInjective
    <3>2. CASE todo # <<>>
      BY <1>1, <3>2 DEF LifecycleInv, LifecycleTypeOK, ReleaseInv, Orderly
    <3> QED  BY <3>1, <3>2
  <2>3. ASSUME NEW a \in working \ abandoned PROVE UsedBy(a) \subseteq open
    BY <1>1 DEF LifecycleInv, LifecycleTypeOK, UsersInv
  <2> QED  BY <2>1, <2>2, <2>3 DEF NothingLeaked
<1> QED  BY <1>1, LifecycleInvariant, PTL

(***************************************************************************)
(* The parts together.                                                     *)
(***************************************************************************)

LEMMA TenancyInPortal == PortalSpec => TenancySpec
PROOF
<1>1. PortalInit => TenancyInit
  BY DEF PortalInit
<1>2. [PortalNext]_portalVars => [TenancyNext]_tenancyVars
  BY DEF PortalNext, portalVars
<1> QED  BY <1>1, <1>2, PTL DEF PortalSpec, TenancySpec

LEMMA SchedulesInPortal == PortalSpec => SchedulesSpec
PROOF
<1>1. PortalInit => SchedulesInit
  BY DEF PortalInit
<1>2. [PortalNext]_portalVars => [SchedulesNext]_schedulesVars
  BY DEF PortalNext, portalVars
<1> QED  BY <1>1, <1>2, PTL DEF PortalSpec, SchedulesSpec

LEMMA SessionsInPortal == PortalSpec => WebSessionSpec
PROOF
<1>1. PortalInit => WebSessionInit
  BY DEF PortalInit
<1>2. [PortalNext]_portalVars => [WebSessionNext]_webSessionVars
  BY DEF PortalNext, portalVars
<1> QED  BY <1>1, <1>2, PTL DEF PortalSpec, WebSessionSpec

LEMMA ListsInPortal == PortalSpec => ListSpec
PROOF
<1>1. PortalInit => ListInit
  BY DEF PortalInit
<1>2. [PortalNext]_portalVars => [ListNext]_listVars
  BY DEF PortalNext, portalVars
<1> QED  BY <1>1, <1>2, PTL DEF PortalSpec, ListSpec

LEMMA InvoicingInPortal == PortalSpec => InvoicingSpec
PROOF
<1>1. PortalInit => InvoicingInit
  BY DEF PortalInit
<1>2. [PortalNext]_portalVars => [InvoicingNext]_invoicingVars
  BY DEF PortalNext, portalVars
<1> QED  BY <1>1, <1>2, PTL DEF PortalSpec, InvoicingSpec

LEMMA ProcessesInPortal == PortalSpec => LifecycleSpec
PROOF
<1>1. PortalInit => LifecycleInit
  BY DEF PortalInit
<1>2. [PortalNext]_portalVars => [LifecycleNext]_lifecycleVars
  BY DEF PortalNext, portalVars
<1> QED  BY <1>1, <1>2, PTL DEF PortalSpec, LifecycleSpec

LEMMA PagesInPortal == PortalSpec => PagesSpec
PROOF
<1>1. PortalInit => PagesInit
  BY DEF PortalInit
<1>2. [PortalNext]_portalVars => [PagesNext]_pagesVars
  BY DEF PortalNext, portalVars
<1> QED  BY <1>1, <1>2, PTL DEF PortalSpec, PagesSpec

\* The portal is its parts: seen from any one of them, a behaviour of the portal is
\* one of that part alone, so what is proved of the part holds of the portal.
THEOREM PartsRunAlone ==
  PortalSpec => /\ TenancySpec /\ SchedulesSpec /\ WebSessionSpec /\ ListSpec
                /\ InvoicingSpec /\ LifecycleSpec /\ PagesSpec
BY TenancyInPortal, SchedulesInPortal, SessionsInPortal, ListsInPortal, InvoicingInPortal,
   ProcessesInPortal, PagesInPortal

\* Every part of the portal keeps its types, as long as a tenant has at most as many
\* rows as an int32 offset counts.
THEOREM PortalTyped ==
  ASSUME Cardinality(Rows) <= OffsetRange
  PROVE  PortalSpec => []PortalTypeOK
PROOF
<1>1. PortalTypeOK <=> /\ TenancyTypeOK /\ SchedulesTypeOK /\ WebSessionTypeOK /\ ListTypeOK
                       /\ InvoicingTypeOK /\ LifecycleTypeOK /\ PagesTypeOK
  BY DEF PortalTypeOK
<1>2. ListSpec => []ListTypeOK
  BY ListTyped
<1> QED
  BY <1>1, <1>2, PartsRunAlone, TenancyTyped, SchedulesTyped, SessionTyped, InvoicingTyped,
     LifecycleTyped, PagesTyped, PTL

(***************************************************************************)
(* The algorithms in the portal.                                           *)
(***************************************************************************)

Sampled == focus = "algorithms" => CronSamples \/ TextSamples \/ ViewSamples

LEMMA SeqOfIs ==
  ASSUME NEW S, NEW T, S \subseteq T, NEW n \in Nat, NEW s \in SeqOf(S, n)
  PROVE  s \in Seq(T)
PROOF
<1>1. PICK m \in 0 .. n : s \in [1 .. m -> S]
  BY DEF SeqOf
<1>2. m \in Nat /\ s \in [1 .. m -> T]
  BY <1>1
<1> QED  BY <1>2, FunctionIsSeq

LEMMA CronSampled == CronSamples => AlgorithmsAgree
PROOF
<1>1. ASSUME NEW f \in SomeForms, sample = [of |-> "form", form |-> f] PROVE AlgorithmsAgree
  <2>1. f \in ScheduleForms
    <3>1. Times \subseteq ClockTimes
      <4>1. NoTime \in ClockTimes
        BY DEF NoTime, ClockTimes, Empty
      <4>2. \A t \in {<<0, 0>>, <<9, 5>>, <<23, 59>>, <<Star, 5>>, <<9, Other>>} :
              t[1] \in Int /\ t[2] \in Int
        BY DEF Star, Other
      <4> QED  BY <4>1, <4>2 DEF Times, ClockTimes
    <3>2. {Empty, Star, Other, 0, 1, 6} \subseteq {Empty, Star, Other} \cup Weekdays
      BY DEF Weekdays
    <3>3. {Empty, Star, Other, 1, 2, 3, 4, 10, 11, 13, 20, 21, 22, 23, 30, 31}
            \subseteq {Empty, Star, Other} \cup MonthDays
      BY DEF MonthDays
    <3> QED  BY <3>1, <3>2, <3>3 DEF SomeForms, ScheduleForms
  <2>2. FormAgrees(f)
    BY <2>1, FormsAgree
  <2>3. sample.of = "form" /\ sample.form = f
    BY <1>1
  <2> QED  BY <2>2, <2>3 DEF AlgorithmsAgree
<1>2. ASSUME NEW t \in FormTypes, NEW x \in SomeCrons,
             sample = [of |-> "cron", type |-> t, cron |-> x]
      PROVE  AlgorithmsAgree
  <2>1. x \in CronExprs
    BY DEF SomeCrons, CronExprs, Star, Other
  <2>2. CronAgrees(t, x)
    BY <2>1, CronsAgree
  <2>3. sample.of = "cron" /\ sample.type = t /\ sample.cron = x
    BY <1>2
  <2> QED  BY <2>2, <2>3 DEF AlgorithmsAgree
<1> QED  BY <1>1, <1>2 DEF CronSamples

LEMMA TextSampled == TextSamples => AlgorithmsAgree
PROOF
<1>1. ASSUME NEW size \in {3, 4}, NEW overlap \in 1 .. 3, NEW doc \in SeqOf(Paragraphs, 3),
             sample = [of |-> "chunks", size |-> size, overlap |-> overlap, doc |-> doc]
      PROVE  AlgorithmsAgree
  <2>1. doc \in Documents
    <3>1. Paragraphs \subseteq [runes : Nat, wide : BOOLEAN]
      BY DEF Paragraphs
    <3> QED  BY <3>1, SeqOfIs DEF Documents
  <2>2. ChunksAgree(size, overlap, doc)
    BY <2>1, ChunksRead
  <2>3. /\ sample.of = "chunks" /\ sample.size = size /\ sample.overlap = overlap
        /\ sample.doc = doc
    BY <1>1
  <2> QED  BY <2>2, <2>3 DEF AlgorithmsAgree
<1>2. ASSUME NEW lines \in SeqOf(PdfLines, 5), sample = [of |-> "page", lines |-> lines]
      PROVE  AlgorithmsAgree
  <2>1. ASSUME NEW line \in PdfLines
        PROVE  line \in [blank : BOOLEAN, ends : BOOLEAN, hyphen : BOOLEAN]
    <3>1. PICK k \in {"blank", "word", "ends", "hyphen"} :
            line = [blank |-> k = "blank", ends |-> k = "ends", hyphen |-> k = "hyphen"]
      BY DEF PdfLines
    <3>2. \A x, y, z \in BOOLEAN :
            [blank |-> x, ends |-> y, hyphen |-> z]
              \in [blank : BOOLEAN, ends : BOOLEAN, hyphen : BOOLEAN]
      BY Zenon
    <3>3. (k = "blank") \in BOOLEAN /\ (k = "ends") \in BOOLEAN /\ (k = "hyphen") \in BOOLEAN
      BY Zenon
    <3> QED  BY <3>1, <3>2, <3>3, Zenon
  <2>2. lines \in Seq([blank : BOOLEAN, ends : BOOLEAN, hyphen : BOOLEAN])
    BY <2>1, SeqOfIs
  <2>3. PagesAgree(lines)
    BY <2>2, PagesRead
  <2>4. sample.of = "page" /\ sample.lines = lines
    BY <1>2
  <2> QED  BY <2>3, <2>4 DEF AlgorithmsAgree
<1>3. ASSUME NEW body \in TableBodies, sample = [of |-> "table", body |-> body]
      PROVE  AlgorithmsAgree
  <2>1. body \in Seq({"row", "cell", "body", "blank"})
    BY SeqOfIs DEF TableBodies
  <2>2. TablesAgree(body)
    BY <2>1, TablesRead
  <2>3. sample.of = "table" /\ sample.body = body
    BY <1>3
  <2> QED  BY <2>2, <2>3 DEF AlgorithmsAgree
<1>4. ASSUME NEW size \in {3, 4}, NEW sheets \in SeqOf(SeqOf({"text", "blank"}, 4), 2),
             sample = [of |-> "sheets", size |-> size, sheets |-> sheets]
      PROVE  AlgorithmsAgree
  <2>1. SeqOf({"text", "blank"}, 4) \subseteq Seq({"text", "blank"})
    BY SeqOfIs
  <2>2. sheets \in Seq(Seq({"text", "blank"}))
    BY <2>1, SeqOfIs
  <2>3. SheetsAgree(size, 1, sheets)
    BY <2>2, SheetsRead
  <2>4. sample.of = "sheets" /\ sample.size = size /\ sample.sheets = sheets
    BY <1>4
  <2> QED  BY <2>3, <2>4 DEF AlgorithmsAgree
<1> QED  BY <1>1, <1>2, <1>3, <1>4 DEF TextSamples

LEMMA SomeAreFinite ==
  \A active \in SUBSET (1 .. 3) : active \in SUBSET Nat /\ IsFiniteSet(active)
PROOF
<1> TAKE active \in SUBSET (1 .. 3)
<1>1. PICK some : some = 1 .. 3
  OBVIOUS
<1>2. 1 \in Int /\ 3 \in Int /\ some \subseteq Nat
  BY <1>1
<1>3. IsFiniteSet(some)
  BY <1>1, <1>2, FS_Interval, Zenon
<1>4. active \in SUBSET some
  BY <1>1
<1>5. IsFiniteSet(active)
  BY <1>3, <1>4, FS_Subset
<1> QED  BY <1>2, <1>4, <1>5

LEMMA ViewSampled == ViewSamples => AlgorithmsAgree
PROOF
<1>1. 100 * Cent \in Nat /\ Spendings \subseteq Nat /\ Cent \in Nat
  BY SMTT(20) DEF Spendings, Cent
<1>2. ASSUME NEW budget \in {NotANumber, 0, 100 * Cent}, NEW mtd \in Spendings,
             NEW model \in {"qwen-max", "text-embedding", "unpriced"}, NEW input \in {0, 1000, 5000},
             sample = [of |-> "budget", budget |-> budget, mtd |-> mtd, model |-> model,
                       input |-> input, output |-> 20 * input]
      PROVE  AlgorithmsAgree
  <2>1. PICK output : output = 20 * input
    OBVIOUS
  <2>2. output \in Nat /\ input \in Nat
    BY <2>1, SMTT(20)
  <2>3. budget \in Nat \cup {NotANumber} /\ mtd \in Nat
    BY <1>1, <1>2
  <2>4. BudgetAgrees(budget, mtd, model, input, output)
    BY <2>2, <2>3, BudgetsAgree
  <2>5. /\ sample.of = "budget" /\ sample.budget = budget /\ sample.mtd = mtd
        /\ sample.model = model /\ sample.input = input /\ sample.output = output
    BY <1>2, <2>1
  <2> QED  BY <2>4, <2>5 DEF AlgorithmsAgree
<1>3. ASSUME NEW budget \in {Huge, Unparsed, Negative, NotANumber, 0, 1, Cent \div 2 - 1,
                             Cent \div 2 + 1, Cent, 3 * Cent + 7, 3 * Cent + 70007},
             sample = [of |-> "field", budget |-> budget]
      PROVE  AlgorithmsAgree
  <2>1. {0, 1, Cent \div 2 - 1, Cent \div 2 + 1, Cent, 3 * Cent + 7, 3 * Cent + 70007}
          \subseteq Budgets
    BY SMTT(20) DEF Budgets, MillionDollars, Cent
  <2>2. BudgetFormAgrees(budget)
    BY <2>1, BudgetFieldsAgree
  <2>3. sample.of = "field" /\ sample.budget = budget
    BY <1>3
  <2> QED  BY <2>2, <2>3 DEF AlgorithmsAgree
<1>4. ASSUME NEW kind \in DOMAIN BadgeKinds, NEW value \in BadgeKinds[kind],
             sample = [of |-> "badge", badge |-> kind, value |-> value]
      PROVE  AlgorithmsAgree
  <2>1. BadgesAgree(kind, value)
    BY BadgesPainted
  <2>2. sample.of = "badge" /\ sample.badge = kind /\ sample.value = value
    BY <1>4
  <2> QED  BY <2>1, <2>2 DEF AlgorithmsAgree
<1>5. ASSUME NEW status \in BadgeKinds["job"], NEW error \in BOOLEAN, NEW here \in BOOLEAN,
             NEW live \in {NoStatus} \cup
               [state : {"pending", "retry", "active", "completed", "archived", "other"},
                lastErr : BOOLEAN],
             sample = [of |-> "job", job |-> [status |-> status, error |-> error],
                       live |-> live, focused |-> here]
      PROVE  AlgorithmsAgree
  <2>1. live \in TaskInfos \cup {NoStatus}
    BY <1>5 DEF TaskInfos, TaskStates
  <2>2. PICK job : job = [status |-> status, error |-> error]
    OBVIOUS
  <2>3. ActivityAgrees(job, live, here)
    BY <2>1, <2>2, ActivitiesAgree
  <2>4. sample.of = "job" /\ sample.job = job /\ sample.live = live /\ sample.focused = here
    BY <1>5, <2>2
  <2> QED  BY <2>3, <2>4 DEF AlgorithmsAgree
<1>6. ASSUME NEW count \in {0, 999, 1000, 1049, 1050, 999949, 999950, 999999, 1000000, 12345678},
             NEW seconds \in {-5, 0, 59, 60, 119, 120, 3599, 3600, 86399, 86400, 200000},
             NEW active \in SUBSET (1 .. 3),
             sample = [of |-> "numbers", tokens |-> count, seconds |-> seconds,
                       active |-> active]
      PROVE  AlgorithmsAgree
  <2>1. count \in Nat /\ seconds \in Int
    BY SMTT(20)
  <2>2. NumbersAgree(count, seconds, active)
    BY <2>1, SomeAreFinite, RoundedNumbersAgree, SMT
  <2>3. /\ sample.of = "numbers" /\ sample.tokens = count /\ sample.seconds = seconds
        /\ sample.active = active
    BY <1>6, SMT
  <2> QED  BY <2>2, <2>3, SMT DEF AlgorithmsAgree
<1> QED  BY <1>2, <1>3, <1>4, <1>5, <1>6 DEF ViewSamples

\* What the pure algorithms promise holds of every input the portal is given.
THEOREM AlgorithmsSound == PortalSpec => []AlgorithmsAgree
PROOF
<1>1. ASSUME PortalInit, focus = "algorithms"
      PROVE  CronSamples \/ TextSamples \/ ViewSamples
  <2>1. IF focus = "algorithms" THEN CronSamples \/ TextSamples \/ ViewSamples
                                ELSE sample = NoSample
    BY <1>1, SMT DEF PortalInit
  <2> QED  BY <1>1, <2>1, SMT
<1>2. [PortalNext]_portalVars => focus' = focus /\ sample' = sample
  BY DEF PortalNext, portalVars
<1>3. Sampled /\ focus' = focus /\ sample' = sample => Sampled'
  BY SMT DEF Sampled, CronSamples, TextSamples, ViewSamples
<1>4. Sampled => AlgorithmsAgree
  BY CronSampled, TextSampled, ViewSampled DEF Sampled, AlgorithmsAgree
<1>5. PortalInit => Sampled
  BY <1>1 DEF Sampled
<1> QED  BY <1>2, <1>3, <1>4, <1>5, PTL DEF PortalSpec

\* What the runs check of the portal's parts holds of the portal, whatever its constants.
THEOREM PortalKeepsPromises ==
  ASSUME Cardinality(Rows) <= OffsetRange
  PROVE  PortalSpec => [](/\ TenantsExplained /\ FiringsExplained /\ NavigationSettles
                          /\ MissingRowsExplained /\ InvoicesExplained /\ NothingLeaked
                          /\ ControlsWork /\ AlgorithmsAgree)
PROOF
<1>1. ListSpec => []MissingRowsExplained
  BY MissingRows
<1> QED
  BY <1>1, PartsRunAlone, AlgorithmsSound, TenantsSwept, FiringsAsRegistered, NavigationsEnd,
     InvoicesAddUp, ProcessesClean, PageControlsWork, PTL

==============================================================================
