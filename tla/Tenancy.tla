------------------------------ MODULE Tenancy ------------------------------
(***************************************************************************)
(* Tenants, their members and the teardown of a tenant (internal/tenant,   *)
(* auth.TenantMiddleware, internal/storage).  Every call to Postgres, to   *)
(* the object store and to the knowledge base is a step of its own, and    *)
(* several requests run at once.  An upload and the ingestion that follows *)
(* it are the writers a teardown can meet: an upload puts one object, an   *)
(* ingestion reads an object and stores its document.                      *)
(*                                                                         *)
(* Object keys are natural numbers in the order the object store lists     *)
(* them; a document bears the key of the object it was read from.          *)
(***************************************************************************)
EXTENDS Naturals, FiniteSets

CONSTANTS
  Users, Tenants,
  MaxKey,            \* object keys are 1 .. MaxKey
  TenancyClients,    \* requests and worker tasks in progress
  PageSize,          \* keys in a page of ListObjectsV2
  DeleteBatch,       \* keys in one DeleteObjects call
  MaxTenancyCalls,   \* bound on calls
  MaxTenancyFaults,  \* bound on failed calls and refused keys
  NoCall

ASSUME KeysAssumption == MaxKey \in Nat
ASSUME PagingAssumption == PageSize \in Nat \ {0} /\ DeleteBatch \in Nat \ {0}

VARIABLES
  tenants,       \* tenants.status; "none" where there is no row
  members,       \* tenant_memberships.role; "none" where there is no row
  objects,       \* keys stored under tenant/<id>/
  documents,     \* documents of each tenant in the knowledge base
  tenantCalls,   \* the call each client is in
  callsMade,
  begun,         \* history: tenants whose objects a teardown began to list
  cleared,       \* history: tenants whose documents a teardown deleted
  lateObjects,   \* history: objects put after their tenant was begun
  lateDocuments, \* history: documents stored after their tenant was cleared
  refusedKeys,   \* history: objects DeleteObjects left without an error
  halfMade,      \* history: tenants whose creation stopped after the INSERT
  tenancyFaults

tenantVars  == <<tenants, members>>
dataVars    == <<objects, documents>>
sweepVars   == <<begun, cleared, lateObjects, lateDocuments, refusedKeys>>
tenancyVars == <<tenantVars, dataVars, sweepVars, tenantCalls, callsMade,
                 halfMade, tenancyFaults>>

Keys == 1 .. MaxKey

Roles == {"admin", "viewer"}

TenantSteps ==
  {"insert", "own", "admin", "exists", "list", "remove", "clear", "mark",
   "lookup", "add", "put", "get", "store"}

Calls ==
  [op : {"create", "add", "delete", "upload", "ingest"}, step : TenantSteps,
   user : Users, tenant : Tenants, role : Roles, key : Keys,
   token : Nat, listed : SUBSET Keys]

ASSUME NoCallAssumption == NoCall \notin Calls

TenancyTypeOK ==
  /\ tenants \in [Tenants -> {"none", "active", "deleted"}]
  /\ members \in [Tenants -> [Users -> Roles \cup {"none"}]]
  /\ objects \in [Tenants -> SUBSET Keys]
  /\ documents \in [Tenants -> SUBSET Keys]
  /\ tenantCalls \in [TenancyClients -> Calls \cup {NoCall}]
  /\ begun \subseteq Tenants /\ cleared \subseteq Tenants
  /\ lateObjects \in [Tenants -> SUBSET Keys]
  /\ lateDocuments \in [Tenants -> SUBSET Keys]
  /\ refusedKeys \in [Tenants -> SUBSET Keys]
  /\ halfMade \subseteq Tenants
  /\ callsMade \in Nat /\ tenancyFaults \in Nat

TenancyInit ==
  /\ tenants = [t \in Tenants |-> "none"]
  /\ members = [t \in Tenants |-> [u \in Users |-> "none"]]
  /\ objects = [t \in Tenants |-> {}] /\ documents = [t \in Tenants |-> {}]
  /\ tenantCalls = [c \in TenancyClients |-> NoCall]
  /\ begun = {} /\ cleared = {} /\ halfMade = {}
  /\ lateObjects = [t \in Tenants |-> {}]
  /\ lateDocuments = [t \in Tenants |-> {}]
  /\ refusedKeys = [t \in Tenants |-> {}]
  /\ callsMade = 0 /\ tenancyFaults = 0

-----------------------------------------------------------------------------
\* Statements of internal/db and the repository above them.

\* No status is looked at: a deleted tenant is found as well.
GetTenantByID(t) == tenants[t] # "none"

GetMembership(t, u) == members[t][u] # "none"

InsertTenant(t) ==
  /\ tenants[t] = "none"
  /\ tenants' = [tenants EXCEPT ![t] = "active"]

\* UNIQUE (user_id, tenant_id) leaves an existing row as it is.
InsertMembership(t, u, role) ==
  members' = IF GetMembership(t, u) THEN members
             ELSE [members EXCEPT ![t][u] = role]

MarkDeleted(t) == tenants' = [tenants EXCEPT ![t] = "deleted"]

IsAdmin(t, u) == members[t][u] = "admin"

\* One page of ListObjectsV2: the first keys after the token.
PageAfter(t, token) ==
  {k \in objects[t] : /\ k > token
                      /\ Cardinality({j \in objects[t] : token < j /\ j <= k})
                           <= PageSize}

\* The keys the next DeleteObjects call names.
NextBatch(keys) ==
  {k \in keys : Cardinality({j \in keys : j <= k}) <= DeleteBatch}

-----------------------------------------------------------------------------
BeginCall(c, call) ==
  /\ tenantCalls[c] = NoCall
  /\ callsMade < MaxTenancyCalls
  /\ tenantCalls' = [tenantCalls EXCEPT ![c] = call]
  /\ callsMade' = callsMade + 1
  /\ UNCHANGED <<tenantVars, dataVars, sweepVars, halfMade, tenancyFaults>>

At(c, op, step) ==
  /\ tenantCalls[c] # NoCall
  /\ tenantCalls[c].op = op /\ tenantCalls[c].step = step

GoOn(c, step) == tenantCalls' = [tenantCalls EXCEPT ![c].step = step]

EndCall(c) == tenantCalls' = [tenantCalls EXCEPT ![c] = NoCall]

Request(op, step, u, t, role, key) ==
  [op |-> op, step |-> step, user |-> u, tenant |-> t, role |-> role,
   key |-> key, token |-> 0, listed |-> {}]

\* The key of a call that has none.
AnyKey == CHOOSE k \in Keys : TRUE

StartCall(c) ==
  \E u \in Users, t \in Tenants, k \in Keys, role \in Roles :
    \/ /\ k = AnyKey /\ role = "admin"
       /\ \/ BeginCall(c, Request("create", "insert", u, t, role, k))
          \/ BeginCall(c, Request("delete", "admin", u, t, role, k))
    \/ k = AnyKey /\ BeginCall(c, Request("add", "exists", u, t, role, k))
    \/ /\ role = "admin"
       /\ \/ BeginCall(c, Request("upload", "exists", u, t, role, k))
          \/ BeginCall(c, Request("ingest", "get", u, t, role, k))

\* The id is new: a tenant that has a row is not created again.
CreateTenant(c) ==
  LET t == tenantCalls[c].tenant IN
  /\ At(c, "create", "insert")
  /\ InsertTenant(t)
  /\ GoOn(c, "own")
  /\ UNCHANGED <<members, dataVars, sweepVars, callsMade, halfMade, tenancyFaults>>

\* The creator becomes admin in a second statement, outside a transaction; it
\* fails for one who was made a member in between.
CreateOwner(c) ==
  LET call == tenantCalls[c] IN
  /\ At(c, "create", "own")
  /\ InsertMembership(call.tenant, call.user, "admin")
  /\ halfMade' = IF GetMembership(call.tenant, call.user)
                 THEN halfMade \cup {call.tenant} ELSE halfMade
  /\ EndCall(c)
  /\ UNCHANGED <<tenants, dataVars, sweepVars, callsMade, tenancyFaults>>

-----------------------------------------------------------------------------
\* AddMember and TenantMiddleware both look the tenant up first.
CheckTenant(c) ==
  /\ At(c, "add", "exists") \/ At(c, "upload", "exists")
  /\ IF GetTenantByID(tenantCalls[c].tenant) THEN GoOn(c, "lookup") ELSE EndCall(c)
  /\ UNCHANGED <<tenantVars, dataVars, sweepVars, callsMade, halfMade, tenancyFaults>>

\* Any database error but a cancelled context reads as "membership not found".
LookupMembership(c) ==
  LET call == tenantCalls[c] IN
  /\ At(c, "add", "lookup")
  /\ \/ /\ IF GetMembership(call.tenant, call.user) THEN EndCall(c)
                                                   ELSE GoOn(c, "add")
        /\ UNCHANGED tenancyFaults
     \/ /\ tenancyFaults < MaxTenancyFaults
        /\ tenancyFaults' = tenancyFaults + 1
        /\ GoOn(c, "add")
  /\ UNCHANGED <<tenantVars, dataVars, sweepVars, callsMade, halfMade>>

AddMember(c) ==
  LET call == tenantCalls[c] IN
  /\ At(c, "add", "add")
  /\ InsertMembership(call.tenant, call.user, call.role)
  /\ EndCall(c)
  /\ UNCHANGED <<tenants, dataVars, sweepVars, callsMade, halfMade, tenancyFaults>>

\* TenantMiddleware lets any member through, whatever the tenant's status.
CheckMember(c) ==
  LET call == tenantCalls[c] IN
  /\ At(c, "upload", "lookup")
  /\ IF GetMembership(call.tenant, call.user) THEN GoOn(c, "put") ELSE EndCall(c)
  /\ UNCHANGED <<tenantVars, dataVars, sweepVars, callsMade, halfMade, tenancyFaults>>

PutObject(c) ==
  LET call == tenantCalls[c] IN
  /\ At(c, "upload", "put")
  /\ objects' = [objects EXCEPT ![call.tenant] = @ \cup {call.key}]
  /\ lateObjects' = IF call.tenant \in begun
                    THEN [lateObjects EXCEPT ![call.tenant] = @ \cup {call.key}]
                    ELSE lateObjects
  /\ EndCall(c)
  /\ UNCHANGED <<tenantVars, documents, begun, cleared, lateDocuments,
                 refusedKeys, callsMade, halfMade, tenancyFaults>>

\* The worker reads the object and, after parsing and embedding, stores it.
GetObject(c) ==
  LET call == tenantCalls[c] IN
  /\ At(c, "ingest", "get")
  /\ IF call.key \in objects[call.tenant] THEN GoOn(c, "store") ELSE EndCall(c)
  /\ UNCHANGED <<tenantVars, dataVars, sweepVars, callsMade, halfMade, tenancyFaults>>

StoreDocument(c) ==
  LET call == tenantCalls[c] IN
  /\ At(c, "ingest", "store")
  /\ documents' = [documents EXCEPT ![call.tenant] = @ \cup {call.key}]
  /\ lateDocuments' = IF call.tenant \in cleared
                      THEN [lateDocuments EXCEPT ![call.tenant] = @ \cup {call.key}]
                      ELSE lateDocuments
  /\ EndCall(c)
  /\ UNCHANGED <<tenantVars, objects, begun, cleared, lateObjects, refusedKeys,
                 callsMade, halfMade, tenancyFaults>>

-----------------------------------------------------------------------------
\* DELETE /tenants/:id: the caller must be an admin, the tenant must exist.
CheckAdmin(c) ==
  LET call == tenantCalls[c] IN
  /\ At(c, "delete", "admin")
  /\ IF IsAdmin(call.tenant, call.user) THEN GoOn(c, "exists") ELSE EndCall(c)
  /\ UNCHANGED <<tenantVars, dataVars, sweepVars, callsMade, halfMade, tenancyFaults>>

CheckDeleted(c) ==
  /\ At(c, "delete", "exists")
  /\ IF GetTenantByID(tenantCalls[c].tenant) THEN GoOn(c, "list") ELSE EndCall(c)
  /\ UNCHANGED <<tenantVars, dataVars, sweepVars, callsMade, halfMade, tenancyFaults>>

\* The paginator: one page per step, until a page is the last one.
ListObjects(c) ==
  LET call == tenantCalls[c]
      page == PageAfter(call.tenant, call.token)
      more == {k \in objects[call.tenant] : k > call.token} # page
  IN /\ At(c, "delete", "list")
     /\ begun' = begun \cup {call.tenant}
     /\ tenantCalls' =
          [tenantCalls EXCEPT
             ![c] = [call EXCEPT
                       !.listed = @ \cup page,
                       !.token = IF page = {} THEN @
                                 ELSE CHOOSE k \in page : \A j \in page : j <= k,
                       !.step = IF more THEN "list" ELSE "remove"]]
     /\ UNCHANGED <<tenantVars, dataVars, cleared, lateObjects, lateDocuments,
                    refusedKeys, callsMade, halfMade, tenancyFaults>>

\* DeleteObjects reports the keys it could not delete in its output, which the
\* code drops: such a key stays and the teardown goes on.
RemoveBatch(c) ==
  LET call == tenantCalls[c] IN
  /\ At(c, "delete", "remove") /\ call.listed # {}
  /\ \E refused \in SUBSET NextBatch(call.listed) :
       /\ tenancyFaults + Cardinality(refused) <= MaxTenancyFaults
       /\ tenancyFaults' = tenancyFaults + Cardinality(refused)
       /\ objects' = [objects EXCEPT
                        ![call.tenant] = @ \ (NextBatch(call.listed) \ refused)]
       /\ refusedKeys' = [refusedKeys EXCEPT ![call.tenant] = @ \cup refused]
  /\ tenantCalls' = [tenantCalls EXCEPT ![c].listed = @ \ NextBatch(@)]
  /\ UNCHANGED <<tenantVars, documents, begun, cleared, lateObjects,
                 lateDocuments, callsMade, halfMade>>

\* Mutant of ObjectsRemoved: the knowledge base is forgotten.
XForgetKnowledge(c) ==
  /\ At(c, "delete", "remove") /\ tenantCalls[c].listed = {}
  /\ GoOn(c, "mark")
  /\ UNCHANGED <<tenantVars, dataVars, sweepVars, callsMade, halfMade, tenancyFaults>>

ObjectsRemoved(c) ==
  /\ At(c, "delete", "remove") /\ tenantCalls[c].listed = {}
  /\ GoOn(c, "clear")
  /\ UNCHANGED <<tenantVars, dataVars, sweepVars, callsMade, halfMade, tenancyFaults>>

ClearKnowledge(c) ==
  LET t == tenantCalls[c].tenant IN
  /\ At(c, "delete", "clear")
  /\ documents' = [documents EXCEPT ![t] = {}]
  /\ cleared' = cleared \cup {t}
  /\ GoOn(c, "mark")
  /\ UNCHANGED <<tenantVars, objects, begun, lateObjects, lateDocuments,
                 refusedKeys, callsMade, halfMade, tenancyFaults>>

MarkTenant(c) ==
  /\ At(c, "delete", "mark")
  /\ MarkDeleted(tenantCalls[c].tenant)
  /\ EndCall(c)
  /\ UNCHANGED <<members, dataVars, sweepVars, callsMade, halfMade, tenancyFaults>>

\* A call to a store fails, or the process dies: what was done stays done.
CallFails(c) ==
  /\ tenantCalls[c] # NoCall
  /\ tenancyFaults < MaxTenancyFaults
  /\ tenancyFaults' = tenancyFaults + 1
  /\ halfMade' = IF At(c, "create", "own")
                 THEN halfMade \cup {tenantCalls[c].tenant} ELSE halfMade
  /\ EndCall(c)
  /\ UNCHANGED <<tenantVars, dataVars, sweepVars, callsMade>>

DeleteStep(c) ==
  \/ CheckAdmin(c) \/ CheckDeleted(c) \/ ListObjects(c) \/ RemoveBatch(c)
  \/ ObjectsRemoved(c) \/ ClearKnowledge(c) \/ MarkTenant(c)

TenancyNext ==
  \E c \in TenancyClients :
    \/ StartCall(c) \/ CallFails(c)
    \/ CreateTenant(c) \/ CreateOwner(c)
    \/ CheckTenant(c) \/ LookupMembership(c) \/ AddMember(c)
    \/ CheckMember(c) \/ PutObject(c) \/ GetObject(c) \/ StoreDocument(c)
    \/ DeleteStep(c)

TenancySpec == TenancyInit /\ [][TenancyNext]_tenancyVars

-----------------------------------------------------------------------------
\* "Success means no fragment remains in the vector index or the object store"
\* (tenant/service.go).  What a deleted tenant still holds was written after a
\* teardown had begun to list it, by an upload or an ingestion nothing stops,
\* or is an object the store refused to delete: a teardown that fails halfway
\* leaves the tenant active.
LeftoverExplained ==
  \A t \in Tenants : tenants[t] = "deleted" =>
    /\ objects[t] \subseteq lateObjects[t] \cup refusedKeys[t]
    /\ documents[t] \subseteq lateDocuments[t]

\* A tenant has an admin, who alone can delete it, as soon as its creation is
\* over, unless the creation stopped between its two INSERTs; no later call
\* takes the role away.
OwnerExplained ==
  \A t \in Tenants :
    tenants[t] # "none" =>
      \/ \E u \in Users : IsAdmin(t, u)
      \/ t \in halfMade
      \/ \E c \in TenancyClients :
           At(c, "create", "own") /\ tenantCalls[c].tenant = t

\* A deleted tenant leaves nothing behind, and a tenant nobody can delete is not
\* left behind, but by the writers and failures the two definitions name.
TenantsExplained == LeftoverExplained /\ OwnerExplained
=============================================================================
