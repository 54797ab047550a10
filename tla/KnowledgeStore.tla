---------------------------- MODULE KnowledgeStore ----------------------------
(***************************************************************************)
(* The knowledge store of internal/knowledge/store.go: ReplaceSource, one  *)
(* transaction that deletes the documents a tenant has under a source name *)
(* and inserts the new document and its chunks, and DeleteTenantData, one  *)
(* DELETE.  Many sessions run at once against Postgres at READ COMMITTED:  *)
(*                                                                         *)
(*  - a DELETE chooses its rows when the statement starts, waits for the   *)
(*    lock of each, and skips a row that is gone once it gets the lock;    *)
(*  - INSERT ... ON CONFLICT (id) DO UPDATE waits for another session that *)
(*    has deleted or inserted the row, then updates it if it is there;     *)
(*  - what a transaction did is seen by the others when it commits, and    *)
(*    the chunks of a deleted document are deleted with it;                *)
(*  - sessions that wait for each other: Postgres aborts one of them.      *)
(*                                                                         *)
(* A file source has one document, whose id is the id of the source, so    *)
(* that a source and its document are the same thing here.  The chunks one *)
(* run inserts for a document are one element of chunks.                   *)
(***************************************************************************)
EXTENDS Naturals, FiniteSets

CONSTANTS
  Documents,  \* ids of documents, which are the ids of the sources
  Tenants,
  Names,      \* values of documents.source: names of uploaded files
  Sessions,   \* database sessions
  Contents,   \* contents a document may have
  MaxRuns,    \* bound on transactions
  MaxFaults,  \* bound on calls that fail
  NoDoc,      \* the row of a document that is not there
  NoWrite     \* what a session writes that only deletes

ASSUME SessionsAssumption == IsFiniteSet(Sessions)
ASSUME RowsAssumption == NoDoc \notin [source : Names, content : Contents,
  chunked : BOOLEAN, run : Nat, born : Nat]
ASSUME BoundsAssumption == {MaxRuns, MaxFaults} \subseteq Nat

VARIABLES
  tenant,   \* the tenant each document's source belongs to
  docs,     \* committed rows of documents
  chunks,   \* committed rows of chunks: the runs that inserted them
  phase,    \* what each session does next
  write,    \* the document it is given to insert
  targets,  \* rows its DELETE has chosen and not yet reached
  deleted,  \* documents its transaction has deleted, and locks
  runs,     \* transactions started
  spoiled,  \* history: documents that may keep chunks of an earlier run
  storeFaults  \* history: calls that failed

txVars   == <<phase, write, targets, deleted>>
rowVars  == <<docs, chunks, spoiled>>
storeVars == <<tenant, rowVars, txVars, runs, storeFaults>>

\* A row of documents.  run wrote its content; born inserted it, and tells
\* one row of an id from another that came after a DELETE.  Run 0 stands for
\* the ingests of the past.
Rows == [source : Names, content : Contents, chunked : BOOLEAN,
         run : 0 .. MaxRuns, born : 0 .. MaxRuns]

\* What ReplaceSource is called with; chunked when there are chunks at all.
Writes == [doc : Documents, source : Names, content : Contents,
           chunked : BOOLEAN, run : 1 .. MaxRuns]

Batches == [doc : Documents, run : 0 .. MaxRuns]

StoreTypeOK ==
  /\ tenant \in [Documents -> Tenants]
  /\ docs \in [Documents -> Rows \cup {NoDoc}]
  /\ chunks \subseteq Batches
  /\ phase \in [Sessions -> {"idle", "replace", "embed", "commit"}]
  /\ write \in [Sessions -> Writes \cup {NoWrite}]
  /\ targets \in [Sessions -> SUBSET [doc : Documents, born : 0 .. MaxRuns]]
  /\ deleted \in [Sessions -> SUBSET Documents]
  /\ \A x \in Sessions :
       phase[x] = "idle" => write[x] = NoWrite /\ targets[x] = {} /\ deleted[x] = {}
  /\ runs \in 0 .. MaxRuns
  /\ spoiled \subseteq Documents
  /\ storeFaults \in 0 .. MaxFaults

\* The store as earlier ingests may have left it.
StoreInit ==
  /\ tenant \in [Documents -> Tenants]
  /\ docs \in [Documents -> {r \in Rows : r.run = 0 /\ r.born = 0} \cup {NoDoc}]
  /\ chunks = {[doc |-> d, run |-> 0] :
                 d \in {e \in Documents : docs[e] # NoDoc /\ docs[e].chunked}}
  /\ phase = [x \in Sessions |-> "idle"]
  /\ write = [x \in Sessions |-> NoWrite]
  /\ targets = [x \in Sessions |-> {}]
  /\ deleted = [x \in Sessions |-> {}]
  /\ runs = 0
  /\ spoiled = {}
  /\ storeFaults = 0

(***************************************************************************)
(* Locks.                                                                  *)
(***************************************************************************)

\* Documents whose row the session's transaction has deleted or written.
Locks(x) ==
  deleted[x] \cup
    (IF phase[x] \in {"embed", "commit"} /\ write[x] # NoWrite
     THEN {write[x].doc} ELSE {})

LockedByOther(x, d) == \E y \in Sessions \ {x} : d \in Locks(y)

\* The rows a session needs next: the rest of its DELETE, then its INSERT.
Needs(x) ==
  IF targets[x] # {} THEN {r.doc : r \in targets[x]}
  ELSE IF phase[x] = "replace" THEN {write[x].doc} ELSE {}

\* A session that can only wait, and for whom.
Waits(x) == Needs(x) # {} /\ \A d \in Needs(x) : LockedByOther(x, d)
WaitsFor(x, y) == x # y /\ Waits(x) /\ Needs(x) \cap Locks(y) # {}

Deadlocked(x) ==
  \E cycle \in SUBSET Sessions :
    /\ x \in cycle
    /\ \A y \in cycle : \E z \in cycle : WaitsFor(y, z)

(***************************************************************************)
(* The transactions.                                                       *)
(***************************************************************************)

Begin(x, chosen, w) ==
  /\ phase[x] = "idle"
  /\ runs < MaxRuns
  /\ runs' = runs + 1
  /\ write' = [write EXCEPT ![x] = w]
  /\ targets' = [targets EXCEPT ![x] =
       {[doc |-> d, born |-> docs[d].born] : d \in chosen}]
  /\ phase' = [phase EXCEPT ![x] = IF w = NoWrite THEN "commit" ELSE "replace"]
  /\ UNCHANGED <<tenant, deleted, rowVars, storeFaults>>

\* Mutant of SourceDocuments: the DELETE is not scoped to the tenant.
SourceDocumentsUnscoped(t, name) ==
  {d \in Documents : docs[d] # NoDoc /\ docs[d].source = name}

\* Mutant of SourceDocuments: nothing is deleted before the insert.
SourceDocumentsNone(t, name) == {}

\* The documents a tenant has under a source name.
SourceDocuments(t, name) ==
  {d \in Documents : docs[d] # NoDoc /\ tenant[d] = t /\ docs[d].source = name}

\* BEGIN and DeleteSourceDocuments.
ReplaceSource(x, d, name, content, chunked) ==
  Begin(x, SourceDocuments(tenant[d], name),
        [doc |-> d, source |-> name, content |-> content, chunked |-> chunked,
         run |-> runs + 1])

\* DeleteTenantDocuments, a transaction of its own.
DeleteTenantData(x, t) ==
  Begin(x, {d \in Documents : docs[d] # NoDoc /\ tenant[d] = t}, NoWrite)

\* Mutant of DeleteRow: the DELETE commits by itself.
DeleteRowCommits(x) ==
  \E r \in targets[x] :
    /\ ~LockedByOther(x, r.doc)
    /\ targets' = [targets EXCEPT ![x] = @ \ {r}]
    /\ docs' = [docs EXCEPT ![r.doc] =
         IF @ # NoDoc /\ @.born = r.born THEN NoDoc ELSE @]
    /\ chunks' = {b \in chunks : docs'[b.doc] # NoDoc}
    /\ UNCHANGED <<tenant, phase, write, deleted, runs, spoiled, storeFaults>>

\* The DELETE gets the lock of a row it has chosen, and deletes the row if it
\* is still the one it chose.
DeleteRow(x) ==
  \E r \in targets[x] :
    /\ ~LockedByOther(x, r.doc)
    /\ targets' = [targets EXCEPT ![x] = @ \ {r}]
    /\ deleted' = [deleted EXCEPT ![x] =
         IF docs[r.doc] # NoDoc /\ docs[r.doc].born = r.born
         THEN @ \cup {r.doc} ELSE @]
    /\ UNCHANGED <<tenant, phase, write, runs, rowVars, storeFaults>>

\* InsertDocument gets the lock of the row, or of its key.  Without chunks
\* nothing is embedded.
InsertDocument(x) ==
  /\ phase[x] = "replace"
  /\ targets[x] = {}
  /\ ~LockedByOther(x, write[x].doc)
  /\ phase' = [phase EXCEPT ![x] = IF write[x].chunked THEN "embed" ELSE "commit"]
  /\ UNCHANGED <<tenant, write, targets, deleted, runs, rowVars, storeFaults>>

\* Embed, and InsertChunk for each chunk.
StoreChunks(x) ==
  /\ phase[x] = "embed"
  /\ phase' = [phase EXCEPT ![x] = "commit"]
  /\ UNCHANGED <<tenant, write, targets, deleted, runs, rowVars, storeFaults>>

\* The session is done with its transaction.
EndTx(x) ==
  /\ phase' = [phase EXCEPT ![x] = "idle"]
  /\ write' = [write EXCEPT ![x] = NoWrite]
  /\ targets' = [targets EXCEPT ![x] = {}]
  /\ deleted' = [deleted EXCEPT ![x] = {}]

\* ON CONFLICT (id) DO UPDATE SET content, metadata: the row keeps its source.
Upserted(x) ==
  LET w == write[x] IN
  IF docs[w.doc] = NoDoc \/ w.doc \in deleted[x]
  THEN [source |-> w.source, content |-> w.content, chunked |-> w.chunked,
        run |-> w.run, born |-> w.run]
  ELSE [docs[w.doc] EXCEPT !.content = w.content, !.chunked = w.chunked,
                           !.run = w.run]

\* Another session is replacing the same document.
Overlapped(x) ==
  \E y \in Sessions \ {x} :
    phase[y] # "idle" /\ write[y] # NoWrite /\ write[y].doc = write[x].doc

\* The document is stored under another name than the one it is inserted with.
Renamed(x) ==
  LET w == write[x] IN
  docs[w.doc] # NoDoc /\ w.doc \notin deleted[x] /\ docs[w.doc].source # w.source

\* Mutant of Kept: the foreign key does not cascade.
KeptAll(x) == chunks

\* The chunks whose document the transaction has not deleted.
Kept(x) == {b \in chunks : b.doc \notin deleted[x]}

\* COMMIT: what the transaction deleted and inserted becomes visible.
Commit(x) ==
  /\ phase[x] = "commit"
  /\ targets[x] = {}
  /\ EndTx(x)
  /\ LET w == write[x]
         left == [d \in Documents |-> IF d \in deleted[x] THEN NoDoc ELSE docs[d]]
     IN  IF w = NoWrite
         THEN /\ docs' = left
              /\ chunks' = Kept(x)
              /\ spoiled' = spoiled \ deleted[x]
         ELSE /\ docs' = [left EXCEPT ![w.doc] = Upserted(x)]
              /\ chunks' = Kept(x) \cup
                   (IF w.chunked THEN {[doc |-> w.doc, run |-> w.run]} ELSE {})
              /\ spoiled' = (spoiled \ deleted[x]) \cup
                   (IF Overlapped(x) \/ Renamed(x) THEN {w.doc} ELSE {})
  /\ UNCHANGED <<tenant, runs, storeFaults>>

\* Mutant of TxFails: no deferred Rollback, the connection keeps its locks.
TxFailsKeepsLocks(x) ==
  /\ phase[x] # "idle"
  /\ storeFaults < MaxFaults
  /\ storeFaults' = storeFaults + 1
  /\ phase' = [phase EXCEPT ![x] = "idle"]
  /\ write' = [write EXCEPT ![x] = NoWrite]
  /\ targets' = [targets EXCEPT ![x] = {}]
  /\ UNCHANGED <<tenant, deleted, runs, rowVars>>

\* A statement, the embedder or the COMMIT fails: the deferred Rollback.
TxFails(x) ==
  /\ phase[x] # "idle"
  /\ storeFaults < MaxFaults
  /\ storeFaults' = storeFaults + 1
  /\ EndTx(x)
  /\ UNCHANGED <<tenant, runs, rowVars>>

\* Mutant of Victim: only a transaction that has inserted its document counts.
VictimAfterInsert(x) ==
  /\ Deadlocked(x)
  /\ phase[x] = "embed"
  /\ EndTx(x)
  /\ UNCHANGED <<tenant, runs, rowVars, storeFaults>>

\* Postgres aborts one of the sessions that wait for each other.
Victim(x) ==
  /\ Deadlocked(x)
  /\ EndTx(x)
  /\ UNCHANGED <<tenant, runs, rowVars, storeFaults>>

Proceed(x) ==
  DeleteRow(x) \/ InsertDocument(x) \/ StoreChunks(x) \/ Commit(x) \/ Victim(x)

StoreNext ==
  \E x \in Sessions :
    \/ \E d \in Documents, name \in Names, content \in Contents, chunked \in BOOLEAN :
         ReplaceSource(x, d, name, content, chunked)
    \/ \E t \in Tenants : DeleteTenantData(x, t)
    \/ Proceed(x)
    \/ TxFails(x)

StoreSpec == StoreInit /\ [][StoreNext]_storeVars

(***************************************************************************)
(* What ReplaceSource promises.                                            *)
(***************************************************************************)

\* The old data is fully replaced, or nothing changes: a stored document has
\* the chunks of the run that wrote it, and there are no chunks without their
\* document.
DocumentAndChunksAgree ==
  /\ \A d \in Documents :
       docs[d] # NoDoc /\ docs[d].chunked => [doc |-> d, run |-> docs[d].run] \in chunks
  /\ \A b \in chunks : docs[b.doc] # NoDoc

\* Chunks of an earlier run stay only under a document whose last ingests
\* overlapped, or that was ingested under a new name.
StaleChunksExplained ==
  \A b \in chunks : b.run # docs[b.doc].run => b.doc \in spoiled

\* A document that is there disappears only at the commit of a DELETE of its
\* own tenant: of the whole tenant, or of the name it is stored under when
\* another source of the tenant is ingested with that name.  Its own ingest
\* never makes it disappear, not even for a moment.
RemovedByItsTenant ==
  [][\A d \in Documents :
       docs[d] # NoDoc /\ docs'[d] = NoDoc =>
         \E x \in Sessions :
           /\ phase[x] = "commit"
           /\ phase'[x] = "idle"
           /\ d \in deleted[x]
           /\ write[x] # NoWrite =>
                /\ write[x].doc # d
                /\ tenant[write[x].doc] = tenant[d]
                /\ write[x].source = docs[d].source]_storeVars

\* Sessions that replace each other's documents do not all wait for ever: while
\* one has work to do, some session can go on.
NoStall ==
  (\E x \in Sessions : phase[x] # "idle") => \E x \in Sessions : ENABLED Proceed(x)

\* store.go: re-ingesting a source must not accumulate duplicates.
NoDuplicates ==
  \A b, c \in chunks : b.doc = c.doc => b = c
=============================================================================
