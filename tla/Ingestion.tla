------------------------------ MODULE Ingestion ------------------------------
(***************************************************************************)
(* From an uploaded file to the knowledge base: ingestion tasks            *)
(* (IngestHandler, internal/queue/handler.go) are taken from the queue,    *)
(* the source is resolved (internal/ingestion/connector.go), its object is *)
(* read (file_upload.go), and the document replaces the one in the         *)
(* knowledge store (worker.go, knowledge/store.go), while the requests of  *)
(* the sources service go on.                                              *)
(*                                                                         *)
(* Composes Sources with KnowledgeStore: a worker is a session of the      *)
(* store, a source has the document of the same id, and its content is the *)
(* version of the object it was read from.  The slots of the tenant are    *)
(* those of JobHandlers: a task that gets none goes back to the queue.     *)
(***************************************************************************)
EXTENDS Sources

CONSTANTS
  Workers,
  Tenants,
  Unsupported, \* file names no parser takes, even after a look at the bytes
  MaxRuns,     \* bound on transactions of the store
  NoDoc,
  NoWrite,
  NoJob        \* what an idle worker does

ASSUME UnsupportedAssumption == Unsupported \subseteq FileNames
ASSUME StoreAssumption ==
  /\ IsFiniteSet(Workers) /\ MaxRuns \in Nat
  /\ NoDoc \notin [source : FileNames, content : 1 .. MaxUploads, chunked : BOOLEAN,
                   run : Nat, born : Nat]
  /\ NoWrite \notin [doc : Sources, source : FileNames, content : 1 .. MaxUploads,
                     chunked : BOOLEAN, run : Nat]

VARIABLES
  tenant, docs, chunks, phase, write, targets, deleted, runs, spoiled,
  job,   \* the task each worker is on
  raced, \* history: sources two workers were on at once
  shared \* history: sources that met another's document under their file name

INSTANCE KnowledgeStore WITH
  Documents <- Sources, Names <- FileNames, Sessions <- Workers,
  Contents <- 1 .. MaxUploads, storeFaults <- faults

knowledgeVars == <<tenant, docs, chunks, phase, write, targets, deleted, runs, spoiled>>
jobVars == <<job, raced, shared>>
vars == <<sourceVars, accountVars, knowledgeVars, jobVars>>

Jobs == [step : {"mark", "extract", "store"}, source : Sources, file : FileNames,
         content : 0 .. MaxUploads]

ASSUME NoJobAssumption == NoJob \notin Jobs

TypeOK ==
  /\ SourcesTypeOK
  /\ StoreTypeOK
  /\ job \in [Workers -> Jobs \cup {NoJob}]
  /\ raced \subseteq Sources /\ shared \subseteq Sources
  /\ \A w \in Workers :
       phase[w] # "idle" =>
         job[w] # NoJob /\ job[w].step = "store" /\ write[w].doc = job[w].source

Init ==
  /\ SourcesInit
  /\ StoreInit
  /\ docs = [s \in Sources |-> NoDoc]
  /\ job = [w \in Workers |-> NoJob]
  /\ raced = {} /\ shared = {}

(***************************************************************************)
(* Resolve.                                                                *)
(***************************************************************************)

\* A worker takes a task of s; next is where it goes with it.
Take(w, s, next) ==
  /\ job[w] = NoJob
  /\ pending[s] > 0
  /\ pending' = [pending EXCEPT ![s] = @ - 1]
  /\ job' = [job EXCEPT ![w] = next]
  /\ raced' = IF \E x \in Workers : job[x] # NoJob /\ job[x].source = s
              THEN raced \cup {s} ELSE raced
  /\ UNCHANGED <<rows, object, request, uploads, asked, contended, emptied, fresh,
                 unseen, knowledgeVars, shared>>

JobOf(s, step, file) == [step |-> step, source |-> s, file |-> file, content |-> 0]

\* The file connector: the row has a key and a name a parser takes.
Resolve(w, s) ==
  /\ Exists(s) /\ rows[s].key /\ rows[s].file \notin Unsupported
  /\ Take(w, s, JobOf(s, "extract", rows[s].file))
  /\ UNCHANGED faults

\* A permanent failure: no key, or a name no parser takes.
Unresolvable(w, s) ==
  /\ Exists(s)
  /\ ~rows[s].key \/ (rows[s].file \in Unsupported /\ object[s] # 0)
  /\ Take(w, s, JobOf(s, "mark", rows[s].file))
  /\ UNCHANGED faults

\* An unknown extension, and no object to look at: the task goes back, or is
\* archived after its last retry.
SniffFails(w, s) ==
  /\ job[w] = NoJob
  /\ pending[s] > 0
  /\ Exists(s) /\ rows[s].key /\ rows[s].file \in Unsupported /\ object[s] = 0
  /\ pending' = [pending EXCEPT ![s] = @ - 1]
  /\ UNCHANGED <<rows, object, request, uploads, asked, accountVars, knowledgeVars,
                 jobVars>>

\* The row is gone: neither the task nor an error stays.
ResolveGone(w, s) ==
  /\ ~Exists(s)
  /\ Take(w, s, NoJob)
  /\ UNCHANGED faults

\* Any failure of the read is taken for a source that does not exist.
ResolveFails(w, s) ==
  /\ Exists(s)
  /\ SourceFault
  /\ Take(w, s, JobOf(s, "mark", rows[s].file))

\* The worker has a task at this step.
Doing(w, step) == job[w] # NoJob /\ job[w].step = step

EndJob(w) == job' = [job EXCEPT ![w] = NoJob] /\ UNCHANGED <<raced, shared>>

\* A permanent failure is not retried.
MarkError(w) ==
  LET s == job[w].source IN
  /\ Doing(w, "mark")
  /\ rows' = IF Exists(s) THEN [rows EXCEPT ![s].status = "error"] ELSE rows
  /\ unseen' = IF Exists(s) THEN unseen \cup {s} ELSE unseen
  /\ EndJob(w)
  /\ UNCHANGED <<object, pending, request, uploads, asked, contended, emptied, fresh,
                 faults, knowledgeVars>>

\* The error of MarkError is ignored.
MarkErrorFails(w) ==
  /\ Doing(w, "mark")
  /\ SourceFault
  /\ EndJob(w)
  /\ UNCHANGED <<sourceVars, contended, emptied, fresh, unseen, knowledgeVars>>

(***************************************************************************)
(* Extract and store.                                                      *)
(***************************************************************************)

\* The task goes back to the queue, or is archived after its last retry.
Retry(w) ==
  /\ \E again \in {0, 1} : pending' = [pending EXCEPT ![job[w].source] = @ + again]
  /\ EndJob(w)

\* Mutant of Extract: the read may return the bytes of an earlier upload.
ExtractAnyVersion(w) ==
  LET s == job[w].source IN
  /\ Doing(w, "extract")
  /\ object[s] # 0
  /\ \E version \in 1 .. object[s] :
       job' = [job EXCEPT ![w].step = "store", ![w].content = version]
  /\ UNCHANGED <<sourceVars, accountVars, knowledgeVars, raced, shared>>

\* Mutant of Extract: the bytes of the first upload are cached.
ExtractCached(w) ==
  LET s == job[w].source IN
  /\ Doing(w, "extract")
  /\ object[s] # 0
  /\ job' = [job EXCEPT ![w].step = "store",
                        ![w].content = IF docs[s] # NoDoc THEN docs[s].content
                                       ELSE object[s]]
  /\ UNCHANGED <<sourceVars, accountVars, knowledgeVars, raced, shared>>

Extract(w) ==
  LET s == job[w].source IN
  /\ Doing(w, "extract")
  /\ object[s] # 0
  /\ job' = [job EXCEPT ![w].step = "store", ![w].content = object[s]]
  /\ UNCHANGED <<sourceVars, accountVars, knowledgeVars, raced, shared>>

\* No object, a failed read, or bytes that do not parse.
ExtractFails(w) ==
  /\ Doing(w, "extract")
  /\ IF object[job[w].source] # 0 THEN SourceFault ELSE UNCHANGED faults
  /\ Retry(w)
  /\ UNCHANGED <<rows, object, request, uploads, asked, contended, emptied, fresh,
                 unseen, knowledgeVars>>

\* Chunking leaves chunks: empty texts are the matter of KnowledgeStore.
BeginStore(w) ==
  LET s      == job[w].source
      others == SourceDocuments(tenant[s], job[w].file) \ {s}
  IN  /\ Doing(w, "store")
      /\ ReplaceSource(w, s, job[w].file, job[w].content, TRUE)
      /\ shared' = IF others = {} THEN shared ELSE shared \cup others \cup {s}
      /\ UNCHANGED <<sourceVars, accountVars, job, raced>>

StoreStep(w) ==
  /\ DeleteRow(w) \/ InsertDocument(w) \/ StoreChunks(w)
  /\ UNCHANGED <<sourceVars, accountVars, jobVars>>

FinishStore(w) ==
  /\ Commit(w)
  /\ EndJob(w)
  /\ UNCHANGED <<sourceVars, contended, emptied, fresh, unseen>>

\* Mutant of StoreFails: the worker returns with its transaction open.
StoreFailsOpen(w) ==
  /\ Doing(w, "store")
  /\ phase[w] # "idle"
  /\ SourceFault
  /\ Retry(w)
  /\ UNCHANGED <<rows, object, request, uploads, asked, contended, emptied, fresh,
                 unseen, knowledgeVars>>

StoreFails(w) ==
  /\ TxFails(w) \/ Victim(w)
  /\ Retry(w)
  /\ UNCHANGED <<rows, object, request, uploads, asked, contended, emptied, fresh,
                 unseen>>

Work(w) ==
  \/ \E s \in Sources :
       \/ Resolve(w, s) \/ Unresolvable(w, s) \/ SniffFails(w, s)
       \/ ResolveGone(w, s) \/ ResolveFails(w, s)
  \/ MarkError(w) \/ MarkErrorFails(w)
  \/ Extract(w) \/ ExtractFails(w)
  \/ BeginStore(w) \/ StoreStep(w) \/ FinishStore(w) \/ StoreFails(w)

Next ==
  \/ \E c \in Clients : Serve(c) /\ UNCHANGED <<knowledgeVars, jobVars>>
  \/ \E w \in Workers : Work(w)

Spec == Init /\ [][Next]_vars

(***************************************************************************)
(* What the pipeline promises.                                             *)
(***************************************************************************)

\* A row never refers to an object that is not there, unless an upload failed
\* and its cleanup deleted what another request has put under the same key.
DanglingExplained ==
  \A s \in Sources :
    Exists(s) /\ rows[s].key /\ object[s] = 0 => faults > 0 /\ s \in contended

\* When the requests are over, an object no row refers to was left by a
\* failure, by requests that overlapped, or by an update with an empty file.
OrphanExplained ==
  \A s \in Sources :
    object[s] # 0 /\ InProgress(s) = {} /\ ~(Exists(s) /\ rows[s].key) =>
      faults > 0 \/ s \in contended \cup emptied

\* A document never goes back to an older upload, unless two workers were on
\* the source at once.
ContentNeverOlder ==
  [][\A s \in Sources :
       docs[s] # NoDoc /\ docs'[s] # NoDoc /\ docs'[s].content < docs[s].content
       => s \in raced]_vars

\* Once a sync that found the upload complete has been worked off, the
\* knowledge base holds the bytes of the last upload, unless two workers were on
\* the source at once or another source of the tenant has the same file name:
\* then the ingest of one deletes the document of the other, and two that delete
\* each other's may be aborted for ever.
SyncedContentStored ==
  \A s \in Sources :
    /\ s \in fresh \ (raced \cup shared)
    /\ faults = 0
    /\ rows[s].file \notin Unsupported
    /\ pending[s] = 0
    /\ \A w \in Workers : job[w] # NoJob => job[w].source # s
    => docs[s] # NoDoc /\ docs[s].content = object[s]

\* connector.go: a failed resolution marks the source as error and leaves retry
\* to manual action: the source is in error until the next request for it.
FailedResolutionShown ==
  \A s \in unseen : Exists(s) => rows[s].status = "error"
=============================================================================
