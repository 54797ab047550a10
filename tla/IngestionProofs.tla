--------------------------- MODULE IngestionProofs ---------------------------
(***************************************************************************)
(* Proofs about Ingestion, for any sources, file names, clients, workers,  *)
(* and any number of requests, uploads and failures.                       *)
(***************************************************************************)
EXTENDS Ingestion, TLAPS

(***************************************************************************)
(* Types.                                                                  *)
(***************************************************************************)

\* What a worker stores has been read, and its session writes that.
HandedOn ==
  \A w \in Workers :
    /\ job[w] # NoJob /\ job[w].step = "store" => job[w].content # 0
    /\ phase[w] # "idle" => write[w] # NoWrite /\ write[w].content = job[w].content

IType == TypeOK /\ HandedOn

LEMMA Bounds ==
  /\ MaxRequests \in Nat /\ MaxUploads \in Nat /\ MaxFaults \in Nat
PROOF
<1>1. \A x \in {MaxRequests, MaxUploads, MaxFaults} : x \in Nat
  BY RequestsAssumption, Zenon
<1> QED  BY <1>1

LEMMA FaultType ==
  ASSUME SourcesTypeOK, SourceFault
  PROVE  faults' \in 0 .. MaxFaults /\ faults' = faults + 1
BY Bounds DEF SourcesTypeOK, SourceFault

\* The record of a request in progress, and the row it has read.
LEMMA RequestType ==
  ASSUME SourcesTypeOK, NEW c \in Clients, request[c] # NoRequest
  PROVE  /\ request[c] \in Requests /\ request[c].source \in Sources
         /\ request[c].row \in Row /\ request[c].file \in FileNames
         /\ request[c].upload \in BOOLEAN
         /\ \A s \in STRING : s \in {"write", "put", "record", "cleanup", "delete",
                                     "remove", "enqueue", "status"} =>
              [request[c] EXCEPT !.step = s] \in Requests
BY DEF SourcesTypeOK, Requests

LEMMA ExistingRow ==
  ASSUME SourcesTypeOK, NEW s \in Sources
  PROVE  /\ Exists(s) <=> rows[s] \in Row
         /\ rows[s] \in Row => rows[s] # Absent /\ rows[s] # Deleted
BY SourceRowsAssumption DEF SourcesTypeOK, Exists, Row

\* A row keeps its type when its fields change.
LEMMA RowFields ==
  ASSUME NEW r \in Row, NEW f \in FileNames, NEW k \in BOOLEAN,
         NEW x \in {"inactive", "active", "error"}
  PROVE  /\ [r EXCEPT !.key = k] \in Row /\ [r EXCEPT !.status = x] \in Row
         /\ [r EXCEPT !.file = f, !.key = k] \in Row
         /\ r.key \in BOOLEAN /\ r.file \in FileNames
         /\ [r EXCEPT !.key = k].key = k /\ [r EXCEPT !.status = x].key = r.key
         /\ [r EXCEPT !.file = f, !.key = k].key = k
BY DEF Row

LEMMA BeginTypes ==
  ASSUME SourcesTypeOK, NEW c \in Clients, NEW s \in Sources,
         \/ \E file \in FileNames, upload \in BOOLEAN :
              Create(c, s, file, upload) \/ BeginUpdate(c, s, file, upload)
         \/ BeginRename(c, s) \/ BeginDelete(c, s) \/ BeginSync(c, s)
  PROVE  SourcesTypeOK'
PROOF
<1>1. ASSUME NEW file \in FileNames, NEW upload \in BOOLEAN, Create(c, s, file, upload)
      PROVE  SourcesTypeOK'
  <2> DEFINE row == [file |-> file, key |-> FALSE, status |-> "inactive"]
             new == [op |-> "create", step |-> "put", source |-> s, row |-> row,
                     file |-> file, upload |-> TRUE]
  <2>1. row \in Row
    BY DEF Row
  <2>2. new \in Requests
    BY <2>1 DEF Requests
  <2>3. request' \in [Clients -> Requests \cup {NoRequest}]
    BY <1>1, <2>2 DEF Create, SourcesTypeOK
  <2>4. rows' \in [Sources -> Row \cup {Absent, Deleted}]
    BY <1>1, <2>1 DEF Create, SourcesTypeOK
  <2> QED  BY <1>1, <2>3, <2>4, Bounds DEF Create, Arrives, SourcesTypeOK
<1>2. ASSUME NEW op \in {"update", "rename", "delete", "sync"},
             NEW step \in {"write", "delete", "enqueue"}, NEW file, NEW upload \in BOOLEAN,
             Exists(s) => file \in FileNames,
             Read(c, op, step, s, file, upload)
      PROVE  SourcesTypeOK'
  <2> DEFINE new == [op |-> op, step |-> step, source |-> s, row |-> rows[s],
                     file |-> file, upload |-> upload]
  <2>1. rows[s] \in Row /\ file \in FileNames
    BY <1>2, ExistingRow DEF Read
  <2>2. new \in Requests
    BY <2>1 DEF Requests
  <2>3. request' \in [Clients -> Requests \cup {NoRequest}]
    BY <1>2, <2>2 DEF Read, SourcesTypeOK
  <2> QED  BY <1>2, <2>3, Bounds DEF Read, Arrives, SourcesTypeOK
<1>3. Exists(s) => rows[s].file \in FileNames
  BY ExistingRow DEF Row
<1> QED
  BY <1>1, <1>2, <1>3 DEF BeginUpdate, BeginRename, BeginDelete, BeginSync

LEMMA ServeTypes ==
  ASSUME SourcesTypeOK, NEW c \in Clients, request[c] # NoRequest,
         \/ WriteSource(c) \/ PutObject(c) \/ RecordKey(c) \/ RecordFails(c)
         \/ Cleanup(c) \/ DeleteSource(c) \/ RemoveObject(c)
         \/ EnqueueSync(c) \/ MarkSynced(c) \/ RequestFails(c)
  PROVE  SourcesTypeOK'
PROOF
<1> DEFINE r == request[c]
           s == request[c].source
<1> USE Bounds
<1>0. r \in Requests /\ s \in Sources /\ r.row \in Row /\ r.file \in FileNames
  BY RequestType
<1>1. ASSUME NEW step \in {"put", "record", "cleanup", "remove", "status"}, GoTo(c, step)
      PROVE  request' \in [Clients -> Requests \cup {NoRequest}]
  <2>1. [r EXCEPT !.step = step] \in Requests
    BY <1>0 DEF Requests
  <2> QED  BY <1>1, <2>1 DEF GoTo, SourcesTypeOK
<1>2. Done(c) => request' \in [Clients -> Requests \cup {NoRequest}]
  BY DEF Done, SourcesTypeOK
<1>3. CASE WriteSource(c)
  <2>1. Updated(r) \in Row
    BY <1>0, RowFields DEF Updated
  <2>2. [r EXCEPT !.step = "put", !.row = Updated(r)] \in Requests
    BY <1>0, <2>1 DEF Requests
  <2>3. request' \in [Clients -> Requests \cup {NoRequest}]
    BY <1>3, <2>2 DEF WriteSource, SourcesTypeOK
  <2>4. rows' \in [Sources -> Row \cup {Absent, Deleted}]
    BY <1>0, <1>3, <2>1 DEF WriteSource, SourcesTypeOK
  <2>5. fresh' \subseteq Sources /\ emptied' \subseteq Sources
    BY <1>0, <1>3 DEF WriteSource, SourcesTypeOK
  <2> QED  BY <1>3, <2>3, <2>4, <2>5 DEF WriteSource, SourcesTypeOK
<1>4. CASE PutObject(c)
  <2>1. uploads + 1 \in 0 .. MaxUploads
    BY <1>4 DEF PutObject, SourcesTypeOK
  <2> QED  BY <1>0, <1>1, <1>4, <2>1 DEF PutObject, SourcesTypeOK
<1>5. CASE RecordKey(c)
  <2>1. [r.row EXCEPT !.key = TRUE] \in Row
    BY <1>0, RowFields
  <2>2. rows' \in [Sources -> Row \cup {Absent, Deleted}]
    BY <1>5, <2>1 DEF RecordKey, SourcesTypeOK
  <2> QED  BY <1>2, <1>5, <2>2 DEF RecordKey, SourcesTypeOK
<1>6. CASE RecordFails(c)
  <2>1. faults' \in 0 .. MaxFaults
    BY <1>6, FaultType DEF RecordFails, SourcesTypeOK
  <2> QED  BY <1>1, <1>6, <2>1 DEF RecordFails, SourcesTypeOK
<1>7. CASE Cleanup(c) \/ RemoveObject(c)
  <2>1. object' \in [Sources -> 0 .. MaxUploads]
    BY <1>7 DEF Cleanup, RemoveObject, SourcesTypeOK
  <2> QED  BY <1>2, <1>7, <2>1 DEF Cleanup, RemoveObject, SourcesTypeOK
<1>8. CASE DeleteSource(c)
  <2>1. request' \in [Clients -> Requests \cup {NoRequest}]
    BY <1>1, <1>2, <1>8 DEF DeleteSource
  <2>2. rows' \in [Sources -> Row \cup {Absent, Deleted}]
    BY <1>8 DEF DeleteSource, SourcesTypeOK
  <2> QED  BY <1>8, <2>1, <2>2 DEF DeleteSource, SourcesTypeOK
<1>9. CASE EnqueueSync(c)
  <2>1. pending' \in [Sources -> Nat] /\ fresh' \subseteq Sources
    BY <1>0, <1>9 DEF EnqueueSync, SourcesTypeOK
  <2> QED  BY <1>1, <1>9, <2>1 DEF EnqueueSync, SourcesTypeOK
<1>10. CASE MarkSynced(c)
  <2>1. Exists(s) => [rows[s] EXCEPT !.status = "active"] \in Row
    BY <1>0, ExistingRow, RowFields
  <2>2. rows' \in [Sources -> Row \cup {Absent, Deleted}]
    BY <1>0, <1>10, <2>1 DEF MarkSynced, SourcesTypeOK
  <2> QED  BY <1>2, <1>10, <2>2 DEF MarkSynced, SourcesTypeOK
<1>11. CASE RequestFails(c)
  BY <1>2, <1>11, FaultType DEF RequestFails, SourcesTypeOK
<1> QED
  BY <1>3, <1>4, <1>5, <1>6, <1>7, <1>8, <1>9, <1>10, <1>11

(***************************************************************************)
(* Types of the store and of the workers' jobs.                            *)
(***************************************************************************)
LEMMA StoreUntouched ==
  ASSUME StoreTypeOK, UNCHANGED knowledgeVars, faults' \in 0 .. MaxFaults
  PROVE  StoreTypeOK'
BY DEF StoreTypeOK, knowledgeVars

LEMMA JobType ==
  ASSUME TypeOK, NEW w \in Workers, job[w] # NoJob
  PROVE  /\ job[w] \in Jobs /\ job[w].source \in Sources /\ job[w].file \in FileNames
         /\ job[w].content \in 0 .. MaxUploads
BY DEF TypeOK, Jobs

\* A worker outside a transaction may take up or drop a job, and count a fault.
LEMMA OutsideTx ==
  ASSUME IType, NEW w \in Workers, phase[w] = "idle", UNCHANGED knowledgeVars,
         SourcesTypeOK', raced' \subseteq Sources, shared' = shared,
         NEW j \in Jobs \cup {NoJob}, job' = [job EXCEPT ![w] = j],
         j # NoJob /\ j.step = "store" => j.content # 0
  PROVE  IType'
PROOF
<1>1. StoreTypeOK'
  BY StoreUntouched DEF IType, TypeOK, SourcesTypeOK
<1>2. phase' = phase /\ write' = write
  BY DEF knowledgeVars
<1>3. job' \in [Workers -> Jobs \cup {NoJob}] /\ job'[w] = j
      /\ \A x \in Workers : x # w => job'[x] = job[x]
  BY DEF IType, TypeOK
<1> QED  BY <1>1, <1>2, <1>3 DEF IType, TypeOK, HandedOn

LEMMA TakeTypes ==
  ASSUME IType, NEW w \in Workers, NEW s \in Sources, NEW j \in Jobs \cup {NoJob},
         j # NoJob => j.step # "store", Take(w, s, j), faults' \in 0 .. MaxFaults
  PROVE  IType'
PROOF
<1>1. phase[w] = "idle" /\ UNCHANGED knowledgeVars
  BY DEF Take, IType, TypeOK
<1>2. SourcesTypeOK'
  BY DEF Take, IType, TypeOK, SourcesTypeOK
<1>3. raced' \subseteq Sources /\ shared' = shared /\ job' = [job EXCEPT ![w] = j]
  BY DEF Take, IType, TypeOK
<1> QED  BY <1>1, <1>2, <1>3, OutsideTx

LEMMA ResolveTypes ==
  ASSUME IType, NEW w \in Workers, NEW s \in Sources,
         \/ Resolve(w, s) \/ Unresolvable(w, s) \/ SniffFails(w, s)
         \/ ResolveGone(w, s) \/ ResolveFails(w, s)
  PROVE  IType'
PROOF
<1>0. /\ SourcesTypeOK /\ MaxUploads \in Nat /\ 0 \in 0 .. MaxUploads
      /\ faults \in 0 .. MaxFaults
  BY Bounds DEF IType, TypeOK, SourcesTypeOK
<1>1. ASSUME Exists(s), NEW step \in {"mark", "extract"}
      PROVE  /\ JobOf(s, step, rows[s].file) \in Jobs
             /\ JobOf(s, step, rows[s].file).step # "store"
  <2>1. rows[s].file \in FileNames
    BY <1>0, <1>1, ExistingRow DEF Row
  <2> QED  BY <1>0, <2>1 DEF JobOf, Jobs
<1>2. CASE Resolve(w, s)
  BY <1>0, <1>1, <1>2, TakeTypes DEF Resolve
<1>3. CASE Unresolvable(w, s)
  BY <1>0, <1>1, <1>3, TakeTypes DEF Unresolvable
<1>4. CASE SniffFails(w, s)
  <2>1. pending' \in [Sources -> Nat]
    BY <1>0, <1>4 DEF SniffFails, SourcesTypeOK
  <2>2. UNCHANGED <<rows, object, request, uploads, asked, contended, emptied, fresh,
                    unseen, faults, job, raced, shared>> /\ UNCHANGED knowledgeVars
    BY <1>4 DEF SniffFails, accountVars, jobVars
  <2>3. SourcesTypeOK'
    BY <1>0, <2>1, <2>2 DEF SourcesTypeOK
  <2>4. StoreTypeOK'
    BY <1>0, <2>2, StoreUntouched DEF IType, TypeOK
  <2>5. phase' = phase /\ write' = write
    BY <2>2 DEF knowledgeVars
  <2> QED  BY <2>2, <2>3, <2>4, <2>5 DEF IType, TypeOK, HandedOn
<1>5. CASE ResolveGone(w, s)
  BY <1>0, <1>5, TakeTypes DEF ResolveGone
<1>6. CASE ResolveFails(w, s)
  <2>1. faults' \in 0 .. MaxFaults
    BY <1>0, <1>6, FaultType DEF ResolveFails
  <2> QED  BY <1>1, <1>6, <2>1, TakeTypes DEF ResolveFails
<1> QED  BY <1>2, <1>3, <1>4, <1>5, <1>6

LEMMA MarkTypes ==
  ASSUME IType, NEW w \in Workers, MarkError(w) \/ MarkErrorFails(w)
  PROVE  IType'
PROOF
<1>0. /\ SourcesTypeOK /\ phase[w] = "idle" /\ job[w] # NoJob /\ job[w].source \in Sources
      /\ UNCHANGED knowledgeVars
  BY JobType DEF IType, TypeOK, MarkError, MarkErrorFails, Doing
<1>1. raced' = raced /\ shared' = shared /\ job' = [job EXCEPT ![w] = NoJob]
  BY DEF MarkError, MarkErrorFails, EndJob
<1>2. SourcesTypeOK'
  <2>1. CASE MarkError(w)
    <3> DEFINE s == job[w].source
    <3>1. Exists(s) => [rows[s] EXCEPT !.status = "error"] \in Row
      BY <1>0, ExistingRow DEF Row
    <3>2. rows' \in [Sources -> Row \cup {Absent, Deleted}]
      BY <1>0, <2>1, <3>1 DEF MarkError, SourcesTypeOK
    <3>3. unseen' \subseteq Sources
      BY <1>0, <2>1 DEF MarkError, SourcesTypeOK
    <3> QED  BY <1>0, <2>1, <3>2, <3>3 DEF MarkError, SourcesTypeOK
  <2>2. CASE MarkErrorFails(w)
    BY <1>0, <2>2, FaultType DEF MarkErrorFails, SourcesTypeOK, sourceVars
  <2> QED  BY <2>1, <2>2
<1> QED  BY <1>0, <1>1, <1>2, OutsideTx DEF IType, TypeOK

LEMMA RetryTypes ==
  ASSUME IType, NEW w \in Workers, job[w] # NoJob, Retry(w)
  PROVE  /\ pending' \in [Sources -> Nat]
         /\ raced' = raced /\ shared' = shared /\ job' = [job EXCEPT ![w] = NoJob]
BY JobType DEF IType, TypeOK, SourcesTypeOK, Retry, EndJob

LEMMA ExtractTypes ==
  ASSUME IType, NEW w \in Workers, Extract(w) \/ ExtractFails(w)
  PROVE  IType'
PROOF
<1>0. /\ SourcesTypeOK /\ phase[w] = "idle" /\ job[w] # NoJob
      /\ job[w] \in Jobs /\ job[w].source \in Sources
      /\ UNCHANGED knowledgeVars
  BY JobType DEF IType, TypeOK, Extract, ExtractFails, Doing
<1>1. CASE Extract(w)
  <2> DEFINE j == [job[w] EXCEPT !.step = "store", !.content = object[job[w].source]]
  <2>1. object[job[w].source] \in 0 .. MaxUploads /\ object[job[w].source] # 0
    BY <1>0, <1>1 DEF Extract, SourcesTypeOK
  <2>2. j \in Jobs /\ j.content # 0
    BY <1>0, <2>1 DEF Jobs
  <2>3. job' = [job EXCEPT ![w] = j]
    BY <1>1 DEF Extract
  <2>4. SourcesTypeOK' /\ raced' \subseteq Sources /\ shared' = shared
    BY <1>0, <1>1 DEF Extract, SourcesTypeOK, sourceVars, accountVars, IType, TypeOK
  <2> QED  BY <1>0, <2>2, <2>3, <2>4, OutsideTx
<1>2. CASE ExtractFails(w)
  <2>1. faults' \in 0 .. MaxFaults
    BY <1>0, <1>2, FaultType DEF ExtractFails, SourcesTypeOK
  <2>2. /\ pending' \in [Sources -> Nat] /\ raced' = raced /\ shared' = shared
        /\ job' = [job EXCEPT ![w] = NoJob]
    BY <1>0, <1>2, RetryTypes DEF ExtractFails
  <2>3. SourcesTypeOK'
    BY <1>0, <1>2, <2>1, <2>2 DEF ExtractFails, SourcesTypeOK
  <2> QED  BY <1>0, <2>2, <2>3, OutsideTx DEF IType, TypeOK
<1> QED  BY <1>1, <1>2

\* What stays as it is in a step of the store.
LEMMA StoreStepFrame ==
  ASSUME IType, StoreTypeOK', SourcesTypeOK', raced' = raced, shared' \subseteq Sources,
         NEW w \in Workers,
         \A x \in Workers : x # w => /\ phase'[x] = phase[x] /\ write'[x] = write[x]
                                     /\ job'[x] = job[x],
         job' \in [Workers -> Jobs \cup {NoJob}],
         job'[w] # NoJob /\ job'[w].step = "store" => job'[w].content # 0,
         phase'[w] # "idle" => /\ job'[w] # NoJob /\ job'[w].step = "store"
                               /\ write'[w].doc = job'[w].source
                               /\ write'[w] # NoWrite
                               /\ write'[w].content = job'[w].content
  PROVE  IType'
BY DEF IType, TypeOK, HandedOn

LEMMA BeginTyped ==
  ASSUME IType, NEW w \in Workers, BeginStore(w)
  PROVE  IType'
PROOF
<1> DEFINE j == job[w]
           new == [doc |-> j.source, source |-> j.file, content |-> j.content,
                   chunked |-> TRUE, run |-> runs + 1]
           chosen == SourceDocuments(tenant[j.source], j.file)
           rest == {[doc |-> d, born |-> docs[d].born] : d \in chosen}
<1>1. /\ j # NoJob /\ j.step = "store" /\ j \in Jobs
      /\ j.source \in Sources /\ j.file \in FileNames /\ j.content \in 1 .. MaxUploads
  BY JobType, Bounds DEF BeginStore, Doing, IType, HandedOn
<1>2. Begin(w, chosen, new)
  BY DEF BeginStore, ReplaceSource
<1>3. runs' = runs + 1 /\ runs' \in 0 .. MaxRuns /\ runs' \in 1 .. MaxRuns
  BY <1>2, StoreAssumption DEF Begin, IType, TypeOK, StoreTypeOK
<1>4. new \in Writes
  BY <1>1, <1>3 DEF Writes
<1>5. rest \in SUBSET [doc : Sources, born : 0 .. MaxRuns]
  <2>1. \A d \in chosen : d \in Sources /\ docs[d] \in Rows
    BY DEF SourceDocuments, IType, TypeOK, StoreTypeOK
  <2> QED  BY <2>1 DEF Rows
<1> HIDE DEF new, rest, chosen
<1>6. write' = [write EXCEPT ![w] = new]
  BY <1>2 DEF Begin
<1>7. targets' = [targets EXCEPT ![w] = rest]
  BY <1>2 DEF Begin, rest
<1>8. phase' = [phase EXCEPT ![w] = IF new = NoWrite THEN "commit" ELSE "replace"]
  BY <1>2 DEF Begin
<1>9. phase[w] = "idle" /\ UNCHANGED <<tenant, deleted, docs, chunks, spoiled, faults>>
  BY <1>2 DEF Begin, rowVars
<1>10. StoreTypeOK'
  BY <1>3, <1>4, <1>5, <1>6, <1>7, <1>8, <1>9 DEF IType, TypeOK, StoreTypeOK
<1>11. /\ SourcesTypeOK' /\ job' = job /\ raced' = raced
       /\ shared' \subseteq Sources
  BY <1>1 DEF BeginStore, SourceDocuments, IType, TypeOK, SourcesTypeOK, sourceVars,
              accountVars
<1>12. /\ write'[w] # NoWrite /\ write'[w].doc = j.source
       /\ write'[w].content = j.content
  <2>1. write'[w] = new
    BY <1>6 DEF IType, TypeOK, StoreTypeOK
  <2>2. new # NoWrite
    BY <1>4, StoreAssumption DEF Writes
  <2> QED  BY <2>1, <2>2 DEF new
<1>13. \A x \in Workers : x # w => phase'[x] = phase[x] /\ write'[x] = write[x]
  BY <1>6, <1>8 DEF IType, TypeOK, StoreTypeOK
<1> QED
  BY <1>1, <1>10, <1>11, <1>12, <1>13, StoreStepFrame DEF IType, TypeOK, HandedOn

LEMMA ProceedTyped ==
  ASSUME IType, NEW w \in Workers, StoreStep(w)
  PROVE  IType'
PROOF
<1>1. /\ SourcesTypeOK' /\ job' = job /\ raced' = raced /\ faults' = faults
      /\ shared' = shared
      /\ job \in [Workers -> Jobs \cup {NoJob}]
  BY DEF StoreStep, IType, TypeOK, SourcesTypeOK, sourceVars, accountVars, jobVars
<1>2. CASE DeleteRow(w)
  <2>1. PICK r \in targets[w] :
          /\ targets' = [targets EXCEPT ![w] = @ \ {r}]
          /\ deleted' = [deleted EXCEPT ![w] =
               IF docs[r.doc] # NoDoc /\ docs[r.doc].born = r.born
               THEN @ \cup {r.doc} ELSE @]
    BY <1>2 DEF DeleteRow
  <2>2. r.doc \in Sources
    BY DEF IType, TypeOK, StoreTypeOK
  <2>3. UNCHANGED <<tenant, phase, write, runs, docs, chunks, spoiled>>
    BY <1>2 DEF DeleteRow, rowVars
  <2>4. deleted' \in [Workers -> SUBSET Sources]
    BY <2>1, <2>2 DEF IType, TypeOK, StoreTypeOK
  <2>5. targets' \in [Workers -> SUBSET [doc : Sources, born : 0 .. MaxRuns]]
    BY <2>1 DEF IType, TypeOK, StoreTypeOK
  <2>6. phase[w] # "idle"
    BY <2>1 DEF IType, TypeOK, StoreTypeOK
  <2>7. \A x \in Workers : x # w => targets'[x] = targets[x] /\ deleted'[x] = deleted[x]
    BY <2>1 DEF IType, TypeOK, StoreTypeOK
  <2>8. StoreTypeOK'
    BY <1>1, <2>3, <2>4, <2>5, <2>6, <2>7 DEF IType, TypeOK, StoreTypeOK
  <2> QED  BY <1>1, <2>3, <2>8 DEF IType, TypeOK, HandedOn
<1>3. CASE InsertDocument(w) \/ StoreChunks(w)
  <2>1. UNCHANGED <<tenant, write, targets, deleted, runs, docs, chunks, spoiled>>
    BY <1>3 DEF InsertDocument, StoreChunks, rowVars
  <2>2. /\ phase[w] # "idle"
        /\ \E p \in {"embed", "commit"} : phase' = [phase EXCEPT ![w] = p]
    BY <1>3 DEF InsertDocument, StoreChunks
  <2>3. StoreTypeOK'
    BY <1>1, <2>1, <2>2 DEF IType, TypeOK, StoreTypeOK
  <2>4. \A x \in Workers : phase'[x] # "idle" => phase[x] # "idle"
    BY <2>2 DEF IType, TypeOK, StoreTypeOK
  <2> QED  BY <1>1, <2>1, <2>3, <2>4 DEF IType, TypeOK, HandedOn
<1> QED  BY <1>2, <1>3 DEF StoreStep

\* A session that is done, by commit or rollback, is idle and holds nothing.
LEMMA EndTyped ==
  ASSUME IType, NEW w \in Workers, EndTx(w)
  PROVE  /\ phase' \in [Workers -> {"idle", "replace", "embed", "commit"}]
         /\ write' \in [Workers -> Writes \cup {NoWrite}]
         /\ targets' \in [Workers -> SUBSET [doc : Sources, born : 0 .. MaxRuns]]
         /\ deleted' \in [Workers -> SUBSET Sources]
         /\ phase'[w] = "idle" /\ write'[w] = NoWrite
         /\ targets'[w] = {} /\ deleted'[w] = {}
         /\ \A x \in Workers : x # w =>
              /\ phase'[x] = phase[x] /\ write'[x] = write[x]
              /\ targets'[x] = targets[x] /\ deleted'[x] = deleted[x]
BY DEF EndTx, IType, TypeOK, StoreTypeOK

\* What a commit leaves of each document.
LEMMA CommitDocs ==
  ASSUME IType, NEW w \in Workers, phase[w] # "idle", Commit(w)
  PROVE  /\ docs' \in [Sources -> Rows \cup {NoDoc}]
         /\ job[w] # NoJob /\ job[w].source \in Sources
         /\ docs'[job[w].source] # NoDoc /\ docs'[job[w].source].content = job[w].content
         /\ \A d \in Sources : d # job[w].source =>
              docs'[d] = IF d \in deleted[w] THEN NoDoc ELSE docs[d]
PROOF
<1> DEFINE v == write[w]
           left == [d \in Sources |-> IF d \in deleted[w] THEN NoDoc ELSE docs[d]]
<1>1. /\ v \in Writes /\ v # NoWrite /\ v.doc = job[w].source /\ v.content = job[w].content
      /\ job[w] # NoJob /\ job[w].source \in Sources
  BY JobType DEF IType, TypeOK, StoreTypeOK, HandedOn
<1>2. docs' = [left EXCEPT ![v.doc] = Upserted(w)]
  BY <1>1 DEF Commit
<1>3. Upserted(w) \in Rows /\ Upserted(w).content = v.content
  <2>1. docs[v.doc] \in Rows \cup {NoDoc} /\ v.run \in 0 .. MaxRuns
    BY <1>1, StoreAssumption DEF IType, TypeOK, StoreTypeOK, Writes
  <2>2. CASE docs[v.doc] = NoDoc \/ v.doc \in deleted[w]
    BY <1>1, <2>1, <2>2 DEF Upserted, Rows, Writes
  <2>3. CASE ~ (docs[v.doc] = NoDoc \/ v.doc \in deleted[w])
    BY <1>1, <2>1, <2>3 DEF Upserted, Rows, Writes
  <2> QED  BY <2>2, <2>3
<1>4. Upserted(w) # NoDoc
  BY <1>3, StoreAssumption DEF Rows
<1>5. left \in [Sources -> Rows \cup {NoDoc}]
  BY DEF IType, TypeOK, StoreTypeOK
<1>6. docs'[v.doc] = Upserted(w) /\ \A d \in Sources : d # v.doc => docs'[d] = left[d]
  BY <1>1, <1>2
<1>7. docs' \in [Sources -> Rows \cup {NoDoc}]
  BY <1>1, <1>2, <1>3, <1>5
<1> QED  BY <1>1, <1>3, <1>4, <1>6, <1>7

LEMMA FinishTyped ==
  ASSUME IType, NEW w \in Workers, FinishStore(w)
  PROVE  IType'
PROOF
<1> DEFINE v == write[w]
<1>1. /\ phase[w] = "commit" /\ EndTx(w) /\ UNCHANGED <<tenant, runs>>
      /\ job' = [job EXCEPT ![w] = NoJob] /\ raced' = raced
      /\ UNCHANGED <<faults, shared>>
  BY DEF FinishStore, Commit, EndJob
<1>2. SourcesTypeOK'
  BY <1>1 DEF FinishStore, IType, TypeOK, SourcesTypeOK, sourceVars
<1>3. docs' \in [Sources -> Rows \cup {NoDoc}]
  BY <1>1, CommitDocs DEF FinishStore
<1>4. chunks' \subseteq Batches /\ spoiled' \subseteq Sources
  <2>1. Kept(w) \subseteq Batches /\ chunks \subseteq Batches /\ spoiled \subseteq Sources
    BY DEF Kept, IType, TypeOK, StoreTypeOK
  <2>2. v # NoWrite => v.doc \in Sources /\ [doc |-> v.doc, run |-> v.run] \in Batches
    BY StoreAssumption DEF IType, TypeOK, StoreTypeOK, Writes, Batches
  <2>3. CASE v = NoWrite
    BY <2>1, <2>3 DEF FinishStore, Commit
  <2>4. CASE v # NoWrite
    <3>1. chunks' = Kept(w) \cup
            (IF v.chunked THEN {[doc |-> v.doc, run |-> v.run]} ELSE {})
      BY <2>4 DEF FinishStore, Commit
    <3>2. spoiled' = (spoiled \ deleted[w]) \cup
            (IF Overlapped(w) \/ Renamed(w) THEN {v.doc} ELSE {})
      BY <2>4 DEF FinishStore, Commit
    <3> QED  BY <2>1, <2>2, <2>4, <3>1, <3>2
  <2> QED  BY <2>3, <2>4
<1>5. StoreTypeOK'
  BY <1>1, <1>3, <1>4, EndTyped DEF IType, TypeOK, StoreTypeOK
<1>6. job' \in [Workers -> Jobs \cup {NoJob}] /\ job'[w] = NoJob
      /\ \A x \in Workers : x # w => job'[x] = job[x]
  BY <1>1 DEF IType, TypeOK
<1>7. shared' \subseteq Sources
  BY <1>1 DEF IType, TypeOK
<1> QED  BY <1>1, <1>2, <1>5, <1>6, <1>7, EndTyped, StoreStepFrame

LEMMA StoreFailsTyped ==
  ASSUME IType, NEW w \in Workers, StoreFails(w)
  PROVE  IType'
PROOF
<1>1. /\ EndTx(w) /\ UNCHANGED <<tenant, runs, docs, chunks, spoiled>>
      /\ faults' \in 0 .. MaxFaults
  BY Bounds DEF StoreFails, TxFails, Victim, rowVars, IType, TypeOK, StoreTypeOK
<1>2. job[w] # NoJob
  BY DEF StoreFails, TxFails, Victim, Deadlocked, WaitsFor, Waits, Needs, IType, TypeOK, StoreTypeOK
<1>3. /\ pending' \in [Sources -> Nat] /\ raced' = raced /\ shared' = shared
      /\ job' = [job EXCEPT ![w] = NoJob]
  BY <1>2, RetryTypes DEF StoreFails
<1>4. SourcesTypeOK'
  BY <1>1, <1>3 DEF StoreFails, IType, TypeOK, SourcesTypeOK
<1>5. StoreTypeOK'
  BY <1>1, EndTyped DEF IType, TypeOK, StoreTypeOK
<1>6. job' \in [Workers -> Jobs \cup {NoJob}] /\ job'[w] = NoJob
      /\ \A x \in Workers : x # w => job'[x] = job[x]
  BY <1>3 DEF IType, TypeOK
<1>7. shared' \subseteq Sources
  BY <1>3 DEF IType, TypeOK
<1> QED  BY <1>3, <1>4, <1>5, <1>6, <1>7, <1>1, EndTyped, StoreStepFrame

LEMMA TypeInit == Init => IType
PROOF
<1> SUFFICES ASSUME Init PROVE IType
  OBVIOUS
<1>1. SourcesTypeOK
  BY Bounds DEF Init, SourcesInit, SourcesTypeOK
<1>2. StoreTypeOK
  BY <1>1, StoreAssumption DEF Init, StoreInit, StoreTypeOK, SourcesTypeOK, Batches
<1> QED  BY <1>1, <1>2 DEF Init, StoreInit, IType, TypeOK, HandedOn

LEMMA TypeStep == IType /\ [Next]_vars => IType'
PROOF
<1> SUFFICES ASSUME IType, [Next]_vars PROVE IType'
  OBVIOUS
<1>1. ASSUME NEW c \in Clients, Serve(c), UNCHANGED <<knowledgeVars, jobVars>>
      PROVE  IType'
  <2>1. SourcesTypeOK'
    <3>1. request[c] = NoRequest \/ request[c] # NoRequest
      OBVIOUS
    <3> QED
      BY <1>1, BeginTypes, ServeTypes
      DEF Serve, IType, TypeOK, WriteSource, PutObject, RecordKey, RecordFails, Cleanup,
          DeleteSource, RemoveObject, EnqueueSync, MarkSynced, RequestFails, At
  <2>2. StoreTypeOK'
    BY <1>1, <2>1, StoreUntouched DEF IType, TypeOK, SourcesTypeOK
  <2>3. UNCHANGED <<phase, write, job, raced, shared>>
    BY <1>1 DEF knowledgeVars, jobVars
  <2> QED  BY <2>1, <2>2, <2>3 DEF IType, TypeOK, HandedOn
<1>2. ASSUME NEW w \in Workers, Work(w) PROVE IType'
  BY <1>2, ResolveTypes, MarkTypes, ExtractTypes, BeginTyped, ProceedTyped, FinishTyped,
     StoreFailsTyped DEF Work
<1>3. CASE UNCHANGED vars
  <2>1. /\ UNCHANGED <<rows, object, pending, request, uploads, asked, contended, emptied,
                       fresh, unseen, faults, job, raced, shared>>
        /\ UNCHANGED knowledgeVars
    BY <1>3 DEF vars, sourceVars, accountVars, jobVars
  <2>2. SourcesTypeOK'
    BY <2>1 DEF IType, TypeOK, SourcesTypeOK
  <2>3. StoreTypeOK'
    BY <2>1, <2>2, StoreUntouched DEF IType, TypeOK, SourcesTypeOK
  <2>4. phase' = phase /\ write' = write
    BY <2>1 DEF knowledgeVars
  <2> QED  BY <2>1, <2>2, <2>3, <2>4 DEF IType, TypeOK, HandedOn
<1> QED  BY <1>1, <1>2, <1>3 DEF Next

LEMMA TypeInvariant == Spec => []IType
  BY TypeInit, TypeStep, PTL DEF Spec

\* The rows, objects, requests, jobs and transactions keep their types, and a
\* worker has a transaction open only while it stores the document of its task.
THEOREM IngestionTyped == Spec => []TypeOK
PROOF
<1>1. IType => TypeOK
  BY DEF IType
<1> QED  BY <1>1, TypeInvariant, PTL

(***************************************************************************)
(* Rows and objects.  Why a row without its object, or an object without a *)
(* row, is explained: each source is looked at on its own.                 *)
(***************************************************************************)

\* The requests in progress that write the source or its object.
Writing(s) == {c \in InProgress(s) : request[c].op # "sync"}

\* What a request does at each of its steps.
Shape(r) ==
  /\ r.step \in {"put", "record", "cleanup"} =>
       r.op \in {"create", "update"} /\ r.upload /\ ~r.row.key
  /\ r.step = "write" => r.op \in {"update", "rename"} /\ (r.op = "rename" => ~r.upload)
  /\ r.step \in {"delete", "remove"} <=> r.op = "delete"
  /\ r.step \in {"enqueue", "status"} <=> r.op = "sync"

\* A source that is not created yet has nothing; one that is being removed is
\* deleted, and so is, as long as nothing failed, one that is cleaned up.
Born(s) ==
  /\ rows[s] = Absent => object[s] = 0 /\ InProgress(s) = {}
  /\ \A c \in InProgress(s) :
       /\ Shape(request[c])
       /\ request[c].step = "remove" => rows[s] = Deleted
       /\ request[c].step = "cleanup" /\ faults = 0 => rows[s] = Deleted

\* As long as nothing failed, whoever has a key to write back has its object.
FaultFree(s) ==
  faults = 0 /\ rows[s] # Deleted =>
    /\ Exists(s) /\ rows[s].key => object[s] # 0
    /\ \A c \in InProgress(s) :
         \/ request[c].step = "record"
         \/ request[c].step = "write" /\ request[c].row.key
         => object[s] # 0

\* A request no other one overlapped knows the row it has read.
Undisturbed(s) ==
  s \notin contended =>
    /\ \A c, x \in Writing(s) : c = x
    /\ Exists(s) /\ rows[s].key => object[s] # 0
    /\ \A c \in Writing(s) :
         /\ request[c].step \in {"put", "record", "cleanup"} => Exists(s) /\ ~rows[s].key
         /\ request[c].step = "record" => object[s] # 0
         /\ request[c].step \in {"write", "delete"} =>
              Exists(s) /\ rows[s].key = request[c].row.key

\* An object is referred to, or a request is about to do so or to remove it.
Reachable(s) ==
  faults = 0 /\ s \notin contended \cup emptied /\ object[s] # 0 =>
    \/ Exists(s) /\ rows[s].key
    \/ \E c \in InProgress(s) : request[c].step \in {"put", "record", "remove"}

SourceInv(s) == Born(s) /\ FaultFree(s) /\ Undisturbed(s) /\ Reachable(s)


LEMMA Working ==
  ASSUME SourcesTypeOK, NEW c \in Clients, request[c] # NoRequest
  PROVE  /\ request[c].source \in Sources
         /\ c \in InProgress(request[c].source)
         /\ \A s : c \in InProgress(s) <=> s = request[c].source
         /\ request[c].row.key \in BOOLEAN
BY RequestType DEF InProgress, Row

\* Only the request of c, which is on s, arrives, moves on or ends.
Moves(c, s) ==
  /\ request[c] # NoRequest => request[c].source = s
  /\ request'[c] # NoRequest => request'[c].source = s
  /\ \A x \in Clients : x # c => request'[x] = request[x]

LEMMA Moving ==
  ASSUME NEW c \in Clients, NEW s \in Sources, Moves(c, s)
  PROVE  /\ c \in InProgress(s)' <=> request'[c] # NoRequest
         /\ \A x \in Clients : x # c => (x \in InProgress(s)' <=> x \in InProgress(s))
BY DEF InProgress, Moves

LEMMA Staying ==
  ASSUME NEW c \in Clients, NEW s \in Sources, Moves(c, s), NEW t \in Sources, t # s
  PROVE  /\ InProgress(t)' = InProgress(t)
         /\ \A x \in InProgress(t) : request'[x] = request[x]
PROOF
<1>1. \A x \in InProgress(t) : x \in Clients /\ x # c
  BY DEF InProgress, Moves
<1>2. \A x \in InProgress(t)' : x \in Clients /\ x # c
  BY DEF InProgress, Moves
<1>3. \A x \in Clients : x # c => (x \in InProgress(t)' <=> x \in InProgress(t))
  BY DEF InProgress, Moves
<1> QED  BY <1>1, <1>2, <1>3 DEF Moves

\* A source whose object and requests stay, and whose row keeps its key.
LEMMA Elsewhere ==
  ASSUME NEW t \in Sources, SourceInv(t), object'[t] = object[t],
         rows'[t] = rows[t] \/ (Exists(t) /\ Exists(t)' /\ rows'[t].key = rows[t].key),
         InProgress(t)' = InProgress(t),
         \A x \in InProgress(t) : request'[x] = request[x],
         t \in contended => t \in contended', t \in emptied => t \in emptied',
         faults' = 0 => faults = 0
  PROVE  SourceInv(t)'
PROOF
<1>1. /\ Exists(t)' = Exists(t)
      /\ Exists(t) => rows'[t].key = rows[t].key
      /\ rows'[t] = Absent => rows[t] = Absent
      /\ rows'[t] = Deleted <=> rows[t] = Deleted
  BY DEF Exists
<1>2. Writing(t)' = Writing(t) /\ \A x \in Writing(t) : x \in InProgress(t)
  BY DEF Writing
<1>3. Born(t)'
  <2>1. Born(t)
    BY DEF SourceInv
  <2> QED  BY <1>1, <2>1 DEF Born
<1>4. FaultFree(t)'
  <2>1. FaultFree(t)
    BY DEF SourceInv
  <2> QED  BY <1>1, <2>1 DEF FaultFree
<1>5. Undisturbed(t)'
  <2>1. Undisturbed(t)
    BY DEF SourceInv
  <2> QED  BY <1>1, <1>2, <2>1 DEF Undisturbed
<1>6. Reachable(t)'
  <2>1. Reachable(t)
    BY DEF SourceInv
  <2> QED  BY <1>1, <2>1 DEF Reachable
<1> QED  BY <1>3, <1>4, <1>5, <1>6 DEF SourceInv

\* It is enough to look at the source of the request that moves.
LEMMA OneSource ==
  ASSUME SourcesTypeOK, \A t \in Sources : SourceInv(t),
         NEW c \in Clients, NEW s \in Sources, Moves(c, s),
         \A t \in Sources : t # s =>
           /\ rows'[t] = rows[t] /\ object'[t] = object[t]
           /\ t \in contended => t \in contended'
           /\ t \in emptied => t \in emptied',
         faults' = 0 => faults = 0,
         SourceInv(s)'
  PROVE  \A t \in Sources : SourceInv(t)'
PROOF
<1> SUFFICES ASSUME NEW t \in Sources, t # s PROVE SourceInv(t)'
  OBVIOUS
<1>1. InProgress(t)' = InProgress(t) /\ \A x \in InProgress(t) : request'[x] = request[x]
  BY Staying
<1> QED  BY <1>1, Elsewhere

\* The step of a request: what the lemmas on the steps below start from.
LEMMA Stepping ==
  ASSUME SourcesTypeOK, \A t \in Sources : SourceInv(t),
         NEW c \in Clients, request[c] # NoRequest
  PROVE  /\ request[c].source \in Sources /\ c \in InProgress(request[c].source)
         /\ Shape(request[c])
         /\ request[c].op # "sync" => c \in Writing(request[c].source)
BY Working DEF SourceInv, Born, Writing

LEMMA CreateKeeps ==
  ASSUME SourcesTypeOK, \A t \in Sources : SourceInv(t), NEW c \in Clients,
         NEW s \in Sources, NEW file \in FileNames, NEW upload \in BOOLEAN,
         Create(c, s, file, upload)
  PROVE  \A t \in Sources : SourceInv(t)'
PROOF
<1> DEFINE row == [file |-> file, key |-> FALSE, status |-> "inactive"]
           q == IF upload
                THEN [op |-> "create", step |-> "put", source |-> s, row |-> row,
                      file |-> file, upload |-> TRUE]
                ELSE NoRequest
<1>1. /\ rows[s] = Absent /\ rows' = [rows EXCEPT ![s] = row]
      /\ request' = [request EXCEPT ![c] = q] /\ request[c] = NoRequest
      /\ object' = object /\ emptied' = emptied /\ faults' = faults
      /\ contended \subseteq contended'
  BY DEF Create, Arrives
<1>2. row \in Row /\ row.key = FALSE
  BY DEF Row
<1>3. q # NoRequest => q.source = s /\ q.op = "create" /\ q.step = "put" /\ q.upload
                       /\ q.row = row
  OBVIOUS
<1> HIDE DEF row, q
<1>m. request'[c] = q /\ Moves(c, s)
  BY <1>1, <1>3 DEF SourcesTypeOK, Moves
<1>4. rows'[s] = row /\ Exists(s)' /\ \A t \in Sources : t # s => rows'[t] = rows[t]
  BY <1>1, <1>2, SourceRowsAssumption DEF SourcesTypeOK, Exists, Row
<1>5. object[s] = 0 /\ InProgress(s) = {}
  BY <1>1 DEF SourceInv, Born
<1>6. /\ \A x \in InProgress(s)' : x = c /\ q # NoRequest /\ request'[x] = q
      /\ q # NoRequest => c \in InProgress(s)'
  <2>1. \A x \in InProgress(s)' : x \in Clients
    BY DEF InProgress
  <2>2. /\ c \in InProgress(s)' <=> q # NoRequest
        /\ \A x \in Clients : x # c => (x \in InProgress(s)' <=> x \in InProgress(s))
    BY <1>m, Moving
  <2> QED  BY <1>m, <1>5, <2>1, <2>2
<1>7. Born(s)'
  BY <1>1, <1>2, <1>3, <1>4, <1>6, ExistingRow DEF Born, Shape, Exists
<1>8. FaultFree(s)' /\ Undisturbed(s)' /\ Reachable(s)'
  BY <1>1, <1>2, <1>3, <1>4, <1>5, <1>6 DEF FaultFree, Undisturbed, Reachable, Writing
<1> QED  BY <1>1, <1>m, <1>4, <1>7, <1>8, OneSource DEF SourceInv

LEMMA ReadKeeps ==
  ASSUME SourcesTypeOK, \A t \in Sources : SourceInv(t), NEW c \in Clients,
         NEW s \in Sources, NEW op, NEW step, NEW file, NEW upload \in BOOLEAN,
         \/ op = "update" /\ step = "write"
         \/ op = "rename" /\ step = "write" /\ ~upload
         \/ op = "delete" /\ step = "delete"
         \/ op = "sync" /\ step = "enqueue",
         Read(c, op, step, s, file, upload)
  PROVE  \A t \in Sources : SourceInv(t)'
PROOF
<1> DEFINE q == [op |-> op, step |-> step, source |-> s, row |-> rows[s], file |-> file,
                 upload |-> upload]
<1>0. q.op = op /\ q.step = step /\ q.source = s /\ q.row = rows[s] /\ q.upload = upload
  OBVIOUS
<1>1. /\ Exists(s) /\ request[c] = NoRequest /\ request' = [request EXCEPT ![c] = q]
      /\ rows' = rows /\ object' = object /\ emptied' = emptied /\ faults' = faults
      /\ contended \subseteq contended'
      /\ s \notin contended' => op = "sync" \/ Writing(s) = {}
  BY DEF Read, Arrives, Writing
<1> HIDE DEF q
<1>m. request'[c] = q /\ Moves(c, s)
  BY <1>0, <1>1 DEF SourcesTypeOK, Moves
<1>2. /\ c \in InProgress(s)' <=> q # NoRequest
      /\ \A x \in Clients : x # c => (x \in InProgress(s)' <=> x \in InProgress(s))
      /\ request'[c] = q /\ \A x \in Clients : x # c => request'[x] = request[x]
  BY <1>m, Moving DEF Moves
<1>3. /\ \A x \in InProgress(s)' : x \in Clients
      /\ \A x \in InProgress(s) : x \in Clients
  BY DEF InProgress
<1>4. rows[s] # Absent /\ rows[s] # Deleted /\ rows[s].key \in BOOLEAN
      /\ SourceInv(s) /\ c \notin InProgress(s)
  BY <1>1, ExistingRow DEF Exists, Row, InProgress
<1>5. Born(s)'
  <2>1. Shape(q)
    BY <1>0 DEF Shape
  <2> QED
    BY <1>0, <1>1, <1>2, <1>3, <1>4, <2>1 DEF Born, SourceInv
<1>6. FaultFree(s)'
  BY <1>0, <1>1, <1>2, <1>3, <1>4 DEF FaultFree, SourceInv, Exists
<1>7. Undisturbed(s)'
  BY <1>0, <1>1, <1>2, <1>3, <1>4 DEF Undisturbed, SourceInv, Exists, Writing
<1>8. Reachable(s)'
  BY <1>0, <1>1, <1>2, <1>3, <1>4 DEF Reachable, SourceInv, Exists
<1> QED
  <2>1. SourceInv(s)'
    BY <1>5, <1>6, <1>7, <1>8 DEF SourceInv
  <2>2. \A t \in Sources : t # s =>
          /\ rows'[t] = rows[t] /\ object'[t] = object[t]
          /\ t \in contended => t \in contended'
          /\ t \in emptied => t \in emptied'
    BY <1>1
  <2> QED  BY <1>1, <1>m, <2>1, <2>2, OneSource

LEMMA WriteKeeps ==
  ASSUME SourcesTypeOK, \A t \in Sources : SourceInv(t), NEW c \in Clients,
         NEW s \in Sources, request[c] # NoRequest, request[c].source = s, WriteSource(c)
  PROVE  \A t \in Sources : SourceInv(t)'
PROOF
<1> DEFINE r == request[c]
           more == [request[c] EXCEPT !.step = "put", !.row = Updated(request[c])]
           q == IF Exists(s) /\ r.upload THEN more ELSE NoRequest
<1>0. /\ r # NoRequest /\ r \in Requests /\ r.step = "write" /\ r.row \in Row
      /\ r.file \in FileNames /\ r.row.key \in BOOLEAN /\ r.upload \in BOOLEAN
  BY RequestType DEF WriteSource, At, Row
<1>a. /\ Updated(r) \in Row /\ (r.op = "update" => Updated(r).key = FALSE)
      /\ r.op # "update" => Updated(r) = r.row
  <2>1. [r.row EXCEPT !.file = r.file, !.key = FALSE] \in Row
        /\ [r.row EXCEPT !.file = r.file, !.key = FALSE].key = FALSE
    BY <1>0 DEF Row
  <2> QED  BY <1>0, <2>1 DEF Updated
<1>1. /\ request[c].source = s /\ request' = [request EXCEPT ![c] = q]
      /\ object' = object /\ contended' = contended /\ faults' = faults
      /\ Exists(s) => rows' = [rows EXCEPT ![s] = Updated(r)]
      /\ Exists(s) => emptied' = IF r.op = "update" /\ ~r.upload THEN emptied \cup {s}
                                 ELSE emptied
      /\ ~Exists(s) => rows' = rows /\ emptied' = emptied
  BY DEF WriteSource
<1>b. /\ q # NoRequest => Exists(s) /\ r.upload /\ q = more
      /\ more.source = s /\ more.op = r.op /\ more.step = "put" /\ more.upload = r.upload
      /\ more.row = Updated(r)
      /\ Exists(s) /\ r.upload => q # NoRequest
  <2>1. more \in Requests /\ more.row = Updated(r)
    BY <1>0, <1>a DEF Requests
  <2>2. more.source = s /\ more.op = r.op /\ more.step = "put" /\ more.upload = r.upload
    BY <1>0, <1>1 DEF Requests
  <2> QED  BY <2>1, <2>2, NoRequestAssumption
<1> HIDE DEF q, more
<1>m. request'[c] = q /\ Moves(c, s)
  BY <1>0, <1>1, <1>b DEF SourcesTypeOK, Moves
<1>2. /\ c \in InProgress(s)' <=> q # NoRequest
      /\ \A x \in Clients : x # c => (x \in InProgress(s)' <=> x \in InProgress(s))
      /\ request'[c] = q /\ \A x \in Clients : x # c => request'[x] = request[x]
  BY <1>m, Moving DEF Moves
<1>3. /\ \A x \in InProgress(s)' : x \in Clients
      /\ \A x \in InProgress(s) : x \in Clients
  BY DEF InProgress
<1>4. /\ SourceInv(s) /\ c \in InProgress(s) /\ Shape(request[c])
      /\ request[c].op # "sync" => c \in Writing(s)
  BY <1>0, Stepping
<1>c. /\ r.op \in {"update", "rename"} /\ (r.op = "rename" => ~r.upload)
      /\ rows[s] # Absent
  BY <1>0, <1>4 DEF Shape, SourceInv, Born
<1>d. /\ Exists(s) => /\ rows'[s] = Updated(r) /\ rows'[s] # Absent /\ rows'[s] # Deleted
      /\ ~Exists(s) => rows'[s] = Deleted
  BY <1>a, <1>1, <1>c, SourceRowsAssumption DEF SourcesTypeOK, Row, Exists
<1>e. /\ q # NoRequest => /\ Exists(s) /\ r.op = "update" /\ ~q.row.key /\ q.op = "update"
                          /\ q.step = "put" /\ q.upload
      /\ Shape(q) \/ q = NoRequest
  BY <1>a, <1>b, <1>c DEF Shape
<1>5. Born(s)'
  BY <1>0, <1>1, <1>2, <1>3, <1>4, <1>c, <1>d, <1>e DEF Born, SourceInv, Exists
<1>6. FaultFree(s)'
  BY <1>0, <1>1, <1>2, <1>3, <1>4, <1>a, <1>c, <1>d, <1>e DEF FaultFree, SourceInv, Exists
<1>7. Undisturbed(s)'
  BY <1>0, <1>1, <1>2, <1>3, <1>4, <1>a, <1>c, <1>d, <1>e DEF Undisturbed, SourceInv, Writing, Exists
<1>8. Reachable(s)'
  BY <1>0, <1>1, <1>2, <1>3, <1>4, <1>a, <1>b, <1>c, <1>d, <1>e DEF Reachable, Undisturbed, SourceInv, Exists
<1> QED
  <2>1. SourceInv(s)'
    BY <1>5, <1>6, <1>7, <1>8 DEF SourceInv
  <2>2. \A t \in Sources : t # s =>
          /\ rows'[t] = rows[t] /\ object'[t] = object[t]
          /\ t \in contended => t \in contended'
          /\ t \in emptied => t \in emptied'
    BY <1>1 DEF SourcesTypeOK
  <2> QED  BY <1>1, <1>m, <2>1, <2>2, OneSource

LEMMA PutKeeps ==
  ASSUME SourcesTypeOK, \A t \in Sources : SourceInv(t), NEW c \in Clients,
         NEW s \in Sources, request[c] # NoRequest, request[c].source = s, PutObject(c)
  PROVE  \A t \in Sources : SourceInv(t)'
PROOF
<1> DEFINE r == request[c]
           q == [request[c] EXCEPT !.step = "record"]
<1>0. /\ r # NoRequest /\ r \in Requests /\ r.step = "put" /\ r.row \in Row
      /\ r.row.key \in BOOLEAN
  BY RequestType DEF PutObject, At, Row
<1>1. /\ request[c].source = s /\ request' = [request EXCEPT ![c] = q]
      /\ rows' = rows /\ contended' = contended /\ emptied' = emptied /\ faults' = faults
      /\ object' = [object EXCEPT ![s] = uploads + 1]
  BY DEF PutObject, GoTo
<1>q. /\ q.source = s /\ q.op = r.op /\ q.step = "record" /\ q.upload = r.upload
      /\ q.row = r.row /\ q # NoRequest
  <2>1. q \in Requests
    BY <1>0 DEF Requests
  <2> QED  BY <1>0, <1>1, <2>1, NoRequestAssumption DEF Requests
<1> HIDE DEF q
<1>m. request'[c] = q /\ Moves(c, s)
  BY <1>0, <1>1, <1>q DEF SourcesTypeOK, Moves
<1>2. /\ c \in InProgress(s)' <=> q # NoRequest
      /\ \A x \in Clients : x # c => (x \in InProgress(s)' <=> x \in InProgress(s))
      /\ request'[c] = q /\ \A x \in Clients : x # c => request'[x] = request[x]
  BY <1>m, Moving DEF Moves
<1>3. /\ \A x \in InProgress(s)' : x \in Clients
      /\ \A x \in InProgress(s) : x \in Clients
  BY DEF InProgress
<1>4. /\ SourceInv(s) /\ c \in InProgress(s) /\ Shape(request[c])
      /\ request[c].op # "sync" => c \in Writing(s)
  BY <1>0, Stepping
<1>a. /\ rows[s] # Absent /\ rows[s] \in Row \cup {Deleted}
      /\ Exists(s) <=> rows[s] # Deleted
  BY <1>4 DEF SourceInv, Born, SourcesTypeOK, Exists
<1>b. object'[s] # 0
  BY <1>1 DEF SourcesTypeOK
<1>5. Born(s)'
  BY <1>0, <1>1, <1>2, <1>3, <1>4, <1>q, <1>a, <1>b DEF Born, Shape, SourceInv, Exists
<1>6. FaultFree(s)'
  BY <1>0, <1>1, <1>2, <1>3, <1>4, <1>q, <1>a, <1>b DEF FaultFree, Born, SourceInv, Exists
<1>w. \A x \in Writing(s)' : s \notin contended => x = c
  BY <1>0, <1>1, <1>2, <1>3, <1>4 DEF Undisturbed, SourceInv, Writing, Shape
<1>7. Undisturbed(s)'
  BY <1>0, <1>1, <1>2, <1>3, <1>4, <1>q, <1>a, <1>b, <1>w DEF Undisturbed, Writing, SourceInv, Exists
<1>8. Reachable(s)'
  BY <1>0, <1>1, <1>2, <1>3, <1>4, <1>q, <1>a, <1>b DEF Reachable, Undisturbed, Shape, Writing, Born, SourceInv, Exists
<1> QED
  <2>1. SourceInv(s)'
    BY <1>5, <1>6, <1>7, <1>8 DEF SourceInv
  <2>2. \A t \in Sources : t # s =>
          /\ rows'[t] = rows[t] /\ object'[t] = object[t]
          /\ t \in contended => t \in contended'
          /\ t \in emptied => t \in emptied'
    BY <1>1 DEF SourcesTypeOK
  <2> QED  BY <1>1, <1>m, <2>1, <2>2, OneSource

LEMMA RecordKeeps ==
  ASSUME SourcesTypeOK, \A t \in Sources : SourceInv(t), NEW c \in Clients,
         NEW s \in Sources, request[c] # NoRequest, request[c].source = s, RecordKey(c)
  PROVE  \A t \in Sources : SourceInv(t)'
PROOF
<1> DEFINE r == request[c]
           q == NoRequest
<1>0. /\ r # NoRequest /\ r \in Requests /\ r.step = "record" /\ r.row \in Row
      /\ r.row.key \in BOOLEAN
  BY RequestType DEF RecordKey, At, Row
<1>1. /\ request[c].source = s /\ request' = [request EXCEPT ![c] = q]
      /\ Exists(s) /\ rows' = [rows EXCEPT ![s] = [r.row EXCEPT !.key = TRUE]]
      /\ object' = object /\ contended' = contended /\ emptied' = emptied /\ faults' = faults
  BY DEF RecordKey, Done
<1>q. q = NoRequest
  OBVIOUS
<1> HIDE DEF q
<1>m. request'[c] = q /\ Moves(c, s)
  BY <1>0, <1>1, <1>q DEF SourcesTypeOK, Moves
<1>2. /\ c \in InProgress(s)' <=> q # NoRequest
      /\ \A x \in Clients : x # c => (x \in InProgress(s)' <=> x \in InProgress(s))
      /\ request'[c] = q /\ \A x \in Clients : x # c => request'[x] = request[x]
  BY <1>m, Moving DEF Moves
<1>3. /\ \A x \in InProgress(s)' : x \in Clients
      /\ \A x \in InProgress(s) : x \in Clients
  BY DEF InProgress
<1>4. /\ SourceInv(s) /\ c \in InProgress(s) /\ Shape(request[c])
      /\ request[c].op # "sync" => c \in Writing(s)
  BY <1>0, Stepping
<1>a. /\ rows[s] # Absent /\ rows[s] \in Row \cup {Deleted}
      /\ Exists(s) <=> rows[s] # Deleted
  BY <1>4 DEF SourceInv, Born, SourcesTypeOK, Exists
<1>b. /\ rows'[s] # Absent /\ rows'[s] # Deleted /\ rows'[s].key
  <2>1. [r.row EXCEPT !.key = TRUE] \in Row /\ [r.row EXCEPT !.key = TRUE].key = TRUE
    BY <1>0 DEF Row
  <2> QED  BY <1>1, <2>1, SourceRowsAssumption DEF SourcesTypeOK, Row
<1>5. Born(s)'
  BY <1>0, <1>1, <1>2, <1>3, <1>4, <1>q, <1>a, <1>b DEF Born, Shape, SourceInv, Exists
<1>6. FaultFree(s)'
  BY <1>0, <1>1, <1>2, <1>3, <1>4, <1>q, <1>a, <1>b DEF FaultFree, Born, SourceInv, Exists
<1>w. \A x \in Writing(s)' : s \notin contended => x = c
  BY <1>0, <1>1, <1>2, <1>3, <1>4 DEF Undisturbed, SourceInv, Writing, Shape
<1>7. Undisturbed(s)'
  <2>1. s \notin contended => Writing(s)' = {}
    <3>1. \A x \in Writing(s)' : x \in InProgress(s)'
      BY DEF Writing
    <3> QED  BY <1>2, <1>q, <1>w, <3>1
  <2>2. s \notin contended => (Exists(s) /\ rows[s].key => object[s] # 0)'
    BY <1>0, <1>1, <1>2, <1>3, <1>4, <1>q, <1>a, <1>b DEF Undisturbed, Shape, SourceInv, Exists
  <2> QED  BY <1>1, <2>1, <2>2 DEF Undisturbed
<1>8. Reachable(s)'
  BY <1>0, <1>1, <1>2, <1>3, <1>4, <1>q, <1>a, <1>b DEF Reachable, Undisturbed, Shape, Writing, Born, SourceInv, Exists
<1> QED
  <2>1. SourceInv(s)'
    BY <1>5, <1>6, <1>7, <1>8 DEF SourceInv
  <2>2. \A t \in Sources : t # s =>
          /\ rows'[t] = rows[t] /\ object'[t] = object[t]
          /\ t \in contended => t \in contended'
          /\ t \in emptied => t \in emptied'
    BY <1>1 DEF SourcesTypeOK
  <2> QED  BY <1>1, <1>m, <2>1, <2>2, OneSource

LEMMA RecordFailsKeeps ==
  ASSUME SourcesTypeOK, \A t \in Sources : SourceInv(t), NEW c \in Clients,
         NEW s \in Sources, request[c] # NoRequest, request[c].source = s, RecordFails(c)
  PROVE  \A t \in Sources : SourceInv(t)'
PROOF
<1> DEFINE r == request[c]
           q == [request[c] EXCEPT !.step = "cleanup"]
<1>0. /\ r # NoRequest /\ r \in Requests /\ r.step = "record" /\ r.row \in Row
      /\ r.row.key \in BOOLEAN
  BY RequestType DEF RecordFails, At, Row
<1>1. /\ request[c].source = s /\ request' = [request EXCEPT ![c] = q]
      /\ object' = object /\ rows' = rows /\ contended' = contended /\ emptied' = emptied
      /\ Exists(s) => faults' # 0
      /\ faults' = 0 => faults = 0
  <2>1. IF Exists(request[c].source) THEN SourceFault ELSE UNCHANGED faults
    BY DEF RecordFails
  <2>2. SourceFault => faults' # 0
    BY FaultType DEF SourcesTypeOK
  <2> QED  BY <2>1, <2>2 DEF RecordFails, GoTo
<1>q. /\ q.source = s /\ q.op = r.op /\ q.step = "cleanup" /\ q.upload = r.upload
      /\ q.row = r.row /\ q # NoRequest
  <2>1. q \in Requests
    BY <1>0 DEF Requests
  <2> QED  BY <1>0, <1>1, <2>1, NoRequestAssumption DEF Requests
<1> HIDE DEF q
<1>m. request'[c] = q /\ Moves(c, s)
  BY <1>0, <1>1, <1>q DEF SourcesTypeOK, Moves
<1>2. /\ c \in InProgress(s)' <=> q # NoRequest
      /\ \A x \in Clients : x # c => (x \in InProgress(s)' <=> x \in InProgress(s))
      /\ request'[c] = q /\ \A x \in Clients : x # c => request'[x] = request[x]
  BY <1>m, Moving DEF Moves
<1>3. /\ \A x \in InProgress(s)' : x \in Clients
      /\ \A x \in InProgress(s) : x \in Clients
  BY DEF InProgress
<1>4. /\ SourceInv(s) /\ c \in InProgress(s) /\ Shape(request[c])
      /\ request[c].op # "sync" => c \in Writing(s)
  BY <1>0, Stepping
<1>a. /\ rows[s] # Absent /\ rows[s] \in Row \cup {Deleted}
      /\ Exists(s) <=> rows[s] # Deleted
  BY <1>4 DEF SourceInv, Born, SourcesTypeOK, Exists
<1>5. Born(s)'
  BY <1>0, <1>1, <1>2, <1>3, <1>4, <1>q, <1>a DEF Born, Shape, SourceInv, Exists
<1>6. FaultFree(s)'
  BY <1>0, <1>1, <1>2, <1>3, <1>4, <1>q, <1>a DEF FaultFree, Born, SourceInv, Exists
<1>w. \A x \in Writing(s)' : s \notin contended => x = c
  BY <1>0, <1>1, <1>2, <1>3, <1>4 DEF Undisturbed, SourceInv, Writing, Shape
<1>7. Undisturbed(s)'
  BY <1>0, <1>1, <1>2, <1>3, <1>4, <1>q, <1>a, <1>w DEF Undisturbed, Writing, SourceInv, Exists
<1>8. Reachable(s)'
  BY <1>0, <1>1, <1>2, <1>3, <1>4, <1>q, <1>a DEF Reachable, Undisturbed, Shape, Writing, Born, SourceInv, Exists
<1> QED
  <2>1. SourceInv(s)'
    BY <1>5, <1>6, <1>7, <1>8 DEF SourceInv
  <2>2. \A t \in Sources : t # s =>
          /\ rows'[t] = rows[t] /\ object'[t] = object[t]
          /\ t \in contended => t \in contended'
          /\ t \in emptied => t \in emptied'
    BY <1>1 DEF SourcesTypeOK
  <2> QED  BY <1>1, <1>m, <2>1, <2>2, OneSource

LEMMA CleanupKeeps ==
  ASSUME SourcesTypeOK, \A t \in Sources : SourceInv(t), NEW c \in Clients,
         NEW s \in Sources, request[c] # NoRequest, request[c].source = s, Cleanup(c)
  PROVE  \A t \in Sources : SourceInv(t)'
PROOF
<1> DEFINE r == request[c]
           q == NoRequest
<1>0. /\ r # NoRequest /\ r \in Requests /\ r.step = "cleanup" /\ r.row \in Row
      /\ r.row.key \in BOOLEAN
  BY RequestType DEF Cleanup, At, Row
<1>1. /\ request[c].source = s /\ request' = [request EXCEPT ![c] = q]
      /\ object' = [object EXCEPT ![s] = 0]
      /\ rows' = rows /\ contended' = contended /\ emptied' = emptied /\ faults' = faults
  BY DEF Cleanup, Done
<1>q. q = NoRequest
  OBVIOUS
<1> HIDE DEF q
<1>m. request'[c] = q /\ Moves(c, s)
  BY <1>0, <1>1, <1>q DEF SourcesTypeOK, Moves
<1>2. /\ c \in InProgress(s)' <=> q # NoRequest
      /\ \A x \in Clients : x # c => (x \in InProgress(s)' <=> x \in InProgress(s))
      /\ request'[c] = q /\ \A x \in Clients : x # c => request'[x] = request[x]
  BY <1>m, Moving DEF Moves
<1>3. /\ \A x \in InProgress(s)' : x \in Clients
      /\ \A x \in InProgress(s) : x \in Clients
  BY DEF InProgress
<1>4. /\ SourceInv(s) /\ c \in InProgress(s) /\ Shape(request[c])
      /\ request[c].op # "sync" => c \in Writing(s)
  BY <1>0, Stepping
<1>a. /\ rows[s] # Absent /\ rows[s] \in Row \cup {Deleted}
      /\ Exists(s) <=> rows[s] # Deleted
  BY <1>4 DEF SourceInv, Born, SourcesTypeOK, Exists
<1>b. object'[s] = 0
  BY <1>1 DEF SourcesTypeOK
<1>5. Born(s)'
  BY <1>0, <1>1, <1>2, <1>3, <1>4, <1>q, <1>a, <1>b DEF Born, Shape, SourceInv, Exists
<1>6. FaultFree(s)'
  BY <1>0, <1>1, <1>2, <1>3, <1>4, <1>q, <1>a, <1>b DEF FaultFree, Born, SourceInv, Exists
<1>w. \A x \in Writing(s)' : s \notin contended => x = c
  BY <1>0, <1>1, <1>2, <1>3, <1>4 DEF Undisturbed, SourceInv, Writing, Shape
<1>7. Undisturbed(s)'
  <2>1. s \notin contended => Writing(s)' = {}
    <3>1. \A x \in Writing(s)' : x \in InProgress(s)'
      BY DEF Writing
    <3> QED  BY <1>2, <1>q, <1>w, <3>1
  <2>2. s \notin contended => (Exists(s) /\ rows[s].key => object[s] # 0)'
    BY <1>0, <1>1, <1>2, <1>3, <1>4, <1>q, <1>a, <1>b DEF Undisturbed, Shape, SourceInv, Exists
  <2> QED  BY <1>1, <2>1, <2>2 DEF Undisturbed
<1>8. Reachable(s)'
  BY <1>0, <1>1, <1>2, <1>3, <1>4, <1>q, <1>a, <1>b DEF Reachable, Undisturbed, Shape, Writing, Born, SourceInv, Exists
<1> QED
  <2>1. SourceInv(s)'
    BY <1>5, <1>6, <1>7, <1>8 DEF SourceInv
  <2>2. \A t \in Sources : t # s =>
          /\ rows'[t] = rows[t] /\ object'[t] = object[t]
          /\ t \in contended => t \in contended'
          /\ t \in emptied => t \in emptied'
    BY <1>1 DEF SourcesTypeOK
  <2> QED  BY <1>1, <1>m, <2>1, <2>2, OneSource

LEMMA DeleteKeeps ==
  ASSUME SourcesTypeOK, \A t \in Sources : SourceInv(t), NEW c \in Clients,
         NEW s \in Sources, request[c] # NoRequest, request[c].source = s, DeleteSource(c)
  PROVE  \A t \in Sources : SourceInv(t)'
PROOF
<1> DEFINE r == request[c]
           q == IF request[c].row.key THEN [request[c] EXCEPT !.step = "remove"] ELSE NoRequest
<1>0. /\ r # NoRequest /\ r \in Requests /\ r.step = "delete" /\ r.row \in Row
      /\ r.row.key \in BOOLEAN
  BY RequestType DEF DeleteSource, At, Row
<1>1. /\ request[c].source = s /\ request' = [request EXCEPT ![c] = q]
      /\ rows' = [rows EXCEPT ![s] = Deleted]
      /\ object' = object /\ contended' = contended /\ emptied' = emptied /\ faults' = faults
  BY DEF DeleteSource, GoTo, Done
<1>q. /\ r.row.key <=> q # NoRequest
      /\ q # NoRequest => /\ q.source = s /\ q.op = r.op /\ q.step = "remove"
                          /\ q.upload = r.upload /\ q.row = r.row
  <2> DEFINE more == [request[c] EXCEPT !.step = "remove"]
  <2>1. more \in Requests /\ more.source = s /\ more.op = r.op /\ more.step = "remove"
        /\ more.upload = r.upload /\ more.row = r.row
    BY <1>0, <1>1 DEF Requests
  <2> QED  BY <2>1, NoRequestAssumption
<1> HIDE DEF q
<1>m. request'[c] = q /\ Moves(c, s)
  BY <1>0, <1>1, <1>q DEF SourcesTypeOK, Moves
<1>2. /\ c \in InProgress(s)' <=> q # NoRequest
      /\ \A x \in Clients : x # c => (x \in InProgress(s)' <=> x \in InProgress(s))
      /\ request'[c] = q /\ \A x \in Clients : x # c => request'[x] = request[x]
  BY <1>m, Moving DEF Moves
<1>3. /\ \A x \in InProgress(s)' : x \in Clients
      /\ \A x \in InProgress(s) : x \in Clients
  BY DEF InProgress
<1>4. /\ SourceInv(s) /\ c \in InProgress(s) /\ Shape(request[c])
      /\ request[c].op # "sync" => c \in Writing(s)
  BY <1>0, Stepping
<1>a. /\ rows[s] # Absent /\ rows[s] \in Row \cup {Deleted}
      /\ Exists(s) <=> rows[s] # Deleted
  BY <1>4 DEF SourceInv, Born, SourcesTypeOK, Exists
<1>b. rows'[s] = Deleted /\ Deleted # Absent
  BY <1>1, SourceRowsAssumption DEF SourcesTypeOK
<1>5. Born(s)'
  BY <1>0, <1>1, <1>2, <1>3, <1>4, <1>q, <1>a, <1>b DEF Born, Shape, SourceInv, Exists
<1>6. FaultFree(s)'
  BY <1>0, <1>1, <1>2, <1>3, <1>4, <1>q, <1>a, <1>b DEF FaultFree, Born, SourceInv, Exists
<1>w. \A x \in Writing(s)' : s \notin contended => x = c
  BY <1>0, <1>1, <1>2, <1>3, <1>4 DEF Undisturbed, SourceInv, Writing, Shape
<1>7. Undisturbed(s)'
  BY <1>0, <1>1, <1>2, <1>3, <1>4, <1>q, <1>a, <1>b, <1>w DEF Undisturbed, Writing, SourceInv, Exists
<1>8. Reachable(s)'
  BY <1>0, <1>1, <1>2, <1>3, <1>4, <1>q, <1>a, <1>b DEF Reachable, Undisturbed, Shape, Writing, Born, SourceInv, Exists
<1> QED
  <2>1. SourceInv(s)'
    BY <1>5, <1>6, <1>7, <1>8 DEF SourceInv
  <2>2. \A t \in Sources : t # s =>
          /\ rows'[t] = rows[t] /\ object'[t] = object[t]
          /\ t \in contended => t \in contended'
          /\ t \in emptied => t \in emptied'
    BY <1>1 DEF SourcesTypeOK
  <2> QED  BY <1>1, <1>m, <2>1, <2>2, OneSource

LEMMA RemoveKeeps ==
  ASSUME SourcesTypeOK, \A t \in Sources : SourceInv(t), NEW c \in Clients,
         NEW s \in Sources, request[c] # NoRequest, request[c].source = s, RemoveObject(c)
  PROVE  \A t \in Sources : SourceInv(t)'
PROOF
<1> DEFINE r == request[c]
           q == NoRequest
<1>0. /\ r # NoRequest /\ r \in Requests /\ r.step = "remove" /\ r.row \in Row
      /\ r.row.key \in BOOLEAN
  BY RequestType DEF RemoveObject, At, Row
<1>1. /\ request[c].source = s /\ request' = [request EXCEPT ![c] = q]
      /\ object' = [object EXCEPT ![s] = 0]
      /\ rows' = rows /\ contended' = contended /\ emptied' = emptied /\ faults' = faults
  BY DEF RemoveObject, Done
<1>q. q = NoRequest
  OBVIOUS
<1> HIDE DEF q
<1>m. request'[c] = q /\ Moves(c, s)
  BY <1>0, <1>1, <1>q DEF SourcesTypeOK, Moves
<1>2. /\ c \in InProgress(s)' <=> q # NoRequest
      /\ \A x \in Clients : x # c => (x \in InProgress(s)' <=> x \in InProgress(s))
      /\ request'[c] = q /\ \A x \in Clients : x # c => request'[x] = request[x]
  BY <1>m, Moving DEF Moves
<1>3. /\ \A x \in InProgress(s)' : x \in Clients
      /\ \A x \in InProgress(s) : x \in Clients
  BY DEF InProgress
<1>4. /\ SourceInv(s) /\ c \in InProgress(s) /\ Shape(request[c])
      /\ request[c].op # "sync" => c \in Writing(s)
  BY <1>0, Stepping
<1>a. /\ rows[s] # Absent /\ rows[s] \in Row \cup {Deleted}
      /\ Exists(s) <=> rows[s] # Deleted
  BY <1>4 DEF SourceInv, Born, SourcesTypeOK, Exists
<1>b. object'[s] = 0 /\ rows[s] = Deleted
  BY <1>0, <1>1, <1>4 DEF SourcesTypeOK, SourceInv, Born
<1>5. Born(s)'
  BY <1>0, <1>1, <1>2, <1>3, <1>4, <1>q, <1>a, <1>b DEF Born, Shape, SourceInv, Exists
<1>6. FaultFree(s)'
  BY <1>0, <1>1, <1>2, <1>3, <1>4, <1>q, <1>a, <1>b DEF FaultFree, Born, SourceInv, Exists
<1>w. \A x \in Writing(s)' : s \notin contended => x = c
  BY <1>0, <1>1, <1>2, <1>3, <1>4 DEF Undisturbed, SourceInv, Writing, Shape
<1>7. Undisturbed(s)'
  <2>1. s \notin contended => Writing(s)' = {}
    <3>1. \A x \in Writing(s)' : x \in InProgress(s)'
      BY DEF Writing
    <3> QED  BY <1>2, <1>q, <1>w, <3>1
  <2>2. s \notin contended => (Exists(s) /\ rows[s].key => object[s] # 0)'
    BY <1>0, <1>1, <1>2, <1>3, <1>4, <1>q, <1>a, <1>b DEF Undisturbed, Shape, SourceInv, Exists
  <2> QED  BY <1>1, <2>1, <2>2 DEF Undisturbed
<1>8. Reachable(s)'
  BY <1>0, <1>1, <1>2, <1>3, <1>4, <1>q, <1>a, <1>b DEF Reachable, Undisturbed, Shape, Writing, Born, SourceInv, Exists
<1> QED
  <2>1. SourceInv(s)'
    BY <1>5, <1>6, <1>7, <1>8 DEF SourceInv
  <2>2. \A t \in Sources : t # s =>
          /\ rows'[t] = rows[t] /\ object'[t] = object[t]
          /\ t \in contended => t \in contended'
          /\ t \in emptied => t \in emptied'
    BY <1>1 DEF SourcesTypeOK
  <2> QED  BY <1>1, <1>m, <2>1, <2>2, OneSource

LEMMA EnqueueKeeps ==
  ASSUME SourcesTypeOK, \A t \in Sources : SourceInv(t), NEW c \in Clients,
         NEW s \in Sources, request[c] # NoRequest, request[c].source = s, EnqueueSync(c)
  PROVE  \A t \in Sources : SourceInv(t)'
PROOF
<1> DEFINE r == request[c]
           q == [request[c] EXCEPT !.step = "status"]
<1>0. /\ r # NoRequest /\ r \in Requests /\ r.step = "enqueue" /\ r.row \in Row
      /\ r.row.key \in BOOLEAN
  BY RequestType DEF EnqueueSync, At, Row
<1>1. /\ request[c].source = s /\ request' = [request EXCEPT ![c] = q]
      /\ rows' = rows /\ object' = object /\ contended' = contended /\ emptied' = emptied
      /\ faults' = faults
  BY DEF EnqueueSync, GoTo
<1>q. /\ q.source = s /\ q.op = r.op /\ q.step = "status" /\ q.upload = r.upload
      /\ q.row = r.row /\ q # NoRequest
  <2>1. q \in Requests
    BY <1>0 DEF Requests
  <2> QED  BY <1>0, <1>1, <2>1, NoRequestAssumption DEF Requests
<1> HIDE DEF q
<1>m. request'[c] = q /\ Moves(c, s)
  BY <1>0, <1>1, <1>q DEF SourcesTypeOK, Moves
<1>2. /\ c \in InProgress(s)' <=> q # NoRequest
      /\ \A x \in Clients : x # c => (x \in InProgress(s)' <=> x \in InProgress(s))
      /\ request'[c] = q /\ \A x \in Clients : x # c => request'[x] = request[x]
  BY <1>m, Moving DEF Moves
<1>3. /\ \A x \in InProgress(s)' : x \in Clients
      /\ \A x \in InProgress(s) : x \in Clients
  BY DEF InProgress
<1>4. /\ SourceInv(s) /\ c \in InProgress(s) /\ Shape(request[c])
      /\ request[c].op # "sync" => c \in Writing(s)
  BY <1>0, Stepping
<1>a. /\ rows[s] # Absent /\ rows[s] \in Row \cup {Deleted}
      /\ Exists(s) <=> rows[s] # Deleted
  BY <1>4 DEF SourceInv, Born, SourcesTypeOK, Exists
<1>5. Born(s)'
  BY <1>0, <1>1, <1>2, <1>3, <1>4, <1>q, <1>a DEF Born, Shape, SourceInv, Exists
<1>6. FaultFree(s)'
  BY <1>0, <1>1, <1>2, <1>3, <1>4, <1>q, <1>a DEF FaultFree, Born, SourceInv, Exists
<1>7. Undisturbed(s)'
  BY <1>0, <1>1, <1>2, <1>3, <1>4, <1>q, <1>a DEF Undisturbed, Writing, SourceInv, Exists
<1>8. Reachable(s)'
  BY <1>0, <1>1, <1>2, <1>3, <1>4, <1>q, <1>a DEF Reachable, Undisturbed, Shape, Writing, Born, SourceInv, Exists
<1> QED
  <2>1. SourceInv(s)'
    BY <1>5, <1>6, <1>7, <1>8 DEF SourceInv
  <2>2. \A t \in Sources : t # s =>
          /\ rows'[t] = rows[t] /\ object'[t] = object[t]
          /\ t \in contended => t \in contended'
          /\ t \in emptied => t \in emptied'
    BY <1>1 DEF SourcesTypeOK
  <2> QED  BY <1>1, <1>m, <2>1, <2>2, OneSource

LEMMA MarkSyncedKeeps ==
  ASSUME SourcesTypeOK, \A t \in Sources : SourceInv(t), NEW c \in Clients,
         NEW s \in Sources, request[c] # NoRequest, request[c].source = s, MarkSynced(c)
  PROVE  \A t \in Sources : SourceInv(t)'
PROOF
<1> DEFINE r == request[c]
           q == NoRequest
<1>0. /\ r # NoRequest /\ r \in Requests /\ r.step = "status" /\ r.row \in Row
      /\ r.row.key \in BOOLEAN
  BY RequestType DEF MarkSynced, At, Row
<1>1. /\ request[c].source = s /\ request' = [request EXCEPT ![c] = q]
      /\ rows' = IF Exists(s) THEN [rows EXCEPT ![s].status = "active"] ELSE rows
      /\ object' = object /\ contended' = contended /\ emptied' = emptied /\ faults' = faults
  BY DEF MarkSynced, Done
<1>q. q = NoRequest
  OBVIOUS
<1> HIDE DEF q
<1>m. request'[c] = q /\ Moves(c, s)
  BY <1>0, <1>1, <1>q DEF SourcesTypeOK, Moves
<1>2. /\ c \in InProgress(s)' <=> q # NoRequest
      /\ \A x \in Clients : x # c => (x \in InProgress(s)' <=> x \in InProgress(s))
      /\ request'[c] = q /\ \A x \in Clients : x # c => request'[x] = request[x]
  BY <1>m, Moving DEF Moves
<1>3. /\ \A x \in InProgress(s)' : x \in Clients
      /\ \A x \in InProgress(s) : x \in Clients
  BY DEF InProgress
<1>4. /\ SourceInv(s) /\ c \in InProgress(s) /\ Shape(request[c])
      /\ request[c].op # "sync" => c \in Writing(s)
  BY <1>0, Stepping
<1>a. /\ rows[s] # Absent /\ rows[s] \in Row \cup {Deleted}
      /\ Exists(s) <=> rows[s] # Deleted
  BY <1>4 DEF SourceInv, Born, SourcesTypeOK, Exists
<1>b. /\ ~Exists(s) => rows'[s] = rows[s]
      /\ Exists(s) => /\ rows'[s] # Absent /\ rows'[s] # Deleted
                      /\ rows'[s].key = rows[s].key
  <2>1. CASE Exists(s)
    <3>1. rows[s] \in Row /\ [rows[s] EXCEPT !.status = "active"] \in Row
          /\ [rows[s] EXCEPT !.status = "active"].key = rows[s].key
      BY <2>1, <1>a DEF Exists, Row
    <3>2. rows'[s] = [rows[s] EXCEPT !.status = "active"]
      BY <1>1, <2>1 DEF SourcesTypeOK
    <3>3. \A x \in Row : x # Absent /\ x # Deleted
      BY SourceRowsAssumption DEF Row
    <3> QED  BY <2>1, <3>1, <3>2, <3>3
  <2> QED  BY <1>1, <2>1
<1>5. Born(s)'
  BY <1>0, <1>1, <1>2, <1>3, <1>4, <1>q, <1>a, <1>b DEF Born, Shape, SourceInv, Exists
<1>6. FaultFree(s)'
  BY <1>0, <1>1, <1>2, <1>3, <1>4, <1>q, <1>a, <1>b DEF FaultFree, Born, SourceInv, Exists
<1>7. Undisturbed(s)'
  BY <1>0, <1>1, <1>2, <1>3, <1>4, <1>q, <1>a, <1>b DEF Undisturbed, Writing, SourceInv, Exists
<1>8. Reachable(s)'
  BY <1>0, <1>1, <1>2, <1>3, <1>4, <1>q, <1>a, <1>b DEF Reachable, Undisturbed, Shape, Writing, Born, SourceInv, Exists
<1> QED
  <2>1. SourceInv(s)'
    BY <1>5, <1>6, <1>7, <1>8 DEF SourceInv
  <2>2. \A t \in Sources : t # s =>
          /\ rows'[t] = rows[t] /\ object'[t] = object[t]
          /\ t \in contended => t \in contended'
          /\ t \in emptied => t \in emptied'
    BY <1>1 DEF SourcesTypeOK
  <2> QED  BY <1>1, <1>m, <2>1, <2>2, OneSource

LEMMA FailsKeeps ==
  ASSUME SourcesTypeOK, \A t \in Sources : SourceInv(t), NEW c \in Clients,
         NEW s \in Sources, request[c] # NoRequest, request[c].source = s, RequestFails(c)
  PROVE  \A t \in Sources : SourceInv(t)'
PROOF
<1>1. /\ request' = [request EXCEPT ![c] = NoRequest] /\ faults' # 0
      /\ rows' = rows /\ object' = object /\ contended' = contended /\ emptied' = emptied
  BY FaultType DEF RequestFails, Done, SourcesTypeOK
<1>0. request[c] # NoRequest
  OBVIOUS
<1>m. request'[c] = NoRequest /\ Moves(c, s)
  BY <1>0, <1>1 DEF SourcesTypeOK, Moves
<1>2. /\ c \in InProgress(s)' <=> NoRequest # NoRequest
      /\ \A x \in Clients : x # c => (x \in InProgress(s)' <=> x \in InProgress(s))
      /\ request'[c] = NoRequest /\ \A x \in Clients : x # c => request'[x] = request[x]
  BY <1>m, Moving DEF Moves
<1>3. /\ \A x \in InProgress(s)' : x \in Clients
      /\ \A x \in InProgress(s) : x \in Clients
  BY DEF InProgress
<1>4. /\ SourceInv(s) /\ c \in InProgress(s) /\ Shape(request[c])
      /\ request[c].op # "sync" => c \in Writing(s)
  BY <1>0, Stepping
<1>5. Born(s)'
  BY <1>1, <1>2, <1>3, <1>4 DEF Born, SourceInv
<1>6. FaultFree(s)' /\ Reachable(s)'
  BY <1>1 DEF FaultFree, Reachable
<1>7. Undisturbed(s)'
  BY <1>1, <1>2, <1>3, <1>4 DEF Undisturbed, SourceInv, Writing, Exists
<1> QED
  <2>1. SourceInv(s)'
    BY <1>5, <1>6, <1>7 DEF SourceInv
  <2>2. \A t \in Sources : t # s =>
          /\ rows'[t] = rows[t] /\ object'[t] = object[t]
          /\ t \in contended => t \in contended'
          /\ t \in emptied => t \in emptied'
    BY <1>1 DEF SourcesTypeOK
  <2> QED  BY <1>1, <1>m, <2>1, <2>2, OneSource

LEMMA ServeKeeps ==
  ASSUME SourcesTypeOK, \A t \in Sources : SourceInv(t), NEW c \in Clients, Serve(c)
  PROVE  \A t \in Sources : SourceInv(t)'
PROOF
<1>1. ASSUME NEW s \in Sources, NEW file \in FileNames, NEW upload \in BOOLEAN,
             Create(c, s, file, upload) \/ BeginUpdate(c, s, file, upload)
      PROVE  \A t \in Sources : SourceInv(t)'
  BY <1>1, CreateKeeps, ReadKeeps DEF BeginUpdate
<1>2. ASSUME NEW s \in Sources, BeginRename(c, s) \/ BeginDelete(c, s) \/ BeginSync(c, s)
      PROVE  \A t \in Sources : SourceInv(t)'
  BY <1>2, ReadKeeps DEF BeginRename, BeginDelete, BeginSync
<1>3. ASSUME \/ WriteSource(c) \/ PutObject(c) \/ RecordKey(c) \/ RecordFails(c)
             \/ Cleanup(c) \/ DeleteSource(c) \/ RemoveObject(c)
             \/ EnqueueSync(c) \/ MarkSynced(c) \/ RequestFails(c)
      PROVE  \A t \in Sources : SourceInv(t)'
  <2>1. request[c] # NoRequest
    BY <1>3 DEF WriteSource, PutObject, RecordKey, RecordFails, Cleanup, DeleteSource,
                RemoveObject, EnqueueSync, MarkSynced, RequestFails, At
  <2>2. PICK s \in Sources : s = request[c].source
    BY <2>1, RequestType
  <2>3. request[c].source = s
    BY <2>2
  <2> QED
    BY <1>3, <2>1, <2>3, WriteKeeps, PutKeeps, RecordKeeps, RecordFailsKeeps, CleanupKeeps,
       DeleteKeeps, RemoveKeeps, EnqueueKeeps, MarkSyncedKeeps, FailsKeeps
<1> QED  BY <1>1, <1>2, <1>3 DEF Serve

\* A worker touches the status of a row and nothing else of the sources.
LEMMA WorkFrame ==
  ASSUME SourcesTypeOK, NEW w \in Workers, Work(w)
  PROVE  /\ UNCHANGED <<object, request, uploads, contended, emptied>>
         /\ faults' = 0 => faults = 0
         /\ rows' = rows \/ MarkError(w)
PROOF
<1>1. SourceFault => faults' # 0
  BY FaultType DEF SourcesTypeOK
<1>2. ASSUME NEW s \in Sources,
             \/ Resolve(w, s) \/ Unresolvable(w, s) \/ SniffFails(w, s)
             \/ ResolveGone(w, s) \/ ResolveFails(w, s)
      PROVE  /\ UNCHANGED <<object, request, uploads, contended, emptied, rows>>
             /\ faults' = 0 => faults = 0
  BY <1>1, <1>2 DEF Resolve, Unresolvable, SniffFails, ResolveGone, ResolveFails, Take,
                    accountVars
<1>3. ASSUME MarkError(w) \/ MarkErrorFails(w)
      PROVE  /\ UNCHANGED <<object, request, uploads, contended, emptied>>
             /\ faults' = 0 => faults = 0
             /\ rows' = rows \/ MarkError(w)
  BY <1>1, <1>3 DEF MarkError, MarkErrorFails, sourceVars
<1>4. ASSUME Extract(w) \/ ExtractFails(w)
      PROVE  /\ UNCHANGED <<object, request, uploads, contended, emptied, rows>>
             /\ faults' = 0 => faults = 0
  BY <1>1, <1>4 DEF Extract, ExtractFails, sourceVars, accountVars
<1>5. ASSUME BeginStore(w) \/ StoreStep(w)
      PROVE  UNCHANGED <<object, request, uploads, contended, emptied, rows, faults>>
  BY <1>5 DEF BeginStore, StoreStep, sourceVars, accountVars
<1>6. ASSUME FinishStore(w)
      PROVE  UNCHANGED <<object, request, uploads, contended, emptied, rows, faults>>
  BY <1>6 DEF FinishStore, Commit, sourceVars
<1>7. ASSUME StoreFails(w)
      PROVE  /\ UNCHANGED <<object, request, uploads, contended, emptied, rows>>
             /\ faults' = 0 => faults = 0
  <2>1. faults' = faults \/ faults' = faults + 1
    BY <1>7 DEF StoreFails, TxFails, Victim
  <2> QED  BY <1>7, <2>1 DEF StoreFails, SourcesTypeOK
<1> QED  BY <1>2, <1>3, <1>4, <1>5, <1>6, <1>7 DEF Work

LEMMA WorkKeeps ==
  ASSUME IType, \A t \in Sources : SourceInv(t), NEW w \in Workers, Work(w)
  PROVE  \A t \in Sources : SourceInv(t)'
PROOF
<1>0. SourcesTypeOK
  BY DEF IType, TypeOK
<1> SUFFICES ASSUME NEW t \in Sources PROVE SourceInv(t)'
  OBVIOUS
<1>1. /\ UNCHANGED <<object, request, uploads, contended, emptied>>
      /\ faults' = 0 => faults = 0
      /\ rows' = rows \/ MarkError(w)
  BY <1>0, WorkFrame
<1>2. InProgress(t)' = InProgress(t)
  BY <1>1 DEF InProgress
<1>3. rows'[t] = rows[t] \/ (Exists(t) /\ Exists(t)' /\ rows'[t].key = rows[t].key)
  <2>1. CASE MarkError(w)
    <3> DEFINE s == job[w].source
    <3>1. rows' = IF Exists(s) THEN [rows EXCEPT ![s].status = "error"] ELSE rows
      BY <2>1 DEF MarkError
    <3>2. CASE Exists(s) /\ t = s
      <4>1. rows[t] \in Row /\ rows'[t] = [rows[t] EXCEPT !.status = "error"]
        BY <1>0, <3>1, <3>2, ExistingRow DEF SourcesTypeOK
      <4>2. [rows[t] EXCEPT !.status = "error"] \in Row
            /\ [rows[t] EXCEPT !.status = "error"].key = rows[t].key
        BY <4>1 DEF Row
      <4>3. \A x \in Row : x # Absent /\ x # Deleted
        BY SourceRowsAssumption DEF Row
      <4> QED  BY <4>1, <4>2, <4>3 DEF Exists
    <3>3. CASE ~(Exists(s) /\ t = s)
      BY <1>0, <3>1, <3>3 DEF SourcesTypeOK
    <3> QED  BY <3>2, <3>3
  <2> QED  BY <1>1, <2>1
<1> QED  BY <1>1, <1>2, <1>3, Elsewhere

PipelineInv == IType /\ \A s \in Sources : SourceInv(s)

LEMMA PipelineInvariant == Spec => []PipelineInv
PROOF
<1>1. Init => PipelineInv
  <2> SUFFICES ASSUME Init PROVE PipelineInv
    OBVIOUS
  <2>1. ASSUME NEW s \in Sources PROVE SourceInv(s)
    <3>1. /\ rows[s] = Absent /\ object[s] = 0 /\ InProgress(s) = {} /\ Writing(s) = {}
          /\ ~Exists(s)
      BY DEF Init, SourcesInit, InProgress, Writing, Exists
    <3> QED
      BY <3>1 DEF SourceInv, Born, FaultFree, Undisturbed, Reachable
  <2> QED  BY <2>1, TypeInit DEF PipelineInv
<1>2. PipelineInv /\ [Next]_vars => PipelineInv'
  <2> SUFFICES ASSUME PipelineInv, [Next]_vars PROVE PipelineInv'
    OBVIOUS
  <2>0. IType /\ SourcesTypeOK /\ IType'
    BY TypeStep DEF PipelineInv, IType, TypeOK
  <2>1. ASSUME NEW c \in Clients, Serve(c) PROVE \A s \in Sources : SourceInv(s)'
    BY <2>0, <2>1, ServeKeeps DEF PipelineInv
  <2>2. ASSUME NEW w \in Workers, Work(w) PROVE \A s \in Sources : SourceInv(s)'
    BY <2>0, <2>2, WorkKeeps DEF PipelineInv
  <2>3. ASSUME UNCHANGED vars, NEW s \in Sources PROVE SourceInv(s)'
    <3>1. UNCHANGED <<rows, object, request, contended, emptied, faults>>
      BY <2>3 DEF vars, sourceVars, accountVars
    <3>2. InProgress(s)' = InProgress(s)
      BY <3>1 DEF InProgress
    <3> QED  BY <3>1, <3>2, Elsewhere DEF PipelineInv
  <2> QED  BY <2>0, <2>1, <2>2, <2>3 DEF PipelineInv, Next
<1> QED  BY <1>1, <1>2, PTL DEF Spec

\* A row refers to an object that is not there only after a failure, and only
\* when two writing requests for the source were in progress at once: failures
\* alone and overlapping requests alone never take a row's object away.
THEOREM DanglingNeedsBoth == Spec => []DanglingExplained
PROOF
<1>1. PipelineInv => DanglingExplained
  <2> SUFFICES ASSUME PipelineInv, NEW s \in Sources,
                      Exists(s), rows[s].key, object[s] = 0
               PROVE  faults > 0 /\ s \in contended
    BY DEF DanglingExplained
  <2>1. faults \in Nat
    BY Bounds DEF PipelineInv, IType, TypeOK, SourcesTypeOK
  <2> QED
    BY <2>1 DEF PipelineInv, SourceInv, FaultFree, Undisturbed, Exists
<1> QED  BY <1>1, PipelineInvariant, PTL

\* When no request is in progress for a source, an object its row does not
\* refer to was left by a failure, by overlapping requests or by an update with
\* an empty file.
THEOREM OrphansExplained == Spec => []OrphanExplained
PROOF
<1>1. PipelineInv => OrphanExplained
  <2> SUFFICES ASSUME PipelineInv, NEW s \in Sources, object[s] # 0, InProgress(s) = {},
                      ~(Exists(s) /\ rows[s].key), ~(s \in contended \cup emptied)
               PROVE  faults > 0
    BY DEF OrphanExplained
  <2>1. faults \in Nat
    BY Bounds DEF PipelineInv, IType, TypeOK, SourcesTypeOK
  <2>2. Reachable(s)
    BY DEF PipelineInv, SourceInv
  <2> QED  BY <2>1, <2>2 DEF Reachable
<1> QED  BY <1>1, PipelineInvariant, PTL

(***************************************************************************)
(* Versions.  What is stored was read from the object, and versions of an  *)
(* object only grow: a document can go back only when two workers hold two *)
(* versions of it at once.                                                 *)
(***************************************************************************)

\* No document is newer than the object, nor what a worker read of it.
NewestKept(s) ==
  /\ object[s] <= uploads
  /\ docs[s] # NoDoc =>
       docs[s].content <= uploads /\ (object[s] # 0 => docs[s].content <= object[s])
  /\ \A w \in Workers : Doing(w, "store") /\ job[w].source = s =>
       job[w].content <= uploads /\ (object[s] # 0 => job[w].content <= object[s])

\* A worker alone on the source has read no older version than the document's.
AloneAhead(s) ==
  s \notin raced =>
    /\ \A w, x \in Workers : job[w] # NoJob /\ job[w].source = s /\
                             job[x] # NoJob /\ job[x].source = s => w = x
    /\ \A w \in Workers : Doing(w, "store") /\ job[w].source = s /\ docs[s] # NoDoc =>
         docs[s].content <= job[w].content

AgesInv == \A s \in Sources : NewestKept(s) /\ AloneAhead(s)

\* The types that comparisons of versions need.
LEMMA Versions ==
  ASSUME IType
  PROVE  /\ uploads \in Nat
         /\ \A s \in Sources : object[s] \in Nat
         /\ \A s \in Sources : docs[s] # NoDoc => docs[s].content \in Nat
         /\ \A w \in Workers : job[w] # NoJob => job[w].content \in Nat
PROOF
<1>1. uploads \in Nat /\ \A s \in Sources : object[s] \in Nat
  BY Bounds DEF IType, TypeOK, SourcesTypeOK
<1>2. ASSUME NEW s \in Sources, docs[s] # NoDoc PROVE docs[s].content \in Nat
  <2>1. docs[s] \in Rows
    BY <1>2 DEF IType, TypeOK, StoreTypeOK
  <2> QED  BY <2>1, Bounds DEF Rows
<1>3. ASSUME NEW w \in Workers, job[w] # NoJob PROVE job[w].content \in Nat
  BY <1>3, JobType, Bounds DEF IType
<1> QED  BY <1>1, <1>2, <1>3

\* A request gives an object a version above all others, or takes it away.
LEMMA ServeVersions ==
  ASSUME SourcesTypeOK, NEW c \in Clients, Serve(c)
  PROVE  /\ uploads' \in Nat /\ uploads <= uploads'
         /\ \A s \in Sources : \/ object'[s] = object[s] \/ object'[s] = 0
                               \/ object'[s] = uploads + 1 /\ uploads' = uploads + 1
PROOF
<1>0. uploads \in Nat
  BY Bounds DEF SourcesTypeOK
<1>1. CASE PutObject(c)
  BY <1>0, <1>1 DEF PutObject, SourcesTypeOK
<1>2. CASE Cleanup(c) \/ RemoveObject(c)
  BY <1>0, <1>2 DEF Cleanup, RemoveObject, SourcesTypeOK
<1>3. ASSUME ~PutObject(c), ~(Cleanup(c) \/ RemoveObject(c))
      PROVE  object' = object /\ uploads' = uploads
  BY <1>3 DEF Serve, Create, BeginUpdate, BeginRename, BeginDelete, BeginSync, Read,
              WriteSource, RecordKey, RecordFails, DeleteSource, EnqueueSync, MarkSynced,
              RequestFails
<1> QED  BY <1>0, <1>1, <1>2, <1>3

LEMMA ServeAges ==
  ASSUME IType, AgesInv, NEW c \in Clients, Serve(c), UNCHANGED <<knowledgeVars, jobVars>>
  PROVE  AgesInv'
PROOF
<1> SUFFICES ASSUME NEW s \in Sources PROVE NewestKept(s)' /\ AloneAhead(s)'
  BY DEF AgesInv
<1>1. docs' = docs /\ job' = job /\ raced' = raced
  BY DEF knowledgeVars, jobVars
<1>2. /\ uploads' \in Nat /\ uploads <= uploads'
      /\ \/ object'[s] = object[s] \/ object'[s] = 0
         \/ object'[s] = uploads + 1 /\ uploads' = uploads + 1
  BY ServeVersions DEF IType, TypeOK
<1>3. /\ uploads \in Nat /\ object[s] \in Nat
      /\ docs[s] # NoDoc => docs[s].content \in Nat
      /\ \A w \in Workers : job[w] # NoJob => job[w].content \in Nat
  BY Versions
<1>4. NewestKept(s) /\ AloneAhead(s)
  BY DEF AgesInv
<1>5. NewestKept(s)'
  BY <1>1, <1>2, <1>3, <1>4 DEF NewestKept, Doing
<1>6. AloneAhead(s)'
  BY <1>1, <1>4 DEF AloneAhead, Doing
<1> QED  BY <1>5, <1>6

\* A worker that takes a task, drops it, or reads the object.
LEMMA JobAges ==
  ASSUME IType, AgesInv, NEW w \in Workers, UNCHANGED <<object, uploads, docs>>,
         \A x \in Workers : x # w => job'[x] = job[x],
         raced \subseteq raced',
         \/ job'[w] = NoJob
         \/ job'[w].step # "store" /\ \A x \in Workers :
              x # w /\ job[x] # NoJob /\ job[x].source = job'[w].source =>
                job'[w].source \in raced'
         \/ /\ job[w] # NoJob /\ job'[w].source = job[w].source
            /\ job'[w].content = object[job[w].source] /\ object[job[w].source] # 0
  PROVE  AgesInv'
PROOF
<1> SUFFICES ASSUME NEW s \in Sources PROVE NewestKept(s)' /\ AloneAhead(s)'
  BY DEF AgesInv
<1>3. /\ uploads \in Nat /\ object[s] \in Nat
      /\ docs[s] # NoDoc => docs[s].content \in Nat
      /\ \A x \in Workers : job[x] # NoJob => job[x].content \in Nat
  BY Versions
<1>4. NewestKept(s) /\ AloneAhead(s)
  BY DEF AgesInv
<1>5. NewestKept(s)'
  BY <1>3, <1>4 DEF NewestKept, Doing
<1>6. AloneAhead(s)'
  <2> SUFFICES ASSUME s \notin raced' PROVE AloneAhead(s)'
    BY DEF AloneAhead
  <2>1. \A x, y \in Workers : job'[x] # NoJob /\ job'[x].source = s /\
                              job'[y] # NoJob /\ job'[y].source = s => x = y
    BY <1>4 DEF AloneAhead
  <2>2. ASSUME NEW x \in Workers, Doing(x, "store")', job'[x].source = s, docs'[s] # NoDoc
        PROVE  docs'[s].content <= job'[x].content
    <3>1. CASE x = w
      BY <1>3, <1>4, <2>2, <3>1 DEF NewestKept, Doing
    <3>2. CASE x # w
      BY <1>4, <2>2, <3>2 DEF AloneAhead, Doing
    <3> QED  BY <3>1, <3>2
  <2> QED  BY <2>1, <2>2 DEF AloneAhead
<1> QED  BY <1>5, <1>6

\* A commit stores what the worker has read, and that is not older.
LEMMA CommitAges ==
  ASSUME IType, AgesInv, NEW w \in Workers, FinishStore(w)
  PROVE  /\ AgesInv'
         /\ \A s \in Sources :
              docs[s] # NoDoc /\ docs'[s] # NoDoc /\ docs'[s].content < docs[s].content
              => s \in raced
PROOF
<1>1. /\ phase[w] # "idle" /\ Commit(w) /\ UNCHANGED <<object, uploads>>
      /\ job' = [job EXCEPT ![w] = NoJob] /\ raced' = raced
  BY DEF FinishStore, Commit, EndJob, sourceVars
<1>2. /\ Doing(w, "store") /\ job[w].source \in Sources
      /\ job' \in [Workers -> Jobs \cup {NoJob}] /\ job'[w] = NoJob
      /\ \A x \in Workers : x # w => job'[x] = job[x]
  BY <1>1, JobType DEF Doing, IType, TypeOK
<1> SUFFICES ASSUME NEW s \in Sources
             PROVE  /\ NewestKept(s)' /\ AloneAhead(s)'
                    /\ docs[s] # NoDoc /\ docs'[s] # NoDoc /\
                       docs'[s].content < docs[s].content => s \in raced
  BY DEF AgesInv
<1>3. /\ uploads \in Nat /\ object[s] \in Nat
      /\ docs[s] # NoDoc => docs[s].content \in Nat
      /\ \A x \in Workers : job[x] # NoJob => job[x].content \in Nat
  BY Versions
<1>4. NewestKept(s) /\ AloneAhead(s)
  BY DEF AgesInv
<1>5. \/ docs'[s] = docs[s] \/ docs'[s] = NoDoc
      \/ s = job[w].source /\ docs'[s].content = job[w].content
  BY <1>1, CommitDocs
<1>6. NewestKept(s)'
  <2>1. ASSUME docs'[s] # NoDoc
        PROVE  docs'[s].content <= uploads /\ (object[s] # 0 => docs'[s].content <= object[s])
    BY <1>2, <1>4, <1>5, <2>1 DEF NewestKept
  <2>2. \A x \in Workers : Doing(x, "store")' => x # w /\ Doing(x, "store")
    BY <1>2 DEF Doing
  <2> QED  BY <1>1, <1>2, <1>4, <2>1, <2>2 DEF NewestKept
<1>7. AloneAhead(s)'
  <2>1. \A x \in Workers : job'[x] # NoJob => x # w /\ job[x] # NoJob
    BY <1>2
  <2>2. ASSUME s \notin raced, NEW x \in Workers, Doing(x, "store")', job'[x].source = s,
               docs'[s] # NoDoc
        PROVE  docs'[s].content <= job'[x].content
    <3>1. x # w /\ Doing(x, "store") /\ job[x].source = s /\ job[x] # NoJob
      BY <1>2, <2>2 DEF Doing
    <3>2. job[w].source # s
      BY <1>2, <1>4, <2>2, <3>1 DEF AloneAhead, Doing
    <3>3. docs'[s] = docs[s]
      BY <1>5, <2>2, <3>2
    <3> QED  BY <1>2, <1>4, <2>2, <3>1, <3>3 DEF AloneAhead
  <2> QED  BY <1>1, <1>2, <1>4, <2>1, <2>2 DEF AloneAhead
<1>8. ASSUME docs[s] # NoDoc, docs'[s] # NoDoc, docs'[s].content < docs[s].content,
             s \notin raced
      PROVE  FALSE
  BY <1>2, <1>3, <1>4, <1>5, <1>8 DEF AloneAhead, Doing
<1> QED  BY <1>6, <1>7, <1>8

LEMMA WorkAges ==
  ASSUME IType, AgesInv, NEW w \in Workers, Work(w)
  PROVE  /\ AgesInv'
         /\ docs' = docs \/ FinishStore(w)
PROOF
<1>0. SourcesTypeOK /\ job \in [Workers -> Jobs \cup {NoJob}]
  BY DEF IType, TypeOK
<1>1. ASSUME NEW s \in Sources, NEW j, Take(w, s, j),
             j # NoJob => j.step # "store" /\ j.source = s
      PROVE  AgesInv' /\ docs' = docs
  <2>1. /\ UNCHANGED <<object, uploads, docs>> /\ raced \subseteq raced'
        /\ job' = [job EXCEPT ![w] = j]
        /\ \A x \in Workers : job[x] # NoJob /\ job[x].source = s => s \in raced'
    BY <1>1 DEF Take, knowledgeVars
  <2>2. job'[w] = j /\ \A x \in Workers : x # w => job'[x] = job[x]
    BY <1>0, <2>1
  <2>3. CASE j = NoJob
    BY <2>1, <2>2, <2>3, JobAges
  <2>4. CASE j # NoJob
    <3>1. job'[w].step # "store" /\ \A x \in Workers :
             x # w /\ job[x] # NoJob /\ job[x].source = job'[w].source =>
               job'[w].source \in raced'
      BY <1>1, <2>1, <2>2, <2>4
    <3> QED  BY <2>1, <2>2, <3>1, JobAges
  <2> QED  BY <2>1, <2>3, <2>4
<1>2. \A s, step, file :
        /\ JobOf(s, step, file).step = step
        /\ JobOf(s, step, file).source = s
  BY DEF JobOf
<1>3. ASSUME NEW s \in Sources, SniffFails(w, s) PROVE AgesInv' /\ docs' = docs
  <2>1. UNCHANGED <<object, uploads, docs, job, raced>>
    BY <1>3 DEF SniffFails, knowledgeVars, jobVars
  <2>2. job[w] = NoJob
    BY <1>3 DEF SniffFails
  <2> QED  BY <2>1, <2>2, JobAges
<1>4. ASSUME NEW s \in Sources,
             Resolve(w, s) \/ Unresolvable(w, s) \/ ResolveGone(w, s) \/ ResolveFails(w, s)
      PROVE  AgesInv' /\ docs' = docs
  <2>1. CASE Resolve(w, s)
    <3>1. Take(w, s, JobOf(s, "extract", rows[s].file))
      BY <2>1 DEF Resolve
    <3> QED  BY <1>1, <1>2, <3>1
  <2>2. CASE Unresolvable(w, s) \/ ResolveFails(w, s)
    <3>1. Take(w, s, JobOf(s, "mark", rows[s].file))
      BY <2>2 DEF Unresolvable, ResolveFails
    <3> QED  BY <1>1, <1>2, <3>1
  <2>3. CASE ResolveGone(w, s)
    <3>1. Take(w, s, NoJob)
      BY <2>3 DEF ResolveGone
    <3> QED  BY <1>1, <3>1
  <2> QED  BY <1>4, <2>1, <2>2, <2>3
<1>5. ASSUME UNCHANGED <<object, uploads, docs>>, EndJob(w) PROVE AgesInv'
  <2>1. raced' = raced /\ job'[w] = NoJob /\ \A x \in Workers : x # w => job'[x] = job[x]
    BY <1>0, <1>5 DEF EndJob
  <2> QED  BY <1>5, <2>1, JobAges
<1>6. CASE MarkError(w) \/ MarkErrorFails(w)
  <2>1. UNCHANGED <<object, uploads, docs>> /\ EndJob(w)
    BY <1>6 DEF MarkError, MarkErrorFails, sourceVars, knowledgeVars
  <2> QED  BY <1>5, <2>1
<1>7. CASE Extract(w)
  <2> DEFINE more == [job[w] EXCEPT !.step = "store", !.content = object[job[w].source]]
  <2>1. /\ UNCHANGED <<object, uploads, docs, raced>> /\ job[w] # NoJob
        /\ object[job[w].source] # 0 /\ job' = [job EXCEPT ![w] = more]
    BY <1>7 DEF Extract, Doing, sourceVars, knowledgeVars
  <2>2. job[w] \in Jobs
    BY <1>0, <2>1
  <2>3. more.source = job[w].source /\ more.content = object[job[w].source]
    BY <2>2 DEF Jobs
  <2> HIDE DEF more
  <2>4. job'[w] = more /\ \A x \in Workers : x # w => job'[x] = job[x]
    BY <1>0, <2>1
  <2> QED  BY <2>1, <2>3, <2>4, JobAges
<1>8. CASE ExtractFails(w)
  <2>1. UNCHANGED <<object, uploads, docs>> /\ EndJob(w)
    BY <1>8 DEF ExtractFails, Retry, knowledgeVars
  <2> QED  BY <1>5, <2>1
<1>9. CASE BeginStore(w) \/ StoreStep(w)
  <2>1. UNCHANGED <<object, uploads, docs, job, raced>>
    BY <1>9 DEF BeginStore, StoreStep, ReplaceSource, Begin, DeleteRow, InsertDocument,
                StoreChunks, rowVars, sourceVars, jobVars
  <2> QED  BY <2>1 DEF AgesInv, NewestKept, AloneAhead, Doing
<1>10. CASE FinishStore(w)
  BY <1>10, CommitAges
<1>11. CASE StoreFails(w)
  <2>1. UNCHANGED <<object, uploads, docs>> /\ EndJob(w)
    BY <1>11 DEF StoreFails, Retry, TxFails, Victim, rowVars
  <2> QED  BY <1>5, <2>1
<1> QED  BY <1>3, <1>4, <1>6, <1>7, <1>8, <1>9, <1>10, <1>11 DEF Work

LEMMA AgesInvariant == Spec => [](IType /\ AgesInv)
PROOF
<1>1. Init => IType /\ AgesInv
  <2> SUFFICES ASSUME Init PROVE IType /\ AgesInv
    OBVIOUS
  <2>1. /\ \A s \in Sources : object[s] = 0 /\ docs[s] = NoDoc
        /\ uploads = 0 /\ \A w \in Workers : job[w] = NoJob
    BY DEF Init, SourcesInit
  <2> QED  BY <2>1, TypeInit DEF AgesInv, NewestKept, AloneAhead, Doing
<1>2. IType /\ AgesInv /\ [Next]_vars => (IType /\ AgesInv)'
  <2> SUFFICES ASSUME IType, AgesInv, [Next]_vars PROVE IType' /\ AgesInv'
    OBVIOUS
  <2>1. CASE UNCHANGED vars
    <3>1. UNCHANGED <<object, uploads, docs, job, raced>>
      BY <2>1 DEF vars, sourceVars, knowledgeVars, jobVars
    <3> QED  BY <3>1, TypeStep DEF AgesInv, NewestKept, AloneAhead, Doing
  <2> QED  BY <2>1, TypeStep, ServeAges, WorkAges DEF Next
<1> QED  BY <1>1, <1>2, PTL DEF Spec

\* A document never goes back to an older upload of its source, whatever fails
\* and whatever is retried, unless two workers were on the source at once.
THEOREM DocumentsMoveForward == Spec => ContentNeverOlder
PROOF
<1> DEFINE Forward ==
      \A s \in Sources :
        docs[s] # NoDoc /\ docs'[s] # NoDoc /\ docs'[s].content < docs[s].content
        => s \in raced
<1>1. IType /\ AgesInv /\ [Next]_vars => [Forward]_vars
  <2> SUFFICES ASSUME IType, AgesInv, Next PROVE Forward
    OBVIOUS
  <2>0. \A s \in Sources : docs[s] # NoDoc => docs[s].content \in Nat
    BY Versions
  <2>1. CASE docs' = docs
    BY <2>0, <2>1
  <2>2. ASSUME NEW c \in Clients, UNCHANGED <<knowledgeVars, jobVars>> PROVE docs' = docs
    BY <2>2 DEF knowledgeVars
  <2>3. ASSUME NEW w \in Workers, Work(w) PROVE docs' = docs \/ FinishStore(w)
    BY <2>3, WorkAges
  <2>4. ASSUME NEW w \in Workers, FinishStore(w) PROVE Forward
    BY <2>4, CommitAges
  <2> QED  BY <2>1, <2>2, <2>3, <2>4 DEF Next
<1> QED  BY <1>1, AgesInvariant, PTL DEF Spec, ContentNeverOlder




(***************************************************************************)
(* What a sync leaves.  Until the row changes again, the object stays, and *)
(* a task that waits, a worker or the document stands for its bytes.       *)
(***************************************************************************)

\* The transaction of a worker touches the document of its source alone, unless
\* the source shares its file name.
OwnDocument(s) ==
  s \notin shared =>
    \A w \in Workers :
      /\ s \in deleted[w] \/ (\E r \in targets[w] : r.doc = s) =>
           job[w] # NoJob /\ job[w].source = s
      /\ job[w] # NoJob /\ job[w].source = s =>
           deleted[w] \subseteq {s} /\ \A r \in targets[w] : r.doc = s

FreshKept(s) == s \in fresh => Exists(s) /\ rows[s].key

\* The worker has the bytes of the object, or will read them.
Carries(w, s) ==
  /\ job[w] # NoJob /\ job[w].source = s
  /\ \/ job[w].step = "extract"
     \/ job[w].step = "store" /\ job[w].content = object[s]

Synced(s) ==
  s \in fresh \ (raced \cup shared) /\ faults = 0 /\ rows[s].file \notin Unsupported =>
    \/ pending[s] > 0
    \/ \E w \in Workers : Carries(w, s)
    \/ docs[s] # NoDoc /\ docs[s].content = object[s]

SyncInv ==
  /\ PipelineInv /\ AgesInv
  /\ \A s \in Sources : OwnDocument(s) /\ FreshKept(s) /\ Synced(s)

\* As long as nothing fails, a source that was synced keeps its row but for the
\* status, and its object.
LEMMA FreshObject ==
  ASSUME PipelineInv, NEW s \in Sources, s \in fresh, FreshKept(s), faults = 0
  PROVE  /\ object[s] # 0 /\ rows[s] \in Row
         /\ \A c \in InProgress(s) : request[c].step \notin {"cleanup", "remove"}
PROOF
<1>1. Exists(s) /\ rows[s].key /\ Born(s) /\ FaultFree(s)
  BY DEF FreshKept, PipelineInv, SourceInv
<1>2. rows[s] \in Row /\ rows[s] # Deleted
  BY <1>1, ExistingRow DEF PipelineInv, IType, TypeOK, Exists
<1> QED  BY <1>1, <1>2 DEF Born, FaultFree

LEMMA RowStatus ==
  ASSUME SourcesTypeOK, NEW s \in Sources, NEW t \in Sources, Exists(t),
         NEW x \in {"active", "error"}, rows' = [rows EXCEPT ![t].status = x]
  PROVE  /\ Exists(s) /\ rows[s].key => Exists(s)' /\ rows'[s].key
         /\ Exists(s) => rows'[s].file = rows[s].file
PROOF
<1>1. CASE s = t
  <2>1. rows[s] \in Row /\ rows'[s] = [rows[s] EXCEPT !.status = x]
    BY <1>1, ExistingRow DEF SourcesTypeOK
  <2>2. rows'[s] \in Row /\ rows'[s].key = rows[s].key /\ rows'[s].file = rows[s].file
    BY <2>1 DEF Row
  <2>3. \A r \in Row : r # Absent /\ r # Deleted
    BY SourceRowsAssumption DEF Row
  <2> QED  BY <2>2, <2>3 DEF Exists
<1>2. CASE s # t
  BY <1>2 DEF SourcesTypeOK, Exists
<1> QED  BY <1>1, <1>2

\* A request leaves a source that was synced as it is, or is no longer synced,
\* or puts a task for it into the queue.
LEMMA ServeFresh ==
  ASSUME PipelineInv, NEW s \in Sources, FreshKept(s), NEW c \in Clients, Serve(c),
         s \in fresh'
  PROVE  /\ Exists(s)' /\ rows'[s].key
         /\ \/ pending'[s] > 0
            \/ /\ s \in fresh /\ rows'[s].file = rows[s].file /\ pending'[s] = pending[s]
               /\ faults' = 0 => faults = 0 /\ object'[s] = object[s]
PROOF
<1>0. /\ SourcesTypeOK /\ faults \in Nat
      /\ s \in fresh => Exists(s) /\ rows[s].key
      /\ s \in fresh => s \in Sources /\ rows[s] # Absent
  BY Bounds DEF PipelineInv, IType, TypeOK, SourcesTypeOK, FreshKept, Exists
<1>f. SourceFault => faults' # 0
  BY <1>0 DEF SourceFault
<1>1. ASSUME NEW t \in Sources,
             \/ \E file \in FileNames, upload \in BOOLEAN :
                  Create(c, t, file, upload) \/ BeginUpdate(c, t, file, upload)
             \/ BeginRename(c, t) \/ BeginDelete(c, t) \/ BeginSync(c, t)
      PROVE  /\ s \in fresh /\ rows'[s] = rows[s]
             /\ UNCHANGED <<object, pending, faults>>
  <2>1. /\ UNCHANGED <<object, pending, faults, fresh>>
        /\ rows' = rows \/ (rows[t] = Absent /\ \E r : rows' = [rows EXCEPT ![t] = r])
    BY <1>1 DEF Create, BeginUpdate, BeginRename, BeginDelete, BeginSync, Read
  <2> QED  BY <1>0, <2>1 DEF SourcesTypeOK
<1>2. ASSUME WriteSource(c) \/ RecordKey(c) \/ DeleteSource(c)
      PROVE  /\ s \in fresh /\ rows'[s] = rows[s]
             /\ UNCHANGED <<object, pending, faults>>
  <2> DEFINE t == request[c].source
  <2>1. /\ UNCHANGED <<object, pending, faults>>
        /\ \/ rows' = rows /\ fresh' = fresh
           \/ fresh' = fresh \ {t} /\ \E r : rows' = [rows EXCEPT ![t] = r]
    BY <1>2 DEF WriteSource, RecordKey, DeleteSource
  <2> QED  BY <1>0, <2>1 DEF SourcesTypeOK
<1>3. ASSUME PutObject(c)
      PROVE  s \in fresh /\ object'[s] = object[s] /\ UNCHANGED <<rows, pending, faults>>
  BY <1>0, <1>3 DEF PutObject, SourcesTypeOK
<1>4. ASSUME Cleanup(c) \/ RemoveObject(c)
      PROVE  /\ s \in fresh /\ UNCHANGED <<rows, pending, faults>>
             /\ faults = 0 => object'[s] = object[s]
  <2>1. /\ UNCHANGED <<rows, pending, faults, fresh>> /\ request[c] # NoRequest
        /\ object' = [object EXCEPT ![request[c].source] = 0]
        /\ request[c].step \in {"cleanup", "remove"}
    BY <1>4 DEF Cleanup, RemoveObject, At
  <2>2. faults = 0 => request[c].source # s
    BY <2>1, FreshObject DEF InProgress
  <2> QED  BY <1>0, <2>1, <2>2 DEF SourcesTypeOK
<1>5. ASSUME RecordFails(c) \/ RequestFails(c)
      PROVE  /\ s \in fresh /\ UNCHANGED <<rows, object, pending>>
             /\ faults' = 0 => faults = 0
  BY <1>f, <1>5 DEF RecordFails, RequestFails
<1>6. ASSUME EnqueueSync(c)
      PROVE  /\ UNCHANGED <<rows, object, faults>> /\ Exists(s) /\ rows[s].key
             /\ \/ pending'[s] > 0
                \/ s \in fresh /\ pending'[s] = pending[s]
  <2> DEFINE t == request[c].source
  <2>1. /\ UNCHANGED <<rows, object, faults>> /\ t \in Sources
        /\ pending' = [pending EXCEPT ![t] = @ + 1]
        /\ fresh' = IF Exists(t) /\ rows[t].key /\ Uploading(t) = {}
                    THEN fresh \cup {t} ELSE fresh
    BY <1>0, <1>6, RequestType DEF EnqueueSync, At
  <2>2. pending[s] \in Nat /\ pending[t] \in Nat
    BY <1>0, <2>1 DEF SourcesTypeOK
  <2>3. Exists(s) /\ rows[s].key
    BY <1>0, <2>1
  <2>4. CASE s = t
    BY <1>0, <2>1, <2>2, <2>3, <2>4 DEF SourcesTypeOK
  <2>5. CASE s # t
    BY <1>0, <2>1, <2>3, <2>5 DEF SourcesTypeOK
  <2> QED  BY <2>4, <2>5
<1>7. ASSUME MarkSynced(c)
      PROVE  /\ s \in fresh /\ UNCHANGED <<object, pending, faults>>
             /\ Exists(s)' /\ rows'[s].key /\ rows'[s].file = rows[s].file
  <2> DEFINE t == request[c].source
  <2>1. /\ UNCHANGED <<object, pending, faults, fresh>> /\ t \in Sources
        /\ rows' = IF Exists(t) THEN [rows EXCEPT ![t].status = "active"] ELSE rows
    BY <1>0, <1>7, RequestType DEF MarkSynced, At
  <2>2. CASE Exists(t)
    BY <1>0, <2>1, <2>2, RowStatus
  <2>3. CASE ~Exists(t)
    BY <1>0, <2>1, <2>3 DEF Exists
  <2> QED  BY <2>2, <2>3
<1>8. ASSUME s \in fresh, rows'[s] = rows[s] PROVE Exists(s)' /\ rows'[s].key
  BY <1>0, <1>8 DEF Exists
<1>9. ASSUME WriteSource(c) \/ RecordKey(c) \/ DeleteSource(c) \/ PutObject(c)
             \/ Cleanup(c) \/ RemoveObject(c) \/ RecordFails(c) \/ RequestFails(c)
      PROVE  /\ s \in fresh /\ rows'[s] = rows[s] /\ pending'[s] = pending[s]
             /\ faults' = 0 => faults = 0 /\ object'[s] = object[s]
  BY <1>9, <1>2, <1>3, <1>4, <1>5
<1> DEFINE StillFresh == /\ Exists(s)' /\ rows'[s].key
                         /\ \/ pending'[s] > 0
                            \/ /\ s \in fresh /\ rows'[s].file = rows[s].file
                               /\ pending'[s] = pending[s]
                               /\ faults' = 0 => faults = 0 /\ object'[s] = object[s]
<1>10. ASSUME s \in fresh, rows'[s] = rows[s], pending'[s] = pending[s],
              faults' = 0 => faults = 0 /\ object'[s] = object[s]
       PROVE  StillFresh
  BY <1>8, <1>10
<1>11. ASSUME EnqueueSync(c) PROVE StillFresh
  BY <1>6, <1>11 DEF Exists
<1>12. ASSUME MarkSynced(c) PROVE StillFresh
  BY <1>7, <1>12
<1>13. ASSUME NEW t \in Sources,
              \/ \E file \in FileNames, upload \in BOOLEAN :
                   Create(c, t, file, upload) \/ BeginUpdate(c, t, file, upload)
              \/ BeginRename(c, t) \/ BeginDelete(c, t) \/ BeginSync(c, t)
       PROVE  StillFresh
  <2>1. /\ s \in fresh /\ rows'[s] = rows[s] /\ UNCHANGED <<object, pending, faults>>
    BY <1>1, <1>13
  <2> QED  BY <1>10, <2>1
<1>14. ASSUME WriteSource(c) \/ RecordKey(c) \/ DeleteSource(c) \/ PutObject(c)
             \/ Cleanup(c) \/ RemoveObject(c) \/ RecordFails(c) \/ RequestFails(c)
       PROVE  StillFresh
  BY <1>9, <1>10, <1>14
<1> HIDE DEF StillFresh
<1>15. StillFresh
  BY <1>11, <1>12, <1>13, <1>14 DEF Serve
<1> QED  BY <1>15 DEF StillFresh

\* The steps of a worker outside a transaction.
Outside(w) ==
  \/ \E s \in Sources :
       \/ Resolve(w, s) \/ Unresolvable(w, s) \/ SniffFails(w, s)
       \/ ResolveGone(w, s) \/ ResolveFails(w, s)
  \/ MarkError(w) \/ MarkErrorFails(w) \/ Extract(w) \/ ExtractFails(w)

LEMMA OutsideFrame ==
  ASSUME IType, NEW w \in Workers, Outside(w)
  PROVE  /\ UNCHANGED knowledgeVars /\ shared' = shared /\ raced \subseteq raced'
         /\ phase[w] = "idle" /\ targets[w] = {} /\ deleted[w] = {}
         /\ \A x \in Workers : x # w => job'[x] = job[x]
PROOF
<1>1. job \in [Workers -> Jobs \cup {NoJob}]
  BY DEF IType, TypeOK
<1>2. job[w] = NoJob \/ ~Doing(w, "store")
  BY DEF Outside, Resolve, Unresolvable, SniffFails, ResolveGone, ResolveFails, Take,
         MarkError, MarkErrorFails, Extract, ExtractFails, Doing
<1>3. phase[w] = "idle"
  BY <1>2 DEF IType, TypeOK, Doing
<1>4. targets[w] = {} /\ deleted[w] = {}
  BY <1>3 DEF IType, TypeOK, StoreTypeOK
<1>5. ASSUME NEW s \in Sources, NEW j, Take(w, s, j)
      PROVE  /\ UNCHANGED knowledgeVars /\ shared' = shared /\ raced \subseteq raced'
             /\ \A x \in Workers : x # w => job'[x] = job[x]
  BY <1>1, <1>5 DEF Take
<1>6. ASSUME NEW s \in Sources, SniffFails(w, s)
      PROVE  UNCHANGED <<knowledgeVars, shared, raced, job>>
  BY <1>6 DEF SniffFails, jobVars
<1>7. ASSUME MarkError(w) \/ MarkErrorFails(w) \/ Extract(w) \/ ExtractFails(w)
      PROVE  /\ UNCHANGED <<knowledgeVars, shared, raced>>
             /\ \A x \in Workers : x # w => job'[x] = job[x]
  <2>1. /\ UNCHANGED <<knowledgeVars, shared, raced>>
        /\ \E j : job' = [job EXCEPT ![w] = j]
    BY <1>7 DEF MarkError, MarkErrorFails, Extract, ExtractFails, Retry, EndJob
  <2> QED  BY <1>1, <2>1
<1> QED
  BY <1>3, <1>4, <1>5, <1>6, <1>7
  DEF Outside, Resolve, Unresolvable, ResolveGone, ResolveFails

LEMMA OwnStep ==
  ASSUME NEW s \in Sources, OwnDocument(s), NEW w \in Workers, shared \subseteq shared',
         \A x \in Workers : x # w =>
           job'[x] = job[x] /\ targets'[x] = targets[x] /\ deleted'[x] = deleted[x],
         s \notin shared' =>
           /\ s \in deleted'[w] \/ (\E r \in targets'[w] : r.doc = s) =>
                job'[w] # NoJob /\ job'[w].source = s
           /\ job'[w] # NoJob /\ job'[w].source = s =>
                deleted'[w] \subseteq {s} /\ \A r \in targets'[w] : r.doc = s
  PROVE  OwnDocument(s)'
BY DEF OwnDocument

LEMMA OwnBegin ==
  ASSUME IType, NEW s \in Sources, OwnDocument(s), NEW w \in Workers, BeginStore(w)
  PROVE  OwnDocument(s)'
PROOF
<1> DEFINE t      == job[w].source
           chosen == SourceDocuments(tenant[t], job[w].file)
           rest   == {[doc |-> d, born |-> docs[d].born] : d \in chosen}
           new    == [doc |-> t, source |-> job[w].file, content |-> job[w].content,
                      chunked |-> TRUE, run |-> runs + 1]
<1>1. /\ Begin(w, chosen, new) /\ job' = job /\ job[w] # NoJob
      /\ shared' = IF chosen \ {t} = {} THEN shared ELSE shared \cup (chosen \ {t}) \cup {t}
  BY DEF BeginStore, ReplaceSource, Doing
<1>2. /\ phase[w] = "idle" /\ deleted' = deleted
      /\ targets' = [targets EXCEPT ![w] = rest]
  BY <1>1 DEF Begin
<1>3. /\ targets'[w] = rest /\ deleted'[w] = {}
      /\ \A x \in Workers : x # w => targets'[x] = targets[x] /\ deleted'[x] = deleted[x]
  BY <1>2 DEF IType, TypeOK, StoreTypeOK
<1>4. \A r \in targets'[w] : r.doc \in chosen
  BY <1>3
<1> HIDE DEF chosen, rest, new
<1>5. s \notin shared' =>
        /\ s \in deleted'[w] \/ (\E r \in targets'[w] : r.doc = s) =>
             job'[w] # NoJob /\ job'[w].source = s
        /\ job'[w] # NoJob /\ job'[w].source = s =>
             deleted'[w] \subseteq {s} /\ \A r \in targets'[w] : r.doc = s
  BY <1>1, <1>3, <1>4
<1>6. shared \subseteq shared'
  BY <1>1
<1> QED  BY <1>1, <1>3, <1>5, <1>6, OwnStep

LEMMA OwnProceed ==
  ASSUME IType, NEW s \in Sources, OwnDocument(s), NEW w \in Workers, StoreStep(w)
  PROVE  OwnDocument(s)'
PROOF
<1>1. UNCHANGED <<job, shared>>
  BY DEF StoreStep, jobVars
<1>2. CASE DeleteRow(w)
  <2>1. PICK r \in targets[w] :
          /\ targets' = [targets EXCEPT ![w] = @ \ {r}]
          /\ deleted' = [deleted EXCEPT ![w] =
               IF docs[r.doc] # NoDoc /\ docs[r.doc].born = r.born
               THEN @ \cup {r.doc} ELSE @]
    BY <1>2 DEF DeleteRow
  <2>2. /\ targets'[w] \subseteq targets[w] /\ deleted'[w] \subseteq deleted[w] \cup {r.doc}
        /\ \A x \in Workers : x # w => targets'[x] = targets[x] /\ deleted'[x] = deleted[x]
    BY <2>1 DEF IType, TypeOK, StoreTypeOK
  <2>3. s \notin shared =>
          /\ s \in deleted'[w] \/ (\E q \in targets'[w] : q.doc = s) =>
               job[w] # NoJob /\ job[w].source = s
          /\ job[w] # NoJob /\ job[w].source = s =>
               deleted'[w] \subseteq {s} /\ \A q \in targets'[w] : q.doc = s
    BY <2>1, <2>2 DEF OwnDocument
  <2> QED  BY <1>1, <2>2, <2>3, OwnStep
<1>3. CASE InsertDocument(w) \/ StoreChunks(w)
  <2>1. UNCHANGED <<targets, deleted>>
    BY <1>3 DEF InsertDocument, StoreChunks
  <2> QED  BY <1>1, <2>1 DEF OwnDocument
<1> QED  BY <1>2, <1>3 DEF StoreStep

LEMMA OwnEnd ==
  ASSUME IType, NEW s \in Sources, OwnDocument(s), NEW w \in Workers, EndTx(w), EndJob(w)
  PROVE  OwnDocument(s)'
PROOF
<1>1. shared' = shared /\ \A x \in Workers : x # w => job'[x] = job[x]
  BY DEF EndJob, IType, TypeOK
<1>2. /\ targets'[w] = {} /\ deleted'[w] = {}
      /\ \A x \in Workers : x # w => targets'[x] = targets[x] /\ deleted'[x] = deleted[x]
  BY EndTyped
<1> QED  BY <1>1, <1>2, OwnStep

LEMMA OwnKept ==
  ASSUME IType, NEW s \in Sources, OwnDocument(s), NEW w \in Workers, Work(w)
  PROVE  OwnDocument(s)'
PROOF
<1>1. CASE Outside(w)
  <2>1. /\ UNCHANGED <<targets, deleted>> /\ shared' = shared
        /\ targets[w] = {} /\ deleted[w] = {}
        /\ \A x \in Workers : x # w => job'[x] = job[x]
    BY <1>1, OutsideFrame DEF knowledgeVars
  <2> QED  BY <2>1, OwnStep
<1>2. CASE FinishStore(w) \/ StoreFails(w)
  <2>1. EndTx(w) /\ EndJob(w)
    BY <1>2 DEF FinishStore, StoreFails, Commit, TxFails, Victim, Retry
  <2> QED  BY <2>1, OwnEnd
<1> QED  BY <1>1, <1>2, OwnBegin, OwnProceed DEF Work, Outside


\* A worker alone on a source that shares its file name with none waits for no
\* other: its transaction is not aborted for a deadlock.
LEMMA NeverVictim ==
  ASSUME IType, NEW s \in Sources, s \notin raced \cup shared, AloneAhead(s),
         OwnDocument(s), NEW w \in Workers, job[w] # NoJob, job[w].source = s
  PROVE  ~Deadlocked(w)
PROOF
<1> SUFFICES ASSUME NEW z \in Workers, WaitsFor(w, z) PROVE FALSE
  BY DEF Deadlocked
<1>1. z # w /\ Needs(w) \cap Locks(z) # {}
  BY DEF WaitsFor
<1>2. Needs(w) \subseteq {s}
  <2>1. CASE targets[w] # {}
    BY <2>1 DEF Needs, OwnDocument
  <2>2. CASE targets[w] = {} /\ phase[w] = "replace"
    BY <2>2 DEF Needs, IType, TypeOK
  <2> QED  BY <2>1, <2>2 DEF Needs
<1>3. s \in Locks(z)
  BY <1>1, <1>2
<1>4. job[z] # NoJob /\ job[z].source = s
  <2>1. CASE s \in deleted[z]
    BY <2>1 DEF OwnDocument
  <2>2. CASE s \notin deleted[z]
    BY <1>3, <2>2 DEF Locks, IType, TypeOK
  <2> QED  BY <2>1, <2>2
<1> QED  BY <1>1, <1>4 DEF AloneAhead



\* What stands for the bytes of a source stays, unless a step touches it.
LEMMA SyncedStays ==
  ASSUME NEW s \in Sources, Synced(s),
         s \in fresh' => s \in fresh /\ rows'[s].file = rows[s].file,
         raced \subseteq raced', shared \subseteq shared',
         faults' = 0 => faults = 0 /\ object'[s] = object[s],
         pending[s] > 0 => pending'[s] > 0,
         docs'[s] = docs[s],
         \A w \in Workers : Carries(w, s) => job'[w] = job[w]
  PROVE  Synced(s)'
BY DEF Synced, Carries

\* The bytes a worker alone on the source commits are those of the object.
LEMMA SyncedCommit ==
  ASSUME SyncInv, NEW s \in Sources, NEW w \in Workers, FinishStore(w)
  PROVE  Synced(s)'
PROOF
<1>0. /\ IType /\ Synced(s) /\ OwnDocument(s) /\ NewestKept(s) /\ AloneAhead(s)
      /\ SourcesTypeOK
  BY DEF SyncInv, PipelineInv, AgesInv, IType, TypeOK
<1>1. /\ phase[w] # "idle" /\ Commit(w)
      /\ UNCHANGED <<rows, object, pending, fresh, raced, shared, faults>>
      /\ job' = [job EXCEPT ![w] = NoJob]
  BY DEF FinishStore, Commit, EndJob, sourceVars
<1>2. /\ Doing(w, "store") /\ job[w].source \in Sources
      /\ \A x \in Workers : x # w => job'[x] = job[x]
  BY <1>0, <1>1, JobType DEF Doing, IType, TypeOK
<1>3. /\ docs'[job[w].source] # NoDoc /\ docs'[job[w].source].content = job[w].content
      /\ \A d \in Sources : d # job[w].source =>
           docs'[d] = IF d \in deleted[w] THEN NoDoc ELSE docs[d]
  BY <1>0, <1>1, CommitDocs
<1> SUFFICES ASSUME s \in fresh \ (raced \cup shared), faults = 0,
                    rows[s].file \notin Unsupported
             PROVE  Synced(s)'
  BY <1>1 DEF Synced
<1>4. CASE job[w].source = s
  <2>1. object[s] # 0
    BY <1>0, FreshObject DEF SyncInv
  <2>2. job[w].content <= object[s]
    BY <1>0, <1>2, <1>4, <2>1 DEF NewestKept
  <2>3. CASE pending[s] > 0
    BY <1>1, <2>3 DEF Synced
  <2>4. CASE \E x \in Workers : Carries(x, s)
    <3>1. Carries(w, s)
      BY <1>0, <1>2, <1>4, <2>4 DEF Carries, AloneAhead, Doing
    <3>2. job[w].content = object[s]
      BY <1>2, <3>1 DEF Carries, Doing
    <3> QED  BY <1>1, <1>3, <1>4, <3>2 DEF Synced
  <2>5. CASE docs[s] # NoDoc /\ docs[s].content = object[s]
    <3>1. docs[s].content <= job[w].content
      BY <1>0, <1>2, <1>4, <2>5 DEF AloneAhead
    <3>2. job[w].content \in Nat /\ object[s] \in Nat
      BY <1>0, <1>2, Versions DEF Doing
    <3>3. job[w].content = object[s]
      BY <2>2, <2>5, <3>1, <3>2
    <3> QED  BY <1>1, <1>3, <1>4, <3>3 DEF Synced
  <2> QED  BY <1>0, <2>3, <2>4, <2>5 DEF Synced
<1>5. CASE job[w].source # s
  <2>1. s \notin deleted[w]
    BY <1>0, <1>5 DEF OwnDocument
  <2>2. docs'[s] = docs[s]
    BY <1>3, <1>5, <2>1
  <2>3. \A x \in Workers : Carries(x, s) => job'[x] = job[x]
    BY <1>2, <1>5 DEF Carries
  <2> QED  BY <1>0, <1>1, <2>2, <2>3, SyncedStays
<1> QED  BY <1>4, <1>5

\* A worker that takes a task of the source will read its object; one on
\* another source does not matter.
LEMMA SyncedTake ==
  ASSUME SyncInv, NEW s \in Sources, NEW w \in Workers, NEW t \in Sources,
         \/ Resolve(w, t) \/ Unresolvable(w, t) \/ SniffFails(w, t)
         \/ ResolveGone(w, t) \/ ResolveFails(w, t)
  PROVE  Synced(s)'
PROOF
<1>0. IType /\ Synced(s) /\ FreshKept(s) /\ job \in [Workers -> Jobs \cup {NoJob}]
      /\ SourcesTypeOK
  BY DEF SyncInv, PipelineInv, IType, TypeOK
<1>1. /\ job[w] = NoJob /\ UNCHANGED <<rows, object, fresh>> /\ docs' = docs
      /\ raced \subseteq raced' /\ shared' = shared
      /\ pending' = [pending EXCEPT ![t] = @ - 1]
      /\ \A x \in Workers : x # w => job'[x] = job[x]
      /\ faults' = 0 => faults = 0
  <2>1. /\ job[w] = NoJob /\ UNCHANGED <<rows, object, fresh>>
        /\ pending' = [pending EXCEPT ![t] = @ - 1]
    BY DEF Resolve, Unresolvable, SniffFails, ResolveGone, ResolveFails, Take, accountVars
  <2>2. Outside(w) /\ Work(w)
    BY DEF Outside, Work
  <2> QED  BY <1>0, <2>1, <2>2, OutsideFrame, WorkFrame DEF knowledgeVars
<1>2. CASE s # t
  <2>1. pending'[s] = pending[s]
    BY <1>0, <1>1, <1>2 DEF SourcesTypeOK
  <2>2. \A x \in Workers : Carries(x, s) => job'[x] = job[x]
    BY <1>1 DEF Carries
  <2> QED  BY <1>0, <1>1, <2>1, <2>2, SyncedStays
<1>3. CASE s = t
  <2> SUFFICES ASSUME s \in fresh, faults' = 0, rows[s].file \notin Unsupported
               PROVE  Synced(s)'
    BY <1>1 DEF Synced
  <2>1. Exists(s) /\ rows[s].key /\ ~SourceFault
    BY <1>0 DEF FreshKept, SourceFault, SourcesTypeOK
  <2>2. Resolve(w, s)
    BY <1>3, <2>1 DEF Unresolvable, SniffFails, ResolveGone, ResolveFails
  <2>3. job'[w] = JobOf(s, "extract", rows[s].file)
    BY <1>0, <2>2 DEF Resolve, Take
  <2>4. /\ job'[w].source = s /\ job'[w].step = "extract"
        /\ job'[w] # NoJob
    <3>1. JobOf(s, "extract", rows[s].file) \in Jobs
      BY <1>0, <2>1, ExistingRow, Bounds DEF JobOf, Jobs, Row
    <3> QED  BY <2>3, <3>1, NoJobAssumption DEF JobOf
  <2> QED  BY <2>4 DEF Synced, Carries
<1> QED  BY <1>2, <1>3

LEMMA SyncedWork ==
  ASSUME SyncInv, NEW s \in Sources, NEW w \in Workers, Work(w)
  PROVE  Synced(s)'
PROOF
<1>0. /\ IType /\ Synced(s) /\ OwnDocument(s) /\ AloneAhead(s) /\ SourcesTypeOK
      /\ job \in [Workers -> Jobs \cup {NoJob}]
  BY DEF SyncInv, PipelineInv, AgesInv, IType, TypeOK
<1>f. SourceFault => faults' # 0
  BY <1>0, FaultType, Bounds DEF SourcesTypeOK
<1>1. ASSUME NEW t \in Sources,
             \/ Resolve(w, t) \/ Unresolvable(w, t) \/ SniffFails(w, t)
             \/ ResolveGone(w, t) \/ ResolveFails(w, t)
      PROVE  Synced(s)'
  BY <1>1, SyncedTake
<1>2. CASE MarkError(w) \/ MarkErrorFails(w)
  <2> DEFINE t == job[w].source
  <2>1. /\ UNCHANGED <<object, pending, docs, raced, shared, fresh>>
        /\ Doing(w, "mark") /\ job' = [job EXCEPT ![w] = NoJob]
        /\ faults' = 0 => faults = 0
        /\ rows' = rows \/ rows' = IF Exists(t) THEN [rows EXCEPT ![t].status = "error"]
                                   ELSE rows
    BY <1>f, <1>2 DEF MarkError, MarkErrorFails, EndJob, sourceVars, knowledgeVars
  <2>2. \A x \in Workers : Carries(x, s) => job'[x] = job[x]
    BY <1>0, <2>1 DEF Carries, Doing
  <2>3. s \in fresh => rows'[s].file = rows[s].file
    <3>1. t \in Sources
      BY <1>0, <2>1, JobType DEF Doing, IType
    <3>2. s \in fresh => Exists(s)
      BY DEF SyncInv, FreshKept
    <3> QED  BY <1>0, <2>1, <3>1, <3>2, RowStatus
  <2> QED  BY <1>0, <2>1, <2>2, <2>3, SyncedStays
<1>3. CASE Extract(w)
  <2> DEFINE t == job[w].source
             more == [job[w] EXCEPT !.step = "store", !.content = object[t]]
  <2>1. /\ UNCHANGED <<rows, object, pending, docs, raced, shared, fresh, faults>>
        /\ Doing(w, "extract") /\ job' = [job EXCEPT ![w] = more]
    BY <1>3 DEF Extract, sourceVars, accountVars, knowledgeVars
  <2>2. job[w] \in Jobs /\ more \in Jobs /\ more.source = t /\ more.step = "store"
        /\ more.content = object[t]
    <3>1. job[w] \in Jobs /\ t \in Sources
      BY <1>0, <2>1, JobType DEF Doing, IType
    <3>2. object[t] \in 0 .. MaxUploads
      BY <1>0, <3>1 DEF SourcesTypeOK
    <3> QED  BY <3>1, <3>2 DEF Jobs
  <2> HIDE DEF more
  <2>3. job'[w] = more /\ more # NoJob /\ \A x \in Workers : x # w => job'[x] = job[x]
    BY <1>0, <2>1, <2>2, NoJobAssumption
  <2>4. CASE t = s
    <3>1. Carries(w, s)'
      BY <2>1, <2>2, <2>3, <2>4 DEF Carries
    <3> QED  BY <3>1 DEF Synced
  <2>5. CASE t # s
    <3>1. \A x \in Workers : Carries(x, s) => job'[x] = job[x]
      BY <2>3, <2>5 DEF Carries
    <3> QED  BY <1>0, <2>1, <3>1, SyncedStays
  <2> QED  BY <2>4, <2>5
<1>4. ASSUME Retry(w), EndJob(w), job[w] # NoJob,
             UNCHANGED <<rows, object, docs, raced, shared, fresh>>,
             faults' = 0 => faults = 0,
             job[w].source = s /\ s \in fresh \ (raced \cup shared) => faults' # 0
      PROVE  Synced(s)'
  <2> DEFINE t == job[w].source
  <2>1. /\ t \in Sources /\ \A x \in Workers : x # w => job'[x] = job[x]
        /\ \E again \in {0, 1} : pending' = [pending EXCEPT ![t] = @ + again]
    BY <1>0, <1>4, JobType DEF Retry, EndJob, IType
  <2>2. CASE t = s
    BY <1>4, <2>2 DEF Synced
  <2>3. CASE t # s
    <3>1. pending'[s] = pending[s]
      BY <1>0, <2>1, <2>3 DEF SourcesTypeOK
    <3>2. \A x \in Workers : Carries(x, s) => job'[x] = job[x]
      BY <2>1, <2>3 DEF Carries
    <3> QED  BY <1>0, <1>4, <3>1, <3>2, SyncedStays
  <2> QED  BY <2>2, <2>3
<1>5. CASE ExtractFails(w)
  <2>1. /\ Retry(w) /\ EndJob(w) /\ job[w] # NoJob
        /\ UNCHANGED <<rows, object, docs, raced, shared, fresh>>
        /\ IF object[job[w].source] # 0 THEN SourceFault ELSE UNCHANGED faults
    BY <1>5 DEF ExtractFails, Retry, EndJob, Doing, knowledgeVars
  <2>2. faults' = 0 => faults = 0
    BY <1>f, <2>1
  <2>3. job[w].source = s /\ s \in fresh => faults' # 0
    BY <1>f, <2>1, FreshObject DEF SyncInv
  <2> QED  BY <1>4, <2>1, <2>2, <2>3
<1>6. CASE BeginStore(w) \/ StoreStep(w)
  <2>1. /\ UNCHANGED <<rows, object, pending, docs, raced, fresh, faults, job>>
        /\ shared \subseteq shared'
    BY <1>6 DEF BeginStore, StoreStep, ReplaceSource, Begin, DeleteRow, InsertDocument,
                StoreChunks, rowVars, sourceVars, accountVars, jobVars
  <2> QED  BY <1>0, <2>1, SyncedStays
<1>7. CASE FinishStore(w)
  BY <1>7, SyncedCommit
<1>8. CASE StoreFails(w)
  <2>1. /\ Retry(w) /\ EndJob(w)
        /\ UNCHANGED <<rows, object, docs, raced, shared, fresh>>
        /\ \/ Deadlocked(w) /\ faults' = faults
           \/ phase[w] # "idle" /\ faults' = faults + 1
    BY <1>8 DEF StoreFails, Retry, EndJob, TxFails, Victim, rowVars
  <2>2. job[w] # NoJob
    <3>1. phase[w] # "idle"
      BY <1>0, <2>1
      DEF Deadlocked, WaitsFor, Waits, Needs, IType, TypeOK, StoreTypeOK
    <3> QED  BY <1>0, <3>1 DEF IType, TypeOK
  <2>3. faults \in Nat
    BY <1>0, Bounds DEF SourcesTypeOK
  <2>4. faults' = 0 => faults = 0
    BY <2>1, <2>3
  <2>5. job[w].source = s /\ s \in fresh \ (raced \cup shared) => faults' # 0
    <3>1. job[w].source = s /\ s \notin raced \cup shared => ~Deadlocked(w)
      BY <1>0, <2>2, NeverVictim
    <3> QED  BY <2>1, <2>3, <3>1
  <2> QED  BY <1>4, <2>1, <2>2, <2>4, <2>5
<1> QED  BY <1>1, <1>2, <1>3, <1>5, <1>6, <1>7, <1>8 DEF Work



LEMMA SyncInvariant == Spec => []SyncInv
PROOF
<1>1. Init => \A s \in Sources : OwnDocument(s) /\ FreshKept(s) /\ Synced(s)
  <2> SUFFICES ASSUME Init, NEW s \in Sources
               PROVE  OwnDocument(s) /\ FreshKept(s) /\ Synced(s)
    OBVIOUS
  <2>1. /\ fresh = {} /\ \A w \in Workers : job[w] = NoJob /\ deleted[w] = {} /\ targets[w] = {}
    BY DEF Init, SourcesInit, StoreInit
  <2> QED  BY <2>1 DEF OwnDocument, FreshKept, Synced
<1>2. SyncInv /\ PipelineInv' /\ AgesInv' /\ [Next]_vars => SyncInv'
  <2> SUFFICES ASSUME SyncInv, [Next]_vars, NEW s \in Sources
               PROVE  OwnDocument(s)' /\ FreshKept(s)' /\ Synced(s)'
    BY DEF SyncInv
  <2>0. /\ PipelineInv /\ OwnDocument(s) /\ FreshKept(s) /\ Synced(s) /\ IType
        /\ SourcesTypeOK
    BY DEF SyncInv, PipelineInv, IType, TypeOK
  <2>1. ASSUME NEW c \in Clients, Serve(c), UNCHANGED <<knowledgeVars, jobVars>>
        PROVE  OwnDocument(s)' /\ FreshKept(s)' /\ Synced(s)'
    <3>1. UNCHANGED <<docs, targets, deleted, job, raced, shared>>
      BY <2>1 DEF knowledgeVars, jobVars
    <3>2. OwnDocument(s)'
      BY <2>0, <3>1 DEF OwnDocument
    <3>3. FreshKept(s)'
      BY <2>0, <2>1, ServeFresh DEF FreshKept
    <3>4. s \in fresh' =>
            \/ pending'[s] > 0
            \/ /\ s \in fresh /\ rows'[s].file = rows[s].file /\ pending'[s] = pending[s]
               /\ faults' = 0 => faults = 0 /\ object'[s] = object[s]
      BY <2>0, <2>1, ServeFresh
    <3>5. ASSUME s \in fresh', pending'[s] > 0 PROVE Synced(s)'
      BY <3>5 DEF Synced
    <3>6. ASSUME s \in fresh', ~(pending'[s] > 0) PROVE Synced(s)'
      BY <2>0, <3>1, <3>4, <3>6, SyncedStays
    <3>7. ASSUME s \notin fresh' PROVE Synced(s)'
      BY <3>7 DEF Synced
    <3> QED  BY <3>2, <3>3, <3>5, <3>6, <3>7
  <2>2. ASSUME NEW w \in Workers, Work(w)
        PROVE  OwnDocument(s)' /\ FreshKept(s)' /\ Synced(s)'
    <3>1. OwnDocument(s)' /\ Synced(s)'
      BY <2>0, <2>2, OwnKept, SyncedWork
    <3>2. fresh' = fresh
      BY <2>2
      DEF Work, Resolve, Unresolvable, SniffFails, ResolveGone, ResolveFails, Take,
          MarkError, MarkErrorFails, Extract, ExtractFails, BeginStore, StoreStep,
          FinishStore, StoreFails, accountVars
    <3>3. rows' = rows \/ MarkError(w)
      BY <2>0, <2>2, WorkFrame
    <3>4. ASSUME rows' = rows PROVE FreshKept(s)'
      BY <2>0, <3>2, <3>4 DEF FreshKept, Exists
    <3>5. ASSUME MarkError(w), rows' # rows PROVE FreshKept(s)'
      <4> DEFINE t == job[w].source
      <4>1. /\ Exists(t) /\ rows' = [rows EXCEPT ![t].status = "error"]
            /\ t \in Sources
        BY <2>0, <3>5, JobType DEF MarkError, Doing, IType
      <4> QED  BY <2>0, <3>2, <4>1, RowStatus DEF FreshKept
    <3> QED  BY <3>1, <3>3, <3>4, <3>5
  <2>3. CASE UNCHANGED vars
    <3>1. UNCHANGED <<rows, object, pending, fresh, faults, docs, targets, deleted, job,
                      raced, shared>>
      BY <2>3 DEF vars, sourceVars, accountVars, knowledgeVars, jobVars
    <3> QED
      BY <2>0, <3>1, SyncedStays DEF OwnDocument, FreshKept, Exists
  <2> QED  BY <2>1, <2>2, <2>3 DEF Next
<1> QED  BY <1>1, <1>2, PipelineInvariant, AgesInvariant, PTL DEF Spec, SyncInv

\* A sync that found the upload complete and was worked off without a failure
\* leaves the last upload's bytes in the knowledge base, for any number of
\* workers, sources and requests, unless two workers were on the source at once
\* or it shares its file name with another source of its tenant: no other order
\* of requests, ingests and transactions loses an upload.
THEOREM SyncedUploadsStored == Spec => []SyncedContentStored
PROOF
<1>1. SyncInv => SyncedContentStored
  <2> SUFFICES ASSUME SyncInv, NEW s \in Sources, s \in fresh \ (raced \cup shared),
                      faults = 0, rows[s].file \notin Unsupported, pending[s] = 0,
                      \A w \in Workers : job[w] # NoJob => job[w].source # s
               PROVE  docs[s] # NoDoc /\ docs[s].content = object[s]
    BY DEF SyncedContentStored
  <2> QED  BY DEF SyncInv, Synced, Carries
<1> QED  BY <1>1, SyncInvariant, PTL
=============================================================================
