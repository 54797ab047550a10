------------------------------- MODULE Sources -------------------------------
(***************************************************************************)
(* The sources service (internal/sources/service.go): a row per source in  *)
(* data_source_configs, and at most one object per source in the object    *)
(* store, always under the key sources/<id>/file.  Requests run at once,   *)
(* in several server processes; every call to Postgres, to the object      *)
(* store and to the queue is a step of its own, and what a request read    *)
(* before is what it writes back later.                                    *)
(*                                                                         *)
(* Only file uploads are modelled: no other type of source can be ingested *)
(* (internal/ingestion/connector.go).  Names and credentials are left out. *)
(***************************************************************************)
EXTENDS Naturals, FiniteSets

CONSTANTS
  Sources,     \* ids of sources, never used twice
  FileNames,   \* names of uploaded files
  Clients,     \* who sends requests
  MaxRequests, \* bound on requests
  MaxUploads,  \* bound on objects put
  MaxFaults,   \* bound on failed calls and crashes
  Absent,      \* the row of a source that is not created yet
  Deleted,     \* the row of a source that was deleted
  NoRequest

ASSUME SourceRowsAssumption ==
  /\ Absent # Deleted
  /\ {Absent, Deleted} \cap [file : FileNames, key : BOOLEAN,
                             status : {"inactive", "active", "error"}] = {}
ASSUME RequestsAssumption ==
  {MaxRequests, MaxUploads, MaxFaults} \subseteq Nat

VARIABLES
  rows,      \* data_source_configs: filename and object_key of config, status
  object,    \* the version of the source's object; 0 is none
  pending,   \* ingestion tasks of each source that wait in the queue
  request,   \* the request each client waits for
  uploads,   \* versions put so far
  asked,     \* requests so far
  contended, \* history: sources two writing requests were in progress for
  emptied,   \* history: sources updated with an empty file
  fresh,     \* history: sources synced since their last change
  unseen,    \* history: sources that failed to resolve since the last request
  faults

sourceVars  == <<rows, object, pending, request, uploads, asked>>
accountVars == <<contended, emptied, fresh, unseen, faults>>

Row == [file : FileNames, key : BOOLEAN, status : {"inactive", "active", "error"}]

Requests ==
  [op : {"create", "update", "rename", "delete", "sync"},
   step : {"write", "put", "record", "cleanup", "delete", "remove", "enqueue",
           "status"},
   source : Sources, row : Row, file : FileNames, upload : BOOLEAN]

ASSUME NoRequestAssumption == NoRequest \notin Requests

SourcesTypeOK ==
  /\ rows \in [Sources -> Row \cup {Absent, Deleted}]
  /\ object \in [Sources -> 0 .. MaxUploads]
  /\ pending \in [Sources -> Nat]
  /\ request \in [Clients -> Requests \cup {NoRequest}]
  /\ uploads \in 0 .. MaxUploads
  /\ asked \in 0 .. MaxRequests
  /\ contended \subseteq Sources
  /\ emptied \subseteq Sources
  /\ fresh \subseteq Sources
  /\ unseen \subseteq Sources
  /\ faults \in 0 .. MaxFaults

SourcesInit ==
  /\ rows = [s \in Sources |-> Absent]
  /\ object = [s \in Sources |-> 0]
  /\ pending = [s \in Sources |-> 0]
  /\ request = [c \in Clients |-> NoRequest]
  /\ uploads = 0
  /\ asked = 0
  /\ contended = {}
  /\ emptied = {}
  /\ fresh = {}
  /\ unseen = {}
  /\ faults = 0

Exists(s) == rows[s] \notin {Absent, Deleted}

SourceFault == faults < MaxFaults /\ faults' = faults + 1

InProgress(s) == {c \in Clients : request[c] # NoRequest /\ request[c].source = s}

Uploading(s) == {c \in InProgress(s) : request[c].op \in {"create", "update"}}

\* The client c is at this step of its request.
At(c, step) == request[c] # NoRequest /\ request[c].step = step

Done(c) == request' = [request EXCEPT ![c] = NoRequest]

GoTo(c, step) == request' = [request EXCEPT ![c].step = step]

\* A request arrives; the user has seen the state of the source.
Arrives(c, op, s) ==
  /\ request[c] = NoRequest
  /\ asked < MaxRequests
  /\ asked' = asked + 1
  /\ unseen' = unseen \ {s}
  /\ contended' = IF op # "sync" /\ \E x \in InProgress(s) : request[x].op # "sync"
                  THEN contended \cup {s} ELSE contended

(***************************************************************************)
(* Create and Update.                                                      *)
(***************************************************************************)

\* Mutant of Create: the row refers to the object before it is there.
CreateWithKey(c, s, file, upload) ==
  LET row == [file |-> file, key |-> upload, status |-> "inactive"] IN
  /\ rows[s] = Absent
  /\ Arrives(c, "create", s)
  /\ rows' = [rows EXCEPT ![s] = row]
  /\ request' = [request EXCEPT ![c] =
       IF upload
       THEN [op |-> "create", step |-> "put", source |-> s, row |-> row,
             file |-> file, upload |-> TRUE]
       ELSE NoRequest]
  /\ UNCHANGED <<object, pending, uploads, emptied, fresh, faults>>

\* INSERT; without bytes, as from the JSON interface, nothing is uploaded.
Create(c, s, file, upload) ==
  LET row == [file |-> file, key |-> FALSE, status |-> "inactive"] IN
  /\ rows[s] = Absent
  /\ Arrives(c, "create", s)
  /\ rows' = [rows EXCEPT ![s] = row]
  /\ request' = [request EXCEPT ![c] =
       IF upload
       THEN [op |-> "create", step |-> "put", source |-> s, row |-> row,
             file |-> file, upload |-> TRUE]
       ELSE NoRequest]
  /\ UNCHANGED <<object, pending, uploads, emptied, fresh, faults>>

\* GetByID: the row is read, and kept, for what comes later.
Read(c, op, step, s, file, upload) ==
  /\ Exists(s)
  /\ Arrives(c, op, s)
  /\ request' = [request EXCEPT ![c] =
       [op |-> op, step |-> step, source |-> s, row |-> rows[s], file |-> file,
        upload |-> upload]]
  /\ UNCHANGED <<rows, object, pending, uploads, emptied, fresh, faults>>

\* Update with a file from the form, and without one from the JSON interface.
BeginUpdate(c, s, file, upload) == Read(c, "update", "write", s, file, upload)
BeginRename(c, s) == Read(c, "rename", "write", s, rows[s].file, FALSE)

\* The form's config has no object_key; without a config the one read before
\* is written back.  The status is the one read before.
Updated(r) ==
  IF r.op = "update" THEN [r.row EXCEPT !.file = r.file, !.key = FALSE] ELSE r.row

\* UPDATE; it fails when the row is gone.
WriteSource(c) ==
  LET r == request[c]
      s == r.source
  IN  /\ At(c, "write")
      /\ IF Exists(s)
         THEN /\ rows' = [rows EXCEPT ![s] = Updated(r)]
              /\ fresh' = fresh \ {s}
              /\ emptied' = IF r.op = "update" /\ ~r.upload THEN emptied \cup {s}
                            ELSE emptied
         ELSE UNCHANGED <<rows, fresh, emptied>>
      /\ request' = [request EXCEPT ![c] =
           IF Exists(s) /\ r.upload THEN [r EXCEPT !.step = "put", !.row = Updated(r)]
           ELSE NoRequest]
      /\ UNCHANGED <<object, pending, uploads, asked, contended, unseen, faults>>

\* storeFile: Put replaces the object there is.
PutObject(c) ==
  LET s == request[c].source IN
  /\ At(c, "put")
  /\ uploads < MaxUploads
  /\ uploads' = uploads + 1
  /\ object' = [object EXCEPT ![s] = uploads + 1]
  /\ fresh' = fresh \ {s}
  /\ GoTo(c, "record")
  /\ UNCHANGED <<rows, pending, asked, contended, emptied, unseen, faults>>

\* storeFile: UPDATE with the object key and everything else as it was.
RecordKey(c) ==
  LET s == request[c].source IN
  /\ At(c, "record")
  /\ Exists(s)
  /\ rows' = [rows EXCEPT ![s] = [request[c].row EXCEPT !.key = TRUE]]
  /\ fresh' = fresh \ {s}
  /\ Done(c)
  /\ UNCHANGED <<object, pending, uploads, asked, contended, emptied, unseen, faults>>

\* The row is gone, or the UPDATE fails.
RecordFails(c) ==
  /\ At(c, "record")
  /\ IF Exists(request[c].source) THEN SourceFault ELSE UNCHANGED faults
  /\ GoTo(c, "cleanup")
  /\ UNCHANGED <<rows, object, pending, uploads, asked, contended, emptied, fresh,
                 unseen>>

\* The object is deleted, whoever has put it.
Cleanup(c) ==
  /\ At(c, "cleanup")
  /\ object' = [object EXCEPT ![request[c].source] = 0]
  /\ Done(c)
  /\ UNCHANGED <<rows, pending, uploads, asked, contended, emptied, fresh, unseen,
                 faults>>

(***************************************************************************)
(* Delete.                                                                 *)
(***************************************************************************)

BeginDelete(c, s) == Read(c, "delete", "delete", s, rows[s].file, FALSE)

\* DELETE, which succeeds without a row; then the object, if the row that was
\* read had a key.
DeleteSource(c) ==
  LET s == request[c].source IN
  /\ At(c, "delete")
  /\ rows' = [rows EXCEPT ![s] = Deleted]
  /\ fresh' = fresh \ {s}
  /\ IF request[c].row.key THEN GoTo(c, "remove") ELSE Done(c)
  /\ UNCHANGED <<object, pending, uploads, asked, contended, emptied, unseen, faults>>

\* Mutant of RemoveObject: the object is left behind.
RemoveNothing(c) ==
  /\ At(c, "remove")
  /\ Done(c)
  /\ UNCHANGED <<rows, object, pending, uploads, asked, contended, emptied, fresh,
                 unseen, faults>>

RemoveObject(c) ==
  /\ At(c, "remove")
  /\ object' = [object EXCEPT ![request[c].source] = 0]
  /\ Done(c)
  /\ UNCHANGED <<rows, pending, uploads, asked, contended, emptied, fresh, unseen,
                 faults>>

(***************************************************************************)
(* Sync.                                                                   *)
(***************************************************************************)

BeginSync(c, s) == Read(c, "sync", "enqueue", s, rows[s].file, FALSE)

EnqueueSync(c) ==
  LET s == request[c].source IN
  /\ At(c, "enqueue")
  /\ pending' = [pending EXCEPT ![s] = @ + 1]
  /\ fresh' = IF Exists(s) /\ rows[s].key /\ Uploading(s) = {}
              THEN fresh \cup {s} ELSE fresh
  /\ GoTo(c, "status")
  /\ UNCHANGED <<rows, object, uploads, asked, contended, emptied, unseen, faults>>

\* UpdateSyncStatus, after the task is in the queue.
MarkSynced(c) ==
  LET s == request[c].source IN
  /\ At(c, "status")
  /\ rows' = IF Exists(s) THEN [rows EXCEPT ![s].status = "active"] ELSE rows
  /\ Done(c)
  /\ UNCHANGED <<object, pending, uploads, asked, contended, emptied, fresh, unseen,
                 faults>>

\* A call fails and the request returns its error, or the server dies.
RequestFails(c) ==
  /\ request[c] # NoRequest
  /\ SourceFault
  /\ Done(c)
  /\ UNCHANGED <<rows, object, pending, uploads, asked, contended, emptied, fresh,
                 unseen>>

Serve(c) ==
  \/ \E s \in Sources :
       \/ \E file \in FileNames, upload \in BOOLEAN :
            Create(c, s, file, upload) \/ BeginUpdate(c, s, file, upload)
       \/ BeginRename(c, s) \/ BeginDelete(c, s) \/ BeginSync(c, s)
  \/ WriteSource(c) \/ PutObject(c) \/ RecordKey(c) \/ RecordFails(c) \/ Cleanup(c)
  \/ DeleteSource(c) \/ RemoveObject(c)
  \/ EnqueueSync(c) \/ MarkSynced(c)
  \/ RequestFails(c)
=============================================================================
