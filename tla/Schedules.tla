----------------------------- MODULE Schedules -----------------------------
(***************************************************************************)
(* Report schedules (internal/scheduling, internal/web/schedules.go) and   *)
(* the schedulers that fire them (startScheduler of internal/worker).      *)
(*                                                                         *)
(* The table is edited by requests; a worker reads it once, when it        *)
(* starts, and fires what it read until it is stopped.  Web requests read  *)
(* the row before they write it, API requests write at once.  A cron       *)
(* expression is one of Crons: CronForm says how it is composed and read.  *)
(***************************************************************************)
EXTENDS Naturals, FiniteSets

CONSTANTS
  ScheduleIds,     \* ids, never used twice
  Owners,          \* tenants
  Types, Crons,
  Editors,         \* clients that send requests
  Schedulers,      \* worker processes
  MaxEdits,        \* bound on requests
  MaxStarts,       \* bound on starts of a scheduler
  MaxFirings,      \* bound on firings
  ReportAttempts,  \* runs of a report task before it is archived
  NoSchedule,      \* the row of an id that is not used yet
  Dropped,         \* the row of a deleted schedule
  NoEdit

ASSUME AttemptsAssumption == ReportAttempts \in Nat \ {0}

VARIABLES
  schedules,   \* report_schedules
  edits,       \* the request each client waits for
  editsMade,
  registered,  \* the entries each scheduler registered
  scheduler,   \* "down", "loaded" or "running"
  starts,
  firings,     \* report tasks in the queue, with their failed runs
  fired,
  lost,        \* schedules of the tasks that were archived
  touched      \* history: rows changed since each scheduler read the table

scheduleVars  == <<schedules, edits, editsMade>>
schedulerVars == <<registered, scheduler, starts>>
firingVars    == <<firings, fired, lost>>
schedulesVars == <<scheduleVars, schedulerVars, firingVars, touched>>

ScheduleRecords ==
  [owner : Owners, type : Types, cron : Crons, enabled : BOOLEAN]

Entry == [id : ScheduleIds, owner : Owners, type : Types, cron : Crons]

Edit ==
  [op : {"update", "toggle", "delete"}, step : {"owned", "write"},
   owner : Owners, id : ScheduleIds, type : Types, cron : Crons]

ASSUME NamesAssumption ==
  /\ NoSchedule # Dropped
  /\ NoSchedule \notin ScheduleRecords /\ Dropped \notin ScheduleRecords
  /\ NoEdit \notin Edit

SchedulesTypeOK ==
  /\ schedules \in [ScheduleIds -> ScheduleRecords \cup {NoSchedule, Dropped}]
  /\ edits \in [Editors -> Edit \cup {NoEdit}]
  /\ registered \in [Schedulers -> SUBSET Entry]
  /\ scheduler \in [Schedulers -> {"down", "loaded", "running"}]
  /\ firings \subseteq [entry : Entry, number : Nat, failed : Nat]
  /\ touched \in [Schedulers -> SUBSET ScheduleIds]
  /\ lost \subseteq ScheduleIds
  /\ {editsMade, starts, fired} \subseteq Nat

SchedulesInit ==
  /\ schedules = [s \in ScheduleIds |-> NoSchedule]
  /\ edits = [c \in Editors |-> NoEdit]
  /\ registered = [w \in Schedulers |-> {}]
  /\ scheduler = [w \in Schedulers |-> "down"]
  /\ firings = {} /\ lost = {}
  /\ touched = [w \in Schedulers |-> {}]
  /\ editsMade = 0 /\ starts = 0 /\ fired = 0

-----------------------------------------------------------------------------
\* Statements of internal/db/schedules.sql.go.

HasRow(s) == schedules[s] \notin {NoSchedule, Dropped}

\* UNIQUE (tenant_id, type): no other row of the owner has the type.
TypeFree(s, owner, type) ==
  \A r \in ScheduleIds \ {s} :
    HasRow(r) => schedules[r].owner # owner \/ schedules[r].type # type

WriteRow(s, row) ==
  /\ schedules' = [schedules EXCEPT ![s] = row]
  /\ touched' = [w \in Schedulers |-> touched[w] \cup {s}]

InsertSchedule(s, owner, type, cron) ==
  WriteRow(s, [owner |-> owner, type |-> type, cron |-> cron, enabled |-> TRUE])

\* enabled is left as it is.
UpdateSchedule(s, type, cron) ==
  WriteRow(s, [schedules[s] EXCEPT !.type = type, !.cron = cron])

ToggleSchedule(s) == WriteRow(s, [schedules[s] EXCEPT !.enabled = ~ @])

DeleteSchedule(s) == WriteRow(s, Dropped)

ListAllEnabled ==
  {[id |-> s, owner |-> schedules[s].owner, type |-> schedules[s].type,
    cron |-> schedules[s].cron] :
     s \in {r \in ScheduleIds : HasRow(r) /\ schedules[r].enabled}}

-----------------------------------------------------------------------------
\* Create inserts without a read: a type the owner has already makes the
\* INSERT fail, and nothing changes.
Create ==
  \E s \in ScheduleIds, owner \in Owners, type \in Types, cron \in Crons :
    /\ editsMade < MaxEdits
    /\ editsMade' = editsMade + 1
    /\ schedules[s] = NoSchedule
    /\ TypeFree(s, owner, type)
    /\ InsertSchedule(s, owner, type, cron)
    /\ UNCHANGED <<edits, schedulerVars, firingVars>>

AnyType == CHOOSE t \in Types : TRUE

AnyCron == CHOOSE c \in Crons : TRUE

\* A web request starts with ownedSchedule, an API request with its write.
BeginEdit(c) ==
  \E e \in Edit :
    /\ edits[c] = NoEdit /\ editsMade < MaxEdits
    /\ schedules[e.id] # NoSchedule
    /\ e.op # "update" => e.type = AnyType /\ e.cron = AnyCron
    /\ edits' = [edits EXCEPT ![c] = e]
    /\ editsMade' = editsMade + 1
    /\ UNCHANGED <<schedules, schedulerVars, firingVars, touched>>

\* A row of another tenant and a missing row read the same.
OwnedSchedule(c) ==
  LET e == edits[c] IN
  /\ e # NoEdit /\ e.step = "owned"
  /\ edits' = [edits EXCEPT
                 ![c] = IF HasRow(e.id) /\ schedules[e.id].owner = e.owner
                        THEN [e EXCEPT !.step = "write"] ELSE NoEdit]
  /\ UNCHANGED <<schedules, editsMade, schedulerVars, firingVars, touched>>

EditOf(c, op) ==
  /\ edits[c] # NoEdit /\ edits[c].op = op /\ edits[c].step = "write"
  /\ edits' = [edits EXCEPT ![c] = NoEdit]
  /\ UNCHANGED <<editsMade, schedulerVars, firingVars>>

\* A missing row and a type the owner has already both end in
\* ErrScheduleNotFound.
Update(c) ==
  LET e == edits[c] IN
  /\ EditOf(c, "update")
  /\ IF HasRow(e.id) /\ TypeFree(e.id, schedules[e.id].owner, e.type)
     THEN UpdateSchedule(e.id, e.type, e.cron)
     ELSE UNCHANGED <<schedules, touched>>

Toggle(c) ==
  /\ EditOf(c, "toggle")
  /\ IF HasRow(edits[c].id) THEN ToggleSchedule(edits[c].id)
                            ELSE UNCHANGED <<schedules, touched>>

\* Deleting a schedule that is gone succeeds.
Delete(c) ==
  /\ EditOf(c, "delete")
  /\ IF HasRow(edits[c].id) THEN DeleteSchedule(edits[c].id)
                            ELSE UNCHANGED <<schedules, touched>>

-----------------------------------------------------------------------------
\* Mutant of LoadSchedules: disabled rows are registered too.
XLoadDisabled(w) ==
  /\ scheduler[w] = "down" /\ starts < MaxStarts
  /\ starts' = starts + 1
  /\ scheduler' = [scheduler EXCEPT ![w] = "loaded"]
  /\ registered' = [registered EXCEPT
       ![w] = {[id |-> s, owner |-> schedules[s].owner, type |-> schedules[s].type,
                cron |-> schedules[s].cron] : s \in {r \in ScheduleIds : HasRow(r)}}]
  /\ touched' = [touched EXCEPT ![w] = {}]
  /\ UNCHANGED <<scheduleVars, firingVars>>

\* startScheduler reads the table and registers an entry for each row.
LoadSchedules(w) ==
  /\ scheduler[w] = "down" /\ starts < MaxStarts
  /\ starts' = starts + 1
  /\ scheduler' = [scheduler EXCEPT ![w] = "loaded"]
  /\ registered' = [registered EXCEPT ![w] = ListAllEnabled]
  /\ touched' = [touched EXCEPT ![w] = {}]
  /\ UNCHANGED <<scheduleVars, firingVars>>

StartScheduler(w) ==
  /\ scheduler[w] = "loaded"
  /\ scheduler' = [scheduler EXCEPT ![w] = "running"]
  /\ UNCHANGED <<scheduleVars, registered, starts, firingVars, touched>>

\* Worker.Close, or the death of the process.
StopScheduler(w) ==
  /\ scheduler[w] # "down"
  /\ scheduler' = [scheduler EXCEPT ![w] = "down"]
  /\ registered' = [registered EXCEPT ![w] = {}]
  /\ UNCHANGED <<scheduleVars, starts, firingVars, touched>>

\* Every running scheduler fires its own copy: no task id makes them one.
Fire(w) ==
  \E entry \in registered[w] :
    /\ scheduler[w] = "running" /\ fired < MaxFirings
    /\ fired' = fired + 1
    /\ firings' = firings \cup {[entry |-> entry, number |-> fired, failed |-> 0]}
    /\ UNCHANGED <<scheduleVars, schedulerVars, lost, touched>>

\* The worker generates the report, then inserts it with the schedule's id: the
\* foreign key refuses the id of a deleted schedule, and the task runs again,
\* generation included, until it is archived.
RunReport ==
  \E f \in firings :
    LET s == f.entry.id IN
    /\ firings' =
         IF HasRow(s) \/ f.failed + 1 = ReportAttempts THEN firings \ {f}
         ELSE (firings \ {f}) \cup {[f EXCEPT !.failed = @ + 1]}
    /\ lost' = IF ~ HasRow(s) /\ f.failed + 1 = ReportAttempts
               THEN lost \cup {s} ELSE lost
    /\ UNCHANGED <<scheduleVars, schedulerVars, fired, touched>>

SchedulesNext ==
  \/ Create \/ RunReport
  \/ \E c \in Editors :
       BeginEdit(c) \/ OwnedSchedule(c) \/ Update(c) \/ Toggle(c) \/ Delete(c)
  \/ \E w \in Schedulers :
       LoadSchedules(w) \/ StartScheduler(w) \/ StopScheduler(w) \/ Fire(w)

SchedulesSpec == SchedulesInit /\ [][SchedulesNext]_schedulesVars

-----------------------------------------------------------------------------
\* What a worker's scheduler fires is what the table says, but for the rows
\* changed since the worker started: an entry is an enabled row, an enabled row
\* is an entry, and a tenant gets one report of a type.  A task that was
\* archived, with every generation paid, is of a schedule deleted meanwhile.
FiringsExplained ==
  /\ \A w \in Schedulers : scheduler[w] # "down" =>
       /\ \A entry \in registered[w] \ ListAllEnabled : entry.id \in touched[w]
       /\ \A entry \in ListAllEnabled \ registered[w] : entry.id \in touched[w]
       /\ \A entry, other \in registered[w] :
            entry.owner = other.owner /\ entry.type = other.type => entry = other
  /\ \A s \in lost : schedules[s] = Dropped
=============================================================================
