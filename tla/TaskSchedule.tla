---------------------------- MODULE TaskSchedule ----------------------------
(***************************************************************************)
(* Scheduled tasks: services/scheduled_task_service.py, the router         *)
(* api/routers/scheduled_tasks.py and the dispatch and run history of      *)
(* services/scheduled_sync_engine.py.  A request commits a task's row and  *)
(* then tells APScheduler, whose jobs are kept in the same database but    *)
(* in transactions of their own; the server may stop in between.  Runs     *)
(* read the task twice and write rows of a history that a delete empties   *)
(* under them.  Ids are rowids: SQLite gives out the largest plus one.     *)
(***************************************************************************)
EXTENDS Integers, FiniteSets

CONSTANTS
  Tenant,     \* the tenants a task may name
  Cron,       \* schedules
  None,       \* no value
  Keep,       \* a field that an update leaves out
  News,       \* the tasks a request may ask to create
  Bodies,     \* the updates a request may ask for
  Ends,       \* the ways a sync of one target may end
  MaxTask, MaxRow,             \* bounds on the ids in use at once
  MaxRequests, MaxCalls, MaxStops,  \* how often requests change tasks, calls
                                   \* of run_task start and the server stops
  MaxEvents   \* bound on these together

(* The columns of a task that validation, scheduling and dispatch look at. *)
(* products is how many products an import task reads.                     *)
Task == [kind : {"sync", "import"}, source : Tenant,
         target : Tenant \cup {None}, targets : SUBSET Tenant,
         groups : BOOLEAN, mode : {"type", "label"}, label : BOOLEAN,
         deletes : BOOLEAN, products : 0..2,
         cron : Cron, enabled : BOOLEAN]
(* What the body of an update may say of each of them, or leave out.        *)
Body == [kind : {"sync", "import", Keep}, source : Tenant \cup {Keep},
         target : Tenant \cup {None, Keep}, targets : (SUBSET Tenant) \cup {Keep},
         groups : BOOLEAN \cup {Keep}, mode : {"type", "label", Keep},
         label : BOOLEAN \cup {Keep}, deletes : BOOLEAN \cup {Keep},
         products : 0..2 \cup {Keep}, cron : Cron \cup {Keep},
         enabled : BOOLEAN \cup {Keep}]

TaskId == 1..MaxTask
RowId  == 1..MaxRow
Client == 1..MaxRequests  \* request threads that change tasks
Thread == 1..MaxCalls     \* calls of run_task, APScheduler's and run-now's

Statuses == {"success", "partial", "failed"}

(* What a request has yet to tell APScheduler, and a row of the history.   *)
Waiting == [op : {"register"}, task : TaskId, cron : Cron]
           \cup [op : {"remove"}, task : TaskId, cron : {None}]
RunRow == [task : TaskId, parent : RowId \cup {None},
           status : Statuses \cup {"running"}, by : Thread]

ASSUME EndsAssumption   == Ends \subseteq Statuses
ASSUME NewsAssumption   == News \subseteq Task
ASSUME BodiesAssumption == Bodies \subseteq Body
ASSUME BoundsAssumption ==
  {MaxTask, MaxRow, MaxRequests, MaxCalls, MaxStops, MaxEvents} \subseteq Nat
ASSUME NoneAssumption == /\ None \notin Task \cup Cron \cup Tenant \cup Nat
                         /\ Keep \notin Cron \cup Tenant
ASSUME RecordAssumption == None \notin Waiting \cup RunRow
(* The list a call works through holds tenants or products, told apart.    *)
ASSUME ProductsAssumption == \A n \in 1..2 : n \notin Tenant

VARIABLES
  task,      \* scheduled_tasks: the row of each id, or None
  job,       \* APScheduler's job store: the schedule of each job, or None
  server,    \* "down", "starting" (reconciling) or "up"
  client,    \* what each request has committed and not yet told APScheduler
  thread,    \* the local variables of each call of run_task
  row,       \* task_run_history
  raced,     \* history: ids with two requests in flight since the start
  missed,    \* history: ids whose job may have an old schedule
  purged,    \* history: whether a delete took rows of a running task
  requests, calls, stops  \* counters

db   == <<task, job, row>>
hist == <<raced, missed, purged>>
vars == <<db, server, client, thread, hist, requests, calls, stops>>

Bounded == requests + calls + stops < MaxEvents

Tasks == {i \in TaskId : task[i] # None}
Rows  == {r \in RowId : row[r] # None}

(* The rowid of an insert beside the rows S.                               *)
NextId(S) == IF S = {} THEN 1
             ELSE (CHOOSE i \in S : \A j \in S : j <= i) + 1

(* The first of a list: its order is fixed, and nothing depends on it.      *)
NextOf(list) == CHOOSE x \in list : TRUE

---------------------------------------------------------------------------
(* Validation.                                                             *)

(* Mutant: the source is not looked for among several targets.             *)
Valid_AnyTargets(t) ==
  IF t.kind = "sync"
    THEN /\ t.products = 0
         /\ (t.target # None) # (t.targets # {})
         /\ t.source # t.target
         /\ (t.mode = "type" => t.groups)
         /\ (t.mode = "label" => t.label)
    ELSE /\ t.target = None /\ t.targets = {} /\ ~t.groups
         /\ t.mode = "type" /\ ~t.label /\ ~t.deletes /\ t.products > 0

(* _validate_task_fields                                                   *)
Valid(t) ==
  IF t.kind = "sync"
    THEN /\ t.products = 0
         /\ (t.target # None) # (t.targets # {})
         /\ t.source \notin t.targets \cup {t.target}
         /\ (t.mode = "type" => t.groups)
         /\ (t.mode = "label" => t.label)
    ELSE /\ t.target = None /\ t.targets = {} /\ ~t.groups
         /\ t.mode = "type" /\ ~t.label /\ ~t.deletes /\ t.products > 0

(* What is stored of a valid task: of several targets the first becomes    *)
(* target_tenant_id as well, and the other mode's fields are cleared.      *)
Stored(t) ==
  [t EXCEPT !.target = IF t.targets = {} THEN @ ELSE NextOf(t.targets),
            !.label  = IF t.mode = "label" THEN @ ELSE FALSE]

(* update_task: what the body leaves out is taken from the row, except     *)
(* what belongs to the other kind of task.                                 *)
Said(new, old) == IF new = Keep THEN old ELSE new

Merged(t, b) ==
  LET kind  == Said(b.kind, t.kind)
      moved == kind = "import" /\ b.target = Keep /\ b.targets = Keep
  IN  [kind |-> kind, source |-> Said(b.source, t.source),
       target  |-> IF moved THEN None ELSE Said(b.target, t.target),
       targets |-> IF moved THEN {} ELSE Said(b.targets, t.targets),
       groups |-> Said(b.groups, t.groups), mode |-> Said(b.mode, t.mode),
       label |-> Said(b.label, t.label),
       deletes |-> Said(b.deletes, t.deletes),
       products |-> Said(b.products, IF kind = "sync" THEN 0 ELSE t.products),
       cron |-> Said(b.cron, t.cron), enabled |-> Said(b.enabled, t.enabled)]

---------------------------------------------------------------------------
(* Requests.                                                               *)

Pending(i) == \E c \in Client : client[c] # None /\ client[c].task = i

(* The scheduler exists while the router serves: _register_job or          *)
(* _remove_job follows the commit.                                         *)
Told(c, i, t) ==
  client' = [client EXCEPT ![c] =
    IF t # None /\ t.enabled
      THEN [op |-> "register", task |-> i, cron |-> t.cron]
      ELSE [op |-> "remove", task |-> i, cron |-> None]]

(* A commit on the row i while another request on it is in flight.         *)
Noted(i) ==
  IF Pending(i) THEN raced' = raced \cup {i} /\ UNCHANGED missed
                ELSE missed' = missed \ {i} /\ UNCHANGED raced

Asks(c) ==
  /\ server = "up"
  /\ Bounded /\ c = requests + 1 /\ requests' = c

CreateTask(c) ==
  /\ Asks(c)
  /\ \E t \in News :
       LET i == NextId(Tasks)
           s == Stored(t)
       IN  /\ Valid(t) /\ i \in TaskId
           /\ task' = [task EXCEPT ![i] = s]
           /\ IF s.enabled THEN Told(c, i, s) ELSE UNCHANGED client
           /\ Noted(i)
  /\ UNCHANGED <<job, row, server, thread, purged, calls, stops>>

UpdateTask(c) ==
  /\ Asks(c)
  /\ \E i \in Tasks, b \in Bodies :
       LET m == Merged(task[i], b)
       IN  /\ Valid(m)
           /\ task' = [task EXCEPT ![i] = Stored(m)]
           /\ Told(c, i, Stored(m)) /\ Noted(i)
  /\ UNCHANGED <<job, row, server, thread, purged, calls, stops>>

(* enable_task and disable_task                                            *)
SwitchTask(c) ==
  /\ Asks(c)
  /\ \E i \in Tasks, on \in BOOLEAN :
       LET s == [task[i] EXCEPT !.enabled = on]
       IN  task' = [task EXCEPT ![i] = s] /\ Told(c, i, s) /\ Noted(i)
  /\ UNCHANGED <<job, row, server, thread, purged, calls, stops>>

(* delete_task: the row and, by the ORM's cascade, its history.            *)
DeleteTask(c) ==
  /\ Asks(c)
  /\ \E i \in Tasks :
       /\ task' = [task EXCEPT ![i] = None]
       /\ row' = [r \in RowId |-> IF row[r] # None /\ row[r].task = i
                                    THEN None ELSE row[r]]
       /\ purged' = (purged \/ \E t \in Thread : thread[t].task = i)
       /\ Told(c, i, None) /\ Noted(i)
  /\ UNCHANGED <<job, server, thread, calls, stops>>

(* Mutant: a job that exists is left as it is.                             *)
TellScheduler_NoReplace(c) ==
  /\ client[c] # None
  /\ job' = [job EXCEPT ![client[c].task] =
       IF client[c].op = "register" /\ @ # None THEN @ ELSE client[c].cron]
  /\ client' = [client EXCEPT ![c] = None]
  /\ UNCHANGED <<task, row, server, thread, hist, requests, calls, stops>>

(* _register_job (replace_existing) and _remove_job.                       *)
TellScheduler(c) ==
  /\ client[c] # None
  /\ job' = [job EXCEPT ![client[c].task] = client[c].cron]
  /\ client' = [client EXCEPT ![c] = None]
  /\ UNCHANGED <<task, row, server, thread, hist, requests, calls, stops>>

---------------------------------------------------------------------------
(* Start and stop of the server.                                           *)

Idle == [stage |-> "idle", task |-> None, auto |-> FALSE, fan |-> FALSE,
         source |-> None, left |-> {}, now |-> None, run |-> None,
         child |-> None, results |-> {}, seen |-> None, torn |-> FALSE]

(* start_scheduler: APScheduler runs before its jobs are reconciled, and   *)
(* the router serves after.                                                *)
StartServer ==
  /\ server = "down" /\ server' = "starting"
  /\ UNCHANGED <<db, client, thread, hist, requests, calls, stops>>

Enabled(i) == task[i] # None /\ task[i].enabled

ReconcileAdd(i) ==
  /\ server = "starting" /\ Enabled(i) /\ job[i] = None
  /\ job' = [job EXCEPT ![i] = task[i].cron]
  /\ missed' = missed \ {i}
  /\ UNCHANGED <<task, row, server, client, thread, raced, purged, requests,
                 calls, stops>>

ReconcileRemove(i) ==
  /\ server = "starting" /\ ~Enabled(i) /\ job[i] # None
  /\ job' = [job EXCEPT ![i] = None]
  /\ UNCHANGED <<task, row, server, client, thread, hist, requests, calls,
                 stops>>

(* Mutant: orphans are left to run_task's own check.                       *)
ReconcileDone_AddOnly ==
  /\ server = "starting" /\ server' = "up"
  /\ \A i \in TaskId : Enabled(i) => job[i] # None
  /\ UNCHANGED <<db, client, thread, hist, requests, calls, stops>>

ReconcileDone ==
  /\ server = "starting" /\ server' = "up"
  /\ \A i \in TaskId : Enabled(i) <=> job[i] # None
  /\ UNCHANGED <<db, client, thread, hist, requests, calls, stops>>

(* A stop or a crash: daemon threads and requests are lost where they are. *)
StopServer ==
  /\ server # "down" /\ server' = "down"
  /\ Bounded /\ stops < MaxStops /\ stops' = stops + 1
  /\ missed' = missed \cup raced \cup {i \in TaskId : Pending(i)}
  /\ raced' = {}
  /\ client' = [c \in Client |-> None]
  /\ thread' = [t \in Thread |-> Idle]
  /\ UNCHANGED <<db, purged, requests, calls>>

---------------------------------------------------------------------------
(* Runs.                                                                   *)

Call(t, i, auto) ==
  /\ Bounded /\ t = calls + 1 /\ calls' = t
  /\ thread' = [thread EXCEPT ![t] =
       [Idle EXCEPT !.stage = "called", !.task = i, !.auto = auto]]
  /\ UNCHANGED <<db, server, client, hist, requests, stops>>

(* APScheduler, which runs one instance of a job at a time.                *)
Fire(t) ==
  /\ server # "down"
  /\ \E i \in TaskId :
       /\ job[i] # None
       /\ ~\E u \in Thread : thread[u].auto /\ thread[u].task = i
       /\ Call(t, i, TRUE)

(* POST /{task_id}/trigger                                                 *)
Trigger(t) == server = "up" /\ \E i \in Tasks : Call(t, i, FALSE)

Moved(t, w) ==
  /\ thread' = [thread EXCEPT ![t] = w]
  /\ UNCHANGED <<task, job, server, client, hist, requests, calls, stops>>

(* run_task's own read: which engine, and for a fan-out its targets.       *)
Dispatch(t) ==
  LET me == thread[t]
      now == task[me.task]
      fan == now.kind = "sync" /\ Cardinality(now.targets) > 1
  IN  /\ me.stage = "called" /\ UNCHANGED row
      /\ Moved(t, IF ~Enabled(me.task) THEN Idle
                  ELSE [me EXCEPT !.stage = now.kind, !.fan = fan,
                          !.left = IF fan THEN now.targets ELSE {},
                          !.seen = now])

(* The engine's read: the source, and unless it fans out what to work on.  *)
Load(t) ==
  LET me == thread[t]
      now == task[me.task]
  IN  /\ me.stage \in {"sync", "import"} /\ UNCHANGED row
      /\ Moved(t, IF ~Enabled(me.task) THEN Idle
                  ELSE [me EXCEPT !.stage = "open", !.source = now.source,
                          !.left = IF me.stage = "import" THEN 1..now.products
                                   ELSE IF me.fan THEN @ ELSE {now.target},
                          !.torn = me.seen # now, !.seen = None])

NewRow(t, parent) ==
  [task |-> thread[t].task, parent |-> parent, status |-> "running", by |-> t]

(* The row of the run, a parent when it fans out.                          *)
OpenRun(t) ==
  LET me == thread[t]
      r == NextId(Rows)
  IN  /\ me.stage = "open" /\ r \in RowId
      /\ row' = [row EXCEPT ![r] = NewRow(t, None)]
      /\ Moved(t, [me EXCEPT !.run = r,
                     !.stage = IF me.left = {} THEN "close" ELSE "next"])

(* Mutant: the target that is worked on stays on the list.                 *)
OpenPart_Again(t) ==
  LET me == thread[t]
      r == NextId(Rows)
  IN  /\ me.stage = "next" /\ (me.fan => r \in RowId)
      /\ row' = IF me.fan THEN [row EXCEPT ![r] = NewRow(t, me.run)] ELSE row
      /\ Moved(t, [me EXCEPT !.stage = "work", !.now = NextOf(me.left),
                             !.child = IF me.fan THEN r ELSE None])

(* The next target or product.  Each target of a fan-out has a row.        *)
OpenPart(t) ==
  LET me == thread[t]
      r == NextId(Rows)
  IN  /\ me.stage = "next" /\ (me.fan => r \in RowId)
      /\ row' = IF me.fan THEN [row EXCEPT ![r] = NewRow(t, me.run)] ELSE row
      /\ Moved(t, [me EXCEPT !.stage = "work", !.now = NextOf(me.left),
                             !.left = @ \ {NextOf(me.left)},
                             !.child = IF me.fan THEN r ELSE None])

(* session.get(TaskRunHistory, id): the row may be gone, or be another's.  *)
Written(r, s) ==
  row' = IF r # None /\ row[r] # None THEN [row EXCEPT ![r].status = s]
                                      ELSE row

(* Mutant: the status of the last target is that of the run.               *)
Results_Last(me, s) == {s}

Results(me, s) == me.results \cup {s}

(* _execute_sync_pipeline never raises and may do a part of its work; an   *)
(* import that raises is a failure of its product.                         *)
EndPart(t) ==
  LET me == thread[t]
  IN  /\ me.stage = "work"
      /\ \E s \in Ends :
           /\ s = "partial" => me.now \notin 1..2
           /\ Written(me.child, s)
           /\ Moved(t, [me EXCEPT !.stage = IF me.left = {} THEN "close"
                                                            ELSE "next",
                          !.now = None, !.child = None,
                          !.results = Results(me, s)])

(* What a run tells of its targets or products; one that has a single      *)
(* target tells the target's own.                                          *)
Rollup(results) ==
  IF results \subseteq {"success"} THEN "success"
  ELSE IF results \subseteq {"failed"} THEN "failed" ELSE "partial"

(* Mutant: the outcome goes to the task's latest row.                      *)
CloseRun_Latest(t) ==
  LET me == thread[t]
      mine == {r \in Rows : row[r].task = me.task /\ row[r].parent = None}
  IN  /\ me.stage = "close"
      /\ Written(IF mine = {} THEN None ELSE NextId(mine) - 1,
                 Rollup(me.results))
      /\ Moved(t, Idle)

CloseRun(t) ==
  LET me == thread[t]
  IN  /\ me.stage = "close"
      /\ Written(me.run, Rollup(me.results))
      /\ Moved(t, Idle)

---------------------------------------------------------------------------
(* The database an earlier server left: at most the first task, and its    *)
(* job unless the stop came before it was registered.                      *)
Init ==
  /\ \E old \in {Stored(t) : t \in {n \in News : Valid(n)}} \cup {None} :
       /\ task = [i \in TaskId |-> IF i = 1 THEN old ELSE None]
       /\ job \in [TaskId -> {None} \cup {t.cron : t \in {old} \ {None}}]
  /\ \A i \in TaskId : task[i] = None => job[i] = None
  /\ server = "down"
  /\ client = [c \in Client |-> None]
  /\ thread = [t \in Thread |-> Idle]
  /\ row = [r \in RowId |-> None]
  /\ raced = {} /\ missed = {} /\ purged = FALSE
  /\ requests = 0 /\ calls = 0 /\ stops = 0

Step(t) == Dispatch(t) \/ Load(t) \/ OpenRun(t) \/ OpenPart(t) \/ EndPart(t)
           \/ CloseRun(t)

Next ==
  \/ StartServer \/ ReconcileDone \/ StopServer
  \/ \E i \in TaskId : ReconcileAdd(i) \/ ReconcileRemove(i)
  \/ \E c \in Client : CreateTask(c) \/ UpdateTask(c) \/ SwitchTask(c)
                       \/ DeleteTask(c) \/ TellScheduler(c)
  \/ \E t \in Thread : Fire(t) \/ Trigger(t) \/ Step(t)

Spec == Init /\ [][Next]_vars

(* A run's calls have timeouts and its thread runs.                        *)
FairSpec == Spec /\ \A t \in Thread : WF_vars(Step(t))
---------------------------------------------------------------------------
(* Properties.                                                             *)

RunCall == [stage : {"idle", "called", "sync", "import", "open", "next", "work",
                   "close"},
          task : TaskId \cup {None}, auto : BOOLEAN, fan : BOOLEAN,
          source : Tenant \cup {None}, left : SUBSET (Tenant \cup {None} \cup 1..2),
          now : Tenant \cup 1..2 \cup {None}, run : RowId \cup {None},
          child : RowId \cup {None}, results : SUBSET Statuses,
          seen : Task \cup {None}, torn : BOOLEAN]

TypeOK ==
  /\ task \in [TaskId -> Task \cup {None}]
  /\ job \in [TaskId -> Cron \cup {None}]
  /\ server \in {"down", "starting", "up"}
  /\ client \in [Client -> Waiting \cup {None}]
  /\ thread \in [Thread -> RunCall]
  /\ row \in [RowId -> RunRow \cup {None}]
  /\ raced \subseteq TaskId /\ missed \subseteq TaskId /\ purged \in BOOLEAN
  /\ requests \in 0..MaxRequests /\ calls \in 0..MaxCalls
  /\ stops \in 0..MaxStops

(* While the server is up and no request is in flight, exactly the enabled *)
(* tasks are scheduled, whatever was lost in a stop, unless requests on    *)
(* the same task overlapped since the start; and a scheduled task has its  *)
(* own schedule, unless the last request on it was cut off or overlapped   *)
(* (_register_job after the commit, _reconcile_jobs).                      *)
EnabledIsScheduled ==
  server = "up" =>
    \A i \in TaskId \ raced :
      ~Pending(i) => /\ Enabled(i) <=> job[i] # None
                     /\ Enabled(i) /\ i \notin missed => job[i] = task[i].cron

(* However a task is edited, turned from one kind into the other and back, *)
(* replaced and run meanwhile, no run syncs a tenant onto itself, unless   *)
(* the task changed between the two reads of its run                       *)
(* (_validate_task_fields, run_task, _run_fanout_sync_task).               *)
NeverOntoItself ==
  \A t \in Thread :
    ~thread[t].torn => thread[t].source \notin thread[t].left \cup {thread[t].now}
                       \/ thread[t].source = None

(* A run's row is ended by that run, once, however runs of a task overlap  *)
(* and rows come and go, unless a running task was deleted: its rows' ids  *)
(* may then be given out again (TaskRunHistory, session.get at the end).   *)
OutcomeIsOwn ==
  [][~purged => \A r \in RowId :
       row[r] # None /\ row'[r] # None /\ row'[r] # row[r]
         => /\ row[r].status = "running"
            /\ thread[row[r].by].stage \in {"work", "close"}
            /\ thread'[row[r].by] # thread[row[r].by]]_vars

(* The parent row of a fan-out, once ended, tells what its children's rows *)
(* tell (_run_fanout_sync_task's rollup).                                  *)
ParentTellsChildren ==
  ~purged => \A r \in Rows :
    LET below == {k \in Rows : row[k].parent = r}
    IN  row[r].status # "running" /\ below # {}
          => row[r].status = Rollup({row[k].status : k \in below})

(* Every call of run_task ends, whatever becomes of its task meanwhile     *)
(* (the engines' early returns and loops).                                 *)
CallsEnd == \A t \in Thread : thread[t].stage # "idle" ~> thread[t].stage = "idle"

=============================================================================
