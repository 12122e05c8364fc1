------------------------------ MODULE JobStore ------------------------------
(***************************************************************************)
(* Background jobs: the in-memory store of api/jobs.py, the worker threads *)
(* the routers start, and the event streams of api/routers/jobs.py that    *)
(* browsers follow them through.                                           *)
(*                                                                         *)
(* Every method of the store runs under its one lock, so each action holds *)
(* at most one of them.  A worker does its work between two calls; a       *)
(* stream takes one snapshot every 0.2 s.                                  *)
(***************************************************************************)
EXTENDS Naturals, FiniteSets

CONSTANTS
    Job,          \* job ids; uuid4 gives each job a fresh one
    Key,          \* keys of jobs that must run alone (an import, pip, ACME)
    NoKey,        \* the key of a job started with create()
    NoJob,        \* the job of a stream never opened
    Stream,       \* browser tabs, each with at most one stream open
    MaxEvents,    \* bound on the progress events of a job
    MaxRestarts   \* bound on restarts of the server

ASSUME JobAssumption ==
    /\ NoKey \notin Key
    /\ NoJob \notin Job
    /\ MaxEvents \in Nat
    /\ MaxRestarts \in Nat

VARIABLES
    store,     \* _JobStore._jobs
    worker,    \* the thread of each job, and what it has done
    stream,    \* stream_job_events and the useJobStream at its other end
    restarts   \* restarts so far

vars == <<store, worker, stream, restarts>>

-----------------------------------------------------------------------------
(***************************************************************************)
(* Types.                                                                  *)
(***************************************************************************)

\* What a job comes to: a result, a result saying it was cancelled and rolled
\* back, or an error.
Ended == {"ok", "cancelled", "error"}

Outcome == Ended \union {"none"}

\* The status "cancelled" is set by cancel(), which nothing calls.
ActiveStatus == {"running", "cancel_requested"}

Entry ==
    [held   : BOOLEAN,                         \* job_id in _jobs
     key    : Key \union {NoKey},
     status : ActiveStatus \union {"done", "error"},
     events : Nat,                             \* len(events)
     result : Outcome,
     aged   : BOOLEAN]                         \* finished_at is past the TTL

NoEntry == [held |-> FALSE, key |-> NoKey, status |-> "running", events |-> 0,
            result |-> "none", aged |-> FALSE]

NewEntry(k) == [held |-> TRUE, key |-> k, status |-> "running", events |-> 0,
                result |-> "none", aged |-> FALSE]

\* Between two records of a push loop; a record on its way to the API; undoing
\* a cancelled push; writing the audit entry after complete(); ended by an
\* exception no handler passed to fail().
Working == {"work", "push", "pushing", "rollback", "tail"}

Worker ==
    [pc      : Working \union {"none", "audit", "ended", "escaped", "killed"},
     key     : Key \union {NoKey},
     polls   : BOOLEAN,      \* has a push loop, which polls for a cancel
     sent    : Nat,          \* progress events so far
     outcome : Outcome]      \* what it told the store in the end

NoWorker == [pc |-> "none", key |-> NoKey, polls |-> FALSE, sent |-> 0,
             outcome |-> "none"]

NewWorker(k, polls) == [pc |-> "work", key |-> k, polls |-> polls, sent |-> 0,
                        outcome |-> "none"]

StreamState ==
    [open   : BOOLEAN,
     job    : Job \union {NoJob},
     cursor : Nat,
     told   : Outcome \union {"notfound"}]

NoStream == [open |-> FALSE, job |-> NoJob, cursor |-> 0, told |-> "none"]

IsActive(j) == store[j].held /\ store[j].status \in ActiveStatus

IsWorking(j) == worker[j].pc \in Working

\* Type correctness; a stream never runs ahead of the store.
TypeOK ==
    /\ store \in [Job -> Entry]
    /\ worker \in [Job -> Worker]
    /\ stream \in [Stream -> StreamState]
    /\ restarts \in 0..MaxRestarts
    /\ \A s \in Stream :
         stream[s].open =>
           /\ stream[s].job \in Job
           /\ store[stream[s].job].held =>
                stream[s].cursor <= store[stream[s].job].events

Init ==
    /\ store = [j \in Job |-> NoEntry]
    /\ worker = [j \in Job |-> NoWorker]
    /\ stream = [s \in Stream |-> NoStream]
    /\ restarts = 0

-----------------------------------------------------------------------------
(***************************************************************************)
(* Starting a job.                                                         *)
(***************************************************************************)

\* mutant: the time to live counts from the start of the job
IsStale_SinceStart(j) == store[j].held /\ (store[j].aged \/ worker[j].sent > 1)

IsStale(j) == store[j].held /\ store[j].aged

\* _prune_locked
Pruned == [j \in Job |-> IF IsStale(j) THEN NoEntry ELSE store[j]]

\* mutant: a job being cancelled no longer counts as running
Existing_RunningOnly(k) ==
    {j \in Job : store[j].held /\ store[j].key = k /\ store[j].status = "running"}

\* _find_active_locked.  Of several it returns the latest; OneWorkerPerKey
\* says there is never more than one.
Existing(k) == {j \in Job : IsActive(j) /\ store[j].key = k}

\* create_unique and Thread.start, as the import endpoints do them.
StartUnique(j, k) ==
    /\ worker[j].pc = "none"
    /\ Existing(k) = {}
    /\ store' = [Pruned EXCEPT ![j] = NewEntry(k)]
    /\ worker' = [worker EXCEPT ![j] = NewWorker(k, FALSE)]
    /\ UNCHANGED <<stream, restarts>>

\* create_unique finds a job for the key and hands out its id.
StartRefused(k) ==
    /\ Existing(k) # {}
    /\ store' = Pruned
    /\ UNCHANGED <<worker, stream, restarts>>

\* create and Thread.start: previews, pushes, restores, plugin actions.
StartPlain(j, polls) ==
    /\ worker[j].pc = "none"
    /\ store' = [Pruned EXCEPT ![j] = NewEntry(NoKey)]
    /\ worker' = [worker EXCEPT ![j] = NewWorker(NoKey, polls)]
    /\ UNCHANGED <<stream, restarts>>

-----------------------------------------------------------------------------
(***************************************************************************)
(* The worker.                                                             *)
(***************************************************************************)

\* append does nothing when the store no longer has the job.
Appended(j) ==
    IF store[j].held THEN [store EXCEPT ![j].events = @ + 1] ELSE store

Send(j, next) ==
    /\ worker[j].sent < MaxEvents
    /\ store' = Appended(j)
    /\ worker' = [worker EXCEPT ![j].pc = next, ![j].sent = @ + 1]
    /\ UNCHANGED <<stream, restarts>>

Goto(j, next) ==
    /\ worker' = [worker EXCEPT ![j].pc = next]
    /\ UNCHANGED <<store, stream, restarts>>

\* Progress of an import, a rollback or the re-import after a push.
Progress(j) ==
    /\ worker[j].pc \in {"work", "rollback", "tail"}
    /\ Send(j, worker[j].pc)

StartPush(j) == worker[j].pc = "work" /\ worker[j].polls /\ Goto(j, "push")

\* push_classified asks stop_fn() before each record ...
PollCancel(j) ==
    /\ worker[j].pc = "push"
    /\ worker[j].sent < MaxEvents
    /\ Goto(j, IF store[j].held /\ store[j].status = "cancel_requested"
               THEN "rollback" ELSE "pushing")

\* ... and reports the record when the API has answered.
Pushed(j) == worker[j].pc = "pushing" /\ Send(j, "push")

\* No records are left.  Nothing asks stop_fn() any more.
PushDone(j) == worker[j].pc = "push" /\ Goto(j, "tail")

\* mutant: complete() expects the job to be running
Finish_RunningOnly(j, s, r) ==
    IF store[j].held /\ store[j].status = "running"
    THEN [store EXCEPT ![j].status = s, ![j].result = r]
    ELSE store

\* complete and fail: only a job that is still active can end.
Finish(j, s, r) ==
    IF IsActive(j)
    THEN [store EXCEPT ![j].status = s, ![j].result = r]
    ELSE store

\* complete().  An import writes its audit entry after it, inside the try.
Complete(j) ==
    LET r == IF worker[j].pc = "rollback" THEN "cancelled" ELSE "ok" IN
    /\ worker[j].pc \in (IF worker[j].polls THEN {"rollback", "tail"} ELSE {"work"})
    /\ store' = Finish(j, "done", r)
    /\ worker' = [worker EXCEPT ![j].outcome = r,
                                ![j].pc = IF @ = "work" THEN "audit" ELSE "ended"]
    /\ UNCHANGED <<stream, restarts>>

AuditWritten(j) == worker[j].pc = "audit" /\ Goto(j, "ended")

\* The audit entry cannot be written: the handler calls fail() on a job that
\* complete() has ended.
AuditRaises(j) ==
    /\ worker[j].pc = "audit"
    /\ store' = Finish(j, "error", "error")
    /\ worker' = [worker EXCEPT ![j].pc = "ended"]
    /\ UNCHANGED <<stream, restarts>>

\* except Exception: fail()
Fail(j) ==
    /\ IsWorking(j)
    /\ store' = Finish(j, "error", "error")
    /\ worker' = [worker EXCEPT ![j].pc = "ended", ![j].outcome = "error"]
    /\ UNCHANGED <<stream, restarts>>

\* A database error where no handler reaches fail(): in record_failure, which
\* letsencrypt_issue calls before fail(), and in revoke_package, which an
\* uninstall with purge calls after its try.
Escape(j) == worker[j].pc = "work" /\ Goto(j, "escaped")

WorkerStep(j) ==
    \/ Progress(j) \/ StartPush(j) \/ PollCancel(j) \/ Pushed(j) \/ PushDone(j)
    \/ Complete(j) \/ AuditWritten(j) \/ AuditRaises(j) \/ Fail(j) \/ Escape(j)

-----------------------------------------------------------------------------
(***************************************************************************)
(* Everyone else.                                                          *)
(***************************************************************************)

\* mutant: the status is not looked at
RequestCancel_Any(j) ==
    /\ store[j].held /\ store[j].status # "cancel_requested"
    /\ store' = [store EXCEPT ![j].status = "cancel_requested"]
    /\ UNCHANGED <<worker, stream, restarts>>

\* POST /jobs/{id}/cancel: request_cancel, for any job.
RequestCancel(j) ==
    /\ store[j].held /\ store[j].status = "running"
    /\ store' = [store EXCEPT ![j].status = "cancel_requested"]
    /\ UNCHANGED <<worker, stream, restarts>>

\* An hour passes after the end of a job.
Age(j) ==
    /\ store[j].held /\ ~IsActive(j) /\ ~store[j].aged
    /\ store' = [store EXCEPT ![j].aged = TRUE]
    /\ UNCHANGED <<worker, stream, restarts>>

\* mutant: the cursor outlives the stream
Opened_KeepsCursor(s, j) == [stream[s] EXCEPT !.open = TRUE, !.job = j,
                                              !.told = "none"]

Opened(s, j) == [open |-> TRUE, job |-> j, cursor |-> 0, told |-> "none"]

\* useJobStream with an id some response carried.  It starts over whenever the
\* id or the token changes, so an open stream may be reopened, or closed.
Attach(s, j) ==
    /\ worker[j].pc # "none"
    /\ stream' = [stream EXCEPT ![s] = Opened(s, j)]
    /\ UNCHANGED <<store, worker, restarts>>

Leave(s) ==
    /\ stream[s].open
    /\ stream' = [stream EXCEPT ![s] = NoStream]
    /\ UNCHANGED <<store, worker, restarts>>

\* mutant: one event per snapshot
Delivered_One(s) ==
    LET e == store[stream[s].job].events IN
    IF stream[s].cursor < e THEN stream[s].cursor + 1 ELSE e

\* while cursor < len(events)
Delivered(s) == store[stream[s].job].events

\* mutant: the stream of a failed job is left open
IsOver_DoneOnly(e) == e.status = "done"

IsOver(e) == e.status \in {"done", "error"}

\* One turn of the loop in stream_job_events: a snapshot, the events since the
\* last one, and the outcome if there is one.
Poll(s) ==
    LET j == stream[s].job  e == store[j] IN
    /\ stream[s].open
    /\ stream' =
         [stream EXCEPT ![s] =
            IF ~e.held
            THEN [open |-> FALSE, job |-> j, cursor |-> stream[s].cursor,
                  told |-> "notfound"]
            ELSE [open |-> ~IsOver(e), job |-> j, cursor |-> Delivered(s),
                  told |-> IF IsOver(e) THEN e.result ELSE "none"]]
    /\ UNCHANGED <<store, worker, restarts>>

\* The server process stops and starts: store, threads and connections go.
Restart ==
    /\ restarts < MaxRestarts
    /\ restarts' = restarts + 1
    /\ store' = [j \in Job |-> NoEntry]
    /\ worker' = [j \in Job |->
                    IF worker[j].pc \in {"none", "ended"} THEN worker[j]
                    ELSE [worker[j] EXCEPT !.pc = "killed"]]
    /\ stream' = [s \in Stream |-> IF stream[s].open THEN NoStream ELSE stream[s]]

-----------------------------------------------------------------------------
Next ==
    \/ \E j \in Job :
         \/ \E k \in Key : StartUnique(j, k)
         \/ \E polls \in BOOLEAN : StartPlain(j, polls)
         \/ WorkerStep(j) \/ RequestCancel(j) \/ Age(j)
         \/ \E s \in Stream : Attach(s, j)
    \/ \E k \in Key : StartRefused(k)
    \/ \E s \in Stream : Leave(s) \/ Poll(s)
    \/ Restart

Spec == Init /\ [][Next]_vars

\* A thread that can take a step takes one: its API calls time out and its
\* events are finitely many.  The event loop resumes every open stream.
FairSpec ==
    /\ Spec
    /\ \A j \in Job : WF_vars(WorkerStep(j))
    /\ \A s \in Stream : WF_vars(Poll(s))

-----------------------------------------------------------------------------
(***************************************************************************)
(* What the store promises.                                                *)
(***************************************************************************)

\* Two simultaneous requests cannot both start work for the same key
\* (create_unique): no two threads of a key are ever at work, through cancels,
\* failures, pruning and restarts.
OneWorkerPerKey ==
    \A i, j \in Job :
      IsWorking(i) /\ IsWorking(j) /\ worker[i].key = worker[j].key
        /\ worker[i].key \in Key => i = j

\* A thread at work is in the store, active and under its key: find_active
\* finds it and a cancel reaches it, whatever was pruned meanwhile.
WorkIsVisible ==
    \A j \in Job :
      IsWorking(j) => IsActive(j) /\ store[j].key = worker[j].key

\* What a browser was told is what happened: an outcome is the one the worker
\* ended with and follows the last of its progress events, and "job not found"
\* is never the answer for a job that is at work (snapshot, stream_job_events).
StreamTold ==
    \A s \in Stream :
      LET w == worker[stream[s].job] IN
      /\ stream[s].told \in Ended =>
           w.outcome = stream[s].told /\ stream[s].cursor = w.sent
      /\ stream[s].told = "notfound" => w.pc \notin Working \union {"escaped"}

\* The outcome of a job is final for as long as the store keeps it, even when
\* the audit write after it raises (complete, fail).
OutcomeFinal ==
    [][\A j \in Job :
         store[j].held /\ ~IsActive(j) /\ store'[j].held =>
           /\ store'[j].status = store[j].status
           /\ store'[j].result = store[j].result]_vars

\* Every open stream ends, unless the worker was lost to an exception that
\* never reached fail() (stream_job_events returns on every final status).
StreamEnds ==
    \A s \in Stream :
      stream[s].open ~>
        ~stream[s].open \/ worker[stream[s].job].pc = "escaped"

\* An accepted cancel is resolved: the job ends one way or another
\* (request_cancel, is_cancel_requested, complete).
CancelResolved ==
    \A j \in Job :
      store[j].held /\ store[j].status = "cancel_requested" ~>
        ~IsActive(j) \/ worker[j].pc = "escaped"

(***************************************************************************)
(* The store implements JobService.                                        *)
(***************************************************************************)

\* What a client that asks for the job sees of it.
Seen(j) ==
    LET e == store[j] IN
    [phase |-> IF ~e.held
               THEN IF worker[j].pc = "none" THEN "unknown" ELSE "gone"
               ELSE CASE e.status = "running"          -> "running"
                      [] e.status = "cancel_requested" -> "cancelling"
                      [] OTHER                         -> e.result,
     key   |-> IF e.held THEN e.key ELSE NoKey]

Service == INSTANCE JobService WITH job <- [j \in Job |-> Seen(j)]

\* Seen from outside the store goes through no states but those of JobService:
\* a job ends once, is not forgotten while it runs, ends as cancelled only on
\* request, and shares its key with no running job, although the lock is
\* released between any two calls of a worker (_JobStore).
ImplementsService == Service!Spec
=============================================================================
