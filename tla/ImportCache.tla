----------------------------- MODULE ImportCache -----------------------------
(***************************************************************************)
(* One tenant's configuration behind the Zscaler API, the local cache rows *)
(* that mirror it (zia_resources; zpa_resources and zcc_resources have the *)
(* same shape), and the import runs that copy one to the other.            *)
(*                                                                         *)
(* Runs are threads: the import endpoint, a template or snapshot apply, a  *)
(* scheduled sync and the TUI all call ZIAImportService.run, and nothing   *)
(* keeps two of them off the same tenant.  Each action is one API call or  *)
(* one database session of services/zia_import_service.py, so other runs   *)
(* and the administrators of the tenant act between them.                  *)
(***************************************************************************)
EXTENDS Naturals, FiniteSets

CONSTANTS
    Run,        \* import runs; each runs at most once
    Type,       \* resource types (RESOURCE_DEFINITIONS)
    Obj,        \* resource ids: what the API assigns, and candidate keys
    Candidate,  \* the ids that are synthetic keys of migration candidates
    TypeOf,     \* the resource type of each id
    Config,     \* configurations an object can have, volatile metadata removed
    Absent,     \* "not configured"
    Filters,    \* the resource_types arguments callers pass; Type stands for None
    MaxEdits,   \* bound on the administrators' changes to the tenant
    MaxResets,  \* bound on the use of "Reset N/A Resource Types"
    MaxOutside  \* bound on these together

ASSUME ImportAssumption ==
    /\ Candidate \subseteq Obj
    /\ TypeOf \in [Obj -> Type]
    /\ Absent \notin Config
    /\ Filters \subseteq (SUBSET Type) \ {{}}   \* no caller passes an empty list
    /\ MaxEdits \in Nat
    /\ MaxResets \in Nat
    /\ MaxOutside \in Nat

VARIABLES
    tenant,    \* the tenant's live configuration
    row,       \* the cache row of each id
    disabled,  \* TenantConfig.zia_disabled_resources
    run,       \* the local state of each import run, and its SyncLog status
    clock,     \* the time of the last run_start
    edits,     \* administrators' changes so far
    resets,    \* resets of the N/A list so far
    quiet      \* history: the runs begun since which nobody else has acted

vars == <<tenant, row, disabled, run, clock, edits, resets, quiet>>

-----------------------------------------------------------------------------
(***************************************************************************)
(* Types.                                                                  *)
(***************************************************************************)

\* A NULL synced_at.  Every run_start is later than 1, the stamp of the rows
\* an earlier import left, and Null satisfies no comparison (see StaleRows).
Null == 0

Live == Config \union {Absent}

Row == [stored  : BOOLEAN,
        cfg     : Live,
        synced  : Nat,
        deleted : BOOLEAN,
        source  : {"tenant", "palo"}]

NoRow == [stored |-> FALSE, cfg |-> Absent, synced |-> Null,
          deleted |-> FALSE, source |-> "tenant"]

TenantRow(c, stamp, gone) ==
    [stored |-> TRUE, cfg |-> c, synced |-> stamp,
     deleted |-> gone, source |-> "tenant"]

CandidateRow(c) ==
    [stored |-> TRUE, cfg |-> c, synced |-> Null,
     deleted |-> FALSE, source |-> "palo"]

\* Program counters of ZIAImportService.run: between two resource types, about
\* to append to the N/A list, about to write a fetched type, about to commit
\* the sweep, about to write the SyncLog outcome.
Active == {"fetch", "disable", "upsert", "sweep", "finish"}

PC == Active \union {"idle", "done", "dead"}

Status == {"NONE", "RUNNING", "SUCCESS", "PARTIAL", "FAILED"}

RunState ==
    [pc     : PC,
     filter : SUBSET Type,      \* resource_types
     skip   : SUBSET Type,      \* disabled_types as read when the run began
     todo   : SUBSET Type,      \* types the loop has still to process
     na     : SUBSET Type,      \* newly_disabled
     errs   : SUBSET Type,      \* types with an entry in errors
     cur    : SUBSET Type,      \* the type between its fetch and its write
     got    : [Obj -> Live],    \* the records fetched for it
     seen   : SUBSET Type,      \* the N/A list _disable_resource_type read
     start  : Nat,              \* run_start
     stale  : SUBSET Obj,       \* the rows _mark_deleted selected
     log    : Status]           \* SyncLog.status

Nothing == [o \in Obj |-> Absent]

Idle == [pc |-> "idle", filter |-> {}, skip |-> {}, todo |-> {}, na |-> {},
         errs |-> {}, cur |-> {}, got |-> Nothing, seen |-> {}, start |-> 0,
         stale |-> {}, log |-> "NONE"]

IsActive(r) == run[r].pc \in Active

\* The types this run has fetched and written.
Read(r) == run[r].filter
             \ (run[r].skip \union run[r].na \union run[r].errs \union run[r].todo)

\* Type correctness, with the bounds that hold between a run's local sets: it
\* only ever works on types it was asked for and that were not marked N/A.
TypeOK ==
    /\ tenant \in [Obj -> Live]
    /\ row \in [Obj -> Row]
    /\ disabled \subseteq Type
    /\ run \in [Run -> RunState]
    /\ clock \in Nat
    /\ edits \in 0..MaxEdits
    /\ resets \in 0..MaxResets
    /\ quiet \subseteq Run
    /\ \A r \in Run :
         /\ run[r].todo \subseteq run[r].filter \ run[r].skip
         /\ run[r].cur \subseteq run[r].todo
         /\ run[r].pc = "fetch" => run[r].cur = {}
         /\ run[r].start <= clock

-----------------------------------------------------------------------------
(***************************************************************************)
(* Initial states: whatever earlier imports and edits left behind.         *)
(***************************************************************************)

InitialRows ==
    { f \in [Obj -> {NoRow}
                    \union {TenantRow(c, 1, g) : c \in Config, g \in BOOLEAN}
                    \union {CandidateRow(c) : c \in Config}] :
        \A o \in Obj : f[o].stored => (f[o].source = "palo" <=> o \in Candidate) }

Init ==
    /\ tenant \in {f \in [Obj -> Live] : \A o \in Candidate : f[o] = Absent}
    /\ row \in InitialRows
    /\ disabled = {}
    /\ run = [r \in Run |-> Idle]
    /\ clock = 1
    /\ edits = 0
    /\ resets = 0
    /\ quiet = {}

-----------------------------------------------------------------------------
(***************************************************************************)
(* The run.                                                                *)
(***************************************************************************)

\* mutant: the filter is lost, every enabled type is read
WorkList_AllTypes(f) == Type \ disabled

\* all_defs without the types the loop skips as disabled
WorkList(f) == f \ disabled

\* A run at the top of its loop, its locals initialised.
Started(f) ==
    [pc |-> "fetch", filter |-> f, skip |-> disabled, todo |-> WorkList(f),
     na |-> {}, errs |-> {}, cur |-> {}, got |-> Nothing, seen |-> {},
     start |-> clock + 1, stale |-> {}, log |-> "RUNNING"]

\* No other run is in flight.
Alone(r) == \A p \in Run \ {r} : ~IsActive(p)

\* Reading the N/A list, inserting the SyncLog row and taking run_start.
Begin(r, f) ==
    /\ run[r].pc = "idle"
    /\ clock' = clock + 1
    /\ run' = [run EXCEPT ![r] = Started(f)]
    /\ quiet' = IF Alone(r) THEN {r} ELSE {}
    /\ UNCHANGED <<tenant, row, disabled, edits, resets>>

\* The records the API returns for a type: every object of it, right now.
Fetched(t) == [o \in Obj |-> IF TypeOf[o] = t THEN tenant[o] ELSE Absent]

FetchOk(r, t) ==
    /\ run[r].pc = "fetch"
    /\ t \in run[r].todo
    /\ run' = [run EXCEPT ![r].pc = "upsert", ![r].cur = {t},
                          ![r].got = Fetched(t)]
    /\ UNCHANGED <<tenant, row, disabled, clock, edits, resets, quiet>>

\* mutant: a failing type is kept for another try
AfterError_Retry(r, ts) == run[r].todo

\* The loop moves on whatever the outcome.
AfterError(r, ts) == run[r].todo \ ts

\* Any exception but a 401 or NOT_SUBSCRIBED: recorded, and the loop goes on.
FetchError(r, t) ==
    /\ run[r].pc = "fetch"
    /\ t \in run[r].todo
    /\ run' = [run EXCEPT ![r].errs = @ \union {t}, ![r].todo = AfterError(r, {t})]
    /\ UNCHANGED <<tenant, row, disabled, clock, edits, resets, quiet>>

\* A 401 or NOT_SUBSCRIBED: _disable_resource_type reads the tenant's list ...
FetchNotEntitled(r, t) ==
    /\ run[r].pc = "fetch"
    /\ t \in run[r].todo
    /\ run' = [run EXCEPT ![r].pc = "disable", ![r].cur = {t},
                          ![r].seen = disabled]
    /\ UNCHANGED <<tenant, row, disabled, clock, edits, resets, quiet>>

\* ... and stores the list it read with the type appended.
Disable(r) ==
    /\ run[r].pc = "disable"
    /\ disabled' = IF run[r].cur \subseteq run[r].seen
                   THEN disabled
                   ELSE run[r].seen \union run[r].cur
    /\ run' = [run EXCEPT ![r].pc = "fetch", ![r].cur = {}, ![r].seen = {},
                          ![r].na = @ \union run[r].cur,
                          ![r].todo = AfterError(r, run[r].cur)]
    /\ UNCHANGED <<tenant, row, clock, edits, resets, quiet>>

\* mutant: a row that comes back keeps its is_deleted flag
Upserted_StaysDeleted(o, c, stamp) ==
    [row[o] EXCEPT !.stored = TRUE, !.cfg = c, !.synced = stamp]

\* The row of a fetched object: a new row, or the old one restamped, brought
\* back to life and, when its hash differs, given the new configuration.
Upserted(o, c, stamp) ==
    [row[o] EXCEPT !.stored = TRUE, !.cfg = c, !.synced = stamp,
                   !.deleted = FALSE]

\* One session: every record of the fetched type is written.
Upsert(r) ==
    LET live == {o \in Obj : run[r].got[o] # Absent} IN
    /\ run[r].pc = "upsert"
    /\ row' = [o \in Obj |->
                 IF o \in live
                 THEN Upserted(o, run[r].got[o], run[r].start)
                 ELSE row[o]]
    /\ run' = [run EXCEPT ![r].pc = "fetch", ![r].cur = {}, ![r].got = Nothing,
                          ![r].todo = @ \ run[r].cur]
    /\ UNCHANGED <<tenant, disabled, clock, edits, resets, quiet>>

\* mutant: no resource_type condition in the query
StaleRows_AnyType(types, start) ==
    {o \in Obj : /\ row[o].stored /\ ~row[o].deleted
                 /\ row[o].source = "tenant"
                 /\ row[o].synced # Null /\ row[o].synced < start}

\* mutant: a NULL stamp counts as old, and the source is not looked at
StaleRows_NullIsOld(types, start) ==
    {o \in Obj : /\ row[o].stored /\ ~row[o].deleted
                 /\ TypeOf[o] \in types
                 /\ row[o].synced < start}

\* mutant: <= for <, which sweeps what the run itself has just written
StaleRows_OwnStamp(types, start) ==
    {o \in Obj : /\ row[o].stored /\ ~row[o].deleted
                 /\ TypeOf[o] \in types
                 /\ row[o].source = "tenant"
                 /\ row[o].synced # Null /\ row[o].synced <= start}

\* The rows the _mark_deleted query selects.  Its type condition is the run's
\* whole filter, whatever became of each type.
StaleRows(types, start) ==
    {o \in Obj : /\ row[o].stored /\ ~row[o].deleted
                 /\ TypeOf[o] \in types
                 /\ row[o].source = "tenant"
                 /\ row[o].synced # Null /\ row[o].synced < start}

\* _mark_deleted: the query ...
SweepRead(r) ==
    /\ run[r].pc = "fetch"
    /\ run[r].todo = {}
    /\ run' = [run EXCEPT ![r].pc = "sweep",
                          ![r].stale = StaleRows(run[r].filter, run[r].start)]
    /\ UNCHANGED <<tenant, row, disabled, clock, edits, resets, quiet>>

\* ... and the commit, which sets is_deleted on the rows it returned.
SweepWrite(r) ==
    /\ run[r].pc = "sweep"
    /\ row' = [o \in Obj |-> IF o \in run[r].stale
                             THEN [row[o] EXCEPT !.deleted = TRUE]
                             ELSE row[o]]
    /\ run' = [run EXCEPT ![r].pc = "finish", ![r].stale = {}]
    /\ UNCHANGED <<tenant, disabled, clock, edits, resets, quiet>>

\* mutant: SUCCESS unless everything failed
Outcome_NoPartial(r) ==
    IF run[r].errs # {} /\ run[r].errs = run[r].filter \ run[r].skip
    THEN "FAILED" ELSE "SUCCESS"

\* final_status.  attempted leaves out the types that were N/A from the start
\* and counts those this run marked N/A.
Outcome(r) ==
    IF run[r].errs = {} THEN "SUCCESS"
    ELSE IF run[r].errs = run[r].filter \ run[r].skip THEN "FAILED"
    ELSE "PARTIAL"

Finish(r) ==
    /\ run[r].pc = "finish"
    /\ run' = [run EXCEPT ![r].pc = "done", ![r].log = Outcome(r),
                          ![r].start = 0]
    /\ UNCHANGED <<tenant, row, disabled, clock, edits, resets, quiet>>

\* The process stops, or a database session raises and the exception leaves
\* run: what was committed stays, the run's locals are gone and the SyncLog row
\* stays RUNNING.
Die(r) ==
    /\ IsActive(r)
    /\ run' = [run EXCEPT ![r] = [Idle EXCEPT !.pc = "dead", !.log = "RUNNING"]]
    /\ UNCHANGED <<tenant, row, disabled, clock, edits, resets, quiet>>

-----------------------------------------------------------------------------
(***************************************************************************)
(* The people around it.                                                   *)
(***************************************************************************)

\* An administrator, or a push by this program, changes the tenant.
Edit(o, c) ==
    /\ edits < MaxEdits /\ edits + resets < MaxOutside
    /\ o \notin Candidate
    /\ tenant[o] # c
    /\ tenant' = [tenant EXCEPT ![o] = c]
    /\ edits' = edits + 1
    /\ quiet' = {}
    /\ UNCHANGED <<row, disabled, run, clock, resets>>

\* "Reset N/A Resource Types" in the TUI.
ClearDisabled ==
    /\ resets < MaxResets /\ edits + resets < MaxOutside
    /\ disabled' = {}
    /\ resets' = resets + 1
    /\ UNCHANGED <<tenant, row, run, clock, edits, quiet>>

-----------------------------------------------------------------------------
Step(r) ==
    \/ \E t \in Type : FetchOk(r, t) \/ FetchError(r, t) \/ FetchNotEntitled(r, t)
    \/ Disable(r)
    \/ Upsert(r)
    \/ SweepRead(r)
    \/ SweepWrite(r)
    \/ Finish(r)

Next ==
    \/ \E r \in Run : (\E f \in Filters : Begin(r, f)) \/ Step(r) \/ Die(r)
    \/ \E o \in Obj, c \in Live : Edit(o, c)
    \/ ClearDisabled

Spec == Init /\ [][Next]_vars

\* A run is a thread: once begun it takes its next step, because every API
\* call of the client has a timeout and every session a busy timeout.
FairSpec == Spec /\ \A r \in Run : WF_vars(Step(r))

-----------------------------------------------------------------------------
(***************************************************************************)
(* What the cache promises.                                                *)
(***************************************************************************)

\* The row of o says what the tenant says: current and alive if the object is
\* configured, otherwise not shown as part of the tenant.
Mirrors(o) ==
    IF tenant[o] = Absent
    THEN row[o].source = "tenant" => ~row[o].stored \/ row[o].deleted
    ELSE row[o].stored /\ ~row[o].deleted /\ row[o].cfg = tenant[o]

\* Whatever state earlier runs, crashes and races left, one run that nobody
\* disturbs repairs every type it manages to read: additions, changes,
\* deletions and resurrections all arrive (run, _upsert, _mark_deleted).
QuietRunRepairsWhatItReads ==
    \A r \in Run :
      r \in quiet /\ run[r].pc \in {"finish", "done"} =>
        \A o \in Obj : TypeOf[o] \in Read(r) => Mirrors(o)

\* A SUCCESS in the sync log can be relied on: when nothing was marked N/A, an
\* undisturbed SUCCESS run leaves the mirror of every type it was asked for.
SuccessMeansMirror ==
    \A r \in Run :
      /\ r \in quiet /\ run[r].pc = "done" /\ run[r].log = "SUCCESS"
      /\ run[r].filter \intersect (run[r].skip \union run[r].na) = {}
      => \A o \in Obj : TypeOf[o] \in run[r].filter => Mirrors(o)

\* A narrowed import leaves every other type alone: a step that changes a row
\* is a step of a run that was asked for the row's type, however the runs
\* interleave (the promise the scoped template apply relies on).
RowsChangeOnlyInFilter ==
    [][\A o \in Obj : row'[o] # row[o] =>
         \E r \in Run : run'[r] # run[r] /\ TypeOf[o] \in run[r].filter]_vars

\* No import changes a migration candidate: it is not on the tenant, so no
\* fetch returns it, and the sweep must not take it for a deleted object.
CandidatesUntouched ==
    [][\A o \in Candidate : row'[o] = row[o]]_vars

\* A run that has begun comes to an end, however its fetches turn out.
RunsEnd ==
    \A r \in Run : IsActive(r) ~> run[r].pc \in {"done", "dead"}

=============================================================================
