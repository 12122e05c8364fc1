------------------------- MODULE TaskScheduleProofs -------------------------
(***************************************************************************)
(* Proofs about TaskSchedule, for any number of tasks, rows, requests and  *)
(* calls, however often the server stops: enabled tasks are scheduled, no  *)
(* run syncs a tenant onto itself, and the history tells what happened.    *)
(***************************************************************************)
EXTENDS TaskSchedule, WellFoundedInduction, TLAPS

\* A set of naturals has a least element.
LEMMA LeastNat ==
  ASSUME NEW T \in SUBSET Nat, T # {}
  PROVE  \E x \in T : \A y \in T : x <= y
<1> DEFINE R == {p \in Nat \X Nat : p[1] < p[2]}
<1>1. IsWellFoundedOn(R, Nat)
  BY NatLessThanWellFounded DEF OpToRel
<1>2. PICK x \in T : \A y \in T : ~(<<y, x>> \in R)
  BY <1>1, WFMin
<1>3. ASSUME NEW y \in T
      PROVE  x <= y
  <2>1. x \in Nat /\ y \in Nat
    OBVIOUS
  <2>2. <<y, x>> \notin R
    BY <1>2
  <2> QED
    BY <2>1, <2>2
<1> QED
  BY <1>3

\* The rowid of an insert is not in use.
LEMMA NextIdIsNew ==
  ASSUME NEW n \in Nat, NEW S, S \subseteq 1..n
  PROVE  NextId(S) \notin S /\ NextId(S) \in Nat
<1>1. CASE S = {}
  BY <1>1 DEF NextId
<1>2. CASE S # {}
  <2> DEFINE T == {n - i : i \in S}
  <2>1. T \in SUBSET Nat /\ T # {}
    <3>1. \A i \in S : n - i \in Nat
      OBVIOUS
    <3> QED
      BY <1>2, <3>1
  <2>2. PICK t \in T : \A y \in T : t <= y
    BY <2>1, LeastNat
  <2>3. PICK m \in S : t = n - m
    OBVIOUS
  <2>4. \A j \in S : n - m <= n - j
    BY <2>2, <2>3
  <2>5. \A j \in S : j \in Nat /\ j <= m
    <3> TAKE j \in S
    <3>1. j \in Nat /\ m \in Nat
      OBVIOUS
    <3>2. n - m <= n - j
      BY <2>4
    <3> QED
      BY <3>1, <3>2
  <2> DEFINE max == CHOOSE i \in S : \A j \in S : j <= i
  <2>6. max \in S /\ \A j \in S : j <= max
    BY <2>5
  <2>7. max \in Nat
    BY <2>5, <2>6
  <2>8. ASSUME max + 1 \in S
        PROVE  FALSE
    <3> HIDE DEF max
    <3>1. max + 1 <= max
      BY <2>6, <2>8
    <3> QED
      BY <2>7, <3>1
  <2>9. NextId(S) = max + 1
    BY <1>2 DEF NextId
  <2> HIDE DEF max
  <2> QED
    BY <2>7, <2>8, <2>9
<1> QED
  BY <1>1, <1>2

\* A stored task of the kind that syncs does not sync a tenant onto itself.
Sane(t) == t.kind = "sync" => t.source \notin t.targets \cup {t.target}

TasksSane == \A i \in Tasks : Sane(task[i])

\* Calls and requests are numbered as they come, and a part is opened only
\* when one is left.
Counted ==
  /\ \A c \in Client : c > requests => client[c] = None
  /\ \A t \in Thread : t > calls => thread[t] = Idle
  /\ \A t \in Thread :
       /\ thread[t].stage = "idle" <=> thread[t].task = None
       /\ thread[t].stage = "next" => thread[t].left # {}

\* What a call works on comes from a sane task, unless the task changed
\* between the two reads.
SaneCall(me) ==
  /\ me.stage \in {"idle", "called", "sync", "import"}
       => me.source = None /\ me.now = None /\ ~me.torn
  /\ me.stage \in {"sync", "import"} =>
       /\ me.seen # None /\ Sane(me.seen) /\ me.seen.kind = me.stage
       /\ me.fan => me.stage = "sync" /\ me.left = me.seen.targets
  /\ me.stage \notin {"idle", "called", "sync", "import"} =>
       /\ me.source # None
       /\ ~me.torn => me.source \notin me.left \cup {me.now}

CallsSane == \A t \in Thread : SaneCall(thread[t])

\* Between requests APScheduler has what the tables say, and during one the
\* request has what it must tell.
About(i, c) == client[c] # None /\ client[c].task = i

ToldOf(i) ==
  /\ \A c, d \in Client : About(i, c) /\ About(i, d) => c = d
  /\ \A c \in Client : About(i, c) =>
       client[c].cron = IF Enabled(i) THEN task[i].cron ELSE None
  /\ ~Pending(i) =>
       /\ server = "up" => (Enabled(i) <=> job[i] # None)
       /\ Enabled(i) /\ job[i] # None /\ i \notin missed
            => job[i] = task[i].cron

InStep ==
  /\ server # "up" => raced = {} /\ \A c \in Client : client[c] = None
  /\ \A i \in TaskId \ raced : ToldOf(i)

\* The rows of a call are its own, and it remembers what their parts told.
Below(r) == {k \in Rows : row[k].parent = r}
Working(t) == thread[t].stage \in {"next", "work", "close"}

Owns(t) ==
  LET me == thread[t]
      inPart == me.stage = "work" /\ me.fan
  IN  /\ inPart => me.child \in Rows /\ row[me.child] = NewRow(t, me.run)
      /\ ~inPart => me.child = None
      /\ ~Working(t) => me.results = {}
      /\ Working(t) =>
           /\ me.run \in Rows /\ row[me.run] = NewRow(t, None)
           /\ me.fan =>
                me.results = {row[k].status : k \in Below(me.run) \ {me.child}}
           /\ ~me.fan => Below(me.run) = {}

\* Of a row: its parent is there, is of the same task and no part itself, and
\* tells what its parts tell once it has ended.
Tells(r) ==
  /\ row[r].parent # None =>
       /\ row[r].parent \in Rows
       /\ row[row[r].parent].parent = None
       /\ row[row[r].parent].task = row[r].task
  /\ row[r].status # "running" /\ Below(r) # {}
       => row[r].status = Rollup({row[k].status : k \in Below(r)})

RowsRight ==
  ~purged => (\A t \in Thread : Owns(t)) /\ (\A r \in Rows : Tells(r))

\* What is stored of a valid task is a sane task.
LEMMA StoredIsSane ==
  ASSUME NEW t \in Task, Valid(t)
  PROVE  Stored(t) \in Task /\ Sane(Stored(t))
<1>1. t.targets # {} => NextOf(t.targets) \in t.targets
  BY DEF NextOf
<1> HIDE DEF NextOf
<1>2. t.targets \subseteq Tenant
  BY DEF Task
<1>3. /\ Stored(t).kind = t.kind
      /\ Stored(t).source = t.source
      /\ Stored(t).targets = t.targets
      /\ Stored(t).target = IF t.targets = {} THEN t.target ELSE NextOf(t.targets)
  BY DEF Stored, Task
<1>4. Sane(Stored(t))
  BY <1>1, <1>3 DEF Valid, Sane
<1>5. Stored(t) \in Task
  BY <1>1, <1>2 DEF Stored, Task
<1> QED
  BY <1>4, <1>5

\* An update of a task is a task.
LEMMA MergedIsTask ==
  ASSUME NEW t \in Task, NEW b \in Body
  PROVE  Merged(t, b) \in Task
<1> DEFINE m == Merged(t, b)
<1>1. /\ m.kind \in {"sync", "import"} /\ m.mode \in {"type", "label"}
      /\ m.source \in Tenant /\ m.cron \in Cron
  BY DEF Merged, Said, Task, Body
<1>2. m.target \in Tenant \cup {None} /\ m.targets \in SUBSET Tenant
  <2>1. /\ Said(b.target, t.target) \in Tenant \cup {None}
        /\ Said(b.targets, t.targets) \in SUBSET Tenant
    <3>1. t.target \in Tenant \cup {None} /\ t.targets \in SUBSET Tenant
      BY DEF Task
    <3>2. /\ b.target # Keep => b.target \in Tenant \cup {None}
          /\ b.targets # Keep => b.targets \in SUBSET Tenant
      BY DEF Body
    <3> QED
      BY <3>1, <3>2 DEF Said
  <2>2. /\ m.target \in {None, Said(b.target, t.target)}
        /\ m.targets \in {{}, Said(b.targets, t.targets)}
    BY DEF Merged
  <2>3. {} \in SUBSET Tenant
    OBVIOUS
  <2> QED
    BY <2>1, <2>2, <2>3
<1>3. /\ m.groups \in BOOLEAN /\ m.label \in BOOLEAN
      /\ m.deletes \in BOOLEAN /\ m.enabled \in BOOLEAN
  BY DEF Merged, Said, Task, Body
<1>4. m.products \in 0..2
  BY DEF Merged, Said, Task, Body
<1>5. m = [kind |-> m.kind, source |-> m.source, target |-> m.target,
           targets |-> m.targets, groups |-> m.groups, mode |-> m.mode,
           label |-> m.label, deletes |-> m.deletes,
           products |-> m.products, cron |-> m.cron, enabled |-> m.enabled]
  BY DEF Merged
<1> HIDE DEF m
<1>6. m \in Task
  BY <1>1, <1>2, <1>3, <1>4, <1>5 DEF Task
<1> QED
  BY <1>6 DEF m

-----------------------------------------------------------------------------
\* Types.
LEMMA IdleIsCall == Idle \in RunCall
BY DEF Idle, RunCall

\* The database an earlier server left has the types of the tables.
LEMMA InitTyped == Init => TypeOK
<1> SUFFICES ASSUME Init PROVE TypeOK
  OBVIOUS
<1>1. PICK old \in {Stored(t) : t \in {n \in News : Valid(n)}} \cup {None} :
        /\ task = [i \in TaskId |-> IF i = 1 THEN old ELSE None]
        /\ job \in [TaskId -> {None} \cup {t.cron : t \in {old} \ {None}}]
  BY DEF Init
<1>2. old \in Task \cup {None}
  BY StoredIsSane, NewsAssumption
<1>3. {None} \cup {t.cron : t \in {old} \ {None}} \subseteq Cron \cup {None}
  BY <1>2 DEF Task
<1>4. job \in [TaskId -> Cron \cup {None}]
  BY <1>1, <1>3
<1>5. task \in [TaskId -> Task \cup {None}]
  BY <1>1, <1>2
<1> QED
  <2>1. /\ 0 \in 0..MaxRequests /\ 0 \in 0..MaxCalls /\ 0 \in 0..MaxStops
    BY BoundsAssumption
  <2>2. /\ client \in [Client -> Waiting \cup {None}]
        /\ thread \in [Thread -> RunCall]
        /\ row \in [RowId -> RunRow \cup {None}]
    BY IdleIsCall DEF Init
  <2> QED
    BY <1>4, <1>5, <2>1, <2>2 DEF Init, TypeOK

LEMMA TellsTyped ==
  ASSUME TypeOK, NEW c \in Client, NEW i \in TaskId, NEW t \in Task \cup {None},
         Told(c, i, t)
  PROVE  client' \in [Client -> Waiting \cup {None}]
<1>1. t # None => t.cron \in Cron
  BY DEF Task
<1>2. IF t # None /\ t.enabled
        THEN [op |-> "register", task |-> i, cron |-> t.cron] \in Waiting
        ELSE [op |-> "remove", task |-> i, cron |-> None] \in Waiting
  BY <1>1 DEF Waiting
<1> QED
  BY <1>2 DEF Told, TypeOK

LEMMA NotesTyped ==
  ASSUME TypeOK, NEW i \in TaskId, Noted(i)
  PROVE  raced' \subseteq TaskId /\ missed' \subseteq TaskId
BY DEF Noted, TypeOK

\* A request stores tasks.
LEMMA RequestTyped ==
  ASSUME TypeOK, NEW c \in Client,
         CreateTask(c) \/ UpdateTask(c) \/ SwitchTask(c) \/ DeleteTask(c)
  PROVE  TypeOK'
<1>1. requests' \in 0..MaxRequests
  BY BoundsAssumption DEF TypeOK, CreateTask, UpdateTask, SwitchTask, DeleteTask,
                          Asks, Client
<1>2. CASE CreateTask(c)
  <2>1. PICK t \in News : LET i == NextId(Tasks)
                              s == Stored(t)
       IN  /\ Valid(t) /\ i \in TaskId
           /\ task' = [task EXCEPT ![i] = s]
           /\ IF s.enabled THEN Told(c, i, s) ELSE UNCHANGED client
           /\ Noted(i)
    BY <1>2 DEF CreateTask
  <2>2. Stored(t) \in Task
    BY <2>1, StoredIsSane, NewsAssumption
  <2>3. task' \in [TaskId -> Task \cup {None}]
    BY <2>1, <2>2 DEF TypeOK
  <2>4. client' \in [Client -> Waiting \cup {None}]
    BY <2>1, <2>2, TellsTyped DEF TypeOK
  <2> QED
    BY <1>1, <1>2, <2>1, <2>3, <2>4, NotesTyped DEF CreateTask, TypeOK
<1>3. CASE UpdateTask(c)
  <2>1. PICK i \in Tasks, b \in Bodies :
           /\ Valid(Merged(task[i], b))
           /\ task' = [task EXCEPT ![i] = Stored(Merged(task[i], b))]
           /\ Told(c, i, Stored(Merged(task[i], b))) /\ Noted(i)
    BY <1>3 DEF UpdateTask
  <2>2. Stored(Merged(task[i], b)) \in Task
    BY <2>1, StoredIsSane, MergedIsTask, BodiesAssumption DEF Tasks, TypeOK
  <2>3. i \in TaskId
    BY DEF Tasks
  <2>4. task' \in [TaskId -> Task \cup {None}]
    BY <2>1, <2>2, <2>3 DEF TypeOK
  <2>5. client' \in [Client -> Waiting \cup {None}]
    BY <2>1, <2>2, <2>3, TellsTyped
  <2> QED
    BY <1>1, <1>3, <2>1, <2>3, <2>4, <2>5, NotesTyped DEF UpdateTask, TypeOK
<1>4. CASE SwitchTask(c)
  <2>1. PICK i \in Tasks, on \in BOOLEAN :
           /\ task' = [task EXCEPT ![i] = [task[i] EXCEPT !.enabled = on]]
           /\ Told(c, i, [task[i] EXCEPT !.enabled = on]) /\ Noted(i)
    BY <1>4 DEF SwitchTask
  <2>2. i \in TaskId /\ task[i] \in Task
    BY DEF Tasks, TypeOK
  <2>3. [task[i] EXCEPT !.enabled = on] \in Task
    BY <2>2 DEF Task
  <2>4. task' \in [TaskId -> Task \cup {None}]
    BY <2>1, <2>2, <2>3 DEF TypeOK
  <2>5. client' \in [Client -> Waiting \cup {None}]
    BY <2>1, <2>2, <2>3, TellsTyped
  <2> QED
    BY <1>1, <1>4, <2>1, <2>2, <2>4, <2>5, NotesTyped DEF SwitchTask, TypeOK
<1>5. CASE DeleteTask(c)
  <2>1. PICK i \in Tasks :
       /\ task' = [task EXCEPT ![i] = None]
       /\ row' = [r \in RowId |-> IF row[r] # None /\ row[r].task = i
                                    THEN None ELSE row[r]]
       /\ purged' = (purged \/ \E t \in Thread : thread[t].task = i)
       /\ Told(c, i, None) /\ Noted(i)
    BY <1>5 DEF DeleteTask
  <2>2. i \in TaskId
    BY DEF Tasks
  <2>3. client' \in [Client -> Waiting \cup {None}]
    BY <2>1, <2>2, TellsTyped
  <2>4. /\ task' \in [TaskId -> Task \cup {None}]
        /\ row' \in [RowId -> RunRow \cup {None}]
        /\ purged' \in BOOLEAN
    BY <2>1, <2>2 DEF TypeOK
  <2> QED
    BY <1>1, <1>5, <2>1, <2>2, <2>3, <2>4, NotesTyped DEF DeleteTask, TypeOK
<1> QED
  BY <1>2, <1>3, <1>4, <1>5

\* Starts, stops and APScheduler keep the types.
LEMMA ServerTyped ==
  ASSUME TypeOK,
         \/ StartServer \/ ReconcileDone \/ StopServer
         \/ \E i \in TaskId : ReconcileAdd(i) \/ ReconcileRemove(i)
         \/ \E c \in Client : TellScheduler(c)
  PROVE  TypeOK'
<1>1. CASE StartServer \/ ReconcileDone
  BY <1>1 DEF StartServer, ReconcileDone, db, hist, TypeOK
<1>2. CASE StopServer
  <2>1. thread' \in [Thread -> RunCall]
    BY <1>2, IdleIsCall DEF StopServer
  <2>2. stops' \in 0..MaxStops
    BY <1>2, BoundsAssumption DEF StopServer, TypeOK
  <2> QED
    BY <1>2, <2>1, <2>2 DEF StopServer, db, TypeOK
<1>3. ASSUME NEW i \in TaskId, ReconcileAdd(i) \/ ReconcileRemove(i)
      PROVE  TypeOK'
  <2>1. Enabled(i) => task[i].cron \in Cron
    BY DEF Enabled, TypeOK, Task
  <2> QED
    BY <1>3, <2>1 DEF ReconcileAdd, ReconcileRemove, hist, TypeOK
<1>4. ASSUME NEW c \in Client, TellScheduler(c)
      PROVE  TypeOK'
  <2>1. client[c].task \in TaskId /\ client[c].cron \in Cron \cup {None}
    BY <1>4 DEF TellScheduler, TypeOK, Waiting
  <2> QED
    BY <1>4, <2>1 DEF TellScheduler, hist, TypeOK
<1> QED
  BY <1>1, <1>2, <1>3, <1>4

\* A call starts with the locals of one.
LEMMA CallTyped ==
  ASSUME TypeOK, NEW t \in Thread, NEW i \in TaskId, NEW auto \in BOOLEAN,
         Call(t, i, auto)
  PROVE  TypeOK'
<1>1. [Idle EXCEPT !.stage = "called", !.task = i, !.auto = auto] \in RunCall
  BY DEF Idle, RunCall
<1>2. thread' \in [Thread -> RunCall]
  BY <1>1 DEF Call, TypeOK
<1>3. calls' \in 0..MaxCalls
  BY BoundsAssumption DEF Call, Thread
<1> QED
  BY <1>2, <1>3 DEF Call, db, hist, TypeOK

\* A step of a call changes its locals and the history.
LEMMA MovedTyped ==
  ASSUME TypeOK, NEW t \in Thread, NEW w \in RunCall, Moved(t, w),
         row' \in [RowId -> RunRow \cup {None}]
  PROVE  TypeOK'
BY DEF Moved, hist, TypeOK

LEMMA WrittenTyped ==
  ASSUME TypeOK, NEW r \in RowId \cup {None}, NEW s \in Statuses, Written(r, s)
  PROVE  row' \in [RowId -> RunRow \cup {None}]
<1>1. r # None /\ row[r] # None => [row[r] EXCEPT !.status = s] \in RunRow
  BY DEF TypeOK, RunRow
<1> QED
  BY <1>1 DEF Written, TypeOK

LEMMA NewRowTyped ==
  ASSUME NEW t \in Thread, thread[t].task \in TaskId,
         NEW p \in RowId \cup {None}
  PROVE  NewRow(t, p) \in RunRow
BY DEF NewRow, RunRow

LEMMA RollupStatus ==
  ASSUME NEW results PROVE Rollup(results) \in Statuses
BY DEF Rollup, Statuses

\* The steps of a call keep the types.
LEMMA StepTyped ==
  ASSUME TypeOK, Counted, NEW t \in Thread, Step(t)
  PROVE  TypeOK'
<1> DEFINE me == thread[t]
<1>1. me \in RunCall
  BY DEF TypeOK
<1>2. me.stage # "idle" => me.task \in TaskId
  BY <1>1 DEF Counted, RunCall
<1>3. row \in [RowId -> RunRow \cup {None}]
  BY DEF TypeOK
<1>4. CASE Dispatch(t)
  <2> DEFINE now == task[me.task]
             fan == now.kind = "sync" /\ Cardinality(now.targets) > 1
  <2>1. me.stage = "called" /\ UNCHANGED row
    BY <1>4 DEF Dispatch
  <2>2. CASE ~Enabled(me.task)
    <3>1. Moved(t, Idle)
      BY <1>4, <2>2 DEF Dispatch
    <3> QED
      BY <1>3, <2>1, <3>1, IdleIsCall, MovedTyped
  <2>3. CASE Enabled(me.task)
    <3>1. now \in Task
      BY <1>2, <2>1, <2>3 DEF Enabled, TypeOK
    <3>2. now.kind \in {"sync", "import"} /\ now.targets \subseteq Tenant
      BY <3>1 DEF Task
    <3>3. PICK f \in BOOLEAN : f = fan
      OBVIOUS
    <3> DEFINE w == [me EXCEPT !.stage = now.kind, !.fan = f,
                          !.left = IF f THEN now.targets ELSE {},
                          !.seen = now]
    <3>4. w \in RunCall
      BY <1>1, <3>1, <3>2 DEF RunCall
    <3>5. Moved(t, w)
      BY <1>4, <2>3, <3>3 DEF Dispatch
    <3> QED
      BY <1>3, <2>1, <3>4, <3>5, MovedTyped
  <2> QED
    BY <2>2, <2>3
<1>5. CASE Load(t)
  <2> DEFINE now == task[me.task]
  <2>1. me.stage \in {"sync", "import"} /\ UNCHANGED row
    BY <1>5 DEF Load
  <2>2. CASE ~Enabled(me.task)
    <3>1. Moved(t, Idle)
      BY <1>5, <2>2 DEF Load
    <3> QED
      BY <1>3, <2>1, <3>1, IdleIsCall, MovedTyped
  <2>3. CASE Enabled(me.task)
    <3>1. now \in Task
      BY <1>2, <2>1, <2>3 DEF Enabled, TypeOK
    <3> DEFINE left == IF me.stage = "import" THEN 1..now.products
                       ELSE IF me.fan THEN me.left ELSE {now.target}
    <3>2. left \subseteq Tenant \cup {None} \cup 1..2
      <4>1. now.products \in 0..2 /\ now.target \in Tenant \cup {None}
        BY <3>1 DEF Task
      <4>2. me.left \subseteq Tenant \cup {None} \cup 1..2
        BY <1>1 DEF RunCall
      <4> QED
        BY <4>1, <4>2
    <3>3. now.source \in Tenant
      BY <3>1 DEF Task
    <3> HIDE DEF left
    <3>4. PICK b \in BOOLEAN : b = (me.seen # now)
      OBVIOUS
    <3> DEFINE w == [me EXCEPT !.stage = "open", !.source = now.source,
                          !.left = left, !.torn = b, !.seen = None]
    <3>5. w \in RunCall
      BY <1>1, <3>2, <3>3 DEF RunCall
    <3>6. Moved(t, w)
      BY <1>5, <2>3, <3>4 DEF Load, left
    <3> QED
      BY <1>3, <2>1, <3>5, <3>6, MovedTyped
  <2> QED
    BY <2>2, <2>3
<1>6. CASE OpenRun(t)
  <2>1. NextId(Rows) \in RowId /\ me.task \in TaskId
    BY <1>2, <1>6 DEF OpenRun
  <2>2. row' \in [RowId -> RunRow \cup {None}]
    BY <1>3, <1>6, <2>1, NewRowTyped DEF OpenRun
  <2>3. [me EXCEPT !.run = NextId(Rows),
                   !.stage = IF me.left = {} THEN "close" ELSE "next"] \in RunCall
    BY <1>1, <2>1 DEF RunCall
  <2> QED
    BY <1>6, <2>2, <2>3, MovedTyped DEF OpenRun
<1>7. CASE OpenPart(t)
  <2> DEFINE r == NextId(Rows)
             n == NextOf(me.left)
             w == [me EXCEPT !.stage = "work", !.now = n, !.left = @ \ {n},
                             !.child = IF me.fan THEN r ELSE None]
  <2>1. me.task \in TaskId /\ (me.fan => r \in RowId) /\ me.stage = "next"
    BY <1>2, <1>7 DEF OpenPart
  <2>2. n \in me.left
    BY <2>1 DEF Counted, NextOf
  <2>3. w \in RunCall
    <3> HIDE DEF r, n
    <3>1. n \in Tenant \cup 1..2 \cup {None}
      BY <1>1, <2>2 DEF RunCall
    <3> QED
      BY <1>1, <2>1, <3>1 DEF RunCall
  <2>4. row' \in [RowId -> RunRow \cup {None}]
    <3>1. me.fan => NewRow(t, me.run) \in RunRow
      BY <1>1, <2>1, NewRowTyped DEF RunCall
    <3> QED
      BY <1>3, <1>7, <2>1, <3>1 DEF OpenPart
  <2>5. Moved(t, w)
    BY <1>7 DEF OpenPart
  <2> QED
    BY <2>3, <2>4, <2>5, MovedTyped
<1>8. CASE EndPart(t)
  <2>1. PICK s \in Ends :
           /\ Written(me.child, s)
           /\ Moved(t, [me EXCEPT !.stage = IF me.left = {} THEN "close"
                                                            ELSE "next",
                          !.now = None, !.child = None,
                          !.results = Results(me, s)])
    BY <1>8 DEF EndPart
  <2>2. s \in Statuses
    BY EndsAssumption
  <2>3. [me EXCEPT !.stage = IF me.left = {} THEN "close" ELSE "next",
                   !.now = None, !.child = None,
                   !.results = Results(me, s)] \in RunCall
    BY <1>1, <2>2 DEF RunCall, Results
  <2>4. me.child \in RowId \cup {None}
    BY <1>1 DEF RunCall
  <2> QED
    BY <2>1, <2>2, <2>3, <2>4, WrittenTyped, MovedTyped
<1>9. CASE CloseRun(t)
  <2>1. me.run \in RowId \cup {None}
    BY <1>1 DEF RunCall
  <2> QED
    BY <1>9, <2>1, RollupStatus, IdleIsCall, WrittenTyped, MovedTyped DEF CloseRun
<1> QED
  BY <1>4, <1>5, <1>6, <1>7, <1>8, <1>9 DEF Step

-----------------------------------------------------------------------------

\* Requests and calls come in order, and tasks stay sane.
LEMMA RequestCounted ==
  ASSUME TypeOK, Counted, NEW c \in Client,
         CreateTask(c) \/ UpdateTask(c) \/ SwitchTask(c) \/ DeleteTask(c)
  PROVE  Counted'
<1>1. requests' = c /\ c = requests + 1 /\ UNCHANGED <<thread, calls>>
  BY DEF CreateTask, UpdateTask, SwitchTask, DeleteTask, Asks
<1>2. \A d \in Client \ {c} : client'[d] = client[d]
  BY DEF CreateTask, UpdateTask, SwitchTask, DeleteTask, Told, TypeOK
<1>3. requests \in Nat /\ \A d \in Client : d \in Nat
  BY DEF TypeOK, Client
<1> QED
  BY <1>1, <1>2, <1>3 DEF Counted

LEMMA ServerCounted ==
  ASSUME TypeOK, Counted,
         \/ StartServer \/ ReconcileDone \/ StopServer
         \/ \E i \in TaskId : ReconcileAdd(i) \/ ReconcileRemove(i)
         \/ \E c \in Client : TellScheduler(c)
  PROVE  Counted'
<1>1. CASE StartServer \/ ReconcileDone
  BY <1>1 DEF StartServer, ReconcileDone, Counted
<1>2. CASE StopServer
  BY <1>2 DEF StopServer, Counted, Idle
<1>3. ASSUME NEW i \in TaskId, ReconcileAdd(i) \/ ReconcileRemove(i)
      PROVE  Counted'
  BY <1>3 DEF ReconcileAdd, ReconcileRemove, Counted
<1>4. ASSUME NEW c \in Client, TellScheduler(c)
      PROVE  Counted'
  BY <1>4 DEF TellScheduler, Counted, TypeOK
<1> QED
  BY <1>1, <1>2, <1>3, <1>4

\* What the steps of a call do to its local variables.
LEMMA CallMoves ==
  ASSUME TypeOK, NEW t \in Thread, Step(t)
  PROVE  /\ \A u \in Thread \ {t} : thread'[u] = thread[u]
         /\ UNCHANGED <<task, job, server, client, hist, requests, calls, stops>>
BY DEF Step, Dispatch, Load, OpenRun, OpenPart, EndPart, CloseRun, Moved, TypeOK

LEMMA DispatchDoes ==
  ASSUME TypeOK, NEW t \in Thread, Dispatch(t)
  PROVE  LET me == thread[t]
             w == thread'[t]
             now == task[me.task]
             fan == now.kind = "sync" /\ Cardinality(now.targets) > 1
         IN  /\ me.stage = "called" /\ UNCHANGED row
             /\ \/ w = Idle
                \/ /\ Enabled(me.task)
                   /\ w.stage = now.kind /\ w.seen = now
                   /\ w.fan => fan /\ w.left = now.targets
                   /\ w.task = me.task /\ w.source = me.source
                   /\ w.now = me.now /\ w.torn = me.torn
                   /\ w.child = me.child /\ w.results = me.results
<1> DEFINE me == thread[t]
           now == task[me.task]
           fan == now.kind = "sync" /\ Cardinality(now.targets) > 1
<1>1. me \in RunCall
  BY DEF TypeOK
<1>2. me.stage = "called" /\ UNCHANGED row
  BY DEF Dispatch
<1>3. CASE ~Enabled(me.task)
  BY <1>2, <1>3 DEF Dispatch, Moved, TypeOK
<1>4. CASE Enabled(me.task)
  <2>1. thread'[t] = [me EXCEPT !.stage = now.kind, !.fan = fan,
                        !.left = IF fan THEN now.targets ELSE {}, !.seen = now]
    BY <1>4 DEF Dispatch, Moved, TypeOK
  <2> QED
    BY <1>1, <1>2, <1>4, <2>1 DEF RunCall
<1> QED
  BY <1>3, <1>4

LEMMA LoadDoes ==
  ASSUME TypeOK, NEW t \in Thread, Load(t)
  PROVE  LET me == thread[t]
             w == thread'[t]
             now == task[me.task]
         IN  /\ me.stage \in {"sync", "import"} /\ UNCHANGED row
             /\ \/ w = Idle
                \/ /\ Enabled(me.task)
                   /\ w.stage = "open" /\ w.source = now.source
                   /\ w.left = IF me.stage = "import" THEN 1..now.products
                               ELSE IF me.fan THEN me.left ELSE {now.target}
                   /\ w.torn = (me.seen # now) /\ w.seen = None
                   /\ w.task = me.task /\ w.now = me.now /\ w.fan = me.fan
                   /\ w.child = me.child /\ w.results = me.results
<1> DEFINE me == thread[t]
           now == task[me.task]
<1>1. me \in RunCall
  BY DEF TypeOK
<1>2. me.stage \in {"sync", "import"} /\ UNCHANGED row
  BY DEF Load
<1>3. CASE ~Enabled(me.task)
  BY <1>2, <1>3 DEF Load, Moved, TypeOK
<1>4. CASE Enabled(me.task)
  <2>1. thread'[t] = [me EXCEPT !.stage = "open", !.source = now.source,
                          !.left = IF me.stage = "import" THEN 1..now.products
                                   ELSE IF me.fan THEN @ ELSE {now.target},
                          !.torn = me.seen # now, !.seen = None]
    BY <1>4 DEF Load, Moved, TypeOK
  <2> QED
    BY <1>1, <1>2, <1>4, <2>1 DEF RunCall
<1> QED
  BY <1>3, <1>4

LEMMA OpenRunDoes ==
  ASSUME TypeOK, NEW t \in Thread, OpenRun(t)
  PROVE  LET me == thread[t]
             w == thread'[t]
         IN  /\ me.stage = "open" /\ NextId(Rows) \in RowId
             /\ row' = [row EXCEPT ![NextId(Rows)] = NewRow(t, None)]
             /\ w.run = NextId(Rows)
             /\ w.stage = IF me.left = {} THEN "close" ELSE "next"
             /\ w.task = me.task /\ w.source = me.source /\ w.left = me.left
             /\ w.now = me.now /\ w.torn = me.torn /\ w.fan = me.fan
             /\ w.child = me.child /\ w.results = me.results
BY DEF OpenRun, Moved, TypeOK, RunCall

LEMMA OpenPartDoes ==
  ASSUME TypeOK, NEW t \in Thread, OpenPart(t)
  PROVE  LET me == thread[t]
             w == thread'[t]
             r == NextId(Rows)
         IN  /\ me.stage = "next" /\ (me.fan => r \in RowId)
             /\ row' = IF me.fan THEN [row EXCEPT ![r] = NewRow(t, me.run)]
                                 ELSE row
             /\ w.stage = "work" /\ w.now = NextOf(me.left)
             /\ w.left = me.left \ {NextOf(me.left)}
             /\ w.child = IF me.fan THEN r ELSE None
             /\ w.task = me.task /\ w.source = me.source /\ w.run = me.run
             /\ w.torn = me.torn /\ w.fan = me.fan /\ w.results = me.results
BY DEF OpenPart, Moved, TypeOK, RunCall

LEMMA EndPartDoes ==
  ASSUME TypeOK, NEW t \in Thread, EndPart(t)
  PROVE  LET me == thread[t]
             w == thread'[t]
         IN  /\ me.stage = "work"
             /\ w.stage = IF me.left = {} THEN "close" ELSE "next"
             /\ w.now = None /\ w.child = None
             /\ \E s \in Ends : /\ Written(me.child, s)
                                /\ w.results = me.results \cup {s}
             /\ w.task = me.task /\ w.source = me.source /\ w.left = me.left
             /\ w.run = me.run /\ w.torn = me.torn /\ w.fan = me.fan
<1> DEFINE me == thread[t]
<1>1. me \in RunCall /\ me.stage = "work"
  BY DEF TypeOK, EndPart
<1>2. PICK s \in Ends :
        /\ Written(me.child, s)
        /\ Moved(t, [me EXCEPT !.stage = IF me.left = {} THEN "close" ELSE "next",
                       !.now = None, !.child = None,
                       !.results = Results(me, s)])
  BY DEF EndPart
<1>3. thread'[t] = [me EXCEPT !.stage = IF me.left = {} THEN "close" ELSE "next",
                       !.now = None, !.child = None,
                       !.results = me.results \cup {s}]
  BY <1>2 DEF Moved, Results, TypeOK
<1> QED
  BY <1>1, <1>2, <1>3 DEF RunCall

LEMMA CloseRunDoes ==
  ASSUME TypeOK, NEW t \in Thread, CloseRun(t)
  PROVE  /\ thread[t].stage = "close" /\ thread'[t] = Idle
         /\ Written(thread[t].run, Rollup(thread[t].results))
BY DEF CloseRun, Moved, TypeOK

\* A call stays under way until it ends.
LEMMA StepCounted ==
  ASSUME TypeOK, Counted, NEW t \in Thread, Step(t)
  PROVE  Counted'
<1> DEFINE me == thread[t]
           w == thread'[t]
<1>1. me \in RunCall
  BY DEF TypeOK
<1>2. me.stage # "idle" /\ me.task \in TaskId
  BY <1>1 DEF Counted, RunCall, Step, Dispatch, Load, OpenRun, OpenPart,
              EndPart, CloseRun
<1>3. me.task # None
  BY <1>2, NoneAssumption DEF TaskId
<1>4. t <= calls /\ calls' = calls
  <2>1. t \in Nat /\ calls \in Nat
    BY DEF Thread, TypeOK
  <2>2. t > calls => me.stage = "idle"
    BY DEF Counted, Idle
  <2> QED
    BY <1>2, <2>1, <2>2, CallMoves
<1>5. Idle.stage = "idle" /\ Idle.task = None
  BY DEF Idle
<1>6. \/ w = Idle
      \/ w.task = me.task /\ w.stage # "idle" /\ (w.stage = "next" => w.left # {})
  <2>1. CASE Dispatch(t)
    <3>1. Enabled(me.task) => task[me.task].kind \in {"sync", "import"}
      BY <1>2 DEF Enabled, TypeOK, Task
    <3> QED
      BY <2>1, <3>1, DispatchDoes
  <2>2. CASE Load(t)
    BY <2>2, LoadDoes
  <2>3. CASE OpenRun(t)
    BY <2>3, OpenRunDoes
  <2>4. CASE OpenPart(t)
    BY <2>4, OpenPartDoes
  <2>5. CASE EndPart(t)
    BY <2>5, EndPartDoes
  <2>6. CASE CloseRun(t)
    BY <2>6, CloseRunDoes
  <2> QED
    BY <2>1, <2>2, <2>3, <2>4, <2>5, <2>6 DEF Step
<1>7. \A u \in Thread : u > calls' => thread'[u] = Idle
  <2>1. t \in Nat /\ calls \in Nat
    BY DEF Thread, TypeOK
  <2> QED
    BY <1>4, <2>1, CallMoves DEF Counted
<1>8. \A u \in Thread : /\ thread'[u].stage = "idle" <=> thread'[u].task = None
                        /\ thread'[u].stage = "next" => thread'[u].left # {}
  BY <1>3, <1>5, <1>6, CallMoves DEF Counted
<1>9. \A c \in Client : c > requests' => client'[c] = None
  BY CallMoves DEF Counted
<1> QED
  BY <1>7, <1>8, <1>9 DEF Counted

LEMMA CallCounted ==
  ASSUME TypeOK, Counted, NEW t \in Thread, NEW i \in TaskId,
         NEW auto \in BOOLEAN, Call(t, i, auto)
  PROVE  Counted'
<1>1. /\ thread'[t].stage = "called" /\ thread'[t].task = i
      /\ \A u \in Thread \ {t} : thread'[u] = thread[u]
  BY DEF Call, TypeOK, Idle
<1>2. i # None
  BY NoneAssumption DEF TaskId
<1>3. calls \in Nat /\ calls' = calls + 1 /\ t = calls' /\ \A u \in Thread : u \in Nat
  BY DEF Call, TypeOK, Thread
<1>4. UNCHANGED <<client, requests>>
  BY DEF Call
<1> QED
  BY <1>1, <1>2, <1>3, <1>4 DEF Counted

\* The calls that start are APScheduler's and run-now's.
LEMMA StartsCall ==
  ASSUME TypeOK, NEW t \in Thread, Fire(t) \/ Trigger(t)
  PROVE  \E i \in TaskId, auto \in BOOLEAN : Call(t, i, auto)
BY DEF Fire, Trigger, Tasks

\* Requests do not touch the calls, and what they store is sane.
LEMMA RequestStores ==
  ASSUME TypeOK, TasksSane, NEW c \in Client,
         CreateTask(c) \/ UpdateTask(c) \/ SwitchTask(c) \/ DeleteTask(c)
  PROVE  TasksSane' /\ UNCHANGED thread
<1>1. UNCHANGED thread
  BY DEF CreateTask, UpdateTask, SwitchTask, DeleteTask
<1>2. ASSUME NEW i \in TaskId, NEW s, task' = [task EXCEPT ![i] = s],
             s # None => Sane(s)
      PROVE  TasksSane'
  BY <1>2 DEF TasksSane, Tasks, TypeOK
<1>3. CASE CreateTask(c)
  <2>1. PICK t \in News : /\ Valid(t) /\ NextId(Tasks) \in TaskId
                          /\ task' = [task EXCEPT ![NextId(Tasks)] = Stored(t)]
    BY <1>3 DEF CreateTask
  <2> QED
    BY <1>1, <1>2, <2>1, StoredIsSane, NewsAssumption
<1>4. CASE UpdateTask(c)
  <2>1. PICK i \in Tasks, b \in Bodies :
           /\ Valid(Merged(task[i], b))
           /\ task' = [task EXCEPT ![i] = Stored(Merged(task[i], b))]
    BY <1>4 DEF UpdateTask
  <2>2. Sane(Stored(Merged(task[i], b)))
    BY <2>1, StoredIsSane, MergedIsTask, BodiesAssumption DEF Tasks, TypeOK
  <2> QED
    BY <1>1, <1>2, <2>1, <2>2 DEF Tasks
<1>5. CASE SwitchTask(c)
  <2>1. PICK i \in Tasks, on \in BOOLEAN :
           task' = [task EXCEPT ![i] = [task[i] EXCEPT !.enabled = on]]
    BY <1>5 DEF SwitchTask
  <2>2. task[i] \in Task /\ Sane(task[i])
    BY DEF Tasks, TypeOK, TasksSane
  <2>3. Sane([task[i] EXCEPT !.enabled = on])
    BY <2>2 DEF Sane, Task
  <2> QED
    BY <1>1, <1>2, <2>1, <2>3 DEF Tasks
<1>6. CASE DeleteTask(c)
  BY <1>1, <1>2, <1>6 DEF DeleteTask, Tasks
<1> QED
  BY <1>1, <1>3, <1>4, <1>5, <1>6

\* A call that starts begins with nothing.
LEMMA CallSane ==
  ASSUME TypeOK, CallsSane, NEW t \in Thread, NEW i \in TaskId,
         NEW auto \in BOOLEAN, Call(t, i, auto)
  PROVE  CallsSane'
<1>1. /\ thread'[t].stage = "called" /\ thread'[t].source = None
      /\ thread'[t].now = None /\ thread'[t].torn = FALSE
  BY DEF Call, TypeOK, Idle
<1>2. \A u \in Thread \ {t} : thread'[u] = thread[u]
  BY DEF Call, TypeOK
<1>3. SaneCall(thread'[t])
  BY <1>1 DEF SaneCall
<1> QED
  BY <1>2, <1>3 DEF CallsSane

\* An engine works on what a sane task says, or on what it read of another.
LEMMA StepSane ==
  ASSUME TypeOK, Counted, TasksSane, CallsSane, NEW t \in Thread, Step(t)
  PROVE  CallsSane'
<1> DEFINE me == thread[t]
           w == thread'[t]
           now == task[me.task]
<1> SUFFICES SaneCall(w)
  BY CallMoves DEF CallsSane
<1> USE DEF SaneCall
<1>1. me \in RunCall /\ SaneCall(me)
  BY DEF TypeOK, CallsSane
<1>2. me.stage # "idle" => me.task \in TaskId
  BY <1>1 DEF Counted, RunCall
<1>3. SaneCall(Idle)
  BY DEF Idle
<1>4. Enabled(me.task) /\ me.task \in TaskId => now \in Task /\ now # None /\ Sane(now)
  BY DEF Enabled, TypeOK, TasksSane, Tasks
<1>5. CASE Dispatch(t)
  <2>1. CASE w = Idle
    BY <1>3, <2>1
  <2>2. CASE w # Idle
    <3>1. /\ Enabled(me.task) /\ me.stage = "called"
          /\ w.stage = now.kind /\ w.seen = now
          /\ w.fan => now.kind = "sync" /\ w.left = now.targets
          /\ w.source = me.source /\ w.now = me.now /\ w.torn = me.torn
      BY <1>5, <2>2, DispatchDoes
    <3>2. now.kind \in {"sync", "import"} /\ now # None /\ Sane(now)
      BY <1>2, <1>4, <3>1 DEF Task
    <3> QED
      BY <1>1, <3>1, <3>2
  <2> QED
    BY <2>1, <2>2
<1>6. CASE Load(t)
  <2>1. CASE w = Idle
    BY <1>3, <2>1
  <2>2. CASE w # Idle
    <3>1. /\ Enabled(me.task) /\ me.stage \in {"sync", "import"}
          /\ w.stage = "open" /\ w.source = now.source
          /\ w.left = IF me.stage = "import" THEN 1..now.products
                      ELSE IF me.fan THEN me.left ELSE {now.target}
          /\ w.torn = (me.seen # now) /\ w.now = me.now
      BY <1>6, <2>2, LoadDoes
    <3>2. now \in Task /\ Sane(now) /\ me.now = None
      BY <1>1, <1>2, <1>4, <3>1
    <3>3. ASSUME ~w.torn
          PROVE  now.source \notin w.left
      <4>1. me.seen = now /\ now.kind = me.stage
        BY <1>1, <3>1, <3>3
      <4>2. CASE me.stage = "import"
        <5>1. now.products \in 0..2 /\ now.source \in Tenant
          BY <3>2 DEF Task
        <5>2. w.left \subseteq 1..2
          BY <3>1, <4>2, <5>1
        <5> QED
          BY <5>1, <5>2, ProductsAssumption
      <4>3. CASE me.stage = "sync"
        BY <1>1, <3>1, <3>2, <4>1, <4>3 DEF Sane
      <4> QED
        BY <3>1, <4>2, <4>3
    <3>4. now.source # None
      BY <3>2, NoneAssumption DEF Task
    <3> QED
      BY <3>1, <3>2, <3>3, <3>4
  <2> QED
    BY <2>1, <2>2
<1>7. CASE OpenRun(t)
  <2>1. me.stage = "open" /\ w.stage \in {"close", "next"}
    BY <1>7, OpenRunDoes
  <2>2. /\ w.source = me.source /\ w.left = me.left
        /\ w.now = me.now /\ w.torn = me.torn
    BY <1>7, OpenRunDoes
  <2> QED
    BY <1>1, <2>1, <2>2
<1>8. CASE OpenPart(t)
  <2>1. /\ me.stage = "next" /\ w.stage = "work" /\ w.now = NextOf(me.left)
        /\ w.left = me.left \ {NextOf(me.left)}
        /\ w.source = me.source /\ w.torn = me.torn
    BY <1>8, OpenPartDoes
  <2>2. NextOf(me.left) \in me.left
    BY <2>1 DEF Counted, NextOf
  <2> HIDE DEF NextOf
  <2> QED
    BY <1>1, <2>1, <2>2
<1>9. CASE EndPart(t)
  <2>1. /\ me.stage = "work" /\ w.stage \in {"close", "next"} /\ w.now = None
        /\ w.source = me.source /\ w.left = me.left /\ w.torn = me.torn
    BY <1>9, EndPartDoes
  <2> QED
    BY <1>1, <2>1
<1>10. CASE CloseRun(t)
  BY <1>3, <1>10, CloseRunDoes
<1> QED
  BY <1>5, <1>6, <1>7, <1>8, <1>9, <1>10 DEF Step

-----------------------------------------------------------------------------
\* APScheduler's jobs follow the tables.

\* A request on the task i, which becomes t: it will tell APScheduler, or has

\* created a disabled task and need not.
LEMMA RequestTells ==
  ASSUME TypeOK, InStep, NEW c \in Client, NEW i \in TaskId,
         NEW t \in Task \cup {None},
         server = "up", client[c] = None, UNCHANGED <<job, server>>,
         task' = [task EXCEPT ![i] = t], Noted(i),
         \/ Told(c, i, t)
         \/ /\ task[i] = None /\ t # None /\ ~t.enabled
            /\ UNCHANGED client
  PROVE  InStep'
<1>1. ASSUME NEW j \in TaskId \ raced', j # i
      PROVE  ToldOf(j)'
  <2>1. ToldOf(j)
    BY <1>1 DEF InStep, Noted
  <2>2. \A d \in Client : /\ About(j, d)' <=> About(j, d)
                          /\ About(j, d) => client'[d] = client[d]
    BY <1>1 DEF About, Told, TypeOK
  <2>3. Pending(j)' <=> Pending(j)
    BY <2>2 DEF Pending, About
  <2>4. task'[j] = task[j] /\ (Enabled(j)' <=> Enabled(j)) /\ job'[j] = job[j]
    BY <1>1 DEF Enabled, TypeOK
  <2>5. j \in missed' <=> j \in missed
    BY <1>1 DEF Noted
  <2> QED
    BY <2>1, <2>2, <2>3, <2>4, <2>5 DEF ToldOf
<1>2. ASSUME i \notin raced'
      PROVE  ToldOf(i)'
  <2>1. ~Pending(i) /\ i \notin raced /\ ToldOf(i)
    BY <1>2 DEF Noted, InStep
  <2>2. \A d \in Client : ~About(i, d)
    BY <2>1 DEF Pending, About
  <2>3. task'[i] = t /\ (Enabled(i)' <=> t # None /\ t.enabled)
    BY DEF Enabled, TypeOK
  <2>4. CASE Told(c, i, t)
    <3> DEFINE e == IF t # None /\ t.enabled
                      THEN [op |-> "register", task |-> i, cron |-> t.cron]
                      ELSE [op |-> "remove", task |-> i, cron |-> None]
    <3>1. client' = [client EXCEPT ![c] = e]
      BY <2>4 DEF Told
    <3>2. /\ e.task = i
          /\ e.cron = IF t # None /\ t.enabled THEN t.cron ELSE None
      OBVIOUS
    <3>3. e # None
      <4>1. e \in Waiting
        BY DEF Waiting, Task
      <4> QED
        BY <4>1, RecordAssumption
    <3> HIDE DEF e
    <3>4. client'[c] = e /\ \A d \in Client \ {c} : client'[d] = client[d]
      BY <3>1 DEF TypeOK
    <3>5. About(i, c)' /\ \A d \in Client \ {c} : ~About(i, d)'
      BY <2>2, <3>2, <3>3, <3>4 DEF About
    <3>6. Pending(i)'
      BY <3>5 DEF Pending, About
    <3> QED
      BY <2>3, <3>2, <3>4, <3>5, <3>6 DEF ToldOf
  <2>5. CASE task[i] = None /\ t # None /\ ~t.enabled /\ UNCHANGED client
    <3>1. \A d \in Client : ~About(i, d)'
      BY <2>2, <2>5 DEF About
    <3>2. ~Enabled(i) /\ ~Enabled(i)'
      BY <2>3, <2>5 DEF Enabled
    <3>3. job[i] = None
      BY <2>1, <3>2 DEF ToldOf
    <3> QED
      BY <3>1, <3>2, <3>3 DEF ToldOf
  <2> QED
    BY <2>4, <2>5
<1> QED
  BY <1>1, <1>2 DEF InStep

\* Requests keep the tables and APScheduler in step.
LEMMA RequestInStep ==
  ASSUME TypeOK, Counted, InStep, NEW c \in Client,
         CreateTask(c) \/ UpdateTask(c) \/ SwitchTask(c) \/ DeleteTask(c)
  PROVE  InStep'
<1>1. server = "up" /\ c = requests + 1 /\ UNCHANGED <<job, server>>
  BY DEF CreateTask, UpdateTask, SwitchTask, DeleteTask, Asks
<1>2. client[c] = None
  BY <1>1 DEF Counted, TypeOK
<1>3. CASE CreateTask(c)
  <2>1. PICK t \in News :
          /\ Valid(t) /\ NextId(Tasks) \in TaskId
          /\ task' = [task EXCEPT ![NextId(Tasks)] = Stored(t)]
          /\ IF Stored(t).enabled THEN Told(c, NextId(Tasks), Stored(t))
                                  ELSE UNCHANGED client
          /\ Noted(NextId(Tasks))
    BY <1>3 DEF CreateTask
  <2>2. Stored(t) \in Task /\ Stored(t) # None
    BY <2>1, StoredIsSane, NewsAssumption, NoneAssumption
  <2>3. task[NextId(Tasks)] = None
    <3>1. MaxTask \in Nat /\ Tasks \subseteq 1..MaxTask
      BY BoundsAssumption DEF Tasks, TaskId
    <3>2. NextId(Tasks) \notin Tasks
      BY <3>1, NextIdIsNew
    <3> QED
      BY <2>1, <3>2 DEF Tasks
  <2> QED
    BY <1>1, <1>2, <2>1, <2>2, <2>3, RequestTells
<1>4. CASE UpdateTask(c)
  <2>1. PICK i \in Tasks, b \in Bodies :
           /\ Valid(Merged(task[i], b))
           /\ task' = [task EXCEPT ![i] = Stored(Merged(task[i], b))]
           /\ Told(c, i, Stored(Merged(task[i], b))) /\ Noted(i)
    BY <1>4 DEF UpdateTask
  <2>2. i \in TaskId /\ Stored(Merged(task[i], b)) \in Task
    BY <2>1, StoredIsSane, MergedIsTask, BodiesAssumption DEF Tasks, TypeOK
  <2> QED
    BY <1>1, <1>2, <2>1, <2>2, RequestTells
<1>5. CASE SwitchTask(c)
  <2>1. PICK i \in Tasks, on \in BOOLEAN :
           /\ task' = [task EXCEPT ![i] = [task[i] EXCEPT !.enabled = on]]
           /\ Told(c, i, [task[i] EXCEPT !.enabled = on]) /\ Noted(i)
    BY <1>5 DEF SwitchTask
  <2>2. i \in TaskId /\ task[i] \in Task
    BY DEF Tasks, TypeOK
  <2>3. [task[i] EXCEPT !.enabled = on] \in Task
    BY <2>2 DEF Task
  <2> QED
    BY <1>1, <1>2, <2>1, <2>2, <2>3, RequestTells
<1>6. CASE DeleteTask(c)
  <2>1. PICK i \in Tasks :
           task' = [task EXCEPT ![i] = None] /\ Told(c, i, None) /\ Noted(i)
    BY <1>6 DEF DeleteTask
  <2>2. i \in TaskId
    BY DEF Tasks
  <2> QED
    BY <1>1, <1>2, <2>1, <2>2, RequestTells
<1> QED
  BY <1>3, <1>4, <1>5, <1>6

\* What a request tells APScheduler is what the task's row says, unless

\* another one is on its way.
LEMMA TellInStep ==
  ASSUME TypeOK, InStep, NEW c \in Client, TellScheduler(c)
  PROVE  InStep'
<1> DEFINE i == client[c].task
<1>1. /\ client[c] # None /\ i \in TaskId
      /\ UNCHANGED <<task, server, raced, missed>>
  BY DEF TellScheduler, hist, TypeOK, Waiting
<1>2. /\ job' = [job EXCEPT ![i] = client[c].cron]
      /\ client'[c] = None /\ \A d \in Client \ {c} : client'[d] = client[d]
  BY DEF TellScheduler, TypeOK
<1>3. server = "up"
  BY <1>1 DEF InStep
<1>4. ASSUME NEW j \in TaskId \ raced
      PROVE  ToldOf(j)'
  <2>1. ToldOf(j)
    BY DEF InStep
  <2>2. \A d \in Client : About(j, d)' <=> d # c /\ About(j, d)
    BY <1>2 DEF About
  <2>3. Enabled(j)' <=> Enabled(j)
    BY <1>1 DEF Enabled
  <2>4. /\ \A d, e \in Client : About(j, d)' /\ About(j, e)' => d = e
        /\ \A d \in Client : About(j, d)' =>
             client'[d].cron = IF Enabled(j)' THEN task'[j].cron ELSE None
    BY <1>1, <1>2, <2>1, <2>2, <2>3 DEF ToldOf
  <2>5. CASE j = i
    <3>1. client[c].cron = IF Enabled(j) THEN task[j].cron ELSE None
      BY <1>1, <2>1, <2>5 DEF ToldOf, About
    <3>2. job'[j] = client[c].cron
      BY <1>1, <1>2, <2>5 DEF TypeOK
    <3>3. Enabled(j) => task[j].cron # None
      BY NoneAssumption DEF Enabled, TypeOK, Task
    <3> QED
      BY <1>1, <2>3, <2>4, <3>1, <3>2, <3>3 DEF ToldOf
  <2>6. CASE j # i
    <3>1. job'[j] = job[j]
      BY <1>2, <2>6 DEF TypeOK
    <3>2. Pending(j)' <=> Pending(j)
      BY <2>2, <2>6 DEF Pending, About
    <3> QED
      BY <1>1, <2>1, <2>3, <2>4, <3>1, <3>2 DEF ToldOf
  <2> QED
    BY <2>5, <2>6
<1> QED
  BY <1>1, <1>3, <1>4 DEF InStep

\* A start repairs what a stop lost.
LEMMA ServerInStep ==
  ASSUME TypeOK, InStep,
         \/ StartServer \/ ReconcileDone \/ StopServer
         \/ \E i \in TaskId : ReconcileAdd(i) \/ ReconcileRemove(i)
  PROVE  InStep'
<1>1. CASE StartServer
  <2>1. server' # "up" /\ server # "up"
    BY <1>1 DEF StartServer
  <2>2. UNCHANGED <<task, job, client, raced, missed>>
    BY <1>1 DEF StartServer, db, hist
  <2> QED
    BY <2>1, <2>2 DEF InStep, ToldOf, About, Pending, Enabled
<1>2. CASE ReconcileDone
  <2>1. UNCHANGED <<task, job, client, raced, missed>>
    BY <1>2 DEF ReconcileDone, db, hist
  <2>2. server = "starting" /\ server' = "up"
        /\ \A i \in TaskId : Enabled(i) <=> job[i] # None
    BY <1>2 DEF ReconcileDone
  <2> QED
    BY <2>1, <2>2 DEF InStep, ToldOf, About, Pending, Enabled
<1>3. CASE StopServer
  <2>1. /\ server' = "down" /\ raced' = {}
        /\ \A c \in Client : client'[c] = None
        /\ UNCHANGED <<task, job>>
    BY <1>3 DEF StopServer, db
  <2>2. missed' = missed \cup raced \cup {i \in TaskId : Pending(i)}
    BY <1>3 DEF StopServer
  <2>3. \A i \in TaskId : Enabled(i) /\ job[i] # None /\ i \notin missed'
                            => job[i] = task[i].cron
    BY <2>2 DEF InStep, ToldOf
  <2> QED
    BY <2>1, <2>3 DEF InStep, ToldOf, About, Enabled
<1>4. ASSUME NEW i \in TaskId, ReconcileAdd(i) \/ ReconcileRemove(i)
      PROVE  InStep'
  <2>1. /\ server = "starting" /\ server' = server /\ raced = {} /\ raced' = {}
        /\ UNCHANGED <<task, client>>
    BY <1>4 DEF ReconcileAdd, ReconcileRemove, hist, InStep
  <2>2. \A j \in TaskId : ~Pending(j)
    BY <2>1 DEF Pending, InStep
  <2>3. \A j \in TaskId : Enabled(j) /\ job'[j] # None /\ j \notin missed'
                            => job'[j] = task[j].cron
    <3>1. CASE ReconcileAdd(i)
      BY <2>1, <2>2, <3>1 DEF ReconcileAdd, InStep, ToldOf, TypeOK
    <3>2. CASE ReconcileRemove(i)
      BY <2>1, <2>2, <3>2 DEF ReconcileRemove, InStep, ToldOf, TypeOK, hist
    <3> QED
      BY <1>4, <3>1, <3>2
  <2> QED
    BY <2>1, <2>3 DEF InStep, ToldOf, About, Enabled
<1> QED
  BY <1>1, <1>2, <1>3, <1>4

\* Nothing else touches what APScheduler must know.
LEMMA OthersInStep ==
  ASSUME InStep, UNCHANGED <<task, job, server, client, raced, missed>>
  PROVE  InStep'
BY DEF InStep, ToldOf, About, Pending, Enabled

-----------------------------------------------------------------------------
\* The history tells what happened.

\* A row that is there is a record.
LEMMA RowsAre ==
  ASSUME TypeOK
  PROVE  /\ \A r \in RowId : r \in Rows <=> row[r] \in RunRow
         /\ Rows \subseteq RowId /\ None \notin RowId
BY NoneAssumption, RecordAssumption DEF TypeOK, Rows, RowId

\* Two calls have no row in common.
LEMMA RowsApart ==
  ASSUME TypeOK, NEW t \in Thread, NEW u \in Thread, t # u, Owns(t), Owns(u)
  PROVE  /\ Working(t) /\ Working(u) => thread[t].run # thread[u].run
         /\ Working(t) /\ thread[u].child # None
              => thread[t].run # thread[u].child
         /\ thread[t].child # None /\ thread[u].child # None
              => thread[t].child # thread[u].child
BY DEF Owns, NewRow, Working

\* Of what a call owns nothing changes when another one's rows do.
LEMMA StillOwns ==
  ASSUME NEW u \in Thread, Owns(u), thread'[u] = thread[u],
         Working(u) =>
           /\ row'[thread[u].run] = row[thread[u].run]
           /\ Below(thread[u].run)' = Below(thread[u].run)
           /\ \A k \in Below(thread[u].run) : row'[k].status = row[k].status,
         thread[u].child # None => row'[thread[u].child] = row[thread[u].child]
  PROVE  Owns(u)'
<1> DEFINE me == thread[u]
<1>1. Working(u)' <=> Working(u)
  BY DEF Working
<1>2. Working(u) => {row'[k].status : k \in Below(me.run)' \ {me.child}}
                    = {row[k].status : k \in Below(me.run) \ {me.child}}
  OBVIOUS
<1>3. \A p : NewRow(u, p)' = NewRow(u, p)
  BY DEF NewRow
<1>4. me.stage = "work" /\ me.fan => row'[me.child] = row[me.child]
  BY NoneAssumption DEF Owns, Rows, RowId
<1>5. Working(u) => row'[me.run] = row[me.run] /\ Below(me.run)' = Below(me.run)
  OBVIOUS
<1>6. \A k \in Rows : row'[k] = row[k] => k \in Rows'
  BY DEF Rows
<1> QED
  BY <1>1, <1>2, <1>3, <1>4, <1>5, <1>6 DEF Owns

\* A new row is nobody's yet.
LEMMA NewRowIsNew ==
  ASSUME TypeOK
  PROVE  NextId(Rows) \notin Rows
<1>1. MaxRow \in Nat /\ Rows \subseteq 1..MaxRow
  BY BoundsAssumption DEF Rows, RowId
<1> QED
  BY <1>1, NextIdIsNew

\* What a call owns are rows that are there.
LEMMA OwnsRows ==
  ASSUME NEW u \in Thread, Owns(u)
  PROVE  /\ Working(u) => /\ thread[u].run \in Rows
                          /\ row[thread[u].run] = NewRow(u, None)
         /\ thread[u].child # None =>
              /\ thread[u].child \in Rows /\ Working(u) /\ thread[u].fan
              /\ row[thread[u].child] = NewRow(u, thread[u].run)
BY DEF Owns, Rows, Working

\* The call t inserts a row, a part of p or a run.
LEMMA Inserts ==
  ASSUME TypeOK, RowsRight, ~purged, NEW t \in Thread, NEW p \in RowId \cup {None},
         NEW r \in RowId, r \notin Rows, thread[t].task \in TaskId,
         row' = [row EXCEPT ![r] = NewRow(t, p)],
         \A u \in Thread \ {t} : thread'[u] = thread[u],
         p # None => /\ p \in Rows /\ row[p] = NewRow(t, None)
                     /\ Working(t) /\ p = thread[t].run
  PROVE  /\ row'[r] = NewRow(t, p) /\ r \in Rows'
         /\ \A k \in Rows : k # r /\ row'[k] = row[k]
         /\ \A k \in RowId \ {p} : Below(k)' = Below(k)
         /\ p # None => Below(p)' = Below(p) \cup {r}
         /\ Below(r) = {}
         /\ \A k \in Rows' : Tells(k)'
         /\ \A u \in Thread \ {t} : Owns(u)'
<1>1. /\ row'[r] = NewRow(t, p)
      /\ \A k \in RowId \ {r} : row'[k] = row[k]
  BY DEF TypeOK
<1>2. row'[r] # None /\ row'[r].parent = p /\ row'[r].status = "running"
      /\ row'[r].task = thread[t].task
  <2>1. NewRow(t, p) \in RunRow
    BY NewRowTyped
  <2> QED
    BY <1>1, <2>1, RecordAssumption DEF NewRow
<1>3. \A k \in Rows : k \in RowId /\ k # r /\ row'[k] = row[k]
  BY <1>1 DEF Rows
<1>4. \A k \in RowId : k \in Rows' <=> k = r \/ k \in Rows
  BY <1>1, <1>2 DEF Rows
<1>5. \A k \in RowId : Below(k)' = IF k = p THEN Below(k) \cup {r} ELSE Below(k)
  <2> TAKE k \in RowId
  <2>1. \A j \in RowId : j \in Below(k)' <=> j \in Rows' /\ row'[j].parent = k
    BY DEF Below
  <2>2. \A j \in RowId : j \in Below(k) <=> j \in Rows /\ row[j].parent = k
    BY DEF Below
  <2>3. Below(k)' \subseteq RowId /\ Below(k) \subseteq RowId
    BY DEF Below, Rows
  <2> DEFINE new == IF k = p THEN Below(k) \cup {r} ELSE Below(k)
  <2>4. \A j \in RowId : j \in Below(k)' <=> j \in new
    BY <1>2, <1>3, <1>4, <2>1, <2>2
  <2>5. new \subseteq RowId
    BY <2>3
  <2> HIDE DEF new
  <2>6. Below(k)' = new
    BY <2>3, <2>4, <2>5
  <2> QED
    BY <2>6 DEF new
<1>6. Below(r) = {}
  BY RowsAre DEF RowsRight, Tells, Below
<1>7. ASSUME NEW k \in Rows'
      PROVE  Tells(k)'
  <2>1. CASE k = r
    <3>1. p # None => /\ p \in Rows' /\ row'[p] = row[p]
                      /\ row[p].parent = None /\ row[p].task = thread[t].task
      BY <1>3, <1>4 DEF NewRow
    <3> QED
      BY <1>2, <2>1, <3>1 DEF Tells
  <2>2. CASE k # r
    <3>1. k \in Rows /\ k \in RowId /\ Tells(k) /\ row'[k] = row[k]
      BY <1>3, <1>4, <2>2 DEF RowsRight, Rows
    <3>2. row[k].parent # None => /\ row[k].parent \in Rows'
                                  /\ row'[row[k].parent] = row[row[k].parent]
      BY <1>3, <1>4, <3>1 DEF Tells
    <3>3. CASE k = p
      <4>1. row'[k].status = "running"
        BY <3>1, <3>3, NoneAssumption DEF NewRow, RowId
      <4> QED
        BY <3>1, <3>2, <4>1 DEF Tells
    <3>4. CASE k # p
      <4>1. Below(k)' = Below(k) /\ \A j \in Below(k) : row'[j] = row[j]
        BY <1>3, <1>5, <3>1, <3>4 DEF Below
      <4>2. {row'[j].status : j \in Below(k)'} = {row[j].status : j \in Below(k)}
        BY <4>1
      <4> QED
        BY <3>1, <3>2, <4>1, <4>2 DEF Tells
    <3> QED
      BY <3>3, <3>4
  <2> QED
    BY <2>1, <2>2
<1>8. ASSUME NEW u \in Thread \ {t}
      PROVE  Owns(u)'
  <2>1. Owns(u) /\ Owns(t)
    BY DEF RowsRight
  <2>2. Working(u) => /\ thread[u].run \in Rows /\ thread[u].run \in RowId
                      /\ thread[u].run # p
    <3>1. Working(u) => /\ thread[u].run \in Rows
                        /\ row[thread[u].run] = NewRow(u, None)
      BY <2>1, OwnsRows
    <3> QED
      BY <3>1, <1>3, NoneAssumption DEF NewRow, RowId
  <2>3. Working(u) =>
           /\ row'[thread[u].run] = row[thread[u].run]
           /\ Below(thread[u].run)' = Below(thread[u].run)
           /\ \A k \in Below(thread[u].run) : row'[k].status = row[k].status
    BY <1>3, <1>5, <2>2 DEF Below
  <2>4. thread[u].child # None => row'[thread[u].child] = row[thread[u].child]
    BY <1>3, <2>1, OwnsRows
  <2> QED
    BY <2>1, <2>3, <2>4, StillOwns
<1>9. p # None => p \in RowId
  OBVIOUS
<1> QED
  BY <1>1, <1>2, <1>3, <1>4, <1>5, <1>6, <1>7, <1>8, <1>9

\* The columns of a new row.
LEMMA NewRowIs ==
  ASSUME NEW t, NEW p
  PROVE  /\ NewRow(t, p).by = t /\ NewRow(t, p).parent = p
         /\ NewRow(t, p).status = "running"
         /\ NewRow(t, p).task = thread[t].task
BY DEF NewRow

\* The call t writes the outcome of a row of its own.
LEMMA Writes ==
  ASSUME TypeOK, RowsRight, ~purged, NEW t \in Thread, NEW s \in Statuses,
         NEW r \in Rows, NEW p, row[r] = NewRow(t, p),
         row' = [row EXCEPT ![r].status = s],
         \A u \in Thread \ {t} : thread'[u] = thread[u],
         Working(t), p = None => r = thread[t].run,
         p # None => p = thread[t].run,
         Below(r) # {} => s = Rollup({row[k].status : k \in Below(r)})
  PROVE  /\ row'[r] = [row[r] EXCEPT !.status = s]
         /\ \A k \in Rows \ {r} : row'[k] = row[k]
         /\ \A k \in RowId : Below(k)' = Below(k)
         /\ \A k \in Rows' : Tells(k)'
         /\ \A u \in Thread \ {t} : Owns(u)'
<1>1. /\ row'[r] = [row[r] EXCEPT !.status = s]
      /\ \A k \in RowId \ {r} : row'[k] = row[k]
  BY DEF TypeOK, Rows
<1>2. /\ row'[r].parent = row[r].parent /\ row'[r].task = row[r].task
      /\ row'[r].status = s /\ row'[r] # None
  <2>1. row[r] \in RunRow
    BY RowsAre
  <2>2. [row[r] EXCEPT !.status = s] \in RunRow
    BY <2>1 DEF RunRow
  <2> QED
    BY <1>1, <2>1, <2>2, RecordAssumption DEF RunRow
<1>3. Rows' = Rows /\ \A k \in Rows : k \in RowId
  BY <1>1, <1>2 DEF Rows
<1>4. \A k \in Rows : row'[k].parent = row[k].parent /\ row'[k].task = row[k].task
  BY <1>1, <1>2, <1>3
<1>5. \A k : Below(k)' = Below(k)
  BY <1>3, <1>4 DEF Below
<1>6. ASSUME NEW k \in Rows'
      PROVE  Tells(k)'
  <2>1. k \in Rows /\ Tells(k)
    BY <1>3 DEF RowsRight
  <2>2. row'[k].parent # None =>
          /\ row'[k].parent \in Rows'
          /\ row'[row'[k].parent].parent = None
          /\ row'[row'[k].parent].task = row'[k].task
    BY <1>3, <1>4, <2>1 DEF Tells
  <2>3. ASSUME row'[k].status # "running", Below(k)' # {}
        PROVE  row'[k].status = Rollup({row'[j].status : j \in Below(k)'})
    <3>1. r \notin Below(k)
      <4>1. CASE p = None
        BY <2>1, <4>1, RowsAre DEF Below, NewRow
      <4>2. CASE p # None
        <5>1. Owns(t)
          BY DEF RowsRight
        <5>2. p \in Rows /\ row[p] = NewRow(t, None)
          BY <4>2, <5>1, OwnsRows
        <5>3. row[p].status = "running" /\ row'[p] = row[p]
          <6>1. row[p].parent = None /\ row[r].parent = p
            BY <5>2, NewRowIs
          <6> QED
            BY <1>1, <1>3, <4>2, <5>2, <6>1, NewRowIs
        <5>4. k # p
          BY <2>3, <5>2, <5>3
        <5> QED
          BY <5>4 DEF Below, NewRow
      <4> QED
        BY <4>1, <4>2
    <3>2. \A j \in Below(k) : row'[j] = row[j]
      BY <1>1, <1>3, <3>1 DEF Below
    <3>3. {row'[j].status : j \in Below(k)'} = {row[j].status : j \in Below(k)}
      BY <1>5, <3>2
    <3>4. CASE k = r
      BY <1>2, <1>5, <2>3, <3>3, <3>4
    <3>5. CASE k # r
      BY <1>1, <1>3, <1>5, <2>1, <2>3, <3>3, <3>5 DEF Tells
    <3> QED
      BY <3>4, <3>5
  <2> QED
    BY <2>2, <2>3 DEF Tells
<1>7. ASSUME NEW u \in Thread \ {t}
      PROVE  Owns(u)'
  <2>1. Owns(u) /\ Owns(t)
    BY DEF RowsRight
  <2>2. Working(u) => thread[u].run \in Rows /\ thread[u].run # r
    <3>1. Working(u) => /\ thread[u].run \in Rows
                        /\ row[thread[u].run] = NewRow(u, None)
      BY <2>1, OwnsRows
    <3> QED
      BY <3>1, NewRowIs
  <2>3. thread[u].child # None => thread[u].child \in Rows /\ thread[u].child # r
    <3>1. thread[u].child # None =>
            /\ thread[u].child \in Rows
            /\ row[thread[u].child] = NewRow(u, thread[u].run)
      BY <2>1, OwnsRows
    <3> QED
      BY <3>1, NewRowIs
  <2>4. Working(u) => r \notin Below(thread[u].run)
    <3>1. Working(u) => thread[u].run # thread[t].run
      BY <2>1, RowsApart
    <3>2. Working(u) => thread[u].run # p
      BY <3>1, <2>2, RowsAre
    <3>3. row[r].parent = p
      BY NewRowIs
    <3> QED
      BY <3>2, <3>3 DEF Below
  <2>5. Working(u) =>
           /\ row'[thread[u].run] = row[thread[u].run]
           /\ Below(thread[u].run)' = Below(thread[u].run)
           /\ \A k \in Below(thread[u].run) : row'[k].status = row[k].status
    BY <1>1, <1>3, <1>5, <2>2, <2>4 DEF Below
  <2>6. thread[u].child # None => row'[thread[u].child] = row[thread[u].child]
    BY <1>1, <1>3, <2>3
  <2> QED
    BY <2>1, <2>5, <2>6, StillOwns
<1> QED
  BY <1>1, <1>3, <1>5, <1>6, <1>7

\* The call t moves on, and its rows stay as they are.
LEMMA Holds ==
  ASSUME RowsRight, NEW t \in Thread, UNCHANGED <<row, purged>>,
         \A u \in Thread \ {t} : thread'[u] = thread[u],
         ~purged => Owns(t)'
  PROVE  RowsRight'
<1> SUFFICES ASSUME ~purged
             PROVE  (\A u \in Thread : Owns(u)') /\ (\A r \in Rows' : Tells(r)')
  BY DEF RowsRight
<1>1. Rows' = Rows /\ \A k : Below(k)' = Below(k)
  BY DEF Rows, Below
<1>2. ASSUME NEW u \in Thread
      PROVE  Owns(u)'
  <2>1. CASE u = t
    BY <2>1
  <2>2. CASE u # t
    <3>1. Owns(u) /\ thread'[u] = thread[u]
      BY <2>2 DEF RowsRight
    <3> QED
      BY <1>1, <3>1, StillOwns
  <2> QED
    BY <2>1, <2>2
<1>3. ASSUME NEW r \in Rows'
      PROVE  Tells(r)'
  <2>1. Tells(r)
    BY <1>1 DEF RowsRight
  <2> QED
    BY <1>1, <2>1 DEF Tells
<1> QED
  BY <1>2, <1>3

\* A call that is not at work on parts owns no row.
LEMMA NotYetOwns ==
  ASSUME NEW t \in Thread, Owns(t), ~Working(t),
         thread'[t].stage \notin {"next", "work", "close"},
         thread'[t] = Idle \/ /\ thread'[t].child = thread[t].child
                              /\ thread'[t].results = thread[t].results
  PROVE  Owns(t)'
<1>1. thread[t].child = None /\ thread[t].results = {}
  BY DEF Owns, Working
<1>2. thread'[t].child = None /\ thread'[t].results = {}
  BY <1>1 DEF Idle
<1> QED
  BY <1>2 DEF Owns, Working

\* The reads of a call and the start of one leave the history as it is.
LEMMA DispatchRight ==
  ASSUME TypeOK, Counted, RowsRight, NEW t \in Thread, Dispatch(t)
  PROVE  RowsRight'
<1>1. thread[t].stage = "called" /\ UNCHANGED <<row, purged>>
  BY CallMoves, DispatchDoes DEF Step, hist
<1>2. thread[t].task \in TaskId
  BY <1>1 DEF Counted, TypeOK, RunCall
<1>3. task[thread[t].task] # None => task[thread[t].task].kind \in {"sync", "import"}
  BY <1>2 DEF TypeOK, Task
<1>4. /\ thread'[t].stage \notin {"next", "work", "close"}
      /\ thread'[t] = Idle \/ /\ thread'[t].child = thread[t].child
                              /\ thread'[t].results = thread[t].results
  <2>1. CASE thread'[t] = Idle
    BY <2>1 DEF Idle
  <2>2. CASE thread'[t] # Idle
    BY <1>3, <2>2, DispatchDoes DEF Enabled
  <2> QED
    BY <2>1, <2>2
<1>5. ~purged => Owns(t)'
  BY <1>1, <1>4, NotYetOwns DEF RowsRight, Working
<1> QED
  BY <1>1, <1>5, CallMoves, Holds DEF Step

LEMMA LoadRight ==
  ASSUME TypeOK, RowsRight, NEW t \in Thread, Load(t)
  PROVE  RowsRight'
<1>1. thread[t].stage \in {"sync", "import"} /\ UNCHANGED <<row, purged>>
  BY CallMoves, LoadDoes DEF Step, hist
<1>2. /\ thread'[t].stage \notin {"next", "work", "close"}
      /\ thread'[t] = Idle \/ /\ thread'[t].child = thread[t].child
                              /\ thread'[t].results = thread[t].results
  <2>1. CASE thread'[t] = Idle
    BY <2>1 DEF Idle
  <2>2. CASE thread'[t] # Idle
    BY <2>2, LoadDoes
  <2> QED
    BY <2>1, <2>2
<1>3. ~purged => Owns(t)'
  BY <1>1, <1>2, NotYetOwns DEF RowsRight, Working
<1> QED
  BY <1>1, <1>3, CallMoves, Holds DEF Step

LEMMA CallRight ==
  ASSUME TypeOK, Counted, RowsRight, NEW t \in Thread, Fire(t) \/ Trigger(t)
  PROVE  RowsRight'
<1>1. PICK i \in TaskId, auto \in BOOLEAN : Call(t, i, auto)
  BY StartsCall
<1>2. UNCHANGED <<row, purged>> /\ \A u \in Thread \ {t} : thread'[u] = thread[u]
  BY <1>1 DEF Call, TypeOK, db, hist
<1>3. /\ thread'[t].stage = "called" /\ thread'[t].child = None
      /\ thread'[t].results = {}
  BY <1>1 DEF Call, TypeOK, Idle
<1>4. Owns(t)'
  BY <1>3 DEF Owns, Working
<1> QED
  BY <1>2, <1>4, Holds

\* A run opens with a row that has no parts.
LEMMA OpenRunRight ==
  ASSUME TypeOK, Counted, RowsRight, NEW t \in Thread, OpenRun(t)
  PROVE  RowsRight'
<1> DEFINE me == thread[t]
           w == thread'[t]
<1>1. PICK r \in RowId : r = NextId(Rows)
  BY OpenRunDoes
<1>2. /\ me.stage = "open" /\ r \notin Rows
      /\ row' = [row EXCEPT ![r] = NewRow(t, None)]
      /\ w.stage \in {"close", "next"} /\ w.run = r
      /\ w.child = me.child /\ w.results = me.results /\ w.task = me.task
  BY <1>1, OpenRunDoes, NewRowIsNew
<1>3. me.task \in TaskId
  BY <1>2 DEF Counted, TypeOK, RunCall
<1>4. UNCHANGED purged /\ \A u \in Thread \ {t} : thread'[u] = thread[u]
  BY CallMoves DEF Step, hist
<1> SUFFICES ASSUME ~purged
             PROVE  (\A u \in Thread : Owns(u)') /\ (\A k \in Rows' : Tells(k)')
  BY <1>4 DEF RowsRight
<1>5. /\ row'[r] = NewRow(t, None) /\ r \in Rows'
      /\ Below(r)' = {}
      /\ \A k \in Rows' : Tells(k)'
      /\ \A u \in Thread \ {t} : Owns(u)'
  <2>1. PICK p \in RowId \cup {None} : p = None
    OBVIOUS
  <2>2. /\ p # r /\ row' = [row EXCEPT ![r] = NewRow(t, p)]
        /\ p # None => /\ p \in Rows /\ row[p] = NewRow(t, None)
                       /\ Working(t) /\ p = thread[t].run
    BY <1>2, <2>1, NoneAssumption DEF RowId
  <2>3. /\ row'[r] = NewRow(t, p) /\ r \in Rows'
        /\ Below(r)' = Below(r) /\ Below(r) = {}
        /\ \A k \in Rows' : Tells(k)'
        /\ \A u \in Thread \ {t} : Owns(u)'
    <3>1. row'[r] = NewRow(t, p)
      BY <2>2 DEF TypeOK
    <3>2. r \in Rows'
      BY <1>2, <1>3, <1>4, <2>2, Inserts
    <3>3. \A k \in RowId \ {p} : Below(k)' = Below(k)
      BY <1>2, <1>3, <1>4, <2>2, Inserts
    <3>4. Below(r) = {}
      BY <1>2, <1>3, <1>4, <2>2, Inserts
    <3>5. \A k \in Rows' : Tells(k)'
      BY <1>2, <1>3, <1>4, <2>2, Inserts
    <3>6. \A u \in Thread \ {t} : Owns(u)'
      BY <1>2, <1>3, <1>4, <2>2, Inserts
    <3> QED
      BY <2>2, <3>1, <3>2, <3>3, <3>4, <3>5, <3>6
  <2> QED
    BY <2>1, <2>2, <2>3
<1>6. Owns(t)'
  <2>1. me.child = None /\ me.results = {}
    BY <1>2 DEF RowsRight, Owns, Working
  <2>2. NewRow(t, None)' = NewRow(t, None)
    BY <1>2 DEF NewRow
  <2>3. w.results = {row'[k].status : k \in Below(r)' \ {w.child}}
    BY <1>2, <1>5, <2>1
  <2> QED
    BY <1>2, <1>5, <2>1, <2>2, <2>3 DEF Owns, Working
<1> QED
  BY <1>5, <1>6

\* A part of a fan-out gets a row under the run's.
LEMMA OpenPartRight ==
  ASSUME TypeOK, Counted, RowsRight, NEW t \in Thread, OpenPart(t)
  PROVE  RowsRight'
<1> DEFINE me == thread[t]
           w == thread'[t]
<1>1. PICK r : r = NextId(Rows)
  OBVIOUS
<1>2. PICK p : p = me.run
  OBVIOUS
<1>3. /\ me.stage = "next"
      /\ me.fan => r \in RowId /\ row' = [row EXCEPT ![r] = NewRow(t, p)]
      /\ ~me.fan => row' = row
      /\ w.stage = "work" /\ w.run = p /\ w.fan = me.fan
      /\ w.child = (IF me.fan THEN r ELSE None)
      /\ w.results = me.results /\ w.task = me.task
  BY <1>1, <1>2, OpenPartDoes
<1>4. me.task \in TaskId /\ r \notin Rows
  BY <1>1, <1>3, NewRowIsNew DEF Counted, TypeOK, RunCall
<1>5. UNCHANGED purged /\ \A u \in Thread \ {t} : thread'[u] = thread[u]
  BY CallMoves DEF Step, hist
<1>6. \A q : NewRow(t, q)' = NewRow(t, q)
  BY <1>3 DEF NewRow
<1>7. CASE ~me.fan
  <2>1. Rows' = Rows /\ \A k : Below(k)' = Below(k)
    BY <1>3, <1>7 DEF Rows, Below
  <2>2. ~purged => Owns(t)'
    BY <1>2, <1>3, <1>6, <1>7, <2>1 DEF RowsRight, Owns, Working
  <2> QED
    BY <1>3, <1>5, <1>7, <2>2, Holds
<1>8. CASE me.fan
  <2> SUFFICES ASSUME ~purged
               PROVE  (\A u \in Thread : Owns(u)') /\ (\A k \in Rows' : Tells(k)')
    BY <1>5 DEF RowsRight
  <2>1. /\ p \in Rows /\ p \in RowId /\ row[p] = NewRow(t, None)
        /\ me.child = None
        /\ me.results = {row[k].status : k \in Below(p) \ {me.child}}
    BY <1>2, <1>3, <1>8, RowsAre DEF RowsRight, Owns, Working
  <2>2. /\ row'[r] = NewRow(t, p) /\ r \in Rows'
        /\ \A k \in Rows : k # r /\ row'[k] = row[k]
        /\ Below(p)' = Below(p) \cup {r}
        /\ \A k \in Rows' : Tells(k)'
        /\ \A u \in Thread \ {t} : Owns(u)'
    <3>1. Working(t) /\ p = thread[t].run /\ thread[t].task \in TaskId
      BY <1>2, <1>3, <1>4 DEF Working
    <3>2. row'[r] = NewRow(t, p)
      BY <1>3, <1>8 DEF TypeOK
    <3>3. r \in Rows' /\ \A k \in Rows : k # r /\ row'[k] = row[k]
      BY <1>3, <1>4, <1>5, <1>8, <2>1, <3>1, Inserts
    <3>4. Below(p)' = Below(p) \cup {r}
      BY <1>3, <1>4, <1>5, <1>8, <2>1, <3>1, RowsAre, Inserts
    <3>5. \A k \in Rows' : Tells(k)'
      BY <1>3, <1>4, <1>5, <1>8, <2>1, <3>1, Inserts
    <3>6. \A u \in Thread \ {t} : Owns(u)'
      BY <1>3, <1>4, <1>5, <1>8, <2>1, <3>1, Inserts
    <3> QED
      BY <3>2, <3>3, <3>4, <3>5, <3>6
  <2>3. Owns(t)'
    <3>1. Below(p) \subseteq Rows /\ None \notin Rows
      BY RowsAre DEF Below
    <3>2. Below(p)' \ {r} = Below(p) \ {me.child}
      BY <2>1, <2>2, <3>1
    <3>3. \A k \in Below(p) : row'[k].status = row[k].status
      BY <2>2, <3>1
    <3>4. w.results = {row'[k].status : k \in Below(p)' \ {r}}
      BY <1>3, <2>1, <3>2, <3>3
    <3>5. p \in Rows' /\ row'[p] = row[p]
      BY <2>1, <2>2, RowsAre DEF Rows
    <3> QED
      BY <1>3, <1>6, <1>8, <2>1, <2>2, <3>4, <3>5 DEF Owns, Working
  <2> QED
    BY <2>2, <2>3
<1> QED
  BY <1>7, <1>8

\* The call remembers what it writes of a part.
LEMMA EndPartRight ==
  ASSUME TypeOK, Counted, RowsRight, NEW t \in Thread, EndPart(t)
  PROVE  RowsRight'
<1> DEFINE me == thread[t]
           w == thread'[t]
<1>1. PICK r, p : r = me.child /\ p = me.run
  OBVIOUS
<1>2. PICK s \in Ends : /\ Written(r, s)
                        /\ w.results = me.results \cup {s}
  BY <1>1, EndPartDoes
<1>3. /\ me.stage = "work" /\ w.stage \in {"close", "next"}
      /\ w.child = None /\ w.run = p /\ w.fan = me.fan /\ w.task = me.task
  BY <1>1, EndPartDoes
<1>4. UNCHANGED purged /\ \A u \in Thread \ {t} : thread'[u] = thread[u]
  BY CallMoves DEF Step, hist
<1>5. \A q : NewRow(t, q)' = NewRow(t, q)
  BY <1>3 DEF NewRow
<1>6. CASE me.fan
  <2> SUFFICES ASSUME ~purged
               PROVE  (\A u \in Thread : Owns(u)') /\ (\A k \in Rows' : Tells(k)')
    BY <1>4 DEF RowsRight
  <2>1. /\ r \in Rows /\ row[r] = NewRow(t, p)
        /\ p \in Rows /\ p \in RowId /\ row[p] = NewRow(t, None)
        /\ me.results = {row[k].status : k \in Below(p) \ {r}}
    BY <1>1, <1>3, <1>6, RowsAre DEF RowsRight, Owns, Working
  <2>2. row' = [row EXCEPT ![r].status = s]
    BY <1>2, <2>1, RowsAre DEF Written, Rows
  <2>3. row[r].parent = p /\ p # None /\ p # r /\ row[p].parent = None
    BY <2>1, RowsAre, NewRowIs
  <2>4. Below(r) = {}
    <3>1. r # None
      BY <2>1, RowsAre
    <3>2. \A k \in Rows : row[k].parent # None => row[row[k].parent].parent = None
      BY DEF RowsRight, Tells
    <3> QED
      BY <2>3, <3>1, <3>2 DEF Below
  <2>5. /\ \A k \in Rows \ {r} : row'[k] = row[k]
        /\ Below(p)' = Below(p)
        /\ \A k \in Rows' : Tells(k)'
        /\ \A u \in Thread \ {t} : Owns(u)'
    <3>1. Working(t) /\ s \in Statuses /\ p = thread[t].run
      BY <1>1, <1>3, EndsAssumption DEF Working
    <3>2. Below(r) # {} => s = Rollup({row[k].status : k \in Below(r)})
      BY <2>4
    <3> QED
      <4>1. \A k \in Rows \ {r} : row'[k] = row[k]
        BY <1>4, <2>1, <2>2, <2>3, <3>1, <3>2, Writes
      <4>2. Below(p)' = Below(p)
        BY <1>4, <2>1, <2>2, <2>3, <3>1, <3>2, Writes
      <4>3. \A k \in Rows' : Tells(k)'
        BY <1>4, <2>1, <2>2, <2>3, <3>1, <3>2, Writes
      <4>4. \A u \in Thread \ {t} : Owns(u)'
        BY <1>4, <2>1, <2>2, <2>3, <3>1, <3>2, Writes
      <4> QED
        BY <4>1, <4>2, <4>3, <4>4
  <2>6. Owns(t)'
    <3>1. p \in Rows' /\ row'[p] = row[p]
      BY <2>1, <2>3, <2>5, RowsAre DEF Rows
    <3>2. row'[r].status = s
      <4>1. row[r] \in RunRow
        BY <2>1, RowsAre
      <4>2. row'[r] = [row[r] EXCEPT !.status = s]
        BY <2>1, <2>2 DEF Rows, TypeOK
      <4> QED
        BY <4>1, <4>2 DEF RunRow
    <3>3. r \in Below(p) /\ None \notin Below(p) /\ Below(p) \subseteq Rows
      BY <2>1, <2>3, RowsAre DEF Below
    <3>4. \A k \in Below(p) \ {r} : row'[k].status = row[k].status
      BY <2>5, <3>3
    <3>5. {row'[k].status : k \in Below(p)' \ {None}}
            = {row[k].status : k \in Below(p) \ {r}} \cup {s}
      BY <2>5, <3>2, <3>3, <3>4
    <3> QED
      BY <1>2, <1>3, <1>5, <1>6, <2>1, <3>1, <3>5 DEF Owns, Working
  <2> QED
    BY <2>5, <2>6
<1>7. CASE ~me.fan
  <2>1. CASE purged
    BY <1>4, <2>1 DEF RowsRight
  <2>2. CASE ~purged
    <3>1. /\ r = None /\ p \in Rows /\ row[p] = NewRow(t, None) /\ Below(p) = {}
      BY <1>1, <1>3, <1>7, <2>2 DEF RowsRight, Owns, Working
    <3>2. row' = row
      BY <1>2, <3>1 DEF Written
    <3>3. Rows' = Rows /\ \A k : Below(k)' = Below(k)
      BY <3>2 DEF Rows, Below
    <3>4. Owns(t)'
      BY <1>3, <1>5, <1>7, <3>1, <3>2, <3>3 DEF Owns, Working
    <3> QED
      BY <1>4, <3>2, <3>4, Holds
  <2> QED
    BY <2>1, <2>2
<1> QED
  BY <1>6, <1>7

\* The run is told of what its parts' rows say.
LEMMA CloseRunRight ==
  ASSUME TypeOK, Counted, RowsRight, NEW t \in Thread, CloseRun(t)
  PROVE  RowsRight'
<1> DEFINE me == thread[t]
<1>1. PICK r, s : r = me.run /\ s = Rollup(me.results)
  OBVIOUS
<1>2. me.stage = "close" /\ thread'[t] = Idle /\ Written(r, s) /\ s \in Statuses
  BY <1>1, CloseRunDoes, RollupStatus
<1>3. UNCHANGED purged /\ \A u \in Thread \ {t} : thread'[u] = thread[u]
  BY CallMoves DEF Step, hist
<1> SUFFICES ASSUME ~purged
             PROVE  (\A u \in Thread : Owns(u)') /\ (\A k \in Rows' : Tells(k)')
  BY <1>3 DEF RowsRight
<1>4. /\ r \in Rows /\ row[r] = NewRow(t, None) /\ me.child = None
      /\ me.fan => me.results = {row[k].status : k \in Below(r) \ {me.child}}
      /\ ~me.fan => Below(r) = {}
  BY <1>1, <1>2 DEF RowsRight, Owns, Working
<1>5. row' = [row EXCEPT ![r].status = s]
  BY <1>2, <1>4, RowsAre DEF Written, Rows
<1>6. Below(r) # {} => s = Rollup({row[k].status : k \in Below(r)})
  <2>1. Below(r) \ {None} = Below(r)
    BY RowsAre DEF Below
  <2> QED
    BY <1>1, <1>4, <2>1
<1>7. PICK p : p = None
  OBVIOUS
<1>8. /\ \A k \in Rows' : Tells(k)'
      /\ \A u \in Thread \ {t} : Owns(u)'
  <2>1. /\ Working(t) /\ row[r] = NewRow(t, p)
        /\ p = None => r = thread[t].run
        /\ p # None => p = thread[t].run
    BY <1>1, <1>2, <1>4, <1>7 DEF Working
  <2> QED
    BY <1>2, <1>3, <1>4, <1>5, <1>6, <2>1, Writes
<1>9. Owns(t)'
  BY <1>2 DEF Idle, Owns, Working
<1> QED
  BY <1>8, <1>9

\* A delete that no run of the task is under takes a whole family of rows.
LEMMA DeleteRight ==
  ASSUME TypeOK, Counted, RowsRight, NEW c \in Client, DeleteTask(c)
  PROVE  RowsRight'
<1>1. PICK i \in Tasks :
       /\ row' = [r \in RowId |-> IF row[r] # None /\ row[r].task = i
                                    THEN None ELSE row[r]]
       /\ purged' = (purged \/ \E t \in Thread : thread[t].task = i)
  BY DEF DeleteTask
<1>2. UNCHANGED thread
  BY DEF DeleteTask
<1> SUFFICES ASSUME ~purged'
             PROVE  (\A u \in Thread : Owns(u)') /\ (\A k \in Rows' : Tells(k)')
  BY DEF RowsRight
<1>3. ~purged /\ \A t \in Thread : thread[t].task # i
  BY <1>1
<1>4. \A k \in RowId : k \in Rows' <=> k \in Rows /\ row[k].task # i
  BY <1>1, RowsAre DEF Rows
<1>5. /\ Rows' \subseteq Rows /\ Rows \subseteq RowId
      /\ \A k \in Rows' : row'[k] = row[k]
  BY <1>1, <1>4 DEF Rows
<1>6. ASSUME NEW k \in Rows'
      PROVE  Below(k)' = Below(k)
  <2>1. \A j \in Rows : row[j].parent = k => row[j].task = row[k].task
    <3>1. k # None
      BY <1>5, RowsAre
    <3>2. \A j \in Rows : row[j].parent # None
                          => row[row[j].parent].task = row[j].task
      BY <1>3 DEF RowsRight, Tells
    <3> QED
      BY <3>1, <3>2
  <2>2. \A j \in RowId : j \in Rows' /\ row'[j].parent = k
                           <=> j \in Rows /\ row[j].parent = k
    BY <1>4, <1>5, <2>1
  <2> QED
    BY <1>5, <2>2 DEF Below
<1>7. ASSUME NEW u \in Thread
      PROVE  Owns(u)'
  <2>1. Owns(u)
    BY <1>3 DEF RowsRight
  <2>2. \A k, q : k \in Rows /\ row[k] = NewRow(u, q) => k \in Rows'
    BY <1>3, <1>4, <1>5, NewRowIs
  <2>3. /\ Working(u) => thread[u].run \in Rows'
        /\ thread[u].child # None => thread[u].child \in Rows'
    BY <2>1, <2>2, OwnsRows
  <2>4. Working(u) => \A k \in Below(thread[u].run) : row'[k] = row[k]
    BY <1>5, <1>6, <2>3 DEF Below
  <2> QED
    BY <1>2, <1>5, <1>6, <2>1, <2>3, <2>4, StillOwns
<1>8. ASSUME NEW k \in Rows'
      PROVE  Tells(k)'
  <2>1. k \in Rows /\ Tells(k) /\ row'[k] = row[k] /\ Below(k)' = Below(k)
    BY <1>3, <1>5, <1>6 DEF RowsRight
  <2>2. row[k].parent # None =>
          row[k].parent \in Rows' /\ row'[row[k].parent] = row[row[k].parent]
    BY <1>4, <1>5, <2>1 DEF Tells
  <2>3. {row'[j].status : j \in Below(k)'} = {row[j].status : j \in Below(k)}
    <3>1. \A j \in Below(k) : row'[j] = row[j]
      BY <1>5, <2>1 DEF Below
    <3> QED
      BY <2>1, <3>1
  <2> QED
    BY <2>1, <2>2, <2>3 DEF Tells
<1> QED
  BY <1>7, <1>8

\* A stop takes the calls and leaves the rows.
LEMMA StopRight ==
  ASSUME TypeOK, RowsRight, StopServer
  PROVE  RowsRight'
<1>1. UNCHANGED <<row, purged>> /\ \A t \in Thread : thread'[t] = Idle
  BY DEF StopServer, db
<1>2. Rows' = Rows /\ \A k : Below(k)' = Below(k)
  BY <1>1 DEF Rows, Below
<1>3. \A t \in Thread : Owns(t)'
  BY <1>1 DEF Idle, Owns, Working
<1>4. ASSUME ~purged, NEW r \in Rows'
      PROVE  Tells(r)'
  <2>1. Tells(r)
    BY <1>2, <1>4 DEF RowsRight
  <2> QED
    BY <1>1, <1>2, <2>1 DEF Tells
<1> QED
  BY <1>1, <1>3, <1>4 DEF RowsRight

\* Nothing else touches the history.
LEMMA OthersRight ==
  ASSUME RowsRight, UNCHANGED <<row, thread, purged>>
  PROVE  RowsRight'
<1>1. Rows' = Rows /\ \A k : Below(k)' = Below(k)
  BY DEF Rows, Below
<1>2. ASSUME NEW t \in Thread, Owns(t)
      PROVE  Owns(t)'
  BY <1>1, <1>2, StillOwns
<1>3. ASSUME NEW r \in Rows', Tells(r)
      PROVE  Tells(r)'
  BY <1>1, <1>3 DEF Tells
<1> QED
  BY <1>1, <1>2, <1>3 DEF RowsRight

-----------------------------------------------------------------------------
\* The inductive invariant.
IInv == TypeOK /\ Counted /\ TasksSane /\ CallsSane /\ InStep /\ RowsRight

\* The invariant holds at first, and every step keeps it.
LEMMA InitInv == Init => IInv
<1> SUFFICES ASSUME Init PROVE IInv
  OBVIOUS
<1>1. TypeOK
  BY InitTyped
<1>2. /\ \A t \in Thread : thread[t] = Idle
      /\ \A c \in Client : client[c] = None
      /\ \A r \in RowId : row[r] = None
      /\ server = "down" /\ raced = {}
  BY DEF Init
<1>3. PICK old \in {Stored(t) : t \in {n \in News : Valid(n)}} \cup {None} :
        /\ task = [i \in TaskId |-> IF i = 1 THEN old ELSE None]
        /\ job \in [TaskId -> {None} \cup {t.cron : t \in {old} \ {None}}]
  BY DEF Init
<1>4. Counted
  <2>1. \A t \in Thread : thread[t].stage = "idle" /\ thread[t].task = None
    BY <1>2 DEF Idle
  <2> QED
    BY <1>2, <2>1 DEF Counted
<1>5. TasksSane
  <2>1. old # None => Sane(old)
    BY StoredIsSane, NewsAssumption
  <2> QED
    BY <1>3, <2>1 DEF TasksSane, Tasks
<1>6. CallsSane
  BY <1>2 DEF CallsSane, SaneCall, Idle
<1>7. InStep
  <2>1. \A i \in TaskId : Enabled(i) /\ job[i] # None => job[i] = task[i].cron
    BY <1>3 DEF Enabled
  <2> QED
    BY <1>2, <2>1 DEF InStep, ToldOf, About
<1>8. RowsRight
  BY <1>2 DEF RowsRight, Owns, Working, Idle, Rows
<1> QED
  BY <1>1, <1>4, <1>5, <1>6, <1>7, <1>8 DEF IInv

LEMMA RequestInv ==
  ASSUME IInv, NEW c \in Client,
         CreateTask(c) \/ UpdateTask(c) \/ SwitchTask(c) \/ DeleteTask(c)
  PROVE  IInv'
<1>1. UNCHANGED thread
  BY RequestStores DEF IInv
<1>2. RowsRight'
  <2>1. CASE DeleteTask(c)
    BY <2>1, DeleteRight DEF IInv
  <2>2. CASE CreateTask(c) \/ UpdateTask(c) \/ SwitchTask(c)
    <3>1. UNCHANGED <<row, purged>>
      BY <2>2 DEF CreateTask, UpdateTask, SwitchTask
    <3> QED
      BY <1>1, <3>1, OthersRight DEF IInv
  <2> QED
    BY <2>1, <2>2
<1>3. CallsSane'
  BY <1>1 DEF IInv, CallsSane
<1> QED
  BY <1>2, <1>3, RequestTyped, RequestCounted, RequestStores, RequestInStep DEF IInv

LEMMA ServerInv ==
  ASSUME IInv,
         \/ StartServer \/ ReconcileDone \/ StopServer
         \/ \E i \in TaskId : ReconcileAdd(i) \/ ReconcileRemove(i)
         \/ \E c \in Client : TellScheduler(c)
  PROVE  IInv'
<1>1. UNCHANGED task
  BY DEF StartServer, ReconcileDone, StopServer, ReconcileAdd, ReconcileRemove,
         TellScheduler, db
<1>2. CallsSane' /\ RowsRight'
  <2>1. CASE StopServer
    <3>1. \A t \in Thread : thread'[t] = Idle
      BY <2>1 DEF StopServer
    <3> QED
      BY <2>1, <3>1, StopRight DEF IInv, CallsSane, SaneCall, Idle
  <2>2. CASE ~StopServer
    <3>1. UNCHANGED <<row, thread, purged>>
      BY <2>2 DEF StartServer, ReconcileDone, ReconcileAdd, ReconcileRemove,
                  TellScheduler, db, hist
    <3> QED
      BY <3>1, OthersRight DEF IInv, CallsSane
  <2> QED
    BY <2>1, <2>2
<1>3. TasksSane'
  BY <1>1 DEF IInv, TasksSane, Tasks
<1>4. InStep'
  BY ServerInStep, TellInStep DEF IInv
<1> QED
  BY <1>2, <1>3, <1>4, ServerTyped, ServerCounted DEF IInv

LEMMA CallInv ==
  ASSUME IInv, NEW t \in Thread, Fire(t) \/ Trigger(t)
  PROVE  IInv'
<1>1. PICK i \in TaskId, auto \in BOOLEAN : Call(t, i, auto)
  BY StartsCall DEF IInv
<1>2. TypeOK' /\ Counted' /\ CallsSane'
  BY <1>1, CallTyped, CallCounted, CallSane DEF IInv
<1>3. UNCHANGED <<task, job, server, client, raced, missed>>
  BY <1>1 DEF Call, db, hist
<1>4. TasksSane' /\ InStep'
  BY <1>3, OthersInStep DEF IInv, TasksSane, Tasks
<1> QED
  BY <1>2, <1>4, CallRight DEF IInv

LEMMA StepInv ==
  ASSUME IInv, NEW t \in Thread, Step(t)
  PROVE  IInv'
<1>1. UNCHANGED <<task, job, server, client, raced, missed>>
  BY CallMoves DEF IInv, hist
<1>2. TasksSane' /\ InStep'
  BY <1>1, OthersInStep DEF IInv, TasksSane, Tasks
<1>3. RowsRight'
  BY DispatchRight, LoadRight, OpenRunRight, OpenPartRight, EndPartRight,
     CloseRunRight DEF Step, IInv
<1> QED
  BY <1>2, <1>3, StepTyped, StepCounted, StepSane DEF IInv

LEMMA NextInv == IInv /\ [Next]_vars => IInv'
<1> SUFFICES ASSUME IInv, [Next]_vars PROVE IInv'
  OBVIOUS
<1>1. CASE UNCHANGED vars
  <2>1. UNCHANGED <<task, job, row, server, client, thread, raced, missed, purged,
                    requests, calls, stops>>
    BY <1>1 DEF vars, db, hist
  <2>2. TypeOK' /\ Counted'
    BY <2>1 DEF IInv, TypeOK, Counted
  <2> QED
    BY <2>1, <2>2, OthersRight, OthersInStep
       DEF IInv, TasksSane, Tasks, CallsSane
<1>2. CASE Next
  <2>1. CASE \/ StartServer \/ ReconcileDone \/ StopServer
             \/ \E i \in TaskId : ReconcileAdd(i) \/ ReconcileRemove(i)
             \/ \E c \in Client : TellScheduler(c)
    BY <2>1, ServerInv
  <2>2. CASE \E c \in Client : CreateTask(c) \/ UpdateTask(c) \/ SwitchTask(c)
                               \/ DeleteTask(c)
    BY <2>2, RequestInv
  <2>3. CASE \E t \in Thread : Fire(t) \/ Trigger(t) \/ Step(t)
    BY <2>3, CallInv, StepInv
  <2> QED
    BY <1>2, <2>1, <2>2, <2>3 DEF Next
<1> QED
  BY <1>1, <1>2

LEMMA Inductive == Spec => []IInv
BY InitInv, NextInv, PTL DEF Spec

-----------------------------------------------------------------------------

\* A row that is there is written by the call whose row it is, when that call
\* ends a part or its run.
LEMMA WritesOwn ==
  ASSUME IInv, Next, ~purged, NEW r \in RowId,
         row[r] # None, row'[r] # None, row'[r] # row[r]
  PROVE  /\ row[r].status = "running"
         /\ thread[row[r].by].stage \in {"work", "close"}
         /\ thread'[row[r].by] # thread[row[r].by]
<1> USE DEF IInv
<1>1. \A c \in Client : ~DeleteTask(c)
  BY DEF DeleteTask
<1>2. \A t \in Thread : ~(Fire(t) \/ Trigger(t) \/ Dispatch(t) \/ Load(t))
  BY DEF Fire, Trigger, Call, Dispatch, Load, db
<1>3. \A t \in Thread : ~OpenRun(t)
  <2> SUFFICES ASSUME NEW t \in Thread, OpenRun(t) PROVE FALSE
    OBVIOUS
  <2>1. r # NextId(Rows)
    BY NewRowIsNew DEF Rows
  <2> QED
    BY <2>1, OpenRunDoes DEF TypeOK
<1>4. \A t \in Thread : ~OpenPart(t)
  <2> SUFFICES ASSUME NEW t \in Thread, OpenPart(t) PROVE FALSE
    OBVIOUS
  <2>1. r # NextId(Rows)
    BY NewRowIsNew DEF Rows
  <2> QED
    BY <2>1, OpenPartDoes DEF TypeOK
<1>5. PICK t \in Thread : EndPart(t) \/ CloseRun(t)
  BY <1>1, <1>2, <1>3, <1>4
     DEF Next, Step, StartServer, ReconcileDone, StopServer, ReconcileAdd,
         ReconcileRemove, CreateTask, UpdateTask, SwitchTask, TellScheduler, db
<1>6. Owns(t)
  BY DEF RowsRight
<1>7. CASE EndPart(t)
  <2>1. PICK s \in Ends : Written(thread[t].child, s)
    BY <1>7, EndPartDoes
  <2>2. r = thread[t].child
    BY <2>1 DEF Written, TypeOK
  <2>3. row[r] = NewRow(t, thread[t].run)
    BY <1>6, <2>2, OwnsRows, NoneAssumption DEF RowId
  <2> QED
    BY <1>7, <2>3, NewRowIs, EndPartDoes
<1>8. CASE CloseRun(t)
  <2>1. /\ thread[t].stage = "close" /\ thread'[t] = Idle
        /\ Written(thread[t].run, Rollup(thread[t].results))
    BY <1>8, CloseRunDoes
  <2>2. r = thread[t].run
    BY <2>1 DEF Written, TypeOK
  <2>3. row[r] = NewRow(t, None)
    BY <1>6, <2>1, <2>2, OwnsRows DEF Working
  <2> QED
    BY <2>1, <2>3, NewRowIs DEF Idle
<1> QED
  BY <1>5, <1>7, <1>8

\* Every variable keeps its type.
THEOREM TypeCorrect == Spec => []TypeOK
<1>1. IInv => TypeOK
  BY DEF IInv
<1> QED
  BY <1>1, Inductive, PTL

\* Whatever was lost in a stop, exactly the enabled tasks are scheduled while
\* the server is up and no request is in flight, each on its own schedule.
THEOREM Scheduled == Spec => []EnabledIsScheduled
<1>1. IInv => EnabledIsScheduled
  <2> SUFFICES ASSUME IInv, server = "up", NEW i \in TaskId \ raced, ~Pending(i)
               PROVE  /\ Enabled(i) <=> job[i] # None
                      /\ Enabled(i) /\ i \notin missed => job[i] = task[i].cron
    BY DEF EnabledIsScheduled
  <2>1. ToldOf(i)
    BY DEF IInv, InStep
  <2> QED
    BY <2>1 DEF ToldOf
<1> QED
  BY <1>1, Inductive, PTL

\* No run whose task stayed as it was between its two reads syncs a tenant
\* onto itself.
THEOREM Apart == Spec => []NeverOntoItself
<1>1. IInv => NeverOntoItself
  BY DEF IInv, CallsSane, SaneCall, NeverOntoItself
<1> QED
  BY <1>1, Inductive, PTL

\* The parent row of a fan-out tells, once ended, what its children tell.
THEOREM Rollups == Spec => []ParentTellsChildren
<1>1. IInv => ParentTellsChildren
  BY DEF IInv, RowsRight, Tells, Below, ParentTellsChildren
<1> QED
  BY <1>1, Inductive, PTL

\* A run's row is ended by that run, once.
THEOREM OwnOutcome == Spec => OutcomeIsOwn
<1>1. IInv /\ [Next]_vars =>
        [~purged => \A r \in RowId :
           row[r] # None /\ row'[r] # None /\ row'[r] # row[r]
             => /\ row[r].status = "running"
                /\ thread[row[r].by].stage \in {"work", "close"}
                /\ thread'[row[r].by] # thread[row[r].by]]_vars
  BY WritesOwn
<1> QED
  BY <1>1, Inductive, PTL DEF Spec, OutcomeIsOwn
=============================================================================
