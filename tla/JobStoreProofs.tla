--------------------------- MODULE JobStoreProofs ---------------------------
(***************************************************************************)
(* Safety of the job store, for any number of jobs, keys and streams, and  *)
(* its refinement of JobService.                                           *)
(***************************************************************************)
EXTENDS JobStore, TLAPS

\* A thread is gone once it is at none of these.
Alive(j) == IsWorking(j) \/ worker[j].pc = "escaped"

\* The entry e of a job and its thread w agree: what is held and active is
\* alive, and what is held and over carries the outcome of its thread.
Over(w) == w.pc \in {"audit", "ended"} /\ w.outcome \in Ended

Agrees(e, w) ==
    /\ w.pc = "none" => ~e.held
    /\ w.pc \in Working \union {"escaped"} <=>
         e.held /\ e.status \in ActiveStatus
    /\ e.held => e.key = w.key /\ e.events = w.sent
    /\ e.held /\ e.aged => e.status \notin ActiveStatus
    /\ e.held /\ e.status \notin ActiveStatus => Over(w) /\ e.result = w.outcome

Agree == \A j \in Job : Agrees(store[j], worker[j])

Unique ==
    \A i, j \in Job :
      IsActive(i) /\ IsActive(j) /\ store[i].key = store[j].key
        /\ store[i].key \in Key => i = j

\* A stream is attached to a job that was started, and what it was told is
\* final: the thread is at none of the places it could go on from.
Gone == {"audit", "ended", "killed"}

ToldRight(s) ==
    /\ stream[s].open =>
         stream[s].told = "none" /\ worker[stream[s].job].pc # "none"
    /\ stream[s].told # "none" =>
         /\ ~stream[s].open
         /\ stream[s].job \in Job
         /\ worker[stream[s].job].pc \in Gone
    /\ stream[s].told \in Ended =>
         /\ worker[stream[s].job].outcome = stream[s].told
         /\ stream[s].cursor = worker[stream[s].job].sent

Streams == \A s \in Stream : ToldRight(s)

IInv == TypeOK /\ Agree /\ Unique /\ Streams

-----------------------------------------------------------------------------
(***************************************************************************)
(* Steps that change the entry and the thread of one job.                  *)
(***************************************************************************)

\* What every step of a worker, a cancel and the passing of time have in
\* common: the entry keeps its place and its key and does not lose events, it
\* does not become active again, and a thread that is gone says no more.
LEMMA JobStep ==
    ASSUME IInv, NEW j \in Job, NEW e \in Entry, NEW w \in Worker,
           store' = [store EXCEPT ![j] = e], worker' = [worker EXCEPT ![j] = w],
           UNCHANGED <<stream, restarts>>,
           worker[j].pc # "none", w.pc # "none",
           e.held = store[j].held, e.key = store[j].key,
           e.events >= store[j].events,
           e.status \in ActiveStatus => store[j].status \in ActiveStatus,
           worker[j].pc \in Gone =>
             w.pc \in Gone /\ w.outcome = worker[j].outcome /\ w.sent = worker[j].sent,
           Agrees(e, w)
    PROVE  IInv'
<1> USE DEF IInv
<1>1. store \in [Job -> Entry] /\ worker \in [Job -> Worker]
  BY DEF TypeOK
<1>2. /\ store'[j] = e /\ worker'[j] = w
      /\ \A i \in Job : i # j => store'[i] = store[i] /\ worker'[i] = worker[i]
  BY <1>1
<1>3. TypeOK'
  <2>1. store' \in [Job -> Entry] /\ worker' \in [Job -> Worker]
    BY <1>1
  <2>2. ASSUME NEW s \in Stream, stream[s].open
        PROVE  /\ stream[s].job \in Job
               /\ store'[stream[s].job].held =>
                    stream[s].cursor <= store'[stream[s].job].events
    <3>1. /\ stream[s].job \in Job /\ stream[s].cursor \in Nat
          /\ store[stream[s].job].held =>
               stream[s].cursor <= store[stream[s].job].events
      BY <2>2 DEF TypeOK, StreamState
    <3>2. CASE stream[s].job = j
      <4>1. e.events \in Nat /\ store[j].events \in Nat
        BY <1>1 DEF Entry
      <4>2. QED
        BY <3>1, <3>2, <4>1, <1>2
    <3>3. CASE stream[s].job # j
      BY <3>1, <3>3, <1>2
    <3>4. QED
      BY <3>1, <3>2, <3>3
  <2>3. QED
    BY <2>1, <2>2 DEF TypeOK
<1>4. Agree'
  <2>1. ASSUME NEW i \in Job PROVE Agrees(store'[i], worker'[i])
    BY <1>2 DEF Agree
  <2>2. QED
    BY <2>1 DEF Agree
<1>5. Unique'
  <2>1. \A i \in Job : IsActive(i)' => IsActive(i) /\ store'[i].key = store[i].key
    BY <1>2 DEF IsActive
  <2>2. QED
    BY <2>1 DEF Unique
<1>6. Streams'
  <2>1. ASSUME NEW s \in Stream PROVE ToldRight(s)'
    <3>1. ToldRight(s) /\ (stream[s].open => stream[s].job \in Job)
      BY DEF Streams, TypeOK
    <3>2. stream'[s] = stream[s]
      OBVIOUS
    <3>3. "none" \notin Ended
      BY DEF Ended
    <3>4. QED
      BY <3>1, <3>2, <3>3, <1>2 DEF ToldRight
  <2>2. QED
    BY <2>1 DEF Streams
<1>7. QED
  BY <1>3, <1>4, <1>5, <1>6

\* A worker that only moves on, with nothing said to the store.
LEMMA GotoStep ==
    ASSUME IInv, NEW j \in Job, NEW pc \in Working \union {"escaped", "ended"},
           Goto(j, pc),
           \/ worker[j].pc \in Working /\ pc # "ended"
           \/ worker[j].pc = "audit" /\ pc = "ended"
    PROVE  IInv'
<1> DEFINE w == [worker[j] EXCEPT !.pc = pc]
<1>1. store[j] \in Entry /\ worker[j] \in Worker /\ Agrees(store[j], worker[j])
  BY DEF IInv, TypeOK, Agree
<1>2. w \in Worker /\ w.pc = pc /\ w.key = worker[j].key /\ w.sent = worker[j].sent
      /\ w.outcome = worker[j].outcome
  BY <1>1 DEF Worker, Working
<1>3. store' = [store EXCEPT ![j] = store[j]] /\ worker' = [worker EXCEPT ![j] = w]
      /\ UNCHANGED <<stream, restarts>>
  BY DEF Goto, IInv, TypeOK
<1>4. Agrees(store[j], w)
  BY <1>1, <1>2 DEF Agrees, Over, Working
<1>5. store[j].events \in Nat /\ w.pc # "none" /\ worker[j].pc # "none"
  BY <1>1, <1>2 DEF Entry, Working
<1>6. worker[j].pc \in Gone => w.pc \in Gone
  BY <1>2 DEF Gone, Working
<1> HIDE DEF w
<1>7. worker[j].pc \in Gone =>
        w.pc \in Gone /\ w.outcome = worker[j].outcome /\ w.sent = worker[j].sent
  BY <1>2, <1>6
<1>8. store[j].events >= store[j].events
  BY <1>5
<1>9. QED
  BY <1>1, <1>2, <1>3, <1>4, <1>5, <1>7, <1>8, JobStep

\* A worker that reports one more event.
LEMMA SendStep ==
    ASSUME IInv, NEW j \in Job, NEW pc \in Working,
           worker[j].pc \in Working, Send(j, pc)
    PROVE  IInv'
<1> DEFINE w == [worker[j] EXCEPT !.pc = pc, !.sent = @ + 1]
<1> DEFINE e == [store[j] EXCEPT !.events = @ + 1]
<1>1. store[j] \in Entry /\ worker[j] \in Worker /\ Agrees(store[j], worker[j])
  BY DEF IInv, TypeOK, Agree
<1>2. w \in Worker /\ w.pc = pc /\ w.key = worker[j].key
      /\ w.sent = worker[j].sent + 1 /\ w.outcome = worker[j].outcome
  <2> DEFINE n == worker[j].sent + 1
  <2>1. n \in Nat
    BY <1>1 DEF Worker
  <2> HIDE DEF n
  <2>2. /\ [worker[j] EXCEPT !.pc = pc, !.sent = n] \in Worker
        /\ [worker[j] EXCEPT !.pc = pc, !.sent = n].pc = pc
        /\ [worker[j] EXCEPT !.pc = pc, !.sent = n].key = worker[j].key
        /\ [worker[j] EXCEPT !.pc = pc, !.sent = n].sent = n
        /\ [worker[j] EXCEPT !.pc = pc, !.sent = n].outcome = worker[j].outcome
    BY <1>1, <2>1 DEF Worker
  <2>3. w = [worker[j] EXCEPT !.pc = pc, !.sent = n]
    BY DEF n
  <2>4. QED
    BY <2>2, <2>3 DEF n
<1>3. e \in Entry /\ e.held = store[j].held /\ e.key = store[j].key
      /\ e.events = store[j].events + 1 /\ e.status = store[j].status
      /\ e.aged = store[j].aged
  BY <1>1 DEF Entry
<1>4. store[j].held /\ store[j].status \in ActiveStatus
  BY <1>1 DEF Agrees
<1>5. store' = [store EXCEPT ![j] = e] /\ worker' = [worker EXCEPT ![j] = w]
      /\ UNCHANGED <<stream, restarts>>
  BY <1>4 DEF Send, Appended, IInv, TypeOK
<1>6. Agrees(e, w)
  BY <1>1, <1>2, <1>3, <1>4 DEF Agrees, Working
<1>7. e.events >= store[j].events
  BY <1>1, <1>3 DEF Entry
<1>8. w.pc # "none" /\ worker[j].pc # "none" /\ worker[j].pc \notin Gone
  BY <1>2 DEF Working, Gone
<1> HIDE DEF w, e
<1>9. QED
  BY <1>2, <1>3, <1>4, <1>5, <1>6, <1>7, <1>8, JobStep

\* A worker that ends its job, and goes on to its audit entry or ends.
LEMMA FinishStep ==
    ASSUME IInv, NEW j \in Job, NEW st \in {"done", "error"}, NEW r \in Ended,
           NEW pc \in {"audit", "ended"}, worker[j].pc \in Working,
           store' = Finish(j, st, r),
           worker' = [worker EXCEPT ![j].pc = pc, ![j].outcome = r],
           UNCHANGED <<stream, restarts>>
    PROVE  IInv'
<1> DEFINE w == [worker[j] EXCEPT !.pc = pc, !.outcome = r]
<1> DEFINE e == [store[j] EXCEPT !.status = st, !.result = r]
<1>1. store[j] \in Entry /\ worker[j] \in Worker /\ Agrees(store[j], worker[j])
  BY DEF IInv, TypeOK, Agree
<1>2. w \in Worker /\ w.pc = pc /\ w.key = worker[j].key
      /\ w.sent = worker[j].sent /\ w.outcome = r
  BY <1>1 DEF Worker, Outcome
<1>3. e \in Entry /\ e.held = store[j].held /\ e.key = store[j].key
      /\ e.events = store[j].events /\ e.status = st /\ e.result = r
  BY <1>1 DEF Entry, Outcome
<1>4. store[j].held /\ store[j].status \in ActiveStatus
  BY <1>1 DEF Agrees
<1>5. store' = [store EXCEPT ![j] = e] /\ worker' = [worker EXCEPT ![j] = w]
  BY <1>4 DEF Finish, IsActive, IInv, TypeOK
<1>6. Agrees(e, w)
  BY <1>1, <1>2, <1>3, <1>4 DEF Agrees, Over, Working, ActiveStatus
<1>7. e.events >= store[j].events
  BY <1>1, <1>3 DEF Entry
<1>8. w.pc # "none" /\ worker[j].pc # "none" /\ worker[j].pc \notin Gone
      /\ e.status \notin ActiveStatus
  BY <1>2, <1>3 DEF Working, Gone, ActiveStatus
<1> HIDE DEF w, e
<1>9. QED
  BY <1>2, <1>3, <1>5, <1>6, <1>7, <1>8, JobStep

LEMMA WorkerInv == ASSUME IInv, NEW j \in Job, WorkerStep(j) PROVE IInv'
<1>1. CASE Progress(j)
  BY <1>1, SendStep DEF Progress, Working
<1>2. CASE StartPush(j)
  BY <1>2, GotoStep DEF StartPush, Working
<1>3. CASE PollCancel(j)
  <2>1. /\ worker[j].pc \in Working
        /\ \E pc \in Working : pc \in {"rollback", "pushing"} /\ Goto(j, pc)
    BY <1>3 DEF PollCancel, Working
  <2>2. QED
    BY <2>1, GotoStep DEF Working
<1>4. CASE Pushed(j)
  BY <1>4, SendStep DEF Pushed, Working
<1>5. CASE PushDone(j)
  BY <1>5, GotoStep DEF PushDone, Working
<1>6. CASE Complete(j)
  <2>1. worker[j].pc \in Working
    BY <1>6 DEF Complete, Working
  <2> DEFINE r == IF worker[j].pc = "rollback" THEN "cancelled" ELSE "ok"
  <2> DEFINE pc == IF worker[j].pc = "work" THEN "audit" ELSE "ended"
  <2>2. /\ store' = Finish(j, "done", r) /\ UNCHANGED <<stream, restarts>>
        /\ worker' = [worker EXCEPT ![j].pc = pc, ![j].outcome = r]
    <3>1. worker' = [worker EXCEPT ![j].outcome = r,
                       ![j].pc = IF @ = "work" THEN "audit" ELSE "ended"]
      BY <1>6 DEF Complete
    <3>2. worker \in [Job -> Worker]
      BY DEF IInv, TypeOK
    <3>3. QED
      BY <1>6, <3>1, <3>2 DEF Complete, Worker
  <2>3. r \in Ended /\ pc \in {"audit", "ended"}
    BY DEF Ended
  <2> HIDE DEF r, pc
  <2>4. QED
    BY <2>1, <2>2, <2>3, FinishStep
<1>7. CASE AuditWritten(j)
  BY <1>7, GotoStep DEF AuditWritten
<1>8. CASE AuditRaises(j)
  <2>1. Goto(j, "ended")
    <3>1. Agrees(store[j], worker[j]) /\ worker[j].pc = "audit"
      BY <1>8 DEF AuditRaises, IInv, Agree
    <3>2. ~IsActive(j)
      BY <3>1 DEF Agrees, IsActive, Working
    <3>3. QED
      BY <1>8, <3>2 DEF AuditRaises, Finish, Goto
  <2>2. QED
    BY <1>8, <2>1, GotoStep DEF AuditRaises
<1>9. CASE Fail(j)
  <2>1. "error" \in Ended
    BY DEF Ended
  <2>2. worker' = [worker EXCEPT ![j].pc = "ended", ![j].outcome = "error"]
        /\ store' = Finish(j, "error", "error") /\ worker[j].pc \in Working
        /\ UNCHANGED <<stream, restarts>>
    BY <1>9 DEF Fail, IsWorking
  <2>3. QED
    BY <2>1, <2>2, FinishStep
<1>10. CASE Escape(j)
  BY <1>10, GotoStep DEF Escape, Working
<1>11. QED
  BY <1>1, <1>2, <1>3, <1>4, <1>5, <1>6, <1>7, <1>8, <1>9, <1>10 DEF WorkerStep

\* A cancel request or the passing of time, which change the entry alone.
LEMMA EntryStep ==
    ASSUME IInv, NEW j \in Job, NEW e \in Entry,
           store' = [store EXCEPT ![j] = e], UNCHANGED <<worker, stream, restarts>>,
           store[j].held, e.held, e.key = store[j].key,
           e.events = store[j].events, e.result = store[j].result,
           e.status \in ActiveStatus <=> store[j].status \in ActiveStatus,
           e.aged => e.status \notin ActiveStatus
    PROVE  IInv'
<1>1. store[j] \in Entry /\ worker[j] \in Worker /\ Agrees(store[j], worker[j])
  BY DEF IInv, TypeOK, Agree
<1>2. Agrees(e, worker[j]) /\ worker[j].pc # "none"
  BY <1>1 DEF Agrees
<1>3. worker' = [worker EXCEPT ![j] = worker[j]]
  BY DEF IInv, TypeOK
<1>4. e.events >= store[j].events
  BY <1>1 DEF Entry
<1>5. UNCHANGED <<stream, restarts>>
  OBVIOUS
<1>6. QED
  BY <1>1, <1>2, <1>3, <1>4, <1>5, JobStep

LEMMA RequestCancelInv == ASSUME IInv, NEW j \in Job, RequestCancel(j) PROVE IInv'
<1> DEFINE e == [store[j] EXCEPT !.status = "cancel_requested"]
<1>1. store[j] \in Entry /\ Agrees(store[j], worker[j])
      /\ store[j].held /\ store[j].status = "running"
  BY DEF IInv, TypeOK, Agree, RequestCancel
<1>2. /\ e \in Entry /\ e.held = store[j].held /\ e.key = store[j].key
      /\ e.events = store[j].events /\ e.result = store[j].result
      /\ e.aged = store[j].aged /\ e.status = "cancel_requested"
  BY <1>1 DEF Entry, ActiveStatus
<1>3. ~store[j].aged
  BY <1>1 DEF Agrees, ActiveStatus
<1>4. store' = [store EXCEPT ![j] = e] /\ UNCHANGED <<worker, stream, restarts>>
  BY DEF RequestCancel
<1> HIDE DEF e
<1>5. QED
  BY <1>1, <1>2, <1>3, <1>4, EntryStep DEF ActiveStatus

LEMMA AgeInv == ASSUME IInv, NEW j \in Job, Age(j) PROVE IInv'
<1> DEFINE e == [store[j] EXCEPT !.aged = TRUE]
<1>1. store[j] \in Entry /\ store[j].held /\ store[j].status \notin ActiveStatus
  BY DEF IInv, TypeOK, Age, IsActive
<1>2. /\ e \in Entry /\ e.held = store[j].held /\ e.key = store[j].key
      /\ e.events = store[j].events /\ e.result = store[j].result
      /\ e.status = store[j].status
  BY <1>1 DEF Entry
<1>3. store' = [store EXCEPT ![j] = e] /\ UNCHANGED <<worker, stream, restarts>>
  BY DEF Age
<1> HIDE DEF e
<1>4. QED
  BY <1>1, <1>2, <1>3, EntryStep

-----------------------------------------------------------------------------
(***************************************************************************)
(* Starting a job, and the pruning that comes with it.                     *)
(***************************************************************************)

\* Pruning drops entries that are over, and nothing else.
LEMMA PrunedEntries ==
    ASSUME IInv
    PROVE  /\ Pruned \in [Job -> Entry]
           /\ \A i \in Job :
                \/ Pruned[i] = store[i]
                \/ Pruned[i] = NoEntry /\ store[i].held /\ ~IsActive(i)
<1>1. NoEntry \in Entry
  BY DEF NoEntry, Entry, ActiveStatus, Outcome
<1>2. store \in [Job -> Entry]
  BY DEF IInv, TypeOK
<1>3. ASSUME NEW i \in Job, IsStale(i) PROVE store[i].held /\ ~IsActive(i)
  BY <1>3 DEF IInv, Agree, Agrees, IsStale, IsActive
<1>4. QED
  BY <1>1, <1>2, <1>3 DEF Pruned

\* Dropping entries that are over keeps the invariant.
LEMMA PruneStep ==
    ASSUME IInv, store' \in [Job -> Entry],
           \A i \in Job : \/ store'[i] = store[i]
                          \/ store'[i] = NoEntry /\ store[i].held /\ ~IsActive(i),
           UNCHANGED <<worker, stream, restarts>>
    PROVE  IInv'
<1>1. ~NoEntry.held
  BY DEF NoEntry
<1>2. TypeOK'
  <2>1. ASSUME NEW s \in Stream, stream[s].open
        PROVE  /\ stream[s].job \in Job
               /\ store'[stream[s].job].held =>
                    stream[s].cursor <= store'[stream[s].job].events
    BY <1>1, <2>1 DEF IInv, TypeOK
  <2>2. QED
    BY <2>1 DEF IInv, TypeOK
<1>3. Agree'
  <2>1. ASSUME NEW i \in Job PROVE Agrees(store'[i], worker[i])
    <3>1. Agrees(store[i], worker[i])
      BY DEF IInv, Agree
    <3>2. CASE store'[i] = store[i]
      BY <3>1, <3>2
    <3>3. CASE store'[i] = NoEntry /\ store[i].held /\ ~IsActive(i)
      BY <1>1, <3>1, <3>3 DEF Agrees, IsActive
    <3>4. QED
      BY <3>2, <3>3
  <2>2. QED
    BY <2>1 DEF Agree
<1>4. Unique'
  <2>1. \A i \in Job : IsActive(i)' => IsActive(i) /\ store'[i].key = store[i].key
    BY <1>1 DEF IsActive
  <2>2. QED
    BY <2>1 DEF IInv, Unique
<1>5. Streams'
  BY DEF IInv, Streams, ToldRight
<1>6. QED
  BY <1>2, <1>3, <1>4, <1>5 DEF IInv

LEMMA RefusedInv == ASSUME IInv, NEW k \in Key, StartRefused(k) PROVE IInv'
  BY PrunedEntries, PruneStep DEF StartRefused

\* A new job, under no key or under one that no active job has.
LEMMA StartStep ==
    ASSUME IInv, NEW j \in Job, NEW k \in Key \union {NoKey}, NEW polls \in BOOLEAN,
           worker[j].pc = "none",
           k \in Key => Existing(k) = {},
           store' = [Pruned EXCEPT ![j] = NewEntry(k)],
           worker' = [worker EXCEPT ![j] = NewWorker(k, polls)],
           UNCHANGED <<stream, restarts>>
    PROVE  IInv'
<1>1. /\ NewEntry(k) \in Entry /\ NewEntry(k).held /\ NewEntry(k).key = k
      /\ NewEntry(k).status = "running" /\ NewEntry(k).events = 0
      /\ ~NewEntry(k).aged
  BY DEF NewEntry, Entry, ActiveStatus, Outcome
<1>2. /\ NewWorker(k, polls) \in Worker /\ NewWorker(k, polls).pc = "work"
      /\ NewWorker(k, polls).key = k /\ NewWorker(k, polls).sent = 0
  BY DEF NewWorker, Worker, Working, Outcome
<1>3. /\ store' \in [Job -> Entry] /\ worker' \in [Job -> Worker]
      /\ store'[j] = NewEntry(k) /\ worker'[j] = NewWorker(k, polls)
      /\ \A i \in Job \ {j} :
           /\ worker'[i] = worker[i]
           /\ \/ store'[i] = store[i]
              \/ store'[i] = NoEntry /\ store[i].held /\ ~IsActive(i)
  BY <1>1, <1>2, PrunedEntries DEF IInv, TypeOK
<1>4. ~NoEntry.held /\ ~store[j].held
  BY DEF NoEntry, IInv, Agree, Agrees
<1>5. \A s \in Stream :
        /\ stream[s].open => stream[s].job # j
        /\ stream[s].told # "none" => stream[s].job # j
  BY DEF IInv, Streams, ToldRight, Gone
<1>6. TypeOK'
  <2>1. ASSUME NEW s \in Stream, stream[s].open
        PROVE  /\ stream[s].job \in Job
               /\ store'[stream[s].job].held =>
                    stream[s].cursor <= store'[stream[s].job].events
    BY <1>3, <1>4, <1>5, <2>1 DEF IInv, TypeOK
  <2>2. QED
    BY <1>3, <2>1 DEF IInv, TypeOK
<1>7. Agree'
  <2>1. ASSUME NEW i \in Job PROVE Agrees(store'[i], worker'[i])
    <3>1. CASE i = j
      <4>1. Agrees(NewEntry(k), NewWorker(k, polls))
        BY <1>1, <1>2 DEF Agrees, Working, ActiveStatus
      <4>2. QED
        BY <1>3, <3>1, <4>1
    <3>2. CASE i # j
      <4>1. Agrees(store[i], worker[i]) /\ worker'[i] = worker[i]
        BY <1>3, <3>2 DEF IInv, Agree
      <4>2. CASE store'[i] = store[i]
        BY <4>1, <4>2
      <4>3. CASE store'[i] = NoEntry /\ store[i].held /\ ~IsActive(i)
        BY <1>4, <4>1, <4>3 DEF Agrees, IsActive
      <4>4. QED
        BY <1>3, <3>2, <4>2, <4>3
    <3>3. QED
      BY <3>1, <3>2
  <2>2. QED
    BY <2>1 DEF Agree
<1>8. Unique'
  <2>1. \A i \in Job \ {j} :
          IsActive(i)' => IsActive(i) /\ store'[i].key = store[i].key
    BY <1>3, <1>4 DEF IsActive
  <2>2. k \in Key => \A i \in Job : IsActive(i) => store[i].key # k
    BY DEF Existing
  <2>3. store'[j].key = k
    BY <1>1, <1>3
  <2>4. QED
    BY <2>1, <2>2, <2>3 DEF IInv, Unique
<1>9. Streams'
  <2>1. ASSUME NEW s \in Stream PROVE ToldRight(s)'
    <3>1. ToldRight(s) /\ stream'[s] = stream[s]
          /\ (stream[s].open => stream[s].job \in Job) /\ "none" \notin Ended
      BY DEF IInv, Streams, TypeOK, Ended
    <3>2. stream[s].open \/ stream[s].told # "none" =>
            worker'[stream[s].job] = worker[stream[s].job]
      BY <1>3, <1>5, <3>1 DEF ToldRight
    <3>3. QED
      BY <3>1, <3>2 DEF ToldRight
  <2>2. QED
    BY <2>1 DEF Streams
<1>10. QED
  BY <1>6, <1>7, <1>8, <1>9 DEF IInv

LEMMA StartUniqueInv ==
    ASSUME IInv, NEW j \in Job, NEW k \in Key, StartUnique(j, k) PROVE IInv'
  BY StartStep DEF StartUnique

LEMMA StartPlainInv ==
    ASSUME IInv, NEW j \in Job, NEW polls \in BOOLEAN, StartPlain(j, polls) PROVE IInv'
  BY StartStep, JobAssumption DEF StartPlain

-----------------------------------------------------------------------------
(***************************************************************************)
(* Streams, and the restart of the server.                                 *)
(***************************************************************************)

\* A step that only changes one stream, to a well-formed state.
LEMMA StreamStep ==
    ASSUME IInv, NEW s \in Stream, NEW t \in StreamState,
           stream' = [stream EXCEPT ![s] = t], UNCHANGED <<store, worker, restarts>>,
           t.open => /\ t.job \in Job /\ t.told = "none"
                     /\ worker[t.job].pc # "none"
                     /\ store[t.job].held => t.cursor <= store[t.job].events,
           t.told # "none" => ~t.open /\ t.job \in Job /\ worker[t.job].pc \in Gone,
           t.told \in Ended => /\ worker[t.job].outcome = t.told
                               /\ t.cursor = worker[t.job].sent
    PROVE  IInv'
<1>1. /\ stream \in [Stream -> StreamState] /\ stream'[s] = t
      /\ \A r \in Stream : r # s => stream'[r] = stream[r]
  BY DEF IInv, TypeOK
<1>2. TypeOK'
  <2>1. stream' \in [Stream -> StreamState]
    BY <1>1
  <2>2. ASSUME NEW r \in Stream, stream'[r].open
        PROVE  /\ stream'[r].job \in Job
               /\ store[stream'[r].job].held =>
                    stream'[r].cursor <= store[stream'[r].job].events
    BY <1>1, <2>2 DEF IInv, TypeOK
  <2>3. QED
    BY <2>1, <2>2 DEF IInv, TypeOK
<1>3. Agree' /\ Unique'
  BY DEF IInv, Agree, Unique, IsActive
<1>4. Streams'
  <2>1. ASSUME NEW r \in Stream PROVE ToldRight(r)'
    BY <1>1 DEF IInv, Streams, ToldRight
  <2>2. QED
    BY <2>1 DEF Streams
<1>5. QED
  BY <1>2, <1>3, <1>4 DEF IInv

LEMMA AttachInv == ASSUME IInv, NEW s \in Stream, NEW j \in Job, Attach(s, j) PROVE IInv'
<1> DEFINE t == Opened(s, j)
<1>1. t \in StreamState /\ t.job = j /\ t.cursor = 0 /\ t.told = "none"
  BY DEF Opened, StreamState, Outcome
<1>2. store[j].events \in Nat /\ "none" \notin Ended
  BY DEF IInv, TypeOK, Entry, Ended
<1>3. worker[j].pc # "none" /\ stream' = [stream EXCEPT ![s] = t]
      /\ UNCHANGED <<store, worker, restarts>>
  BY DEF Attach
<1> HIDE DEF t
<1>4. t.cursor <= store[t.job].events /\ worker[t.job].pc # "none"
      /\ t.told \notin Ended
  BY <1>1, <1>2, <1>3
<1>5. QED
  BY <1>1, <1>3, <1>4, StreamStep

LEMMA NoStreamType ==
    NoStream \in StreamState /\ ~NoStream.open /\ NoStream.told = "none"
  BY DEF NoStream, StreamState, Outcome

LEMMA LeaveInv == ASSUME IInv, NEW s \in Stream, Leave(s) PROVE IInv'
<1>1. stream' = [stream EXCEPT ![s] = NoStream] /\ UNCHANGED <<store, worker, restarts>>
  BY DEF Leave
<1>2. "none" \notin Ended
  BY DEF Ended
<1>3. QED
  BY <1>1, <1>2, NoStreamType, StreamStep

LEMMA PollInv == ASSUME IInv, NEW s \in Stream, Poll(s) PROVE IInv'
<1> DEFINE j == stream[s].job
<1> DEFINE gone == [open |-> FALSE, job |-> j, cursor |-> stream[s].cursor,
                    told |-> "notfound"]
<1> DEFINE over == [open |-> FALSE, job |-> j, cursor |-> store[j].events,
                    told |-> store[j].result]
<1> DEFINE more == [open |-> TRUE, job |-> j, cursor |-> store[j].events,
                    told |-> "none"]
<1>1. /\ stream[s].open /\ j \in Job /\ stream[s] \in StreamState
      /\ store[j] \in Entry /\ worker[j] \in Worker
      /\ Agrees(store[j], worker[j]) /\ worker[j].pc # "none"
  BY DEF Poll, IInv, TypeOK, Agree, Streams, ToldRight
<1>2. "none" \notin Ended /\ "notfound" \notin Ended
  BY DEF Ended
<1>3. IsOver(store[j]) <=> store[j].status \notin ActiveStatus
  BY <1>1 DEF IsOver, Entry, ActiveStatus
<1>4. UNCHANGED <<store, worker, restarts>>
  BY DEF Poll
<1>5. CASE ~store[j].held
  <2>1. stream' = [stream EXCEPT ![s] = gone]
    BY <1>5 DEF Poll
  <2>2. worker[j].pc \in Gone
    BY <1>1, <1>5 DEF Agrees, Worker, Working, Gone
  <2>3. gone \in StreamState
    BY <1>1 DEF StreamState
  <2>4. QED
    BY <1>1, <1>2, <1>4, <2>1, <2>2, <2>3, StreamStep
<1>6. CASE store[j].held /\ IsOver(store[j])
  <2>1. stream' = [stream EXCEPT ![s] = over]
    BY <1>6 DEF Poll, Delivered
  <2>2. /\ worker[j].pc \in Gone /\ store[j].result = worker[j].outcome
        /\ worker[j].outcome \in Ended /\ store[j].events = worker[j].sent
    BY <1>1, <1>3, <1>6 DEF Agrees, Over, Gone
  <2>3. over \in StreamState
    BY <1>1, <2>2 DEF StreamState, Entry, Outcome
  <2>4. QED
    BY <1>1, <1>4, <2>1, <2>2, <2>3, StreamStep
<1>7. CASE store[j].held /\ ~IsOver(store[j])
  <2>1. stream' = [stream EXCEPT ![s] = more]
    BY <1>7 DEF Poll, Delivered
  <2>2. more \in StreamState /\ store[j].events <= store[j].events
    BY <1>1 DEF StreamState, Entry, Outcome
  <2>3. QED
    BY <1>1, <1>2, <1>4, <2>1, <2>2, StreamStep
<1>8. QED
  BY <1>5, <1>6, <1>7

LEMMA RestartInv == ASSUME IInv, Restart PROVE IInv'
<1>1. /\ \A j \in Job : ~store'[j].held
      /\ store' \in [Job -> Entry]
  BY DEF Restart, NoEntry, Entry, ActiveStatus, Outcome
<1>2. worker' \in [Job -> Worker]
  <2>1. \A j \in Job : worker[j] \in Worker
    BY DEF IInv, TypeOK
  <2>2. \A j \in Job : [worker[j] EXCEPT !.pc = "killed"] \in Worker
    BY <2>1 DEF Worker
  <2>3. QED
    BY <2>1, <2>2 DEF Restart
<1>3. \A j \in Job :
        /\ worker'[j].pc \in {"none", "ended", "killed"}
        /\ worker'[j].outcome = worker[j].outcome /\ worker'[j].sent = worker[j].sent
        /\ worker[j].pc \in Gone => worker'[j].pc \in Gone
  BY DEF Restart, IInv, TypeOK, Worker, Gone
<1>4. stream' \in [Stream -> StreamState]
      /\ \A s \in Stream : ~stream'[s].open
           /\ (stream'[s].told # "none" => stream'[s] = stream[s])
  BY NoStreamType DEF Restart, IInv, TypeOK
<1>5. restarts' \in 0..MaxRestarts
  BY JobAssumption DEF Restart, IInv, TypeOK
<1>6. TypeOK'
  BY <1>1, <1>2, <1>4, <1>5 DEF TypeOK
<1>7. Agree'
  BY <1>1, <1>3 DEF Agree, Agrees, Working
<1>8. Unique'
  BY <1>1 DEF Unique, IsActive
<1>9. Streams'
  <2>1. ASSUME NEW s \in Stream PROVE ToldRight(s)'
    <3>1. CASE stream'[s].told = "none"
      BY <1>4, <3>1 DEF ToldRight, Ended
    <3>2. CASE stream'[s].told # "none"
      BY <1>3, <1>4, <3>2 DEF IInv, Streams, ToldRight
    <3>3. QED
      BY <3>1, <3>2
  <2>2. QED
    BY <2>1 DEF Streams
<1>10. QED
  BY <1>6, <1>7, <1>8, <1>9 DEF IInv

-----------------------------------------------------------------------------
(***************************************************************************)
(* The theorems.                                                           *)
(***************************************************************************)

LEMMA InitInv == Init => IInv
<1> SUFFICES ASSUME Init PROVE IInv
  OBVIOUS
<1>1. NoEntry \in Entry /\ ~NoEntry.held
  BY DEF NoEntry, Entry, ActiveStatus, Outcome
<1>2. NoWorker \in Worker /\ NoWorker.pc = "none"
  BY DEF NoWorker, Worker, Outcome
<1>3. TypeOK
  BY <1>1, <1>2, NoStreamType, JobAssumption DEF Init, TypeOK
<1>4. Agree
  BY <1>1, <1>2 DEF Init, Agree, Agrees, Working
<1>5. Unique
  BY <1>1 DEF Init, Unique, IsActive
<1>6. Streams
  BY NoStreamType DEF Init, Streams, ToldRight, Ended
<1>7. QED
  BY <1>3, <1>4, <1>5, <1>6 DEF IInv

\* The invariant is inductive.
THEOREM Inductive == Spec => []IInv
<1>1. IInv /\ [Next]_vars => IInv'
  <2> SUFFICES ASSUME IInv, [Next]_vars PROVE IInv'
    OBVIOUS
  <2>1. CASE UNCHANGED vars
    BY <2>1 DEF vars, IInv, TypeOK, Agree, Unique, Streams, ToldRight, IsActive
  <2>2. CASE Next
    BY <2>2, WorkerInv, RequestCancelInv, AgeInv, RefusedInv, StartUniqueInv,
       StartPlainInv, AttachInv, LeaveInv, PollInv, RestartInv DEF Next
  <2>3. QED
    BY <2>1, <2>2
<1>2. QED
  BY <1>1, InitInv, PTL DEF Spec

\* Entries, threads and streams stay well formed.
THEOREM TypeCorrect == Spec => []TypeOK
<1>1. IInv => TypeOK
  BY DEF IInv
<1>2. QED
  BY <1>1, Inductive, PTL

\* A thread at work can be found and cancelled.
THEOREM Visible == Spec => []WorkIsVisible
<1>1. IInv => WorkIsVisible
  BY DEF IInv, Agree, Agrees, WorkIsVisible, IsWorking, IsActive
<1>2. QED
  BY <1>1, Inductive, PTL

\* However many requests arrive for a key, one thread works on it
\* (create_unique).
THEOREM Exclusive == Spec => []OneWorkerPerKey
<1>1. IInv => OneWorkerPerKey
  BY DEF IInv, Agree, Agrees, Unique, OneWorkerPerKey, IsWorking, IsActive
<1>2. QED
  BY <1>1, Inductive, PTL

\* What a stream reports is the outcome of the job, after all its events.
THEOREM Truthful == Spec => []StreamTold
<1>1. IInv => StreamTold
  <2> SUFFICES ASSUME IInv, NEW s \in Stream
               PROVE  /\ stream[s].told \in Ended =>
                           /\ worker[stream[s].job].outcome = stream[s].told
                           /\ stream[s].cursor = worker[stream[s].job].sent
                      /\ stream[s].told = "notfound" =>
                           worker[stream[s].job].pc \notin Working \union {"escaped"}
    BY DEF StreamTold
  <2>1. ToldRight(s)
    BY DEF IInv, Streams
  <2>2. QED
    BY <2>1 DEF ToldRight, Gone, Working, Ended
<1>2. QED
  BY <1>1, Inductive, PTL

\* The outcome of a finished job stays what it is while the store holds it.
THEOREM Final == Spec => OutcomeFinal
<1> DEFINE P == \A j \in Job :
                  store[j].held /\ ~IsActive(j) /\ store'[j].held =>
                    /\ store'[j].status = store[j].status
                    /\ store'[j].result = store[j].result
<1>1. IInv /\ [Next]_vars => [P]_vars
  <2> SUFFICES ASSUME IInv, Next, NEW j \in Job,
                      store[j].held, ~IsActive(j), store'[j].held
               PROVE  /\ store'[j].status = store[j].status
                      /\ store'[j].result = store[j].result
    BY DEF vars
  <2>1. worker[j].pc \in {"audit", "ended"} /\ store[j] \in Entry
        /\ store \in [Job -> Entry]
    BY DEF IInv, TypeOK, Agree, Agrees, Over, IsActive
  <2>2. Pruned[j] = store[j] \/ ~Pruned[j].held
    BY DEF Pruned, NoEntry
  <2>3. ASSUME NEW i \in Job, NEW k \in Key, StartUnique(i, k)
        PROVE  store'[j] = Pruned[j]
    BY <2>1, <2>3 DEF StartUnique, Pruned
  <2>4. ASSUME NEW i \in Job, NEW polls \in BOOLEAN, StartPlain(i, polls)
        PROVE  store'[j] = Pruned[j]
    BY <2>1, <2>4 DEF StartPlain, Pruned
  <2>5. ASSUME NEW i \in Job, WorkerStep(i)
        PROVE  /\ store'[j].status = store[j].status
               /\ store'[j].result = store[j].result
    <3>1. CASE i # j
      BY <2>1, <2>5, <3>1 DEF WorkerStep, Progress, StartPush, PollCancel, Pushed,
         PushDone, Complete, AuditWritten, AuditRaises, Fail, Escape, Send,
         Appended, Goto, Finish
    <3>2. CASE i = j
      BY <2>1, <2>5, <3>2 DEF WorkerStep, Progress, StartPush, PollCancel, Pushed,
         PushDone, Complete, AuditWritten, AuditRaises, Fail, Escape, Goto,
         Finish, IsWorking, Working
    <3>3. QED
      BY <3>1, <3>2
  <2>6. ASSUME NEW i \in Job, RequestCancel(i) \/ Age(i)
        PROVE  /\ store'[j].status = store[j].status
               /\ store'[j].result = store[j].result
    <3>1. CASE i # j
      BY <2>1, <2>6, <3>1 DEF RequestCancel, Age
    <3>2. CASE i = j
      BY <2>1, <2>6, <3>2 DEF RequestCancel, Age, Entry, IsActive, ActiveStatus
    <3>3. QED
      BY <3>1, <3>2
  <2>7. ASSUME NEW k \in Key, StartRefused(k)
        PROVE  store'[j] = Pruned[j]
    BY <2>7 DEF StartRefused
  <2>8. ASSUME NEW s \in Stream, Leave(s) \/ Poll(s) \/ \E i \in Job : Attach(s, i)
        PROVE  store' = store
    BY <2>8 DEF Leave, Poll, Attach
  <2>9. ~Restart
    BY DEF Restart, NoEntry
  <2>10. QED
    BY <2>2, <2>3, <2>4, <2>5, <2>6, <2>7, <2>8, <2>9 DEF Next
<1>2. QED
  BY <1>1, Inductive, PTL DEF Spec, OutcomeFinal

-----------------------------------------------------------------------------
(***************************************************************************)
(* The job store implements JobService, for any number of jobs, keys and   *)
(* streams: every step of it is a step of JobService or changes nothing    *)
(* that a client sees.                                                     *)
(***************************************************************************)

\* A push rolls back because somebody asked for that.
Asked ==
    \A j \in Job :
      worker[j].pc = "rollback" => store[j].status = "cancel_requested"

RInv == IInv /\ Asked

View == [j \in Job |-> Seen(j)]

\* The other names for the phases.
ActivePhase == {"running", "cancelling"}
OverPhase   == {"ok", "cancelled", "error"}

-----------------------------------------------------------------------------
\* What is seen of a job, by the state of its entry.
LEMMA SeenOf ==
    ASSUME IInv, NEW j \in Job
    PROVE  /\ Seen(j) = [phase |-> Seen(j).phase, key |-> Seen(j).key]
           /\ IsActive(j) <=> Seen(j).phase \in ActivePhase
           /\ IsActive(j) => Seen(j).phase = (IF store[j].status = "running"
                                              THEN "running" ELSE "cancelling")
           /\ store[j].held /\ ~IsActive(j) =>
                Seen(j).phase = store[j].result /\ store[j].result \in OverPhase
           /\ store[j].held => Seen(j).key = store[j].key
           /\ ~store[j].held => Seen(j).key = NoKey
           /\ ~store[j].held => Seen(j).phase = (IF worker[j].pc = "none"
                                                 THEN "unknown" ELSE "gone")
<1>1. store[j] \in Entry /\ Agrees(store[j], worker[j])
  BY DEF IInv, TypeOK, Agree
<1>2. store[j].status \in {"running", "cancel_requested", "done", "error"}
  BY <1>1 DEF Entry, ActiveStatus
<1>3. store[j].held /\ store[j].status \notin ActiveStatus => store[j].result \in OverPhase
  BY <1>1 DEF Agrees, Over, Ended, OverPhase
<1>4. CASE ~store[j].held
  BY <1>4 DEF Seen, IsActive, ActivePhase
<1>5. CASE store[j].held
  BY <1>2, <1>3, <1>5 DEF Seen, IsActive, ActivePhase, ActiveStatus, OverPhase
<1>6. QED
  BY <1>4, <1>5

\* A job whose entry keeps what clients see of it, and whose thread is not
\* about to start, looks the same afterwards.
LEMMA SameSeen ==
    ASSUME NEW j \in Job,
           store'[j].held = store[j].held, store'[j].status = store[j].status,
           store'[j].result = store[j].result, store'[j].key = store[j].key,
           (worker'[j].pc = "none") = (worker[j].pc = "none")
    PROVE  Seen(j)' = Seen(j)
  BY DEF Seen

\* A step that changes what is seen of one job.
LEMMA OneSeen ==
    ASSUME NEW j \in Job, \A i \in Job : i # j => Seen(i)' = Seen(i)
    PROVE  View' = [View EXCEPT ![j] = Seen(j)']
  BY DEF View

LEMMA Stutters ==
    ASSUME \A i \in Job : Seen(i)' = Seen(i)
    PROVE  View' = View
  BY DEF View

-----------------------------------------------------------------------------
(***************************************************************************)
(* The steps.                                                              *)
(***************************************************************************)

\* The end of a job: an outcome, "cancelled" only when that was asked for.
LEMMA FinishEnds ==
    ASSUME IInv, NEW j \in Job, NEW s \in {"done", "error"}, NEW r \in OverPhase,
           IsActive(j), r = "cancelled" => store[j].status = "cancel_requested",
           store' = Finish(j, s, r), worker'[j].pc # "none",
           \A i \in Job : i # j => worker'[i] = worker[i]
    PROVE  Service!End(j, r)
<1>1. store[j] \in Entry /\ store \in [Job -> Entry] /\ store[j].held
  BY DEF IInv, TypeOK, IsActive
<1> DEFINE e == [store[j] EXCEPT !.status = s, !.result = r]
<1>2. store' = [store EXCEPT ![j] = e]
  BY DEF Finish
<1>3. e.held /\ e.status = s /\ e.result = r /\ e.key = store[j].key
  BY <1>1 DEF Entry
<1> HIDE DEF e
<1>4. store'[j] = e /\ \A i \in Job : i # j => store'[i] = store[i]
  BY <1>1, <1>2
<1>5. Seen(j)' = [phase |-> r, key |-> store[j].key]
  BY <1>3, <1>4 DEF Seen
<1>6. \A i \in Job : i # j => Seen(i)' = Seen(i)
  BY <1>4 DEF Seen
<1>7. View' = [View EXCEPT ![j] = [phase |-> r, key |-> Seen(j).key]]
  BY <1>1, <1>5, <1>6, OneSeen, SeenOf
<1>8. Seen(j).phase \in ActivePhase /\ (r = "cancelled" => Seen(j).phase = "cancelling")
  BY SeenOf
<1>9. View[j] = Seen(j)
  BY DEF View
<1>10. QED
  BY <1>7, <1>8, <1>9 DEF Service!End, Service!Running, Service!Is, View, ActivePhase

LEMMA WorkerRefines ==
    ASSUME RInv, NEW j \in Job, WorkerStep(j)
    PROVE  View' = View \/ \E r \in OverPhase : Service!End(j, r)
<1>1. /\ store \in [Job -> Entry] /\ worker \in [Job -> Worker]
      /\ IInv /\ Agrees(store[j], worker[j])
  BY DEF RInv, IInv, TypeOK, Agree
<1>2. ASSUME NEW pc \in Working \union {"ended", "escaped"}, Goto(j, pc),
             worker[j].pc # "none"
      PROVE  View' = View
  <2>1. \A i \in Job : (worker'[i].pc = "none") = (worker[i].pc = "none")
    BY <1>1, <1>2 DEF Goto, Worker, Working
  <2>2. store' = store
    BY <1>2 DEF Goto
  <2>3. QED
    BY <2>1, <2>2, SameSeen, Stutters
<1>3. ASSUME NEW pc \in Working, Send(j, pc), worker[j].pc # "none"
      PROVE  View' = View
  <2>1. \A i \in Job : (worker'[i].pc = "none") = (worker[i].pc = "none")
    BY <1>1, <1>3 DEF Send, Worker, Working
  <2>2. \A i \in Job : /\ store'[i].held = store[i].held
                       /\ store'[i].status = store[i].status
                       /\ store'[i].result = store[i].result
                       /\ store'[i].key = store[i].key
    BY <1>1, <1>3 DEF Send, Appended, Entry
  <2>3. QED
    BY <2>1, <2>2, SameSeen, Stutters
<1>4. ASSUME IsWorking(j) PROVE IsActive(j)
  BY <1>1, <1>4 DEF Agrees, IsWorking, IsActive
<1>5. CASE Complete(j)
  <2> DEFINE r == IF worker[j].pc = "rollback" THEN "cancelled" ELSE "ok"
  <2>1. worker[j].pc \in Working /\ store' = Finish(j, "done", r)
    BY <1>5 DEF Complete, Working
  <2>2. worker'[j].pc # "none" /\ \A i \in Job : i # j => worker'[i] = worker[i]
    BY <1>1, <1>5 DEF Complete, Worker
  <2>3. r \in OverPhase /\ (r = "cancelled" => store[j].status = "cancel_requested")
    BY DEF OverPhase, RInv, Asked
  <2>4. IsActive(j)
    BY <2>1, <1>4 DEF IsWorking
  <2> HIDE DEF r
  <2>5. QED
    BY <1>1, <2>1, <2>2, <2>3, <2>4, FinishEnds
<1>6. CASE Fail(j)
  <2>1. IsActive(j) /\ store' = Finish(j, "error", "error")
    BY <1>4, <1>6 DEF Fail
  <2>2. worker'[j].pc # "none" /\ \A i \in Job : i # j => worker'[i] = worker[i]
    BY <1>1, <1>6 DEF Fail, Worker
  <2>3. "error" \in OverPhase
    BY DEF OverPhase
  <2>4. QED
    BY <1>1, <2>1, <2>2, <2>3, FinishEnds
<1>7. CASE AuditRaises(j)
  <2>1. ~IsActive(j)
    BY <1>1, <1>7 DEF AuditRaises, Agrees, IsActive, Working
  <2>2. Goto(j, "ended") /\ worker[j].pc # "none"
    BY <1>7, <2>1 DEF AuditRaises, Finish, Goto
  <2>3. QED
    BY <2>2, <1>2
<1>8. CASE Progress(j) \/ Pushed(j)
  <2>1. worker[j].pc # "none" /\ \E pc \in Working : Send(j, pc)
    BY <1>8 DEF Progress, Pushed, Working
  <2>2. QED
    BY <2>1, <1>3
<1>9. CASE StartPush(j) \/ PollCancel(j) \/ PushDone(j) \/ AuditWritten(j) \/ Escape(j)
  <2>1. worker[j].pc # "none" /\ \E pc \in Working \union {"ended", "escaped"} : Goto(j, pc)
    BY <1>9 DEF StartPush, PollCancel, PushDone, AuditWritten, Escape, Working
  <2>2. QED
    BY <2>1, <1>2
<1>10. QED
  BY <1>5, <1>6, <1>7, <1>8, <1>9 DEF WorkerStep

LEMMA CancelRefines ==
    ASSUME IInv, NEW j \in Job, RequestCancel(j)
    PROVE  Service!Cancel(j)
<1>1. store \in [Job -> Entry] /\ worker' = worker /\ store[j].held
      /\ store[j].status = "running"
  BY DEF IInv, TypeOK, RequestCancel
<1>2. /\ store'[j].held /\ store'[j].status = "cancel_requested"
      /\ store'[j].key = store[j].key
      /\ \A i \in Job : i # j => store'[i] = store[i]
  BY <1>1 DEF RequestCancel, Entry
<1>3. Seen(j)' = [phase |-> "cancelling", key |-> store[j].key]
      /\ Seen(j) = [phase |-> "running", key |-> store[j].key]
  BY <1>1, <1>2 DEF Seen
<1>4. \A i \in Job : i # j => Seen(i)' = Seen(i)
  BY <1>1, <1>2 DEF Seen
<1>5. View' = [View EXCEPT ![j] = [phase |-> "cancelling", key |-> Seen(j).key]]
  BY <1>3, <1>4, OneSeen
<1>6. View[j] = Seen(j) /\ Seen(j).phase = "running"
  BY <1>3 DEF View
<1>7. QED
  BY <1>5, <1>6 DEF Service!Cancel, Service!Is, View

LEMMA AgeRefines == ASSUME IInv, NEW j \in Job, Age(j) PROVE View' = View
<1>1. \A i \in Job : /\ store'[i].held = store[i].held
                     /\ store'[i].status = store[i].status
                     /\ store'[i].result = store[i].result
                     /\ store'[i].key = store[i].key
  BY DEF Age, IInv, TypeOK, Entry
<1>2. worker' = worker
  BY DEF Age
<1>3. QED
  BY <1>1, <1>2, SameSeen, Stutters

\* The ids whose entries pruning drops.
Dropped == {i \in Job : Pruned[i] # store[i]}

\* Pruning is a forgetting of JobService.
LEMMA PruneForgets ==
    ASSUME IInv
    PROVE  /\ Dropped \in SUBSET Service!Forgettable
           /\ \A i \in Job : i \notin Dropped => Pruned[i] = store[i]
           /\ \A i \in Dropped : ~Pruned[i].held /\ worker[i].pc # "none"
<1>1. ASSUME NEW i \in Dropped
      PROVE  /\ i \in Job /\ store[i].held /\ ~IsActive(i)
             /\ Pruned[i] = NoEntry
  BY PrunedEntries DEF Dropped
<1>2. ASSUME NEW i \in Dropped PROVE Seen(i).phase \in OverPhase
  BY <1>1, SeenOf
<1>3. ASSUME NEW i \in Dropped PROVE ~Pruned[i].held /\ worker[i].pc # "none"
  BY <1>1 DEF NoEntry, IInv, Agree, Agrees
<1>4. QED
  BY <1>1, <1>2, <1>3 DEF Dropped, Service!Forgettable, Service!Over, OverPhase

LEMMA RefusedRefines ==
    ASSUME IInv, NEW k \in Key, StartRefused(k)
    PROVE  Service!Forget
<1>1. store' = Pruned /\ worker' = worker
  BY DEF StartRefused
<1>2. \A i \in Job : Seen(i)' = IF i \in Dropped
                                THEN [phase |-> "gone", key |-> NoKey] ELSE Seen(i)
  BY <1>1, PruneForgets DEF Seen
<1>3. View' = Service!Forgotten(Dropped)
  BY <1>2 DEF View, Service!Forgotten, Service!Is
<1>4. QED
  BY <1>3, PruneForgets DEF Service!Forget, View

LEMMA StartRefines ==
    ASSUME IInv, NEW j \in Job, NEW k \in Key \union {NoKey}, NEW polls \in BOOLEAN,
           worker[j].pc = "none",
           k \in Key => Existing(k) = {},
           store' = [Pruned EXCEPT ![j] = NewEntry(k)],
           worker' = [worker EXCEPT ![j] = NewWorker(k, polls)]
    PROVE  Service!Start(j, k)
<1>1. /\ Pruned \in [Job -> Entry] /\ worker \in [Job -> Worker]
      /\ ~store[j].held
  BY PrunedEntries DEF IInv, TypeOK, Agree, Agrees
<1>2. Seen(j).phase = "unknown"
  BY <1>1, SeenOf
<1>3. ASSUME NEW i \in Job, Seen(i).phase \in ActivePhase, Seen(i).key = k
      PROVE  k = NoKey
  <2>1. IsActive(i) /\ store[i].key = k
    BY <1>3, SeenOf DEF IsActive
  <2>2. QED
    BY <2>1 DEF Existing
<1>4. j \notin Dropped
  BY <1>2, PruneForgets DEF Service!Forgettable, Service!Over
<1>5. /\ store'[j].held /\ store'[j].status = "running" /\ store'[j].key = k
      /\ \A i \in Job : i # j => store'[i] = Pruned[i] /\ worker'[i] = worker[i]
  BY <1>1 DEF NewEntry
<1>6. Seen(j)' = [phase |-> "running", key |-> k]
  BY <1>5 DEF Seen
<1>7. \A i \in Job : i # j =>
        Seen(i)' = IF i \in Dropped THEN [phase |-> "gone", key |-> NoKey] ELSE Seen(i)
  BY <1>5, PruneForgets DEF Seen
<1>8. View' = [Service!Forgotten(Dropped) EXCEPT ![j] = [phase |-> "running", key |-> k]]
  BY <1>4, <1>6, <1>7 DEF View, Service!Forgotten, Service!Is
<1>9. QED
  BY <1>2, <1>3, <1>8, PruneForgets
     DEF Service!Start, Service!Running, Service!Is, View, ActivePhase

LEMMA RestartRefines == ASSUME IInv, Restart PROVE Service!Stop
<1>1. ASSUME NEW i \in Job
      PROVE  Seen(i)' = IF Seen(i).phase = "unknown" THEN Seen(i)
                        ELSE [phase |-> "gone", key |-> NoKey]
  <2>1. store[i] \in Entry /\ worker[i] \in Worker /\ Agrees(store[i], worker[i])
    BY DEF IInv, TypeOK, Agree
  <2>2. ~store'[i].held /\ (worker'[i].pc = "none" <=> worker[i].pc = "none")
    BY <2>1 DEF Restart, NoEntry, Worker
  <2>3. Seen(i)' = [phase |-> IF worker[i].pc = "none" THEN "unknown" ELSE "gone",
                    key |-> NoKey]
    BY <2>2 DEF Seen
  <2>4. Seen(i).phase = "unknown" <=> worker[i].pc = "none"
    <3>1. CASE store[i].held
      BY <2>1, <3>1, SeenOf DEF ActivePhase, OverPhase, Agrees
    <3>2. CASE ~store[i].held
      BY <3>2, SeenOf
    <3>3. QED
      BY <3>1, <3>2
  <2>5. worker[i].pc = "none" => Seen(i) = [phase |-> "unknown", key |-> NoKey]
    BY <2>1, SeenOf DEF Agrees
  <2>6. QED
    BY <2>3, <2>4, <2>5
<1>2. QED
  BY <1>1 DEF Service!Stop, Service!Is, View

-----------------------------------------------------------------------------
(***************************************************************************)
(* The theorem.                                                            *)
(***************************************************************************)

\* Whoever rolls back was told to, and an accepted cancel is not taken back.
LEMMA AskedStep == ASSUME RInv, [Next]_vars PROVE Asked'
<1>1. store \in [Job -> Entry] /\ worker \in [Job -> Worker] /\ IInv
  BY DEF RInv, IInv, TypeOK
<1> SUFFICES ASSUME NEW i \in Job, worker'[i].pc = "rollback"
             PROVE  store'[i].status = "cancel_requested"
  BY DEF Asked
<1>2. worker[i].pc = "rollback" => /\ store[i].status = "cancel_requested"
                                   /\ IsActive(i)
  BY <1>1 DEF RInv, Asked, IInv, Agree, Agrees, Working, IsActive
<1>3. ASSUME NEW j \in Job, NEW pc, pc \in {"rollback"} => j # i \/ store[j].status = "cancel_requested",
             Goto(j, pc)
      PROVE  store'[i].status = "cancel_requested"
  BY <1>1, <1>2, <1>3 DEF Goto, Worker
<1>4. ASSUME NEW j \in Job, WorkerStep(j)
      PROVE  store'[i].status = "cancel_requested"
  <2>1. CASE Progress(j) \/ Pushed(j)
    <3>1. PICK pc : Send(j, pc) /\ (pc = "rollback" => worker[j].pc = "rollback")
      BY <2>1 DEF Progress, Pushed
    <3>2. worker[i].pc = "rollback"
      BY <1>1, <3>1 DEF Send, Worker
    <3>3. store'[i].status = store[i].status
      BY <1>1, <3>1 DEF Send, Appended, Entry
    <3>4. QED
      BY <1>2, <3>2, <3>3
  <2>2. CASE PollCancel(j)
    BY <1>3, <2>2 DEF PollCancel
  <2>3. CASE StartPush(j) \/ PushDone(j) \/ AuditWritten(j) \/ Escape(j)
    BY <1>3, <2>3 DEF StartPush, PushDone, AuditWritten, Escape
  <2>4. CASE Complete(j) \/ AuditRaises(j) \/ Fail(j)
    <3>1. j # i
      BY <1>1, <2>4 DEF Complete, AuditRaises, Fail, Worker
    <3>2. worker'[i] = worker[i] /\ store'[i] = store[i]
      BY <1>1, <2>4, <3>1 DEF Complete, AuditRaises, Fail, Finish
    <3>3. QED
      BY <1>2, <3>2
  <2>5. QED
    BY <1>4, <2>1, <2>2, <2>3, <2>4 DEF WorkerStep
<1>5. ASSUME NEW j \in Job, NEW k, NEW polls, worker[j].pc = "none",
             store' = [Pruned EXCEPT ![j] = NewEntry(k)],
             worker' = [worker EXCEPT ![j] = NewWorker(k, polls)]
      PROVE  store'[i].status = "cancel_requested"
  <2>1. j # i /\ worker[i].pc = "rollback"
    BY <1>1, <1>5 DEF NewWorker
  <2>2. store'[i] = Pruned[i] /\ Pruned[i] = store[i]
    BY <1>1, <1>2, <1>5, <2>1, PrunedEntries
  <2>3. QED
    BY <1>2, <2>1, <2>2
<1>6. ASSUME NEW k \in Key, StartRefused(k) PROVE store'[i].status = "cancel_requested"
  BY <1>1, <1>2, <1>6, PrunedEntries DEF StartRefused
<1>7. ASSUME NEW j \in Job, RequestCancel(j) \/ Age(j)
      PROVE  store'[i].status = "cancel_requested"
  BY <1>1, <1>2, <1>7 DEF RequestCancel, Age, Entry
<1>8. CASE Restart
  BY <1>1, <1>8 DEF Restart, Worker
<1>9. CASE UNCHANGED <<store, worker>>
  BY <1>2, <1>9
<1>10. CASE Next
  BY <1>4, <1>5, <1>6, <1>7, <1>8, <1>9, <1>10
     DEF Next, StartUnique, StartPlain, Attach, Leave, Poll
<1>11. QED
  BY <1>9, <1>10 DEF vars

LEMMA NextRefines == ASSUME RInv, [Next]_vars PROVE [Service!Next]_View
<1>1. IInv
  BY DEF RInv
<1>2. ASSUME UNCHANGED <<store, worker>> PROVE View' = View
  BY <1>2 DEF View, Seen
<1>3. ASSUME NEW j \in Job, WorkerStep(j) PROVE [Service!Next]_View
  BY <1>3, WorkerRefines DEF Service!Next, Service!Over, OverPhase
<1>4. ASSUME NEW j \in Job, RequestCancel(j) PROVE Service!Next
  BY <1>1, <1>4, CancelRefines DEF Service!Next
<1>5. ASSUME NEW j \in Job, NEW k \in Key, StartUnique(j, k) PROVE Service!Next
  BY <1>1, <1>5, StartRefines DEF StartUnique, Service!Next
<1>6. ASSUME NEW j \in Job, NEW polls \in BOOLEAN, StartPlain(j, polls)
      PROVE  Service!Next
  <2>1. NoKey \notin Key
    BY JobAssumption
  <2>2. Service!Start(j, NoKey)
    BY <1>1, <1>6, <2>1, StartRefines DEF StartPlain
  <2>3. QED
    BY <2>2 DEF Service!Next
<1>7. ASSUME NEW k \in Key, StartRefused(k) PROVE Service!Next
  BY <1>1, <1>7, RefusedRefines DEF Service!Next
<1>8. CASE Restart
  BY <1>1, <1>8, RestartRefines DEF Service!Next
<1>9. ASSUME NEW j \in Job, Age(j) PROVE View' = View
  BY <1>1, <1>9, AgeRefines
<1>10. CASE Next
  BY <1>2, <1>3, <1>4, <1>5, <1>6, <1>7, <1>8, <1>9, <1>10
     DEF Next, Attach, Leave, Poll
<1>11. QED
  BY <1>2, <1>10 DEF vars

LEMMA InitRefines == ASSUME Init PROVE Service!Init /\ Asked
<1>1. \A j \in Job : Seen(j) = [phase |-> "unknown", key |-> NoKey]
  BY DEF Init, Seen, NoEntry, NoWorker
<1>2. QED
  BY <1>1 DEF Service!Init, Service!Is, Init, Asked, NoWorker

\* The store, its workers, its pruning and its restarts show clients nothing
\* but what JobService allows.
THEOREM Refines == Spec => ImplementsService
<1>1. Spec => []RInv
  <2>1. Init => Asked
    BY InitRefines
  <2>2. IInv /\ Asked /\ [Next]_vars => Asked'
    BY AskedStep DEF RInv
  <2>3. QED
    BY <2>1, <2>2, Inductive, PTL DEF Spec, RInv
<1>2. Init => Service!Init
  BY InitRefines
<1>3. RInv /\ [Next]_vars => [Service!Next]_[j \in Job |-> Seen(j)]
  BY NextRefines DEF View
<1>4. QED
  BY <1>1, <1>2, <1>3, PTL DEF Spec, ImplementsService, Service!Spec
=============================================================================
