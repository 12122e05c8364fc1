-------------------------- MODULE ImportCacheProofs --------------------------
(***************************************************************************)
(* Theorems about ImportCache, for every set of runs, types, objects and   *)
(* configurations and every history of the tenant.                         *)
(***************************************************************************)
EXTENDS ImportCache, TLAPS

\* A step that only changes the local state of one run, to a well-formed one,
\* keeps the type invariant.
LEMMA RunStepType ==
    ASSUME TypeOK, NEW r \in Run, NEW s \in RunState,
           run' = [run EXCEPT ![r] = s],
           s.todo \subseteq s.filter \ s.skip, s.cur \subseteq s.todo,
           s.pc = "fetch" => s.cur = {},
           s.start <= clock',
           clock' \in Nat, clock <= clock',
           UNCHANGED <<tenant, edits, resets>>,
           row' \in [Obj -> Row], disabled' \subseteq Type, quiet' \subseteq Run
    PROVE  TypeOK'
<1>1. run' \in [Run -> RunState]
  BY DEF TypeOK
<1>2. ASSUME NEW q \in Run
      PROVE  /\ run'[q].todo \subseteq run'[q].filter \ run'[q].skip
             /\ run'[q].cur \subseteq run'[q].todo
             /\ run'[q].pc = "fetch" => run'[q].cur = {}
             /\ run'[q].start <= clock'
  <2>1. CASE q = r
    BY <2>1 DEF TypeOK
  <2>2. CASE q # r
    <3>1. run'[q] = run[q] /\ run[q].start \in Nat /\ clock \in Nat
      BY <2>2 DEF TypeOK, RunState
    <3>2. QED
      BY <3>1 DEF TypeOK
  <2>3. QED
    BY <2>1, <2>2
<1>3. QED
  BY <1>1, <1>2 DEF TypeOK

LEMMA LocalStepType ==
    ASSUME TypeOK, NEW r \in Run, NEW s \in RunState,
           run' = [run EXCEPT ![r] = s],
           s.todo \subseteq s.filter \ s.skip, s.cur \subseteq s.todo,
           s.pc = "fetch" => s.cur = {},
           s.start <= clock,
           UNCHANGED <<tenant, row, disabled, clock, edits, resets, quiet>>
    PROVE  TypeOK'
<1>1. /\ clock' \in Nat /\ clock <= clock' /\ s.start <= clock'
      /\ row' \in [Obj -> Row] /\ disabled' \subseteq Type /\ quiet' \subseteq Run
  BY DEF TypeOK
<1>2. QED
  BY <1>1, RunStepType

LEMMA NothingType == Nothing \in [Obj -> Live]
  BY DEF Nothing, Live

LEMMA IdleType == Idle \in RunState
  BY NothingType DEF Idle, RunState, PC, Status

LEMMA InitType == Init => TypeOK
<1> SUFFICES ASSUME Init PROVE TypeOK
  OBVIOUS
<1>1. run \in [Run -> RunState]
  BY IdleType DEF Init
<1>2. row \in [Obj -> Row]
  <2>1. NoRow \in Row
    BY DEF NoRow, Row, Live, Null
  <2>2. \A c \in Config, g \in BOOLEAN : TenantRow(c, 1, g) \in Row
    BY DEF TenantRow, Row, Live
  <2>3. \A c \in Config : CandidateRow(c) \in Row
    BY DEF CandidateRow, Row, Live, Null
  <2>4. QED
    BY <2>1, <2>2, <2>3 DEF Init, InitialRows
<1>3. \A r \in Run : run[r].todo = {} /\ run[r].cur = {} /\ run[r].start = 0
  BY DEF Init, Idle
<1>4. QED
  BY <1>1, <1>2, <1>3, ImportAssumption DEF Init, TypeOK

\* The local state each action leaves its run in.
LEMMA BeginType ==
    ASSUME TypeOK, NEW r \in Run, NEW f \in Filters, Begin(r, f)
    PROVE  TypeOK'
<1>1. f \subseteq Type /\ disabled \subseteq Type /\ clock \in Nat
  BY ImportAssumption DEF TypeOK
<1>2. Started(f) \in RunState
  <2>1. "fetch" \in PC /\ "RUNNING" \in Status
    BY DEF PC, Active, Status
  <2>2. clock + 1 \in Nat /\ WorkList(f) \subseteq Type
    BY <1>1 DEF WorkList
  <2>3. QED
    BY <1>1, <2>1, <2>2, NothingType DEF RunState, Started
<1>3. LET s == Started(f)
      IN  /\ s.todo \subseteq s.filter \ s.skip /\ s.cur = {}
          /\ s.start = clock + 1
  BY DEF WorkList, Started
<1>4. /\ run' = [run EXCEPT ![r] = Started(f)] /\ clock' = clock + 1
      /\ quiet' \subseteq Run
      /\ UNCHANGED <<tenant, row, disabled, edits, resets>>
  BY DEF Begin, TypeOK
<1>5. row' \in [Obj -> Row] /\ disabled' \subseteq Type
  BY <1>4 DEF TypeOK
<1>6. clock' \in Nat /\ clock <= clock' /\ Started(f).start <= clock'
  BY <1>1, <1>3, <1>4
<1>7. QED
  BY <1>2, <1>3, <1>4, <1>5, <1>6, RunStepType

LEMMA FetchType ==
    ASSUME TypeOK, NEW r \in Run, NEW t \in Type,
           FetchOk(r, t) \/ FetchError(r, t) \/ FetchNotEntitled(r, t)
    PROVE  TypeOK'
<1> run[r] \in RunState /\ clock \in Nat /\ t \in run[r].todo
  BY DEF TypeOK, FetchOk, FetchError, FetchNotEntitled
<1>1. CASE FetchOk(r, t)
  <2> DEFINE s == [run[r] EXCEPT !.pc = "upsert", !.cur = {t}, !.got = Fetched(t)]
  <2>1. Fetched(t) \in [Obj -> Live]
    BY DEF Fetched, TypeOK, Live
  <2>2. s \in RunState
    BY <2>1 DEF RunState, PC, Active
  <2>3. run' = [run EXCEPT ![r] = s]
    BY <1>1 DEF FetchOk, TypeOK
  <2>4. s.todo = run[r].todo /\ s.filter = run[r].filter /\ s.skip = run[r].skip
        /\ s.cur = {t} /\ s.start = run[r].start /\ s.pc # "fetch"
    BY DEF RunState
  <2>5. QED
    BY <1>1, <2>2, <2>3, <2>4, RunStepType DEF FetchOk, TypeOK
<1>2. CASE FetchError(r, t)
  <2> DEFINE s == [run[r] EXCEPT !.errs = @ \union {t}, !.todo = AfterError(r, {t})]
  <2>1. run[r].pc = "fetch"
    BY <1>2 DEF FetchError
  <2>2. s \in RunState
    BY DEF RunState, AfterError
  <2>3. run' = [run EXCEPT ![r] = s]
    BY <1>2 DEF FetchError, TypeOK
  <2>4. s.todo = run[r].todo \ {t} /\ s.filter = run[r].filter
        /\ s.skip = run[r].skip /\ s.cur = run[r].cur /\ s.start = run[r].start
    BY DEF RunState, AfterError
  <2>5. run[r].cur = {} /\ run[r].todo \subseteq run[r].filter \ run[r].skip
        /\ run[r].start <= clock
    BY <2>1 DEF TypeOK
  <2>6. UNCHANGED <<tenant, row, disabled, clock, edits, resets, quiet>>
    BY <1>2 DEF FetchError
  <2> HIDE DEF s
  <2>7. QED
    BY <2>2, <2>3, <2>4, <2>5, <2>6, LocalStepType
<1>3. CASE FetchNotEntitled(r, t)
  <2> DEFINE s == [run[r] EXCEPT !.pc = "disable", !.cur = {t}, !.seen = disabled]
  <2>1. s \in RunState
    BY DEF RunState, PC, Active, TypeOK
  <2>2. run' = [run EXCEPT ![r] = s]
    BY <1>3 DEF FetchNotEntitled, TypeOK
  <2>3. s.todo = run[r].todo /\ s.filter = run[r].filter /\ s.skip = run[r].skip
        /\ s.cur = {t} /\ s.start = run[r].start /\ s.pc # "fetch"
    BY DEF RunState
  <2>4. QED
    BY <1>3, <2>1, <2>2, <2>3, RunStepType DEF FetchNotEntitled, TypeOK
<1>4. QED
  BY <1>1, <1>2, <1>3

LEMMA DisableType == ASSUME TypeOK, NEW r \in Run, Disable(r) PROVE TypeOK'
<1> DEFINE s == [run[r] EXCEPT !.pc = "fetch", !.cur = {}, !.seen = {},
                               !.na = @ \union run[r].cur,
                               !.todo = @ \ run[r].cur]
<1>1. run[r] \in RunState /\ clock \in Nat
  BY DEF TypeOK
<1>2. s \in RunState
  BY <1>1 DEF RunState, PC, Active
<1>3. run' = [run EXCEPT ![r] = s]
  BY DEF Disable, AfterError, TypeOK
<1>4. s.todo = run[r].todo \ run[r].cur /\ s.filter = run[r].filter
      /\ s.skip = run[r].skip /\ s.cur = {} /\ s.start = run[r].start
  BY <1>1 DEF RunState
<1>5. disabled' \subseteq Type
  BY <1>1 DEF Disable, AfterError, RunState, TypeOK
<1>6. QED
  BY <1>1, <1>2, <1>3, <1>4, <1>5, RunStepType DEF Disable, AfterError, TypeOK

\* What Upsert makes of a row is a row.
LEMMA UpsertedType ==
    ASSUME TypeOK, NEW o \in Obj, NEW c \in Live, NEW n \in Nat
    PROVE  Upserted(o, c, n) \in Row
BY DEF Upserted, TypeOK, Row

LEMMA UpsertType == ASSUME TypeOK, NEW r \in Run, Upsert(r) PROVE TypeOK'
<1> DEFINE live == {o \in Obj : run[r].got[o] # Absent}
           s == [run[r] EXCEPT !.pc = "fetch", !.cur = {}, !.got = Nothing,
                               !.todo = @ \ run[r].cur]
<1>1. run[r] \in RunState /\ clock \in Nat
  BY DEF TypeOK
<1>2. s \in RunState
  BY <1>1, NothingType DEF RunState, PC, Active
<1>3. run' = [run EXCEPT ![r] = s]
  BY DEF Upsert, TypeOK
<1>4. s.todo = run[r].todo \ run[r].cur /\ s.filter = run[r].filter
      /\ s.skip = run[r].skip /\ s.cur = {} /\ s.start = run[r].start
  BY <1>1 DEF RunState
<1>5. row' \in [Obj -> Row]
  <2>1. \A o \in Obj : run[r].got[o] \in Live /\ run[r].start \in Nat
    BY <1>1 DEF RunState
  <2>2. \A o \in Obj : Upserted(o, run[r].got[o], run[r].start) \in Row
    BY <2>1, UpsertedType
  <2>3. \A o \in Obj : row[o] \in Row
    BY DEF TypeOK
  <2>4. QED
    BY <2>2, <2>3 DEF Upsert
<1>6. /\ s.todo \subseteq s.filter \ s.skip /\ s.start <= clock
      /\ quiet' \subseteq Run /\ disabled' \subseteq Type
      /\ UNCHANGED <<tenant, edits, resets, clock>>
  BY <1>4 DEF Upsert, TypeOK
<1>7. clock' \in Nat /\ clock <= clock' /\ s.start <= clock'
  BY <1>1, <1>6
<1> HIDE DEF s
<1>8. QED
  BY <1>2, <1>3, <1>4, <1>5, <1>6, <1>7, RunStepType

LEMMA SweepReadType == ASSUME TypeOK, NEW r \in Run, SweepRead(r) PROVE TypeOK'
<1> DEFINE st == StaleRows(run[r].filter, run[r].start)
           s == [run[r] EXCEPT !.pc = "sweep", !.stale = st]
<1>1. run[r] \in RunState /\ clock \in Nat
  BY DEF TypeOK
<1>2. s \in RunState
  <2>1. st \subseteq Obj
    BY DEF StaleRows
  <2> HIDE DEF st
  <2>2. QED
    BY <1>1, <2>1 DEF RunState, PC, Active
<1>3. run' = [run EXCEPT ![r] = s]
  BY DEF SweepRead, TypeOK
<1> HIDE DEF st
<1>4. s.todo = run[r].todo /\ s.filter = run[r].filter /\ s.pc = "sweep"
      /\ s.skip = run[r].skip /\ s.cur = run[r].cur /\ s.start = run[r].start
  BY <1>1 DEF RunState
<1>5. s.todo \subseteq s.filter \ s.skip /\ s.cur \subseteq s.todo
      /\ s.start <= clock
  BY <1>4 DEF TypeOK
<1>6. UNCHANGED <<tenant, row, disabled, clock, edits, resets, quiet>>
  BY DEF SweepRead
<1> HIDE DEF s
<1>7. QED
  BY <1>2, <1>3, <1>4, <1>5, <1>6, LocalStepType

LEMMA SweepWriteType == ASSUME TypeOK, NEW r \in Run, SweepWrite(r) PROVE TypeOK'
<1> DEFINE s == [run[r] EXCEPT !.pc = "finish", !.stale = {}]
<1>1. run[r] \in RunState /\ clock \in Nat
  BY DEF TypeOK
<1>2. s \in RunState
  BY <1>1 DEF RunState, PC, Active
<1>3. run' = [run EXCEPT ![r] = s]
  BY DEF SweepWrite, TypeOK
<1>4. s.todo = run[r].todo /\ s.filter = run[r].filter /\ s.pc = "finish"
      /\ s.skip = run[r].skip /\ s.cur = run[r].cur /\ s.start = run[r].start
  BY <1>1 DEF RunState
<1>5. row' \in [Obj -> Row]
  BY DEF SweepWrite, TypeOK, Row
<1>6. /\ s.todo \subseteq s.filter \ s.skip /\ s.start <= clock
      /\ s.cur \subseteq s.todo
      /\ quiet' \subseteq Run /\ disabled' \subseteq Type
      /\ UNCHANGED <<tenant, edits, resets, clock>>
  BY <1>4 DEF SweepWrite, TypeOK
<1>7. clock' \in Nat /\ clock <= clock' /\ s.start <= clock'
  BY <1>1, <1>6
<1> HIDE DEF s
<1>8. QED
  BY <1>2, <1>3, <1>4, <1>5, <1>6, <1>7, RunStepType

LEMMA FinishType == ASSUME TypeOK, NEW r \in Run, Finish(r) PROVE TypeOK'
<1> DEFINE s == [run[r] EXCEPT !.pc = "done", !.log = Outcome(r),
                               !.start = 0]
<1>1. run[r] \in RunState /\ clock \in Nat
  BY DEF TypeOK
<1>2. s \in RunState
  <2>1. Outcome(r) \in Status
    BY DEF Outcome, Status
  <2>2. QED
    BY <1>1, <2>1 DEF RunState, PC, Active
<1>3. run' = [run EXCEPT ![r] = s]
  BY DEF Finish, TypeOK
<1>4. s.todo = run[r].todo /\ s.filter = run[r].filter /\ s.pc = "done"
      /\ s.skip = run[r].skip /\ s.cur = run[r].cur /\ s.start = 0
  BY <1>1 DEF RunState
<1>5. s.todo \subseteq s.filter \ s.skip /\ s.cur \subseteq s.todo
      /\ s.start <= clock
  BY <1>1, <1>4 DEF TypeOK
<1>6. UNCHANGED <<tenant, row, disabled, clock, edits, resets, quiet>>
  BY DEF Finish
<1> HIDE DEF s
<1>7. QED
  BY <1>2, <1>3, <1>4, <1>5, <1>6, LocalStepType

LEMMA DieType == ASSUME TypeOK, NEW r \in Run, Die(r) PROVE TypeOK'
<1> DEFINE s == [Idle EXCEPT !.pc = "dead", !.log = "RUNNING"]
<1>1. s \in RunState
  BY IdleType DEF RunState, PC, Status
<1>2. s.todo = {} /\ s.cur = {} /\ s.start = 0 /\ s.pc = "dead"
  BY DEF Idle
<1>3. run' = [run EXCEPT ![r] = s]
  BY DEF Die
<1>4. s.start <= clock
  BY <1>2 DEF TypeOK
<1>5. UNCHANGED <<tenant, row, disabled, clock, edits, resets, quiet>>
  BY DEF Die
<1> HIDE DEF s
<1>6. QED
  BY <1>1, <1>2, <1>3, <1>4, <1>5, LocalStepType

-----------------------------------------------------------------------------
(***************************************************************************)
(* The inductive invariant.                                                *)
(***************************************************************************)

\* What a run holds between a fetch and its write, and between the sweep's
\* query and its commit, is of the types the run was asked for.
HoldsOwnTypes ==
    \A r \in Run :
      /\ run[r].pc # "upsert" => \A o \in Obj : run[r].got[o] = Absent
      /\ \A o \in Obj : run[r].got[o] # Absent => TypeOf[o] \in run[r].cur
      /\ run[r].stale \subseteq {o \in Obj : TypeOf[o] \in run[r].filter}

\* Candidates are on no tenant, in no fetch and in no sweep.
CandidatesApart ==
    \A o \in Candidate :
      /\ tenant[o] = Absent
      /\ row[o].stored => row[o].source = "palo"
      /\ \A r \in Run : run[r].got[o] = Absent /\ o \notin run[r].stale

\* Time: no row is stamped in the future, and a row of the tenant is stamped.
Stamped ==
    /\ \A r \in Run : IsActive(r) => run[r].start # Null
    /\ \A o \in Obj :
         /\ row[o].synced <= clock
         /\ row[o].stored /\ row[o].source = "tenant" => row[o].synced # Null

\* Before its sweep commits, an undisturbed run has stamped all it has read,
\* and nothing that is not on the tenant carries its stamp.
MidRun(r) ==
    /\ \A o \in Obj :
         /\ TypeOf[o] \in Read(r) /\ tenant[o] # Absent =>
              /\ row[o].stored /\ ~row[o].deleted
              /\ row[o].cfg = tenant[o] /\ row[o].synced = run[r].start
         /\ tenant[o] = Absent => row[o].synced < run[r].start
    /\ run[r].pc = "upsert" =>
         \A o \in Obj : run[r].got[o] =
                          IF TypeOf[o] \in run[r].cur THEN tenant[o] ELSE Absent
    /\ run[r].pc = "sweep" =>
         run[r].stale = StaleRows(run[r].filter, run[r].start)

UndisturbedRun(r) ==
    /\ \A p \in Run \ {r} : ~IsActive(p)
    /\ run[r].pc \in {"fetch", "disable", "upsert", "sweep"} => MidRun(r)
    /\ run[r].pc \in {"finish", "done"} =>
         \A o \in Obj : TypeOf[o] \in Read(r) => Mirrors(o)

Undisturbed == \A r \in quiet : UndisturbedRun(r)

\* The sync log's SUCCESS is earned.
HonestLog ==
    \A r \in Run :
      /\ run[r].pc \in {"sweep", "finish", "done"} => run[r].todo = {}
      /\ run[r].pc = "done" /\ run[r].log = "SUCCESS" => run[r].errs = {}

IInv == /\ TypeOK
        /\ HoldsOwnTypes
        /\ CandidatesApart
        /\ Stamped
        /\ Undisturbed
        /\ HonestLog

\* The steps, one by one.
LEMMA NextCases ==
    ASSUME [Next]_vars
    PROVE  \/ \E r \in Run, f \in Filters : Begin(r, f)
           \/ \E r \in Run, t \in Type : FetchOk(r, t)
           \/ \E r \in Run, t \in Type : FetchError(r, t)
           \/ \E r \in Run, t \in Type : FetchNotEntitled(r, t)
           \/ \E r \in Run : Disable(r)
           \/ \E r \in Run : Upsert(r)
           \/ \E r \in Run : SweepRead(r)
           \/ \E r \in Run : SweepWrite(r)
           \/ \E r \in Run : Finish(r)
           \/ \E r \in Run : Die(r)
           \/ \E o \in Obj, c \in Live : Edit(o, c)
           \/ ClearDisabled
           \/ UNCHANGED vars
BY DEF Next, Step

LEMMA HoldsOwnTypesStep ==
    ASSUME IInv, [Next]_vars
    PROVE  HoldsOwnTypes'
<1> USE DEF IInv, HoldsOwnTypes
<1>1. ASSUME NEW r \in Run, NEW f \in Filters, Begin(r, f)
      PROVE  HoldsOwnTypes'
  BY <1>1 DEF Begin, Started, Nothing, TypeOK, RunState
<1>2. ASSUME NEW r \in Run, NEW t \in Type, FetchOk(r, t)
      PROVE  HoldsOwnTypes'
  BY <1>2 DEF FetchOk, Fetched, TypeOK, RunState
<1>3. ASSUME NEW r \in Run, NEW t \in Type, FetchError(r, t)
      PROVE  HoldsOwnTypes'
  BY <1>3 DEF FetchError, TypeOK, RunState
<1>4. ASSUME NEW r \in Run, NEW t \in Type, FetchNotEntitled(r, t)
      PROVE  HoldsOwnTypes'
  BY <1>4 DEF FetchNotEntitled, TypeOK, RunState
<1>5. ASSUME NEW r \in Run, Disable(r)
      PROVE  HoldsOwnTypes'
  BY <1>5 DEF Disable, AfterError, TypeOK, RunState
<1>6. ASSUME NEW r \in Run, Upsert(r)
      PROVE  HoldsOwnTypes'
  BY <1>6 DEF Upsert, Nothing, TypeOK, RunState
<1>7. ASSUME NEW r \in Run, SweepRead(r)
      PROVE  HoldsOwnTypes'
  BY <1>7 DEF SweepRead, StaleRows, TypeOK, RunState
<1>8. ASSUME NEW r \in Run, SweepWrite(r)
      PROVE  HoldsOwnTypes'
  BY <1>8 DEF SweepWrite, TypeOK, RunState
<1>9. ASSUME NEW r \in Run, Finish(r)
      PROVE  HoldsOwnTypes'
  BY <1>9 DEF Finish, TypeOK, RunState
<1>10. ASSUME NEW r \in Run, Die(r)
      PROVE  HoldsOwnTypes'
  BY <1>10 DEF Die, Idle, Nothing, TypeOK, RunState
<1>11. ASSUME NEW o \in Obj, NEW c \in Live, Edit(o, c)
      PROVE  HoldsOwnTypes'
  BY <1>11 DEF Edit
<1>12. CASE ClearDisabled
  BY <1>12 DEF ClearDisabled
<1>13. CASE UNCHANGED vars
  BY <1>13 DEF vars
<1>14. QED
  BY <1>1, <1>2, <1>3, <1>4, <1>5, <1>6, <1>7, <1>8, <1>9, <1>10, <1>11,
     <1>12, <1>13, NextCases

LEMMA CandidatesApartStep ==
    ASSUME IInv, [Next]_vars
    PROVE  CandidatesApart'
<1> USE ImportAssumption DEF IInv, CandidatesApart
<1>1. ASSUME NEW r \in Run, NEW f \in Filters, Begin(r, f)
      PROVE  CandidatesApart'
  BY <1>1 DEF Begin, Started, Nothing, TypeOK, RunState
<1>2. ASSUME NEW r \in Run, NEW t \in Type, FetchOk(r, t)
      PROVE  CandidatesApart'
  BY <1>2 DEF FetchOk, Fetched, TypeOK, RunState
<1>3. ASSUME NEW r \in Run, NEW t \in Type, FetchError(r, t)
      PROVE  CandidatesApart'
  BY <1>3 DEF FetchError, TypeOK, RunState
<1>4. ASSUME NEW r \in Run, NEW t \in Type, FetchNotEntitled(r, t)
      PROVE  CandidatesApart'
  BY <1>4 DEF FetchNotEntitled, TypeOK, RunState
<1>5. ASSUME NEW r \in Run, Disable(r)
      PROVE  CandidatesApart'
  BY <1>5 DEF Disable, AfterError, TypeOK, RunState
<1>6. ASSUME NEW r \in Run, Upsert(r)
      PROVE  CandidatesApart'
  BY <1>6 DEF Upsert, Nothing, TypeOK, RunState
<1>7. ASSUME NEW r \in Run, SweepRead(r)
      PROVE  CandidatesApart'
  BY <1>7 DEF SweepRead, StaleRows, TypeOK, RunState
<1>8. ASSUME NEW r \in Run, SweepWrite(r)
      PROVE  CandidatesApart'
  BY <1>8 DEF SweepWrite, TypeOK, RunState
<1>9. ASSUME NEW r \in Run, Finish(r)
      PROVE  CandidatesApart'
  BY <1>9 DEF Finish, TypeOK, RunState
<1>10. ASSUME NEW r \in Run, Die(r)
      PROVE  CandidatesApart'
  BY <1>10 DEF Die, Idle, Nothing, TypeOK, RunState
<1>11. ASSUME NEW o \in Obj, NEW c \in Live, Edit(o, c)
      PROVE  CandidatesApart'
  BY <1>11 DEF Edit, TypeOK
<1>12. CASE ClearDisabled
  BY <1>12 DEF ClearDisabled
<1>13. CASE UNCHANGED vars
  BY <1>13 DEF vars
<1>14. QED
  BY <1>1, <1>2, <1>3, <1>4, <1>5, <1>6, <1>7, <1>8, <1>9, <1>10, <1>11,
     <1>12, <1>13, NextCases

LEMMA StampedStep ==
    ASSUME IInv, [Next]_vars
    PROVE  Stamped'
<1> USE DEF IInv, Stamped
<1>1. ASSUME NEW r \in Run, NEW f \in Filters, Begin(r, f)
      PROVE  Stamped'
  BY <1>1 DEF Begin, Started, TypeOK, RunState, IsActive, Null, Row
<1>2. ASSUME NEW r \in Run, NEW t \in Type, FetchOk(r, t)
      PROVE  Stamped'
  BY <1>2 DEF FetchOk, TypeOK, RunState, IsActive, Active
<1>3. ASSUME NEW r \in Run, NEW t \in Type, FetchError(r, t)
      PROVE  Stamped'
  BY <1>3 DEF FetchError, TypeOK, RunState, IsActive, Active
<1>4. ASSUME NEW r \in Run, NEW t \in Type, FetchNotEntitled(r, t)
      PROVE  Stamped'
  BY <1>4 DEF FetchNotEntitled, TypeOK, RunState, IsActive, Active
<1>5. ASSUME NEW r \in Run, Disable(r)
      PROVE  Stamped'
  BY <1>5 DEF Disable, AfterError, TypeOK, RunState, IsActive, Active
<1>6. ASSUME NEW r \in Run, Upsert(r)
      PROVE  Stamped'
  <2>1. /\ run[r].start \in Nat /\ run[r].start <= clock /\ run[r].start # Null
        /\ clock' = clock /\ clock \in Nat
    BY <1>6 DEF Upsert, TypeOK, RunState, IsActive, Active
  <2>2. ASSUME NEW q \in Run, IsActive(q)'
        PROVE  run'[q].start # Null
    BY <1>6, <2>1, <2>2 DEF Upsert, TypeOK, RunState, IsActive, Active
  <2>3. ASSUME NEW o \in Obj
        PROVE  /\ row'[o].synced <= clock'
               /\ row'[o].stored /\ row'[o].source = "tenant" =>
                    row'[o].synced # Null
    <3>1. row[o] \in Row
      BY DEF TypeOK
    <3>2. row'[o] = row[o] \/ row'[o] = Upserted(o, run[r].got[o], run[r].start)
      BY <1>6 DEF Upsert
    <3>3. QED
      BY <2>1, <3>1, <3>2 DEF Upserted, Row
  <2>4. QED
    BY <2>2, <2>3
<1>7. ASSUME NEW r \in Run, SweepRead(r)
      PROVE  Stamped'
  BY <1>7 DEF SweepRead, TypeOK, RunState, IsActive, Active
<1>8. ASSUME NEW r \in Run, SweepWrite(r)
      PROVE  Stamped'
  BY <1>8 DEF SweepWrite, TypeOK, RunState, IsActive, Active, Row
<1>9. ASSUME NEW r \in Run, Finish(r)
      PROVE  Stamped'
  BY <1>9 DEF Finish, TypeOK, RunState, IsActive, Active
<1>10. ASSUME NEW r \in Run, Die(r)
      PROVE  Stamped'
  BY <1>10 DEF Die, Idle, TypeOK, RunState, IsActive, Active
<1>11. ASSUME NEW o \in Obj, NEW c \in Live, Edit(o, c)
      PROVE  Stamped'
  BY <1>11 DEF Edit, IsActive
<1>12. CASE ClearDisabled
  BY <1>12 DEF ClearDisabled, IsActive
<1>13. CASE UNCHANGED vars
  BY <1>13 DEF vars, IsActive
<1>14. QED
  BY <1>1, <1>2, <1>3, <1>4, <1>5, <1>6, <1>7, <1>8, <1>9, <1>10, <1>11,
     <1>12, <1>13, NextCases

LEMMA HonestLogStep ==
    ASSUME IInv, [Next]_vars
    PROVE  HonestLog'
<1> USE DEF IInv, HonestLog
<1>1. ASSUME NEW r \in Run, NEW f \in Filters, Begin(r, f)
      PROVE  HonestLog'
  BY <1>1 DEF Begin, Started, TypeOK, RunState
<1>2. ASSUME NEW r \in Run, NEW t \in Type, FetchOk(r, t)
      PROVE  HonestLog'
  BY <1>2 DEF FetchOk, TypeOK, RunState
<1>3. ASSUME NEW r \in Run, NEW t \in Type, FetchError(r, t)
      PROVE  HonestLog'
  BY <1>3 DEF FetchError, TypeOK, RunState
<1>4. ASSUME NEW r \in Run, NEW t \in Type, FetchNotEntitled(r, t)
      PROVE  HonestLog'
  BY <1>4 DEF FetchNotEntitled, TypeOK, RunState
<1>5. ASSUME NEW r \in Run, Disable(r)
      PROVE  HonestLog'
  BY <1>5 DEF Disable, AfterError, TypeOK, RunState
<1>6. ASSUME NEW r \in Run, Upsert(r)
      PROVE  HonestLog'
  BY <1>6 DEF Upsert, TypeOK, RunState
<1>7. ASSUME NEW r \in Run, SweepRead(r)
      PROVE  HonestLog'
  BY <1>7 DEF SweepRead, TypeOK, RunState
<1>8. ASSUME NEW r \in Run, SweepWrite(r)
      PROVE  HonestLog'
  BY <1>8 DEF SweepWrite, TypeOK, RunState
<1>9. ASSUME NEW r \in Run, Finish(r)
      PROVE  HonestLog'
  <2>1. Outcome(r) = "SUCCESS" => run[r].errs = {}
    BY DEF Outcome
  <2>2. /\ run'[r].log = Outcome(r) /\ run'[r].errs = run[r].errs
        /\ run'[r].todo = run[r].todo /\ run[r].pc = "finish"
        /\ \A p \in Run \ {r} : run'[p] = run[p]
    BY <1>9 DEF Finish, TypeOK, RunState
  <2>3. QED
    BY <2>1, <2>2
<1>10. ASSUME NEW r \in Run, Die(r)
      PROVE  HonestLog'
  BY <1>10 DEF Die, Idle, TypeOK, RunState
<1>11. ASSUME NEW o \in Obj, NEW c \in Live, Edit(o, c)
      PROVE  HonestLog'
  BY <1>11 DEF Edit
<1>12. CASE ClearDisabled
  BY <1>12 DEF ClearDisabled
<1>13. CASE UNCHANGED vars
  BY <1>13 DEF vars
<1>14. QED
  BY <1>1, <1>2, <1>3, <1>4, <1>5, <1>6, <1>7, <1>8, <1>9, <1>10, <1>11,
     <1>12, <1>13, NextCases

\* A step of an active run is a step of the only run in flight, if any run is
\* undisturbed.
LEMMA OnlyQuietRunSteps ==
    ASSUME IInv, NEW r \in Run, IsActive(r), NEW q \in quiet
    PROVE  q = r
BY DEF IInv, Undisturbed, UndisturbedRun, TypeOK

LEMMA UndisturbedStep ==
    ASSUME IInv, [Next]_vars
    PROVE  Undisturbed'
<1> USE DEF IInv
<1>1. ASSUME NEW r \in Run, NEW f \in Filters, Begin(r, f)
      PROVE  Undisturbed'
  <2> SUFFICES ASSUME NEW q \in quiet' PROVE UndisturbedRun(q)'
    BY DEF Undisturbed
  <2>1. q = r /\ Alone(r) /\ run' = [run EXCEPT ![r] = Started(f)]
        /\ UNCHANGED <<tenant, row>> /\ clock' = clock + 1
    BY <1>1 DEF Begin
  <2>2. run'[r] = Started(f) /\ \A p \in Run \ {r} : run'[p] = run[p]
    BY <2>1 DEF TypeOK
  <2>3. Read(r)' = {}
    BY <2>2 DEF Read, Started, WorkList
  <2>4. \A o \in Obj : row'[o].synced < run'[r].start
    BY <2>1, <2>2 DEF Started, Stamped, TypeOK, Row
  <2>5. QED
    BY <2>1, <2>2, <2>3, <2>4 DEF UndisturbedRun, MidRun, Alone, IsActive, Started
<1>2. ASSUME NEW r \in Run, NEW t \in Type, FetchOk(r, t)
      PROVE  Undisturbed'
  <2> SUFFICES ASSUME NEW q \in quiet' PROVE UndisturbedRun(q)'
    BY DEF Undisturbed
  <2>1. q = r /\ UndisturbedRun(r) /\ run[r].pc = "fetch" /\ run[r].cur = {}
    BY <1>2, OnlyQuietRunSteps DEF FetchOk, IsActive, Active, Undisturbed, TypeOK
  <2>2. /\ run'[r] = [run[r] EXCEPT !.pc = "upsert", !.cur = {t}, !.got = Fetched(t)]
        /\ \A p \in Run \ {r} : run'[p] = run[p]
        /\ UNCHANGED <<tenant, row>>
    BY <1>2 DEF FetchOk, TypeOK
  <2>3. /\ run'[r].pc = "upsert" /\ run'[r].cur = {t} /\ run'[r].got = Fetched(t)
        /\ run'[r].start = run[r].start /\ Read(r)' = Read(r)
    BY <2>2 DEF Read, TypeOK, RunState
  <2>4. QED
    BY <2>1, <2>2, <2>3 DEF UndisturbedRun, MidRun, IsActive, Fetched
<1>3. ASSUME NEW r \in Run, NEW t \in Type, FetchError(r, t)
      PROVE  Undisturbed'
  <2> SUFFICES ASSUME NEW q \in quiet' PROVE UndisturbedRun(q)'
    BY DEF Undisturbed
  <2>1. q = r /\ UndisturbedRun(r) /\ run[r].pc = "fetch"
    BY <1>3, OnlyQuietRunSteps DEF FetchError, IsActive, Active, Undisturbed
  <2>2. /\ run'[r] = [run[r] EXCEPT !.errs = @ \union {t}, !.todo = AfterError(r, {t})]
        /\ \A p \in Run \ {r} : run'[p] = run[p]
        /\ UNCHANGED <<tenant, row>> /\ t \in run[r].todo
    BY <1>3 DEF FetchError, TypeOK
  <2>3. /\ run'[r].pc = "fetch" /\ run'[r].start = run[r].start
        /\ Read(r)' = Read(r)
    BY <2>1, <2>2 DEF Read, AfterError, TypeOK, RunState
  <2>4. QED
    BY <2>1, <2>2, <2>3 DEF UndisturbedRun, MidRun, IsActive
<1>4. ASSUME NEW r \in Run, NEW t \in Type, FetchNotEntitled(r, t)
      PROVE  Undisturbed'
  <2> SUFFICES ASSUME NEW q \in quiet' PROVE UndisturbedRun(q)'
    BY DEF Undisturbed
  <2>1. q = r /\ UndisturbedRun(r) /\ run[r].pc = "fetch"
    BY <1>4, OnlyQuietRunSteps DEF FetchNotEntitled, IsActive, Active, Undisturbed
  <2>2. /\ run'[r] = [run[r] EXCEPT !.pc = "disable", !.cur = {t}, !.seen = disabled]
        /\ \A p \in Run \ {r} : run'[p] = run[p]
        /\ UNCHANGED <<tenant, row>>
    BY <1>4 DEF FetchNotEntitled, TypeOK
  <2>3. /\ run'[r].pc = "disable" /\ run'[r].start = run[r].start
        /\ Read(r)' = Read(r)
    BY <2>1, <2>2 DEF Read, TypeOK, RunState
  <2>4. QED
    BY <2>1, <2>2, <2>3 DEF UndisturbedRun, MidRun, IsActive
<1>5. ASSUME NEW r \in Run, Disable(r)
      PROVE  Undisturbed'
  <2> SUFFICES ASSUME NEW q \in quiet' PROVE UndisturbedRun(q)'
    BY DEF Undisturbed
  <2>1. q = r /\ UndisturbedRun(r) /\ run[r].pc = "disable"
        /\ run[r].cur \subseteq run[r].todo
    BY <1>5, OnlyQuietRunSteps DEF Disable, AfterError, IsActive, Active, Undisturbed, TypeOK
  <2>2. /\ run'[r] = [run[r] EXCEPT !.pc = "fetch", !.cur = {}, !.seen = {},
                                    !.na = @ \union run[r].cur,
                                    !.todo = @ \ run[r].cur]
        /\ \A p \in Run \ {r} : run'[p] = run[p]
        /\ UNCHANGED <<tenant, row>>
    BY <1>5 DEF Disable, AfterError, TypeOK
  <2>3. /\ run'[r].pc = "fetch" /\ run'[r].start = run[r].start
        /\ Read(r)' = Read(r)
    BY <2>1, <2>2 DEF Read, TypeOK, RunState
  <2>4. QED
    BY <2>1, <2>2, <2>3 DEF UndisturbedRun, MidRun, IsActive
<1>6. ASSUME NEW r \in Run, Upsert(r)
      PROVE  Undisturbed'
  <2> SUFFICES ASSUME NEW q \in quiet' PROVE UndisturbedRun(q)'
    BY DEF Undisturbed
  <2>1. q = r /\ UndisturbedRun(r) /\ run[r].pc = "upsert"
    BY <1>6, OnlyQuietRunSteps DEF Upsert, IsActive, Active, Undisturbed
  <2>2. /\ run'[r].pc = "fetch" /\ run'[r].start = run[r].start
        /\ Read(r)' \subseteq Read(r) \union run[r].cur
        /\ \A p \in Run \ {r} : run'[p] = run[p]
        /\ UNCHANGED tenant
    BY <1>6 DEF Upsert, Read, TypeOK, RunState
  <2>3. MidRun(r)
    BY <2>1 DEF UndisturbedRun
  <2>4. ASSUME NEW o \in Obj, TypeOf[o] \in Read(r)', tenant[o] # Absent
        PROVE  /\ row'[o].stored /\ ~row'[o].deleted
               /\ row'[o].cfg = tenant[o] /\ row'[o].synced = run[r].start
    <3>1. CASE TypeOf[o] \in run[r].cur
      <4>1. run[r].got[o] = tenant[o]
        BY <2>1, <2>3, <3>1 DEF MidRun
      <4>2. row'[o] = Upserted(o, tenant[o], run[r].start)
        BY <1>6, <2>4, <4>1 DEF Upsert
      <4>3. row[o] \in Row
        BY DEF TypeOK
      <4>4. QED
        BY <4>2, <4>3 DEF Upserted, Row
    <3>2. CASE TypeOf[o] \notin run[r].cur
      <4>1. run[r].got[o] = Absent
        BY <2>1, <2>3, <3>2 DEF MidRun
      <4>2. row'[o] = row[o] /\ TypeOf[o] \in Read(r)
        BY <1>6, <2>2, <2>4, <3>2, <4>1 DEF Upsert
      <4>3. QED
        BY <2>3, <2>4, <4>2 DEF MidRun
    <3>3. QED
      BY <3>1, <3>2
  <2>5. ASSUME NEW o \in Obj, tenant[o] = Absent
        PROVE  row'[o].synced < run[r].start
    <3>1. run[r].got[o] = Absent
      BY <2>1, <2>3, <2>5 DEF MidRun
    <3>2. row'[o] = row[o]
      BY <1>6, <3>1 DEF Upsert
    <3>3. QED
      BY <2>3, <2>5, <3>2 DEF MidRun
  <2>6. QED
    BY <2>1, <2>2, <2>4, <2>5 DEF UndisturbedRun, MidRun, IsActive
<1>7. ASSUME NEW r \in Run, SweepRead(r)
      PROVE  Undisturbed'
  <2> SUFFICES ASSUME NEW q \in quiet' PROVE UndisturbedRun(q)'
    BY DEF Undisturbed
  <2>1. q = r /\ UndisturbedRun(r) /\ run[r].pc = "fetch"
    BY <1>7, OnlyQuietRunSteps DEF SweepRead, IsActive, Active, Undisturbed
  <2>2. /\ run'[r] = [run[r] EXCEPT !.pc = "sweep",
                              !.stale = StaleRows(run[r].filter, run[r].start)]
        /\ \A p \in Run \ {r} : run'[p] = run[p]
        /\ UNCHANGED <<tenant, row>>
    BY <1>7 DEF SweepRead, TypeOK
  <2>3. /\ run'[r].pc = "sweep" /\ run'[r].start = run[r].start
        /\ run'[r].filter = run[r].filter /\ Read(r)' = Read(r)
        /\ run'[r].stale = StaleRows(run[r].filter, run[r].start)
    BY <2>2 DEF Read, TypeOK, RunState
  <2>4. run'[r].stale = StaleRows(run[r].filter, run[r].start)'
    BY <2>2, <2>3 DEF StaleRows
  <2>5. QED
    BY <2>1, <2>2, <2>3, <2>4 DEF UndisturbedRun, MidRun, IsActive
<1>8. ASSUME NEW r \in Run, SweepWrite(r)
      PROVE  Undisturbed'
  <2> SUFFICES ASSUME NEW q \in quiet' PROVE UndisturbedRun(q)'
    BY DEF Undisturbed
  <2>1. q = r /\ UndisturbedRun(r) /\ run[r].pc = "sweep"
    BY <1>8, OnlyQuietRunSteps DEF SweepWrite, IsActive, Active, Undisturbed
  <2>2. /\ run'[r].pc = "finish" /\ Read(r)' = Read(r)
        /\ \A p \in Run \ {r} : run'[p] = run[p]
        /\ UNCHANGED tenant
    BY <1>8 DEF SweepWrite, Read, TypeOK, RunState
  <2>3. MidRun(r) /\ run[r].stale = StaleRows(run[r].filter, run[r].start)
    BY <2>1 DEF UndisturbedRun, MidRun
  <2>4. ASSUME NEW o \in Obj, TypeOf[o] \in Read(r)
        PROVE  Mirrors(o)'
    <3>1. row[o] \in Row /\ TypeOf[o] \in run[r].filter
          /\ run[r].start \in Nat
      BY <2>4 DEF Read, TypeOK, RunState
    <3>2. row'[o] = IF o \in run[r].stale
                    THEN [row[o] EXCEPT !.deleted = TRUE] ELSE row[o]
      BY <1>8 DEF SweepWrite
    <3>3. CASE tenant[o] # Absent
      <4>1. /\ row[o].stored /\ ~row[o].deleted
            /\ row[o].cfg = tenant[o] /\ row[o].synced = run[r].start
        BY <2>3, <2>4, <3>3 DEF MidRun
      <4>2. o \notin run[r].stale
        BY <2>3, <3>1, <4>1 DEF StaleRows
      <4>3. QED
        BY <2>2, <3>2, <3>3, <4>1, <4>2 DEF Mirrors
    <3>4. CASE tenant[o] = Absent
      <4>1. row[o].synced < run[r].start
        BY <2>3, <3>4 DEF MidRun
      <4>2. row[o].stored /\ ~row[o].deleted /\ row[o].source = "tenant"
              => o \in run[r].stale
        BY <2>3, <3>1, <4>1 DEF StaleRows, Stamped
      <4>3. row'[o].source = "tenant" => ~row'[o].stored \/ row'[o].deleted
        BY <3>1, <3>2, <4>2 DEF Row
      <4>4. QED
        BY <2>2, <3>4, <4>3 DEF Mirrors
    <3>5. QED
      BY <3>3, <3>4
  <2>5. QED
    BY <2>1, <2>2, <2>4 DEF UndisturbedRun, IsActive
<1>9. ASSUME NEW r \in Run, Finish(r)
      PROVE  Undisturbed'
  <2> SUFFICES ASSUME NEW q \in quiet' PROVE UndisturbedRun(q)'
    BY DEF Undisturbed
  <2>1. q = r /\ UndisturbedRun(r) /\ run[r].pc = "finish"
    BY <1>9, OnlyQuietRunSteps DEF Finish, IsActive, Active, Undisturbed
  <2>2. /\ run'[r].pc = "done" /\ Read(r)' = Read(r)
        /\ \A p \in Run \ {r} : run'[p] = run[p]
        /\ UNCHANGED <<tenant, row>>
    BY <1>9 DEF Finish, Read, TypeOK, RunState
  <2>3. QED
    BY <2>1, <2>2 DEF UndisturbedRun, IsActive, Mirrors
<1>10. ASSUME NEW r \in Run, Die(r)
      PROVE  Undisturbed'
  <2> SUFFICES ASSUME NEW q \in quiet' PROVE UndisturbedRun(q)'
    BY DEF Undisturbed
  <2>1. q = r /\ UndisturbedRun(r)
    BY <1>10, OnlyQuietRunSteps DEF Die, Undisturbed
  <2>2. /\ run'[r].pc = "dead"
        /\ \A p \in Run \ {r} : run'[p] = run[p]
    BY <1>10 DEF Die, Idle, TypeOK
  <2>3. QED
    BY <2>1, <2>2 DEF UndisturbedRun, IsActive
<1>11. ASSUME NEW o \in Obj, NEW c \in Live, Edit(o, c)
      PROVE  Undisturbed'
  BY <1>11 DEF Edit, Undisturbed
<1>12. CASE ClearDisabled
  BY <1>12 DEF ClearDisabled, Undisturbed, UndisturbedRun, MidRun, Read, IsActive,
               Mirrors, StaleRows
<1>13. CASE UNCHANGED vars
  BY <1>13 DEF vars, Undisturbed, UndisturbedRun, MidRun, Read, IsActive,
               Mirrors, StaleRows
<1>14. QED
  BY <1>1, <1>2, <1>3, <1>4, <1>5, <1>6, <1>7, <1>8, <1>9, <1>10, <1>11,
     <1>12, <1>13, NextCases

-----------------------------------------------------------------------------
(***************************************************************************)
(* The theorems.                                                           *)
(***************************************************************************)

LEMMA InitIInv == Init => IInv
<1> SUFFICES ASSUME Init PROVE IInv
  OBVIOUS
<1>1. \A r \in Run : run[r] = Idle
  BY DEF Init
<1>2. \A r \in Run : /\ run[r].pc = "idle" /\ run[r].todo = {} /\ run[r].stale = {}
                     /\ \A o \in Obj : run[r].got[o] = Absent
  BY <1>1 DEF Idle, Nothing
<1>3. HoldsOwnTypes
  BY <1>2 DEF HoldsOwnTypes
<1>4. CandidatesApart
  BY <1>2, ImportAssumption DEF CandidatesApart, Init, InitialRows
<1>5. Stamped
  <2>1. ASSUME NEW o \in Obj
        PROVE  row[o].synced <= 1
               /\ (row[o].stored /\ row[o].source = "tenant" => row[o].synced # Null)
    <3>1. \/ row[o] = NoRow
          \/ \E c \in Config, g \in BOOLEAN : row[o] = TenantRow(c, 1, g)
          \/ \E c \in Config : row[o] = CandidateRow(c)
      BY DEF Init, InitialRows
    <3>2. CASE row[o] = NoRow
      BY <3>2 DEF NoRow, Null
    <3>3. ASSUME NEW c \in Config, NEW g \in BOOLEAN, row[o] = TenantRow(c, 1, g)
          PROVE  /\ row[o].synced <= 1
                 /\ row[o].stored /\ row[o].source = "tenant" => row[o].synced # Null
      BY <3>3 DEF TenantRow, Null
    <3>4. ASSUME NEW c \in Config, row[o] = CandidateRow(c)
          PROVE  /\ row[o].synced <= 1
                 /\ row[o].stored /\ row[o].source = "tenant" => row[o].synced # Null
      BY <3>4 DEF CandidateRow, Null
    <3>5. QED
      BY <3>1, <3>2, <3>3, <3>4
  <2>2. \A r \in Run : ~IsActive(r)
    BY <1>2 DEF IsActive, Active
  <2>3. QED
    BY <2>1, <2>2 DEF Stamped, Init
<1>6. Undisturbed
  BY DEF Init, Undisturbed
<1>7. HonestLog
  BY <1>2 DEF HonestLog
<1>8. QED
  BY InitType, <1>3, <1>4, <1>5, <1>6, <1>7 DEF IInv

LEMMA TypeStep == TypeOK /\ [Next]_vars => TypeOK'
<1> SUFFICES ASSUME TypeOK, [Next]_vars PROVE TypeOK'
  OBVIOUS
<1>1. CASE \E r \in Run, f \in Filters : Begin(r, f)
  BY <1>1, BeginType
<1>2. CASE \E r \in Run : Step(r)
  BY <1>2, FetchType, DisableType, UpsertType, SweepReadType,
     SweepWriteType, FinishType DEF Step
<1>3. CASE \E r \in Run : Die(r)
  BY <1>3, DieType
<1>4. CASE \E o \in Obj, c \in Live : Edit(o, c)
  BY <1>4, ImportAssumption DEF Edit, TypeOK
<1>5. CASE ClearDisabled
  BY <1>5, ImportAssumption DEF ClearDisabled, TypeOK
<1>6. CASE UNCHANGED vars
  BY <1>6 DEF vars, TypeOK
<1>7. QED
  BY <1>1, <1>2, <1>3, <1>4, <1>5, <1>6 DEF Next

\* The type invariant: every local set of a run stays within what the run was
\* asked for, and every row within its type.
THEOREM TypeCorrect == Spec => []TypeOK
<1>1. Init => TypeOK
  BY InitType
<1>2. TypeOK /\ [Next]_vars => TypeOK'
  BY TypeStep
<1>3. QED
  BY <1>1, <1>2, PTL DEF Spec

\* The invariant is inductive.
THEOREM Inductive == Spec => []IInv
<1>1. Init => IInv
  BY InitIInv
<1>2. IInv /\ [Next]_vars => IInv'
  <2> SUFFICES ASSUME IInv, [Next]_vars PROVE IInv'
    OBVIOUS
  <2>1. TypeOK'
    BY TypeStep DEF IInv
  <2>2. QED
    BY <2>1, HoldsOwnTypesStep, CandidatesApartStep, StampedStep,
       UndisturbedStep, HonestLogStep DEF IInv
<1>3. QED
  BY <1>1, <1>2, PTL DEF Spec

\* For any number of runs, types and objects: a run that nobody disturbs
\* leaves the mirror of every type it managed to read, whatever state the
\* cache was in (ZIAImportService.run, _upsert, _mark_deleted).
THEOREM Repair == Spec => []QuietRunRepairsWhatItReads
<1>1. IInv => QuietRunRepairsWhatItReads
  BY DEF IInv, Undisturbed, UndisturbedRun, QuietRunRepairsWhatItReads
<1>2. QED
  BY <1>1, Inductive, PTL

\* An undisturbed SUCCESS with nothing marked N/A means the whole mirror.
THEOREM Success == Spec => []SuccessMeansMirror
<1>1. IInv => SuccessMeansMirror
  <2> SUFFICES ASSUME IInv, NEW r \in Run,
                      r \in quiet, run[r].pc = "done", run[r].log = "SUCCESS",
                      run[r].filter \intersect (run[r].skip \union run[r].na) = {}
               PROVE  \A o \in Obj : TypeOf[o] \in run[r].filter => Mirrors(o)
    BY DEF SuccessMeansMirror
  <2>1. run[r].todo = {} /\ run[r].errs = {}
    BY DEF IInv, HonestLog
  <2>2. run[r].filter \subseteq Read(r)
    BY <2>1 DEF Read
  <2>3. QED
    BY <2>2 DEF IInv, Undisturbed, UndisturbedRun
<1>2. QED
  BY <1>1, Inductive, PTL

\* Imports leave rows outside their filter alone, for any interleaving.
THEOREM Confinement == Spec => RowsChangeOnlyInFilter
<1> DEFINE P == \A o \in Obj : row'[o] # row[o] =>
                  \E r \in Run : run'[r] # run[r] /\ TypeOf[o] \in run[r].filter
<1>1. IInv /\ [Next]_vars => [P]_vars
  <2> SUFFICES ASSUME IInv, [Next]_vars, NEW o \in Obj, row'[o] # row[o]
               PROVE  \E r \in Run : run'[r] # run[r] /\ TypeOf[o] \in run[r].filter
    OBVIOUS
  <2>1. ASSUME NEW r \in Run, Upsert(r)
        PROVE  run'[r] # run[r] /\ TypeOf[o] \in run[r].filter
    <3>1. run[r].pc = "upsert" /\ run'[r].pc = "fetch"
      BY <2>1 DEF Upsert, IInv, TypeOK, RunState
    <3>2. run[r].got[o] # Absent
      BY <2>1 DEF Upsert
    <3>3. TypeOf[o] \in run[r].cur
      BY <3>2 DEF IInv, HoldsOwnTypes
    <3>4. run[r].cur \subseteq run[r].filter
      BY DEF IInv, TypeOK
    <3>5. QED
      BY <3>1, <3>3, <3>4
  <2>2. ASSUME NEW r \in Run, SweepWrite(r)
        PROVE  run'[r] # run[r] /\ TypeOf[o] \in run[r].filter
    <3>1. run[r].pc = "sweep" /\ run'[r].pc = "finish"
      BY <2>2 DEF SweepWrite, IInv, TypeOK, RunState
    <3>2. o \in run[r].stale
      BY <2>2 DEF SweepWrite
    <3>3. QED
      BY <3>1, <3>2 DEF IInv, HoldsOwnTypes
  <2>3. \/ row' = row
        \/ \E r \in Run : Upsert(r)
        \/ \E r \in Run : SweepWrite(r)
    BY NextCases DEF Begin, FetchOk, FetchError, FetchNotEntitled, Disable,
       SweepRead, Finish, Die, Edit, ClearDisabled, vars
  <2>4. QED
    BY <2>1, <2>2, <2>3
<1>2. QED
  BY <1>1, Inductive, PTL DEF Spec, RowsChangeOnlyInFilter

\* No interleaving of imports changes a migration candidate.
THEOREM CandidatesSafe == Spec => CandidatesUntouched
<1>1. IInv /\ [Next]_vars => [\A o \in Candidate : row'[o] = row[o]]_vars
  <2> SUFFICES ASSUME IInv, [Next]_vars, NEW o \in Candidate
               PROVE  row'[o] = row[o]
    OBVIOUS
  <2>1. o \in Obj
    BY ImportAssumption
  <2>2. \A r \in Run : run[r].got[o] = Absent /\ o \notin run[r].stale
    BY DEF IInv, CandidatesApart
  <2>3. \/ row' = row
        \/ \E r \in Run : Upsert(r)
        \/ \E r \in Run : SweepWrite(r)
    BY NextCases DEF Begin, FetchOk, FetchError, FetchNotEntitled, Disable,
       SweepRead, Finish, Die, Edit, ClearDisabled, vars
  <2>4. QED
    BY <2>1, <2>2, <2>3 DEF Upsert, SweepWrite
<1>2. QED
  BY <1>1, Inductive, PTL DEF Spec, CandidatesUntouched
=============================================================================
