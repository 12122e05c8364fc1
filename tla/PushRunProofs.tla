---------------------------- MODULE PushRunProofs ----------------------------
(***************************************************************************)
(* Proofs about PushRun, for any tenant, baseline and kinds and for any    *)
(* number of edits and imports meanwhile: user entries are reported once,  *)
(* no rule is left wider than it was found, a rollback deletes only what   *)
(* the push created and puts back what it changed, and an undisturbed push *)
(* leaves nothing to push.                                                 *)
(***************************************************************************)
EXTENDS PushRun, FiniteSetTheorems, SequenceTheorems, TLAPS

\* Each entry is reported at most once, and not while a pass still holds it.
Reported(n) == \E k \in DOMAIN records : records[k].name = n

Once ==
  /\ \A j, k \in DOMAIN records : records[j].name = records[k].name => j = k
  /\ todo \cap retry = {}
  /\ \A n \in todo \cup retry : ~Reported(n)

\* Where each pass is with the entries of its kind.
Passes ==
  /\ stage \in {"idle", "wipe", "classify"}
       => records = <<>> /\ todo = {} /\ retry = {}
  /\ stage = "settings" =>
       /\ todo \cup retry \subseteq Settings(plan)
       /\ \A n \in Name : Reported(n) => n \in Settings(plan)
  /\ stage = "match" =>
       /\ todo \subseteq Waiting(plan) /\ retry = {}
       /\ \A n \in Others(plan) \cup Users(plan) : ~Reported(n)
  /\ stage = "managed" =>
       /\ todo \cup retry \subseteq Others(plan)
       /\ \A n \in Users(plan) : ~Reported(n)
  /\ stage \in {"users", "failing", "done"} =>
       /\ todo \cup retry \subseteq Users(plan)
       /\ \A n \in Users(plan) \ (todo \cup retry) : Reported(n)
  /\ stage = "failing" => retry = {}
  /\ stage = "done" => todo \cup retry = {}

\* A record that a rollback deletes by is of an object this job created, and
\* the ids the tenant gives out are new.
Own ==
  /\ \A k \in DOMAIN records :
       records[k].status = "created" /\ records[k].id # None
         => records[k].id \in made
  /\ Live(tenant) \cup Live(before) \subseteq used

\* Nobody else wrote, no answer was lost, and what was written has its id.
Clean ==
  /\ noise = {} /\ ~WipeFirst
  /\ \A k \in DOMAIN records : Written(k) => Identified(records[k].name)

\* Until its end a clean push has the rows of the tenant it found, in which
\* an entry to be created has no row and one to be updated has one.
RowsKept ==
  Clean /\ stage \notin {"done", "gone"} =>
    /\ cache = Imported(before)
    /\ stage \notin {"idle", "wipe", "classify"} =>
         \A n \in DOMAIN plan : Identified(n) =>
           IF plan[n] = None THEN Named(cache, n) = {}
                             ELSE cache[plan[n]] # None
    /\ stage \in {"rollback", "cancelled"} => snap = cache

\* The records of a clean push say what to undo.
Undoes ==
  Clean /\ stage \notin {"done", "gone"} =>
    \A k \in DOMAIN records : Written(k) =>
      /\ records[k].id \in Id
      /\ records[k].status = "updated" => Imported(before)[records[k].id] # None
      /\ records[k].status = "created" => before[records[k].id] = None

\* What differs from the tenant that was found is told by one of the first
\* records.
Tells(k, i) == /\ Written(k) /\ records[k].id = i
               /\ tenant[i] # None => tenant[i].name = records[k].name
Changed(last) ==
  \A i \in Id : tenant[i] = before[i]
                \/ \E k \in DOMAIN records : k <= last /\ Tells(k, i)

Restorable ==
  /\ Clean /\ stage \notin {"done", "gone", "rollback", "cancelled"}
       => Changed(Len(records))
  /\ Clean /\ stage \in {"rollback", "cancelled"} /\ ~unrolled
     /\ (\A k \in DOMAIN records : Undoable(k))
       => Changed(back)
  /\ stage = "cancelled" => back = 0
  /\ stage = "wipe" => WipeFirst

-----------------------------------------------------------------------------
\* Types of the operators.
Map(m) == DOMAIN m \subseteq Id /\ \A i \in DOMAIN m : m[i] \in Id

LEMMA EntryIs ==
  ASSUME NEW n \in DOMAIN Base
  PROVE  /\ n \in Name /\ Base[n].id \in Id
         /\ Base[n].object \in Object /\ Base[n].object.name = n
BY BaseAssumption DEF Entry

LEMMA FoundInTyped ==
  ASSUME NEW c \in Tenant, NEW n \in DOMAIN Base
  PROVE  /\ FoundIn(c, n) \in Id \cup {None}
         /\ FoundIn(c, n) # None => c[FoundIn(c, n)] # None
         /\ FoundIn(c, n) = None => Named(c, n) = {}
<1>1. Base[n].id \in Id
  BY EntryIs
<1>2. Named(c, n) \subseteq Id /\ \A i \in Named(c, n) : c[i] # None
  BY DEF Named, Live
<1>3. Named(c, n) # {} => (CHOOSE i \in Named(c, n) : TRUE) \in Named(c, n)
  OBVIOUS
<1>4. None \notin Id
  BY NoneAssumption
<1> QED
  BY <1>1, <1>2, <1>3, <1>4 DEF FoundIn

LEMMA RemapsTyped ==
  ASSUME NEW c \in Tenant, NEW ns \in SUBSET DOMAIN Base
  PROVE  Map(Remaps(c, ns))
<1> DEFINE found == {m \in ns : Kind[m] # "list" /\ FoundIn(c, m) # None}
           pick(s) == CHOOSE m \in found : Base[m].id = s
<1>1. Remaps(c, ns) = [s \in {Base[m].id : m \in found} |-> FoundIn(c, pick(s))]
  BY DEF Remaps
<1>2. \A m \in found : Base[m].id \in Id /\ FoundIn(c, m) \in Id
  BY EntryIs, FoundInTyped
<1>3. ASSUME NEW s \in {Base[m].id : m \in found}
      PROVE  pick(s) \in found
  <2>1. PICK m \in found : Base[m].id = s
    OBVIOUS
  <2> QED
    BY <2>1
<1> HIDE DEF found, pick
<1> QED
  BY <1>1, <1>2, <1>3 DEF Map

LEMMA MapIdTyped ==
  ASSUME NEW m, Map(m), NEW i \in Id
  PROVE  MapId(m, i) \in Id
BY DEF MapId, Map

LEMMA BuildTyped ==
  ASSUME NEW o \in Object, NEW m, Map(m), NEW k
  PROVE  /\ Build(o, m, k) \in Object
         /\ Build(o, m, k).name = o.name /\ Build(o, m, k).on = o.on
<1>1. o.refs \subseteq Id /\ o.scope \subseteq Id
  BY DEF Object
<1>2. {MapId(m, i) : i \in o.refs} \in SUBSET Id
  BY <1>1, MapIdTyped
<1>3. {MapId(m, MapId(m, i)) : i \in {j \in o.scope : j \in k \cup DOMAIN m}}
        \in SUBSET Id
  BY <1>1, MapIdTyped
<1> QED
  BY <1>2, <1>3 DEF Build, Object

LEMMA CheckedTyped ==
  ASSUME NEW o \in Object, NEW p \in Object
  PROVE  /\ Checked(o, p) \in Object /\ Checked(o, p).name = p.name
         /\ o.scope # {} => Checked(o, p).scope # {} \/ ~Checked(o, p).on
BY DEF Checked, Object

LEMMA PayloadTyped ==
  ASSUME Map(remap), NEW n \in DOMAIN Base
  PROVE  /\ Payload(n) \in Object /\ Payload(n).name = n
         /\ Base[n].object.scope # {} => Payload(n).scope # {} \/ ~Payload(n).on
BY EntryIs, BuildTyped, CheckedTyped DEF Payload

LEMMA ImportedTyped ==
  ASSUME NEW t \in Tenant
  PROVE  Imported(t) \in Tenant
BY DEF Imported, Tenant
-----------------------------------------------------------------------------
\* What becomes of one entry: it is put on an object that is there, or on a
\* new one, or nowhere; and it is noted or kept for another pass.
Push(n) == PushUpdate(n) \/ PushList(n) \/ PushCreate(n) \/ PushDuplicate(n)

Updates(n, i) ==
  /\ tenant[i] # None /\ UNCHANGED <<used, made>>
  /\ tenant' = tenant \/ tenant' = [tenant EXCEPT ![i] = Payload(n)]
  /\ \/ plan[n] = i
     \/ plan[n] = None /\ tenant[i].name = n
     \/ Kind[n] = "list"

Creates(n, i) ==
  /\ i \in Fresh \ used /\ tenant' = [tenant EXCEPT ![i] = Payload(n)]
  /\ used' = used \cup {i} /\ made' = made \cup {i}

Notes(n, s, i) ==
  /\ records' = Append(records, [name |-> n, status |-> s,
                                 id |-> IF Identified(n) THEN i ELSE None])
  /\ UNCHANGED retry

Keeps(n) == retry' = retry \cup {n} /\ UNCHANGED records

Puts(n) ==
  \/ \E i \in Id : Updates(n, i) /\ Notes(n, "updated", i) /\ UNCHANGED noise
  \/ \E i \in Id : Creates(n, i) /\ Notes(n, "created", i) /\ UNCHANGED noise
  \/ /\ \E i \in Id : Updates(n, i) \/ Creates(n, i)
     /\ noise' = noise \cup {"lost"}
     /\ Keeps(n) \/ Notes(n, "failed", None)
  \/ /\ UNCHANGED <<tenant, used, made, noise>>
     /\ Keeps(n) \/ Notes(n, "failed", None)

LEMMA FailedDoes ==
  ASSUME NEW n, Failed(n)
  PROVE  /\ Keeps(n) \/ Notes(n, "failed", None)
         /\ todo' = todo \ {n} /\ UNCHANGED prev
BY DEF Failed, Recorded, Keeps, Notes

LEMMA RecordedDoes ==
  ASSUME NEW n, NEW s, NEW i, Recorded(n, s, i)
  PROVE  Notes(n, s, i) /\ todo' = todo \ {n} /\ UNCHANGED prev
BY DEF Recorded, Notes

LEMMA UpdateDoes ==
  ASSUME NEW n, NEW i \in Id, Update(n, i), UNCHANGED made,
         plan[n] = i \/ (plan[n] = None /\ tenant[i].name = n)
           \/ Kind[n] = "list",
         tenant \in Tenant
  PROVE  Puts(n) /\ todo' = todo \ {n} /\ UNCHANGED prev
<1> DEFINE p == Payload(n)
           fits == tenant[i] # None /\ (Kind[n] = "predefined" \/ Accepted(p))
<1>1. Write(i, n, p) => tenant' = tenant \/ tenant' = [tenant EXCEPT ![i] = p]
  BY DEF Write, Tenant
<1>2. CASE /\ fits /\ Write(i, n, p) /\ UNCHANGED <<used, noise>>
           /\ Recorded(n, "updated", i)
  <2>1. Updates(n, i)
    BY <1>1, <1>2 DEF Updates
  <2> QED
    BY <1>2, <2>1, RecordedDoes DEF Puts
<1>3. CASE /\ fits /\ Write(i, n, p) /\ UNCHANGED used /\ Lost /\ Failed(n)
  <2>1. Updates(n, i)
    BY <1>1, <1>3 DEF Updates
  <2> QED
    BY <1>3, <2>1, FailedDoes DEF Puts, Lost
<1>4. CASE /\ UNCHANGED <<tenant, used, noise>>
           /\ Recorded(n, "failed", None) \/ Failed(n)
  BY <1>4, FailedDoes, RecordedDoes DEF Puts
<1> QED
  BY <1>2, <1>3, <1>4 DEF Update

LEMMA PushDoes ==
  ASSUME TypeOK, NEW n \in Name, Push(n)
  PROVE  /\ Pushing /\ n \in todo /\ n \in DOMAIN plan /\ n \in DOMAIN Base
         /\ Puts(n) /\ todo' = todo \ {n}
         /\ UNCHANGED <<cache, stage, wipes, known, plan, prev, cancel, back,
                        snap, unrolled, before, edits, imports>>
<1>1. Pushing /\ n \in todo /\ n \in DOMAIN plan /\ n \in DOMAIN Base
  BY DEF Push, PushUpdate, PushList, PushCreate, PushDuplicate, Turn, TypeOK
<1>2. UNCHANGED <<cache, stage, wipes, known, plan, cancel, back, snap,
                  unrolled, before, edits, imports>>
  BY DEF Push, PushUpdate, PushList, PushCreate, PushDuplicate, prep, undo
<1>3. tenant \in Tenant /\ \A i \in Named(tenant, n) : i \in Id /\ tenant[i].name = n
  BY DEF TypeOK, Named, Live
<1>4. CASE PushUpdate(n)
  <2>1. plan[n] \in Id /\ Update(n, plan[n]) /\ UNCHANGED made
    BY <1>1, <1>4 DEF PushUpdate, TypeOK
  <2> QED
    BY <1>1, <1>2, <1>3, <2>1, UpdateDoes
<1>5. CASE PushList(n)
  <2>1. PICK i \in Named(tenant, n) : Update(n, i)
    BY <1>5 DEF PushList
  <2>2. Kind[n] = "list" /\ UNCHANGED made
    BY <1>5 DEF PushList
  <2> QED
    BY <1>1, <1>2, <1>3, <2>1, <2>2, UpdateDoes
<1>6. CASE PushCreate(n)
  <2>1. CASE \E i \in Fresh \ used :
          /\ tenant' = [tenant EXCEPT ![i] = Payload(n)]
          /\ used' = used \cup {i} /\ made' = made \cup {i}
          /\ \/ Recorded(n, "created", i) /\ UNCHANGED noise
             \/ Lost /\ Failed(n)
    <3>1. PICK i \in Fresh \ used :
          /\ tenant' = [tenant EXCEPT ![i] = Payload(n)]
          /\ used' = used \cup {i} /\ made' = made \cup {i}
          /\ \/ Recorded(n, "created", i) /\ UNCHANGED noise
             \/ Lost /\ Failed(n)
      BY <2>1
    <3>2. i \in Id /\ Creates(n, i)
      BY <3>1, TenantsAssumption DEF Creates
    <3>3. CASE Recorded(n, "created", i) /\ UNCHANGED noise
      BY <1>1, <1>2, <3>2, <3>3, RecordedDoes DEF Puts
    <3>4. CASE Lost /\ Failed(n)
      BY <1>1, <1>2, <3>2, <3>4, FailedDoes DEF Puts, Lost
    <3> QED
      BY <3>1, <3>3, <3>4
  <2>2. CASE NotWritten /\ (Recorded(n, "failed", None) \/ Failed(n))
    BY <1>1, <1>2, <2>2, RecordedDoes, FailedDoes DEF Puts, NotWritten
  <2> QED
    BY <1>6, <2>1, <2>2 DEF PushCreate
<1>7. CASE PushDuplicate(n)
  <2>1. plan[n] = None
    BY <1>7 DEF PushDuplicate
  <2>2. PICK i \in Named(tenant, n) :
          \/ Update(n, i) /\ UNCHANGED made
          \/ NotWritten /\ (Recorded(n, "failed", None) \/ Failed(n))
    BY <1>7 DEF PushDuplicate
  <2>3. CASE Update(n, i) /\ UNCHANGED made
    BY <1>1, <1>2, <1>3, <2>1, <2>3, UpdateDoes
  <2>4. CASE NotWritten /\ (Recorded(n, "failed", None) \/ Failed(n))
    BY <1>1, <1>2, <2>4, RecordedDoes, FailedDoes DEF Puts, NotWritten
  <2> QED
    BY <2>2, <2>3, <2>4
<1> QED
  BY <1>4, <1>5, <1>6, <1>7 DEF Push

\* An id that is mapped is an id of the tenant.
LEMMA PushMaps ==
  ASSUME TypeOK, NEW n \in Name, Push(n)
  PROVE  Map(remap')
<1>1. Map(remap)
  BY DEF TypeOK, Map
<1>2. n \in DOMAIN Base
  BY PushDoes
<1>3. \A i \in Id : Map(Registered(n, i))
  BY <1>1, <1>2, EntryIs DEF Map, Registered
<1>4. \A i \in Named(tenant, n) : i \in Id
  BY DEF Named, Live
<1>5. \/ UNCHANGED remap
      \/ \E i \in Id : remap' = Registered(n, i)
  BY <1>4, TenantsAssumption
     DEF Push, PushUpdate, PushList, PushCreate, PushDuplicate, NotWritten
<1> QED
  BY <1>1, <1>3, <1>5 DEF Map
-----------------------------------------------------------------------------
\* The type invariant, action by action.
LEMMA MapsTyped == TypeOK => Map(remap)
BY DEF TypeOK, Map

\* A record is added at the end.
LEMMA NotesAppend ==
  ASSUME records \in Seq(PushRecord), NEW n \in Name,
         NEW s \in {"created", "updated", "failed", "skipped"},
         NEW i \in Id \cup {None}, Notes(n, s, i)
  PROVE  /\ records' \in Seq(PushRecord) /\ Len(records') = Len(records) + 1
         /\ Len(records) \in Nat
         /\ DOMAIN records = 1..Len(records)
         /\ DOMAIN records' = 1..(Len(records) + 1)
         /\ \A k \in DOMAIN records : records'[k] = records[k]
         /\ records'[Len(records) + 1].name = n
         /\ records'[Len(records) + 1].status = s
         /\ records'[Len(records) + 1].id = IF Identified(n) THEN i ELSE None
<1> DEFINE r == [name |-> n, status |-> s,
                 id |-> IF Identified(n) THEN i ELSE None]
<1>1. r \in PushRecord
  BY DEF PushRecord
<1>2. records' = Append(records, r)
  BY DEF Notes
<1>3. r.name = n /\ r.status = s /\ r.id = IF Identified(n) THEN i ELSE None
  OBVIOUS
<1> HIDE DEF r
<1>4. /\ records' \in Seq(PushRecord) /\ Len(records') = Len(records) + 1
      /\ Len(records) \in Nat /\ records'[Len(records) + 1] = r
      /\ DOMAIN records = 1..Len(records)
      /\ DOMAIN records' = 1..(Len(records) + 1)
      /\ \A k \in 1..Len(records) : records'[k] = records[k]
  BY <1>1, <1>2
<1> QED
  BY <1>3, <1>4

LEMMA PutsTyped ==
  ASSUME TypeOK, NEW n \in DOMAIN plan, n \in DOMAIN Base, Puts(n)
  PROVE  /\ tenant' \in Tenant /\ used' \in SUBSET Id /\ made' \in SUBSET Id
         /\ retry' \subseteq DOMAIN plan
         /\ records' \in Seq(PushRecord) /\ Len(records') \in Nat
         /\ Len(records) <= Len(records')
         /\ noise' \subseteq {"edit", "import", "lost"}
<1>1. Payload(n) \in Object /\ n \in Name
  BY PayloadTyped, MapsTyped, EntryIs
<1>2. \A i \in Id : Updates(n, i) \/ Creates(n, i) =>
        tenant' \in Tenant /\ used' \in SUBSET Id /\ made' \in SUBSET Id
  BY <1>1 DEF Updates, Creates, TypeOK, Tenant
<1>3. records \in Seq(PushRecord) /\ Len(records) \in Nat
  BY DEF TypeOK
<1>4. ASSUME NEW s \in {"created", "updated", "failed"}, NEW i \in Id \cup {None},
             Notes(n, s, i)
      PROVE  /\ retry' \subseteq DOMAIN plan
             /\ records' \in Seq(PushRecord) /\ Len(records') \in Nat
             /\ Len(records) <= Len(records')
  <2>1. UNCHANGED retry
    BY <1>4 DEF Notes
  <2> QED
    BY <1>1, <1>3, <1>4, <2>1, NotesAppend DEF TypeOK
<1>5. Keeps(n) => /\ retry' \subseteq DOMAIN plan
                  /\ records' \in Seq(PushRecord) /\ Len(records') \in Nat
                  /\ Len(records) <= Len(records')
  BY <1>3 DEF Keeps, TypeOK
<1>6. noise' \subseteq {"edit", "import", "lost"}
  BY DEF Puts, TypeOK
<1>7. tenant' \in Tenant /\ used' \in SUBSET Id /\ made' \in SUBSET Id
  BY <1>2 DEF Puts, TypeOK
<1>8. \/ Keeps(n)
      \/ \E s \in {"created", "updated", "failed"}, i \in Id \cup {None} :
           Notes(n, s, i)
  BY DEF Puts
<1> QED
  BY <1>4, <1>5, <1>6, <1>7, <1>8

\* One entry of a pass.
LEMMA PushTyped ==
  ASSUME TypeOK, NEW n \in Name, Push(n)
  PROVE  TypeOK'
<1>1. /\ n \in DOMAIN plan /\ n \in DOMAIN Base /\ Puts(n) /\ todo' = todo \ {n}
      /\ UNCHANGED <<cache, stage, wipes, known, plan, prev, cancel, back,
                     snap, unrolled, before, edits, imports>>
  BY PushDoes
<1>2. back' \in 0..Len(records')
  BY <1>1, PutsTyped DEF TypeOK
<1>3. DOMAIN remap' \subseteq Id /\ \A i \in DOMAIN remap' : remap'[i] \in Id
  BY PushMaps DEF Map
<1> QED
  BY <1>1, <1>2, <1>3, PutsTyped DEF TypeOK

LEMMA PlanTyped ==
  ASSUME NEW c \in Tenant
  PROVE  /\ DOMAIN PlanOf(c) \subseteq DOMAIN Base
         /\ \A n \in DOMAIN PlanOf(c) :
              /\ PlanOf(c)[n] \in Id \cup {None}
              /\ Kind[n] # "settings" => PlanOf(c)[n] = FoundIn(c, n)
<1>1. \A n \in DOMAIN Base : FoundIn(c, n) \in Id \cup {None} /\ Base[n].id \in Id
  BY EntryIs, FoundInTyped
<1> QED
  BY <1>1 DEF PlanOf

\* Begin, the wipe and the classification.
LEMMA StartTyped ==
  ASSUME TypeOK, Passes, Begin \/ (\E i \in Id : WipeOne(i)) \/ WipeDone \/ Classify
  PROVE  TypeOK'
<1>1. Imported(tenant) \in Tenant
  BY ImportedTyped DEF TypeOK
<1>2. CASE Begin
  <2>1. stage' \in Stages /\ cache' \in Tenant /\ before' = tenant
    BY <1>1, <1>2 DEF Begin, TypeOK, Stages
  <2>2. wipes' \in SUBSET Id
    BY <1>2 DEF Begin, TypeOK, Live
  <2> QED
    BY <1>2, <2>1, <2>2 DEF Begin, TypeOK, pass, undo
<1>3. CASE \E i \in Id : WipeOne(i)
  <2>1. tenant' \in Tenant
    BY <1>3 DEF WipeOne, TypeOK, Tenant
  <2> QED
    BY <1>3, <2>1 DEF WipeOne, TypeOK, pass, undo, hist
<1>4. CASE WipeDone
  BY <1>4 DEF WipeDone, TypeOK, env, prep, pass, undo, hist, Stages
<1>5. CASE Classify
  <2>1. PICK c \in Tenant :
       /\ cache' = c
       /\ known' = Live(c)
       /\ remap' = Remaps(c, DOMAIN Base)
       /\ plan' = PlanOf(c)
       /\ todo' = Settings(PlanOf(c))
    BY <1>1, <1>5 DEF Classify, TypeOK
  <2>2. Map(remap') /\ known' \in SUBSET Id
    BY <2>1, RemapsTyped DEF Live
  <2>3. /\ DOMAIN plan' \subseteq DOMAIN Base
        /\ \A n \in DOMAIN plan' : plan'[n] \in Id \cup {None}
        /\ todo' \subseteq DOMAIN plan'
    BY <2>1, PlanTyped DEF Settings
  <2>4. /\ UNCHANGED <<tenant, used, wipes, retry, prev, records, cancel,
                       back, snap, unrolled, before, noise, made, edits, imports>>
        /\ stage' = "settings"
    BY <1>5 DEF Classify, undo, hist
  <2>5. retry = {}
    BY <1>5 DEF Passes, Classify
  <2> QED
    BY <2>1, <2>2, <2>3, <2>4, <2>5 DEF TypeOK, Map, Stages
<1> QED
  BY <1>2, <1>3, <1>4, <1>5

\* The parts a plan is split into are parts of it, and they are finite.
LEMMA SplitIs ==
  ASSUME TypeOK
  PROVE  /\ Settings(plan) \subseteq DOMAIN plan /\ Waiting(plan) \subseteq DOMAIN plan
         /\ Others(plan) \subseteq DOMAIN plan /\ Users(plan) \subseteq DOMAIN plan
         /\ Cardinality(Users(plan)) \in Nat /\ Cardinality(retry) \in Nat
<1>1. IsFiniteSet(DOMAIN Base)
  BY BaseAssumption
<1>2. Users(plan) \subseteq DOMAIN Base /\ retry \subseteq DOMAIN Base
  BY DEF TypeOK, Users
<1>3. IsFiniteSet(Users(plan)) /\ IsFiniteSet(retry)
  BY <1>1, <1>2, FS_Subset
<1>4. Cardinality(Users(plan)) \in Nat /\ Cardinality(retry) \in Nat
  BY <1>3, FS_CardinalityType
<1> QED
  BY <1>4 DEF Settings, Waiting, Others, Users

\* The ends of the passes.
Over == SettingsOver \/ MatchOver \/ ManagedOver \/ PassAgain \/ NoProgress
        \/ PushDone

LEMMA OverTyped ==
  ASSUME TypeOK, Over
  PROVE  TypeOK'
<1>1. /\ Imported(tenant) \in Tenant /\ Reimported \in Tenant
      /\ cache \in Tenant
  BY ImportedTyped DEF TypeOK, Reimported, Tenant
<1>2. cache' \in Tenant /\ snap' \in Tenant
  BY <1>1 DEF Over, SettingsOver, MatchOver, ManagedOver, PassAgain, NoProgress,
              PushDone, TypeOK, env, undo
<1>3. prev' \in Nat
  BY SplitIs DEF Over, SettingsOver, MatchOver, ManagedOver, PassAgain,
                 NoProgress, PushDone, TypeOK, pass
<1>4. UNCHANGED <<tenant, used, wipes, known, plan, remap, records, cancel,
                  back, unrolled, before, noise, made, edits, imports>>
  BY DEF Over, SettingsOver, MatchOver, ManagedOver, PassAgain, NoProgress,
         PushDone, env, prep, undo, hist
<1>5. todo' \subseteq DOMAIN plan /\ retry' \subseteq DOMAIN plan
  BY SplitIs DEF Over, SettingsOver, MatchOver, ManagedOver, PassAgain,
                 NoProgress, PushDone, TypeOK, pass
<1>6. stage' \in Stages
  BY DEF Over, SettingsOver, MatchOver, ManagedOver, PassAgain, NoProgress,
         PushDone, TypeOK, Stages
<1> QED
  BY <1>2, <1>3, <1>4, <1>5, <1>6 DEF TypeOK

\* A record that is added without a write.
LEMMA RecordTyped ==
  ASSUME TypeOK, NEW n \in todo, NEW s \in {"failed", "skipped"},
         Recorded(n, s, None), UNCHANGED <<env, stage, prep, remap, cancel, undo, hist>>
  PROVE  TypeOK'
<1>1. Notes(n, s, None) /\ todo' = todo \ {n} /\ UNCHANGED <<prev, retry>>
  BY RecordedDoes DEF Notes
<1>2. n \in Name
  BY EntryIs DEF TypeOK
<1>3. /\ records' \in Seq(PushRecord) /\ Len(records') = Len(records) + 1
      /\ Len(records) \in Nat
  BY <1>1, <1>2, NotesAppend DEF TypeOK
<1>4. back' \in 0..Len(records')
  BY <1>3 DEF TypeOK, undo
<1> QED
  BY <1>1, <1>3, <1>4 DEF TypeOK, env, prep, undo, hist

LEMMA MatchTyped ==
  ASSUME TypeOK, NEW n \in Name, Match(n) \/ GiveUp(n)
  PROVE  TypeOK'
<1>1. n \in todo
  BY DEF Match, GiveUp
<1>2. CASE GiveUp(n)
  BY <1>1, <1>2, RecordTyped DEF GiveUp
<1>3. CASE Match(n)
  <2> DEFINE i == FoundIn(snap, n)
  <2>1. CASE i = None
    <3>1. Recorded(n, "skipped", None) /\ UNCHANGED <<plan, remap>>
      BY <1>3, <2>1 DEF Match
    <3> QED
      BY <1>1, <1>3, <3>1, RecordTyped DEF Match, prep
  <2>2. CASE i # None
    <3>1. /\ plan' = [plan EXCEPT ![n] = i]
          /\ remap' = Registered(n, i)
          /\ todo' = todo \ {n} /\ UNCHANGED <<retry, prev, records>>
          /\ UNCHANGED <<tenant, used, cache, stage, wipes, known, cancel, back,
                         snap, unrolled, before, noise, made, edits, imports>>
      BY <1>3, <2>2 DEF Match, env, undo, hist
    <3>2. n \in DOMAIN Base /\ i \in Id
      BY <1>1, <2>2, FoundInTyped DEF TypeOK
    <3>3. Map(remap')
      BY <3>1, <3>2, MapsTyped, EntryIs DEF Map, Registered
    <3>4. /\ DOMAIN plan' = DOMAIN plan
          /\ \A m \in DOMAIN plan' : plan'[m] \in Id \cup {None}
      BY <3>1, <3>2 DEF TypeOK
    <3> QED
      BY <3>1, <3>3, <3>4 DEF TypeOK, Map
  <2> QED
    BY <2>1, <2>2
<1> QED
  BY <1>2, <1>3

\* A cancel, the rollback, and a stop of the process.
Undo == UndoCreate \/ UndoUpdate \/ UndoNothing \/ UndoDone

\* What a record holds.
LEMMA RecordIs ==
  ASSUME TypeOK, NEW k \in DOMAIN records
  PROVE  /\ k \in 1..Len(records) /\ Len(records) \in Nat
         /\ records[k].name \in Name /\ records[k].id \in Id \cup {None}
         /\ records[k].status \in {"created", "updated", "failed", "skipped"}
<1>1. records \in Seq(PushRecord)
  BY DEF TypeOK
<1>2. records[k] \in PushRecord /\ k \in 1..Len(records) /\ Len(records) \in Nat
  BY <1>1
<1> QED
  BY <1>2 DEF PushRecord

LEMMA UndoTyped ==
  ASSUME TypeOK, Undo
  PROVE  TypeOK'
<1>1. /\ UNCHANGED <<used, cache, wipes, known, plan, todo, retry, prev, remap,
                     records, cancel, snap, before, noise, made, edits, imports>>
      /\ stage' \in Stages
  BY DEF Undo, UndoCreate, UndoUpdate, UndoNothing, UndoDone, Undoing, TypeOK,
         env, prep, pass, undo, hist, Stages
<1>2. records \in Seq(PushRecord) /\ Len(records) \in Nat
      /\ back \in 0..Len(records)
  BY DEF TypeOK
<1>3. back' \in 0..Len(records)
  BY <1>2 DEF Undo, UndoCreate, UndoUpdate, UndoNothing, UndoDone, Undoing, undo
<1>4. unrolled' \in BOOLEAN
  BY DEF Undo, UndoCreate, UndoUpdate, UndoNothing, UndoDone, undo, TypeOK
<1>5. tenant' \in Tenant
  <2>1. CASE UndoCreate
    BY <2>1 DEF UndoCreate, TypeOK, Tenant
  <2>2. CASE UndoUpdate
    <3> DEFINE r == records[back]
               p == Build(snap[r.id], remap, known)
    <3>1. r.id \in Id
      <4>1. back \in DOMAIN records
        BY <1>2, <2>2 DEF UndoUpdate, Undoing
      <4> QED
        BY <2>2, <4>1, RecordIs DEF UndoUpdate, Undoing
    <3>2. snap[r.id] # None => p \in Object
      BY <3>1, BuildTyped, MapsTyped DEF TypeOK, Tenant
    <3>3. \/ UNCHANGED <<tenant, unrolled>>
          \/ snap[r.id] # None /\ tenant' = [tenant EXCEPT ![r.id] = p]
          \/ UNCHANGED tenant
      BY <2>2, Zenon DEF UndoUpdate
    <3> QED
      BY <3>2, <3>3 DEF TypeOK, Tenant
  <2>3. CASE UndoNothing \/ UndoDone
    BY <2>3 DEF UndoNothing, UndoDone, env, TypeOK
  <2> QED
    BY <2>1, <2>2, <2>3 DEF Undo
<1> QED
  BY <1>1, <1>2, <1>3, <1>4, <1>5 DEF TypeOK

\* What others do meanwhile.
Meanwhile == Edit \/ Provision \/ OtherImport

LEMMA OthersTyped ==
  ASSUME TypeOK, Stop \/ RequestCancel \/ Crash \/ Meanwhile
  PROVE  TypeOK'
<1>1. Len(records) \in 0..Len(records) /\ records \in Seq(PushRecord)
  BY DEF TypeOK
<1>2. CASE Stop
  BY <1>1, <1>2 DEF Stop, TypeOK, env, prep, pass, hist, Stages
<1>3. CASE RequestCancel
  BY <1>3 DEF RequestCancel, TypeOK, env, prep, pass, undo, hist
<1>4. CASE Crash
  BY <1>4 DEF Crash, TypeOK, env, prep, pass, undo, hist, Stages
<1>5. CASE OtherImport
  <2>1. Imported(tenant) \in Tenant
    BY ImportedTyped DEF TypeOK
  <2>2. imports' \in 0..MaxImports
    BY <1>5, ModeAssumption DEF OtherImport, TypeOK
  <2> QED
    BY <1>5, <2>1, <2>2 DEF OtherImport, TypeOK, prep, pass, undo
<1>6. CASE Provision
  <2>1. PICK n \in DOMAIN Base, i \in Fresh \ used :
          /\ tenant' = [tenant EXCEPT ![i] = [Base[n].object EXCEPT !.refs = {},
                                                                 !.scope = {}]]
          /\ used' = used \cup {i}
    BY <1>6 DEF Provision
  <2>2. [Base[n].object EXCEPT !.refs = {}, !.scope = {}] \in Object
    BY EntryIs DEF Object
  <2>3. tenant' \in Tenant /\ used' \in SUBSET Id
    BY <2>1, <2>2, TenantsAssumption DEF TypeOK, Tenant
  <2> QED
    BY <1>6, <2>3 DEF Provision, TypeOK, prep, pass, undo, hist
<1>7. CASE Edit
  <2>1. PICK t \in Tenant : Edited(t) /\ used' \in SUBSET Id
    <3>1. ASSUME NEW i \in Live(tenant), NEW c \in Cfg,
                 Edited([tenant EXCEPT ![i].cfg = c]), UNCHANGED used
          PROVE  \E t \in Tenant : Edited(t) /\ used' \in SUBSET Id
      <4>1. [tenant EXCEPT ![i].cfg = c] \in Tenant
        BY DEF TypeOK, Tenant, Object, Live
      <4> QED
        BY <3>1, <4>1 DEF TypeOK
    <3>2. ASSUME NEW i \in Live(tenant),
                 Edited([tenant EXCEPT ![i] = None]), UNCHANGED used
          PROVE  \E t \in Tenant : Edited(t) /\ used' \in SUBSET Id
      BY <3>2 DEF TypeOK, Tenant
    <3>3. ASSUME NEW i \in Fresh \ used, NEW n \in Name, NEW c \in Cfg,
                 Edited([tenant EXCEPT ![i] = [name |-> n, cfg |-> c, refs |-> {},
                                        scope |-> {}, on |-> TRUE]]),
                 used' = used \cup {i}
          PROVE  \E t \in Tenant : Edited(t) /\ used' \in SUBSET Id
      <4>1. [name |-> n, cfg |-> c, refs |-> {}, scope |-> {}, on |-> TRUE]
              \in Object
        BY DEF Object
      <4>2. [tenant EXCEPT ![i] = [name |-> n, cfg |-> c, refs |-> {},
                                   scope |-> {}, on |-> TRUE]] \in Tenant
        BY <4>1 DEF TypeOK, Tenant
      <4> QED
        BY <3>3, <4>2, TenantsAssumption DEF TypeOK
    <3> QED
      BY <1>7, <3>1, <3>2, <3>3 DEF Edit
  <2>2. edits' \in 0..MaxEdits
    BY <2>1, ModeAssumption DEF Edited, TypeOK
  <2> QED
    BY <2>1, <2>2 DEF Edited, TypeOK, prep, pass, undo
<1> QED
  BY <1>2, <1>3, <1>4, <1>5, <1>6, <1>7 DEF Meanwhile
-----------------------------------------------------------------------------
\* What is reported.
LEMMA NotesReport ==
  ASSUME TypeOK, NEW n \in Name,
         NEW s \in {"created", "updated", "failed", "skipped"},
         NEW i \in Id \cup {None}, Notes(n, s, i)
  PROVE  \A m : Reported(m)' <=> m = n \/ Reported(m)
<1>1. /\ Len(records) \in Nat
      /\ DOMAIN records = 1..Len(records)
      /\ DOMAIN records' = 1..(Len(records) + 1)
      /\ \A k \in DOMAIN records : records'[k] = records[k]
      /\ records'[Len(records) + 1].name = n
  BY NotesAppend DEF TypeOK
<1>2. DOMAIN records' = DOMAIN records \cup {Len(records) + 1}
  BY <1>1
<1> QED
  BY <1>1, <1>2 DEF Reported

LEMMA PutsNotes ==
  ASSUME NEW n, Puts(n)
  PROVE  \/ Keeps(n)
         \/ \E s \in {"created", "updated", "failed", "skipped"},
               i \in Id \cup {None} : Notes(n, s, i)
BY DEF Puts

\* An entry that is taken from a pass is reported or kept, whatever happened.
LEMMA TakesOnce ==
  ASSUME TypeOK, Once, NEW n \in todo, n \in Name, todo' = todo \ {n},
         \/ Keeps(n)
         \/ \E s \in {"created", "updated", "failed", "skipped"},
               i \in Id \cup {None} : Notes(n, s, i)
  PROVE  Once'
<1>1. ~Reported(n) /\ n \notin retry
  BY DEF Once
<1>2. CASE Keeps(n)
  BY <1>1, <1>2 DEF Keeps, Once, Reported
<1>3. ASSUME NEW s \in {"created", "updated", "failed", "skipped"},
             NEW i \in Id \cup {None}, Notes(n, s, i)
      PROVE  Once'
  <2>1. \A m : Reported(m)' <=> m = n \/ Reported(m)
    BY <1>3, NotesReport
  <2>2. UNCHANGED retry
    BY <1>3 DEF Notes
  <2>3. /\ Len(records) \in Nat
        /\ DOMAIN records = 1..Len(records)
        /\ DOMAIN records' = 1..(Len(records) + 1)
        /\ \A k \in DOMAIN records : records'[k] = records[k]
        /\ records'[Len(records) + 1].name = n
    BY <1>3, NotesAppend DEF TypeOK
  <2>4. DOMAIN records' = DOMAIN records \cup {Len(records) + 1}
    BY <2>3
  <2>5. \A k \in DOMAIN records : records[k].name # n
    BY <1>1 DEF Reported
  <2>6. \A j, k \in DOMAIN records' : records'[j].name = records'[k].name => j = k
    BY <2>3, <2>4, <2>5 DEF Once
  <2> QED
    BY <1>1, <2>1, <2>2, <2>6 DEF Once
<1> QED
  BY <1>2, <1>3

LEMMA PushReports ==
  ASSUME TypeOK, Once, Passes, NEW n \in Name, Push(n)
  PROVE  Once' /\ Passes'
<1>1. /\ Pushing /\ n \in todo /\ Puts(n) /\ todo' = todo \ {n}
      /\ UNCHANGED <<stage, plan>>
  BY PushDoes
<1>2. Once'
  BY <1>1, PutsNotes, TakesOnce
<1>3. \/ retry' = retry \cup {n} /\ \A m : Reported(m)' <=> Reported(m)
      \/ retry' = retry /\ \A m : Reported(m)' <=> m = n \/ Reported(m)
  <2>1. CASE Keeps(n)
    BY <2>1 DEF Keeps, Reported
  <2>2. CASE ~Keeps(n)
    <3>1. PICK s \in {"created", "updated", "failed", "skipped"},
               i \in Id \cup {None} : Notes(n, s, i)
      BY <1>1, <2>2, PutsNotes
    <3> QED
      BY <3>1, NotesReport DEF Notes
  <2> QED
    BY <2>1, <2>2
<1>4. stage \in {"settings", "managed", "users"}
  BY <1>1 DEF Pushing
<1>5. \A m : m \in Others(plan) => m \notin Users(plan)
  BY DEF Others, Users
<1>6. Passes'
  <2>1. CASE stage = "settings"
    BY <1>1, <1>3, <2>1 DEF Passes, Settings
  <2>2. CASE stage = "managed"
    BY <1>1, <1>3, <1>5, <2>2 DEF Passes, Users, Others
  <2>3. CASE stage = "users"
    BY <1>1, <1>3, <2>3 DEF Passes, Users
  <2> QED
    BY <1>4, <2>1, <2>2, <2>3
<1> QED
  BY <1>2, <1>6

LEMMA OverReports ==
  ASSUME TypeOK, Once, Passes, Over
  PROVE  Once' /\ Passes'
<1>1. UNCHANGED <<plan, records>>
  BY DEF Over, SettingsOver, MatchOver, ManagedOver, PassAgain, NoProgress,
         PushDone, prep
<1>2. \A m : Reported(m)' <=> Reported(m)
  BY <1>1 DEF Reported
<1>3. /\ Settings(plan)' = Settings(plan) /\ Waiting(plan)' = Waiting(plan)
      /\ Others(plan)' = Others(plan) /\ Users(plan)' = Users(plan)
  BY <1>1 DEF Settings, Waiting, Others, Users
<1>4. \A m : /\ m \in Users(plan) => /\ m \notin Others(plan) /\ m \notin Settings(plan)
                                     /\ m \notin Waiting(plan)
             /\ m \in Settings(plan) => m \notin Others(plan) /\ m \notin Waiting(plan)
             /\ m \in Waiting(plan) => m \notin Others(plan)
  BY DEF Settings, Waiting, Others, Users, Managed
<1>5. \A m : m \in Users(plan) \cup Others(plan) \cup Waiting(plan) => m \in Name
  BY EntryIs DEF TypeOK, Users, Others, Waiting
<1>6. CASE SettingsOver
  BY <1>1, <1>2, <1>3, <1>4, <1>5, <1>6 DEF SettingsOver, PassOver, Once, Passes
<1>7. CASE MatchOver
  BY <1>1, <1>2, <1>3, <1>4, <1>5, <1>7 DEF MatchOver, Once, Passes
<1>8. CASE ManagedOver
  BY <1>1, <1>2, <1>3, <1>4, <1>5, <1>8 DEF ManagedOver, PassOver, Once, Passes
<1>9. CASE PassAgain \/ NoProgress
  BY <1>1, <1>2, <1>3, <1>9 DEF PassAgain, NoProgress, PassOver, Once, Passes
<1>10. CASE PushDone
  BY <1>1, <1>2, <1>3, <1>10 DEF PushDone, pass, Once, Passes
<1> QED
  BY <1>6, <1>7, <1>8, <1>9, <1>10 DEF Over

LEMMA MatchReports ==
  ASSUME TypeOK, Once, Passes, NEW n \in Name, Match(n) \/ GiveUp(n)
  PROVE  Once' /\ Passes'
<1>1. n \in todo /\ todo' = todo \ {n} /\ UNCHANGED <<stage, retry>>
  BY DEF Match, GiveUp, Recorded, env
<1>2. CASE UNCHANGED plan /\ \E s \in {"failed", "skipped"} : Recorded(n, s, None)
  <2>1. PICK s \in {"failed", "skipped"} : Notes(n, s, None)
    BY <1>2, RecordedDoes
  <2>2. Once'
    BY <1>1, <2>1, TakesOnce
  <2>3. \A m : Reported(m)' <=> m = n \/ Reported(m)
    BY <2>1, NotesReport
  <2>4. /\ stage = "match" => n \in Waiting(plan)
        /\ stage \in {"match", "failing"}
    BY <1>1 DEF Passes, Match, GiveUp
  <2>5. n \in Waiting(plan) => n \notin Others(plan) /\ n \notin Users(plan)
    BY DEF Waiting, Others, Users, Managed
  <2>6. /\ Waiting(plan)' = Waiting(plan)
        /\ Others(plan)' = Others(plan) /\ Users(plan)' = Users(plan)
    BY <1>2 DEF Waiting, Others, Users
  <2>7. CASE stage = "match"
    BY <1>1, <2>2, <2>3, <2>4, <2>5, <2>6, <2>7 DEF Passes
  <2>8. CASE stage = "failing"
    BY <1>1, <2>2, <2>3, <2>6, <2>8 DEF Passes
  <2> QED
    BY <2>2, <2>4, <2>7, <2>8
<1>3. CASE /\ stage = "match" /\ UNCHANGED records
           /\ \E i : i # None /\ plan' = [plan EXCEPT ![n] = i]
  <2>1. \A m : Reported(m)' <=> Reported(m)
    BY <1>3 DEF Reported
  <2>2. PICK i : i # None /\ plan' = [plan EXCEPT ![n] = i]
    BY <1>3
  <2>3. n \in Waiting(plan) /\ todo \subseteq Waiting(plan) /\ ~Reported(n)
    BY <1>1, <1>3 DEF Passes, Once
  <2>4. /\ DOMAIN plan' = DOMAIN plan /\ plan'[n] = i
        /\ \A m \in DOMAIN plan \ {n} : plan'[m] = plan[m]
    BY <2>2, <2>3 DEF Waiting
  <2>5. /\ Others(plan') \subseteq Others(plan) \cup {n}
        /\ Users(plan') = Users(plan)
        /\ todo \ {n} \subseteq Waiting(plan')
    BY <2>3, <2>4 DEF Waiting, Others, Users
  <2>6. Once'
    BY <1>1, <1>3, <2>1 DEF Once
  <2> QED
    BY <1>1, <1>3, <2>1, <2>3, <2>5, <2>6 DEF Passes
<1> QED
  BY <1>2, <1>3 DEF Match, GiveUp, prep

\* Whatever leaves the entries and the records as they are.
LEMMA OthersReport ==
  ASSUME Once, Passes, UNCHANGED <<plan, todo, retry, records>>,
         \/ UNCHANGED stage
         \/ stage' \in {"rollback", "cancelled", "gone"}
         \/ stage = "idle" /\ stage' \in {"wipe", "classify"}
         \/ stage = "wipe" /\ stage' = "classify"
  PROVE  Once' /\ Passes'
<1>1. \A m : Reported(m)' <=> Reported(m)
  BY DEF Reported
<1>2. /\ Settings(plan)' = Settings(plan) /\ Waiting(plan)' = Waiting(plan)
      /\ Others(plan)' = Others(plan) /\ Users(plan)' = Users(plan)
  BY DEF Settings, Waiting, Others, Users
<1>3. Once'
  BY <1>1 DEF Once
<1> QED
  BY <1>1, <1>2, <1>3 DEF Passes

LEMMA ClassifyReports ==
  ASSUME TypeOK, Once, Passes, Classify
  PROVE  Once' /\ Passes'
<1>1. /\ stage = "classify" /\ stage' = "settings" /\ UNCHANGED <<retry, records>>
      /\ todo' = Settings(plan)'
  BY DEF Classify
<1>2. records = <<>> /\ retry = {}
  BY <1>1 DEF Passes
<1>3. \A m : ~Reported(m)'
  BY <1>1, <1>2 DEF Reported
<1> QED
  BY <1>1, <1>2, <1>3 DEF Once, Passes
-----------------------------------------------------------------------------
\* What this job created, and the ids the tenant has given out.
LEMMA PutsOwn ==
  ASSUME TypeOK, Own, NEW n \in Name, Push(n)
  PROVE  Own'
<1>1. Puts(n) /\ UNCHANGED before
  BY PushDoes
<1>2. made \subseteq made' /\ used \subseteq used'
  BY <1>1 DEF Puts, Updates, Creates
<1>3. \A i \in Id : Updates(n, i) \/ Creates(n, i) => Live(tenant') \subseteq used'
  <2> TAKE i \in Id
  <2>1. \A j \in Id : j # i => tenant'[j] = tenant[j] \/ ~(Updates(n, i) \/ Creates(n, i))
    BY DEF Updates, Creates, TypeOK, Tenant
  <2>2. Updates(n, i) \/ Creates(n, i) => i \in used'
    BY DEF Updates, Creates, Own, Live
  <2> QED
    BY <1>2, <2>1, <2>2 DEF Own, Live
<1>4. Live(tenant') \cup Live(before') \subseteq used'
  BY <1>1, <1>2, <1>3 DEF Puts, Own
<1>5. \A k \in DOMAIN records' :
        records'[k].status = "created" /\ records'[k].id # None
          => records'[k].id \in made'
  <2>1. CASE UNCHANGED records
    BY <1>2, <2>1 DEF Own
  <2>2. ASSUME NEW s \in {"created", "updated", "failed", "skipped"},
               NEW i \in Id \cup {None}, Notes(n, s, i), s = "created" => i \in made'
        PROVE  \A k \in DOMAIN records' :
                 records'[k].status = "created" /\ records'[k].id # None
                   => records'[k].id \in made'
    <3>1. /\ Len(records) \in Nat
          /\ DOMAIN records = 1..Len(records)
          /\ DOMAIN records' = 1..(Len(records) + 1)
          /\ \A k \in DOMAIN records : records'[k] = records[k]
          /\ records'[Len(records) + 1].status = s
          /\ records'[Len(records) + 1].id = IF Identified(n) THEN i ELSE None
      BY <2>2, NotesAppend DEF TypeOK
    <3>2. DOMAIN records' = DOMAIN records \cup {Len(records) + 1}
      BY <3>1
    <3> QED
      BY <1>2, <2>2, <3>1, <3>2 DEF Own
  <2>3. \/ UNCHANGED records
        \/ \E s \in {"created", "updated", "failed", "skipped"}, i \in Id \cup {None} :
             Notes(n, s, i) /\ (s = "created" => i \in made')
    BY <1>1 DEF Puts, Keeps, Creates
  <2> QED
    BY <2>1, <2>2, <2>3
<1> QED
  BY <1>4, <1>5 DEF Own

\* Nothing but a push adds an object without using up an id.
LEMMA OthersOwn ==
  ASSUME Own, made' = made, used \subseteq used', Live(tenant') \subseteq used',
         before' = before \/ before' = tenant,
         \A k \in DOMAIN records' :
           records'[k].status = "created" =>
             k \in DOMAIN records /\ records'[k] = records[k]
  PROVE  Own'
BY DEF Own

LEMMA MatchOwn ==
  ASSUME TypeOK, Own, NEW n \in Name, Match(n) \/ GiveUp(n)
  PROVE  Own'
<1>1. UNCHANGED <<tenant, used, before, made>>
  BY DEF Match, GiveUp, env, hist
<1>2. CASE UNCHANGED records
  BY <1>1, <1>2, OthersOwn DEF Own
<1>3. CASE \E s \in {"failed", "skipped"} : Recorded(n, s, None)
  <2>1. PICK s \in {"failed", "skipped"} : Notes(n, s, None)
    BY <1>3, RecordedDoes
  <2>2. /\ Len(records) \in Nat
        /\ DOMAIN records = 1..Len(records)
        /\ DOMAIN records' = 1..(Len(records) + 1)
        /\ \A k \in DOMAIN records : records'[k] = records[k]
        /\ records'[Len(records) + 1].status = s
    BY <2>1, NotesAppend DEF TypeOK
  <2>3. DOMAIN records' = DOMAIN records \cup {Len(records) + 1}
    BY <2>2
  <2> QED
    BY <1>1, <2>2, <2>3, OthersOwn DEF Own
<1> QED
  BY <1>2, <1>3 DEF Match, GiveUp

LEMMA RestOwn ==
  ASSUME TypeOK, Own,
         \/ Begin \/ (\E i \in Id : WipeOne(i)) \/ WipeDone \/ Classify
         \/ Over \/ Stop \/ Undo \/ RequestCancel \/ Crash \/ Meanwhile
  PROVE  Own'
<1>1. UNCHANGED <<made, records>>
  BY DEF Begin, WipeOne, WipeDone, Classify, Over, SettingsOver, MatchOver,
         ManagedOver, PassAgain, NoProgress, PushDone, Stop, Undo, UndoCreate,
         UndoUpdate, UndoNothing, UndoDone, Undoing, RequestCancel, Crash,
         Meanwhile, Edit, Edited, Provision, OtherImport, hist
<1>2. before' = before \/ before' = tenant
  BY DEF Begin, WipeOne, WipeDone, Classify, Over, SettingsOver, MatchOver,
         ManagedOver, PassAgain, NoProgress, PushDone, Stop, Undo, UndoCreate,
         UndoUpdate, UndoNothing, UndoDone, Undoing, RequestCancel, Crash,
         Meanwhile, Edit, Edited, Provision, OtherImport, hist
<1>3. Live(tenant) \subseteq used /\ tenant \in Tenant
  BY DEF Own, TypeOK
<1>4. used \subseteq used' /\ Live(tenant') \subseteq used'
  <2>1. CASE UNCHANGED <<tenant, used>>
    BY <1>3, <2>1
  <2>2. CASE \E i \in Id : WipeOne(i)
    BY <1>3, <2>2 DEF WipeOne, Live, Tenant
  <2>3. CASE UndoCreate
    BY <1>3, <2>3 DEF UndoCreate, Undoing, Live, Tenant
  <2>4. CASE UndoUpdate
    BY <1>3, <2>4 DEF UndoUpdate, Undoing, Live, Tenant
  <2>5. CASE Provision
    BY <1>3, <2>5 DEF Provision, Live, Tenant
  <2>6. CASE Edit
    <3>1. ASSUME NEW i \in Live(tenant), NEW t, tenant' = [tenant EXCEPT ![i] = t],
                 UNCHANGED used
          PROVE  used \subseteq used' /\ Live(tenant') \subseteq used'
      BY <1>3, <3>1 DEF Live, Tenant
    <3>2. ASSUME NEW i \in Fresh \ used, NEW t, tenant' = [tenant EXCEPT ![i] = t],
                 used' = used \cup {i}
          PROVE  used \subseteq used' /\ Live(tenant') \subseteq used'
      BY <1>3, <3>2 DEF Live, Tenant
    <3> QED
      BY <2>6, <3>1, <3>2 DEF Edit, Edited
  <2> QED
    BY <2>1, <2>2, <2>3, <2>4, <2>5, <2>6
       DEF Begin, WipeDone, Classify, Over, SettingsOver, MatchOver,
           ManagedOver, PassAgain, NoProgress, PushDone, Stop, Undo,
           UndoNothing, UndoDone, RequestCancel, Crash, Meanwhile, OtherImport,
           env
<1> QED
  BY <1>1, <1>2, <1>4, OthersOwn
-----------------------------------------------------------------------------
\* What a clean push must undo, and can.
Kept == RowsKept /\ Undoes /\ Restorable

LEMMA ImportedIs ==
  ASSUME NEW t \in Tenant, NEW i \in Id
  PROVE  Imported(t)[i] = IF t[i] # None /\ Kind[t[i].name] = "unimported"
                            THEN None ELSE t[i]
BY DEF Imported

\* One entry of a pass.
LEMMA PushKept ==
  ASSUME TypeOK, Once, Own, Kept, NEW n \in Name, Push(n)
  PROVE  Kept'
<1>1. /\ Pushing /\ n \in todo /\ n \in DOMAIN plan /\ n \in DOMAIN Base
      /\ Puts(n)
      /\ UNCHANGED <<cache, stage, plan, back, snap, unrolled, before, known>>
  BY PushDoes
<1>2. stage \in {"settings", "managed", "users"}
  BY <1>1 DEF Pushing
<1>3. records \in Seq(PushRecord) /\ Len(records) \in Nat
      /\ tenant \in Tenant /\ before \in Tenant
  BY DEF TypeOK
<1>4. Payload(n) \in Object /\ Payload(n).name = n
  BY <1>1, PayloadTyped, MapsTyped
<1>5. ASSUME UNCHANGED records, noise \subseteq noise', Clean'
      PROVE  Clean
  BY <1>5 DEF Clean, Written
<1>6. CASE UNCHANGED <<tenant, records, noise>>
  <2>1. Clean' <=> Clean
    BY <1>6 DEF Clean, Written
  <2>2. Changed(Len(records))' <=> Changed(Len(records))
    BY <1>1, <1>6 DEF Changed, Tells, Written
  <2> QED
    BY <1>1, <1>2, <1>6, <2>1, <2>2
       DEF Kept, RowsKept, Undoes, Restorable, Written, Named, Live
<1>7. ASSUME NEW s \in {"created", "updated", "failed"},
             NEW i \in Id \cup {None}, Notes(n, s, i), UNCHANGED noise,
             s = "failed" => UNCHANGED tenant,
             s = "created" => i \in Id /\ Creates(n, i),
             s = "updated" => i \in Id /\ Updates(n, i)
      PROVE  Kept'
  <2>1. PICK l \in Nat :
        /\ l = Len(records) + 1
        /\ DOMAIN records = 1..Len(records) /\ DOMAIN records' = 1..l
        /\ Len(records') = l
        /\ \A k \in DOMAIN records : records'[k] = records[k]
        /\ records'[l].name = n /\ records'[l].status = s
        /\ records'[l].id = IF Identified(n) THEN i ELSE None
    BY <1>3, <1>7, NotesAppend
  <2>2. /\ DOMAIN records' = DOMAIN records \cup {l}
        /\ l \notin DOMAIN records /\ l \in Nat
        /\ \A k \in DOMAIN records' : k \in Nat /\ k <= l
        /\ \A k \in DOMAIN records : k <= Len(records)
    BY <1>3, <2>1
  <2>3. SUFFICES ASSUME Clean' PROVE Kept'
    BY <1>2, <1>1 DEF Kept, RowsKept, Undoes, Restorable
  <2>4. \A k \in DOMAIN records : Written(k)' <=> Written(k)
    BY <2>1 DEF Written
  <2>5. Clean
    BY <1>7, <2>1, <2>2, <2>3, <2>4 DEF Clean
  <2>6. s # "failed" => Identified(n) /\ i \in Id /\ records'[l].id = i
    BY <1>7, <2>1, <2>2, <2>3 DEF Clean, Written
  <2>7. /\ cache = Imported(before) /\ Changed(Len(records))
        /\ Identified(n) => IF plan[n] = None THEN Named(cache, n) = {}
                                              ELSE cache[plan[n]] # None
    BY <1>1, <1>2, <2>5 DEF Kept, RowsKept, Restorable
  <2>8. s = "updated" => Imported(before)[i] # None
    <3> SUFFICES ASSUME s = "updated" PROVE Imported(before)[i] # None
      OBVIOUS
    <3>1. /\ Identified(n) /\ i \in Id /\ tenant[i] # None
          /\ (plan[n] = i \/ (plan[n] = None /\ tenant[i].name = n))
      <4>1. Identified(n) /\ i \in Id /\ Updates(n, i)
        BY <1>7, <2>6
      <4>2. Kind[n] # "list"
        BY <4>1 DEF Identified
      <4> QED
        BY <4>1, <4>2 DEF Updates
    <3>2. CASE plan[n] = i
      BY <2>7, <3>1, <3>2, NoneAssumption
    <3>3. CASE plan[n] = None /\ tenant[i].name = n
      <4>1. tenant[i] = before[i]
        <5>1. ASSUME NEW k \in DOMAIN records, Tells(k, i)
              PROVE  FALSE
          BY <1>1, <3>1, <3>3, <5>1 DEF Tells, Once, Reported
        <5> QED
          BY <2>7, <3>1, <5>1 DEF Changed
      <4>2. Imported(before)[i] = before[i]
        BY <1>3, <3>1, <3>3, <4>1, ImportedIs DEF Identified
      <4>3. i \in Named(cache, n)
        BY <2>7, <3>1, <3>3, <4>1, <4>2 DEF Named, Live
      <4> QED
        BY <2>7, <3>1, <3>3, <4>3
    <3> QED
      BY <3>1, <3>2, <3>3
  <2>9. s = "created" => before[i] = None
    BY <1>7 DEF Creates, Own, Live
  <2>10. Undoes'
    <3>1. \A k \in DOMAIN records : Written(k) =>
            /\ records[k].id \in Id
            /\ records[k].status = "updated" => Imported(before)[records[k].id] # None
            /\ records[k].status = "created" => before[records[k].id] = None
      BY <1>2, <2>5 DEF Kept, Undoes
    <3>2. ASSUME NEW k \in DOMAIN records', Written(k)'
          PROVE  /\ records'[k].id \in Id
                 /\ records'[k].status = "updated"
                      => Imported(before)[records'[k].id] # None
                 /\ records'[k].status = "created"
                      => before[records'[k].id] = None
      <4>1. CASE k \in DOMAIN records
        BY <2>1, <2>4, <3>1, <3>2, <4>1
      <4>2. CASE k = l
        <5>1. s # "failed"
          BY <2>1, <3>2, <4>2 DEF Written
        <5> QED
          BY <2>1, <2>6, <2>8, <2>9, <4>2, <5>1
      <4> QED
        BY <2>2, <4>1, <4>2
    <3>3. Imported(before)' = Imported(before)
      BY <1>1 DEF Imported
    <3> QED
      BY <1>1, <3>2, <3>3 DEF Undoes
  <2>11. Changed(Len(records))'
    <3>1. ASSUME NEW j \in Id, tenant'[j] # before[j], tenant'[j] = tenant[j]
          PROVE  \E k \in DOMAIN records' : k <= Len(records') /\ Tells(k, j)'
      <4>1. PICK k \in DOMAIN records : k <= Len(records) /\ Tells(k, j)
        BY <2>7, <3>1 DEF Changed
      <4>2. Tells(k, j)'
        BY <2>1, <2>4, <3>1, <4>1 DEF Tells
      <4> QED
        BY <2>1, <2>2, <4>1, <4>2
    <3>2. ASSUME NEW j \in Id, tenant'[j] # tenant[j]
          PROVE  \E k \in DOMAIN records' : k <= Len(records') /\ Tells(k, j)'
      <4>1. s # "failed" /\ tenant' = [tenant EXCEPT ![i] = Payload(n)]
        BY <1>7, <3>2 DEF Creates, Updates
      <4>2. j = i /\ tenant'[j].name = n
        BY <1>3, <1>4, <3>2, <4>1 DEF Tenant
      <4>3. Tells(l, j)'
        BY <2>1, <2>6, <4>1, <4>2 DEF Tells, Written
      <4> QED
        BY <2>1, <2>2, <4>3
    <3> QED
      BY <1>1, <3>1, <3>2 DEF Changed
  <2>12. RowsKept'
    BY <1>1, <1>2, <2>5 DEF Kept, RowsKept, Named, Live, Imported
  <2> QED
    BY <1>1, <1>2, <2>10, <2>11, <2>12 DEF Kept, Restorable
<1>8. CASE noise' = noise \cup {"lost"}
  BY <1>1, <1>2, <1>8 DEF Kept, RowsKept, Undoes, Restorable, Clean
<1> QED
  BY <1>1, <1>6, <1>7, <1>8 DEF Puts, Keeps

\* Before it has written anything, a clean push finds the tenant as it was.
LEMMA Unwritten ==
  ASSUME TypeOK, Kept, Clean, records = <<>>,
         stage \notin {"done", "gone", "rollback", "cancelled"}
  PROVE  tenant = before /\ cache = Imported(tenant)
<1>1. Changed(Len(records)) /\ cache = Imported(before)
  BY DEF Kept, Restorable, RowsKept
<1>2. \A i \in Id : tenant[i] = before[i]
  BY <1>1 DEF Changed
<1>3. tenant = before
  BY <1>2 DEF TypeOK, Tenant
<1> QED
  BY <1>1, <1>3

LEMMA StartKept ==
  ASSUME TypeOK, Passes, Kept,
         Begin \/ (\E i \in Id : WipeOne(i)) \/ WipeDone \/ Classify
  PROVE  Kept'
<1>1. /\ stage \in {"idle", "wipe", "classify"} /\ records = <<>>
      /\ UNCHANGED <<records, noise>>
  BY DEF Passes, Begin, WipeOne, WipeDone, Classify, hist
<1>2. Clean' <=> Clean
  BY <1>1 DEF Clean, Written
<1>3. Undoes'
  BY <1>1 DEF Undoes
<1>4. CASE Begin
  <2>1. ASSUME Clean
        PROVE  stage' = "classify" /\ cache' = Imported(before') /\ tenant' = before'
    BY <1>1, <1>4, <2>1, Unwritten DEF Begin, Clean
  <2>2. RowsKept'
    BY <1>2, <2>1 DEF RowsKept, Imported
  <2>3. stage' \in {"wipe", "classify"} /\ (stage' = "wipe" => WipeFirst)
    BY <1>4 DEF Begin
  <2>4. Restorable'
    BY <1>2, <2>1, <2>3 DEF Restorable, Changed
  <2> QED
    BY <1>3, <2>2, <2>4 DEF Kept
<1>5. CASE (\E i \in Id : WipeOne(i)) \/ WipeDone
  <2>1. WipeFirst /\ ~Clean /\ stage' \in {"wipe", "classify"}
    BY <1>5 DEF Kept, Restorable, WipeOne, WipeDone, Clean
  <2> QED
    BY <1>2, <1>3, <2>1 DEF Kept, RowsKept, Restorable
<1>6. CASE Classify
  <2>1. PICK c \in {cache, Imported(tenant)} : cache' = c /\ plan' = PlanOf(c)
    BY <1>6 DEF Classify
  <2>2. stage' = "settings" /\ UNCHANGED <<tenant, before>>
    BY <1>6 DEF Classify, hist
  <2>3. c \in Tenant
    BY ImportedTyped DEF TypeOK
  <2>4. ASSUME Clean
        PROVE  cache' = Imported(before) /\ tenant = before
    BY <1>1, <2>1, <2>4, Unwritten
  <2>5. \A n \in DOMAIN plan' : Identified(n) =>
          IF plan'[n] = None THEN Named(c, n) = {} ELSE c[plan'[n]] # None
    <3>1. \A n \in DOMAIN plan' :
            n \in DOMAIN Base /\ (Identified(n) => plan'[n] = FoundIn(c, n))
      BY <2>1, <2>3, PlanTyped DEF Identified
    <3> QED
      BY <2>3, <3>1, FoundInTyped
  <2>6. RowsKept'
    BY <1>2, <2>1, <2>2, <2>4, <2>5 DEF RowsKept, Imported, Named, Live
  <2>7. Restorable'
    BY <1>2, <2>2, <2>4 DEF Restorable, Changed
  <2> QED
    BY <1>3, <2>6, <2>7 DEF Kept
<1> QED
  BY <1>4, <1>5, <1>6

\* The passes over settings report nothing that a clean push has written.
LEMMA Preparing ==
  ASSUME TypeOK, Passes, Kept, Clean, stage = "settings"
  PROVE  tenant = before /\ Reimported = cache
<1>1. \A k \in DOMAIN records : ~Written(k)
  <2> SUFFICES ASSUME NEW k \in DOMAIN records, Written(k) PROVE FALSE
    OBVIOUS
  <2>1. Identified(records[k].name) /\ records[k].name \in Name
    BY RecordIs DEF Clean
  <2>2. records[k].name \in Settings(plan)
    BY <2>1 DEF Passes, Reported
  <2> QED
    BY <2>1, <2>2 DEF Settings, Identified
<1>2. Changed(Len(records)) /\ cache = Imported(before)
  BY DEF Kept, Restorable, RowsKept
<1>3. tenant = before
  <2>1. \A i \in Id : tenant[i] = before[i]
    BY <1>1, <1>2 DEF Changed, Tells
  <2> QED
    BY <2>1 DEF TypeOK, Tenant
<1>4. ASSUME NEW i \in Id
      PROVE  Reimported[i] = cache[i]
  <2>1. cache[i] = IF tenant[i] # None /\ Kind[tenant[i].name] = "unimported"
                     THEN None ELSE tenant[i]
    BY <1>2, <1>3, ImportedIs DEF TypeOK
  <2> QED
    BY <2>1 DEF Reimported
<1>5. Reimported \in [Id -> Object \cup {None}] /\ cache \in [Id -> Object \cup {None}]
  BY DEF Reimported, TypeOK, Tenant
<1> QED
  BY <1>3, <1>4, <1>5

LEMMA OverKept ==
  ASSUME TypeOK, Passes, Kept, Over
  PROVE  Kept'
<1>1. UNCHANGED <<tenant, plan, records, before, noise, unrolled>>
  BY DEF Over, SettingsOver, MatchOver, ManagedOver, PassAgain, NoProgress,
         PushDone, env, prep, undo, hist
<1>2. Clean' <=> Clean
  BY <1>1 DEF Clean, Written
<1>3. Changed(Len(records))' <=> Changed(Len(records))
  BY <1>1 DEF Changed, Tells, Written
<1>4. CASE PushDone
  BY <1>4 DEF PushDone, Kept, RowsKept, Undoes, Restorable
<1>5. CASE ~PushDone
  <2>1. /\ stage \in {"settings", "match", "managed", "users"}
        /\ stage' \in {"match", "managed", "users", "failing"}
    BY <1>5 DEF Over, SettingsOver, MatchOver, ManagedOver, PassAgain, NoProgress,
                PassOver, env
  <2>2. Clean => cache' = cache
    <3>1. CASE SettingsOver
      BY <3>1, Preparing DEF SettingsOver
    <3> QED
      BY <1>5, <3>1 DEF Over, MatchOver, ManagedOver, PassAgain, NoProgress, env
  <2>3. RowsKept'
    BY <1>1, <1>2, <2>1, <2>2 DEF Kept, RowsKept, Imported, Named, Live
  <2>4. Undoes'
    BY <1>1, <1>2, <2>1 DEF Kept, Undoes, Written, Imported
  <2>5. Restorable'
    BY <1>1, <1>2, <1>3, <2>1 DEF Kept, Restorable
  <2> QED
    BY <2>3, <2>4, <2>5 DEF Kept
<1> QED
  BY <1>4, <1>5

LEMMA MatchKept ==
  ASSUME TypeOK, Passes, Kept, NEW n \in Name, Match(n) \/ GiveUp(n)
  PROVE  Kept'
<1>1. /\ n \in todo /\ stage \in {"match", "failing"}
      /\ UNCHANGED <<tenant, cache, stage, back, snap, unrolled, before, noise>>
  BY DEF Match, GiveUp, env, undo, hist
<1>2. CASE UNCHANGED records /\ stage = "match"
           /\ \E i : plan' = [plan EXCEPT ![n] = i]
  <2>1. n \in Waiting(plan)
    BY <1>1, <1>2 DEF Passes
  <2>2. ~Identified(n)
    BY <2>1 DEF Waiting, Identified
  <2>3. /\ Clean' <=> Clean
        /\ Changed(Len(records))' <=> Changed(Len(records))
    BY <1>1, <1>2 DEF Clean, Written, Changed, Tells
  <2>4. /\ DOMAIN plan' = DOMAIN plan
        /\ \A m \in DOMAIN plan : Identified(m) => plan'[m] = plan[m]
    BY <1>2, <2>2
  <2>5. RowsKept'
    BY <1>1, <2>3, <2>4 DEF Kept, RowsKept, Imported, Named, Live
  <2>6. Undoes'
    BY <1>1, <1>2, <2>3 DEF Kept, Undoes, Written, Imported
  <2> QED
    BY <1>1, <2>3, <2>5, <2>6 DEF Kept, Restorable
<1>3. CASE UNCHANGED plan /\ \E s \in {"failed", "skipped"} : Recorded(n, s, None)
  <2>1. PICK s \in {"failed", "skipped"} : Notes(n, s, None)
    BY <1>3, RecordedDoes
  <2>2. PICK l \in Nat :
        /\ l = Len(records) + 1 /\ DOMAIN records = 1..Len(records)
        /\ DOMAIN records' = 1..l /\ Len(records') = l
        /\ \A k \in DOMAIN records : records'[k] = records[k]
        /\ records'[l].status = s
    BY <2>1, NotesAppend DEF TypeOK
  <2>3. /\ DOMAIN records' = DOMAIN records \cup {l}
        /\ \A k \in DOMAIN records : k <= Len(records')
    BY <2>2
  <2>4. ~Written(l)' /\ \A k \in DOMAIN records : Written(k)' <=> Written(k)
    BY <2>2 DEF Written
  <2>5. Clean' <=> Clean
    BY <1>1, <2>2, <2>3, <2>4 DEF Clean
  <2>6. Changed(Len(records)) => Changed(Len(records))'
    <3>1. ASSUME NEW i \in Id, NEW k \in DOMAIN records, Tells(k, i)
          PROVE  Tells(k, i)'
      BY <1>1, <2>2, <2>4, <3>1 DEF Tells
    <3> QED
      BY <1>1, <2>3, <3>1 DEF Changed
  <2>7. RowsKept'
    BY <1>1, <1>3, <2>5 DEF Kept, RowsKept, Imported, Named, Live
  <2>8. Undoes'
    BY <1>1, <2>2, <2>3, <2>4, <2>5 DEF Kept, Undoes, Imported
  <2> QED
    BY <1>1, <2>5, <2>6, <2>7, <2>8 DEF Kept, Restorable
<1> QED
  BY <1>2, <1>3 DEF Match, GiveUp, prep

\* An edit or an import ends a clean push, and no rule is provisioned in one.
LEMMA OthersKept ==
  ASSUME TypeOK, Kept, Stop \/ RequestCancel \/ Crash \/ Meanwhile
  PROVE  Kept'
<1>1. UNCHANGED <<plan, remap, known, records, unrolled, before>>
  BY DEF Stop, RequestCancel, Crash, Meanwhile, Edit, Edited, Provision,
         OtherImport, prep, undo, hist
<1>2. CASE Crash
  BY <1>2 DEF Crash, Kept, RowsKept, Undoes, Restorable
<1>3. CASE Edit \/ OtherImport
  <2>1. ~Clean' /\ UNCHANGED <<stage, back>>
    BY <1>3 DEF Edit, Edited, OtherImport, Clean, undo
  <2> QED
    BY <2>1 DEF Kept, RowsKept, Undoes, Restorable
<1>4. CASE Stop \/ RequestCancel \/ Provision
  <2>1. UNCHANGED <<cache, noise>>
    BY <1>4 DEF Stop, RequestCancel, Provision, env, hist
  <2>2. Clean' <=> Clean
    BY <1>1, <2>1 DEF Clean, Written
  <2>3. Undoes'
    BY <1>1, <1>4, <2>2
       DEF Stop, RequestCancel, Provision, Pushing, Kept, Undoes, Written, Imported
  <2>4. RowsKept'
    BY <1>1, <1>4, <2>1, <2>2
       DEF Stop, RequestCancel, Provision, Pushing, undo, Kept, RowsKept, Imported,
           Named, Live
  <2>5. Restorable'
    <3>1. CASE Stop
      <4>1. Changed(back)' <=> Changed(Len(records))
        BY <1>1, <3>1 DEF Stop, env, Changed, Tells, Written
      <4> QED
        BY <2>2, <3>1, <4>1 DEF Stop, Pushing, Kept, Restorable
    <3>2. CASE RequestCancel
      <4>1. /\ UNCHANGED <<tenant, stage, back, snap>>
            /\ Changed(back)' <=> Changed(back)
            /\ Changed(Len(records))' <=> Changed(Len(records))
        BY <1>1, <3>2 DEF RequestCancel, env, undo, Changed, Tells, Written
      <4>2. \A k : Undoable(k)' <=> Undoable(k)
        BY <1>1, <4>1 DEF Undoable, Written, Build, MapId
      <4> QED
        BY <1>1, <2>2, <4>1, <4>2 DEF Kept, Restorable
    <3>3. CASE Provision
      <4>1. PICK s \in Id : /\ Kind[tenant[s].name] = "settings" /\ tenant[s] # None
                            /\ tenant[s] # before[s]
        BY <3>3 DEF Provision, Live
      <4>2. UNCHANGED <<stage, back, snap>>
        BY <3>3 DEF Provision, undo
      <4>3. \A k : Undoable(k)' <=> Undoable(k)
        BY <1>1, <4>2 DEF Undoable, Written, Build, MapId
      <4>4. ASSUME Clean, NEW last, Changed(last)
            PROVE  FALSE
        <5>1. PICK k \in DOMAIN records : Tells(k, s)
          BY <4>1, <4>4 DEF Changed
        <5>2. Identified(tenant[s].name)
          BY <4>1, <4>4, <5>1 DEF Clean, Tells
        <5> QED
          BY <4>1, <5>2 DEF Identified
      <4> QED
        BY <1>1, <2>2, <4>2, <4>3, <4>4 DEF Kept, Restorable
    <3> QED
      BY <1>4, <3>1, <3>2, <3>3
  <2> QED
    BY <2>3, <2>4, <2>5 DEF Kept
<1> QED
  BY <1>2, <1>3, <1>4 DEF Meanwhile

\* Undoing the last record leaves what the records before it tell.
LEMMA UndoKept ==
  ASSUME TypeOK, Kept, Undo
  PROVE  Kept'
<1>1. /\ stage = "rollback" /\ stage' \in {"rollback", "cancelled"}
      /\ stage' = "cancelled" => UNCHANGED <<back, tenant>> /\ back = 0
      /\ UNCHANGED <<cache, plan, remap, known, records, snap, before, noise>>
  BY DEF Undo, UndoCreate, UndoUpdate, UndoNothing, UndoDone, Undoing, env,
         prep, undo, hist
<1>2. Clean' <=> Clean
  BY <1>1 DEF Clean, Written
<1>3. \A k : Undoable(k)' <=> Undoable(k)
  BY <1>1 DEF Undoable, Written, Build, MapId
<1>4. RowsKept' /\ Undoes'
  BY <1>1, <1>2 DEF Kept, RowsKept, Undoes, Imported, Named, Live, Written
<1>5. ASSUME Clean, ~unrolled', \A k \in DOMAIN records : Undoable(k)
      PROVE  Changed(back)'
  <2>1. /\ ~unrolled
        /\ snap = Imported(before)
    BY <1>1, <1>5 DEF Kept, RowsKept, Undo, UndoCreate, UndoUpdate, UndoNothing,
                      UndoDone, undo
  <2>2. Changed(back)
    BY <1>1, <1>5, <2>1 DEF Kept, Restorable
  <2>3. \A k \in DOMAIN records : k \in Nat
    BY RecordIs
  <2>4. back \in Nat /\ (back > 0 => back \in DOMAIN records)
    BY DEF TypeOK
  <2>5. ASSUME back > 0, back' = back - 1,
               \A j \in Id : \/ tenant'[j] = before[j]
                             \/ tenant'[j] = tenant[j] /\ ~Tells(back, j)
        PROVE  Changed(back)'
    <3>1. ASSUME NEW j \in Id, tenant'[j] # before[j]
          PROVE  \E k \in DOMAIN records' : k <= back' /\ Tells(k, j)'
      <4>1. tenant'[j] = tenant[j] /\ ~Tells(back, j)
        BY <2>5, <3>1
      <4>2. PICK k \in DOMAIN records : k <= back /\ Tells(k, j)
        BY <2>2, <3>1, <4>1 DEF Changed
      <4>3. k # back /\ k <= back - 1
        BY <2>3, <2>4, <4>1, <4>2
      <4>4. Tells(k, j)'
        BY <1>1, <4>1, <4>2 DEF Tells, Written
      <4> QED
        BY <1>1, <2>5, <4>3, <4>4
    <3> QED
      BY <1>1, <3>1 DEF Changed
  <2>6. CASE UndoCreate
    <3> DEFINE i == records[back].id
    <3>1. /\ back > 0 /\ back' = back - 1
          /\ i # None /\ records[back].status = "created"
      BY <2>6 DEF UndoCreate, Undoing
    <3>2. Written(back) /\ i \in Id /\ before[i] = None
      BY <1>1, <1>5, <2>4, <3>1 DEF Written, Kept, Undoes
    <3>3. Kind[records[back].name] # "proxy"
      BY <1>5, <2>4, <3>1, <3>2 DEF Undoable
    <3>4. tenant' = [tenant EXCEPT ![i] = None]
      BY <1>5, <2>6, <3>3 DEF UndoCreate
    <3> HIDE DEF i
    <3>5. \A j \in Id : j # i => ~Tells(back, j)
      BY DEF Tells, i
    <3>6. \A j \in Id : \/ tenant'[j] = before[j]
                        \/ tenant'[j] = tenant[j] /\ ~Tells(back, j)
      BY <3>2, <3>4, <3>5 DEF TypeOK, Tenant
    <3> QED
      BY <2>5, <3>1, <3>6
  <2>7. CASE UndoUpdate
    <3> DEFINE i == records[back].id
               p == Build(snap[i], remap, known)
    <3>1. /\ back > 0 /\ back' = back - 1
          /\ i # None /\ records[back].status = "updated"
      BY <2>7 DEF UndoUpdate, Undoing
    <3>2. Written(back) /\ i \in Id /\ snap[i] # None
      BY <1>1, <1>5, <2>1, <2>4, <3>1 DEF Written, Kept, Undoes
    <3>3. snap[i] = before[i]
      BY <2>1, <3>2, ImportedIs DEF TypeOK
    <3>4. p = snap[i]
      BY <1>5, <2>4, <3>1, <3>2 DEF Undoable
    <3>5. tenant' = [tenant EXCEPT ![i] = p]
      BY <1>5, <2>7, <3>2 DEF UndoUpdate
    <3>6. tenant' = [tenant EXCEPT ![i] = before[i]]
      BY <3>3, <3>4, <3>5
    <3> HIDE DEF i
    <3>7. \A j \in Id : j # i => ~Tells(back, j)
      BY DEF Tells, i
    <3>8. \A j \in Id : \/ tenant'[j] = before[j]
                        \/ tenant'[j] = tenant[j] /\ ~Tells(back, j)
      BY <3>2, <3>6, <3>7 DEF TypeOK, Tenant
    <3> QED
      BY <2>5, <3>1, <3>8
  <2>8. CASE UndoNothing
    <3>1. /\ back > 0 /\ back' = back - 1 /\ UNCHANGED tenant
          /\ \/ records[back].id = None
             \/ records[back].status \notin {"created", "updated"}
      BY <2>8 DEF UndoNothing, env
    <3>2. ~Written(back)
      <4>1. Written(back) => records[back].id \in Id
        BY <1>1, <1>5, <2>4, <3>1 DEF Kept, Undoes
      <4> QED
        BY <3>1, <4>1, NoneAssumption DEF Written
    <3> QED
      BY <2>5, <3>1, <3>2 DEF Tells
  <2>9. CASE UndoDone
    BY <1>1, <2>2, <2>9 DEF UndoDone, env, undo, Changed, Tells, Written
  <2> QED
    BY <2>6, <2>7, <2>8, <2>9 DEF Undo
<1>6. Restorable'
  BY <1>1, <1>2, <1>3, <1>5 DEF Restorable
<1> QED
  BY <1>4, <1>6 DEF Kept
-----------------------------------------------------------------------------
\* The invariant.
IInv == TypeOK /\ Once /\ Passes /\ Own /\ Kept

LEMMA InitInv == Init => IInv
<1> SUFFICES ASSUME Init PROVE IInv
  OBVIOUS
<1>1. tenant \in Tenant /\ Imported(tenant) \in Tenant
  BY TenantsAssumption, ImportedTyped DEF Init
<1>2. records = <<>> /\ records \in Seq(PushRecord) /\ Len(records) = 0
      /\ DOMAIN records = {}
  BY DEF Init
<1>3. DOMAIN remap = {} /\ DOMAIN plan = {}
  BY DEF Init
<1>4. TypeOK
  <2>1. {tenant, cache, snap, before} \subseteq Tenant /\ used \in SUBSET Id
    BY <1>1 DEF Init, Live
  <2>2. back \in 0..Len(records) /\ edits \in 0..MaxEdits /\ imports \in 0..MaxImports
    BY <1>2, ModeAssumption DEF Init
  <2>3. cancel \in BOOLEAN /\ unrolled \in BOOLEAN
    BY Zenon DEF Init
  <2>4. todo = {} /\ retry = {} /\ prev = 0 /\ noise = {} /\ made = {} /\ wipes = {}
        /\ known = {} /\ stage = "idle"
    BY DEF Init
  <2> QED
    BY <1>2, <1>3, <2>1, <2>2, <2>3, <2>4 DEF TypeOK, Stages
<1>5. Once /\ Passes
  BY <1>2 DEF Init, Once, Passes, Reported
<1>6. Own
  BY <1>2 DEF Init, Own
<1>7. RowsKept /\ Undoes /\ Restorable
  BY <1>2 DEF Init, RowsKept, Undoes, Restorable, Changed
<1> QED
  BY <1>4, <1>5, <1>6, <1>7 DEF IInv, Kept

\* The steps, by what they change.
Start == Begin \/ (\E i \in Id : WipeOne(i)) \/ WipeDone \/ Classify

LEMMA Steps ==
  Next => \/ Start
          \/ \E n \in Name : Push(n)
          \/ \E n \in Name : Match(n) \/ GiveUp(n)
          \/ Over \/ Undo
          \/ Stop \/ RequestCancel \/ Crash \/ Meanwhile
BY Zenon DEF Next, Job, Start, Push, Over, Undo, Meanwhile

LEMMA NextInv == IInv /\ [Next]_vars => IInv'
<1> SUFFICES ASSUME IInv, [Next]_vars PROVE IInv'
  OBVIOUS
<1>1. TypeOK /\ Once /\ Passes /\ Own /\ Kept
  BY DEF IInv
<1>2. CASE Start
  <2>1. TypeOK' /\ Own' /\ Kept'
    BY <1>1, <1>2, StartTyped, RestOwn, StartKept DEF Start
  <2>2. Once' /\ Passes'
    <3>1. CASE Classify
      BY <1>1, <3>1, ClassifyReports
    <3>2. CASE Begin \/ (\E i \in Id : WipeOne(i)) \/ WipeDone
      <4>1. UNCHANGED <<plan, todo, retry, records>>
        BY <3>2 DEF Begin, WipeOne, WipeDone, prep, pass
      <4>2. \/ UNCHANGED stage
            \/ stage = "idle" /\ stage' \in {"wipe", "classify"}
            \/ stage = "wipe" /\ stage' = "classify"
        BY <3>2 DEF Begin, WipeOne, WipeDone
      <4> QED
        BY <1>1, <4>1, <4>2, OthersReport
    <3> QED
      BY <1>2, <3>1, <3>2 DEF Start
  <2> QED
    BY <2>1, <2>2 DEF IInv
<1>3. ASSUME NEW n \in Name, Push(n)
      PROVE  IInv'
  BY <1>1, <1>3, PushTyped, PushReports, PutsOwn, PushKept DEF IInv
<1>4. ASSUME NEW n \in Name, Match(n) \/ GiveUp(n)
      PROVE  IInv'
  BY <1>1, <1>4, MatchTyped, MatchReports, MatchOwn, MatchKept DEF IInv
<1>5. CASE Over
  BY <1>1, <1>5, OverTyped, OverReports, RestOwn, OverKept DEF IInv
<1>6. CASE Undo \/ Stop \/ RequestCancel \/ Crash \/ Meanwhile
  <2>1. TypeOK' /\ Own' /\ Kept'
    BY <1>1, <1>6, UndoTyped, OthersTyped, RestOwn, UndoKept, OthersKept
  <2>2. UNCHANGED <<plan, todo, retry, records>>
    BY <1>6 DEF Undo, UndoCreate, UndoUpdate, UndoNothing, UndoDone, Undoing,
                Stop, RequestCancel, Crash, Meanwhile, Edit, Edited, Provision,
                OtherImport, prep, pass
  <2>3. UNCHANGED stage \/ stage' \in {"rollback", "cancelled", "gone"}
    BY <1>6 DEF Undo, UndoCreate, UndoUpdate, UndoNothing, UndoDone, Undoing,
                Stop, RequestCancel, Crash, Meanwhile, Edit, Edited, Provision,
                OtherImport
  <2> QED
    BY <1>1, <2>1, <2>2, <2>3, OthersReport DEF IInv
<1>7. CASE UNCHANGED vars
  <2>1. \A k : Undoable(k)' <=> Undoable(k)
    BY <1>7 DEF vars, prep, undo, Undoable, Written, Build, MapId
  <2>2. TypeOK' /\ Own'
    BY <1>1, <1>7 DEF TypeOK, Own, Live, vars, env, prep, pass, undo, hist
  <2>3. Once' /\ Passes'
    BY <1>1, <1>7, OthersReport DEF vars, prep, pass
  <2>4. Clean' <=> Clean
    BY <1>7 DEF vars, hist, Clean, Written
  <2>5. RowsKept' /\ Undoes'
    BY <1>1, <1>7, <2>4 DEF vars, env, prep, undo, hist, Kept, RowsKept, Undoes,
                            Imported, Named, Live, Written
  <2>6. \A l : Changed(l)' <=> Changed(l)
    BY <1>7 DEF vars, env, hist, Changed, Tells, Written
  <2>7. Restorable'
    BY <1>1, <1>7, <2>1, <2>4, <2>6 DEF vars, undo, Kept, Restorable
  <2> QED
    BY <2>2, <2>3, <2>5, <2>7 DEF IInv, Kept
<1> QED
  BY <1>2, <1>3, <1>4, <1>5, <1>6, <1>7, Steps

LEMMA Invariant == Spec => []IInv
<1> QED
  BY InitInv, NextInv, PTL DEF Spec
-----------------------------------------------------------------------------
\* Every variable has the type that its name and the code give it.
THEOREM TypeCorrect == Spec => []TypeOK
<1>1. IInv => TypeOK
  BY DEF IInv
<1> QED
  BY <1>1, Invariant, PTL

\* However often a user entry is retried it is reported once, and a push that
\* ends has reported each that was pending (push_classified's passes and its
\* final "no progress" failures).
THEOREM ReportedOnce == Spec => []UserEntriesReported
<1>1. IInv => UserEntriesReported
  <2> SUFFICES ASSUME IInv PROVE UserEntriesReported
    OBVIOUS
  <2>1. ASSUME NEW n \in Name
        PROVE  Cardinality(RecordsOf(n)) <= 1
    <3>1. CASE RecordsOf(n) = {}
      BY <3>1, FS_EmptySet
    <3>2. CASE RecordsOf(n) # {}
      <4>1. PICK k \in RecordsOf(n) : RecordsOf(n) = {k}
        BY <3>2 DEF IInv, Once, RecordsOf
      <4>2. Cardinality({k}) = 1
        BY FS_Singleton
      <4>3. Cardinality(RecordsOf(n)) = 1
        BY <4>1, <4>2, Zenon
      <4> QED
        BY <4>3
    <3> QED
      BY <3>1, <3>2
  <2>2. stage = "done" => \A n \in Users(plan) : RecordsOf(n) # {}
    BY DEF IInv, Passes, Reported, RecordsOf
  <2> QED
    BY <2>1, <2>2 DEF UserEntriesReported
<1> QED
  BY <1>1, Invariant, PTL

\* A cancelled delta push leaves the tenant exactly as it found it, if nobody
\* else wrote, no answer was lost, no undo failed and the records say what to
\* undo (_PushCancelled's records, rollback_pushed).
THEOREM Restores == Spec => []RollbackRestores
<1>1. IInv => RollbackRestores
  <2> SUFFICES ASSUME IInv, stage = "cancelled", noise = {}, ~WipeFirst, ~unrolled,
                      \A k \in DOMAIN records : Undoable(k)
               PROVE  tenant = before
    BY DEF RollbackRestores
  <2>1. Clean
    BY DEF Clean, Undoable
  <2>2. Changed(0)
    BY <2>1 DEF IInv, Kept, Restorable
  <2>3. \A k \in DOMAIN records : ~(k <= 0)
    BY RecordIs DEF IInv
  <2>4. \A i \in Id : tenant[i] = before[i]
    BY <2>2, <2>3 DEF Changed
  <2> QED
    BY <2>4 DEF IInv, TypeOK, Tenant
<1> QED
  BY <1>1, Invariant, PTL

\* Whatever others do meanwhile, a rollback deletes only objects that this push
\* created (_push_one's remaps and records, _rollback_delete).
THEOREM DeletesOwn == Spec => RollbackDeletesOwn
<1> DEFINE A == \A i \in Id :
                  /\ back' # back /\ stage' = "rollback" /\ stage = "rollback"
                  /\ tenant[i] # None /\ tenant'[i] = None
                  => i \in made
<1>1. IInv /\ [Next]_vars => [A]_vars
  <2> SUFFICES ASSUME IInv, Next, NEW i \in Id,
                      back' # back, stage' = "rollback", stage = "rollback",
                      tenant[i] # None, tenant'[i] = None
               PROVE  i \in made
    OBVIOUS
  <2>1. TypeOK
    BY DEF IInv
  <2>2. UndoCreate \/ UndoUpdate
    <3>1. ~Start /\ ~Over /\ \A n \in Name : ~Push(n) /\ ~Match(n) /\ ~GiveUp(n)
      BY <2>1, PushDoes
         DEF Start, Begin, WipeOne, WipeDone, Classify, Over, SettingsOver,
             MatchOver, ManagedOver, PassAgain, NoProgress, PushDone, PassOver,
             Pushing, Match, GiveUp
    <3>2. ~Stop /\ ~RequestCancel /\ ~Crash /\ ~Meanwhile
      BY DEF Stop, RequestCancel, Crash, Meanwhile, Edit, Edited, Provision,
             OtherImport, undo, Pushing
    <3>3. ~UndoNothing /\ ~UndoDone
      BY DEF UndoNothing, UndoDone, env, undo
    <3> QED
      BY <3>1, <3>2, <3>3, Steps DEF Undo
  <2>3. back \in DOMAIN records /\ records[back].id # None
    BY <2>1, <2>2 DEF UndoCreate, UndoUpdate, Undoing, TypeOK
  <2>4. records[back].id \in Id
    BY <2>1, <2>3, RecordIs
  <2>5. CASE UndoCreate
    <3>1. i = records[back].id
      BY <2>1, <2>5 DEF UndoCreate, TypeOK, Tenant
    <3> QED
      BY <2>3, <2>5, <3>1 DEF UndoCreate, Undoing, IInv, Own
  <2>6. CASE UndoUpdate
    <3> DEFINE j == records[back].id
               p == Build(snap[j], remap, known)
    <3>1. \/ UNCHANGED tenant
          \/ snap[j] # None /\ tenant' = [tenant EXCEPT ![j] = p]
      BY <2>6, Zenon DEF UndoUpdate
    <3>2. snap[j] # None => p \in Object
      BY <2>1, <2>4, BuildTyped, MapsTyped DEF TypeOK, Tenant
    <3> HIDE DEF j, p
    <3> QED
      BY <2>1, <3>1, <3>2, NoneAssumption DEF TypeOK, Tenant
  <2> QED
    BY <2>2, <2>5, <2>6
<1> QED
  BY <1>1, Invariant, PTL DEF Spec, RollbackDeletesOwn

-----------------------------------------------------------------------------
(* What stands enabled for everybody.                                      *)

\* Until the push ends or rolls back, what is wide in the tenant or its rows
\* was found wide; so are the rows a rollback starts from; and before the push
\* the rows know of nothing wide that the tenant has narrowed.
Ended == stage \in {"rollback", "cancelled", "gone"}
Narrow ==
  /\ made \cup Live(cache) \subseteq used
  /\ stage = "idle" =>
       /\ made = {}
       /\ \A i \in Id : Wide(cache[i]) => tenant[i] = None \/ Wide(tenant[i])
  /\ ~Ended => \A i \in Id : Wide(tenant[i]) \/ Wide(cache[i]) => FoundWide(i)
  /\ stage = "rollback" => \A i \in Id : Wide(snap[i]) => FoundWide(i)
  /\ PushNeverWidens

\* A payload is not wide, whatever the maps know.
LEMMA PayloadNarrow ==
  ASSUME TypeOK, NEW n \in DOMAIN Base
  PROVE  Payload(n) \in Object /\ ~Wide(Payload(n))
BY PayloadTyped, MapsTyped DEF Wide, Limited

\* A step that leaves every object as wide as it was, or removes it, or adds one
\* of its own, and that takes rows from the tenant only.
Widths ==
  \A i \in Id : \/ i \notin used \/ tenant'[i] = None
                \/ tenant[i] # None /\ (Wide(tenant'[i]) <=> Wide(tenant[i]))
Rows == \A i \in Id : cache'[i] \in {cache[i], tenant[i], None}

LEMMA NarrowStays ==
  ASSUME TypeOK, Own, Narrow, UNCHANGED <<before, made>>, used \subseteq used',
         Widths, Rows,
         \/ ~Ended /\ ~Ended' /\ stage' # "idle"
         \/ UNCHANGED <<stage, cache, snap, remap, known>>
         \/ ~Ended /\ Ended' /\ (stage' = "rollback" => snap' = cache)
         \/ Ended /\ Ended' /\ UNCHANGED <<snap, remap, known>>
            /\ (stage' = "rollback" => stage = "rollback")
  PROVE  Narrow'
<1>1. made' \cup Live(cache)' \subseteq used'
  BY DEF Narrow, Rows, Own, Live
<1>2. \A i \in Id : FoundWide(i)' <=> FoundWide(i)
  BY DEF FoundWide
<1>3. \A i \in Id : i \notin used => cache[i] = None /\ FoundWide(i)
  BY DEF Narrow, Own, Live, FoundWide
<1>4. ~Wide(None)
  BY DEF Wide
<1>5. (stage = "idle")' =>
        /\ made' = {}
        /\ \A i \in Id : Wide(cache'[i]) => tenant'[i] = None \/ Wide(tenant'[i])
  <2> SUFFICES ASSUME stage' = "idle" PROVE made' = {} /\
        \A i \in Id : Wide(cache'[i]) => tenant'[i] = None \/ Wide(tenant'[i])
    OBVIOUS
  <2>1. stage = "idle" /\ UNCHANGED cache
    BY DEF Ended
  <2> QED
    BY <1>3, <1>4, <2>1 DEF Narrow, Widths
<1>6. ASSUME ~Ended', NEW i \in Id, Wide(tenant'[i]) \/ Wide(cache'[i])
      PROVE  FoundWide(i)
  <2>1. ~Ended
    BY <1>6 DEF Ended
  <2>2. i \notin used \/ Wide(tenant[i]) \/ Wide(cache[i])
    BY <1>4, <1>6 DEF Widths, Rows
  <2> QED
    BY <1>3, <2>1, <2>2 DEF Narrow
<1>7. ASSUME stage' = "rollback", NEW i \in Id, Wide(snap'[i])
      PROVE  FoundWide(i)
  <2>1. CASE ~Ended
    <3>1. snap' = cache
      BY <1>7, <2>1 DEF Ended
    <3> QED
      BY <1>7, <2>1, <3>1 DEF Narrow
  <2>2. CASE Ended
    <3>1. stage = "rollback" /\ UNCHANGED snap
      BY <1>7, <2>2 DEF Ended
    <3> QED
      BY <1>7, <3>1 DEF Narrow
  <2> QED
    BY <2>1, <2>2
<1>8. ASSUME NEW i \in Id, Wide(tenant'[i])
      PROVE  FoundWide(i) \/ UndoneWide(i)'
  <2>1. i \in used => Wide(tenant[i])
    BY <1>4, <1>8 DEF Widths
  <2>2. CASE UndoneWide(i) /\ UNCHANGED <<snap, remap, known>> /\ Ended'
    BY <2>2 DEF UndoneWide, Ended, Build, MapId
  <2>3. UndoneWide(i) => UNCHANGED <<snap, remap, known>> /\ Ended'
    BY DEF UndoneWide, Ended
  <2> QED
    BY <1>3, <2>1, <2>2, <2>3 DEF Narrow, PushNeverWidens
<1> QED
  BY <1>1, <1>2, <1>5, <1>6, <1>7, <1>8 DEF Narrow, PushNeverWidens

\* One entry of a pass.
LEMMA PushNarrow ==
  ASSUME TypeOK, Own, Narrow, NEW n \in Name, Push(n)
  PROVE  Narrow'
<1>1. /\ Pushing /\ n \in DOMAIN Base /\ Puts(n)
      /\ UNCHANGED <<cache, stage, snap, before>>
  BY PushDoes
<1>2. ~Ended /\ ~Ended' /\ stage' # "idle" /\ stage' # "rollback"
  BY <1>1 DEF Pushing, Ended
<1>3. Payload(n) \in Object /\ ~Wide(Payload(n))
  BY <1>1, PayloadNarrow
<1>4. /\ used \subseteq used' /\ made' \ made \subseteq used' \ used
      /\ \A i \in Id : /\ Wide(tenant'[i]) => Wide(tenant[i])
                       /\ i \in made' \ made => ~Wide(tenant'[i])
  <2>1. CASE \E i \in Id : Updates(n, i)
    BY <1>3, <2>1 DEF Updates, TypeOK, Tenant
  <2>2. CASE \E i \in Id : Creates(n, i)
    BY <1>3, <2>2 DEF Creates, TypeOK, Tenant
  <2>3. CASE UNCHANGED <<tenant, used, made>>
    BY <2>3
  <2> QED
    BY <1>1, <2>1, <2>2, <2>3 DEF Puts
<1>5. made' \cup Live(cache)' \subseteq used'
  BY <1>1, <1>4 DEF Narrow, Live
<1>6. ASSUME NEW i \in Id, Wide(tenant'[i]) \/ Wide(cache'[i])
      PROVE  FoundWide(i)'
  <2>1. cache'[i] # None => i \in used
    BY <1>1 DEF Narrow, Live
  <2>2. Wide(cache'[i]) => cache'[i] # None
    BY DEF Wide
  <2>3. FoundWide(i) /\ i \notin made' \ made
    BY <1>1, <1>2, <1>4, <1>6, <2>1, <2>2 DEF Narrow
  <2> QED
    BY <1>1, <2>3 DEF FoundWide
<1> QED
  BY <1>2, <1>5, <1>6 DEF Narrow, PushNeverWidens, Ended

\* The push begins: what the tenant has now is what it is compared with.
LEMMA BeginNarrow ==
  ASSUME TypeOK, Own, Narrow, Begin
  PROVE  Narrow'
<1>1. /\ stage = "idle" /\ stage' \in {"wipe", "classify"} /\ before' = tenant
      /\ cache' \in {cache, Imported(tenant)} /\ UNCHANGED <<tenant, used, made>>
  BY DEF Begin, hist
<1>2. made = {} /\ ~Wide(None)
  BY <1>1 DEF Narrow, Wide
<1>3. Rows
  BY <1>1 DEF Rows, Imported
<1>4. made' \cup Live(cache)' \subseteq used'
  BY <1>1, <1>3 DEF Narrow, Rows, Own, Live
<1>5. \A i \in Id : Wide(tenant'[i]) \/ Wide(cache'[i]) => FoundWide(i)'
  BY <1>1, <1>2, <1>3 DEF Rows, Narrow, FoundWide
<1> QED
  BY <1>1, <1>4, <1>5 DEF Narrow, PushNeverWidens, Ended

\* An undo puts a row back, which is wide only if it was found so or if the
\* push knows nothing of its scope.
LEMMA UndoNarrow ==
  ASSUME TypeOK, Own, Narrow, Undo
  PROVE  Narrow'
<1>1. /\ stage = "rollback" /\ stage' \in {"rollback", "cancelled"}
      /\ UNCHANGED <<cache, used, made, before, snap, remap, known>>
  BY DEF Undo, UndoCreate, UndoUpdate, UndoNothing, UndoDone, Undoing, env,
         prep, undo, hist
<1>2. Ended /\ Ended' /\ Rows /\ ~Wide(None)
  BY <1>1 DEF Ended, Rows, Wide
<1>3. CASE UndoNothing \/ UndoDone
  <2>1. UNCHANGED tenant /\ Widths
    BY <1>3 DEF UndoNothing, UndoDone, env, Widths
  <2> QED
    BY <1>1, <1>2, <2>1, NarrowStays
<1>4. CASE UndoCreate
  <2>1. \A i \in Id : tenant'[i] \in {tenant[i], None}
    BY <1>4 DEF UndoCreate, TypeOK, Tenant
  <2>2. Widths
    BY <2>1 DEF Widths
  <2> QED
    BY <1>1, <1>2, <2>2, NarrowStays
<1>5. CASE UndoUpdate
  <2> DEFINE j == records[back].id
             p == Build(snap[j], remap, known)
  <2>1. back \in DOMAIN records /\ j # None
    BY <1>5 DEF UndoUpdate, Undoing, TypeOK
  <2>2. j \in Id
    BY <2>1, RecordIs
  <2>3. \/ UNCHANGED tenant
        \/ snap[j] # None /\ tenant' = [tenant EXCEPT ![j] = p]
    BY <1>5, Zenon DEF UndoUpdate
  <2>4. CASE UNCHANGED tenant
    <3>1. Widths
      BY <2>4 DEF Widths
    <3> QED
      BY <1>1, <1>2, <3>1, NarrowStays
  <2>5. CASE snap[j] # None /\ tenant' = [tenant EXCEPT ![j] = p]
    <3>1. p.name = snap[j].name /\ p.on = snap[j].on
      BY <2>2, <2>5, BuildTyped, MapsTyped DEF TypeOK, Tenant
    <3>2. Wide(p) => Wide(snap[j]) \/ (snap[j].scope # {} /\ p.scope = {})
      BY <2>5, <3>1 DEF Wide
    <3>3. \A i \in Id : (UndoneWide(i)' <=> UndoneWide(i))
                        /\ (FoundWide(i)' <=> FoundWide(i))
      BY <1>1 DEF UndoneWide, FoundWide
    <3>4. snap[j].scope # {} /\ p.scope = {} => UndoneWide(j)
      BY <1>1, <2>5 DEF UndoneWide
    <3>5. \A i \in Id \ {j} : tenant'[i] = tenant[i]
      BY <2>5 DEF TypeOK, Tenant
    <3>6. tenant'[j] = p
      BY <2>2, <2>5 DEF TypeOK, Tenant
    <3> HIDE DEF j, p
    <3>7. \A i \in Id : Wide(tenant'[i]) => FoundWide(i)' \/ UndoneWide(i)'
      BY <1>1, <2>2, <3>2, <3>3, <3>4, <3>5, <3>6 DEF Narrow, PushNeverWidens
    <3>8. made' \cup Live(cache)' \subseteq used'
      BY <1>1 DEF Narrow, Live
    <3>9. \A i \in Id : Wide(snap'[i]) => FoundWide(i)'
      BY <1>1, <3>3 DEF Narrow
    <3> QED
      BY <1>1, <1>2, <3>7, <3>8, <3>9 DEF Narrow, PushNeverWidens
  <2> QED
    BY <2>3, <2>4, <2>5
<1> QED
  BY <1>3, <1>4, <1>5 DEF Undo

\* What others do: an object they change keeps its scope and its state, and one
\* they add has an id of its own.
LEMMA OthersNarrow ==
  ASSUME TypeOK, Own, Narrow, Stop \/ RequestCancel \/ Crash \/ Meanwhile
  PROVE  Narrow'
<1>1. CASE Stop \/ RequestCancel \/ Crash
  <2>1. UNCHANGED <<tenant, used, cache, before, made, remap, known>>
    BY <1>1 DEF Stop, RequestCancel, Crash, env, prep, hist
  <2>2. Widths /\ Rows
    BY <2>1 DEF Widths, Rows
  <2>3. CASE Stop
    <3>1. ~Ended /\ Ended' /\ snap' = cache
      BY <2>3 DEF Stop, Pushing, Ended
    <3> QED
      BY <2>1, <2>2, <3>1, NarrowStays
  <2>4. CASE RequestCancel
    <3>1. UNCHANGED <<stage, snap>>
      BY <2>4 DEF RequestCancel, undo
    <3> QED
      BY <2>1, <2>2, <3>1, NarrowStays
  <2>5. CASE Crash
    <3>1. Ended' /\ stage' # "rollback" /\ UNCHANGED snap
      BY <2>5 DEF Crash, Ended, undo
    <3> QED
      BY <2>1, <2>2, <3>1, NarrowStays
  <2> QED
    BY <1>1, <2>3, <2>4, <2>5
<1>2. CASE OtherImport
  <2>1. /\ UNCHANGED <<tenant, used, stage, snap, remap, known, before, made>>
        /\ stage # "idle" /\ cache' = Imported(tenant)
    BY <1>2 DEF OtherImport, Running, prep, undo
  <2>2. Widths /\ Rows
    BY <2>1 DEF Widths, Rows, Imported
  <2>3. Ended' <=> Ended
    BY <2>1 DEF Ended
  <2> QED
    BY <2>1, <2>2, <2>3, NarrowStays
<1>3. CASE Edit \/ Provision
  <2>1. UNCHANGED <<cache, stage, snap, remap, known, before, made>>
    <3>1. (\E t : Edited(t)) \/ Provision
      BY <1>3 DEF Edit
    <3> QED
      BY <3>1, Zenon DEF Edited, Provision, prep, undo, hist
  <2>2. Rows
    BY <2>1 DEF Rows
  <2>3. used \subseteq used' /\ Widths
    <3>1. CASE \E i \in Live(tenant), c \in Cfg :
                 Edited([tenant EXCEPT ![i].cfg = c]) /\ UNCHANGED used
      <4>1. PICK i \in Live(tenant), c \in Cfg :
              Edited([tenant EXCEPT ![i].cfg = c]) /\ UNCHANGED used
        BY <3>1
      <4>2. tenant[i] \in Object /\ tenant[i] # None /\ i \in Id
        BY DEF TypeOK, Tenant, Live
      <4>3. /\ tenant'[i] = [tenant[i] EXCEPT !.cfg = c]
            /\ \A j \in Id \ {i} : tenant'[j] = tenant[j]
        BY <4>1, <4>2 DEF Edited, TypeOK, Tenant
      <4>4. [tenant[i] EXCEPT !.cfg = c] \in Object
        BY <4>2 DEF Object
      <4>5. Wide([tenant[i] EXCEPT !.cfg = c]) <=> Wide(tenant[i])
        BY <4>2, <4>4, NoneAssumption DEF Wide, Object
      <4> QED
        BY <4>1, <4>2, <4>3, <4>5 DEF Widths
    <3>2. CASE \E i \in Live(tenant) :
                 Edited([tenant EXCEPT ![i] = None]) /\ UNCHANGED used
      BY <3>2 DEF Edited, Widths, TypeOK, Tenant
    <3>3. CASE \E i \in Fresh \ used : \E o :
                 Edited([tenant EXCEPT ![i] = o]) /\ used' = used \cup {i}
      BY <3>3 DEF Edited, Widths, TypeOK, Tenant
    <3>4. CASE Provision
      BY <3>4 DEF Provision, Widths, TypeOK, Tenant
    <3> QED
      BY <1>3, <3>1, <3>2, <3>3, <3>4 DEF Edit
  <2> QED
    BY <2>1, <2>2, <2>3, NarrowStays
<1> QED
  BY <1>1, <1>2, <1>3 DEF Meanwhile

\* The wipe, the classification, the matches and the ends of the passes.
LEMMA RestNarrow ==
  ASSUME TypeOK, Own, Narrow,
         \/ (\E i \in Id : WipeOne(i)) \/ WipeDone \/ Classify \/ Over
         \/ \E n \in Name : Match(n) \/ GiveUp(n)
  PROVE  Narrow'
<1>1. /\ UNCHANGED <<used, before, made>> /\ ~Ended /\ ~Ended' /\ stage' # "idle"
  BY DEF WipeOne, WipeDone, Classify, Over, SettingsOver, MatchOver, ManagedOver,
         PassAgain, NoProgress, PushDone, PassOver, Pushing, Match, GiveUp, Ended,
         env, hist
<1>2. cache' \in {cache, Imported(tenant), Reimported}
  BY DEF WipeOne, WipeDone, Classify, Over, SettingsOver, MatchOver, ManagedOver,
         PassAgain, NoProgress, PushDone, Match, GiveUp, env
<1>3. Rows
  BY <1>2 DEF Rows, Imported, Reimported
<1>4. \A i \in Id : tenant'[i] \in {tenant[i], None}
  BY DEF WipeOne, WipeDone, Classify, Over, SettingsOver, MatchOver, ManagedOver,
         PassAgain, NoProgress, PushDone, Match, GiveUp, env, TypeOK, Tenant
<1>5. Widths
  BY <1>4 DEF Widths
<1> QED
  BY <1>1, <1>3, <1>5, NarrowStays

LEMMA InitNarrow == Init => Narrow
<1> SUFFICES ASSUME Init PROVE Narrow
  OBVIOUS
<1>1. /\ stage = "idle" /\ made = {} /\ before = tenant /\ used = Live(tenant)
      /\ cache = Imported(tenant)
  BY DEF Init
<1>2. \A i \in Id : cache[i] \in {tenant[i], None}
  BY <1>1 DEF Imported
<1>3. ~Wide(None)
  BY DEF Wide
<1>4. made \cup Live(cache) \subseteq used
  BY <1>1, <1>2 DEF Live
<1>5. \A i \in Id : Wide(tenant[i]) \/ Wide(cache[i])
        => FoundWide(i) /\ Wide(tenant[i])
  BY <1>1, <1>2, <1>3 DEF FoundWide
<1> QED
  BY <1>1, <1>4, <1>5 DEF Narrow, PushNeverWidens, Ended

LEMMA NextNarrow == IInv /\ Narrow /\ [Next]_vars => Narrow'
<1> SUFFICES ASSUME IInv, Narrow, [Next]_vars PROVE Narrow'
  OBVIOUS
<1>1. TypeOK /\ Own
  BY DEF IInv
<1>2. CASE UNCHANGED vars
  <2>1. /\ UNCHANGED <<tenant, used, cache, before, made, remap, known, stage, snap>>
        /\ Widths /\ Rows
    BY <1>2 DEF vars, env, prep, undo, hist, Widths, Rows
  <2> QED
    BY <1>1, <2>1, NarrowStays
<1> QED
  BY <1>1, <1>2, Steps, PushNarrow, BeginNarrow, UndoNarrow, OthersNarrow,
     RestNarrow DEF Start

\* A rule that the baseline limits to some scope stands enabled for everybody
\* only if the push found it so or did not create it, or if a rollback put back
\* a row of whose scope it knows nothing (_apply_scope_checks,
\* _rollback_update).
THEOREM NeverWidens == Spec => []PushNeverWidens
<1>1. Narrow => PushNeverWidens
  BY DEF Narrow
<1> QED
  BY <1>1, Invariant, InitNarrow, NextNarrow, PTL DEF Spec
-----------------------------------------------------------------------------
(* What a push that ends without a failure has reached.                    *)

\* Nobody else has touched the tenant, no answer was lost, names and ids tell
\* objects apart, and nothing is rolled back.
Calm == noise = {} /\ Apart /\ stage \notin {"rollback", "cancelled", "gone"}
Unsorted == stage \in {"idle", "wipe", "classify"}

\* An object keeps its name, a name is there once, and the rows have the names
\* of the tenant; until the classification they are of the tenant it found.
NamesAgree ==
  /\ \A i, j \in Live(tenant) : tenant[i].name = tenant[j].name => i = j
  /\ \A i \in Live(tenant) : IF before[i] = None THEN i \in Fresh
                             ELSE tenant[i].name = before[i].name
  /\ \A i \in Live(cache) :
       i \in used /\ (tenant[i] # None => tenant[i].name = cache[i].name)
  /\ Unsorted => /\ cache = Imported(before)
                 /\ \A i \in Id : tenant[i] \in {before[i], None}
Names == /\ Calm => NamesAgree
         /\ stage = "idle" /\ noise = {} => tenant = before

\* The plan and the map of ids lead to objects of the right name, if to any;
\* what has the id it has in the source is mapped to itself; and what was there
\* at the classification is known.
MapsLead ==
  /\ \A e \in DOMAIN plan : plan[e] # None =>
       /\ plan[e] \notin Fresh \ used
       /\ tenant[plan[e]] # None => tenant[plan[e]].name = e
  /\ \A e \in DOMAIN plan :
       plan[e] = None /\ Kind[e] # "list" => tenant[Base[e].id] = None
  /\ \A s \in DOMAIN remap : \E e \in DOMAIN Base :
       /\ Base[e].id = s /\ Kind[e] # "list" /\ remap[s] \in used
       /\ tenant[remap[s]] # None => tenant[remap[s]].name = e
  /\ \A e \in DOMAIN Base : Kind[e] # "list" /\ tenant[Base[e].id] # None =>
       Base[e].id \in DOMAIN remap /\ remap[Base[e].id] = Base[e].id
  /\ \A i \in Live(tenant) \ New :
       Kind[tenant[i].name] # "unimported" => i \in known
  /\ stage = "match" => snap = cache
Maps == Calm /\ ~Unsorted => MapsLead

\* What was written for a user entry is there as it would be written now.
Landed(n) == \E i \in Id : tenant[i] = Payload(n) /\ Accepted(Payload(n))
Lands ==
  /\ \A k \in DOMAIN records :
       records[k].status = "skipped" => Kind[records[k].name] = "predefined"
  /\ Calm => \A k \in DOMAIN records :
       /\ Written(k) /\ records[k].name \in Users(plan)
       /\ Kind[records[k].name] # "list" /\ ~Pushed(records[k].name)
       => Landed(records[k].name)

\* An object keeps its name, and at most one comes with a name that was free.
NamesStay ==
  /\ used \subseteq used'
  /\ \A i \in Id : tenant'[i] # None =>
       \/ tenant[i] # None /\ tenant'[i].name = tenant[i].name
       \/ /\ tenant[i] = None /\ i \in Fresh \ used
          /\ Named(tenant, tenant'[i].name) = {}
  /\ \A i, j \in Id : tenant[i] = None /\ tenant[j] = None
                      /\ tenant'[i] # None /\ tenant'[j] # None => i = j

\* A live object with an id of the baseline is the entry's.
LEMMA NamedAs ==
  ASSUME TypeOK, Names, Calm, NEW e \in DOMAIN Base, tenant[Base[e].id] # None
  PROVE  tenant[Base[e].id].name = e
<1>1. Base[e].id \in Id
  BY EntryIs
<1>2. Base[e].id \in Live(tenant)
  BY <1>1 DEF Live
<1>3. Base[e].id \notin New /\ (before[Base[e].id] # None => before[Base[e].id].name = e)
  BY DEF Calm, Apart
<1> QED
  BY <1>1, <1>2, <1>3 DEF Names, NamesAgree, New, Live

LEMMA NamesStep ==
  ASSUME TypeOK, TypeOK', Own, Own', Names, NamesStay, UNCHANGED before,
         Calm' => Calm, noise \subseteq noise',
         \A i \in Id : cache'[i] # None => cache'[i] \in {cache[i], tenant'[i]},
         stage' # "idle" \/ UNCHANGED <<stage, tenant>>,
         Unsorted' => /\ Unsorted /\ UNCHANGED cache
                      /\ \A i \in Id : tenant'[i] \in {tenant[i], None}
  PROVE  Names'
<1>5. stage' = "idle" /\ noise' = {} => tenant' = before'
  BY DEF Names
<1> SUFFICES ASSUME Calm' PROVE NamesAgree'
  BY <1>5 DEF Names
<1>1. NamesAgree
  BY DEF Names
<1>2. \A i, j \in Live(tenant') : tenant'[i].name = tenant'[j].name => i = j
  <2> SUFFICES ASSUME NEW i \in Id, NEW j \in Id, tenant'[i] # None, tenant'[j] # None,
                      tenant'[i].name = tenant'[j].name
               PROVE  i = j
    BY DEF Live
  <2>1. CASE tenant[i] # None /\ tenant[j] # None
    BY <1>1, <2>1 DEF NamesAgree, NamesStay, Live
  <2>2. CASE tenant[i] = None /\ tenant[j] = None
    BY <2>2 DEF NamesStay
  <2>3. CASE tenant[i] = None /\ tenant[j] # None
    BY <2>3 DEF NamesStay, Named, Live
  <2>4. CASE tenant[i] # None /\ tenant[j] = None
    BY <2>4 DEF NamesStay, Named, Live
  <2> QED
    BY <2>1, <2>2, <2>3, <2>4
<1>3. \A i \in Live(tenant') : IF before'[i] = None THEN i \in Fresh
                               ELSE tenant'[i].name = before'[i].name
  BY <1>1 DEF NamesAgree, NamesStay, Live, Own
<1>4. \A i \in Live(cache') :
        i \in used' /\ (tenant'[i] # None => tenant'[i].name = cache'[i].name)
  <2> SUFFICES ASSUME NEW i \in Id, cache'[i] # None
               PROVE  i \in used' /\ (tenant'[i] # None => tenant'[i].name = cache'[i].name)
    BY DEF Live
  <2>1. CASE cache'[i] = cache[i]
    <3>1. i \in used /\ (tenant[i] # None => tenant[i].name = cache[i].name)
      BY <1>1, <2>1 DEF NamesAgree, Live
    <3> QED
      BY <2>1, <3>1 DEF NamesStay
  <2>2. CASE cache'[i] = tenant'[i]
    BY <2>2 DEF Own, Live
  <2> QED
    BY <2>1, <2>2
<1>6. Unsorted' => cache' = Imported(before)' /\ \A i \in Id : tenant'[i] \in {before'[i], None}
  <2>1. Imported(before)' = Imported(before)
    BY DEF Imported
  <2> QED
    BY <1>1, <2>1 DEF NamesAgree
<1> QED
  BY <1>2, <1>3, <1>4, <1>6 DEF NamesAgree

\* What one entry's turn writes, and what it maps.
LEMMA PushWrites ==
  ASSUME TypeOK, NEW n \in Name, Push(n)
  PROVE  \/ UNCHANGED <<tenant, used>>
         \/ \E i \in Id : /\ tenant[i] # None /\ (plan[n] = i \/ tenant[i].name = n)
                          /\ tenant' = [tenant EXCEPT ![i] = Payload(n)]
                          /\ UNCHANGED used
         \/ \E i \in Fresh \ used : /\ Named(tenant, n) = {}
                                    /\ tenant' = [tenant EXCEPT ![i] = Payload(n)]
                                    /\ used' = used \cup {i}
<1>1. tenant \in Tenant /\ \A i \in Named(tenant, n) : i \in Id /\ tenant[i].name = n
  BY DEF TypeOK, Named, Live
<1>2. ASSUME NEW i \in Id, Update(n, i), plan[n] = i \/ tenant[i].name = n
      PROVE  \/ UNCHANGED <<tenant, used>>
             \/ /\ tenant[i] # None /\ (plan[n] = i \/ tenant[i].name = n)
                /\ tenant' = [tenant EXCEPT ![i] = Payload(n)]
                /\ UNCHANGED used
  <2>1. Write(i, n, Payload(n)) =>
          tenant' = tenant \/ tenant' = [tenant EXCEPT ![i] = Payload(n)]
    BY <1>1 DEF Write, Tenant
  <2> QED
    BY <1>2, <2>1 DEF Update
<1>3. CASE PushUpdate(n)
  <2>1. plan[n] \in Id /\ Update(n, plan[n])
    BY <1>3 DEF PushUpdate, TypeOK, Turn
  <2> QED
    BY <1>2, <2>1
<1>4. CASE PushList(n)
  BY <1>1, <1>2, <1>4 DEF PushList
<1>5. CASE PushCreate(n)
  BY <1>5 DEF PushCreate, NotWritten
<1>6. CASE PushDuplicate(n)
  <2>1. PICK i \in Named(tenant, n) : Update(n, i) \/ NotWritten
    BY <1>6 DEF PushDuplicate
  <2> QED
    BY <1>1, <1>2, <2>1 DEF NotWritten
<1> QED
  BY <1>3, <1>4, <1>5, <1>6 DEF Push

LEMMA PushRegisters ==
  ASSUME TypeOK, NEW n \in Name, Push(n)
  PROVE  \/ UNCHANGED remap
         \/ /\ Kind[n] # "list" /\ plan[n] = None
            /\ \E i \in Id : /\ remap' = Registered(n, i)
                             /\ tenant'[i] # None /\ tenant'[i].name = n
<1>1. tenant \in Tenant /\ \A i \in Named(tenant, n) :
        i \in Id /\ tenant[i] # None /\ tenant[i].name = n
  BY DEF TypeOK, Named, Live
<1>2. Payload(n) \in Object /\ Payload(n).name = n /\ Payload(n) # None
  BY PushDoes, PayloadTyped, MapsTyped, NoneAssumption
<1>3. CASE PushUpdate(n) \/ PushList(n)
  BY <1>3 DEF PushUpdate, PushList
<1>4. CASE PushCreate(n)
  <2>1. CASE \E i \in Fresh \ used :
               tenant' = [tenant EXCEPT ![i] = Payload(n)] /\ remap' = Registered(n, i)
    <3>1. PICK i \in Fresh \ used :
               tenant' = [tenant EXCEPT ![i] = Payload(n)] /\ remap' = Registered(n, i)
      BY <2>1
    <3>2. i \in Id /\ tenant'[i] = Payload(n)
      BY <1>1, <3>1, TenantsAssumption DEF Tenant
    <3> QED
      BY <1>2, <1>4, <3>1, <3>2 DEF PushCreate
  <2> QED
    BY <1>4, <2>1 DEF PushCreate, NotWritten
<1>5. CASE PushDuplicate(n)
  <2>1. PICK i \in Named(tenant, n) :
          \/ remap' = Registered(n, i) /\ Update(n, i)
          \/ NotWritten
    BY <1>5 DEF PushDuplicate
  <2>2. CASE remap' = Registered(n, i) /\ Update(n, i)
    <3>1. tenant' = tenant \/ tenant' = [tenant EXCEPT ![i] = Payload(n)]
      BY <1>1, <2>2 DEF Update, Write, Tenant
    <3>2. tenant'[i] # None /\ tenant'[i].name = n
      BY <1>1, <1>2, <3>1 DEF Tenant
    <3> QED
      BY <1>1, <1>5, <2>2, <3>2 DEF PushDuplicate
  <2> QED
    BY <2>1, <2>2 DEF NotWritten
<1> QED
  BY <1>3, <1>4, <1>5 DEF Push

LEMMA PushStays ==
  ASSUME TypeOK, Own, Names, Maps, Calm, ~Unsorted, NEW n \in Name, Push(n)
  PROVE  /\ NamesStay
         /\ \A i \in Id : tenant[i] # None =>
              /\ tenant'[i] # None
              /\ tenant[i].name # n => tenant'[i] = tenant[i]
<1>1. tenant \in [Id -> Object \cup {None}]
  BY DEF TypeOK, Tenant
<1>2. Payload(n) \in Object /\ Payload(n).name = n /\ Payload(n) # None
  BY PushDoes, PayloadTyped, MapsTyped, NoneAssumption
<1>3. CASE UNCHANGED <<tenant, used>>
  BY <1>3 DEF NamesStay
<1>4. ASSUME NEW i \in Id, tenant[i] # None, plan[n] = i \/ tenant[i].name = n,
             tenant' = [tenant EXCEPT ![i] = Payload(n)], UNCHANGED used
      PROVE  /\ NamesStay
             /\ \A j \in Id : tenant[j] # None =>
                  /\ tenant'[j] # None
                  /\ tenant[j].name # n => tenant'[j] = tenant[j]
  <2>1. n \in DOMAIN plan /\ i # None
    BY PushDoes, NoneAssumption
  <2>2. tenant[i].name = n
    BY <1>4, <2>1 DEF Maps, MapsLead
  <2>3. tenant'[i] = Payload(n) /\ \A j \in Id : j # i => tenant'[j] = tenant[j]
    BY <1>1, <1>4
  <2> QED
    BY <1>2, <1>4, <2>2, <2>3 DEF NamesStay
<1>5. ASSUME NEW i \in Fresh \ used, Named(tenant, n) = {},
             tenant' = [tenant EXCEPT ![i] = Payload(n)], used' = used \cup {i}
      PROVE  /\ NamesStay
             /\ \A j \in Id : tenant[j] # None =>
                  /\ tenant'[j] # None
                  /\ tenant[j].name # n => tenant'[j] = tenant[j]
  <2>1. i \in Id
    BY TenantsAssumption
  <2>2. tenant'[i] = Payload(n) /\ \A j \in Id : j # i => tenant'[j] = tenant[j]
    BY <1>1, <1>5, <2>1
  <2>3. \A j \in Id : tenant[j] # None => tenant[j].name # n
    BY <1>5 DEF Named, Live
  <2>4. tenant[i] = None
    BY <2>1 DEF Own, Live
  <2> QED
    BY <1>2, <1>5, <2>2, <2>3, <2>4 DEF NamesStay
<1> QED
  BY <1>3, <1>4, <1>5, PushWrites

\* A calm state comes of a calm one.
LEMMA CalmBefore ==
  ASSUME UNCHANGED before, noise \subseteq noise',
         stage \in {"rollback", "cancelled", "gone"} =>
           stage' \in {"rollback", "cancelled", "gone"}
  PROVE  Calm' => Calm
BY DEF Calm, Apart, Live, New

LEMMA MapsStep ==
  ASSUME TypeOK, TypeOK', Own, Own', Names, Maps, NamesStay, Calm' => Calm,
         UNCHANGED <<before, known>>, ~Unsorted' => ~Unsorted,
         DOMAIN plan' = DOMAIN plan,
         \A e \in DOMAIN plan :
           \/ plan'[e] = plan[e]
           \/ /\ plan'[e] \in used'
              /\ tenant'[plan'[e]] # None => tenant'[plan'[e]].name = e,
         \/ UNCHANGED remap
         \/ \E e \in DOMAIN plan, i \in Id :
              /\ Kind[e] # "list" /\ plan[e] = None /\ remap' = Registered(e, i)
              /\ i \in used' /\ (tenant'[i] # None => tenant'[i].name = e),
         stage' = "match" => snap' = cache'
  PROVE  Maps'
<1> SUFFICES ASSUME Calm', ~Unsorted' PROVE MapsLead'
  BY DEF Maps
<1>1. Calm /\ ~Unsorted /\ MapsLead
  BY DEF Maps
<1>2. \A e \in DOMAIN Base : tenant'[Base[e].id] # None => tenant[Base[e].id] # None
  <2> SUFFICES ASSUME NEW e \in DOMAIN Base, tenant'[Base[e].id] # None,
                      tenant[Base[e].id] = None
               PROVE  FALSE
    OBVIOUS
  <2>1. Base[e].id \in Fresh \ used
    BY EntryIs DEF NamesStay
  <2>2. Base[e].id \notin New
    BY <1>1 DEF Calm, Apart
  <2> QED
    BY <2>1, <2>2 DEF New, Own
<1>3. used \subseteq used' /\ used' \subseteq Id /\ None \notin Id
      /\ DOMAIN plan \subseteq DOMAIN Base
  BY NoneAssumption DEF NamesStay, TypeOK
<1>4. \A i \in Id : i \notin Fresh \ used /\ tenant'[i] # None =>
        tenant[i] # None /\ tenant'[i].name = tenant[i].name
  BY DEF NamesStay
<1>5. \A e \in DOMAIN plan : plan'[e] # None =>
        /\ plan'[e] \notin Fresh \ used'
        /\ tenant'[plan'[e]] # None => tenant'[plan'[e]].name = e
  <2> SUFFICES ASSUME NEW e \in DOMAIN plan, plan'[e] # None
               PROVE  /\ plan'[e] \notin Fresh \ used'
                      /\ tenant'[plan'[e]] # None => tenant'[plan'[e]].name = e
    OBVIOUS
  <2>1. CASE plan'[e] = plan[e]
    <3>1. plan[e] \in Id
      BY <2>1 DEF TypeOK
    <3> QED
      BY <1>1, <1>3, <1>4, <2>1, <3>1 DEF MapsLead
  <2> QED
    BY <2>1
<1>6. \A e \in DOMAIN plan :
        plan'[e] = None /\ Kind[e] # "list" => tenant'[Base[e].id] = None
  BY <1>1, <1>2, <1>3 DEF MapsLead
<1>7. \A s \in DOMAIN remap' : \E e \in DOMAIN Base :
        /\ Base[e].id = s /\ Kind[e] # "list" /\ remap'[s] \in used'
        /\ tenant'[remap'[s]] # None => tenant'[remap'[s]].name = e
  <2>1. ASSUME NEW s \in DOMAIN remap
        PROVE  \E e \in DOMAIN Base :
                 /\ Base[e].id = s /\ Kind[e] # "list" /\ remap[s] \in used'
                 /\ tenant'[remap[s]] # None => tenant'[remap[s]].name = e
    BY <1>1, <1>3, <1>4 DEF MapsLead
  <2>2. CASE UNCHANGED remap
    BY <2>1, <2>2
  <2>3. ASSUME NEW e \in DOMAIN plan, NEW i \in Id, Kind[e] # "list",
               remap' = Registered(e, i), i \in used',
               tenant'[i] # None => tenant'[i].name = e
        PROVE  \A s \in DOMAIN remap' : \E f \in DOMAIN Base :
                 /\ Base[f].id = s /\ Kind[f] # "list" /\ remap'[s] \in used'
                 /\ tenant'[remap'[s]] # None => tenant'[remap'[s]].name = f
    <3>1. /\ DOMAIN remap' = DOMAIN remap \cup {Base[e].id}
          /\ \A s \in DOMAIN remap' : remap'[s] = IF s = Base[e].id THEN i ELSE remap[s]
      BY <2>3 DEF Registered
    <3> QED
      BY <1>3, <2>1, <2>3, <3>1
  <2> QED
    BY <2>2, <2>3
<1>8. \A e \in DOMAIN Base : Kind[e] # "list" /\ tenant'[Base[e].id] # None =>
        Base[e].id \in DOMAIN remap' /\ remap'[Base[e].id] = Base[e].id
  <2> SUFFICES ASSUME NEW e \in DOMAIN Base, Kind[e] # "list", tenant'[Base[e].id] # None
               PROVE  Base[e].id \in DOMAIN remap' /\ remap'[Base[e].id] = Base[e].id
    OBVIOUS
  <2>1. /\ Base[e].id \in DOMAIN remap /\ remap[Base[e].id] = Base[e].id
        /\ tenant[Base[e].id] # None
    BY <1>1, <1>2 DEF MapsLead
  <2>2. ASSUME NEW f \in DOMAIN plan, NEW i \in Id, Kind[f] # "list", plan[f] = None,
               remap' = Registered(f, i)
        PROVE  Base[e].id \in DOMAIN remap' /\ remap'[Base[e].id] = Base[e].id
    <3>1. Base[f].id # Base[e].id
      BY <1>1, <2>1, <2>2 DEF MapsLead
    <3> QED
      BY <2>1, <2>2, <3>1 DEF Registered
  <2> QED
    BY <2>1, <2>2
<1>9. \A i \in Live(tenant') \ New' : Kind[tenant'[i].name] # "unimported" => i \in known'
  <2> SUFFICES ASSUME NEW i \in Id, tenant'[i] # None, i \notin New,
                      Kind[tenant'[i].name] # "unimported"
               PROVE  i \in known
    BY DEF Live, New
  <2>1. i \notin Fresh \ used
    BY DEF New, Own
  <2>2. tenant[i] # None /\ tenant[i].name = tenant'[i].name
    BY <1>4, <2>1
  <2> QED
    BY <1>1, <2>2 DEF MapsLead, Live
<1> QED
  BY <1>5, <1>6, <1>7, <1>8, <1>9 DEF MapsLead

\* What the classification finds, it finds under the right name; and it finds
\* what is there.
LEMMA FindsNames ==
  ASSUME NEW c \in Tenant, NEW e \in DOMAIN Base,
         c[Base[e].id] # None => c[Base[e].id].name = e
  PROVE  /\ FoundIn(c, e) # None =>
              FoundIn(c, e) \in Id /\ c[FoundIn(c, e)] # None /\ c[FoundIn(c, e)].name = e
         /\ \A i \in Id : c[i] # None /\ c[i].name = e => FoundIn(c, e) # None
<1>1. Named(c, e) # {} => (CHOOSE i \in Named(c, e) : TRUE) \in Named(c, e)
  OBVIOUS
<1>2. \A i : i \in Named(c, e) <=> i \in Id /\ c[i] # None /\ c[i].name = e
  BY DEF Named, Live
<1>3. Base[e].id \in Id /\ None \notin Id
  BY EntryIs, NoneAssumption
<1> QED
  BY <1>1, <1>2, <1>3 DEF FoundIn

\* Where a name is there once, it is found.
LEMMA FindsOne ==
  ASSUME NEW c \in Tenant, NEW e \in DOMAIN Base,
         c[Base[e].id] # None => c[Base[e].id].name = e,
         NEW i \in Id, c[i] # None, c[i].name = e,
         \A j \in Id : c[j] # None /\ c[j].name = e => j = i
  PROVE  FoundIn(c, e) = i
BY FindsNames

\* The map of what is found.
LEMMA RemapsIs ==
  ASSUME NEW c \in Tenant, NEW ns \in SUBSET DOMAIN Base
  PROVE  /\ \A s \in DOMAIN Remaps(c, ns) : \E e \in ns :
              /\ Base[e].id = s /\ Kind[e] # "list" /\ FoundIn(c, e) # None
              /\ Remaps(c, ns)[s] = FoundIn(c, e)
         /\ \A e \in ns : Kind[e] # "list" /\ FoundIn(c, e) # None =>
              /\ Base[e].id \in DOMAIN Remaps(c, ns)
              /\ Remaps(c, ns)[Base[e].id] = FoundIn(c, e)
<1> DEFINE found == {m \in ns : Kind[m] # "list" /\ FoundIn(c, m) # None}
           pick(s) == CHOOSE m \in found : Base[m].id = s
<1>1. Remaps(c, ns) = [s \in {Base[m].id : m \in found} |-> FoundIn(c, pick(s))]
  BY DEF Remaps
<1>2. \A m \in found : pick(Base[m].id) \in found /\ Base[pick(Base[m].id)].id = Base[m].id
  OBVIOUS
<1>3. \A m \in found : pick(Base[m].id) = m
  BY <1>2, BaseAssumption
<1>4. \A m \in found : m \in ns /\ Kind[m] # "list" /\ FoundIn(c, m) # None
  OBVIOUS
<1>5. \A e \in ns : Kind[e] # "list" /\ FoundIn(c, e) # None => e \in found
  OBVIOUS
<1> HIDE DEF found, pick
<1>6. \A m \in found : Remaps(c, ns)[Base[m].id] = FoundIn(c, m)
  BY <1>1, <1>3
<1> QED
  BY <1>1, <1>4, <1>5, <1>6

LEMMA ClassifyMaps ==
  ASSUME TypeOK, Own, Names, Calm, Classify
  PROVE  Maps' /\ Names'
<1>1. PICK c \in {cache, Imported(tenant)} :
        /\ cache' = c /\ known' = Live(c) /\ remap' = Remaps(c, DOMAIN Base)
        /\ plan' = PlanOf(c)
  BY DEF Classify
<1>2. /\ UNCHANGED <<tenant, used, before, noise>> /\ stage' = "settings"
      /\ stage = "classify"
  BY DEF Classify, hist
<1>3. c \in Tenant /\ cache = Imported(before) /\ tenant \in Tenant /\ before \in Tenant
      /\ \A i \in Id : tenant[i] \in {before[i], None}
  BY <1>1, <1>2, ImportedTyped DEF TypeOK, Names, NamesAgree, Unsorted
<1>4. \A i \in Id : c[i] # None => c[i] = before[i]
  BY <1>1, <1>3, ImportedIs
<1>5. \A i \in Id : tenant[i] # None /\ Kind[tenant[i].name] # "unimported" => c[i] = tenant[i]
  BY <1>1, <1>3, ImportedIs
<1>6. \A i, j \in Id : c[i] # None /\ c[j] # None /\ c[i].name = c[j].name => i = j
  BY <1>4 DEF Calm, Apart, Live
<1>7. \A e \in DOMAIN Base : /\ Base[e].id \in Id /\ Base[e].id \notin New
                             /\ c[Base[e].id] # None => c[Base[e].id].name = e
                             /\ tenant[Base[e].id] # None => tenant[Base[e].id].name = e
  BY <1>4, EntryIs, NamedAs DEF Calm, Apart
<1>8. \A e \in DOMAIN Base : FoundIn(c, e) # None =>
        /\ FoundIn(c, e) \in used
        /\ tenant[FoundIn(c, e)] # None => tenant[FoundIn(c, e)].name = e
  <2> SUFFICES ASSUME NEW e \in DOMAIN Base, NEW i, i = FoundIn(c, e), i # None
               PROVE  i \in used /\ (tenant[i] # None => tenant[i].name = e)
    OBVIOUS
  <2>1. i \in Id /\ c[i] # None /\ c[i].name = e
    BY <1>3, <1>7, FindsNames
  <2> QED
    BY <1>3, <1>4, <2>1 DEF Own, Live
<1>9. \A e \in DOMAIN Base : tenant[Base[e].id] # None => FoundIn(c, e) = Base[e].id
  <2> SUFFICES ASSUME NEW e \in DOMAIN Base, tenant[Base[e].id] # None
               PROVE  FoundIn(c, e) = Base[e].id
    OBVIOUS
  <2>1. tenant[Base[e].id].name = e /\ Kind[e] # "unimported"
    BY <1>7, BaseAssumption
  <2>2. c[Base[e].id] # None /\ c[Base[e].id].name = e /\ Base[e].id \in Id
    BY <1>5, <1>7, <2>1
  <2> QED
    BY <1>3, <1>6, <1>7, <2>2, FindsOne
<1>10. Maps'
  <2>1. \A e \in DOMAIN plan' : plan'[e] # None =>
          /\ plan'[e] \notin Fresh \ used
          /\ tenant[plan'[e]] # None => tenant[plan'[e]].name = e
    <3> SUFFICES ASSUME NEW e \in DOMAIN plan', plan'[e] # None
                 PROVE  /\ plan'[e] \notin Fresh \ used
                        /\ tenant[plan'[e]] # None => tenant[plan'[e]].name = e
      OBVIOUS
    <3>1. e \in DOMAIN Base /\ plan'[e] \in {FoundIn(c, e), Base[e].id}
          /\ (plan'[e] = FoundIn(c, e) \/ plan'[e] = Base[e].id)
      BY <1>1 DEF PlanOf
    <3>2. Base[e].id \notin Fresh \ used
      BY <1>7, <3>1 DEF New, Own
    <3> QED
      BY <1>7, <1>8, <3>1, <3>2
  <2>2. \A e \in DOMAIN plan' :
          plan'[e] = None /\ Kind[e] # "list" => tenant[Base[e].id] = None
    <3> SUFFICES ASSUME NEW e \in DOMAIN plan', plan'[e] = None
                 PROVE  tenant[Base[e].id] = None
      OBVIOUS
    <3>1. e \in DOMAIN Base /\ FoundIn(c, e) = None
      BY <1>1, <1>7, NoneAssumption DEF PlanOf
    <3> QED
      BY <1>7, <1>9, <3>1, NoneAssumption
  <2>3. \A s \in DOMAIN remap' : \E e \in DOMAIN Base :
          /\ Base[e].id = s /\ Kind[e] # "list" /\ remap'[s] \in used
          /\ tenant[remap'[s]] # None => tenant[remap'[s]].name = e
    BY <1>1, <1>3, <1>8, RemapsIs
  <2>4. \A e \in DOMAIN Base : Kind[e] # "list" /\ tenant[Base[e].id] # None =>
          Base[e].id \in DOMAIN remap' /\ remap'[Base[e].id] = Base[e].id
    BY <1>1, <1>3, <1>7, <1>9, RemapsIs, NoneAssumption
  <2>5. \A i \in Live(tenant) \ New' : Kind[tenant[i].name] # "unimported" => i \in known'
    BY <1>1, <1>5 DEF Live
  <2> QED
    BY <1>2, <2>1, <2>2, <2>3, <2>4, <2>5 DEF Maps, MapsLead, Live
<1>11. Names'
  <2>1. NamesAgree
    BY DEF Names
  <2>2. \A i \in Live(cache') : i \in used /\ (tenant[i] # None => tenant[i].name = cache'[i].name)
    BY <1>1, <1>3, <1>4 DEF Live, Own
  <2> QED
    BY <1>2, <2>1, <2>2 DEF Names, NamesAgree, Unsorted, Live
<1> QED
  BY <1>10, <1>11

\* The steps before the classification.
LEMMA StartNames ==
  ASSUME TypeOK, TypeOK', Own, Own', Names, Start
  PROVE  Names' /\ (~Classify => Maps')
<1>1. CASE Begin
  <2>1. /\ UNCHANGED <<tenant, used, noise>> /\ before' = tenant /\ stage = "idle"
        /\ stage' \in {"wipe", "classify"} /\ cache' \in {cache, Imported(tenant)}
    BY <1>1 DEF Begin
  <2>2. ASSUME Calm'
        PROVE  NamesAgree'
    <3>1. before' = before /\ Calm /\ NamesAgree
      BY <2>1, <2>2 DEF Calm, Apart, Live, New, Names
    <3>2. cache' = cache
      BY <2>1, <3>1 DEF NamesAgree, Unsorted
    <3> QED
      BY <2>1, <3>1, <3>2 DEF NamesAgree, Unsorted, Live, Imported
  <2> QED
    BY <2>1, <2>2 DEF Names, Maps, Unsorted
<1>2. CASE (\E i \in Id : WipeOne(i)) \/ WipeDone
  <2>1. /\ UNCHANGED <<used, before, noise, cache>> /\ stage = "wipe"
        /\ stage' \in {"wipe", "classify"}
        /\ \A i \in Id : tenant'[i] \in {tenant[i], None}
    BY <1>2 DEF WipeOne, WipeDone, hist, env, TypeOK, Tenant
  <2>2. NamesStay
    BY <2>1 DEF NamesStay
  <2>3. Calm' => Calm
    BY <2>1, CalmBefore
  <2>4. Names'
    BY <2>1, <2>2, <2>3, NamesStep DEF Unsorted
  <2> QED
    BY <2>1, <2>4 DEF Maps, Unsorted
<1>3. CASE Classify
  <2>1. Calm' => Calm
    BY <1>3, CalmBefore DEF Classify, hist
  <2>2. CASE Calm
    BY <1>3, <2>2, ClassifyMaps
  <2>3. CASE ~Calm
    BY <1>3, <2>1, <2>3 DEF Names, Classify
  <2> QED
    BY <1>3, <2>2, <2>3
<1> QED
  BY <1>1, <1>2, <1>3 DEF Start

LEMMA PushNames ==
  ASSUME TypeOK, TypeOK', Own, Own', Names, Maps, NEW n \in Name, Push(n)
  PROVE  Names' /\ Maps'
<1>1. /\ Pushing /\ n \in DOMAIN plan /\ n \in DOMAIN Base /\ Puts(n)
      /\ UNCHANGED <<cache, stage, known, plan, snap, before>>
  BY PushDoes
<1>2. noise \subseteq noise' /\ stage' # "idle" /\ stage' # "match" /\ ~Unsorted /\ ~Unsorted'
  BY <1>1 DEF Puts, Pushing, Unsorted
<1>3. Calm' => Calm
  BY <1>1, <1>2, CalmBefore DEF Pushing
<1>4. CASE ~Calm
  BY <1>2, <1>3, <1>4 DEF Names, Maps
<1>5. CASE Calm
  <2>1. NamesStay
    BY <1>2, <1>5, PushStays
  <2>2. \/ UNCHANGED remap
        \/ \E e \in DOMAIN plan, i \in Id :
             /\ Kind[e] # "list" /\ plan[e] = None /\ remap' = Registered(e, i)
             /\ i \in used' /\ (tenant'[i] # None => tenant'[i].name = e)
    BY <1>1, PushRegisters DEF Own, Live
  <2> QED
    BY <1>1, <1>2, <1>3, <2>1, <2>2, NamesStep, MapsStep
<1> QED
  BY <1>4, <1>5

LEMMA OverNames ==
  ASSUME TypeOK, TypeOK', Own, Own', Names, Maps, Over
  PROVE  Names' /\ Maps'
<1>1. /\ UNCHANGED <<tenant, used, known, plan, remap, before, noise>>
      /\ stage \in {"settings", "match", "managed", "users", "failing"}
      /\ stage' \in {"match", "managed", "users", "failing", "done"}
      /\ stage' = "match" => snap' = cache'
  BY DEF Over, SettingsOver, MatchOver, ManagedOver, PassAgain, NoProgress,
         PushDone, PassOver, env, prep, undo, hist
<1>2. \A i \in Id : cache'[i] # None => cache'[i] \in {cache[i], tenant'[i]}
  BY <1>1, ImportedIs
     DEF Over, SettingsOver, MatchOver, ManagedOver, PassAgain, NoProgress,
         PushDone, env, Reimported, TypeOK
<1>3. NamesStay /\ ~Unsorted /\ ~Unsorted'
  BY <1>1 DEF NamesStay, Unsorted
<1>4. Calm' => Calm
  BY <1>1, CalmBefore
<1>5. Names'
  BY <1>1, <1>2, <1>3, <1>4, NamesStep
<1>6. Maps'
  BY <1>1, <1>3, <1>4, MapsStep
<1> QED
  BY <1>5, <1>6

LEMMA MatchNames ==
  ASSUME TypeOK, TypeOK', Passes, Own, Own', Names, Maps,
         NEW n \in Name, Match(n) \/ GiveUp(n)
  PROVE  Names' /\ Maps'
<1>1. /\ UNCHANGED <<tenant, used, cache, known, before, noise, stage, snap>>
      /\ stage \in {"match", "failing"} /\ n \in todo
  BY DEF Match, GiveUp, env, prep, undo, hist
<1>2. NamesStay /\ ~Unsorted /\ ~Unsorted' /\ (Calm' <=> Calm)
  BY <1>1 DEF NamesStay, Unsorted, Calm, Apart, New, Live
<1>3. Names'
  BY <1>1, <1>2, NamesStep
<1>4. CASE UNCHANGED <<plan, remap>> /\ Calm
  <2>1. snap = cache \/ stage # "match"
    BY <1>2, <1>4 DEF Maps, MapsLead
  <2>2. Maps'
    BY <1>1, <1>2, <1>4, <2>1, MapsStep
  <2> QED
    BY <1>3, <2>2
<1>5. CASE ~UNCHANGED <<plan, remap>> /\ Calm
  <2> DEFINE i == FoundIn(snap, n)
  <2>1. /\ Match(n) /\ i # None
        /\ plan' = [plan EXCEPT ![n] = i] /\ remap' = Registered(n, i)
    BY <1>5 DEF Match, GiveUp, prep
  <2>2. /\ n \in DOMAIN plan /\ Kind[n] = "predefined" /\ plan[n] = None /\ n \in DOMAIN Base
    BY <1>1, <2>1 DEF Match, Passes, Waiting, TypeOK
  <2>3. snap = cache /\ NamesAgree /\ cache \in Tenant
    BY <1>1, <1>2, <1>5, <2>1 DEF Maps, MapsLead, Names, Match, TypeOK
  <2>4. i \in Id /\ cache[i] # None
    BY <2>1, <2>2, <2>3, FoundInTyped
  <2>5. i \in used
    BY <2>3, <2>4 DEF NamesAgree, Live
  <2>6. tenant[i] # None => tenant[i].name = n
    <3>1. i = Base[n].id \/ cache[i].name = n
      <4>1. Named(cache, n) # {} => (CHOOSE j \in Named(cache, n) : TRUE) \in Named(cache, n)
        OBVIOUS
      <4> QED
        BY <2>1, <2>3, <4>1 DEF FoundIn, Named
    <3> QED
      BY <1>5, <2>2, <2>3, <2>4, <3>1, NamedAs DEF NamesAgree, Live
  <2>7. /\ DOMAIN plan' = DOMAIN plan
        /\ \A e \in DOMAIN plan : plan'[e] = plan[e] \/ (e = n /\ plan'[e] = i)
    BY <2>1
  <2> HIDE DEF i
  <2>8. \A e \in DOMAIN plan :
          \/ plan'[e] = plan[e]
          \/ /\ plan'[e] \in used'
             /\ tenant'[plan'[e]] # None => tenant'[plan'[e]].name = e
    BY <1>1, <2>5, <2>6, <2>7
  <2>9. \E e \in DOMAIN plan, j \in Id :
          /\ Kind[e] # "list" /\ plan[e] = None /\ remap' = Registered(e, j)
          /\ j \in used' /\ (tenant'[j] # None => tenant'[j].name = e)
    BY <1>1, <2>1, <2>2, <2>4, <2>5, <2>6
  <2>10. Maps'
    BY <1>1, <1>2, <2>3, <2>7, <2>8, <2>9, MapsStep
  <2> QED
    BY <1>3, <2>10
<1> QED
  BY <1>2, <1>3, <1>4, <1>5 DEF Maps

LEMMA ProvisionStays ==
  ASSUME TypeOK, Own, Provision
  PROVE  NamesStay /\ \A i \in Id : tenant[i] # None => tenant'[i] = tenant[i]
<1>1. PICK n \in DOMAIN Base, i \in Fresh \ used :
        /\ Named(tenant, n) = {}
        /\ tenant' = [tenant EXCEPT ![i] = [Base[n].object EXCEPT !.refs = {},
                                                               !.scope = {}]]
        /\ used' = used \cup {i}
  BY DEF Provision
<1>2. i \in Id /\ tenant[i] = None /\ tenant \in [Id -> Object \cup {None}]
  BY <1>1, TenantsAssumption DEF Own, Live, TypeOK, Tenant
<1>3. tenant'[i].name = n /\ \A j \in Id : j # i => tenant'[j] = tenant[j]
  BY <1>1, <1>2, EntryIs DEF Object
<1> QED
  BY <1>1, <1>2, <1>3 DEF NamesStay

LEMMA OthersNames ==
  ASSUME TypeOK, TypeOK', Own, Own', Names, Maps,
         Undo \/ Stop \/ RequestCancel \/ Crash \/ Meanwhile
  PROVE  Names' /\ Maps'
<1>1. CASE Undo \/ Stop \/ Crash
  <2>1. stage' \in {"rollback", "cancelled", "gone"}
    BY <1>1 DEF Undo, UndoCreate, UndoUpdate, UndoNothing, UndoDone, Undoing, Stop, Crash
  <2> QED
    BY <2>1 DEF Names, Maps, Calm
<1>2. CASE Edit \/ OtherImport
  <2>1. noise' # {}
    BY <1>2 DEF Edit, Edited, OtherImport
  <2> QED
    BY <2>1 DEF Names, Maps, Calm
<1>3. CASE RequestCancel
  <2>1. /\ UNCHANGED <<tenant, used, cache, known, plan, remap, before, noise, stage, snap>>
        /\ stage # "idle"
    BY <1>3 DEF RequestCancel, Running, env, prep, undo, hist
  <2> QED
    BY <2>1 DEF Names, NamesAgree, Maps, MapsLead, Calm, Apart, New, Live, Unsorted, Imported
<1>4. CASE Provision
  <2>1. PICK s \in Live(tenant) : tenant[s] # before[s]
    BY <1>4 DEF Provision
  <2>2. /\ UNCHANGED <<cache, known, plan, remap, before, noise, stage, snap>> /\ Running
    BY <1>4 DEF Provision, prep, undo, hist
  <2>3. NamesStay
    BY <1>4, ProvisionStays
  <2>4. Calm' => Calm
    BY <2>2, CalmBefore
  <2>5. CASE ~Calm \/ ~Unsorted
    BY <2>2, <2>3, <2>4, <2>5, NamesStep, MapsStep DEF Names, Maps, MapsLead, Running, Unsorted
  <2>6. CASE Calm /\ Unsorted
    <3>1. tenant[s] = before[s]
      BY <2>1, <2>6 DEF Names, NamesAgree, Live
    <3> QED
      BY <2>1, <3>1
  <2> QED
    BY <2>5, <2>6
<1> QED
  BY <1>1, <1>2, <1>3, <1>4 DEF Meanwhile

\* A payload, when no part of a scope is itself in the baseline: the references
\* are mapped, and what is known of the scope is kept.
OfBase(m) == \A s \in DOMAIN m : \E e \in DOMAIN Base : Base[e].id = s

Mapped(m, rs) == {MapId(m, i) : i \in rs}

\* The payload of an entry whose scope the baseline does not carry.
Sent(n, rs, k) ==
  [Base[n].object EXCEPT
     !.refs = rs, !.scope = @ \cap k,
     !.on = @ /\ (Base[n].object.scope = {} \/ Base[n].object.scope \cap k # {})]

LEMMA BuildIs ==
  ASSUME NEW m, OfBase(m), NEW k, NEW o,
         \A e \in DOMAIN Base : Base[e].id \notin o.scope
  PROVE  Build(o, m, k) = [o EXCEPT !.refs = Mapped(m, @), !.scope = @ \cap k]
<1>1. \A i \in o.scope : i \notin DOMAIN m
  BY DEF OfBase
<1>2. {MapId(m, MapId(m, i)) : i \in {j \in o.scope : j \in k \cup DOMAIN m}} = o.scope \cap k
  BY <1>1 DEF MapId
<1> QED
  BY <1>2 DEF Build, Mapped

LEMMA SentIs ==
  ASSUME NEW n \in DOMAIN Base, NEW m, OfBase(m), NEW k, ~Pushed(n)
  PROVE  Checked(Base[n].object, Build(Base[n].object, m, k)) =
           Sent(n, Mapped(m, Base[n].object.refs), k)
<1>1. /\ Base[n].object \in Object
      /\ \A e \in DOMAIN Base : Base[e].id \notin Base[n].object.scope
  BY EntryIs DEF Pushed
<1>2. Build(Base[n].object, m, k) =
        [Base[n].object EXCEPT !.refs = Mapped(m, @), !.scope = @ \cap k]
  BY <1>1, BuildIs
<1> QED
  BY <1>1, <1>2 DEF Checked, Object, Sent

LEMMA PayloadIs ==
  ASSUME NEW n \in DOMAIN Base, OfBase(remap), ~Pushed(n)
  PROVE  /\ Payload(n).refs = Mapped(remap, Base[n].object.refs)
         /\ Payload(n).scope = Base[n].object.scope \cap known
         /\ Payload(n).cfg = Base[n].object.cfg
         /\ Payload(n).on <=>
              Base[n].object.on /\ (Base[n].object.scope = {} \/ Payload(n).scope # {})
<1>1. Base[n].object \in Object
  BY EntryIs
<1>2. Payload(n) = Sent(n, Mapped(remap, Base[n].object.refs), known)
  BY SentIs DEF Payload
<1> QED
  BY <1>1, <1>2 DEF Sent, Object

\* What has been sent would be sent again: a reference that is mapped stays so.
LEMMA PayloadStays ==
  ASSUME TypeOK, Names, Maps, Calm, ~Unsorted, NEW n \in DOMAIN Base, ~Pushed(n),
         Accepted(Payload(n)), UNCHANGED known, NamesStay,
         \A i \in Id : tenant[i] # None => tenant'[i] # None,
         \/ UNCHANGED remap
         \/ \E e \in DOMAIN plan, i \in Id :
              /\ Kind[e] # "list" /\ plan[e] = None /\ remap' = Registered(e, i)
              /\ tenant'[i] # None /\ tenant'[i].name = e
  PROVE  Payload(n)' = Payload(n) /\ Accepted(Payload(n))'
<1>1. NamesAgree /\ MapsLead
  BY DEF Names, Maps
<1>2. OfBase(remap)
  BY <1>1 DEF MapsLead, OfBase
<1>3. {MapId(remap, r) : r \in Base[n].object.refs} \subseteq Live(tenant)
  <2>1. Payload(n).refs = Mapped(remap, Base[n].object.refs)
    BY <1>2, PayloadIs
  <2> QED
    BY <2>1 DEF Accepted, Mapped
<1>4. ASSUME NEW e \in DOMAIN plan, NEW i \in Id, Kind[e] # "list", plan[e] = None,
             remap' = Registered(e, i), tenant'[i] # None, tenant'[i].name = e
      PROVE  OfBase(remap') /\ \A r \in Base[n].object.refs : MapId(remap', r) = MapId(remap, r)
  <2>1. e \in DOMAIN Base
    BY DEF TypeOK
  <2>2. /\ DOMAIN remap' = DOMAIN remap \cup {Base[e].id}
        /\ \A s \in DOMAIN remap' : remap'[s] = IF s = Base[e].id THEN i ELSE remap[s]
    BY <1>4 DEF Registered
  <2>3. OfBase(remap')
    BY <1>2, <2>1, <2>2 DEF OfBase
  <2>4. ASSUME NEW r \in Base[n].object.refs, r = Base[e].id
        PROVE  r \in DOMAIN remap /\ remap[r] = i
    <3>1. MapId(remap, r) \in Live(tenant)
      BY <1>3
    <3>2. r \in DOMAIN remap
      <4>1. tenant[r] = None
        BY <1>1, <1>4, <2>4 DEF MapsLead
      <4> QED
        BY <3>1, <4>1 DEF MapId, Live
    <3>3. remap[r] \in Id /\ tenant[remap[r]] # None
      BY <3>1, <3>2 DEF MapId, Live
    <3>4. tenant[remap[r]].name = e
      BY <1>1, <2>1, <2>4, <3>2, <3>3, BaseAssumption DEF MapsLead
    <3>5. tenant[i] # None /\ tenant[i].name = e
      BY <1>4, <3>3, <3>4 DEF NamesStay, Named, Live
    <3> QED
      BY <1>1, <3>2, <3>3, <3>4, <3>5 DEF NamesAgree, Live
  <2> QED
    BY <2>2, <2>3, <2>4 DEF MapId
<1>5. OfBase(remap') /\ \A r \in Base[n].object.refs : MapId(remap', r) = MapId(remap, r)
  BY <1>2, <1>4
<1>6. Mapped(remap', Base[n].object.refs) = Mapped(remap, Base[n].object.refs)
  BY <1>5 DEF Mapped
<1>7. Payload(n)' = Checked(Base[n].object, Build(Base[n].object, remap', known))
  BY DEF Payload
<1>8. Payload(n)' = Payload(n)
  <2>1. Payload(n)' = Sent(n, Mapped(remap', Base[n].object.refs), known)
    BY <1>5, <1>7, SentIs
  <2>2. Payload(n) = Sent(n, Mapped(remap, Base[n].object.refs), known)
    BY <1>2, SentIs DEF Payload
  <2> QED
    BY <1>6, <2>1, <2>2
<1>9. Live(tenant) \subseteq Live(tenant')
  BY DEF Live
<1> QED
  BY <1>8, <1>9 DEF Accepted

\* A user entry's write is reported only of what the API has taken.
LEMMA PushSends ==
  ASSUME TypeOK, NEW n \in Name, Push(n), noise' = {},
         Kind[n] # "list", Kind[n] # "predefined"
  PROVE  \/ UNCHANGED records \/ Notes(n, "failed", None)
         \/ \E i \in Id, s \in {"created", "updated"} :
              /\ tenant'[i] = Payload(n) /\ Accepted(Payload(n)) /\ Notes(n, s, i)
<1>1. tenant \in [Id -> Object \cup {None}] /\ \A i \in Named(tenant, n) : i \in Id
  BY DEF TypeOK, Tenant, Named, Live
<1>2. Failed(n) => UNCHANGED records
  BY DEF Failed
<1>3. \A s, i : Recorded(n, s, i) => Notes(n, s, i)
  BY RecordedDoes
<1>4. ~Lost
  BY DEF Lost
<1>5. ASSUME NEW i \in Id, Update(n, i)
      PROVE  \/ UNCHANGED records \/ Notes(n, "failed", None)
             \/ tenant'[i] = Payload(n) /\ Accepted(Payload(n)) /\ Notes(n, "updated", i)
  BY <1>1, <1>2, <1>3, <1>4, <1>5 DEF Update, Write
<1>6. CASE PushUpdate(n)
  <2>1. plan[n] \in Id /\ Update(n, plan[n])
    BY <1>6 DEF PushUpdate, TypeOK, Turn
  <2> QED
    BY <1>5, <2>1
<1>7. CASE PushList(n)
  BY <1>7 DEF PushList
<1>8. CASE PushCreate(n)
  <2>1. ASSUME NEW i \in Fresh \ used, tenant' = [tenant EXCEPT ![i] = Payload(n)]
        PROVE  i \in Id /\ tenant'[i] = Payload(n)
    BY <1>1, <2>1, TenantsAssumption
  <2> QED
    BY <1>2, <1>3, <1>4, <1>8, <2>1 DEF PushCreate
<1>9. CASE PushDuplicate(n)
  <2>1. PICK i \in Named(tenant, n) :
          Update(n, i) \/ Recorded(n, "failed", None) \/ Failed(n)
    BY <1>9 DEF PushDuplicate
  <2> QED
    BY <1>1, <1>2, <1>3, <1>5, <2>1
<1> QED
  BY <1>6, <1>7, <1>8, <1>9 DEF Push

\* What has landed stays, if nobody touches it.
LEMMA LandedStays ==
  ASSUME TypeOK, Names, Maps, Calm, ~Unsorted, NEW n \in DOMAIN Base, ~Pushed(n),
         Landed(n), UNCHANGED known, NamesStay,
         \A i \in Id : tenant[i] # None =>
           tenant'[i] # None /\ (tenant[i].name = n => tenant'[i] = tenant[i]),
         \/ UNCHANGED remap
         \/ \E e \in DOMAIN plan, i \in Id :
              /\ Kind[e] # "list" /\ plan[e] = None /\ remap' = Registered(e, i)
              /\ tenant'[i] # None /\ tenant'[i].name = e
  PROVE  Landed(n)'
<1>1. PICK i \in Id : tenant[i] = Payload(n) /\ Accepted(Payload(n))
  BY DEF Landed
<1>2. Payload(n) # None /\ Payload(n).name = n
  BY PayloadTyped, MapsTyped, NoneAssumption
<1>3. Payload(n)' = Payload(n) /\ Accepted(Payload(n))'
  BY <1>1, PayloadStays
<1> QED
  BY <1>1, <1>2, <1>3 DEF Landed

LEMMA PushLands ==
  ASSUME TypeOK, Once, Own, Names, Maps, Lands, NEW n \in Name, Push(n)
  PROVE  Lands'
<1>1. /\ Pushing /\ n \in todo /\ n \in DOMAIN plan /\ n \in DOMAIN Base /\ Puts(n)
      /\ UNCHANGED <<cache, stage, known, plan, before>>
  BY PushDoes
<1>2. ~Reported(n) /\ Users(plan)' = Users(plan)
  BY <1>1 DEF Once, Users
<1>3. noise \subseteq noise' /\ ~Unsorted
  BY <1>1 DEF Puts, Pushing, Unsorted
<1>4. Calm' => Calm
  BY <1>1, <1>3, CalmBefore DEF Pushing
<1>5. \/ UNCHANGED records
      \/ \E s \in {"created", "updated", "failed"}, i \in Id \cup {None} : Notes(n, s, i)
  BY <1>1 DEF Puts, Keeps
<1>6. /\ DOMAIN records' \subseteq DOMAIN records \cup {Len(records) + 1}
      /\ \A k \in DOMAIN records : records'[k] = records[k] /\ records[k].name # n
      /\ \A k \in DOMAIN records' \ DOMAIN records :
           records'[k].name = n /\ records'[k].status # "skipped"
  <2>1. CASE UNCHANGED records
    BY <1>2, <2>1 DEF Reported
  <2>2. ASSUME NEW s \in {"created", "updated", "failed"}, NEW i \in Id \cup {None},
               Notes(n, s, i)
        PROVE  /\ DOMAIN records' \subseteq DOMAIN records \cup {Len(records) + 1}
               /\ \A k \in DOMAIN records : records'[k] = records[k]
               /\ \A k \in DOMAIN records' \ DOMAIN records :
                    records'[k].name = n /\ records'[k].status = s
    BY <2>2, NotesAppend DEF TypeOK
  <2> QED
    BY <1>2, <1>5, <2>1, <2>2 DEF Reported
<1>7. ASSUME Calm', NEW m \in Users(plan), m # n, Kind[m] # "list", ~Pushed(m), Landed(m)
      PROVE  Landed(m)'
  <2>1. m \in DOMAIN Base
    BY DEF Users, TypeOK
  <2>2. /\ NamesStay
        /\ \A i \in Id : tenant[i] # None =>
             tenant'[i] # None /\ (tenant[i].name = m => tenant'[i] = tenant[i])
    BY <1>3, <1>4, <1>7, PushStays
  <2> QED
    BY <1>1, <1>3, <1>4, <1>7, <2>1, <2>2, PushRegisters, LandedStays
<1>8. ASSUME Calm', n \in Users(plan), Kind[n] # "list", ~Pushed(n),
             NEW k \in DOMAIN records' \ DOMAIN records, Written(k)'
      PROVE  Landed(n)'
  <2>1. noise' = {} /\ Kind[n] # "predefined"
    BY <1>8 DEF Calm, Users, Managed
  <2>2. PICK i \in Id, s \in {"created", "updated"} :
          tenant'[i] = Payload(n) /\ Accepted(Payload(n)) /\ Notes(n, s, i)
    <3>1. records' # records
      BY <1>8
    <3>2. ~Notes(n, "failed", None)
      BY <1>8, NotesAppend DEF TypeOK, Written
    <3> QED
      BY <1>8, <2>1, <3>1, <3>2, PushSends
  <2>3. NamesStay /\ \A j \in Id : tenant[j] # None => tenant'[j] # None
    BY <1>3, <1>4, <1>8, PushStays
  <2>4. Payload(n)' = Payload(n) /\ Accepted(Payload(n))'
    BY <1>1, <1>3, <1>4, <1>8, <2>2, <2>3, PushRegisters, PayloadStays
  <2> QED
    BY <2>2, <2>4 DEF Landed
<1>9. \A k \in DOMAIN records' :
        records'[k].status = "skipped" => Kind[records'[k].name] = "predefined"
  BY <1>6 DEF Lands
<1>10. ASSUME Calm', NEW k \in DOMAIN records', Written(k)', records'[k].name \in Users(plan),
              Kind[records'[k].name] # "list", ~Pushed(records'[k].name),
              NEW m, m = records'[k].name
       PROVE  Landed(m)'
  <2>1. CASE k \in DOMAIN records
    <3>1. Written(k) /\ records[k].name = m /\ m # n
      BY <1>6, <1>10, <2>1 DEF Written
    <3>2. Landed(m)
      BY <1>4, <1>10, <2>1, <3>1 DEF Lands
    <3> QED
      BY <1>7, <1>10, <3>1, <3>2
  <2>2. CASE k \notin DOMAIN records
    BY <1>6, <1>8, <1>10, <2>2
  <2> QED
    BY <2>1, <2>2
<1> QED
  BY <1>2, <1>9, <1>10 DEF Lands, Landed

\* Steps that touch neither the tenant nor what payloads are built from.
LEMMA IdleLands ==
  ASSUME Lands, UNCHANGED <<tenant, known, remap>>, Calm' => Calm,
         Users(plan)' = Users(plan), DOMAIN records \subseteq DOMAIN records',
         \A k \in DOMAIN records : records'[k] = records[k],
         \A k \in DOMAIN records' \ DOMAIN records :
           \/ records'[k].status = "failed"
           \/ records'[k].status = "skipped" /\ Kind[records'[k].name] = "predefined"
  PROVE  Lands'
<1>1. \A m : Landed(m) => Landed(m)'
  BY DEF Landed, Payload, Accepted, Live
<1>2. \A k \in DOMAIN records' :
        records'[k].status = "skipped" => Kind[records'[k].name] = "predefined"
  BY DEF Lands
<1>3. ASSUME Calm', NEW k \in DOMAIN records', Written(k)', records'[k].name \in Users(plan),
             Kind[records'[k].name] # "list", ~Pushed(records'[k].name)
      PROVE  Landed(records[k].name) /\ records'[k].name = records[k].name
  BY <1>3 DEF Lands, Written
<1> QED
  BY <1>1, <1>2, <1>3 DEF Lands, Landed

LEMMA OverLands ==
  ASSUME Lands, Over
  PROVE  Lands'
<1>1. /\ UNCHANGED <<tenant, known, plan, remap, records, before, noise>>
      /\ stage \in {"settings", "match", "managed", "users", "failing"}
  BY DEF Over, SettingsOver, MatchOver, ManagedOver, PassAgain, NoProgress,
         PushDone, PassOver, env, prep, undo, hist
<1>2. Users(plan)' = Users(plan) /\ (Calm' => Calm)
  BY <1>1, CalmBefore DEF Users
<1> QED
  BY <1>1, <1>2, IdleLands

LEMMA MatchLands ==
  ASSUME TypeOK, Passes, Lands, NEW n \in Name, Match(n) \/ GiveUp(n)
  PROVE  Lands'
<1>1. /\ UNCHANGED <<tenant, known, before, noise, stage>>
      /\ stage \in {"match", "failing"} /\ n \in todo
  BY DEF Match, GiveUp, env, prep, hist
<1>2. Calm' => Calm
  BY <1>1, CalmBefore
<1>3. CASE UNCHANGED <<plan, remap>> /\ \E s \in {"failed", "skipped"} :
             Recorded(n, s, None) /\ (s = "skipped" => stage = "match")
  <2>1. PICK s \in {"failed", "skipped"} :
          Notes(n, s, None) /\ (s = "skipped" => stage = "match")
    BY <1>3, RecordedDoes
  <2>2. s = "skipped" => Kind[n] = "predefined"
    BY <1>1, <2>1 DEF Passes, Waiting
  <2>3. /\ DOMAIN records \subseteq DOMAIN records'
        /\ \A k \in DOMAIN records : records'[k] = records[k]
        /\ \A k \in DOMAIN records' \ DOMAIN records :
             records'[k].name = n /\ records'[k].status = s
    BY <2>1, NotesAppend DEF TypeOK
  <2>4. Users(plan)' = Users(plan)
    BY <1>3 DEF Users
  <2> QED
    BY <1>1, <1>2, <1>3, <2>1, <2>2, <2>3, <2>4, IdleLands
<1>4. CASE /\ stage = "match" /\ UNCHANGED records
           /\ \E i : plan' = [plan EXCEPT ![n] = i]
  <2>1. Users(plan)' = Users(plan)
    BY <1>4 DEF Users
  <2>2. \A m \in Users(plan) : ~Reported(m)
    BY <1>4 DEF Passes
  <2> QED
    BY <1>4, <2>1, <2>2 DEF Lands, Reported
<1> QED
  BY <1>3, <1>4 DEF Match, GiveUp, prep

LEMMA OthersLands ==
  ASSUME TypeOK, Passes, Own, Names, Maps, Lands,
         Undo \/ Stop \/ RequestCancel \/ Crash \/ Meanwhile
  PROVE  Lands'
<1>1. UNCHANGED <<plan, records>>
  BY DEF Undo, UndoCreate, UndoUpdate, UndoNothing, UndoDone, Undoing, Stop,
         RequestCancel, Crash, Meanwhile, Edit, Edited, Provision, OtherImport, prep
<1>2. Users(plan)' = Users(plan)
  BY <1>1 DEF Users
<1>3. CASE Undo \/ Stop \/ Crash \/ Edit \/ OtherImport
  <2>1. stage' \in {"rollback", "cancelled", "gone"} \/ noise' # {}
    BY <1>3 DEF Undo, UndoCreate, UndoUpdate, UndoNothing, UndoDone, Undoing, Stop,
                Crash, Edit, Edited, OtherImport
  <2> QED
    BY <1>1, <2>1 DEF Lands, Calm
<1>4. CASE RequestCancel
  <2>1. UNCHANGED <<tenant, known, remap, before, noise, stage>>
    BY <1>4 DEF RequestCancel, env, prep, hist
  <2> QED
    BY <1>1, <1>2, <2>1, CalmBefore, IdleLands
<1>5. CASE Provision
  <2>1. UNCHANGED <<known, remap, before, noise, stage>>
    BY <1>5 DEF Provision, prep, hist
  <2>2. Calm' => Calm
    BY <2>1, CalmBefore
  <2>3. CASE Unsorted
    <3>1. DOMAIN records = {}
      BY <2>3 DEF Passes, Unsorted
    <3> QED
      BY <1>1, <3>1 DEF Lands
  <2>4. CASE ~Unsorted
    <3>1. NamesStay /\ \A i \in Id : tenant[i] # None => tenant'[i] = tenant[i]
      BY <1>5, ProvisionStays
    <3>2. \A m \in Users(plan) : m \in DOMAIN Base
      BY DEF Users, TypeOK
    <3>3. \A m \in Users(plan) : Calm' /\ ~Pushed(m) /\ Landed(m) => Landed(m)'
      BY <2>1, <2>2, <2>4, <3>1, <3>2, LandedStays
    <3> QED
      BY <1>1, <1>2, <2>2, <3>3 DEF Lands, Written, Landed
  <2> QED
    BY <2>3, <2>4
<1> QED
  BY <1>3, <1>4, <1>5 DEF Meanwhile

CInv == IInv /\ Names /\ Maps /\ Lands

LEMMA InitConverges == Init => CInv
<1> SUFFICES ASSUME Init PROVE CInv
  OBVIOUS
<1>1. IInv
  BY InitInv
<1>2. tenant \in Tenant
  BY <1>1 DEF IInv, TypeOK
<1>3. \A i \in Live(cache) : tenant[i] = cache[i] /\ tenant[i] # None
  BY <1>2, ImportedIs DEF Init, Live
<1>4. ASSUME Calm PROVE NamesAgree
  BY <1>3, <1>4 DEF Init, NamesAgree, Calm, Apart, Live, Unsorted
<1>5. Names /\ Maps /\ Lands
  BY <1>4 DEF Init, Names, Maps, Lands, Unsorted
<1> QED
  BY <1>1, <1>5 DEF CInv

LEMMA NextConverges == CInv /\ [Next]_vars => CInv'
<1> SUFFICES ASSUME CInv, [Next]_vars PROVE CInv'
  OBVIOUS
<1>1. TypeOK /\ Once /\ Passes /\ Own /\ Names /\ Maps /\ Lands
  BY DEF CInv, IInv
<1>2. IInv' /\ TypeOK' /\ Own' /\ Passes'
  <2>1. IInv'
    BY NextInv DEF CInv
  <2> QED
    BY <2>1 DEF IInv
<1>3. CASE Start
  <2>1. UNCHANGED records \/ records' = <<>>
    BY <1>3 DEF Start, Begin, WipeOne, WipeDone, Classify
  <2>2. stage \in {"idle", "wipe", "classify"}
    BY <1>3 DEF Start, Begin, WipeOne, WipeDone, Classify
  <2>3. DOMAIN records' = {}
    BY <1>1, <2>1, <2>2 DEF Passes
  <2>4. Lands'
    BY <2>3 DEF Lands
  <2>5. Names' /\ Maps'
    <3>1. CASE Classify /\ Calm
      BY <1>1, <3>1, ClassifyMaps
    <3>2. CASE Classify /\ ~Calm
      <4>1. Calm' => Calm
        BY <3>2, CalmBefore DEF Classify, hist
      <4> QED
        BY <1>1, <1>2, <1>3, <3>2, <4>1, StartNames DEF Maps
    <3> QED
      BY <1>1, <1>2, <1>3, <3>1, <3>2, StartNames
  <2> QED
    BY <1>2, <2>4, <2>5 DEF CInv
<1>4. ASSUME NEW n \in Name, Push(n)
      PROVE  CInv'
  BY <1>1, <1>2, <1>4, PushNames, PushLands DEF CInv
<1>5. ASSUME NEW n \in Name, Match(n) \/ GiveUp(n)
      PROVE  CInv'
  BY <1>1, <1>2, <1>5, MatchNames, MatchLands DEF CInv
<1>6. CASE Over
  BY <1>1, <1>2, <1>6, OverNames, OverLands DEF CInv
<1>7. CASE Undo \/ Stop \/ RequestCancel \/ Crash \/ Meanwhile
  BY <1>1, <1>2, <1>7, OthersNames, OthersLands DEF CInv
<1>8. CASE UNCHANGED vars
  <2>1. Names' /\ Maps'
    BY <1>1, <1>8 DEF vars, env, prep, undo, hist, Names, NamesAgree, Maps, MapsLead,
                      Calm, Apart, New, Live, Unsorted, Imported
  <2>2. Lands'
    <3>1. UNCHANGED <<tenant, known, remap, records, plan, before, noise, stage>>
      BY <1>8 DEF vars, env, prep, hist
    <3>2. Users(plan)' = Users(plan) /\ (Calm' => Calm)
      BY <3>1, CalmBefore DEF Users
    <3> QED
      BY <1>1, <3>1, <3>2, IdleLands
  <2> QED
    BY <1>2, <2>1, <2>2 DEF CInv
<1> QED
  BY <1>3, <1>4, <1>5, <1>6, <1>7, <1>8, Steps

LEMMA Converging == Spec => []CInv
<1> QED
  BY InitConverges, NextConverges, PTL DEF Spec

\* Where the target has the entry's object, the next classification finds it.
LEMMA FindsLive ==
  ASSUME TypeOK, Names, Calm, NEW e \in DOMAIN Base, NEW i \in Id,
         tenant[i] # None, tenant[i].name = e
  PROVE  Imported(tenant)[i] = tenant[i] /\ FoundIn(Imported(tenant), e) = i
<1> DEFINE c == Imported(tenant)
<1>1. c \in Tenant /\ tenant \in Tenant
  BY ImportedTyped DEF TypeOK
<1>2. \A j \in Id : c[j] # None => c[j] = tenant[j]
  BY <1>1, ImportedIs
<1>3. Kind[e] # "unimported"
  BY BaseAssumption
<1>4. c[i] = tenant[i]
  BY <1>1, <1>3, ImportedIs
<1>5. Base[e].id \in Id /\ (c[Base[e].id] # None => c[Base[e].id].name = e)
  BY <1>2, EntryIs, NamedAs
<1>6. \A j \in Id : c[j] # None /\ c[j].name = e => j = i
  BY <1>2 DEF Names, NamesAgree, Live
<1> HIDE DEF c
<1>7. FoundIn(c, e) = i
  BY <1>1, <1>4, <1>5, <1>6, FindsOne
<1> QED
  BY <1>4, <1>7 DEF c

\* The map of that classification, up to the entry n, agrees with the push's
\* on what n refers to, and leaves alone what the push has mapped.
LEMMA MapsAgain ==
  ASSUME TypeOK, Names, Maps, Calm, ~Unsorted, NEW n \in DOMAIN Base,
         ~Pushed(n), ~Early(n), Accepted(Payload(n)),
         NEW m, m = Remaps(Imported(tenant), {e \in DOMAIN Base : Rank[e] <= Rank[n]})
  PROVE  OfBase(m) /\ Mapped(m, Base[n].object.refs) = Payload(n).refs
                   /\ Mapped(m, Payload(n).refs) = Payload(n).refs
<1> DEFINE c == Imported(tenant)
           ns == {e \in DOMAIN Base : Rank[e] <= Rank[n]}
<1>1. c \in Tenant /\ ns \in SUBSET DOMAIN Base
  BY ImportedTyped DEF TypeOK
<1>2. /\ \A s \in DOMAIN m : \E e \in ns :
           Base[e].id = s /\ Kind[e] # "list" /\ m[s] = FoundIn(c, e)
      /\ \A e \in ns : Kind[e] # "list" /\ FoundIn(c, e) # None =>
           Base[e].id \in DOMAIN m /\ m[Base[e].id] = FoundIn(c, e)
  BY <1>1, RemapsIs
<1>3. OfBase(m) /\ OfBase(remap) /\ MapsLead
  BY <1>2 DEF OfBase, Maps, MapsLead
<1>4. /\ \A e \in ns : e \in DOMAIN Base
      /\ \A e \in DOMAIN Base : Base[e].id \in Base[n].object.refs => e \in ns
  BY EntryIs, BaseAssumption DEF Early
<1>5. \A e \in DOMAIN Base, i \in Id :
        tenant[i] # None /\ tenant[i].name = e => FoundIn(c, e) = i
  BY FindsLive
<1> HIDE DEF c, ns
<1>6. Payload(n).refs = Mapped(remap, Base[n].object.refs)
  BY <1>3, PayloadIs
<1>7. \A r \in Base[n].object.refs : MapId(remap, r) \in Id /\ tenant[MapId(remap, r)] # None
  BY <1>6 DEF Accepted, Mapped, Live
<1>8. ASSUME NEW r \in Base[n].object.refs
      PROVE  MapId(m, r) = MapId(remap, r)
  <2>1. CASE \A e \in DOMAIN Base : Base[e].id # r
    BY <1>3, <2>1 DEF OfBase, MapId
  <2>2. ASSUME NEW e \in DOMAIN Base, Base[e].id = r, Kind[e] = "list"
        PROVE  r \notin DOMAIN m /\ r \notin DOMAIN remap
    BY <1>2, <1>3, <1>4, <2>2, BaseAssumption DEF MapsLead
  <2>3. ASSUME NEW e \in DOMAIN Base, Base[e].id = r, Kind[e] # "list"
        PROVE  MapId(m, r) = MapId(remap, r)
    <3>1. r \in DOMAIN remap
      <4>1. CASE tenant[r] # None
        BY <1>3, <2>3, <4>1 DEF MapsLead
      <4>2. CASE tenant[r] = None
        BY <1>7, <4>2 DEF MapId
      <4> QED
        BY <4>1, <4>2
    <3>2. remap[r] \in Id /\ tenant[remap[r]] # None
      BY <1>7, <3>1 DEF MapId
    <3>3. tenant[remap[r]].name = e
      BY <1>3, <2>3, <3>1, <3>2, BaseAssumption DEF MapsLead
    <3>4. FoundIn(c, e) = remap[r] /\ remap[r] # None
      BY <1>5, <3>2, <3>3, NoneAssumption
    <3>5. r \in DOMAIN m /\ m[r] = remap[r]
      BY <1>2, <1>4, <2>3, <3>4
    <3> QED
      BY <3>1, <3>5 DEF MapId
  <2> QED
    BY <2>1, <2>2, <2>3 DEF MapId
<1>9. ASSUME NEW t \in Id, tenant[t] # None
      PROVE  MapId(m, t) = t
  <2>1. ASSUME NEW e \in ns, Base[e].id = t, m[t] = FoundIn(c, e)
        PROVE  m[t] = t
    BY <1>4, <1>5, <1>9, <2>1, NamedAs
  <2> QED
    BY <1>2, <2>1 DEF MapId
<1>10. Mapped(m, Base[n].object.refs) = Mapped(remap, Base[n].object.refs)
  BY <1>8 DEF Mapped
<1>11. \A t \in Mapped(remap, Base[n].object.refs) : MapId(m, t) = t
  BY <1>7, <1>9 DEF Mapped
<1>12. Mapped(m, Mapped(remap, Base[n].object.refs)) = Mapped(remap, Base[n].object.refs)
  BY <1>11 DEF Mapped
<1> QED
  BY <1>3, <1>6, <1>10, <1>12

\* What has landed matches.
LEMMA LandedMatches ==
  ASSUME TypeOK, Names, Maps, Calm, ~Unsorted, NEW n \in DOMAIN Base,
         Landed(n), Kind[n] # "list", ~Pushed(n), ~Stripped(n), ~Early(n)
  PROVE  ~Queued(Imported(tenant), n)
<1> DEFINE c == Imported(tenant)
           m == Remaps(c, {e \in DOMAIN Base : Rank[e] <= Rank[n]})
           o == Base[n].object
           p == Payload(n)
<1>1. PICK i \in Id : tenant[i] = p /\ Accepted(p)
  BY DEF Landed
<1>2. p \in Object /\ p # None /\ p.name = n
  BY PayloadTyped, MapsTyped, NoneAssumption
<1>3. c[i] = p /\ FoundIn(c, n) = i /\ i # None
  BY <1>1, <1>2, FindsLive, NoneAssumption
<1>4. OfBase(m) /\ Mapped(m, o.refs) = p.refs /\ Mapped(m, p.refs) = p.refs
  BY <1>1, MapsAgain
<1>5. OfBase(remap) /\ MapsLead
  BY DEF OfBase, Maps, MapsLead
<1>7. /\ p.scope = o.scope \cap known /\ p.cfg = o.cfg
      /\ p.on <=> o.on /\ (o.scope = {} \/ p.scope # {})
  BY <1>5, PayloadIs
<1>8. p.on <=> o.on
  BY <1>7 DEF Stripped
<1>9. o \in Object /\ o.name = n /\ \A e \in DOMAIN Base : Base[e].id \notin o.scope
  BY EntryIs, BaseAssumption DEF Pushed
<1>10. o.scope \cap Live(c) = p.scope \cap Live(c)
  <2> SUFFICES ASSUME NEW s \in o.scope, s \in Live(c) PROVE s \in known
    BY <1>7
  <2>1. s \in Id /\ tenant[s] # None /\ Kind[tenant[s].name] # "unimported"
    BY DEF Live, Imported
  <2>2. s \notin New
    BY DEF Calm, Apart
  <2> QED
    BY <1>5, <2>1, <2>2 DEF MapsLead, Live
<1> HIDE DEF c, m, o, p
<1>11. /\ Build(o, m, Live(c)) = [o EXCEPT !.refs = Mapped(m, @), !.scope = @ \cap Live(c)]
       /\ Build(p, m, Live(c)) = [p EXCEPT !.refs = Mapped(m, @), !.scope = @ \cap Live(c)]
  <2>1. Build(o, m, Live(c)) = [o EXCEPT !.refs = Mapped(m, @), !.scope = @ \cap Live(c)]
    BY <1>4, <1>9, BuildIs
  <2>2. \A e \in DOMAIN Base : Base[e].id \notin p.scope
    BY <1>7, <1>9
  <2>3. Build(p, m, Live(c)) = [p EXCEPT !.refs = Mapped(m, @), !.scope = @ \cap Live(c)]
    BY <1>4, <2>2, BuildIs
  <2> QED
    BY <2>1, <2>3
<1>12. o.on \in BOOLEAN /\ p.on \in BOOLEAN /\ o.on = p.on
  BY <1>2, <1>8, <1>9 DEF Object
<1>13. Build(o, m, Live(c)) = Build(p, m, Live(c))
  <2>1. \A R, S : [o EXCEPT !.refs = R, !.scope = S] = [p EXCEPT !.refs = R, !.scope = S]
    BY <1>2, <1>7, <1>9, <1>12 DEF Object
  <2> QED
    BY <1>4, <1>10, <1>11, <2>1
<1>14. Matches(c, n)
  BY <1>3, <1>13 DEF Matches, m, o
<1> QED
  BY <1>3, <1>14 DEF Queued, c

\* A push that ends without a failure has nothing left to push: classified
\* again, its user entries match, unless their scope is missing in the target
\* or is itself pushed, or they refer to what PUSH_ORDER has later
\* (classify_baseline after push_classified).
THEOREM PushConverges == Spec => []SuccessConverges
<1>1. CInv => SuccessConverges
  <2> SUFFICES ASSUME CInv, stage = "done", noise = {}, Apart,
                      \A k \in DOMAIN records : records[k].status # "failed",
                      NEW n \in Users(plan), Kind[n] # "list",
                      ~Pushed(n), ~Stripped(n), ~Early(n)
               PROVE  ~Queued(Imported(tenant), n)
    BY DEF SuccessConverges
  <2>1. TypeOK /\ Passes /\ Names /\ Maps /\ Lands
    BY DEF CInv, IInv
  <2>2. Calm /\ ~Unsorted
    BY DEF Calm, Unsorted
  <2>3. n \in DOMAIN Base /\ Kind[n] # "predefined"
    BY <2>1 DEF Users, Managed, TypeOK
  <2>4. PICK k \in DOMAIN records : records[k].name = n
    BY <2>1 DEF Passes, Reported
  <2>5. records[k].status \in {"created", "updated", "failed", "skipped"}
    <3>1. records \in Seq(PushRecord)
      BY <2>1 DEF TypeOK
    <3>2. records[k] \in PushRecord
      BY <3>1, <2>4
    <3> QED
      BY <3>2 DEF PushRecord
  <2>6. Written(k)
    BY <2>1, <2>3, <2>4, <2>5 DEF Lands, Written
  <2>7. Landed(n)
    BY <2>1, <2>2, <2>4, <2>6 DEF Lands
  <2> QED
    BY <2>1, <2>2, <2>3, <2>7, LandedMatches
<1> QED
  BY <1>1, Converging, PTL
=============================================================================
