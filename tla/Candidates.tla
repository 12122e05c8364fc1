----------------------------- MODULE Candidates -----------------------------
(***************************************************************************)
(* Migration candidates and the ZPA push: a generator stages proposals in  *)
(* the resource table, a reviewer accepts some, the push engine merges     *)
(* them into the tenant and they are promoted to live rows; or a snapshot  *)
(* of the live rows is restored.  One tenant, one source of candidates.    *)
(*                                                                         *)
(* Every call of the services is a transaction; the API calls of a push    *)
(* are steps of their own.  An import is its reads, then its writes; how   *)
(* imports overlap is in ImportCache.                                      *)
(***************************************************************************)
EXTENDS Naturals, SequencesExt, FiniteSetsExt

CONSTANTS
    Order,       \* RTYPE_ORDER, the types a push handles
    CanCreate, CanUpdate, CanDelete,
    Foreign,     \* types that are imported but that a push does not handle
    Name, Cfg,
    Id,          \* ids the tenant assigns, each at most once
    candidate_key,  \* for each name, "<source>:<name>"
    Offers,      \* what the generator may stage
    Tenants,     \* tenants to start from, mirrored by the table
    None,
    MaxActs, MaxNoise, MaxImports, MaxPushes   \* bounds

Type == Range(Order) \cup Foreign
Key  == Id \cup Range(candidate_key)
Raw  == [name : Name, cfg : Cfg, refs : SUBSET Key]
Object == [type : Type, raw : Raw]

(* A row of zpa_resources.                                                 *)
Row == [raw : Raw, live : BOOLEAN, status : {"pending", "accepted", "rejected", "none"},
        synced : Nat,           \* the import that wrote it last, 0 for NULL
        deleted : BOOLEAN]

\* A type is in the order once; what can be created can be updated and
\* deleted; keys tell names apart, and are no ids.
ASSUME CandidateAssumption ==
  /\ Order \in Seq(Range(Order)) /\ IsInjective(Order)
  /\ CanCreate \cup CanUpdate \cup CanDelete \subseteq Range(Order)
  /\ CanCreate \subseteq CanUpdate \cap CanDelete
  /\ IsFiniteSet(Foreign) /\ IsFiniteSet(Name) /\ IsFiniteSet(Id)
  /\ candidate_key \in [Name -> Range(candidate_key)] /\ IsInjective(candidate_key)
  /\ Id \cap Range(candidate_key) = {}
  /\ {MaxActs, MaxNoise, MaxImports, MaxPushes} \subseteq Nat

\* A tenant has its names once and refers to what exists.
Tidy(conf) ==
  \A i \in Id : conf[i] # None =>
    /\ \A j \in conf[i].raw.refs : j \in Id /\ conf[j] # None
    /\ \A j \in Id : conf[j] # None /\ conf[j].type = conf[i].type
                        /\ conf[j].raw.name = conf[i].raw.name => j = i

ASSUME StartAssumption ==
  /\ \A offer \in Offers : offer \subseteq Object
  /\ \A conf \in Tenants : conf \in [Id -> Object \cup {None}] /\ Tidy(conf)

ASSUME NoneAssumption ==
  None \notin Key \cup Raw \cup Object \cup [type : Type, name : Name] /\ None \notin Row

VARIABLES
    tenant,    \* the objects of the tenant, by id
    made,      \* the type and name each id was assigned for
    row,       \* zpa_resources: live rows and candidates, by type and zpa_id
    snap,      \* a snapshot of the live rows
    push,      \* a push: its plan, what it has done, what it may promote
    import,    \* an import that has read the tenant and not yet written
    count      \* what the bounds bound

vars == <<tenant, made, row, snap, push, import, count>>

Within(c, max) == count[c] < max
Counted(c) == [count EXCEPT ![c] = @ + 1]

---------------------------------------------------------------------------
(* The table and the tenant.                                               *)

LiveRow(raw, start) == [raw |-> raw, live |-> TRUE, status |-> "none",
                        synced |-> start, deleted |-> FALSE]

Exists(i) == tenant[i] # None
Objects == {i \in Id : Exists(i)}
CandidateKeys(t) == {k \in Key : row[t][k] # None /\ ~row[t][k].live}

(* Candidates in sight: list_candidates.                                   *)
Candidate(t, k) == k \in CandidateKeys(t) /\ ~row[t][k].deleted
Accepted(t, k)  == Candidate(t, k) /\ row[t][k].status = "accepted"

\* mutant: candidates are part of the state of the tenant
Current_All ==
  {[type |-> p[1], id |-> p[2], raw |-> row[p[1]][p[2]].raw] :
     p \in {p \in Type \X Key : row[p[1]][p[2]] # None /\ ~row[p[1]][p[2]].deleted}}

(* get_snapshot_data_current                                               *)
Current ==
  {[type |-> p[1], id |-> p[2], raw |-> row[p[1]][p[2]].raw] :
     p \in {p \in Type \X Key : LET r == row[p[1]][p[2]] IN
                     r # None /\ r.live /\ ~r.deleted}}

NoPush == [pc |-> "idle", mode |-> "merge", plan |-> <<>>, records |-> <<>>,
           id_map |-> {}, index |-> {}, against |-> None, k |-> 0,
           sure |-> FALSE, whole |-> FALSE, all |-> FALSE, quiet |-> TRUE]

NoImport == [on |-> FALSE, types |-> {}, got |-> {}, view |-> <<>>]

(* A table that mirrors the tenant, and accepted candidates.               *)
Init ==
  /\ tenant \in Tenants
  /\ made = [i \in Id |-> IF tenant[i] = None THEN None
                          ELSE [type |-> tenant[i].type, name |-> tenant[i].raw.name]]
  /\ \E offer \in Offers :
       row = [t \in Type |-> [k \in Key |->
         LET own == k \in Id /\ tenant[k] # None /\ tenant[k].type = t
             new == {o \in offer : o.type = t /\ candidate_key[o.raw.name] = k}
         IN  IF own THEN LiveRow(tenant[k].raw, 1)
             ELSE IF new = {} THEN None
             ELSE [raw |-> (CHOOSE o \in new : TRUE).raw, live |-> FALSE,
                   status |-> "accepted", synced |-> 0, deleted |-> FALSE]]]
  /\ snap = None
  /\ push = NoPush
  /\ import = NoImport
  /\ count = [c \in {"acts", "noise", "imports", "pushes"} |-> 0]

---------------------------------------------------------------------------
(* The life of a candidate.                                                *)

(* ingest: a new row is pending, an old one keeps its status unless it was *)
(* rejected; replace drops the source's other candidates first.            *)
Staged(old, raw) ==
  [raw |-> raw, live |-> FALSE, synced |-> 0, deleted |-> FALSE,
   status |-> IF old = None \/ old.status = "rejected" THEN "pending" ELSE old.status]

ingest(offer, replace) ==
  /\ Within("acts", MaxActs)
  /\ row' = [t \in Type |-> [k \in Key |->
       LET old == IF replace /\ k \in CandidateKeys(t) THEN None ELSE row[t][k]
           new == {o \in offer : o.type = t /\ candidate_key[o.raw.name] = k}
       IN  IF new = {} \/ (old # None /\ old.live) THEN old
           ELSE Staged(old, (CHOOSE o \in new : TRUE).raw)]]
  /\ count' = Counted("acts")
  /\ UNCHANGED <<tenant, made, snap, push, import>>

(* set_status, by row ids: for candidates of any status.                   *)
set_status(chosen, status) ==
  /\ Within("acts", MaxActs)
  /\ row' = [t \in Type |-> [k \in Key |->
       IF k \in CandidateKeys(t) /\ <<t, k>> \in chosen
       THEN [row[t][k] EXCEPT !.status = status] ELSE row[t][k]]]
  /\ count' = Counted("acts")
  /\ UNCHANGED <<tenant, made, snap, push, import>>

(* discard, by row ids, status or source.                                  *)
discard(doomed) ==
  /\ Within("acts", MaxActs)
  /\ row' = [t \in Type |-> [k \in Key |->
       IF k \in CandidateKeys(t) /\ <<t, k>> \in doomed THEN None ELSE row[t][k]]]
  /\ count' = Counted("acts")
  /\ UNCHANGED <<tenant, made, snap, push, import>>

(* What a reviewer may do with some of the candidates.                     *)
Reviewed ==
  LET all == {p \in Type \X Key : p[2] \in CandidateKeys(p[1])} IN
  \E chosen \in SUBSET all \ {{}} :
    \/ \E s \in {"pending", "accepted", "rejected"} : set_status(chosen, s)
    \/ discard(chosen)

---------------------------------------------------------------------------
(* Classification: what a push is going to do.                             *)

Entry(type, action, name, able, target, source, desired, pre) ==
  [type |-> type, action |-> action, name |-> name, supported |-> type \in able,
   target |-> target, source |-> source, desired |-> desired, pre |-> pre]

(* Entries by type, in dependency order or in its reverse.                 *)
InOrder(order, entries) ==
  FlattenSeq([n \in DOMAIN order |-> SetToSeq({e \in entries : e.type = order[n]})])

(* The cache says what the tenant is.                                      *)
CacheTrue ==
  Current = {[type |-> tenant[i].type, id |-> i, raw |-> tenant[i].raw] : i \in Objects}

(* against: the tenant that a rollback is to restore, or the snapshot.     *)
Begin(mode, against, plan, map, index, whole) ==
  /\ push.pc = "idle" /\ Within("pushes", MaxPushes)
  /\ push' = [NoPush EXCEPT !.pc = "push", !.mode = mode, !.plan = plan,
                !.id_map = map, !.index = index, !.against = against, !.k = 1,
                !.sure = CacheTrue, !.whole = whole]
  /\ count' = Counted("pushes")
  /\ UNCHANGED <<tenant, made, row, snap, import>>

(* build_baseline: the accepted candidates of a selection that the engine  *)
(* can create.                                                             *)
Included(selection) ==
  {p \in selection : Accepted(p[1], p[2]) /\ p[1] \in Range(Order) \cap CanCreate}

(* The live rows a candidate's name can match.                             *)
Matches(t, k) ==
  {c \in Current : c.type = t /\ c.raw.name = row[t][k].raw.name}

Before(t, u) == \E m, n \in DOMAIN Order : m < n /\ Order[m] = t /\ Order[n] = u

(* Items refer to objects of the tenant and to each other only: to what is *)
(* matched, to what is of an earlier type, or, in an update, to any.       *)
Whole(items) ==
  \A p \in items : \A r \in row[p[1]][p[2]].raw.refs :
    \/ r \in Objects
    \/ \E q \in items :
         /\ q[2] = r
         /\ Before(q[1], p[1]) \/ Matches(q[1], q[2]) # {} \/ Matches(p[1], p[2]) # {}

Staging(p) == row[p[1]][p[2]].raw
Match(p)   == CHOOSE c \in Matches(p[1], p[2]) : TRUE

Creating(p) ==
  Entry(p[1], "create", Staging(p).name, CanCreate, None, p[2], Staging(p), None)
Updating(p) ==
  Entry(p[1], "update", Staging(p).name, CanUpdate, Match(p).id, p[2], Staging(p),
        Match(p).raw)

(* classify_merge: a name the cache has is updated, another created; what  *)
(* is matched seeds the map from synthetic ids to those of the tenant.     *)
classify_merge(selection) ==
  LET items == Included(selection)
      found == {p \in items : Matches(p[1], p[2]) # {}}
  IN  /\ items # {}
      /\ Begin("merge", tenant, InOrder(Order, {Creating(p) : p \in items \ found})
                               \o InOrder(Order, {Updating(p) : p \in found}),
               {<<p[2], Match(p).id>> : p \in found},
               {<<p[1], Staging(p).name, p[2]>> : p \in items}, Whole(items))

\* mutant: an object that changed is restored to what it is
Modified_Swapped(was, now) ==
  Entry(was.type, "update", now.raw.name, CanUpdate, was.id, None, now.raw, was.raw)

(* An object of both the snapshot and the cache that differs.              *)
Modified(was, now) ==
  Entry(was.type, "update", now.raw.name, CanUpdate, was.id, None, was.raw, now.raw)

Holds(set, e) == \E c \in set : c.type = e.type /\ c.id = e.id
Removing(c)   == Entry(c.type, "delete", c.raw.name, CanDelete, c.id, None, None, None)
Recreating(c) == Entry(c.type, "create", c.raw.name, CanCreate, None, c.id, c.raw, None)

(* classify_restore: the diff, by id, of the snapshot and the cache.       *)
classify_restore ==
  LET now == Current
      deletes == {Removing(c) : c \in {c \in now : ~Holds(snap, c)}}
      creates == {Recreating(c) : c \in {c \in snap : ~Holds(now, c)}}
      updates == {Modified(p[1], p[2]) : p \in {p \in snap \X now :
                    p[1].type = p[2].type /\ p[1].id = p[2].id /\ p[1].raw # p[2].raw}}
  IN  /\ snap # None
      /\ Begin("restore", snap, InOrder(Reverse(Order), deletes) \o InOrder(Order, creates)
                            \o InOrder(Order, updates), {}, {}, FALSE)

create_snapshot ==
  /\ Within("acts", MaxActs) /\ snap # Current
  /\ snap' = Current /\ count' = Counted("acts")
  /\ UNCHANGED <<tenant, made, row, push, import>>

---------------------------------------------------------------------------
(* The API: names are unique within a type, what is referred to exists and *)
(* cannot be deleted.                                                      *)

Accepts(action, type, id, raw) ==
  /\ action # "create" => id \in Objects /\ tenant[id].type = type
  /\ action # "delete" =>
       /\ raw.refs \subseteq Objects
       /\ \A i \in Objects \ {id} : tenant[i].type = type => tenant[i].raw.name # raw.name
  /\ action = "delete" => \A i \in Objects : id \notin tenant[i].raw.refs

(* One id of the tenant per object, in order: which does not matter.       *)
Unused == {i \in Id : made[i] = None}
FreshId == CHOOSE i \in Unused : TRUE

Written(action, type, id, raw) ==
  /\ tenant' = [tenant EXCEPT ![id] =
                  IF action = "delete" THEN None ELSE [type |-> type, raw |-> raw]]
  /\ made' = IF action = "create"
             THEN [made EXCEPT ![id] = [type |-> type, name |-> raw.name]] ELSE made

(* A call is answered with an id; it is refused; or it fails for another   *)
(* reason, or its answer is lost.                                          *)
Call(action, type, id, raw, outcome) ==
  \/ /\ outcome = "applied" /\ Accepts(action, type, id, raw)
     /\ Written(action, type, id, raw) /\ count' = count
  \/ /\ outcome = "failed" /\ ~Accepts(action, type, id, raw)
     /\ UNCHANGED <<tenant, made, count>>
  \/ /\ outcome = "failed" /\ Within("noise", MaxNoise) /\ count' = Counted("noise")
     /\ \/ UNCHANGED <<tenant, made>>
        \/ Accepts(action, type, id, raw) /\ Written(action, type, id, raw)

Faultless == count'["noise"] = count["noise"]

---------------------------------------------------------------------------
(* Executing the plan.                                                     *)

(* _clean_payload                                                          *)
Remapped(raw, map) ==
  [raw EXCEPT !.refs = {IF \E m \in map : m[1] = r
                        THEN (CHOOSE m \in map : m[1] = r)[2] ELSE r : r \in @}]

\* mutant: a created object is not registered
Registered_Not(map, e, id) == map

(* The later of two registrations stands.                                  *)
Registered(map, e, id) ==
  IF e.source = None THEN map
  ELSE {m \in map : m[1] # e.source} \cup {<<e.source, id>>}

Recorded(e, status, id) ==
  Append(push.records, [type |-> e.type, name |-> e.name, action |-> e.action,
                        status |-> status, id |-> id])

Next_entry == push.plan[push.k]

(* An entry that the engine cannot service.                                *)
Skip ==
  /\ push.pc = "push" /\ push.k <= Len(push.plan) /\ ~Next_entry.supported
  /\ push' = [push EXCEPT !.records = Recorded(Next_entry, "manual", None), !.k = @ + 1]
  /\ UNCHANGED <<tenant, made, row, snap, import, count>>

(* _do_create, _do_update, _do_delete.  A failed update still says which   *)
(* object it was for.                                                      *)
Execute ==
  /\ push.pc = "push" /\ push.k <= Len(push.plan) /\ Next_entry.supported
  /\ LET e == Next_entry
         id == IF e.action = "create" THEN FreshId ELSE e.target
         raw == IF e.action = "delete" THEN None ELSE Remapped(e.desired, push.id_map)
     IN  \E outcome \in {"applied", "failed"} :
           /\ e.action = "create" => Unused # {}
           /\ Call(e.action, e.type, id, raw, outcome)
           /\ push' = [push EXCEPT
                !.records = Recorded(e, outcome,
                  IF outcome = "failed" /\ e.action = "create" THEN None ELSE id),
                !.id_map = IF outcome = "applied" /\ e.action = "create"
                           THEN Registered(@, e, id) ELSE @,
                !.k = @ + 1,
                !.quiet = @ /\ Faultless]
  /\ UNCHANGED <<row, snap, import>>

(* push_classified returns its records or, told to stop, raises with those *)
(* it has; the caller may have it all undone.                              *)
PushDone ==
  /\ push.pc = "push"
  /\ \E pc \in {"done", "undo"} :
       push' = [push EXCEPT !.pc = pc, !.k = Len(push.records), !.all = push.k > Len(push.plan)]
  /\ UNCHANGED <<tenant, made, row, snap, import, count>>

(* What undoes record k: the delete of what it created, the captured state *)
(* of what it updated.                                                     *)
Undo(k) ==
  LET r == push.records[k]  e == push.plan[k]
  IN  IF r.status # "applied" THEN {}
      ELSE IF r.action = "create" /\ e.type \in CanDelete THEN {<<"delete", r.id, None>>}
      ELSE IF r.action = "update" THEN {<<"update", e.target, e.pre>>}
      ELSE {}

\* mutant: from the first record to the last
UndoAt_Forward(n) == Len(push.records) + 1 - n
UndoAt(n) == n

(* _rollback_entries, from the last record to the first; ids are written   *)
(* as they were captured.                                                  *)
RollbackStep ==
  /\ push.pc = "undo" /\ push.k > 0
  /\ LET k == UndoAt(push.k) IN
     \/ /\ Undo(k) = {} /\ UNCHANGED <<tenant, made, count>>
        /\ push' = [push EXCEPT !.k = @ - 1]
     \/ \E u \in Undo(k), outcome \in {"applied", "failed"} :
          /\ Call(u[1], push.plan[k].type, u[2], u[3], outcome)
          /\ push' = [push EXCEPT !.k = @ - 1, !.quiet = @ /\ Faultless]
  /\ UNCHANGED <<row, snap, import>>

RollbackDone ==
  /\ push.pc = "undo" /\ push.k = 0
  /\ push' = [push EXCEPT !.pc = "undone"]
  /\ UNCHANGED <<tenant, made, row, snap, import, count>>

---------------------------------------------------------------------------
(* Afterwards.                                                             *)

\* mutant: the status of the record is not looked at
_record_outcome_AnyStatus(r) == IF r.action # "delete" THEN r.id ELSE None

(* The id a record was written to.                                         *)
_record_outcome(r) ==
  IF r.status = "applied" /\ r.action \in {"create", "update"} THEN r.id ELSE None

(* promotions_from: for each record, the synthetic key and the id.         *)
promotions_from ==
  [n \in DOMAIN push.records |->
     LET r == push.records[n] IN
     {<<x[3], _record_outcome(r)>> :
        x \in {x \in push.index : x[1] = r.type /\ x[2] = r.name /\ _record_outcome(r) # None}}]

(* One promotion: the candidate row with this key, of whatever type, takes *)
(* the tenant's id, unless a live row has it already.                      *)
Promoted(rows, pairs) ==
  LET hits == {h \in Type \X pairs : rows[h[1]][h[2][1]] # None /\ ~rows[h[1]][h[2][1]].live}
  IN  IF hits = {} THEN {rows}
      ELSE {LET t == h[1]  key == h[2][1]  id == h[2][2]
                out == [rows EXCEPT ![t][key] = None]
            IN  IF out[t][id] # None THEN out
                ELSE [out EXCEPT ![t][id] = [rows[t][key] EXCEPT !.live = TRUE, !.status = "none",
                                                                 !.deleted = FALSE]]
            : h \in hits}

(* The promotions of a push, in the order of its records.                  *)
PromotedAll(promotions) ==
  LET after[n \in 0..Len(promotions)] ==
        IF n = 0 THEN {row}
        ELSE UNION {Promoted(rows, promotions[n]) : rows \in after[n - 1]}
  IN  after[Len(promotions)]

(* promote_after_push                                                      *)
promote ==
  /\ push.pc = "done" /\ push.mode = "merge" /\ push.index # {}
  /\ row' \in PromotedAll(promotions_from)
  /\ push' = [push EXCEPT !.index = {}]
  /\ UNCHANGED <<tenant, made, snap, import, count>>

Close ==
  /\ push.pc \in {"done", "undone"}
  /\ push' = NoPush
  /\ UNCHANGED <<tenant, made, row, snap, import, count>>

(* An import, of all types or of those a push touched (sync_after_push):   *)
(* some of its reads fail.                                                 *)
Touched == {push.plan[n].type : n \in DOMAIN push.plan}

ImportRead(types) ==
  /\ ~import.on /\ Within("imports", MaxImports)
  /\ \E failed \in {{}} \cup {{t} : t \in types} :
       /\ import' = [on |-> TRUE, types |-> types, got |-> types \ failed, view |-> tenant]
       /\ failed # {} => Within("noise", MaxNoise)
       /\ count' = [count EXCEPT !.imports = @ + 1,
                                !.noise = IF failed = {} THEN @ ELSE @ + 1]
  /\ UNCHANGED <<tenant, made, row, snap, push>>

(* _upsert and _mark_deleted                                               *)
Imported(t, k) ==
  LET r == row[t][k]  start == count["imports"] + 1
      read == t \in import.got /\ k \in Id /\ import.view[k] # None /\ import.view[k].type = t
  IN  IF read /\ r = None THEN LiveRow(import.view[k].raw, start)
      ELSE IF read THEN [r EXCEPT !.synced = start, !.deleted = FALSE,
                                  !.raw = import.view[k].raw]
      ELSE IF r # None /\ r.live /\ r.synced # 0 /\ t \in import.types
      THEN [r EXCEPT !.deleted = TRUE]
      ELSE r

ImportWrite ==
  /\ import.on
  /\ row' = [t \in Type |-> [k \in Key |-> Imported(t, k)]]
  /\ import' = NoImport
  /\ UNCHANGED <<tenant, made, snap, push, count>>

(* Somebody changes the tenant: a new setting or a deletion.               *)
EditTenant(i) ==
  /\ Within("noise", MaxNoise) /\ i \in Objects
  /\ \/ Accepts("delete", tenant[i].type, i, None) /\ tenant' = [tenant EXCEPT ![i] = None]
     \/ \E c \in Cfg \ {tenant[i].raw.cfg} : tenant' = [tenant EXCEPT ![i].raw.cfg = c]
     \/ /\ tenant[i].raw.refs # {} /\ tenant' = [tenant EXCEPT ![i].raw.refs = {}]
  /\ push' = [push EXCEPT !.quiet = FALSE]
  /\ count' = Counted("noise")
  /\ UNCHANGED <<made, row, snap, import>>

Next ==
  \/ \E o \in Offers, replace \in BOOLEAN : ingest(o, replace)
  \/ Reviewed
  \/ \E selection \in SUBSET {p \in Type \X Key : Accepted(p[1], p[2])} :
       classify_merge(selection)
  \/ create_snapshot \/ classify_restore
  \/ Skip \/ Execute \/ PushDone \/ RollbackStep \/ RollbackDone
  \/ promote \/ Close
  \/ ImportRead(Type) \/ (push.pc = "done" /\ ImportRead(Touched)) \/ ImportWrite
  \/ \E i \in Id : EditTenant(i)

Spec == Init /\ [][Next]_vars

---------------------------------------------------------------------------
TypeOK ==
  /\ tenant \in [Id -> [type : Type, raw : Raw] \cup {None}]
  /\ made \in [Id -> [type : Type, name : Name] \cup {None}]
  /\ row \in [Type -> [Key -> Row \cup {None}]]
  /\ \A t \in Type, k \in Key : row[t][k] # None => (row[t][k].status = "none") = row[t][k].live

(* A name that the generator proposes for one type only.                   *)
OneType(name) ==
  \A o, p \in UNION Offers : o.raw.name = name /\ p.raw.name = name => o.type = p.type

(* No proposal leaks into the live state: a live row, or an object of a    *)
(* snapshot, is one the tenant has or had, of that name, and of that type  *)
(* unless a proposal has a namesake of another type (ingest, promote,      *)
(* get_snapshot_data_current).                                             *)
Real(t, k, raw) ==
  /\ k \in Id /\ made[k] # None /\ made[k].name = raw.name
  /\ OneType(raw.name) => made[k].type = t

LiveRowsAreReal ==
  /\ \A t \in Type, k \in Key :
       row[t][k] # None /\ row[t][k].live => Real(t, k, row[t][k].raw)
  /\ snap # None => \A c \in snap : Real(c.type, c.id, c.raw)

(* A candidate without such a namesake stays accepted until a reviewer or  *)
(* the generator says otherwise, or a write of the push reached the tenant *)
(* for it: a retry pushes exactly what is outstanding (promotions_from,    *)
(* promote).                                                               *)
AcceptedUntilPushed ==
  [][\A t \in Type, k \in Key :
       Accepted(t, k) /\ ~Accepted(t, k)' /\ OneType(row[t][k].raw.name) =>
         \/ count'["acts"] # count["acts"]
         \/ \E r \in Range(push.records) :
              /\ r.type = t /\ r.name = row[t][k].raw.name /\ r.status = "applied"]_vars

(* A push of candidates that refer only to the tenant and, in the order of *)
(* the engine, to each other is taken whole when the cache was right and   *)
(* nobody interfered: every synthetic id is rewritten before it is sent    *)
(* (classify_merge, _do_create, _remap_ids).                               *)
WholePushLands ==
  (push.pc = "done" /\ push.mode = "merge" /\ push.sure /\ push.quiet /\ push.whole)
    => \A r \in Range(push.records) : r.status = "applied"

(* A cancelled merge that is rolled back leaves the tenant as it was, when *)
(* the cache was right and nobody interfered (rollback_pushed).            *)
RollbackLeavesNoTrace ==
  (push.pc = "undone" /\ push.mode = "merge" /\ push.sure /\ push.quiet)
    => tenant = push.against

(* A restore without failures leaves what the snapshot says, although what *)
(* was gone comes back under other ids (classify_restore, push_classified).*)
Shape(type, raw) == [type |-> type, name |-> raw.name, cfg |-> raw.cfg,
                     refs |-> {made[i] : i \in raw.refs}]

RestoreConverges ==
  (/\ push.pc = "done" /\ push.mode = "restore" /\ push.sure /\ push.quiet
   /\ push.all /\ \A r \in Range(push.records) : r.status = "applied")
    => {Shape(tenant[i].type, tenant[i].raw) : i \in {i \in Objects : tenant[i].type \notin Foreign}}
       = {Shape(c.type, c.raw) : c \in {c \in push.against : c.type \notin Foreign}}

=============================================================================
