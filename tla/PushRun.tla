------------------------------ MODULE PushRun ------------------------------
(***************************************************************************)
(* One push of a baseline (a snapshot or a template) to a tenant:          *)
(* services/zia_push_service.py and the job of api/routers/tenants.py,     *)
(* zia.py and templates.py that drives it.  The push classifies the        *)
(* baseline against the cached rows, writes the differences to the API in  *)
(* dependency order over several passes, and rolls back when cancelled.    *)
(* Meanwhile an administrator edits the tenant, somebody else imports it,  *)
(* calls fail, and answers get lost after the call took effect.            *)
(***************************************************************************)
EXTENDS Integers, Sequences, FiniteSets

CONSTANTS
  Id,         \* ids, of the source tenant and of the target: they may collide
  Fresh,      \* the ids the target gives to new objects
  Name,       \* names of objects; a name stands for a name within its type
  Cfg,        \* what an object says, besides its references
  None,       \* no object, no id
  Kind,       \* the kind of the type of each name
  Base,       \* the baseline: per name it carries, an entry with its id in the
              \* source and its object
  Rank,       \* the place of each of its entries in PUSH_ORDER
  Tenants,    \* the configurations the target may have at the start
  WipeFirst,  \* the mode of the request
  MaxEdits, MaxImports   \* bounds on what others do meanwhile

(* How the types differ for a push: singletons, predefined rules that a    *)
(* singleton's toggle provisions, other managed objects, user objects,     *)
(* user rules (ordered types), types without a delete method, cloud app    *)
(* rules, URL lists, and types that are only referred to: imported         *)
(* (locations, users) or never imported (ZPA segments, devices).           *)
Kinds == {"settings", "predefined", "managed", "user", "rule", "proxy",
          "cloud_rule", "list", "scope", "unimported"}

Object == [name : Name, cfg : Cfg, refs : SUBSET Id, scope : SUBSET Id,
           on : BOOLEAN]
Tenant == [Id -> Object \cup {None}]

ASSUME KindAssumption == Kind \in [Name -> Kinds]
ASSUME NoneAssumption == None \notin Object \cup Id
Entry == [id : Id, object : Object]

ASSUME BaseAssumption ==
  /\ DOMAIN Base \subseteq Name /\ IsFiniteSet(DOMAIN Base)
  /\ \A n \in DOMAIN Base : /\ Base[n] \in Entry /\ Base[n].object.name = n
                            /\ Kind[n] # "unimported"
  /\ \A n, m \in DOMAIN Base : Base[n].id = Base[m].id => n = m
  /\ Rank \in [DOMAIN Base -> Nat]
  /\ \A n, m \in DOMAIN Base : Rank[n] = Rank[m] => n = m
ASSUME TenantsAssumption == Tenants \subseteq Tenant /\ Fresh \subseteq Id
ASSUME ModeAssumption ==
  WipeFirst \in BOOLEAN /\ MaxEdits \in Nat /\ MaxImports \in Nat

Managed(n) == Kind[n] \in {"settings", "predefined", "managed"}

(* The kinds whose records carry the id that a rollback needs.             *)
Identified(n) == Kind[n] \in {"managed", "user", "rule", "proxy"}

VARIABLES
  tenant,    \* the target's live configuration
  used,      \* ids the target has given out, live or not
  cache,     \* its rows in zia_resources that are not deleted
  stage,     \* where the job is
  wipes,     \* WipeResult.to_delete: ids still to delete
  known,     \* _target_known_ids
  remap,     \* _id_remap, a function on the ids it maps
  plan,      \* DryRunResult.pending: for each pending name, its __target_id
             \* or None for a create
  todo,      \* the entries the current pass has not reached
  retry,     \* new_pending: what failed transiently in the current pass
  prev,      \* prev_count: how many the current pass began with
  records,   \* the PushRecords so far
  cancel,    \* whether a cancel was requested
  back,      \* rollback: how many records are still to be undone
  snap,      \* pre_push, the rows the rollback restores from
  unrolled,  \* whether some record is rollback_failed
  before,    \* history: the tenant when the job began
  noise,     \* history: what happened to the tenant beside this job
  made,      \* history: the ids of the objects this job created
  edits, imports  \* counters of what others did

env  == <<tenant, used, cache>>
prep == <<wipes, known, plan>>
pass == <<todo, retry, prev>>
undo == <<back, snap, unrolled>>
hist == <<before, noise, made, edits, imports>>
vars == <<env, stage, prep, remap, pass, records, cancel, undo, hist>>

Live(t) == {i \in Id : t[i] # None}
Named(t, n) == {i \in Live(t) : t[i].name = n}

(* What an import stores of a configuration: types ZIA never imports have  *)
(* no rows.                                                                *)
Imported(t) ==
  [i \in Id |-> IF t[i] # None /\ Kind[t[i].name] = "unimported" THEN None
                                                                 ELSE t[i]]

---------------------------------------------------------------------------
(* Payloads.                                                               *)

MapId(m, i) == IF i \in DOMAIN m THEN m[i] ELSE i

(* _build_payload: plain references are remapped; references to a          *)
(* tenant's own resources are dropped unless known or remapped, mapped by  *)
(* _ref_resolved, and mapped once more by the final walk.                  *)
Build(o, m, k) ==
  [o EXCEPT !.refs  = {MapId(m, i) : i \in @},
            !.scope = {MapId(m, MapId(m, i)) :
                         i \in {j \in @ : j \in k \cup DOMAIN m}}]

(* Mutant: a rule that lost part of its scope is disabled as well.         *)
Checked_AnyLoss(o, p) ==
  [p EXCEPT !.on = @ /\ Cardinality(p.scope) = Cardinality(o.scope)]

(* _apply_scope_checks: a rule that lost its whole scope is written        *)
(* DISABLED, by an update as well, whatever state the target's rule has.   *)
Checked(o, p) == [p EXCEPT !.on = @ /\ (o.scope = {} \/ p.scope # {})]

(* Mutant: a handler returns before the scope check.                       *)
Payload_Unchecked(n) == Build(Base[n].object, remap, known)

Payload(n) ==
  Checked(Base[n].object, Build(Base[n].object, remap, known))

(* What the API wants of a write, that everything it refers to exists, and *)
(* of a delete, that nothing refers to it.                                 *)
Accepted(o) == o.refs \cup o.scope \subseteq Live(tenant)
Refers(j, i) == i \in tenant[j].refs \cup tenant[j].scope
Free(i) == \A j \in Live(tenant) : ~Refers(j, i)

---------------------------------------------------------------------------
(* Classification.                                                         *)

(* _find_existing and _find_existing_user, over the rows c.                *)
FoundIn(c, n) ==
  LET s == Base[n].id
      same == Named(c, n)
  IN  IF Managed(n) /\ c[s] # None /\ Kind[c[s].name] = Kind[n] THEN s
      ELSE IF same # {} THEN CHOOSE i \in same : TRUE
      ELSE None

(* The remaps registered for the entries ns that are found.                *)
Remaps(c, ns) ==
  LET found == {m \in ns : Kind[m] # "list" /\ FoundIn(c, m) # None}
  IN  [s \in {Base[m].id : m \in found} |->
         FoundIn(c, CHOOSE m \in found : Base[m].id = s)]

(* _configs_match, when the entry n is classified.                         *)
Matches(c, n) ==
  LET m == Remaps(c, {e \in DOMAIN Base : Rank[e] <= Rank[n]})
  IN  Build(Base[n].object, m, Live(c)) = Build(c[FoundIn(c, n)], m, Live(c))

(* Whether the entry n is queued.  A singleton is queued even without a    *)
(* row; a predefined rule without one waits for its toggle, when enabled;  *)
(* a URL list is always merged.                                            *)
Queued(c, n) ==
  \/ Kind[n] = "list"
  \/ FoundIn(c, n) # None /\ ~Matches(c, n)
  \/ /\ FoundIn(c, n) = None
     /\ \/ ~Managed(n)
        \/ Kind[n] = "settings"
        \/ Kind[n] = "predefined" /\ Base[n].object.on

PlanOf(c) ==
  [n \in {m \in DOMAIN Base : Queued(c, m)} |->
     IF Kind[n] = "settings" /\ FoundIn(c, n) = None THEN Base[n].id
                                                     ELSE FoundIn(c, n)]

(* How push_classified splits what is pending.                             *)
Settings(p) == {n \in DOMAIN p : Kind[n] = "settings"}
Waiting(p)  == {n \in DOMAIN p : Kind[n] = "predefined" /\ p[n] = None}
Others(p)   == {n \in DOMAIN p : /\ Managed(n) /\ Kind[n] # "settings"
                                 /\ p[n] # None}
Users(p)    == {n \in DOMAIN p : ~Managed(n)}

---------------------------------------------------------------------------
Init ==
  /\ tenant \in Tenants
  /\ used = Live(tenant)
  /\ cache = Imported(tenant)
  /\ stage = "idle"
  /\ wipes = {} /\ known = {} /\ remap = <<>> /\ plan = <<>>
  /\ todo = {} /\ retry = {} /\ prev = 0 /\ records = <<>>
  /\ cancel = FALSE
  /\ back = 0 /\ snap = cache /\ unrolled = FALSE
  /\ before = tenant /\ noise = {} /\ made = {} /\ edits = 0 /\ imports = 0

(* The job's thread starts.  In wipe mode it imports and lists what to     *)
(* delete: user-created rules, and other user-created objects whose name   *)
(* the baseline does not carry.                                            *)
Begin ==
  /\ stage = "idle"
  /\ before' = tenant
  /\ IF WipeFirst
       THEN /\ stage' = "wipe"
            /\ cache' \in {cache, Imported(tenant)}
            /\ wipes' = {i \in Live(cache') :
                 LET n == cache'[i].name
                 IN  \/ Kind[n] \in {"rule", "cloud_rule"}
                     \/ Kind[n] = "user" /\ n \notin DOMAIN Base}
       ELSE stage' = "classify" /\ UNCHANGED <<cache, wipes>>
  /\ UNCHANGED <<tenant, used, known, plan, remap, pass, records, cancel,
                 undo, noise, made, edits, imports>>

(* execute_wipe, one resource, dependants before what they refer to.  A    *)
(* failed delete is recorded and the wipe goes on; cancels are not polled. *)
WipeOne(i) ==
  /\ stage = "wipe" /\ i \in wipes
  /\ \A j \in wipes \cap Live(tenant) : ~Refers(j, i)
  /\ wipes' = wipes \ {i}
  /\ \/ /\ Free(i)
        /\ tenant' = [tenant EXCEPT ![i] = None]
     \/ UNCHANGED tenant
  /\ UNCHANGED <<used, cache, stage, known, plan, remap, pass, records,
                 cancel, undo, hist>>

WipeDone ==
  /\ stage = "wipe" /\ wipes = {}
  /\ stage' = "classify"
  /\ UNCHANGED <<env, prep, remap, pass, records, cancel, undo, hist>>

(* classify_baseline and the split at the head of push_classified.  The    *)
(* import before it is skipped by a delta apply, may fail, and is made     *)
(* otherwise.                                                              *)
Classify ==
  /\ stage = "classify"
  /\ \E c \in {cache, Imported(tenant)} :
       /\ cache' = c
       /\ known' = Live(c)
       /\ remap' = Remaps(c, DOMAIN Base)
       /\ plan' = PlanOf(c)
       /\ todo' = Settings(PlanOf(c))
  /\ stage' = "settings"
  /\ UNCHANGED <<tenant, used, wipes, retry, prev, records, cancel, undo,
                 hist>>

---------------------------------------------------------------------------
(* _single_pass and _push_one: one entry.                                  *)

Pushing == stage \in {"settings", "managed", "users"}
Turn(n) ==
  Pushing /\ ~cancel /\ n \in todo /\ \A m \in todo : Rank[n] <= Rank[m]

(* Mutant: an update's record forgets the id it was made on.               *)
Recorded_NoId(n, s, i) ==
  /\ records' = Append(records, [name |-> n, status |-> s,
       id |-> IF Identified(n) /\ s = "created" THEN i ELSE None])
  /\ todo' = todo \ {n}
  /\ UNCHANGED <<retry, prev>>

Recorded(n, s, i) ==
  /\ records' = Append(records, [name |-> n, status |-> s,
                                 id |-> IF Identified(n) THEN i ELSE None])
  /\ todo' = todo \ {n}
  /\ UNCHANGED <<retry, prev>>

(* _register_remap: the entry n is the target's object i.                  *)
Registered(n, i) ==
  [s \in DOMAIN remap \cup {Base[n].id} |->
     IF s = Base[n].id THEN i ELSE remap[s]]

(* A transient failure: kept for the next pass.  URL lists turn every      *)
(* failure into a permanent one.                                           *)
Failed(n) ==
  IF Kind[n] = "list"
    THEN Recorded(n, "failed", None)
    ELSE /\ retry' = retry \cup {n}
         /\ todo' = todo \ {n}
         /\ UNCHANGED <<prev, records>>

(* The write itself.  Predefined rules are read and put back as they are.  *)
Write(i, n, p) ==
  tenant' = [tenant EXCEPT ![i] = IF Kind[n] = "predefined" THEN @ ELSE p]

NotWritten == UNCHANGED <<tenant, used, remap, noise, made>>
Lost == noise' = noise \cup {"lost"}

(* An update of the object i, as the generic tail and the special cases of *)
(* _push_one make it.                                                      *)
Update(n, i) ==
  LET p == Payload(n)
      fits == tenant[i] # None /\ (Kind[n] = "predefined" \/ Accepted(p))
  IN  \/ /\ fits
         /\ Write(i, n, p) /\ UNCHANGED <<used, noise>>
         /\ Recorded(n, "updated", i)
      \/ /\ fits                                     \* the answer is lost
         /\ Write(i, n, p) /\ UNCHANGED used
         /\ Lost /\ Failed(n)
      \/ UNCHANGED <<tenant, used, noise>> /\ Recorded(n, "failed", None)
      \/ UNCHANGED <<tenant, used, noise>> /\ Failed(n)

PushUpdate(n) ==
  /\ Turn(n) /\ Kind[n] # "list" /\ plan[n] # None
  /\ Update(n, plan[n])
  /\ UNCHANGED <<cache, stage, prep, remap, cancel, undo, before, made,
                 edits, imports>>

(* _push_list_resource: the list always exists and its entry is merged.    *)
PushList(n) ==
  /\ Turn(n) /\ Kind[n] = "list"
  /\ \E i \in Named(tenant, n) : Update(n, i)
  /\ UNCHANGED <<cache, stage, prep, remap, cancel, undo, before, made,
                 edits, imports>>

(* A create the API takes: the object gets a new id.                       *)
PushCreate(n) ==
  /\ Turn(n) /\ Kind[n] # "list" /\ plan[n] = None /\ Named(tenant, n) = {}
  /\ \/ \E i \in Fresh \ used :
          /\ Accepted(Payload(n))
          /\ tenant' = [tenant EXCEPT ![i] = Payload(n)]
          /\ used' = used \cup {i} /\ made' = made \cup {i}
          /\ \/ /\ remap' = Registered(n, i)
                /\ Recorded(n, "created", i) /\ UNCHANGED noise
             \/ UNCHANGED remap /\ Lost /\ Failed(n)
     \/ NotWritten /\ Recorded(n, "failed", None)
     \/ NotWritten /\ Failed(n)
  /\ UNCHANGED <<cache, stage, prep, cancel, undo, before, edits, imports>>

(* Mutant: what was found by name is reported as created.                  *)
PushDuplicate_Created(n) ==
  /\ Turn(n) /\ Kind[n] # "list" /\ plan[n] = None
  /\ \E i \in Named(tenant, n) :
       /\ remap' = Registered(n, i)
       /\ Accepted(Payload(n)) /\ Write(i, n, Payload(n))
       /\ Recorded(n, "created", i)
  /\ UNCHANGED <<used, cache, stage, prep, cancel, undo, hist>>

(* A create answered "already exists": the object is looked up by name and *)
(* updated.  When the lookup fails a cloud app rule gives up, others retry.*)
PushDuplicate(n) ==
  /\ Turn(n) /\ Kind[n] # "list" /\ plan[n] = None
  /\ \E i \in Named(tenant, n) :
       \/ /\ remap' = Registered(n, i)
          /\ Update(n, i) /\ UNCHANGED made
       \/ /\ NotWritten
          /\ IF Kind[n] = "cloud_rule" THEN Recorded(n, "failed", None)
                                       ELSE Failed(n)
  /\ UNCHANGED <<cache, stage, prep, cancel, undo, before, edits, imports>>

---------------------------------------------------------------------------
(* Passes.                                                                 *)

PassOver == Pushing /\ todo = {}

(* Pass 1a is over, and what failed transiently in it is dropped.  When    *)
(* predefined rules wait for a toggle, their types are imported again.     *)
Reimported ==
  [i \in Id |-> IF \E o \in {tenant[i], cache[i]} :
                      o # None /\ Kind[o.name] \in {"predefined", "rule"}
                  THEN tenant[i] ELSE cache[i]]

SettingsOver ==
  /\ PassOver /\ stage = "settings"
  /\ cache' \in IF Waiting(plan) = {} THEN {cache} ELSE {cache, Reimported}
  /\ snap' = cache'
  /\ stage' = "match" /\ todo' = Waiting(plan) /\ retry' = {}
  /\ UNCHANGED <<tenant, used, prep, prev, remap, records, cancel, back,
                 unrolled, hist>>

(* A waiting rule is matched with the fresh rows, or skipped.              *)
Match(n) ==
  /\ stage = "match" /\ n \in todo /\ \A m \in todo : Rank[n] <= Rank[m]
  /\ LET i == FoundIn(snap, n)
     IN  \/ /\ i # None
            /\ plan' = [plan EXCEPT ![n] = i]
            /\ remap' = Registered(n, i)
            /\ todo' = todo \ {n} /\ UNCHANGED <<retry, prev, records>>
         \/ i = None /\ Recorded(n, "skipped", None) /\ UNCHANGED <<plan, remap>>
  /\ UNCHANGED <<env, stage, wipes, known, cancel, undo, hist>>

MatchOver ==
  /\ stage = "match" /\ todo = {}
  /\ stage' = "managed" /\ todo' = Others(plan)
  /\ UNCHANGED <<env, prep, retry, prev, remap, records, cancel, undo, hist>>

(* Pass 1b is over, what failed transiently in it is dropped as well.      *)
ManagedOver ==
  /\ PassOver /\ stage = "managed"
  /\ stage' = "users" /\ retry' = {}
  /\ todo' = Users(plan) /\ prev' = Cardinality(Users(plan))
  /\ UNCHANGED <<env, prep, remap, records, cancel, undo, hist>>

(* Mutant: another pass whether or not the last one made progress.         *)
PassAgain_Always ==
  /\ PassOver /\ stage = "users" /\ retry # {}
  /\ todo' = retry /\ retry' = {} /\ prev' = Cardinality(retry)
  /\ UNCHANGED <<env, stage, prep, remap, records, cancel, undo, hist>>

(* A pass over user entries made progress: another one for what is left.   *)
PassAgain ==
  /\ PassOver /\ stage = "users"
  /\ retry # {} /\ Cardinality(retry) < prev
  /\ todo' = retry /\ retry' = {} /\ prev' = Cardinality(retry)
  /\ UNCHANGED <<env, stage, prep, remap, records, cancel, undo, hist>>

(* Mutant: the loop breaks without recording what is left.                 *)
NoProgress_Silent ==
  /\ PassOver /\ stage = "users"
  /\ retry # {} /\ Cardinality(retry) >= prev
  /\ stage' = "failing" /\ todo' = {} /\ retry' = {}
  /\ UNCHANGED <<env, prep, prev, remap, records, cancel, undo, hist>>

(* It made none: what is left has failed.                                  *)
NoProgress ==
  /\ PassOver /\ stage = "users"
  /\ retry # {} /\ Cardinality(retry) >= prev
  /\ stage' = "failing" /\ todo' = retry /\ retry' = {}
  /\ UNCHANGED <<env, prep, prev, remap, records, cancel, undo, hist>>

GiveUp(n) ==
  /\ stage = "failing" /\ n \in todo
  /\ Recorded(n, "failed", None)
  /\ UNCHANGED <<env, stage, prep, remap, cancel, undo, hist>>

(* The end: the target is imported again.                                  *)
PushDone ==
  /\ stage \in {"users", "failing"} /\ todo = {} /\ retry = {}
  /\ stage' = "done"
  /\ cache' \in {cache, Imported(tenant)}
  /\ UNCHANGED <<tenant, used, prep, remap, pass, records, cancel, undo, hist>>

---------------------------------------------------------------------------
(* Cancel and rollback.                                                    *)

(* _PushCancelled, raised between two entries and caught by the handler;   *)
(* rollback_pushed then reads the rows.                                    *)
Stop ==
  /\ Pushing /\ todo # {} /\ cancel
  /\ stage' = "rollback"
  /\ back' = Len(records)
  /\ snap' = cache
  /\ UNCHANGED <<env, prep, remap, pass, records, cancel, unrolled, hist>>

Undoing(s) ==
  /\ stage = "rollback" /\ back > 0
  /\ records[back].id # None /\ records[back].status = s
  /\ back' = back - 1
  /\ UNCHANGED <<used, cache, stage, prep, remap, pass, records, cancel,
                 snap, hist>>

(* _rollback_delete.  Types without a delete method are passed over.       *)
UndoCreate ==
  /\ Undoing("created")
  /\ LET r == records[back]
     IN  \/ /\ Kind[r.name] # "proxy"
            /\ Free(r.id)
            /\ tenant' = [tenant EXCEPT ![r.id] = None] /\ UNCHANGED unrolled
         \/ Kind[r.name] # "proxy" /\ unrolled' = TRUE /\ UNCHANGED tenant
         \/ Kind[r.name] = "proxy" /\ UNCHANGED <<tenant, unrolled>>

(* _rollback_update: the row's configuration, built like any payload.  A   *)
(* record whose row is missing is passed over.                             *)
UndoUpdate ==
  /\ Undoing("updated")
  /\ LET r == records[back]
         p == Build(snap[r.id], remap, known)
     IN  \/ snap[r.id] = None /\ UNCHANGED <<tenant, unrolled>>
         \/ /\ snap[r.id] # None /\ tenant[r.id] # None /\ Accepted(p)
            /\ tenant' = [tenant EXCEPT ![r.id] = p] /\ UNCHANGED unrolled
         \/ snap[r.id] # None /\ unrolled' = TRUE /\ UNCHANGED tenant

UndoNothing ==
  /\ stage = "rollback" /\ back > 0
  /\ \/ records[back].id = None
     \/ records[back].status \notin {"created", "updated"}
  /\ back' = back - 1
  /\ UNCHANGED <<env, stage, prep, remap, pass, records, cancel, snap,
                 unrolled, hist>>

(* The job completes with "cancelled".  Nothing is imported.               *)
UndoDone ==
  /\ stage = "rollback" /\ back = 0
  /\ stage' = "cancelled"
  /\ UNCHANGED <<env, prep, remap, pass, records, cancel, undo, hist>>

---------------------------------------------------------------------------
(* The others.                                                             *)

Running == stage \notin {"idle", "done", "cancelled", "gone"}

RequestCancel ==
  /\ Running /\ ~cancel
  /\ cancel' = TRUE
  /\ UNCHANGED <<env, stage, prep, remap, pass, records, undo, hist>>

(* The process stops: the thread is gone and nothing is rolled back.       *)
Crash ==
  /\ Running /\ stage' = "gone"
  /\ UNCHANGED <<env, prep, remap, pass, records, cancel, undo, hist>>

Edited(t) ==
  /\ edits < MaxEdits /\ edits' = edits + 1
  /\ stage \notin {"done", "cancelled", "gone"}
  /\ tenant' = t
  /\ noise' = noise \cup {"edit"}
  /\ UNCHANGED <<cache, stage, prep, remap, pass, records, cancel, undo,
                 before, made, imports>>

(* A toggle that this push has set provisions its rules.                   *)
Provision ==
  /\ Running
  /\ \E s \in Live(tenant), n \in DOMAIN Base, i \in Fresh \ used :
       /\ Kind[tenant[s].name] = "settings" /\ tenant[s] # before[s]
       /\ Kind[n] = "predefined" /\ Named(tenant, n) = {}
       /\ tenant' = [tenant EXCEPT ![i] = [Base[n].object EXCEPT !.refs = {},
                                                                 !.scope = {}]]
       /\ used' = used \cup {i}
  /\ UNCHANGED <<cache, stage, prep, remap, pass, records, cancel, undo, hist>>

(* An administrator, or another push, changes, removes or adds an object.  *)
Edit ==
  \/ \E i \in Live(tenant), c \in Cfg :
       /\ c # tenant[i].cfg
       /\ Edited([tenant EXCEPT ![i].cfg = c]) /\ UNCHANGED used
  \/ \E i \in Live(tenant) :
       /\ Kind[tenant[i].name] \notin {"settings", "predefined", "managed", "list"}
       /\ Free(i)
       /\ Edited([tenant EXCEPT ![i] = None]) /\ UNCHANGED used
  \/ \E i \in Fresh \ used, n \in Name, c \in Cfg :
       /\ Kind[n] \notin {"settings", "predefined", "managed", "list"}
       /\ Named(tenant, n) = {}
       /\ Edited([tenant EXCEPT ![i] = [name |-> n, cfg |-> c, refs |-> {},
                                        scope |-> {}, on |-> TRUE]])
       /\ used' = used \cup {i}

(* Another job, a schedule or a terminal user imports the tenant.          *)
OtherImport ==
  /\ imports < MaxImports /\ imports' = imports + 1
  /\ Running
  /\ cache' = Imported(tenant)
  /\ noise' = noise \cup {"import"}
  /\ UNCHANGED <<tenant, used, stage, prep, remap, pass, records, cancel,
                 undo, before, made, edits>>

Job ==
  \/ Begin \/ (\E i \in Id : WipeOne(i)) \/ WipeDone \/ Classify
  \/ \E n \in Name : PushUpdate(n) \/ PushList(n) \/ PushCreate(n)
                     \/ PushDuplicate(n)
  \/ SettingsOver \/ (\E n \in Name : Match(n)) \/ MatchOver
  \/ ManagedOver \/ PassAgain \/ NoProgress \/ (\E n \in Name : GiveUp(n))
  \/ PushDone
  \/ Stop \/ UndoCreate \/ UndoUpdate \/ UndoNothing \/ UndoDone

Next == Job \/ RequestCancel \/ Crash \/ Edit \/ Provision \/ OtherImport

Spec == Init /\ [][Next]_vars

(* The thread runs: every call has a timeout.                              *)
FairSpec == Spec /\ WF_vars(Job)
---------------------------------------------------------------------------
(* Properties.                                                             *)

Stages == {"idle", "wipe", "classify", "settings", "match", "managed",
           "users", "failing", "done", "rollback", "cancelled", "gone"}
PushRecord == [name : Name,
               status : {"created", "updated", "failed", "skipped"},
               id : Id \cup {None}]

TypeOK ==
  /\ {tenant, cache, snap, before} \subseteq Tenant
  /\ used \in SUBSET Id /\ made \in SUBSET Id
  /\ wipes \in SUBSET Id /\ known \in SUBSET Id
  /\ stage \in Stages
  /\ DOMAIN remap \subseteq Id /\ \A i \in DOMAIN remap : remap[i] \in Id
  /\ DOMAIN plan \subseteq DOMAIN Base
  /\ \A n \in DOMAIN plan : plan[n] \in Id \cup {None}
  /\ todo \subseteq DOMAIN plan /\ retry \subseteq DOMAIN plan /\ prev \in Nat
  /\ records \in Seq(PushRecord)
  /\ cancel \in BOOLEAN /\ unrolled \in BOOLEAN
  /\ back \in 0..Len(records)
  /\ noise \subseteq {"edit", "import", "lost"}
  /\ edits \in 0..MaxEdits /\ imports \in 0..MaxImports

RecordsOf(n) == {k \in DOMAIN records : records[k].name = n}
Written(k) == records[k].status \in {"created", "updated"}

(* However often a user entry is retried it is reported once, and when the *)
(* push ends every user entry that was pending has been reported           *)
(* (push_classified's passes and its final "no progress" failures).        *)
UserEntriesReported ==
  /\ \A n \in Name : Cardinality(RecordsOf(n)) <= 1
  /\ stage = "done" => \A n \in Users(plan) : RecordsOf(n) # {}

(* A cancelled delta push leaves the tenant exactly as it found it, if     *)
(* nobody else wrote, no answer was lost, no undo failed, and the records  *)
(* are of kinds whose records say what to undo and whose rows survive      *)
(* _build_payload (_PushCancelled's records, rollback_pushed).             *)
Undoable(k) ==
  LET r == records[k]
  IN  Written(k) =>
        /\ Identified(r.name) /\ (r.status = "created" => Kind[r.name] # "proxy")
        /\ r.status = "updated" /\ r.id # None /\ snap[r.id] # None
             => Build(snap[r.id], remap, known) = snap[r.id]

RollbackRestores ==
  (/\ stage = "cancelled" /\ noise = {} /\ ~WipeFirst /\ ~unrolled
   /\ \A k \in DOMAIN records : Undoable(k))
    => tenant = before

(* Whatever others do meanwhile, a rollback deletes only objects that this *)
(* push created: not one that it found by name when its create was         *)
(* answered "already exists" (_push_one, _rollback_delete).                *)
RollbackDeletesOwn ==
  [][\A i \in Id : /\ back' # back /\ stage' = "rollback" /\ stage = "rollback"
                   /\ tenant[i] # None /\ tenant'[i] = None
                  => i \in made]_vars

(* A rule that the baseline limits to some scope stands enabled for        *)
(* everybody only if the push found it so or did not create it: whatever   *)
(* the target has of the scope, however often the entry is retried, found  *)
(* by name or imported meanwhile, and also after a stop or a rollback      *)
(* (_apply_scope_checks, called for creates and updates alike).  Excused   *)
(* is an undo to a row of whose scope the push knows nothing, which        *)
(* _rollback_update writes without that check.                             *)
Limited(n) ==
  n \in DOMAIN Base /\ Base[n].object.scope # {} /\ Kind[n] # "predefined"
Wide(o) == o # None /\ Limited(o.name) /\ o.scope = {} /\ o.on
FoundWide(i) == Wide(before[i]) \/ (before[i] = None /\ i \notin made)
UndoneWide(i) ==
  /\ stage \in {"rollback", "cancelled", "gone"}
  /\ snap[i] # None /\ snap[i].scope # {} /\ Build(snap[i], remap, known).scope = {}

PushNeverWidens ==
  \A i \in Id : Wide(tenant[i]) => FoundWide(i) \/ UndoneWide(i)

(* Names and ids tell objects apart: the tenant has a name once, and what  *)
(* the baseline refers to by an id is not another object there.            *)
New == Fresh \ Live(before)
Apart ==
  /\ \A i, j \in Live(before) : before[i].name = before[j].name => i = j
  /\ \A n \in DOMAIN Base :
       /\ ({Base[n].id} \cup Base[n].object.scope) \cap New = {}
       /\ before[Base[n].id] # None => before[Base[n].id].name = n

(* A push that ends without a failure has nothing left to push: classified *)
(* again, its user entries match, unless their scope is missing in the     *)
(* target or is itself pushed, or they refer to what PUSH_ORDER has later  *)
(* (classify_baseline after push_classified, as verify_push does).         *)
Pushed(n) == \E e \in DOMAIN Base : Base[e].id \in Base[n].object.scope
Stripped(n) ==
  Base[n].object.scope # {} /\ Payload(n).scope = {}
Early(n) ==
  \E e \in DOMAIN Base : Base[e].id \in Base[n].object.refs /\ Rank[n] < Rank[e]

SuccessConverges ==
  (/\ stage = "done" /\ noise = {} /\ Apart
   /\ \A k \in DOMAIN records : records[k].status # "failed")
    => \A n \in Users(plan) :
         Kind[n] = "list" \/ Pushed(n) \/ Stripped(n) \/ Early(n)
         \/ ~Queued(Imported(tenant), n)

(* However its calls fail, a push comes to an end (the "no progress" rule).*)
PushEnds == Running ~> ~Running
=============================================================================
