------------------------------- MODULE SyncRun -------------------------------
(***************************************************************************)
(* One run of the scheduled sync: _execute_sync_pipeline of                *)
(* services/scheduled_sync_engine.py and what it calls.  It imports both   *)
(* tenants, closes the selected rules over what they refer to, compares    *)
(* the two caches by content and by name, and applies the difference to    *)
(* the target record by record.  The tenants change meanwhile, imports     *)
(* fail type by type, calls are refused and answers are lost.  The order   *)
(* of rules is left out (RuleOrder has it for the push), and a rule's      *)
(* labels are one flag: whether it has the task's label.                   *)
(***************************************************************************)
EXTENDS Integers, FiniteSets

CONSTANTS
  Name,        \* names of objects
  Content,     \* what a comparison sees of an object beside its references
  MaxNum,      \* ids of one type in a tenant: small and dense
  Selected,    \* the types the task selects
  Worlds,      \* what the two tenants may hold at first
  Edits,       \* what operators may do: an object put in a place, or None
  MaxRuns, MaxEdits, MaxFaults,  \* bounds on what happens
  None

Type == {"svc", "grp", "loc", "rule"}

(* Services are in groups, both in rules; a location is the scope of a     *)
(* rule.  PUSH_ORDER, and the two kinds of type a walk meets.              *)
Tier == [svc |-> 1, grp |-> 2, loc |-> 3, rule |-> 4]
Replicable == {"svc", "grp"}
Scope == {"loc"}

Tenant == {"source", "target"}
Key == Type \X (1..MaxNum)
TypeOf(k) == k[1]

(* raw_config: on is the state of a rule, system what _is_zscaler_managed  *)
(* sees.  The API answers every reference with its name.                   *)
Object == [name : Name, content : Content, refs : SUBSET Key,
           label : BOOLEAN, on : BOOLEAN, system : BOOLEAN]

(* What a row of the cache holds: a reference with its name.               *)
Stored == [name : Name, content : Content, refs : SUBSET (Key \X Name),
           label : BOOLEAN, on : BOOLEAN, system : BOOLEAN]

Held(m) == {k \in DOMAIN m : m[k] # None}

(* A tenant refers to what exists and comes earlier in PUSH_ORDER, and has *)
(* a name once in a type.                                                  *)
Lower(k, o) == \A r \in o.refs : Tier[TypeOf(r)] < Tier[TypeOf(k)]
Sound(m) ==
  /\ m \in [Key -> Object \cup {None}]
  /\ \A k \in Held(m) : m[k].refs \subseteq Held(m) /\ Lower(k, m[k])
  /\ \A j, k \in Held(m) : TypeOf(j) = TypeOf(k) /\ m[j].name = m[k].name => j = k

(* Predefined objects exist on every tenant.                               *)
Predefined(m) == {<<TypeOf(k), m[k].name>> : k \in {j \in Held(m) : m[j].system}}

ASSUME SelectedAssumption == Selected \subseteq Type
ASSUME WorldsAssumption ==
  \A w \in Worlds : /\ DOMAIN w = Tenant /\ w = [t \in Tenant |-> w[t]]
                    /\ Sound(w["source"]) /\ Sound(w["target"])
                    /\ Predefined(w["source"]) = Predefined(w["target"])
ASSUME EditsAssumption ==
  \A e \in Edits : /\ e.tenant \in Tenant /\ e.at \in Key
                   /\ e.object # None =>
                        e.object \in Object /\ Lower(e.at, e.object) /\ ~e.object.system
ASSUME BoundsAssumption == {MaxNum, MaxRuns, MaxEdits, MaxFaults} \subseteq Nat
ASSUME NoneAssumption == None \notin Object \cup Stored \cup Key \cup (BOOLEAN \X BOOLEAN)

VARIABLES
  cloud,   \* the tenants' configuration
  cache,   \* zia_resources: what is not deleted; references with their names
  run,     \* the local variables of the pipeline
  steady,  \* history: how the last run was asked, if nothing is left to do
  runs, edits, faults  \* counters

vars == <<cloud, cache, run, steady, runs, edits, faults>>

(* A row as the import leaves it.                                          *)
Row(m, k) == [m[k] EXCEPT !.refs = {<<r, m[r].name>> : r \in m[k].refs}]
Named(o) == {<<TypeOf(r[1]), r[2]>> : r \in o.refs}

(* Mutant: a reference counts by its id.                                   *)
Fingerprint_ById(o) == <<o.content, o.refs, o.label, o.on>>

(* Mutant: references do not count.                                        *)
Fingerprint_NoRefs(o) == <<o.content, o.label, o.on>>

(* _norm_for_compare and _content_fingerprint: ids are dropped, a          *)
(* reference counts by its name.                                           *)
Fingerprint(o) == <<o.content, Named(o), o.label, o.on>>

---------------------------------------------------------------------------
(* Imports.                                                                *)

Idle == [at |-> "idle", label |-> FALSE, deletes |-> FALSE, loaded |-> {},
         pulled |-> {}, resolve |-> {}, left |-> {}, created |-> {},
         errors |-> FALSE, clean |-> TRUE, quiet |-> TRUE, given |-> {}]

(* ZIAImportService.run over some types: what could be fetched mirrors the *)
(* tenant, and the rows of a type that could not be fetched are swept.     *)
Imported(t, types, fetched) ==
  [cache EXCEPT ![t] = [k \in Key |->
     IF TypeOf(k) \notin types THEN cache[t][k]
     ELSE IF TypeOf(k) \in fetched /\ cloud[t][k] # None THEN Row(cloud[t], k)
     ELSE None]]

(* Some types are imported, and the pipeline goes on with w.               *)
Import(t, types, w) ==
  \E failed \in SUBSET types :
    /\ faults + Cardinality(failed) <= MaxFaults
    /\ faults' = faults + Cardinality(failed)
    /\ cache' = Imported(t, types, types \ failed)
    /\ run' = [w EXCEPT !.clean = @ /\ failed = {}]
    /\ UNCHANGED <<cloud, steady, runs, edits>>

At(stage) == run.at = stage

Start ==
  /\ run.at \in {"idle", "done"} /\ runs < MaxRuns /\ runs' = runs + 1
  /\ \E label, deletes \in BOOLEAN :
       run' = [Idle EXCEPT !.at = "source", !.label = label,
                           !.deletes = deletes, !.loaded = Selected]
  /\ UNCHANGED <<cloud, cache, steady, edits, faults>>

ImportSource ==
  At("source") /\ Import("source", Selected, [run EXCEPT !.at = "target"])

ImportTarget ==
  At("target") /\ Import("target", Selected, [run EXCEPT !.at = "close"])

---------------------------------------------------------------------------
(* The closure.                                                            *)

Source == cache["source"]
Target == cache["target"]

(* The rows of the source that the task selects.                           *)
Seeds(w) == {k \in Held(Source) : /\ TypeOf(k) \in Selected
                                  /\ ~Source[k].system
                                  /\ w.label => Source[k].label}

RefsOf(K) == UNION {{r[1] : r \in Source[k].refs} : k \in K}

(* The objects one reference away that the walk may follow.                *)
Follow(K, loaded) ==
  {k \in RefsOf(K) : /\ TypeOf(k) \in Replicable \cap loaded
                     /\ Source[k] # None /\ ~Source[k].system}

(* _close_over: the deepest chain is rule, group, service.                 *)
Walk(w) ==
  LET near == Follow(Seeds(w), w.loaded)
      all  == near \cup Follow(near, w.loaded)
      seen == {TypeOf(k) : k \in RefsOf(Seeds(w) \cup all)}
  IN  [pulled  |-> {<<TypeOf(k), Source[k].name>> :
                      k \in {j \in all : TypeOf(j) \notin Selected}},
       missing |-> (seen \cap Replicable) \ w.loaded,
       resolve |-> seen \ Replicable]

(* Types that were not read yet are imported, and the walk starts again.   *)
CloseMore ==
  LET walk == Walk(run)
  IN  /\ At("close") /\ walk.missing # {}
      /\ Import("source", walk.missing,
                [run EXCEPT !.loaded = @ \cup walk.missing,
                            !.resolve = @ \cup walk.resolve])

PulledTypes(w) == {p[1] : p \in w.pulled}

(* The target is read for the types that were pulled in, and for those     *)
(* that references are only resolved in.                                   *)
CloseDone ==
  LET walk == Walk(run)
  IN  /\ At("close") /\ walk.missing = {}
      /\ run' = [run EXCEPT !.at = "pulled", !.pulled = walk.pulled,
                            !.resolve = @ \cup walk.resolve]
      /\ UNCHANGED <<cloud, cache, steady, runs, edits, faults>>

ImportPulled ==
  /\ At("pulled")
  /\ Import("target", PulledTypes(run), [run EXCEPT !.at = "resolve"])

(* Mutant: the names that scope a rule are looked up in whatever an        *)
(* earlier import left.                                                    *)
ImportResolved_Skipped ==
  /\ At("resolve")
  /\ Import("target", {}, [run EXCEPT !.at = "diff"])

ImportResolved ==
  /\ At("resolve")
  /\ Import("target", run.resolve, [run EXCEPT !.at = "diff"])

---------------------------------------------------------------------------
(* The difference.                                                         *)

AllTypes(w) == Selected \cup PulledTypes(w)

(* The rows of a type that are compared.                                   *)
Rows(m, ty) == {k \in Held(m) : TypeOf(k) = ty /\ ~m[k].system}
First(K) == CHOOSE k \in K : \A j \in K : k[2] <= j[2]

(* Of a selected type what the task selects, of another what was pulled.   *)
Wanted(w, ty) ==
  {k \in Rows(Source, ty) :
     IF ty \in Selected THEN w.label => Source[k].label
                        ELSE <<ty, Source[k].name>> \in w.pulled}

Record(op, k, at) ==
  [op |-> op, from |-> k, at |-> at, row |-> IF k = None THEN None ELSE Source[k],
   type |-> TypeOf(IF k = None THEN at ELSE k)]

(* One source row is matched with an unclaimed row of the target: by       *)
(* content and name, by content, by name, in this order.                   *)
Match(acc, k, rows) ==
  LET free  == rows \ acc.claimed
      same  == {j \in free : Fingerprint(Target[j]) = Fingerprint(Source[k])}
      twin  == {j \in same : Target[j].name = Source[k].name}
      named == {j \in free : Target[j].name = Source[k].name}
      claim(K, op) ==
        [claimed |-> acc.claimed \cup {First(K)},
         records |-> acc.records \cup {Record(op, k, First(K))}]
  IN  CASE twin # {} -> [acc EXCEPT !.claimed = @ \cup {First(twin)}]
        [] twin = {} /\ same # {} -> claim(same, "rename")
        [] same = {} /\ named # {} -> claim(named, "update")
        [] OTHER -> [acc EXCEPT !.records = @ \cup {Record("create", k, None)}]

(* _compute_diff for one type: the source's rows in the order of their ids.*)
Matched(w, ty) ==
  LET after[n \in 0..MaxNum] ==
        IF n = 0 THEN [claimed |-> {}, records |-> {}]
        ELSE IF <<ty, n>> \in Wanted(w, ty)
             THEN Match(after[n - 1], <<ty, n>>, Rows(Target, ty)) ELSE after[n - 1]
  IN  after[MaxNum]

(* Mutant: whatever is not claimed is deleted, of any type.                *)
Doomed_AnyType(w, ty, rows) ==
  IF w.deletes
    THEN {j \in rows : w.label /\ ty \in Selected => Target[j].label} ELSE {}

(* Deletes are for the selected types, and in label mode for what has the  *)
(* label.                                                                  *)
Doomed(w, ty, rows) ==
  IF w.deletes /\ ty \in Selected
    THEN {j \in rows : w.label => Target[j].label} ELSE {}

Batch(w) ==
  UNION {LET matched == Matched(w, ty)
         IN  matched.records \cup {Record("delete", None, j) :
               j \in Doomed(w, ty, Rows(Target, ty)) \ matched.claimed}
         : ty \in AllTypes(w)}

(* _sort_content_batch, _sort_delete_batch: content in the order of the    *)
(* tiers, and of rules, which alone have an order, those that are created  *)
(* come first; then deletes in the reverse order.                          *)
Late(r) == IF r.type = "rule" /\ r.op # "create" THEN 1 ELSE 0

Before(q, r) ==
  \/ q.op # "delete" /\ r.op = "delete"
  \/ /\ q.op # "delete" /\ r.op # "delete"
     /\ \/ Tier[q.type] < Tier[r.type]
        \/ q.type = r.type /\ Late(q) < Late(r)
        \/ q.type = r.type /\ Late(q) = Late(r) /\ q.from[2] < r.from[2]
  \/ /\ q.op = "delete" /\ r.op = "delete"
     /\ \/ Tier[q.type] > Tier[r.type]
        \/ q.type = r.type /\ q.at[2] < r.at[2]

(* The record whose turn it is.                                            *)
Turn == {r \in run.left : \A q \in run.left \ {r} : Before(r, q)}

Diff ==
  /\ At("diff")
  /\ run' = [run EXCEPT !.at = "apply", !.left = Batch(run)]
  /\ UNCHANGED <<cloud, cache, steady, runs, edits, faults>>

---------------------------------------------------------------------------
(* The writes.                                                             *)

(* Where a name is found on the target: among what this run created, then  *)
(* among the rows of the target, predefined ones too (_ref_name_index).    *)
Found(w, p) ==
  LET made == {c.at : c \in {d \in w.created : <<d.type, d.name>> = p}}
      rows == {k \in Held(Target) : <<TypeOf(k), Target[k].name>> = p}
  IN  IF made # {} THEN made ELSE rows

(* _remap_refs: every reference by name; what is found nowhere is dropped. *)
Kept(w, row) == {First(Found(w, p)) : p \in {q \in Named(row) : Found(w, q) # {}}}
Dropped(w, row) == {p \in Named(row) : Found(w, p) = {}}
ScopeLost(row, refs) ==
  \E ty \in Scope : /\ \E p \in Named(row) : p[1] = ty
                    /\ ~\E k \in refs : TypeOf(k) = ty

(* _apply_one: a rule created without the scope it had is disabled; an     *)
(* update carries the source's state.                                      *)
Payload(w, r) ==
  [r.row EXCEPT !.refs = Kept(w, r.row),
     !.on = @ /\ ~(r.op = "create" /\ ScopeLost(r.row, Kept(w, r.row)))]

(* The API: names are unique in a type, references exist, and what is      *)
(* referred to is not deleted.                                             *)
Fits(m, k, o) ==
  IF o = None THEN m[k] # None /\ ~\E j \in Held(m) : k \in m[j].refs
  ELSE /\ o.refs \subseteq Held(m)
       /\ ~\E j \in Held(m) \ {k} : /\ TypeOf(j) = TypeOf(k)
                                     /\ m[j].name = o.name

(* Where a record is written: a new id, or the row it matched.             *)
Place(r) ==
  IF r.op = "create"
    THEN {k \in Key : TypeOf(k) = r.type /\ cloud["target"][k] = None}
    ELSE {r.at}

(* One record: a call may be refused, or take effect and its answer be     *)
(* lost; either is recorded and the batch goes on.                         *)
ApplyOne ==
  /\ At("apply")
  /\ \E r \in Turn, answer \in {"done", "refused", "lost"} :
       LET places == Place(r)
           k == IF places = {} THEN r.at ELSE First(places)
           o == IF r.op = "delete" THEN None ELSE Payload(run, r)
           drops == r.op # "delete" /\ Dropped(run, r.row) # {}
           ok == /\ places # {} /\ Fits(cloud["target"], k, o)
                 /\ r.op = "create" \/ cloud["target"][k] # None
           told == ok /\ answer = "done"
       IN  /\ faults' = faults + IF answer = "done" THEN 0 ELSE 1
           /\ faults' <= MaxFaults
           /\ cloud' = IF ok /\ answer # "refused"
                         THEN [cloud EXCEPT !["target"][k] = o] ELSE cloud
           /\ run' = [run EXCEPT !.left = @ \ {r},
                !.errors = @ \/ ~told \/ drops,
                !.created = IF told /\ r.op = "create"
                  THEN @ \cup {[type |-> r.type, name |-> o.name, at |-> k]}
                  ELSE @,
                !.given = IF r.op = "rename" /\ ok /\ answer # "refused"
                  THEN @ \cup {<<r.type, cloud["target"][k].name>>} ELSE @]
  /\ steady' = None
  /\ UNCHANGED <<cache, runs, edits>>

(* The target is read again: what the run could have changed.              *)
Reimport ==
  /\ At("apply") /\ run.left = {}
  /\ Import("target", AllTypes(run), [run EXCEPT !.at = "report"])

(* History: an object that the run carries over refers to a name that a    *)
(* rename has taken from an object of the target.                          *)
Carried(w) == UNION {Wanted(w, ty) : ty \in AllTypes(w)}
Misled(w) == \E k \in Carried(w) : Named(Source[k]) \cap w.given # {}

(* The status: success unless there is an error or a warning.              *)
Report ==
  /\ At("report") /\ run' = [run EXCEPT !.at = "done"]
  /\ steady' = IF ~run.errors /\ run.clean /\ run.quiet /\ ~Misled(run)
                 THEN <<run.label, run.deletes>> ELSE None
  /\ UNCHANGED <<cloud, cache, runs, edits, faults>>

---------------------------------------------------------------------------
(* What else may happen.                                                   *)

Busy == run.at \notin {"idle", "done"}

(* An exception outside of the records ends the pipeline with an error.    *)
Break ==
  /\ Busy /\ ~At("report") /\ (At("apply") => run.left = {})
  /\ faults < MaxFaults /\ faults' = faults + 1
  /\ run' = [run EXCEPT !.at = "done", !.errors = TRUE]
  /\ UNCHANGED <<cloud, cache, steady, runs, edits>>

(* The server stops: nothing of the run is left.                           *)
Stop ==
  /\ Busy /\ faults < MaxFaults /\ faults' = faults + 1
  /\ run' = Idle
  /\ UNCHANGED <<cloud, cache, steady, runs, edits>>

(* An operator changes a tenant, but nothing that is predefined.           *)
EditTenant ==
  /\ edits < MaxEdits /\ edits' = edits + 1
  /\ \E e \in Edits :
       /\ Fits(cloud[e.tenant], e.at, e.object)
       /\ cloud[e.tenant][e.at] # None => ~cloud[e.tenant][e.at].system
       /\ cloud' = [cloud EXCEPT ![e.tenant][e.at] = e.object]
  /\ run' = [run EXCEPT !.quiet = FALSE]
  /\ steady' = None
  /\ UNCHANGED <<cache, runs, faults>>

Mirror(t) == [k \in Key |-> IF cloud[t][k] = None THEN None
                            ELSE Row(cloud[t], k)]

(* Either nothing was imported yet, or everything was.                     *)
Init ==
  /\ cloud \in Worlds
  /\ cache \in {[t \in Tenant |-> [k \in Key |-> None]],
                [t \in Tenant |-> Mirror(t)]}
  /\ run = Idle /\ steady = None
  /\ runs = 0 /\ edits = 0 /\ faults = 0

Pipeline == \/ ImportSource \/ ImportTarget \/ CloseMore \/ CloseDone
            \/ ImportPulled \/ ImportResolved \/ Diff \/ ApplyOne
            \/ Reimport \/ Report

Next == Start \/ Pipeline \/ Break \/ Stop \/ EditTenant

Spec == Init /\ [][Next]_vars
---------------------------------------------------------------------------
(* Properties.                                                             *)

TypeOK ==
  /\ DOMAIN cloud = Tenant /\ \A t \in Tenant : Sound(cloud[t])
  /\ DOMAIN cache = Tenant /\ \A t \in Tenant : cache[t] \in [Key -> Stored \cup {None}]
  /\ run.at \in {"idle", "source", "target", "close", "pulled", "resolve",
                 "diff", "apply", "report", "done"}
  /\ run.loaded \subseteq Selected \cup Replicable
  /\ run.resolve \subseteq Type \ Replicable
  /\ run.pulled \subseteq (Replicable \ Selected) \X Name
  /\ \A c \in run.created : TypeOf(c.at) = c.type

(* What the task covers of a tenant, seen as its import sees it.           *)
Covered(m) == {k \in Held(m) : /\ ~m[k].system /\ TypeOf(k) \in Selected
                               /\ run.label => m[k].label}

(* The same object on both tenants.                                        *)
Equal(x, y) == /\ x.name = y.name /\ x.content = y.content
               /\ Named(x) = Named(y) /\ x.label = y.label /\ x.on = y.on

(* A success means what it says: nobody having changed the tenants         *)
(* meanwhile and everything having been fetched, each selected object and  *)
(* each that was pulled in has an equal on the target by name, content and *)
(* the names it refers to, and with deletes nothing else is left, unless a *)
(* name that is referred to was taken by a rename (_execute_sync_pipeline, *)
(* _compute_diff, _remap_refs).                                            *)
SuccessMirrors ==
  LET there == Mirror("target")
      here  == Mirror("source")
  IN  At("done") /\ ~run.errors /\ run.clean /\ run.quiet /\ ~Misled(run) =>
        /\ \A k \in Covered(here) \cup
               {j \in Held(here) : <<TypeOf(j), here[j].name>> \in run.pulled} :
             \E j \in Held(there) : /\ TypeOf(j) = TypeOf(k)
                                    /\ Equal(there[j], here[k])
        /\ run.deletes => \A j \in Covered(there) :
             \E k \in Covered(here) : /\ TypeOf(j) = TypeOf(k)
                                      /\ Equal(there[j], here[k])

(* A run that follows a success nobody has disturbed finds nothing to do:  *)
(* what it wrote compares equal to what it read (_content_fingerprint).    *)
SteadyState ==
  At("apply") /\ run.clean /\ run.quiet /\ steady = <<run.label, run.deletes>>
    => run.left = {}

(* The pipeline changes the target, by a record; the row it was made from. *)
Writes == At("apply") /\ cloud' # cloud /\ edits' = edits
Written == {r.row : r \in run.left \ run'.left}
Changed == {k \in Held(cloud'["target"]) : cloud'["target"][k] # cloud["target"][k]}
Meant(k) == {<<TypeOf(j), cloud["target"][j].name>> : j \in cloud'["target"][k].refs}

(* Nothing lands pointing at the wrong object: while nobody else changes   *)
(* the tenants and no fetch fails, every reference a run writes leads to   *)
(* the namesake of what the source refers to, whatever the cache held of   *)
(* the target before the run, unless a rename of the run has taken the     *)
(* name from another object (step 6c, _remap_refs).                        *)
RefersToNamesakes ==
  [][Writes /\ run.clean /\ run.quiet =>
       \A k \in Changed, row \in Written :
         Named(row) \cap run.given = {} => Meant(k) \subseteq Named(row)]_vars

(* The docstring of _remap_refs says it of every run: a reference is       *)
(* rewritten by name, so that it does not silently scope to the wrong one. *)
NeverMisScoped ==
  [][Writes /\ run.clean /\ run.quiet =>
       \A k \in Changed, row \in Written : Meant(k) \subseteq Named(row)]_vars

(* Dependencies are never deleted, and of a type that was not selected     *)
(* only objects that some selected rule needs change, whatever fails       *)
(* (type_scope and sync_delete_types).                                     *)
OnlyWhatRulesNeed ==
  [][Writes =>
       \A k \in Key : TypeOf(k) \notin Selected =>
         \/ cloud'["target"][k] = cloud["target"][k]
         \/ /\ cloud'["target"][k] # None
            /\ <<TypeOf(k), cloud'["target"][k].name>> \in run.pulled]_vars

(* A rule is created without the scope it had only if it is disabled.      *)
(* CHANGELOG.md:16 adds that on an update the target's own state is left   *)
(* as the operator set it, so no run turns such a rule on.                 *)
NeverOnWithoutScope ==
  [][Writes => \A k \in Changed, row \in Written :
       ScopeLost(row, cloud'["target"][k].refs) /\ cloud'["target"][k].on
         => cloud["target"][k] # None /\ cloud["target"][k].on]_vars

=============================================================================
