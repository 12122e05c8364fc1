-------------------------- MODULE CandidatesProofs --------------------------
(***************************************************************************)
(* Proofs about Candidates: the types, that no proposal leaks into the     *)
(* live state, that an accepted candidate stays until it is pushed, that   *)
(* the rollback of a merge leaves no trace, that a whole merge lands and   *)
(* that a restore leaves what the snapshot says.                           *)
(*                                                                         *)
(* The invariant is the books of a push (CInv), a tidy tenant, that what a *)
(* merge has written so far can be undone (Undoable), each record once     *)
(* those after it are, that what is left of a whole one is going to be     *)
(* accepted (AllLand), each entry once those before it are, and that what  *)
(* is left of a restore makes the tenant what it was (AllRestored).        *)
(***************************************************************************)
EXTENDS Candidates, FiniteSetTheorems, WellFoundedInduction, TLAPS

---------------------------------------------------------------------------
(* The invariant.                                                          *)

Filed == [type : Type, id : Key, raw : Raw]

PlanEntry ==
  [type : Type, action : {"create", "update", "delete"}, name : Name, supported : BOOLEAN,
   target : Key \cup {None}, source : Key \cup {None}, desired : Raw \cup {None},
   pre : Raw \cup {None}]

PushRecord ==
  [type : Type, name : Name, action : {"create", "update", "delete"},
   status : {"manual", "applied", "failed"}, id : Key \cup {None}]

Table(rows) == rows \in [Type -> [Key -> Row \cup {None}]]

Book(against) ==
  [pc : {"idle", "push", "done", "undo", "undone"}, mode : {"merge", "restore"},
   plan : Seq(PlanEntry), records : Seq(PushRecord),
   id_map : SUBSET (Key \X Key), index : SUBSET (Type \X Name \X Key),
   against : {against}, k : Nat,
   sure : BOOLEAN, whole : BOOLEAN, all : BOOLEAN, quiet : BOOLEAN]

PushTyped == push \in Book(push.against)

Typed ==
  /\ tenant \in [Id -> Object \cup {None}]
  /\ made \in [Id -> [type : Type, name : Name] \cup {None}]
  /\ Table(row)
  /\ snap # None => snap \subseteq Filed /\ IsFiniteSet(snap)
  /\ import.types \subseteq Type /\ import.on \in BOOLEAN
  /\ import.on => import.view \in [Id -> Object \cup {None}]
  /\ count \in [{"acts", "noise", "imports", "pushes"} -> Nat]

(* An id is given to one type and name, for good.                          *)
Assigned(conf) ==
  \A i \in Id : conf[i] # None => made[i] = [type |-> conf[i].type, name |-> conf[i].raw.name]

Offered(t, name) == \E o \in UNION Offers : o.type = t /\ o.raw.name = name

(* Candidates are at the keys of their names, live rows at ids.            *)
StagedAt(t, k, r) == k = candidate_key[r.raw.name] /\ Offered(t, r.raw.name)

(* A row of another type than its id's no import has written, nor will.    *)
Strays(t, k, r) ==
  /\ ~r.live => r.synced = 0
  /\ r.live /\ made[k].type # t => r.synced = 0 /\ ~r.deleted

Sorted(rows) ==
  \A t \in Type, k \in Key : rows[t][k] # None =>
    /\ IF rows[t][k].live THEN Real(t, k, rows[t][k].raw) ELSE StagedAt(t, k, rows[t][k])
    /\ rows[t][k].status = "none" <=> rows[t][k].live
    /\ Strays(t, k, rows[t][k])

(* An update is of what has that name.                                     *)
Aims(e) ==
  /\ e.action # "delete" => e.desired \in Raw /\ e.desired.name = e.name
  /\ e.action = "update" =>
       /\ e.target \in Id /\ made[e.target] # None /\ made[e.target].name = e.name
       /\ e.pre \in Raw /\ e.pre.name = e.name

(* A record of a write names what was written.                             *)
Wrote(r) ==
  r.status = "applied" /\ r.action # "delete" =>
    r.id \in Id /\ made[r.id] = [type |-> r.type, name |-> r.name]

Of(r, e) == r.type = e.type /\ r.name = e.name /\ r.action = e.action

Pushes ==
  /\ \A n \in DOMAIN push.plan : Aims(push.plan[n])
  /\ \A n \in DOMAIN push.records : Wrote(push.records[n])
  /\ Len(push.records) <= Len(push.plan)
  /\ \A n \in DOMAIN push.records : Of(push.records[n], push.plan[n])
  /\ push.pc = "push" => push.k = Len(push.records) + 1
  /\ push.pc \in {"undo", "undone"} => push.k <= Len(push.records)
  /\ \A x \in push.index : x[3] = candidate_key[x[2]] /\ Offered(x[1], x[2])

CInv ==
  /\ Typed /\ PushTyped
  /\ Assigned(tenant) /\ (import.on => Assigned(import.view))
  /\ Sorted(row)
  /\ snap # None => \A c \in snap : Real(c.type, c.id, c.raw)
  /\ Pushes

(* A merge whose rollback is to leave no trace.                            *)
Calm ==
  /\ push.mode = "merge" /\ push.pc \in {"push", "undo", "undone"}
  /\ push.sure /\ push.quiet

Pending == IF push.pc = "push" THEN Len(push.records) ELSE push.k

Applied(records, n) == n \in DOMAIN records /\ records[n].status = "applied"
Made(records, n)    == Applied(records, n) /\ records[n].action = "create"

(* What the plan of a merge says, and its records.                         *)
Planned(was, e) ==
  /\ e.action # "delete" /\ (e.action = "create" /\ e.supported => e.type \in CanCreate)
  /\ e.action = "update" => was[e.target] = [type |-> e.type, raw |-> e.pre]

Merges(was, plan, records) ==
  /\ was \in [Id -> Object \cup {None}] /\ Tidy(was)
  /\ \A i \in Id : was[i] # None => made[i] # None
  /\ \A n \in DOMAIN plan : Planned(was, plan[n])
  /\ \A n \in DOMAIN records :
       Applied(records, n) =>
         /\ plan[n].supported
         /\ records[n].action = "update" => records[n].id = plan[n].target

(* What was there stays, under its name.                                   *)
Stays(was, conf) ==
  \A i \in Id : was[i] # None =>
    /\ conf[i] # None /\ conf[i].type = was[i].type /\ conf[i].raw.name = was[i].raw.name

(* What differs is told by one of the first k records.                     *)
Told(was, conf, records, k) ==
  \A i \in Id : conf[i] # was[i] => \E n \in 1..k : Applied(records, n) /\ records[n].id = i

(* What was created is new, there until it is undone, and created once.    *)
News(was, conf, records, k) ==
  \A n \in DOMAIN records : Made(records, n) =>
    /\ records[n].id \in Id /\ was[records[n].id] = None
    /\ n <= k => conf[records[n].id] # None /\ conf[records[n].id].type = records[n].type
    /\ \A m \in DOMAIN records :
         Made(records, m) /\ records[m].id = records[n].id => m = n

(* What refers to it was written later, and is undone before.              *)
Later(conf, records, k) ==
  \A n \in DOMAIN records, j \in Id :
    Made(records, n) /\ conf[j] # None /\ records[n].id \in conf[j].raw.refs =>
      \E m \in n + 1..k : Applied(records, m) /\ records[m].id = j

Traced(was, conf, records, k) ==
  /\ Stays(was, conf) /\ Told(was, conf, records, k)
  /\ News(was, conf, records, k) /\ Later(conf, records, k)

Undoable ==
  /\ push.pc = "undone" => push.k = 0
  /\ Calm => /\ Merges(push.against, push.plan, push.records)
             /\ Traced(push.against, tenant, push.records, Pending)

(* What a call for entry n is going to find: what is there, or mapped to   *)
(* what is, or created before.                                             *)
Resolves(conf, map, plan, k, n, r) ==
  \/ \E m \in map : m[1] = r
  \/ r \in Id /\ conf[r] # None
  \/ \E m \in k..n - 1 : plan[m].action = "create" /\ plan[m].source = r

Free(conf, e) ==
  \A i \in Id : conf[i] # None /\ conf[i].type = e.type => conf[i].raw.name # e.desired.name

Alike(d, e) ==
  /\ d.action = "create" /\ e.action = "create"
  /\ d.type = e.type /\ d.desired.name = e.desired.name

(* The calls from entry k on are going to be accepted.                     *)
Ready(conf, map, plan, k) ==
  /\ \A m \in map : m[2] \in Id /\ conf[m[2]] # None
  /\ \A n \in k..Len(plan) :
       /\ plan[n].supported /\ plan[n].action \in {"create", "update"}
       /\ plan[n].desired \in Raw
       /\ \A r \in plan[n].desired.refs : Resolves(conf, map, plan, k, n, r)
       /\ plan[n].action = "create" => plan[n].source # None /\ Free(conf, plan[n])
       /\ plan[n].action = "update" =>
            /\ plan[n].target \in Id /\ conf[plan[n].target] # None
            /\ conf[plan[n].target].type = plan[n].type
            /\ conf[plan[n].target].raw.name = plan[n].desired.name
  /\ \A m, n \in k..Len(plan) : Alike(plan[m], plan[n]) => m = n

(* A merge that is to land whole.                                          *)
Landing ==
  /\ push.mode = "merge" /\ push.pc \in {"push", "done"}
  /\ push.sure /\ push.quiet /\ push.whole

AllLand ==
  Landing =>
    /\ \A n \in DOMAIN push.records : push.records[n].status = "applied"
    /\ push.pc = "push" => Ready(tenant, push.id_map, push.plan, push.k)

Lives(rows, t, k) == rows[t][k] # None /\ rows[t][k].live

(* The rows of a snapshot are still there.                                 *)
Remains ==
  snap # None =>
    /\ \A c, d \in snap : c.type = d.type /\ c.id = d.id => c = d
    /\ \A c \in snap : made[c.id].type # c.type => Lives(row, c.type, c.id)

(* A restore that has met neither failures nor others so far.              *)
Restoring ==
  /\ push.mode = "restore" /\ push.pc \in {"push", "done"} /\ push.sure /\ push.quiet
  /\ \A n \in DOMAIN push.records : push.records[n].status = "applied"

(* What the plan of a restore recreates was there; so is what it deletes.  *)
Restores(was, plan) ==
  \A n \in DOMAIN plan :
    /\ plan[n].action = "create" =>
         /\ plan[n].source \in Id /\ made[plan[n].source] # None
         /\ made[plan[n].source] = [type |-> plan[n].type, name |-> plan[n].desired.name]
         /\ \E c \in was : c.type = plan[n].type /\ c.raw = plan[n].desired
    /\ plan[n].action = "delete" => plan[n].target \in Id /\ made[plan[n].target] # None

(* The same but for the ids of what it refers to.                          *)
Mirrors(raw, was) ==
  /\ raw.name = was.name /\ raw.cfg = was.cfg
  /\ \A i \in raw.refs \cup was.refs : i \in Id /\ made[i] # None
  /\ {made[i] : i \in raw.refs} = {made[i] : i \in was.refs}

Ahead(plan, k, action, i) ==
  {n \in k..Len(plan) : plan[n].action = action /\ plan[n].target = i}

(* Object i is what c was, or an update ahead is going to make it that.    *)
Settled(conf, plan, k, i, c) ==
  /\ conf[i] # None /\ conf[i].type = c.type
  /\ Ahead(plan, k, "delete", i) = {}
  /\ \A n \in Ahead(plan, k, "update", i) : plan[n].desired = c.raw
  /\ Ahead(plan, k, "update", i) # {} \/ Mirrors(conf[i].raw, c.raw)

Recreated(plan, k, c) ==
  \E n \in k..Len(plan) :
    plan[n].action = "create" /\ plan[n].type = c.type /\ plan[n].desired = c.raw

(* All that is there is going to be what was, and the other way round.     *)
Restored(was, conf, map, plan, k) ==
  /\ \A m \in map : m[1] \in Id /\ m[2] \in Id /\ made[m[1]] # None /\ made[m[2]] = made[m[1]]
  /\ \A i \in Id : conf[i] # None /\ conf[i].type \notin Foreign =>
       Ahead(plan, k, "delete", i) # {} \/ \E c \in was : Settled(conf, plan, k, i, c)
  /\ \A c \in was : c.type \notin Foreign =>
       Recreated(plan, k, c) \/ \E i \in Id : Settled(conf, plan, k, i, c)

AllRestored ==
  Restoring =>
    /\ Restores(push.against, push.plan)
    /\ Restored(push.against, tenant, push.id_map, push.plan, Len(push.records) + 1)
    /\ push.pc = "done" /\ push.all => Len(push.records) = Len(push.plan)

IInv == CInv /\ Tidy(tenant) /\ Undoable /\ AllLand /\ Remains /\ AllRestored

---------------------------------------------------------------------------
(* Numbers, recursion and sequences.                                       *)

\* A set of numbers has a least one.
LEMMA LeastNat ==
  ASSUME NEW T \in SUBSET Nat, T # {}
  PROVE  \E x \in T : \A y \in T : x <= y
<1> DEFINE R == {p \in Nat \X Nat : p[1] < p[2]}
<1>1. IsWellFoundedOn(R, Nat)
  BY NatLessThanWellFounded DEF OpToRel
<1>2. PICK x \in T : \A y \in T : ~(<<y, x>> \in R)
  BY <1>1, WFMin
<1>3. ASSUME NEW y \in T
      PROVE  x <= y
  <2>1. x \in Nat /\ y \in Nat
    OBVIOUS
  <2>2. <<y, x>> \notin R
    BY <1>2
  <2> QED
    BY <2>1, <2>2
<1> QED
  BY <1>3

\* What holds at the start and of each next number holds up to N.
LEMMA Climb ==
  ASSUME NEW N \in Nat, NEW S, 0 \in S, \A i \in 1..N : i - 1 \in S => i \in S
  PROVE  \A i \in 0..N : i \in S
<1> DEFINE T == {i \in 0..N : i \notin S}
<1>1. SUFFICES ASSUME T # {} PROVE FALSE
  OBVIOUS
<1>2. PICK x \in T : \A y \in T : x <= y
  <2>1. T \in SUBSET Nat
    OBVIOUS
  <2> HIDE DEF T
  <2> QED
    BY <1>1, <2>1, LeastNat
<1>3. x \in 1..N
  OBVIOUS
<1>4. x - 1 \notin T
  BY <1>2, <1>3
<1>5. x - 1 \in S
  BY <1>3, <1>4
<1>6. x \in S
  BY <1>3, <1>5
<1> QED
  BY <1>6

\* A recursive function on 0..N has a value.
Recurs(f, N, b, G) == f[0] = b /\ \A i \in 1..N : f[i] = G[<<i, f[i - 1]>>]

\* What a function G makes of a start, step by step, is such a function.
LEMMA Iterates ==
  ASSUME NEW N \in Nat, NEW D, NEW b \in D, NEW G \in [(1..N) \X D -> D]
  PROVE  \E f \in [0..N -> D] : Recurs(f, N, b, G)
<1> DEFINE Until(n, f) == f[0] = b /\ \A i \in 1..n : f[i] = G[<<i, f[i - 1]>>]
           S == {n \in 0..N : \E f \in [0..n -> D] : Until(n, f)}
<1>1. 0 \in S
  <2> DEFINE g == [i \in 0..0 |-> b]
  <2>1. g \in [0..0 -> D] /\ Until(0, g)
    OBVIOUS
  <2> HIDE DEF g, Until
  <2>2. \E f \in [0..0 -> D] : Until(0, f)
    BY <2>1
  <2> QED
    BY <2>2
<1>2. ASSUME NEW n \in 1..N, n - 1 \in S
      PROVE  n \in S
  <2>1. PICK f \in [0..(n - 1) -> D] : Until(n - 1, f)
    BY <1>2
  <2> DEFINE g == [i \in 0..n |-> IF i < n THEN f[i] ELSE G[<<n, f[n - 1]>>]]
  <2>2. f[n - 1] \in D
    <3>1. n - 1 \in 0..(n - 1)
      OBVIOUS
    <3> QED
      BY <3>1
  <2>3. g \in [0..n -> D]
    <3>1. G[<<n, f[n - 1]>>] \in D
      BY <2>2
    <3>2. \A i \in 0..n : i < n => f[i] \in D
      OBVIOUS
    <3> QED
      BY <3>1, <3>2
  <2>4. ASSUME NEW i \in 1..n
        PROVE  g[i] = G[<<i, g[i - 1]>>]
    <3>1. CASE i < n
      <4>1. g[i] = f[i] /\ g[i - 1] = f[i - 1] /\ i \in 1..(n - 1)
        BY <3>1
      <4> QED
        BY <2>1, <4>1
    <3>2. CASE i = n
      <4>1. g[n] = G[<<n, f[n - 1]>>] /\ g[n - 1] = f[n - 1]
        OBVIOUS
      <4> QED
        BY <3>2, <4>1
    <3> QED
      BY <3>1, <3>2
  <2>5. g[0] = b
    BY <2>1
  <2>6. Until(n, g)
    BY <2>4, <2>5
  <2> HIDE DEF g, Until
  <2>7. \E h \in [0..n -> D] : Until(n, h)
    BY <2>3, <2>6
  <2> QED
    BY <2>7
<1>3. N \in S
  <2> HIDE DEF S
  <2>1. \A i \in 0..N : i \in S
    BY <1>1, <1>2, Climb
  <2> QED
    BY <2>1
<1> QED
  BY <1>3 DEF Recurs

\* Flattening a sequence appends its elements one after another.
LEMMA FlattenIs ==
  ASSUME NEW V, NEW seqs \in Seq(Seq(V))
  PROVE  \E f \in [0..Len(seqs) -> Seq(V)] :
           /\ f[0] = <<>> /\ \A i \in 1..Len(seqs) : f[i] = f[i - 1] \o seqs[i]
           /\ FlattenSeq(seqs) = f[Len(seqs)]
<1> DEFINE N == Len(seqs)
           G == [p \in (1..N) \X Seq(V) |-> p[2] \o seqs[p[1]]]
<1>1. N \in Nat /\ \A i \in 1..N : seqs[i] \in Seq(V)
  OBVIOUS
<1>2. G \in [(1..N) \X Seq(V) -> Seq(V)]
  <2>1. \A s, t \in Seq(V) : s \o t \in Seq(V)
    OBVIOUS
  <2> HIDE DEF N
  <2> QED
    BY <1>1, <2>1
<1>3. PICK f \in [0..N -> Seq(V)] : f[0] = <<>> /\ \A i \in 1..N : f[i] = f[i - 1] \o seqs[i]
  <2>1. <<>> \in Seq(V)
    OBVIOUS
  <2>2. PICK f \in [0..N -> Seq(V)] : Recurs(f, N, <<>>, G)
    <3> HIDE DEF N, G
    <3> QED
      BY <1>1, <1>2, <2>1, Iterates
  <2>3. ASSUME NEW i \in 1..N
        PROVE  f[i] = f[i - 1] \o seqs[i]
    <3>1. i - 1 \in 0..N
      BY <1>1
    <3>2. <<i, f[i - 1]>> \in (1..N) \X Seq(V)
      BY <3>1
    <3>3. f[i] = G[<<i, f[i - 1]>>]
      BY <2>2 DEF Recurs
    <3> QED
      BY <3>2, <3>3
  <2>4. f[0] = <<>>
    BY <2>2 DEF Recurs
  <2> HIDE DEF N, G
  <2> QED
    BY <2>3, <2>4
<1>4. FlattenSeq(seqs) = f[N]
  <2>1. CASE N = 0
    <3>1. seqs = <<>> /\ f[N] = <<>>
      BY <1>3, <2>1
    <3> QED
      BY <2>1, <3>1 DEF FlattenSeq
  <2>2. CASE N # 0
    <3> DEFINE Rec(g) == g = [i \in 1..N |-> IF i = 1 THEN seqs[i] ELSE g[i - 1] \o seqs[i]]
               h == [i \in 1..N |-> f[i]]
               flatten == CHOOSE g : Rec(g)
    <3>1. Rec(h)
      <4>1. ASSUME NEW i \in 1..N
            PROVE  h[i] = IF i = 1 THEN seqs[i] ELSE h[i - 1] \o seqs[i]
        <5>1. f[i] = f[i - 1] \o seqs[i] /\ seqs[i] \in Seq(V)
          BY <1>1, <1>3
        <5>2. i = 1 => f[i] = seqs[i]
          <6>1. i = 1 => f[i - 1] = <<>>
            BY <1>3
          <6>2. \A s \in Seq(V) : <<>> \o s = s
            OBVIOUS
          <6> QED
            BY <5>1, <6>1, <6>2
        <5>3. i # 1 => i - 1 \in 1..N
          BY <1>1
        <5>4. h[i] = f[i] /\ (i # 1 => h[i - 1] = f[i - 1])
          <6> HIDE DEF N
          <6> QED
            BY <5>3
        <5> HIDE DEF h
        <5> QED
          BY <5>1, <5>2, <5>4
      <4> HIDE DEF N
      <4>2. h = [i \in 1..N |-> h[i]]
        OBVIOUS
      <4> HIDE DEF h
      <4> QED
        BY <4>1, <4>2
    <3>2. Rec(flatten)
      <4> HIDE DEF Rec, h
      <4> QED
        BY <3>1
    <3>3. FlattenSeq(seqs) = flatten[N]
      BY <2>2 DEF FlattenSeq
    <3> HIDE DEF flatten
    <3> DEFINE S == {i \in 0..N : i # 0 => flatten[i] = f[i]}
    <3>4. ASSUME NEW i \in 1..N, i - 1 \in S
          PROVE  i \in S
      <4>1. flatten[i] = IF i = 1 THEN seqs[i] ELSE flatten[i - 1] \o seqs[i]
        BY <3>2
      <4>2. f[i] = IF i = 1 THEN seqs[i] ELSE f[i - 1] \o seqs[i]
        <5>1. h[i] = IF i = 1 THEN seqs[i] ELSE h[i - 1] \o seqs[i]
          BY <3>1
        <5>2. i # 1 => i - 1 \in 1..N
          BY <1>1
        <5>3. h[i] = f[i] /\ (i # 1 => h[i - 1] = f[i - 1])
          <6> HIDE DEF N
          <6> QED
            BY <5>2
        <5> HIDE DEF h
        <5> QED
          BY <5>1, <5>3
      <4>3. i # 1 => flatten[i - 1] = f[i - 1]
        BY <3>4
      <4>4. flatten[i] = f[i]
        BY <4>1, <4>2, <4>3
      <4> HIDE DEF N
      <4> QED
        BY <1>1, <4>4
    <3>5. \A i \in 0..N : i \in S
      <4>1. 0 \in S
        BY <1>1
      <4> HIDE DEF S, N
      <4> QED
        BY <1>1, <3>4, <4>1, Climb
    <3>6. N \in 1..N
      BY <1>1, <2>2
    <3> HIDE DEF N
    <3> QED
      BY <3>3, <3>5, <3>6
  <2> QED
    BY <2>1, <2>2
<1> HIDE DEF N
<1>5. \E g \in [0..N -> Seq(V)] :
        /\ g[0] = <<>> /\ \A i \in 1..N : g[i] = g[i - 1] \o seqs[i]
        /\ FlattenSeq(seqs) = g[N]
  BY <1>3, <1>4
<1> QED
  BY <1>5 DEF N

\* Flattening sequences of values gives a sequence of these values.
LEMMA Flattened ==
  ASSUME NEW V, NEW seqs \in Seq(Seq(V))
  PROVE  FlattenSeq(seqs) \in Seq(V)
<1>1. PICK f \in [0..Len(seqs) -> Seq(V)] : FlattenSeq(seqs) = f[Len(seqs)]
  BY FlattenIs
<1>2. Len(seqs) \in 0..Len(seqs)
  OBVIOUS
<1> QED
  BY <1>1, <1>2

\* The elements of a finite set can be listed, each once.
LEMMA Listed ==
  ASSUME NEW S, IsFiniteSet(S)
  PROVE  /\ SetToSeq(S) \in Seq(S) /\ IsInjective(SetToSeq(S))
         /\ \A e \in S : \E x \in DOMAIN SetToSeq(S) : SetToSeq(S)[x] = e
<1> DEFINE n == Cardinality(S)
<1>1. n \in Nat /\ ExistsBijection(1..n, S)
  BY FS_CardinalityType
<1>2. PICK f \in Bijection(1..n, S) : TRUE
  BY <1>1 DEF ExistsBijection
<1>3. f \in [1..n -> S] /\ IsInjective(f)
  BY <1>2 DEF Bijection, Injection, IsInjective
<1>4. SetToSeq(S) \in [1..n -> S] /\ IsInjective(SetToSeq(S))
  BY <1>3 DEF SetToSeq
<1>5. SetToSeq(S) \in Injection(1..n, S)
  BY <1>4 DEF Injection
<1>6. Cardinality(1..n) = n
  <2>1. 1 \in Int /\ n \in Int
    BY <1>1
  <2>2. Cardinality(1..n) = IF 1 > n THEN 0 ELSE n - 1 + 1
    BY <2>1, FS_Interval
  <2> HIDE DEF n
  <2> QED
    BY <1>1, <2>2
<1>7. SetToSeq(S) \in Surjection(1..n, S)
  <2>1. PICK s \in Injection(1..n, S) : s = SetToSeq(S)
    BY <1>5
  <2>2. s \in Surjection(1..n, S)
    BY <1>6, FS_Injection
  <2> QED
    BY <2>1, <2>2
<1>8. \A e \in S : \E x \in 1..n : SetToSeq(S)[x] = e
  BY <1>7 DEF Surjection
<1> QED
  BY <1>1, <1>4, <1>8

\* The plan holds the entries that were classified and no others.
LEMMA InOrderIs ==
  ASSUME NEW order, NEW V, order \in Seq(V), NEW E, IsFiniteSet(E)
  PROVE  InOrder(order, E) \in Seq(E)
<1> DEFINE Part(n) == {e \in E : e.type = order[n]}
<1>1. ASSUME NEW n \in DOMAIN order
      PROVE  SetToSeq(Part(n)) \in Seq(E)
  <2>1. Part(n) \in SUBSET E
    OBVIOUS
  <2>2. IsFiniteSet(Part(n))
    <3> HIDE DEF Part
    <3> QED
      BY <2>1, FS_Subset
  <2>3. SetToSeq(Part(n)) \in Seq(Part(n))
    <3> HIDE DEF Part
    <3> QED
      BY <2>2, Listed
  <2> QED
    BY <2>1, <2>3
<1>2. [n \in DOMAIN order |-> SetToSeq(Part(n))] \in Seq(Seq(E))
  <2>1. DOMAIN order = 1..Len(order) /\ Len(order) \in Nat
    OBVIOUS
  <2> HIDE DEF Part
  <2> QED
    BY <1>1, <2>1
<1> QED
  BY <1>2, Flattened DEF InOrder

\* Entries, by types of which the first i of an order have been.
Placed(s, E, order, i) ==
  /\ s \in Seq(E) /\ IsInjective(s)
  /\ \A x \in DOMAIN s : \E a \in 1..i : s[x].type = order[a]
  /\ \A e \in E, a \in 1..i : e.type = order[a] => \E x \in DOMAIN s : s[x] = e
  /\ \A x, y \in DOMAIN s, a, b \in 1..i :
       s[x].type = order[a] /\ s[y].type = order[b] /\ a < b => x < y

\* The entries of the next type are appended.
LEMMA PlacedStep ==
  ASSUME NEW E, NEW V, NEW order \in Seq(V), IsInjective(order), NEW i \in DOMAIN order,
         NEW s, Placed(s, E, order, i - 1), NEW t \in Seq(E), IsInjective(t),
         \A x \in DOMAIN t : t[x].type = order[i],
         \A e \in E : e.type = order[i] => \E x \in DOMAIN t : t[x] = e
  PROVE  Placed(s \o t, E, order, i)
<1> DEFINE u == s \o t
           m == Len(s)
           n == Len(t)
<1>1. /\ s \in Seq(E) /\ m \in Nat /\ n \in Nat /\ DOMAIN s = 1..m /\ DOMAIN t = 1..n
      /\ i \in Nat \ {0} /\ DOMAIN order = 1..Len(order) /\ i <= Len(order)
      /\ Len(order) \in Nat
  BY DEF Placed
<1>2. /\ u \in Seq(E) /\ DOMAIN u = 1..m + n
      /\ \A x \in 1..m : x \in 1..m + n /\ u[x] = s[x]
      /\ \A x \in 1..n : m + x \in 1..m + n /\ u[m + x] = t[x]
  BY <1>1
<1>3. \A x \in DOMAIN u : x \in 1..m \/ \E y \in 1..n : x = m + y
  <2> TAKE x \in DOMAIN u
  <2>1. x \in 1..m \/ (x - m \in 1..n /\ x = m + (x - m))
    BY <1>1, <1>2
  <2> QED
    BY <2>1
<1> HIDE DEF u, m, n
<1>4. \A x \in 1..m : \E a \in 1..i - 1 : u[x].type = order[a]
  <2> TAKE x \in 1..m
  <2>1. PICK a \in 1..i - 1 : s[x].type = order[a]
    BY <1>1 DEF Placed
  <2> QED
    BY <1>2, <2>1
<1>5. \A x \in 1..n : u[m + x].type = order[i]
  <2> TAKE x \in 1..n
  <2>1. u[m + x] = t[x] /\ x \in DOMAIN t
    BY <1>1, <1>2
  <2> QED
    BY <2>1
<1>6. \A a, b \in 1..i : order[a] = order[b] => a = b
  BY <1>1 DEF IsInjective
<1>7. IsInjective(u)
  <2> SUFFICES ASSUME NEW x \in DOMAIN u, NEW y \in DOMAIN u, u[x] = u[y]
               PROVE  x = y
    BY DEF IsInjective
  <2>1. CASE x \in 1..m /\ y \in 1..m
    <3>1. s[x] = s[y]
      BY <1>2, <2>1
    <3> QED
      BY <1>1, <2>1, <3>1 DEF Placed, IsInjective
  <2>2. ASSUME x \in 1..m, NEW z \in 1..n, y = m + z
        PROVE  FALSE
    <3>1. PICK a \in 1..i - 1 : u[x].type = order[a]
      BY <1>4, <2>2
    <3>2. order[a] = order[i]
      BY <1>5, <2>2, <3>1
    <3>3. a \in 1..i /\ i \in 1..i /\ a # i
      BY <1>1, <3>1
    <3> QED
      BY <1>6, <3>2, <3>3
  <2>3. ASSUME y \in 1..m, NEW z \in 1..n, x = m + z
        PROVE  FALSE
    <3>1. PICK a \in 1..i - 1 : u[y].type = order[a]
      BY <1>4, <2>3
    <3>2. order[a] = order[i]
      BY <1>5, <2>3, <3>1
    <3>3. a \in 1..i /\ i \in 1..i /\ a # i
      BY <1>1, <3>1
    <3> QED
      BY <1>6, <3>2, <3>3
  <2>4. ASSUME NEW z \in 1..n, NEW w \in 1..n, x = m + z, y = m + w
        PROVE  x = y
    <3>1. t[z] = t[w]
      BY <1>2, <2>4
    <3>2. z = w
      BY <1>1, <3>1 DEF IsInjective
    <3> QED
      BY <2>4, <3>2
  <2> QED
    BY <1>3, <2>1, <2>2, <2>3, <2>4
<1>8. \A x \in DOMAIN u : \E a \in 1..i : u[x].type = order[a]
  <2>1. i \in 1..i /\ \A a \in 1..i - 1 : a \in 1..i
    BY <1>1
  <2> QED
    BY <1>3, <1>4, <1>5, <2>1
<1>9. ASSUME NEW e \in E, NEW a \in 1..i, e.type = order[a]
      PROVE  \E x \in DOMAIN u : u[x] = e
  <2>1. CASE a = i
    <3>1. PICK x \in 1..n : t[x] = e
      BY <1>1, <1>9, <2>1
    <3> QED
      BY <1>2, <3>1
  <2>2. CASE a # i
    <3>1. a \in 1..i - 1
      BY <1>1, <2>2
    <3>2. PICK x \in 1..m : s[x] = e
      BY <1>1, <1>9, <3>1 DEF Placed
    <3> QED
      BY <1>2, <3>2
  <2> QED
    BY <2>1, <2>2
<1>10. ASSUME NEW x \in DOMAIN u, NEW y \in DOMAIN u, NEW a \in 1..i, NEW b \in 1..i,
              u[x].type = order[a], u[y].type = order[b], a < b
       PROVE  x < y
  <2>1. x \in 1..m
    <3> SUFFICES ASSUME NEW z \in 1..n, x = m + z
                 PROVE  FALSE
      BY <1>3
    <3>1. order[a] = order[i]
      BY <1>5, <1>10
    <3>2. i \in 1..i
      BY <1>1
    <3>3. a = i
      BY <1>6, <3>1, <3>2
    <3> QED
      BY <1>1, <1>10, <3>3
  <2>2. CASE y \in 1..m
    <3>1. PICK c \in 1..i - 1 : u[y].type = order[c]
      BY <1>4, <2>2
    <3>2. c \in 1..i
      BY <1>1
    <3>3. b = c
      BY <1>6, <1>10, <3>1, <3>2
    <3>4. a \in 1..i - 1 /\ b \in 1..i - 1
      BY <1>1, <1>10, <3>3
    <3>5. s[x].type = order[a] /\ s[y].type = order[b]
      BY <1>2, <1>10, <2>1, <2>2
    <3> QED
      BY <1>1, <1>10, <2>1, <2>2, <3>4, <3>5 DEF Placed
  <2>3. ASSUME NEW z \in 1..n, y = m + z
        PROVE  x < y
    BY <1>1, <2>1, <2>3
  <2> QED
    BY <1>3, <2>2, <2>3
<1>11. Placed(u, E, order, i)
  BY <1>2, <1>7, <1>8, <1>9, <1>10 DEF Placed
<1> QED
  BY <1>11 DEF u

\* Every entry of a type in the order is in the plan, once, and those of an
\* earlier type are before those of a later one.
LEMMA InOrderPlaces ==
  ASSUME NEW V, NEW order \in Seq(V), IsInjective(order), NEW E, IsFiniteSet(E)
  PROVE  Placed(InOrder(order, E), E, order, Len(order))
<1> DEFINE Part(n) == {e \in E : e.type = order[n]}
           N == Len(order)
           parts == [n \in DOMAIN order |-> SetToSeq(Part(n))]
<1>1. N \in Nat /\ DOMAIN order = 1..N
  OBVIOUS
<1>2. ASSUME NEW n \in 1..N
      PROVE  /\ SetToSeq(Part(n)) \in Seq(E) /\ IsInjective(SetToSeq(Part(n)))
             /\ \A x \in DOMAIN SetToSeq(Part(n)) : SetToSeq(Part(n))[x].type = order[n]
             /\ \A e \in E : e.type = order[n] =>
                  \E x \in DOMAIN SetToSeq(Part(n)) : SetToSeq(Part(n))[x] = e
  <2>1. PICK P \in SUBSET E : P = Part(n)
    OBVIOUS
  <2>2. IsFiniteSet(P)
    BY FS_Subset
  <2>3. /\ SetToSeq(P) \in Seq(P) /\ IsInjective(SetToSeq(P))
        /\ \A e \in P : \E x \in DOMAIN SetToSeq(P) : SetToSeq(P)[x] = e
    BY <2>2, Listed
  <2>4. PICK s \in Seq(P) : s = SetToSeq(P)
    BY <2>3
  <2>5. s \in Seq(E) /\ \A x \in DOMAIN s : s[x] \in P
    OBVIOUS
  <2>6. (\A e \in P : e.type = order[n]) /\ (\A e \in E : e.type = order[n] => e \in P)
    BY <2>1
  <2> HIDE DEF Part
  <2> QED
    BY <2>1, <2>3, <2>4, <2>5, <2>6
<1>3. parts \in Seq(Seq(E)) /\ Len(parts) = N /\ \A n \in 1..N : parts[n] = SetToSeq(Part(n))
  <2> HIDE DEF Part, N
  <2> QED
    BY <1>1, <1>2
<1>4. PICK f \in [0..N -> Seq(E)] :
        /\ f[0] = <<>> /\ \A i \in 1..N : f[i] = f[i - 1] \o parts[i]
        /\ FlattenSeq(parts) = f[N]
  <2>1. PICK p \in Seq(Seq(E)) : p = parts
    BY <1>3
  <2> HIDE DEF parts
  <2>2. \E f \in [0..Len(p) -> Seq(E)] :
           /\ f[0] = <<>> /\ \A i \in 1..Len(p) : f[i] = f[i - 1] \o p[i]
           /\ FlattenSeq(p) = f[Len(p)]
    BY FlattenIs
  <2> HIDE DEF N
  <2> QED
    BY <1>3, <2>1, <2>2
<1>5. InOrder(order, E) = f[N]
  BY <1>4 DEF InOrder
<1> DEFINE S == {i \in 0..N : Placed(f[i], E, order, i)}
<1>6. 0 \in S
  <2>1. Placed(<<>>, E, order, 0)
    BY DEF Placed, IsInjective
  <2> HIDE DEF N
  <2> QED
    BY <1>1, <1>4, <2>1
<1>7. ASSUME NEW i \in 1..N, i - 1 \in S
      PROVE  i \in S
  <2>1. f[i] = f[i - 1] \o SetToSeq(Part(i))
    BY <1>3, <1>4
  <2>2. PICK t \in Seq(E) :
          /\ t = SetToSeq(Part(i)) /\ IsInjective(t)
          /\ \A x \in DOMAIN t : t[x].type = order[i]
          /\ \A e \in E : e.type = order[i] => \E x \in DOMAIN t : t[x] = e
    <3> HIDE DEF Part
    <3> QED
      BY <1>2
  <2>3. Placed(f[i - 1], E, order, i - 1) /\ i \in DOMAIN order
    BY <1>1, <1>7
  <2>4. Placed(f[i - 1] \o t, E, order, i)
    BY <2>2, <2>3, PlacedStep
  <2>5. Placed(f[i], E, order, i)
    BY <2>1, <2>2, <2>4
  <2>6. i \in 0..N
    BY <1>1
  <2> HIDE DEF N, Part
  <2> QED
    BY <2>5, <2>6
<1>8. \A i \in 0..N : i \in S
  <2> HIDE DEF S, N
  <2> QED
    BY <1>1, <1>6, <1>7, Climb
<1> HIDE DEF N
<1>9. Placed(f[N], E, order, N)
  BY <1>1, <1>8
<1> QED
  BY <1>5, <1>9 DEF N

---------------------------------------------------------------------------
(* Keys, and calls of the API.                                             *)

\* Keys tell names apart and are no ids.
LEMMA KeysApart ==
  /\ \A n \in Name : candidate_key[n] \in Key /\ candidate_key[n] \notin Id
  /\ \A m, n \in Name : candidate_key[m] = candidate_key[n] => m = n
  /\ Id \subseteq Key
<1>1. \A n \in Name : candidate_key[n] \in Range(candidate_key)
  BY CandidateAssumption DEF Range
<1>2. \A m, n \in Name : candidate_key[m] = candidate_key[n] => m = n
  BY CandidateAssumption DEF IsInjective
<1> QED
  BY <1>1, <1>2, CandidateAssumption DEF Key

\* What is proposed has a type and a name.
LEMMA OffersTyped ==
  /\ \A offer \in Offers : \A o \in offer : o \in Object /\ o.type \in Type
                                            /\ o.raw \in Raw /\ o.raw.name \in Name
  /\ \A offer \in Offers : \A o \in offer : Offered(o.type, o.raw.name)
BY StartAssumption DEF Object, Raw, Offered

\* What made the ids stays.
Grows == \A i \in Id : made[i] # None => made'[i] = made[i]

\* A row that was real stays real.
LEMMA RealStays ==
  ASSUME Grows, NEW t, NEW k, NEW raw, Real(t, k, raw)
  PROVE  Real(t, k, raw)'
BY DEF Grows, Real

\* The tenant gives out an id that it has not given before.
LEMMA FreshIdIsNew ==
  ASSUME Unused # {}
  PROVE  FreshId \in Id /\ made[FreshId] = None
BY DEF FreshId, Unused

\* What an accepted call writes: the tenant stays tidy and its ids keep
\* their types and names.
LEMMA AcceptedWrite ==
  ASSUME Typed, Assigned(tenant), Tidy(tenant),
         NEW action \in {"create", "update", "delete"}, NEW type \in Type, NEW id, NEW raw,
         action # "delete" => raw \in Raw,
         action = "create" => id \in Id /\ made[id] = None,
         action = "update" => made[id].name = raw.name,
         Accepts(action, type, id, raw), Written(action, type, id, raw)
  PROVE  /\ id \in Id
         /\ tenant' = [tenant EXCEPT ![id] = IF action = "delete" THEN None
                                             ELSE [type |-> type, raw |-> raw]]
         /\ tenant' \in [Id -> Object \cup {None}]
         /\ made' \in [Id -> [type : Type, name : Name] \cup {None}]
         /\ Grows /\ Assigned(tenant)' /\ Tidy(tenant)'
         /\ action # "delete" => made'[id] = [type |-> type, name |-> raw.name]
<1>1. id \in Id
  BY DEF Accepts, Objects
<1>2. tenant' = [tenant EXCEPT ![id] = IF action = "delete" THEN None
                                       ELSE [type |-> type, raw |-> raw]]
  BY DEF Written
<1>3. tenant \in [Id -> Object \cup {None}]
      /\ made \in [Id -> [type : Type, name : Name] \cup {None}]
  BY DEF Typed
<1>4. action # "delete" => [type |-> type, raw |-> raw] \in Object /\ raw.name \in Name
                            /\ [type |-> type, raw |-> raw] # None
                            /\ [type |-> type, name |-> raw.name] # None
  BY NoneAssumption DEF Object, Raw
<1>5. tenant' \in [Id -> Object \cup {None}]
  BY <1>2, <1>3, <1>4
<1>6. made' \in [Id -> [type : Type, name : Name] \cup {None}]
  BY <1>3, <1>4 DEF Written
<1>7. Grows
  BY <1>1, <1>3 DEF Written, Grows
<1>8. action # "delete" => made'[id] = [type |-> type, name |-> raw.name]
  <2>1. CASE action = "create"
    BY <1>1, <1>3, <2>1 DEF Written
  <2>2. CASE action = "update"
    <3>1. tenant[id] # None /\ tenant[id].type = type
      BY <2>2 DEF Accepts, Objects, Exists
    <3>2. made[id] = [type |-> type, name |-> tenant[id].raw.name]
      BY <1>1, <3>1 DEF Assigned
    <3>3. made[id] = [type |-> type, name |-> raw.name]
      BY <2>2, <3>2
    <3> QED
      BY <2>2, <3>3 DEF Written
  <2> QED
    BY <2>1, <2>2
<1>9. Assigned(tenant)'
  <2> SUFFICES ASSUME NEW i \in Id, tenant'[i] # None
               PROVE  made'[i] = [type |-> tenant'[i].type, name |-> tenant'[i].raw.name]
    BY DEF Assigned
  <2>1. CASE i = id
    <3>1. action # "delete" /\ tenant'[i] = [type |-> type, raw |-> raw]
      BY <1>1, <1>2, <1>3, <2>1
    <3> QED
      BY <1>8, <2>1, <3>1
  <2>2. CASE i # id
    <3>1. tenant'[i] = tenant[i]
      BY <1>2, <1>3, <2>2
    <3>2. made[i] = [type |-> tenant[i].type, name |-> tenant[i].raw.name]
      BY <3>1 DEF Assigned
    <3>3. made[i] \in [type : Type, name : Name]
      <4>1. tenant[i] \in Object
        BY <1>3, <3>1
      <4> QED
        BY <3>2, <4>1 DEF Object, Raw
    <3>4. made'[i] = made[i]
      BY <1>7, <3>3, NoneAssumption DEF Grows
    <3> QED
      BY <3>1, <3>2, <3>4
  <2> QED
    BY <2>1, <2>2
<1>10. Tidy(tenant)'
  <2> SUFFICES ASSUME NEW i \in Id, tenant'[i] # None
               PROVE  /\ \A j \in tenant'[i].raw.refs : j \in Id /\ tenant'[j] # None
                      /\ \A j \in Id : tenant'[j] # None /\ tenant'[j].type = tenant'[i].type
                           /\ tenant'[j].raw.name = tenant'[i].raw.name => j = i
    BY DEF Tidy
  <2>1. \A j \in Id : j # id => tenant'[j] = tenant[j]
    BY <1>2, <1>3
  <2>2. tenant'[id] = IF action = "delete" THEN None ELSE [type |-> type, raw |-> raw]
    BY <1>1, <1>2, <1>3
  <2>3. ASSUME NEW j \in tenant'[i].raw.refs
        PROVE  j \in Id /\ tenant'[j] # None
    <3>1. j \in Id /\ tenant[j] # None
      <4>1. CASE i = id
        BY <2>2, <4>1 DEF Accepts, Objects, Exists
      <4>2. CASE i # id
        BY <2>1, <2>3, <4>2 DEF Tidy
      <4> QED
        BY <4>1, <4>2
    <3>2. ~(action = "delete" /\ j = id)
      <4> SUFFICES ASSUME action = "delete", j = id
                   PROVE  FALSE
        OBVIOUS
      <4>1. i # id
        BY <2>2
      <4>2. tenant[i] # None /\ id \in tenant[i].raw.refs
        BY <2>1, <2>3, <4>1
      <4> QED
        BY <4>2 DEF Accepts, Objects, Exists
    <3> QED
      BY <1>4, <2>1, <2>2, <3>1, <3>2
  <2>4. ASSUME NEW j \in Id, tenant'[j] # None, tenant'[j].type = tenant'[i].type,
               tenant'[j].raw.name = tenant'[i].raw.name
        PROVE  j = i
    <3>1. CASE i # id /\ j # id
      <4>1. tenant'[i] = tenant[i] /\ tenant'[j] = tenant[j]
        BY <2>1, <3>1
      <4> QED
        BY <2>4, <4>1 DEF Tidy
    <3>2. ASSUME NEW g \in Id, g # id, tenant'[g] # None, tenant'[id] # None,
                 tenant'[g].type = tenant'[id].type,
                 tenant'[g].raw.name = tenant'[id].raw.name
          PROVE  FALSE
      <4>1. tenant'[g] = tenant[g] /\ action # "delete"
            /\ tenant'[id] = [type |-> type, raw |-> raw]
        BY <2>1, <2>2, <3>2
      <4>2. g \in Objects \ {id}
        BY <3>2, <4>1 DEF Objects, Exists
      <4> QED
        BY <3>2, <4>1, <4>2 DEF Accepts
    <3> QED
      BY <1>1, <2>4, <3>1, <3>2
  <2> QED
    BY <2>3, <2>4
<1> QED
  BY <1>1, <1>2, <1>5, <1>6, <1>7, <1>8, <1>9, <1>10

---------------------------------------------------------------------------
(* What is classified is finite.                                           *)

\* The image of a finite set is finite.
LEMMA FiniteImage ==
  ASSUME NEW S, IsFiniteSet(S), NEW f, f = [x \in S |-> f[x]], NEW T, T = {f[x] : x \in S}
  PROVE  IsFiniteSet(T)
<1>1. f \in [S -> T]
  OBVIOUS
<1>2. f \in Surjection(S, T)
  BY <1>1 DEF Surjection
<1> QED
  BY <1>2, FS_Surjection

\* There are finitely many types and keys.
LEMMA FiniteTables ==
  IsFiniteSet(Type) /\ IsFiniteSet(Key)
<1>1. IsFiniteSet(Range(Order))
  <2>1. DOMAIN Order = 1..Len(Order) /\ Len(Order) \in Nat
    BY CandidateAssumption
  <2>2. IsFiniteSet(DOMAIN Order)
    BY <2>1, FS_Interval
  <2>3. Order = [n \in DOMAIN Order |-> Order[n]]
    BY CandidateAssumption
  <2> QED
    BY <2>2, <2>3, FiniteImage DEF Range
<1>2. IsFiniteSet(Range(candidate_key))
  <2>1. /\ DOMAIN candidate_key = Name /\ IsFiniteSet(Name)
        /\ candidate_key = [n \in Name |-> candidate_key[n]]
    BY CandidateAssumption
  <2> QED
    BY <2>1, FiniteImage DEF Range
<1> QED
  BY <1>1, <1>2, CandidateAssumption, FS_Union DEF Type, Key

\* The live state of a table is finite, and each object of it is a row.
LEMMA CurrentIs ==
  ASSUME Table(row)
  PROVE  /\ Current \subseteq Filed /\ IsFiniteSet(Current)
         /\ \A c \in Current : row[c.type][c.id] # None /\ row[c.type][c.id].live
                               /\ row[c.type][c.id].raw = c.raw
<1> DEFINE P == {p \in Type \X Key : LET r == row[p[1]][p[2]] IN
                   r # None /\ r.live /\ ~r.deleted}
           f == [p \in P |-> [type |-> p[1], id |-> p[2], raw |-> row[p[1]][p[2]].raw]]
<1>1. Current = {f[p] : p \in P}
  BY DEF Current
<1>2. IsFiniteSet(P)
  <2>1. IsFiniteSet(Type \X Key)
    BY FiniteTables, FS_Product
  <2>2. P \in SUBSET (Type \X Key)
    OBVIOUS
  <2> HIDE DEF P
  <2> QED
    BY <2>1, <2>2, FS_Subset
<1>3. IsFiniteSet(Current)
  <2>1. f = [p \in P |-> f[p]]
    OBVIOUS
  <2> HIDE DEF f, P
  <2> QED
    BY <1>1, <1>2, <2>1, FiniteImage
<1>4. ASSUME NEW c \in Current
      PROVE  /\ c \in Filed /\ row[c.type][c.id] # None /\ row[c.type][c.id].live
             /\ row[c.type][c.id].raw = c.raw
  <2>1. PICK p \in P : c = [type |-> p[1], id |-> p[2], raw |-> row[p[1]][p[2]].raw]
    BY DEF Current
  <2>2. p[1] \in Type /\ p[2] \in Key /\ row[p[1]][p[2]] # None /\ row[p[1]][p[2]].live
    OBVIOUS
  <2>3. row[p[1]][p[2]] \in Row
    BY <2>2 DEF Table
  <2>4. row[p[1]][p[2]].raw \in Raw
    BY <2>3 DEF Row
  <2> HIDE DEF P
  <2> QED
    BY <2>1, <2>2, <2>4 DEF Filed
<1> QED
  BY <1>3, <1>4

---------------------------------------------------------------------------
(* What a push begins with.                                                *)

\* An accepted candidate is where its name is.
LEMMA IncludedIs ==
  ASSUME Table(row), Sorted(row), NEW selection, selection \subseteq Type \X Key,
         NEW p \in Included(selection)
  PROVE  /\ p[1] \in Type /\ p[2] \in Key /\ p = <<p[1], p[2]>>
         /\ Staging(p) \in Raw /\ Staging(p).name \in Name
         /\ p[2] = candidate_key[Staging(p).name] /\ Offered(p[1], Staging(p).name)
<1>1. p \in selection /\ row[p[1]][p[2]] # None /\ ~row[p[1]][p[2]].live
  BY DEF Included, Accepted, Candidate, CandidateKeys
<1>2. p[1] \in Type /\ p[2] \in Key /\ p = <<p[1], p[2]>>
  BY <1>1
<1>3. row[p[1]][p[2]] \in Row
  BY <1>1, <1>2 DEF Table
<1>4. Staging(p) \in Raw /\ Staging(p).name \in Name
  BY <1>3 DEF Staging, Row, Raw
<1>5. StagedAt(p[1], p[2], row[p[1]][p[2]])
  BY <1>1, <1>2 DEF Sorted
<1> QED
  BY <1>2, <1>4, <1>5 DEF StagedAt, Staging

\* A match is a live row of that type and name.
LEMMA MatchIs ==
  ASSUME Table(row), Sorted(row), NEW selection, selection \subseteq Type \X Key,
         NEW p \in Included(selection), Matches(p[1], p[2]) # {}
  PROVE  /\ Match(p) \in Current /\ Match(p) \in Filed
         /\ Match(p).type = p[1] /\ Match(p).raw.name = Staging(p).name
         /\ Match(p).id \in Id /\ made[Match(p).id] # None
         /\ made[Match(p).id].name = Staging(p).name
<1>1. Match(p) \in Matches(p[1], p[2])
  BY DEF Match
<1>2. /\ Match(p) \in Current /\ Match(p).type = p[1] /\ Match(p).raw.name = Staging(p).name
  BY <1>1 DEF Matches, Staging
<1>3. /\ Match(p) \in Filed
      /\ row[Match(p).type][Match(p).id] # None /\ row[Match(p).type][Match(p).id].live
      /\ row[Match(p).type][Match(p).id].raw = Match(p).raw
  BY <1>2, CurrentIs
<1>4. Match(p).type \in Type /\ Match(p).id \in Key
  BY <1>3 DEF Filed
<1>5. Real(Match(p).type, Match(p).id, Match(p).raw)
  <2>1. Real(Match(p).type, Match(p).id, row[Match(p).type][Match(p).id].raw)
    BY <1>3, <1>4 DEF Sorted
  <2> QED
    BY <1>3, <2>1
<1> QED
  BY <1>2, <1>3, <1>5 DEF Real

\* What a merge may plan.
Merging(e) ==
  /\ e \in PlanEntry /\ Aims(e) /\ e.action # "delete"
  /\ e.action = "create" /\ e.supported => e.type \in CanCreate
  /\ e.action = "update" =>
       \E c \in Current : c.type = e.type /\ c.id = e.target /\ c.raw = e.pre

\* A candidate that the cache has no namesake of may be created.
LEMMA CreatingIs ==
  ASSUME Table(row), Sorted(row), NEW selection, selection \subseteq Type \X Key,
         NEW p \in Included(selection)
  PROVE  Merging(Creating(p))
<1>1. /\ p[1] \in Type /\ p[2] \in Key
      /\ Staging(p) \in Raw /\ Staging(p).name \in Name
  BY IncludedIs
<1> DEFINE e == Creating(p)
<1>2. /\ e.type = p[1] /\ e.action = "create" /\ e.name = Staging(p).name
      /\ e.supported = (p[1] \in CanCreate) /\ e.desired = Staging(p)
  BY DEF Creating, Entry
<1>3. e \in PlanEntry
  BY <1>1 DEF Creating, Entry, PlanEntry
<1> HIDE DEF e
<1>4. Aims(e)
  BY <1>1, <1>2 DEF Aims
<1>5. e.supported => e.type \in CanCreate
  BY <1>2
<1>6. Merging(e)
  BY <1>2, <1>3, <1>4, <1>5 DEF Merging
<1> QED
  BY <1>6 DEF e

\* A candidate that the cache has a namesake of may update it.
LEMMA UpdatingIs ==
  ASSUME Table(row), Sorted(row), NEW selection, selection \subseteq Type \X Key,
         NEW p \in Included(selection), Matches(p[1], p[2]) # {}
  PROVE  Merging(Updating(p))
<1>1. /\ p[1] \in Type /\ p[2] \in Key
      /\ Staging(p) \in Raw /\ Staging(p).name \in Name
  BY IncludedIs
<1>2. /\ Match(p) \in Current /\ Match(p) \in Filed
      /\ Match(p).type = p[1] /\ Match(p).raw.name = Staging(p).name
      /\ Match(p).id \in Id /\ made[Match(p).id] # None
      /\ made[Match(p).id].name = Staging(p).name
  BY MatchIs
<1>3. Match(p).raw \in Raw /\ Match(p).id \in Key
  BY <1>2 DEF Filed
<1> DEFINE e == Updating(p)
<1>4. /\ e.type = p[1] /\ e.action = "update" /\ e.name = Staging(p).name
      /\ e.desired = Staging(p) /\ e.target = Match(p).id /\ e.pre = Match(p).raw
  BY DEF Updating, Entry
<1>5. e \in PlanEntry
  BY <1>1, <1>3 DEF Updating, Entry, PlanEntry
<1> HIDE DEF e
<1>6. Aims(e)
  BY <1>1, <1>2, <1>3, <1>4 DEF Aims
<1>7. \E c \in Current : c.type = e.type /\ c.id = e.target /\ c.raw = e.pre
  BY <1>2, <1>4
<1>8. Merging(e)
  BY <1>4, <1>5, <1>6, <1>7 DEF Merging
<1> QED
  BY <1>8 DEF e

\* A merge's plan holds such entries and no others.
LEMMA MergePlan ==
  ASSUME Table(row), Sorted(row), NEW selection, selection \subseteq Type \X Key,
         NEW S \in SUBSET Included(selection), NEW C \in SUBSET Included(selection),
         \A p \in S : Matches(p[1], p[2]) # {}
  PROVE  LET plan == InOrder(Order, {Creating(p) : p \in C})
                       \o InOrder(Order, {Updating(p) : p \in S})
         IN  plan \in Seq(PlanEntry) /\ \A n \in DOMAIN plan : Merging(plan[n])
<1> DEFINE f == [p \in C |-> Creating(p)]
           g == [p \in S |-> Updating(p)]
           cs == {Creating(p) : p \in C}
           us == {Updating(p) : p \in S}
           E == {e \in PlanEntry : Merging(e)}
<1>1. IsFiniteSet(C) /\ IsFiniteSet(S)
  <2>1. IsFiniteSet(Type \X Key)
    BY FiniteTables, FS_Product
  <2>2. C \in SUBSET (Type \X Key) /\ S \in SUBSET (Type \X Key)
    BY DEF Included
  <2> QED
    BY <2>1, <2>2, FS_Subset
<1>2. IsFiniteSet(cs)
  <2>1. f = [p \in C |-> f[p]] /\ cs = {f[p] : p \in C}
    OBVIOUS
  <2> HIDE DEF f, cs
  <2> QED
    BY <1>1, <2>1, FiniteImage
<1>3. IsFiniteSet(us)
  <2>1. g = [p \in S |-> g[p]] /\ us = {g[p] : p \in S}
    OBVIOUS
  <2> HIDE DEF g, us
  <2> QED
    BY <1>1, <2>1, FiniteImage
<1>4. InOrder(Order, cs) \in Seq(cs) /\ InOrder(Order, us) \in Seq(us)
  <2> HIDE DEF cs, us
  <2> QED
    BY <1>2, <1>3, CandidateAssumption, InOrderIs
<1>5. cs \subseteq E /\ us \subseteq E
  <2>1. \A e : Merging(e) => e \in PlanEntry
    BY DEF Merging
  <2>2. \A p \in C : Merging(Creating(p))
    BY CreatingIs
  <2>3. \A p \in S : Merging(Updating(p))
    BY UpdatingIs
  <2> QED
    BY <2>1, <2>2, <2>3
<1>6. InOrder(Order, cs) \o InOrder(Order, us) \in Seq(E)
  <2> HIDE DEF cs, us, E
  <2>1. InOrder(Order, cs) \in Seq(E) /\ InOrder(Order, us) \in Seq(E)
    BY <1>4, <1>5
  <2> QED
    BY <2>1
<1>7. \A plan \in Seq(E) : plan \in Seq(PlanEntry) /\ \A n \in DOMAIN plan : Merging(plan[n])
  <2>1. E \subseteq PlanEntry /\ \A e \in E : Merging(e)
    OBVIOUS
  <2> HIDE DEF E
  <2> QED
    BY <2>1
<1> QED
  <2> HIDE DEF E
  <2> QED
    BY <1>6, <1>7

\* A restore may delete what the snapshot lacks.
LEMMA RemovingIs ==
  ASSUME NEW c \in Filed
  PROVE  Removing(c) \in PlanEntry /\ Aims(Removing(c))
<1>1. c.type \in Type /\ c.id \in Key /\ c.raw.name \in Name
  BY DEF Filed, Raw
<1> QED
  BY <1>1 DEF Removing, Entry, PlanEntry, Aims

\* A restore may create what the cache lacks.
LEMMA RecreatingIs ==
  ASSUME NEW c \in Filed
  PROVE  Recreating(c) \in PlanEntry /\ Aims(Recreating(c))
<1>1. c.type \in Type /\ c.id \in Key /\ c.raw \in Raw /\ c.raw.name \in Name
  BY DEF Filed, Raw
<1> QED
  BY <1>1 DEF Recreating, Entry, PlanEntry, Aims

\* A restore may update what differs: it has one id, and so one name.
LEMMA ModifiedIs ==
  ASSUME NEW was \in Filed, NEW now \in Filed, was.id = now.id,
         Real(was.type, was.id, was.raw), Real(now.type, now.id, now.raw)
  PROVE  Modified(was, now) \in PlanEntry /\ Aims(Modified(was, now))
<1>1. /\ was.type \in Type /\ was.id \in Id /\ was.id \in Key
      /\ was.raw \in Raw /\ now.raw \in Raw /\ now.raw.name \in Name
      /\ made[was.id] # None /\ was.raw.name = now.raw.name /\ made[was.id].name = now.raw.name
  BY DEF Filed, Raw, Real
<1> QED
  BY <1>1 DEF Modified, Entry, PlanEntry, Aims

\* The parts of a restore are finite.
LEMMA PartsFinite ==
  ASSUME Table(row), IsFiniteSet(snap),
         NEW D \in SUBSET Current, NEW C \in SUBSET snap, NEW U \in SUBSET (snap \X Current)
  PROVE  /\ IsFiniteSet({Removing(c) : c \in D}) /\ IsFiniteSet({Recreating(c) : c \in C})
         /\ IsFiniteSet({Modified(p[1], p[2]) : p \in U})
<1> DEFINE f == [c \in D |-> Removing(c)]
           g == [c \in C |-> Recreating(c)]
           h == [p \in U |-> Modified(p[1], p[2])]
           ds == {Removing(c) : c \in D}
           cs == {Recreating(c) : c \in C}
           us == {Modified(p[1], p[2]) : p \in U}
<1>1. IsFiniteSet(D) /\ IsFiniteSet(C) /\ IsFiniteSet(U)
  <2>1. IsFiniteSet(Current)
    BY CurrentIs
  <2>2. IsFiniteSet(snap \X Current)
    BY <2>1, FS_Product
  <2> QED
    BY <2>1, <2>2, FS_Subset
<1>2. IsFiniteSet(ds)
  <2>1. f = [c \in D |-> f[c]] /\ ds = {f[c] : c \in D}
    OBVIOUS
  <2> HIDE DEF f, ds
  <2> QED
    BY <1>1, <2>1, FiniteImage
<1>3. IsFiniteSet(cs)
  <2>1. g = [c \in C |-> g[c]] /\ cs = {g[c] : c \in C}
    OBVIOUS
  <2> HIDE DEF g, cs
  <2> QED
    BY <1>1, <2>1, FiniteImage
<1>4. IsFiniteSet(us)
  <2>1. h = [p \in U |-> h[p]] /\ us = {h[p] : p \in U}
    OBVIOUS
  <2> HIDE DEF h, us
  <2> QED
    BY <1>1, <2>1, FiniteImage
<1> QED
  BY <1>2, <1>3, <1>4

\* A restore's plan holds such entries and no others.
LEMMA RestorePlan ==
  ASSUME Table(row), Sorted(row), snap \subseteq Filed, IsFiniteSet(snap),
         \A c \in snap : Real(c.type, c.id, c.raw),
         NEW D \in SUBSET Current, NEW C \in SUBSET snap, NEW U \in SUBSET (snap \X Current),
         \A p \in U : p[1].id = p[2].id
  PROVE  LET plan == InOrder(Reverse(Order), {Removing(c) : c \in D})
                       \o InOrder(Order, {Recreating(c) : c \in C})
                       \o InOrder(Order, {Modified(p[1], p[2]) : p \in U})
         IN  plan \in Seq(PlanEntry) /\ \A n \in DOMAIN plan : Aims(plan[n])
<1> DEFINE ds == {Removing(c) : c \in D}
           cs == {Recreating(c) : c \in C}
           us == {Modified(p[1], p[2]) : p \in U}
           E == {e \in PlanEntry : Aims(e)}
<1>1. /\ Current \subseteq Filed /\ IsFiniteSet(Current)
      /\ \A c \in Current : row[c.type][c.id] # None /\ row[c.type][c.id].live
                            /\ row[c.type][c.id].raw = c.raw
  BY CurrentIs
<1>2. \A c \in Current : Real(c.type, c.id, c.raw)
  <2> TAKE c \in Current
  <2>1. c.type \in Type /\ c.id \in Key
    BY <1>1 DEF Filed
  <2>2. Real(c.type, c.id, row[c.type][c.id].raw)
    BY <1>1, <2>1 DEF Sorted
  <2> QED
    BY <1>1, <2>2
<1>3. IsFiniteSet(ds) /\ IsFiniteSet(cs) /\ IsFiniteSet(us)
  <2> HIDE DEF ds, cs, us
  <2> QED
    BY PartsFinite DEF ds, cs, us
<1>4. /\ InOrder(Reverse(Order), ds) \in Seq(ds) /\ InOrder(Order, cs) \in Seq(cs)
      /\ InOrder(Order, us) \in Seq(us)
  <2>1. Reverse(Order) \in Seq(Range(Order)) /\ Order \in Seq(Range(Order))
    BY CandidateAssumption DEF Reverse
  <2> HIDE DEF ds, cs, us
  <2> QED
    BY <1>3, <2>1, InOrderIs
<1>5. ds \subseteq E /\ cs \subseteq E /\ us \subseteq E
  <2>1. \A c \in D : Removing(c) \in E
    BY <1>1, RemovingIs
  <2>2. \A c \in C : Recreating(c) \in E
    BY RecreatingIs
  <2>3. \A p \in U : Modified(p[1], p[2]) \in E
    <3> TAKE p \in U
    <3>1. p[1] \in snap /\ p[2] \in Current
      OBVIOUS
    <3> QED
      BY <1>1, <1>2, <3>1, ModifiedIs
  <2> HIDE DEF E
  <2> QED
    BY <2>1, <2>2, <2>3
<1>6. InOrder(Reverse(Order), ds) \o InOrder(Order, cs) \o InOrder(Order, us) \in Seq(E)
  <2> HIDE DEF ds, cs, us, E
  <2>1. /\ InOrder(Reverse(Order), ds) \in Seq(E) /\ InOrder(Order, cs) \in Seq(E)
        /\ InOrder(Order, us) \in Seq(E)
    BY <1>4, <1>5
  <2> QED
    BY <2>1
<1>7. \A plan \in Seq(E) : plan \in Seq(PlanEntry) /\ \A n \in DOMAIN plan : Aims(plan[n])
  <2>1. E \subseteq PlanEntry /\ \A e \in E : Aims(e)
    OBVIOUS
  <2> HIDE DEF E
  <2> QED
    BY <2>1
<1> QED
  <2> HIDE DEF E
  <2> QED
    BY <1>6, <1>7

---------------------------------------------------------------------------
(* The table: what is written to it is where it belongs.                   *)

Fits(t, k, r) ==
  /\ r \in Row \cup {None}
  /\ r # None => /\ IF r.live THEN Real(t, k, r.raw) ELSE StagedAt(t, k, r)
                 /\ r.status = "none" <=> r.live
                 /\ Strays(t, k, r)

\* A table is typed and sorted when each of its rows fits where it is.
LEMMA FitsIs ==
  ASSUME NEW rows
  PROVE  (Table(rows) /\ Sorted(rows)) <=>
         (/\ rows = [t \in Type |-> [k \in Key |-> rows[t][k]]]
          /\ \A t \in Type, k \in Key : Fits(t, k, rows[t][k]))
<1>1. ASSUME Table(rows), Sorted(rows)
      PROVE  /\ rows = [t \in Type |-> [k \in Key |-> rows[t][k]]]
             /\ \A t \in Type, k \in Key : Fits(t, k, rows[t][k])
  <2>1. rows = [t \in Type |-> [k \in Key |-> rows[t][k]]]
    BY <1>1 DEF Table
  <2>2. \A t \in Type, k \in Key : rows[t][k] \in Row \cup {None}
    BY <1>1 DEF Table
  <2> QED
    BY <1>1, <2>1, <2>2, Zenon DEF Fits, Sorted
<1>2. ASSUME rows = [t \in Type |-> [k \in Key |-> rows[t][k]]],
             \A t \in Type, k \in Key : Fits(t, k, rows[t][k])
      PROVE  Table(rows) /\ Sorted(rows)
  <2>1. \A t \in Type, k \in Key : rows[t][k] \in Row \cup {None}
    BY <1>2 DEF Fits
  <2>2. Table(rows)
    BY <1>2, <2>1 DEF Table
  <2>3. Sorted(rows)
    BY <1>2, Zenon DEF Fits, Sorted
  <2> QED
    BY <2>2, <2>3
<1> QED
  BY <1>1, <1>2, Zenon

\* So it is enough that each row that is written fits.
LEMMA TableWritten ==
  ASSUME made' = made, row' = [t \in Type |-> [k \in Key |-> row'[t][k]]],
         \A t \in Type, k \in Key : Fits(t, k, row'[t][k])
  PROVE  Table(row)' /\ Sorted(row)'
<1>1. PICK rows : rows = row'
  OBVIOUS
<1>2. Table(rows) /\ Sorted(rows)
  BY <1>1, FitsIs
<1>3. Table(row)'
  BY <1>1, <1>2 DEF Table
<1>4. Sorted(row)'
  BY <1>1, <1>2 DEF Sorted, Real, StagedAt, Strays
<1> QED
  BY <1>3, <1>4

\* What an action of the generator or a reviewer leaves in the table.
LEMMA IngestFits ==
  ASSUME Table(row), Sorted(row), NEW offer \in Offers, NEW replace \in BOOLEAN,
         ingest(offer, replace), made' = made
  PROVE  Table(row)' /\ Sorted(row)'
<1> DEFINE Old(t, k) == IF replace /\ k \in CandidateKeys(t) THEN None ELSE row[t][k]
           New(t, k) == {o \in offer : o.type = t /\ candidate_key[o.raw.name] = k}
           cell(t, k) == IF New(t, k) = {} \/ (Old(t, k) # None /\ Old(t, k).live) THEN Old(t, k)
                         ELSE Staged(Old(t, k), (CHOOSE o \in New(t, k) : TRUE).raw)
<1>1. row' = [t \in Type |-> [k \in Key |-> cell(t, k)]]
  BY DEF ingest
<1>2. ASSUME NEW t \in Type, NEW k \in Key
      PROVE  Fits(t, k, cell(t, k))
  <2>1. Fits(t, k, row[t][k])
    BY FitsIs
  <2>2. Fits(t, k, Old(t, k))
    BY <2>1 DEF Fits
  <2>3. ASSUME New(t, k) # {}, ~(Old(t, k) # None /\ Old(t, k).live)
        PROVE  Fits(t, k, Staged(Old(t, k), (CHOOSE o \in New(t, k) : TRUE).raw))
    <3>1. PICK o \in offer : /\ o = (CHOOSE x \in New(t, k) : TRUE)
                             /\ o.type = t /\ candidate_key[o.raw.name] = k
      BY <2>3
    <3>2. o.raw \in Raw /\ Offered(t, o.raw.name)
      BY <3>1, OffersTyped
    <3> DEFINE old == Old(t, k)
               r == Staged(old, o.raw)
    <3>3. old # None => old.status \in {"pending", "accepted", "rejected"}
      <4>1. old \in Row \cup {None} /\ (old # None => old.status # "none")
        BY <2>2, <2>3 DEF Fits
      <4> HIDE DEF old
      <4> QED
        BY <4>1 DEF Row
    <3> HIDE DEF old
    <3>4. r \in Row
      BY <3>2, <3>3 DEF Staged, Row
    <3>5. r.live = FALSE /\ r.raw = o.raw /\ r.status # "none" /\ r.synced = 0
      BY <3>3 DEF Staged
    <3> HIDE DEF r
    <3>6. Fits(t, k, r)
      BY <3>1, <3>2, <3>4, <3>5 DEF Fits, StagedAt, Strays
    <3> QED
      BY <3>1, <3>6 DEF r, old
  <2> QED
    BY <2>2, <2>3
<1> HIDE DEF cell
<1>3. \A t \in Type, k \in Key : row'[t][k] = cell(t, k)
  BY <1>1
<1>4. row' = [t \in Type |-> [k \in Key |-> row'[t][k]]]
  BY <1>1
<1> QED
  BY <1>2, <1>3, <1>4, TableWritten

\* A reviewer changes the status of candidates, or drops them.
LEMMA ReviewFits ==
  ASSUME Table(row), Sorted(row), NEW chosen,
         discard(chosen) \/ \E s \in {"pending", "accepted", "rejected"} : set_status(chosen, s),
         made' = made
  PROVE  Table(row)' /\ Sorted(row)'
<1>1. \A t \in Type, k \in Key : Fits(t, k, row[t][k])
  BY FitsIs
<1>2. row' = [t \in Type |-> [k \in Key |-> row'[t][k]]]
  BY DEF discard, set_status
<1>3. ASSUME NEW t \in Type, NEW k \in Key
      PROVE  Fits(t, k, row'[t][k])
  <2>1. CASE discard(chosen)
    <3>1. row'[t][k] = None \/ row'[t][k] = row[t][k]
      BY <2>1 DEF discard
    <3>2. Fits(t, k, None)
      BY DEF Fits
    <3> QED
      BY <1>1, <3>1, <3>2
  <2>2. ASSUME NEW s \in {"pending", "accepted", "rejected"}, set_status(chosen, s)
        PROVE  Fits(t, k, row'[t][k])
    <3> DEFINE r == row[t][k]
    <3>1. row'[t][k] = r \/ (r # None /\ ~r.live /\ row'[t][k] = [r EXCEPT !.status = s])
      BY <2>2 DEF set_status, CandidateKeys
    <3>2. Fits(t, k, r)
      BY <1>1
    <3> HIDE DEF r
    <3>3. ASSUME r # None, ~r.live
          PROVE  Fits(t, k, [r EXCEPT !.status = s])
      <4>1. r \in Row
        BY <3>2, <3>3 DEF Fits
      <4>2. [r EXCEPT !.status = s] \in Row
        BY <4>1 DEF Row
      <4>3. /\ ([r EXCEPT !.status = s]).raw = r.raw /\ ~([r EXCEPT !.status = s]).live
            /\ ([r EXCEPT !.status = s]).synced = r.synced
        BY <3>3, <4>1 DEF Row
      <4>4. StagedAt(t, k, r) /\ r.synced = 0
        BY <3>2, <3>3 DEF Fits, Strays
      <4> QED
        BY <4>2, <4>3, <4>4 DEF Fits, StagedAt, Strays
    <3> QED
      BY <3>1, <3>2, <3>3
  <2> QED
    BY <2>1, <2>2
<1> QED
  BY <1>2, <1>3, TableWritten

\* An import writes live rows at the ids that the tenant has assigned.
LEMMA ImportFits ==
  ASSUME Typed, Sorted(row), import.on, Assigned(import.view), ImportWrite
  PROVE  Table(row)' /\ Sorted(row)'
<1>1. \A t \in Type, k \in Key : Fits(t, k, row[t][k])
  BY FitsIs DEF Typed
<1>2. row' = [t \in Type |-> [k \in Key |-> Imported(t, k)]] /\ made' = made
  BY DEF ImportWrite
<1>3. ASSUME NEW t \in Type, NEW k \in Key
      PROVE  Fits(t, k, Imported(t, k))
  <2> DEFINE r == row[t][k]
             start == count["imports"] + 1
             v == import.view[k]
             read == t \in import.got /\ k \in Id /\ import.view[k] # None /\ import.view[k].type = t
  <2>1. start \in Nat
    BY DEF Typed
  <2>2. Fits(t, k, r)
    BY <1>1
  <2>3. read => /\ k \in Id /\ v.raw \in Raw /\ Real(t, k, v.raw) /\ made[k].type = t
                /\ (r # None => r.live)
    <3> SUFFICES ASSUME read
                 PROVE  /\ k \in Id /\ v.raw \in Raw /\ Real(t, k, v.raw) /\ made[k].type = t
                        /\ (r # None => r.live)
      OBVIOUS
    <3>1. v \in Object /\ v # None /\ v.type = t
      BY DEF Typed
    <3>2. made[k] = [type |-> v.type, name |-> v.raw.name]
      BY <3>1 DEF Assigned
    <3>3. v.raw \in Raw /\ made[k] # None
      BY <3>1, <3>2, NoneAssumption DEF Object, Raw
    <3>4. Real(t, k, v.raw)
      BY <3>1, <3>2, <3>3 DEF Real
    <3>5. ASSUME r # None, ~r.live
          PROVE  FALSE
      <4>1. StagedAt(t, k, r) /\ r \in Row
        BY <2>2, <3>5 DEF Fits
      <4>2. r.raw.name \in Name
        BY <4>1 DEF Row, Raw
      <4> QED
        BY <4>1, <4>2, KeysApart DEF StagedAt
    <3>6. made[k].type = t
      BY <3>1, <3>2
    <3> QED
      BY <3>3, <3>4, <3>5, <3>6
  <2>4. Imported(t, k) =
          IF read /\ r = None THEN LiveRow(v.raw, start)
          ELSE IF read THEN [r EXCEPT !.synced = start, !.deleted = FALSE, !.raw = v.raw]
          ELSE IF r # None /\ r.live /\ r.synced # 0 /\ t \in import.types
          THEN [r EXCEPT !.deleted = TRUE] ELSE r
    BY DEF Imported
  <2> HIDE DEF r, start, v, read
  <2>5. CASE read /\ r = None
    <3>1. LiveRow(v.raw, start) \in Row /\ LiveRow(v.raw, start).raw = v.raw
          /\ LiveRow(v.raw, start).live /\ LiveRow(v.raw, start).status = "none"
      BY <2>1, <2>3, <2>5 DEF LiveRow, Row
    <3> QED
      BY <2>3, <2>4, <2>5, <3>1 DEF Fits, Strays
  <2>6. CASE read /\ r # None
    <3> DEFINE w == [r EXCEPT !.synced = start, !.deleted = FALSE, !.raw = v.raw]
    <3>1. r \in Row /\ r.live /\ r.status = "none"
      BY <2>2, <2>3, <2>6 DEF Fits
    <3>2. w \in Row /\ w.raw = v.raw /\ w.live /\ w.status = "none"
      BY <2>1, <2>3, <2>6, <3>1 DEF Row
    <3>3. Imported(t, k) = w
      BY <2>4, <2>6
    <3> HIDE DEF w
    <3> QED
      BY <2>3, <2>6, <3>2, <3>3 DEF Fits, Strays
  <2>7. CASE ~read /\ r # None /\ r.live /\ r.synced # 0 /\ t \in import.types
    <3> DEFINE w == [r EXCEPT !.deleted = TRUE]
    <3>1. r \in Row /\ Real(t, k, r.raw) /\ r.status = "none" /\ made[k].type = t
      BY <2>2, <2>7 DEF Fits, Strays
    <3>2. w \in Row /\ w.raw = r.raw /\ w.live /\ w.status = "none"
      BY <2>7, <3>1 DEF Row
    <3>3. Imported(t, k) = w
      BY <2>4, <2>7
    <3> HIDE DEF w
    <3> QED
      BY <3>1, <3>2, <3>3 DEF Fits, Strays
  <2>8. CASE ~read /\ ~(r # None /\ r.live /\ r.synced # 0 /\ t \in import.types)
    BY <2>2, <2>4, <2>8
  <2> QED
    BY <2>5, <2>6, <2>7, <2>8
<1>4. \A t \in Type, k \in Key : row'[t][k] = Imported(t, k)
  BY <1>2
<1>5. row' = [t \in Type |-> [k \in Key |-> row'[t][k]]]
  BY <1>2
<1> QED
  BY <1>2, <1>3, <1>4, <1>5, TableWritten

---------------------------------------------------------------------------
(* Promotion: a candidate gives way to a live row at the id it was written *)
(* to, and only one that a record says was written.                        *)

Answered(t, k) ==
  OneType(row[t][k].raw.name) =>
    \E r \in Range(push.records) :
      r.type = t /\ r.name = row[t][k].raw.name /\ r.status = "applied"

Promotes(rows) ==
  /\ rows = [t \in Type |-> [k \in Key |-> rows[t][k]]]
  /\ \A t \in Type, k \in Key : Fits(t, k, rows[t][k])
  /\ \A t \in Type, k \in Key \ Id : rows[t][k] = row[t][k] \/ Answered(t, k)
  /\ \A t \in Type, k \in Key : Lives(row, t, k) => Lives(rows, t, k)

\* A promotion is of a record that was written, to the id it was given.
LEMMA PairIs ==
  ASSUME PushTyped, Pushes, NEW n \in DOMAIN push.records, NEW p \in promotions_from[n]
  PROVE  \E r \in Range(push.records) :
           /\ r.type \in Type /\ r.name \in Name /\ r.status = "applied"
           /\ p[1] = candidate_key[r.name] /\ Offered(r.type, r.name)
           /\ p[2] \in Id /\ made[p[2]] = [type |-> r.type, name |-> r.name]
<1> DEFINE r == push.records[n]
<1>1. r \in PushRecord /\ r \in Range(push.records) /\ Wrote(r)
  BY DEF PushTyped, Book, Pushes, Range
<1>2. PICK x \in push.index : /\ x[1] = r.type /\ x[2] = r.name /\ _record_outcome(r) # None
                              /\ p = <<x[3], _record_outcome(r)>>
  BY DEF promotions_from
<1>3. /\ x[3] = candidate_key[x[2]] /\ Offered(x[1], x[2])
  BY DEF Pushes
<1> HIDE DEF r
<1>4. /\ r.status = "applied" /\ r.action # "delete" /\ _record_outcome(r) = r.id
  BY <1>2 DEF _record_outcome
<1>5. r.id \in Id /\ made[r.id] = [type |-> r.type, name |-> r.name]
  BY <1>1, <1>4 DEF Wrote
<1>6. r.type \in Type /\ r.name \in Name
  BY <1>1 DEF PushRecord
<1> QED
  BY <1>1, <1>2, <1>3, <1>4, <1>5, <1>6

\* The promotions of one record.
LEMMA PromotedOne ==
  ASSUME Table(row), Sorted(row), PushTyped, Pushes, NEW n \in DOMAIN push.records,
         NEW rows, Promotes(rows), NEW new \in Promoted(rows, promotions_from[n])
  PROVE  Promotes(new)
<1> DEFINE pairs == promotions_from[n]
           hits == {h \in Type \X pairs : rows[h[1]][h[2][1]] # None /\ ~rows[h[1]][h[2][1]].live}
<1>1. CASE hits = {}
  <2>1. new = rows
    BY <1>1 DEF Promoted
  <2> QED
    BY <2>1
<1>2. CASE hits # {}
  <2>1. PICK h \in hits :
          new = LET t == h[1]  key == h[2][1]  id == h[2][2]
                    out == [rows EXCEPT ![t][key] = None]
                IN  IF out[t][id] # None THEN out
                    ELSE [out EXCEPT ![t][id] = [rows[t][key] EXCEPT !.live = TRUE, !.status = "none",
                                                                     !.deleted = FALSE]]
    BY <1>2 DEF Promoted
  <2>2. h[1] \in Type /\ h[2] \in pairs /\ rows[h[1]][h[2][1]] # None /\ ~rows[h[1]][h[2][1]].live
    OBVIOUS
  <2>0. PICK t \in Type : t = h[1]
    BY <2>2
  <2>3. PICK key, id : t = h[1] /\ key = h[2][1] /\ id = h[2][2]
    BY <2>0
  <2>4. PICK r \in Range(push.records) :
          /\ r.type \in Type /\ r.name \in Name /\ r.status = "applied"
          /\ key = candidate_key[r.name] /\ Offered(r.type, r.name)
          /\ id \in Id /\ made[id] = [type |-> r.type, name |-> r.name]
    BY <2>2, <2>3, PairIs
  <2>5. key \in Key \ Id /\ id \in Key /\ id # key
    BY <2>4, KeysApart
  <2>6. PICK old : old = rows[t][key]
    OBVIOUS
  <2>7. old \in Row /\ old # None /\ ~old.live /\ StagedAt(t, key, old)
    <3>1. old # None /\ ~old.live
      BY <2>2, <2>3, <2>6
    <3>2. Fits(t, key, old)
      BY <2>5, <2>6 DEF Promotes
    <3> QED
      BY <3>1, <3>2 DEF Fits
  <2>8. old.raw.name = r.name
    <3>1. old.raw.name \in Name
      BY <2>7 DEF Row, Raw
    <3> QED
      BY <2>4, <2>7, <3>1, KeysApart DEF StagedAt
  <2>9. OneType(r.name) => t = r.type
    BY <2>4, <2>7, <2>8 DEF OneType, Offered, StagedAt
  <2> DEFINE w == [old EXCEPT !.live = TRUE, !.status = "none", !.deleted = FALSE]
             out == [rows EXCEPT ![t][key] = None]
  <2>10. /\ w \in Row /\ w.raw = old.raw /\ w.live /\ w.status = "none"
         /\ w.synced = old.synced /\ ~w.deleted
    BY <2>7 DEF Row
  <2>11. Fits(t, id, w)
    <3>1. made[id] # None /\ made[id].name = r.name /\ made[id].type = r.type
      BY <2>4, NoneAssumption
    <3>2. Real(t, id, w.raw)
      BY <2>4, <2>8, <2>9, <2>10, <3>1 DEF Real
    <3>3. old.synced = 0
      <4>1. Fits(t, key, old)
        BY <2>5, <2>6 DEF Promotes
      <4> QED
        BY <2>7, <4>1 DEF Fits, Strays
    <3> HIDE DEF w
    <3> QED
      BY <2>10, <3>2, <3>3 DEF Fits, Strays
  <2>12. Answered(t, key) \/ rows[t][key] # row[t][key]
    <3> SUFFICES ASSUME rows[t][key] = row[t][key], OneType(row[t][key].raw.name)
                 PROVE  \E rr \in Range(push.records) :
                          rr.type = t /\ rr.name = row[t][key].raw.name /\ rr.status = "applied"
      BY DEF Answered
    <3>1. row[t][key].raw.name = r.name
      BY <2>6, <2>8
    <3> QED
      BY <2>4, <2>9, <3>1
  <2>13. Answered(t, key)
    BY <2>5, <2>12 DEF Promotes
  <2>14. rows \in [Type -> [Key -> Row \cup {None}]]
    BY DEF Promotes, Fits
  <2>15. out \in [Type -> [Key -> Row \cup {None}]]
    BY <2>5, <2>14
  <2>16. \A s \in Type, k \in Key : out[s][k] = IF s = t /\ k = key THEN None ELSE rows[s][k]
    BY <2>5, <2>14
  <2>17. new = IF out[t][id] # None THEN out ELSE [out EXCEPT ![t][id] = w]
    BY <2>1, <2>3, <2>6
  <2> HIDE DEF out, w
  <2>18. new \in [Type -> [Key -> Row \cup {None}]]
    BY <2>5, <2>10, <2>15, <2>17
  <2>19. \A s \in Type, k \in Key :
           \/ s = t /\ k = key /\ new[s][k] = None
           \/ s = t /\ k = id /\ new[s][k] = w /\ rows[s][k] = None
           \/ new[s][k] = rows[s][k]
    BY <2>5, <2>10, <2>15, <2>16, <2>17
  <2>20. new = [s \in Type |-> [k \in Key |-> new[s][k]]]
    BY <2>18
  <2>21. \A s \in Type, k \in Key : Fits(s, k, new[s][k])
    <3>1. Fits(t, key, None)
      BY DEF Fits
    <3> QED
      BY <2>11, <2>19, <3>1 DEF Promotes
  <2>22. \A s \in Type, k \in Key \ Id : new[s][k] = row[s][k] \/ Answered(s, k)
    BY <2>4, <2>13, <2>19 DEF Promotes
  <2>23. ASSUME NEW s \in Type, NEW k \in Key, Lives(row, s, k)
         PROVE  Lives(new, s, k)
    <3>1. Lives(rows, s, k)
      BY <2>23 DEF Promotes
    <3>2. ~(s = t /\ k = key)
      BY <2>6, <2>7, <3>1 DEF Lives
    <3>3. new[s][k] = rows[s][k]
      BY <2>19, <3>1, <3>2 DEF Lives
    <3> QED
      BY <3>1, <3>3 DEF Lives
  <2> QED
    BY <2>20, <2>21, <2>22, <2>23 DEF Promotes
<1> QED
  BY <1>1, <1>2

\* The promotions of all records, one after the other.
LEMMA PromotedMany ==
  ASSUME Table(row), Sorted(row), PushTyped, Pushes, NEW new \in PromotedAll(promotions_from)
  PROVE  Promotes(new)
<1> DEFINE N == Len(promotions_from)
           P == {rows \in [Type -> [Key -> Row \cup {None}]] : Promotes(rows)}
           D == SUBSET P
           Step(i, R) == UNION {Promoted(rows, promotions_from[i]) : rows \in R}
           G == [p \in (1..N) \X D |-> Step(p[1], p[2])]
           Rec(f) == f = [i \in 0..N |-> IF i = 0 THEN {row} ELSE Step(i, f[i - 1])]
<1>1. N \in Nat /\ 1..N = DOMAIN push.records
  <2>1. push.records \in Seq(PushRecord)
    BY DEF PushTyped, Book
  <2>2. promotions_from \in Seq({promotions_from[n] : n \in DOMAIN push.records})
        /\ DOMAIN promotions_from = DOMAIN push.records
    <3>1. DOMAIN push.records = 1..Len(push.records) /\ Len(push.records) \in Nat
      BY <2>1
    <3> QED
      BY <3>1 DEF promotions_from
  <2> QED
    BY <2>2
<1>2. \A rows : Promotes(rows) => rows \in P
  BY DEF Promotes, Fits
<1>3. {row} \in D
  <2>1. Promotes(row)
    BY FitsIs DEF Promotes
  <2> QED
    BY <1>2, <2>1
<1>4. \A i \in 1..N, R \in D : Step(i, R) \in D
  <2> TAKE i \in 1..N, R \in D
  <2>1. ASSUME NEW x \in Step(i, R)
        PROVE  x \in P
    <3>1. PICK rows \in R : x \in Promoted(rows, promotions_from[i])
      OBVIOUS
    <3>2. Promotes(rows)
      OBVIOUS
    <3>3. i \in DOMAIN push.records
      BY <1>1
    <3> HIDE DEF P, D
    <3>4. Promotes(x)
      BY <3>1, <3>2, <3>3, PromotedOne
    <3> QED
      BY <1>2, <3>4
  <2> HIDE DEF P, Step
  <2> QED
    BY <2>1
<1>5. PICK f \in [0..N -> D] : Recurs(f, N, {row}, G)
  <2>1. G \in [(1..N) \X D -> D]
    <3> HIDE DEF D, N, Step
    <3> QED
      BY <1>4
  <2> HIDE DEF N, D, G
  <2> QED
    BY <1>1, <1>3, <2>1, Iterates
<1>6. Rec(f)
  <2>1. ASSUME NEW i \in 0..N
        PROVE  f[i] = IF i = 0 THEN {row} ELSE Step(i, f[i - 1])
    <3>1. CASE i = 0
      BY <1>5, <3>1 DEF Recurs
    <3>2. CASE i # 0
      <4>1. i \in 1..N /\ i - 1 \in 0..N
        BY <1>1, <3>2
      <4>2. f[i - 1] \in D
        BY <4>1
      <4>3. f[i] = G[<<i, f[i - 1]>>]
        BY <1>5, <4>1 DEF Recurs
      <4> HIDE DEF D, N, Step
      <4>4. G[<<i, f[i - 1]>>] = Step(i, f[i - 1])
        BY <4>1, <4>2
      <4> QED
        BY <3>2, <4>3, <4>4
    <3> QED
      BY <3>1, <3>2
  <2> HIDE DEF N, Step, D
  <2>2. f = [i \in 0..N |-> f[i]]
    OBVIOUS
  <2> QED
    BY <2>1, <2>2
<1> DEFINE after == CHOOSE f_ : Rec(f_)
<1>7. Rec(after)
  <2> HIDE DEF Rec
  <2> QED
    BY <1>6
<1>8. PromotedAll(promotions_from) = after[N]
  BY DEF PromotedAll
<1> HIDE DEF after
<1>9. \A i \in 0..N : after[i] = IF i = 0 THEN {row} ELSE Step(i, after[i - 1])
  <2> HIDE DEF N, Step
  <2> QED
    BY <1>7
<1> DEFINE S == {i \in 0..N : after[i] \in D}
<1>10. 0 \in S
  <2> HIDE DEF D, Step, N
  <2> QED
    BY <1>1, <1>3, <1>9
<1>11. \A i \in 1..N : i - 1 \in S => i \in S
  <2> HIDE DEF D, Step, N
  <2> QED
    BY <1>1, <1>4, <1>9
<1>12. N \in S
  <2> HIDE DEF S, N
  <2>1. \A i \in 0..N : i \in S
    BY <1>1, <1>10, <1>11, Climb
  <2>2. N \in 0..N
    BY <1>1
  <2> QED
    BY <2>1, <2>2
<1> QED
  BY <1>8, <1>12

---------------------------------------------------------------------------
(* A push keeps its books: CInv is inductive.                              *)

\* What the plan is about keeps its name.
LEMMA AimsStay ==
  ASSUME Grows, NEW e, Aims(e)
  PROVE  Aims(e)'
BY DEF Grows, Aims

\* What a record says was written keeps its type and name.
LEMMA WroteStays ==
  ASSUME Grows, NEW r \in PushRecord, Wrote(r)
  PROVE  Wrote(r)'
<1> SUFFICES ASSUME r.status = "applied", r.action # "delete"
             PROVE  r.id \in Id /\ made'[r.id] = [type |-> r.type, name |-> r.name]
  BY DEF Wrote
<1>1. r.id \in Id /\ made[r.id] = [type |-> r.type, name |-> r.name]
  BY DEF Wrote
<1>2. r.type \in Type /\ r.name \in Name
  BY DEF PushRecord
<1>3. made[r.id] # None
  BY <1>1, <1>2, NoneAssumption
<1> QED
  BY <1>1, <1>3 DEF Grows

\* What an import has read, and a snapshot, are of ids that stay.
LEMMA HeldStays ==
  ASSUME CInv, Grows
  PROVE  /\ import' = import => (import.on => Assigned(import.view))'
         /\ snap' = snap => (snap # None => \A c \in snap : Real(c.type, c.id, c.raw))'
         /\ row' = row => Sorted(row)'
<1>1. ASSUME import' = import
      PROVE  (import.on => Assigned(import.view))'
  <2> SUFFICES ASSUME import.on, NEW i \in Id, import.view[i] # None
               PROVE  made'[i] = [type |-> import.view[i].type, name |-> import.view[i].raw.name]
    BY <1>1 DEF Assigned
  <2>1. made[i] = [type |-> import.view[i].type, name |-> import.view[i].raw.name]
    BY DEF CInv, Assigned
  <2>2. import.view[i] \in Object
    BY DEF CInv, Typed
  <2>3. made[i] \in [type : Type, name : Name]
    BY <2>1, <2>2 DEF Object, Raw
  <2> QED
    BY <2>1, <2>3, NoneAssumption DEF Grows
<1>2. ASSUME snap' = snap
      PROVE  (snap # None => \A c \in snap : Real(c.type, c.id, c.raw))'
  <2>1. \A t, k, raw : Real(t, k, raw) => Real(t, k, raw)'
    BY RealStays
  <2> QED
    BY <1>2 DEF CInv, Grows, Real
<1>3. ASSUME row' = row
      PROVE  Sorted(row)'
  <2> SUFFICES ASSUME NEW t \in Type, NEW k \in Key, row[t][k] # None
               PROVE  /\ IF row[t][k].live THEN Real(t, k, row[t][k].raw)'
                         ELSE StagedAt(t, k, row[t][k])'
                      /\ Strays(t, k, row[t][k])'
    BY <1>3 DEF CInv, Sorted, Real, StagedAt, Strays
  <2>1. /\ IF row[t][k].live THEN Real(t, k, row[t][k].raw) ELSE StagedAt(t, k, row[t][k])
        /\ Strays(t, k, row[t][k])
    BY DEF CInv, Sorted
  <2>2. Real(t, k, row[t][k].raw) => Real(t, k, row[t][k].raw)'
    BY <1>3 DEF Grows, Real
  <2>3. StagedAt(t, k, row[t][k]) => StagedAt(t, k, row[t][k])'
    BY <1>3 DEF StagedAt
  <2>4. Strays(t, k, row[t][k])'
    <3>1. row[t][k].live => made'[k] = made[k]
      BY <2>1 DEF Real, Grows
    <3> QED
      BY <1>3, <2>1, <3>1 DEF Strays
  <2> QED
    BY <2>1, <2>2, <2>3, <2>4, Zenon
<1> QED
  BY <1>1, <1>2, <1>3

\* A push that nothing happens to keeps its books.
LEMMA BooksStay ==
  ASSUME PushTyped, Pushes, Grows, push' = push \/ push' = [push EXCEPT !.index = {}]
         \/ push' = [push EXCEPT !.quiet = FALSE]
  PROVE  PushTyped' /\ Pushes'
<1>1. /\ push'.plan = push.plan /\ push'.records = push.records /\ push'.k = push.k
      /\ push'.pc = push.pc /\ push'.index \subseteq push.index
  BY DEF PushTyped, Book
<1>2. PushTyped'
  BY DEF PushTyped, Book
<1>3. \A n \in DOMAIN push.plan : Aims(push.plan[n])'
  BY <1>1, AimsStay DEF Pushes, Aims, Grows
<1>4. \A n \in DOMAIN push.records : Wrote(push.records[n])'
  <2> TAKE n \in DOMAIN push.records
  <2>1. PICK r \in PushRecord : r = push.records[n]
    BY DEF PushTyped, Book
  <2>2. Wrote(r)
    BY <2>1 DEF Pushes
  <2>3. Wrote(r)'
    BY <2>1, <2>2, WroteStays
  <2>4. push'.records[n] = r
    BY <1>1, <2>1
  <2> QED
    BY <2>3, <2>4 DEF Wrote
<1> QED
  BY <1>1, <1>2, <1>3, <1>4 DEF Pushes

\* Ids stay when none is assigned.
LEMMA GrowsIfSame ==
  ASSUME made' = made
  PROVE  Grows
BY DEF Grows

\* A push begins with nothing done.
LEMMA BeginIs ==
  ASSUME NEW mode, NEW against, NEW plan, NEW map, NEW index, NEW whole,
         Begin(mode, against, plan, map, index, whole)
  PROVE  /\ push.pc = "idle" /\ push'.pc = "push" /\ push'.mode = mode /\ push'.plan = plan
         /\ push'.records = <<>> /\ push'.id_map = map /\ push'.index = index
         /\ push'.against = against /\ push'.k = 1 /\ push'.sure = CacheTrue
         /\ count' = Counted("pushes")
         /\ UNCHANGED <<tenant, made, row, snap, import>>
BY DEF Begin, NoPush

\* Counting gives a count.
LEMMA CountedTyped ==
  ASSUME Typed, NEW c \in {"acts", "noise", "imports", "pushes"}
  PROVE  Counted(c) \in [{"acts", "noise", "imports", "pushes"} -> Nat]
BY DEF Typed, Counted

\* The books of a push that begins are in order.
LEMMA BeginKeeps ==
  ASSUME CInv, NEW mode \in {"merge", "restore"}, NEW against,
         NEW plan \in Seq(PlanEntry), \A n \in DOMAIN plan : Aims(plan[n]),
         NEW map \in SUBSET (Key \X Key), NEW index \in SUBSET (Type \X Name \X Key),
         \A x \in index : x[3] = candidate_key[x[2]] /\ Offered(x[1], x[2]),
         NEW whole \in BOOLEAN, Begin(mode, against, plan, map, index, whole)
  PROVE  CInv'
<1>1. /\ UNCHANGED <<tenant, made, row, snap, import>> /\ count' = Counted("pushes")
  BY BeginIs
<1>2. Grows
  BY <1>1, GrowsIfSame
<1>3. Typed'
  <2>1. count' \in [{"acts", "noise", "imports", "pushes"} -> Nat]
    BY <1>1, CountedTyped DEF CInv
  <2> QED
    BY <1>1, <2>1 DEF CInv, Typed, Table
<1>4. PushTyped'
  <2>1. <<>> \in Seq(PushRecord) /\ CacheTrue \in BOOLEAN
    BY DEF CacheTrue
  <2> QED
    BY <2>1 DEF PushTyped, Book, Begin, NoPush
<1>5. Pushes'
  <2>1. /\ push'.pc = "push" /\ push'.plan = plan /\ push'.records = <<>>
        /\ push'.index = index /\ push'.k = 1
    BY BeginIs
  <2>2. \A n \in DOMAIN plan : Aims(plan[n])'
    BY <1>1 DEF Aims
  <2>3. Len(push'.records) = 0 /\ DOMAIN push'.records = {} /\ Len(plan) \in Nat
    BY <2>1
  <2>4. Len(push.records)' <= Len(push.plan)' /\ push'.k = Len(push'.records) + 1
    BY <2>1, <2>3
  <2> QED
    BY <2>1, <2>2, <2>3, <2>4 DEF Pushes
<1>6. Assigned(tenant)'
  BY <1>1 DEF CInv, Assigned
<1>7. /\ (import.on => Assigned(import.view))' /\ Sorted(row)'
      /\ (snap # None => \A c \in snap : Real(c.type, c.id, c.raw))'
  BY <1>1, <1>2, HeldStays
<1> QED
  BY <1>3, <1>4, <1>5, <1>6, <1>7 DEF CInv

\* So are those of a merge,
LEMMA MergeKeeps ==
  ASSUME CInv, NEW selection \in SUBSET (Type \X Key), classify_merge(selection)
  PROVE  CInv'
<1> DEFINE items == Included(selection)
           found == {p \in items : Matches(p[1], p[2]) # {}}
           plan == InOrder(Order, {Creating(p) : p \in items \ found})
                     \o InOrder(Order, {Updating(p) : p \in found})
           map == {<<p[2], Match(p).id>> : p \in found}
           index == {<<p[1], Staging(p).name, p[2]>> : p \in items}
<1>1. Begin("merge", tenant, plan, map, index, Whole(items))
  BY DEF classify_merge
<1>2. Table(row) /\ Sorted(row)
  BY DEF CInv, Typed
<1>3. plan \in Seq(PlanEntry) /\ \A n \in DOMAIN plan : Merging(plan[n])
  <2>1. items \ found \in SUBSET Included(selection) /\ found \in SUBSET Included(selection)
        /\ \A p \in found : Matches(p[1], p[2]) # {}
    OBVIOUS
  <2> HIDE DEF items, found
  <2> QED
    BY <1>2, <2>1, MergePlan
<1>4. map \in SUBSET (Key \X Key)
  <2>1. \A p \in found : <<p[2], Match(p).id>> \in Key \X Key
    <3> TAKE p \in found
    <3>1. p[2] \in Key
      BY <1>2, IncludedIs
    <3>2. Match(p).id \in Key
      BY <1>2, MatchIs DEF Filed
    <3> QED
      BY <3>1, <3>2
  <2> HIDE DEF found
  <2> QED
    BY <2>1
<1>5. index \in SUBSET (Type \X Name \X Key)
      /\ \A x \in index : x[3] = candidate_key[x[2]] /\ Offered(x[1], x[2])
  <2>1. \A p \in items : /\ p[1] \in Type /\ p[2] \in Key /\ Staging(p).name \in Name
                         /\ p[2] = candidate_key[Staging(p).name]
                         /\ Offered(p[1], Staging(p).name)
    BY <1>2, IncludedIs
  <2> HIDE DEF items
  <2> QED
    BY <2>1
<1>6. Whole(items) \in BOOLEAN
  BY DEF Whole
<1>7. \A n \in DOMAIN plan : Aims(plan[n])
  BY <1>3 DEF Merging
<1> HIDE DEF items, found, plan, map, index
<1> QED
  BY <1>1, <1>3, <1>4, <1>5, <1>6, <1>7, BeginKeeps

\* and those of a restore.
LEMMA RestoreKeeps ==
  ASSUME CInv, classify_restore
  PROVE  CInv'
<1> DEFINE D == {c \in Current : ~Holds(snap, c)}
           C == {c \in snap : ~Holds(Current, c)}
           U == {p \in snap \X Current :
                   p[1].type = p[2].type /\ p[1].id = p[2].id /\ p[1].raw # p[2].raw}
           plan == InOrder(Reverse(Order), {Removing(c) : c \in D})
                     \o InOrder(Order, {Recreating(c) : c \in C})
                     \o InOrder(Order, {Modified(p[1], p[2]) : p \in U})
<1>1. snap # None /\ Begin("restore", snap, plan, {}, {}, FALSE)
  BY DEF classify_restore
<1>2. /\ Table(row) /\ Sorted(row) /\ snap \subseteq Filed /\ IsFiniteSet(snap)
      /\ \A c \in snap : Real(c.type, c.id, c.raw)
  BY <1>1 DEF CInv, Typed
<1>3. plan \in Seq(PlanEntry) /\ \A n \in DOMAIN plan : Aims(plan[n])
  <2>1. D \in SUBSET Current /\ C \in SUBSET snap /\ U \in SUBSET (snap \X Current)
        /\ \A p \in U : p[1].id = p[2].id
    OBVIOUS
  <2> HIDE DEF D, C, U
  <2> QED
    BY <1>2, <2>1, RestorePlan
<1> HIDE DEF plan
<1> QED
  BY <1>1, <1>3, BeginKeeps

\* What is sent is an object of the same name.
LEMMA RemappedIs ==
  ASSUME NEW raw \in Raw, NEW map \in SUBSET (Key \X Key)
  PROVE  Remapped(raw, map) \in Raw /\ Remapped(raw, map).name = raw.name
<1>1. \A r : (\E m \in map : m[1] = r) => (CHOOSE m \in map : m[1] = r) \in map
  OBVIOUS
<1>2. \A r \in raw.refs : (IF \E m \in map : m[1] = r
                           THEN (CHOOSE m \in map : m[1] = r)[2] ELSE r) \in Key
  <2> TAKE r \in raw.refs
  <2>1. r \in Key
    BY DEF Raw
  <2>2. ASSUME \E m \in map : m[1] = r
        PROVE  (CHOOSE m \in map : m[1] = r)[2] \in Key
    <3>1. (CHOOSE m \in map : m[1] = r) \in Key \X Key
      BY <1>1, <2>2
    <3> QED
      BY <3>1
  <2> QED
    BY <2>1, <2>2
<1> DEFINE new == {IF \E m \in map : m[1] = r
                   THEN (CHOOSE m \in map : m[1] = r)[2] ELSE r : r \in raw.refs}
<1>3. new \in SUBSET Key
  BY <1>2
<1>4. Remapped(raw, map) = [raw EXCEPT !.refs = new]
  BY DEF Remapped
<1> HIDE DEF new
<1> QED
  BY <1>3, <1>4 DEF Raw

\* A call does what it may to the tenant, and nothing else.
LEMMA CallKeeps ==
  ASSUME CInv, Tidy(tenant),
         NEW action \in {"create", "update", "delete"}, NEW type \in Type, NEW id, NEW raw,
         NEW outcome,
         action # "delete" => raw \in Raw,
         action = "create" => id \in Id /\ made[id] = None,
         action = "update" => made[id].name = raw.name,
         Call(action, type, id, raw, outcome)
  PROVE  /\ tenant' \in [Id -> Object \cup {None}]
         /\ made' \in [Id -> [type : Type, name : Name] \cup {None}]
         /\ count' \in [{"acts", "noise", "imports", "pushes"} -> Nat]
         /\ Grows /\ Assigned(tenant)' /\ Tidy(tenant)'
         /\ outcome = "applied" /\ action # "delete" =>
              id \in Id /\ made'[id] = [type |-> type, name |-> raw.name]
<1>1. Typed /\ Assigned(tenant)
  BY DEF CInv
<1>2. count' \in [{"acts", "noise", "imports", "pushes"} -> Nat]
  <2>1. count' = count \/ count' = Counted("noise")
    BY DEF Call
  <2> QED
    BY <1>1, <2>1, CountedTyped DEF Typed
<1>3. CASE Accepts(action, type, id, raw) /\ Written(action, type, id, raw)
  BY <1>1, <1>2, <1>3, AcceptedWrite
<1>4. CASE UNCHANGED <<tenant, made>> /\ outcome # "applied"
  <2>1. tenant' = tenant /\ made' = made
    BY <1>4
  <2>2. Assigned(tenant)' /\ Tidy(tenant)'
    BY <1>1, <2>1 DEF Assigned, Tidy
  <2> QED
    BY <1>1, <1>2, <1>4, <2>1, <2>2, GrowsIfSame DEF Typed
<1>5. \/ Accepts(action, type, id, raw) /\ Written(action, type, id, raw)
      \/ UNCHANGED <<tenant, made>> /\ outcome # "applied"
  BY DEF Call
<1> QED
  BY <1>3, <1>4, <1>5

\* A record is added for the entry that was next.
LEMMA RecordKeeps ==
  ASSUME CInv, Grows, push.pc = "push", push.k <= Len(push.plan),
         NEW status \in {"manual", "applied", "failed"}, NEW rid \in Key \cup {None},
         NEW map \in SUBSET (Key \X Key), NEW quiet \in BOOLEAN,
         push' = [push EXCEPT !.records = Recorded(Next_entry, status, rid), !.id_map = map,
                              !.k = @ + 1, !.quiet = quiet],
         status = "applied" /\ Next_entry.action # "delete" =>
           rid \in Id /\ made'[rid] = [type |-> Next_entry.type, name |-> Next_entry.name]
  PROVE  /\ PushTyped' /\ Pushes'
         /\ push'.records = Append(push.records,
              [type |-> Next_entry.type, name |-> Next_entry.name, action |-> Next_entry.action,
               status |-> status, id |-> rid])
         /\ push'.plan = push.plan /\ push'.pc = "push" /\ push'.against = push.against
         /\ push'.mode = push.mode /\ push'.sure = push.sure /\ push'.quiet = quiet
         /\ push'.k = push.k + 1 /\ push.k = Len(push.records) + 1
         /\ push.k \in DOMAIN push.plan /\ Next_entry = push.plan[push.k]
         /\ Next_entry \in PlanEntry /\ Aims(Next_entry)
<1>1. push.k = Len(push.records) + 1 /\ push.plan \in Seq(PlanEntry)
      /\ push.records \in Seq(PushRecord)
  BY DEF CInv, Pushes, PushTyped, Book
<1>2. push.k \in DOMAIN push.plan
  BY <1>1
<1>3. Next_entry \in PlanEntry /\ Next_entry = push.plan[push.k] /\ Aims(Next_entry)
  BY <1>1, <1>2 DEF Next_entry, CInv, Pushes
<1> DEFINE r == [type |-> Next_entry.type, name |-> Next_entry.name, action |-> Next_entry.action,
                 status |-> status, id |-> rid]
<1>4. r \in PushRecord
  BY <1>3 DEF PlanEntry, PushRecord
<1>5. /\ push'.records = Append(push.records, r)
      /\ push'.plan = push.plan /\ push'.pc = "push" /\ push'.against = push.against
      /\ push'.mode = push.mode /\ push'.sure = push.sure /\ push'.quiet = quiet
      /\ push'.k = push.k + 1 /\ push'.index = push.index
  BY DEF CInv, PushTyped, Book, Recorded
<1>6. PushTyped'
  <2>1. Recorded(Next_entry, status, rid) = Append(push.records, r)
    BY DEF Recorded
  <2> HIDE DEF r
  <2>2. Recorded(Next_entry, status, rid) \in Seq(PushRecord)
    BY <1>1, <1>4, <2>1
  <2>3. PICK records \in Seq(PushRecord) : records = Recorded(Next_entry, status, rid)
    BY <2>2
  <2> DEFINE a == [push EXCEPT !.records = records]
             b == [a EXCEPT !.id_map = map]
             c == [b EXCEPT !.k = @ + 1]
             d == [c EXCEPT !.quiet = quiet]
             B == Book(push.against)
  <2>4. push' = d /\ a.k = push.k /\ b.k = push.k
    BY <2>3 DEF CInv, PushTyped, Book
  <2>5. push \in B
    BY DEF CInv, PushTyped, Book
  <2>6. a \in B
    BY <2>5 DEF Book
  <2>7. b \in B
    <3> HIDE DEF a
    <3> QED
      BY <2>6 DEF Book
  <2>8. c \in B
    <3> HIDE DEF b
    <3>1. b.k \in Nat
      BY <2>7 DEF Book
    <3>2. PICK k \in Nat : k = b.k + 1
      BY <3>1
    <3>3. c = [b EXCEPT !.k = k]
      BY <3>2
    <3> HIDE DEF c
    <3> QED
      BY <2>7, <3>3 DEF Book
  <2>9. d \in B
    <3> HIDE DEF c
    <3> QED
      BY <2>8 DEF Book
  <2> QED
    BY <1>5, <2>4, <2>9 DEF PushTyped, Book
<1>7. r.type = Next_entry.type /\ r.name = Next_entry.name /\ r.action = Next_entry.action
      /\ r.status = status /\ r.id = rid
  OBVIOUS
<1> HIDE DEF r
<1>8. Pushes'
  <2>1. \A n \in DOMAIN push.plan : Aims(push.plan[n])'
    BY <1>5, AimsStay DEF CInv, Pushes, Aims, Grows
  <2>2. /\ DOMAIN push'.records = DOMAIN push.records \cup {push.k}
        /\ \A n \in DOMAIN push.records : push'.records[n] = push.records[n]
        /\ push'.records[push.k] = r /\ Len(push'.records) = push.k
    BY <1>1, <1>4, <1>5
  <2>3. PICK records : records = push'.records
    OBVIOUS
  <2>4. ASSUME NEW n \in DOMAIN records
        PROVE  Wrote(records[n])'
    <3>1. CASE n \in DOMAIN push.records
      <4>1. PICK x \in PushRecord : x = push.records[n]
        BY <1>1, <3>1
      <4>2. Wrote(x)
        BY <3>1, <4>1 DEF CInv, Pushes
      <4>3. Wrote(x)'
        BY <4>1, <4>2, WroteStays
      <4>4. records[n] = x
        BY <2>2, <2>3, <3>1, <4>1
      <4> QED
        BY <4>3, <4>4
    <3>2. CASE n = push.k
      BY <1>7, <2>2, <2>3, <3>2 DEF Wrote
    <3> QED
      BY <2>2, <2>3, <3>1, <3>2
  <2>7. \A n \in DOMAIN push'.records : Of(push'.records[n], push'.plan[n])
    BY <1>3, <1>5, <1>7, <2>2 DEF CInv, Pushes, Of
  <2>8. Len(push.records)' <= Len(push.plan)' /\ push'.k = Len(push'.records) + 1
    BY <1>1, <1>5, <2>2
  <2>9. \A x_ \in push'.index : x_[3] = candidate_key[x_[2]] /\ Offered(x_[1], x_[2])
    BY <1>5 DEF CInv, Pushes
  <2>10. (\A n \in DOMAIN push.records : Wrote(push.records[n]))'
    BY <2>3, <2>4 DEF Wrote
  <2> QED
    BY <1>5, <2>1, <2>7, <2>8, <2>9, <2>10 DEF Pushes, Of
<1> QED
  BY <1>1, <1>2, <1>3, <1>5, <1>6, <1>8 DEF r

\* A registration is of keys.
LEMMA RegisteredIs ==
  ASSUME NEW map \in SUBSET (Key \X Key), NEW e \in PlanEntry, NEW id \in Key
  PROVE  Registered(map, e, id) \in SUBSET (Key \X Key)
<1>1. e.source # None => e.source \in Key
  BY DEF PlanEntry
<1> QED
  BY <1>1 DEF Registered

\* What an entry's turn is: a call, and a record of it.
ExecutesAs(outcome, id, raw, map, quiet) ==
  /\ Next_entry \in PlanEntry /\ Aims(Next_entry) /\ Next_entry.supported
  /\ push.pc = "push" /\ push.k <= Len(push.plan)
  /\ Next_entry.action # "delete" => raw \in Raw /\ raw.name = Next_entry.name
  /\ Next_entry.action = "create" => id \in Id /\ made[id] = None
  /\ Next_entry.action # "create" => id = Next_entry.target
  /\ Call(Next_entry.action, Next_entry.type, id, raw, outcome)
  /\ quiet => push.quiet /\ Faultless
  /\ push' = [push EXCEPT !.records = Recorded(Next_entry, outcome,
                IF outcome = "failed" /\ Next_entry.action = "create" THEN None ELSE id),
                !.id_map = map, !.k = @ + 1, !.quiet = quiet]
  /\ UNCHANGED <<row, snap, import>>

\* Execute is that, for one outcome of the call.
LEMMA ExecuteIs ==
  ASSUME CInv, Execute
  PROVE  \E outcome \in {"applied", "failed"}, id \in Key \cup {None},
            map \in SUBSET (Key \X Key), quiet \in BOOLEAN :
           \E raw : ExecutesAs(outcome, id, raw, map, quiet)
<1>1. /\ push.pc = "push" /\ push.k <= Len(push.plan) /\ Next_entry.supported
      /\ UNCHANGED <<row, snap, import>>
  BY DEF Execute
<1>2. push.k = Len(push.records) + 1 /\ push.plan \in Seq(PlanEntry)
      /\ push.records \in Seq(PushRecord) /\ push.id_map \in SUBSET (Key \X Key)
  BY <1>1 DEF CInv, Pushes, PushTyped, Book
<1>3. push.k \in DOMAIN push.plan
  BY <1>1, <1>2
<1>4. PICK e : e = Next_entry
  OBVIOUS
<1>5. e \in PlanEntry /\ Aims(e)
  BY <1>2, <1>3, <1>4 DEF Next_entry, CInv, Pushes
<1> DEFINE fresh == IF e.action = "create" THEN FreshId ELSE e.target
           cleaned == IF e.action = "delete" THEN None ELSE Remapped(e.desired, push.id_map)
<1>6. PICK outcome \in {"applied", "failed"} :
        /\ e.action = "create" => Unused # {}
        /\ Call(e.action, e.type, fresh, cleaned, outcome)
        /\ push' = [push EXCEPT
             !.records = Recorded(e, outcome,
               IF outcome = "failed" /\ e.action = "create" THEN None ELSE fresh),
             !.id_map = IF outcome = "applied" /\ e.action = "create"
                        THEN Registered(@, e, fresh) ELSE @,
             !.k = @ + 1, !.quiet = @ /\ Faultless]
  BY <1>4 DEF Execute
<1>7. PICK id : id = fresh
  OBVIOUS
<1>8. PICK raw : raw = cleaned
  OBVIOUS
<1>9. PICK quiet \in BOOLEAN : quiet = (push.quiet /\ Faultless)
  OBVIOUS
<1>10. PICK map : map = IF outcome = "applied" /\ e.action = "create"
                        THEN Registered(push.id_map, e, id) ELSE push.id_map
  OBVIOUS
<1>11. e.action = "create" => id \in Id /\ made[id] = None
  BY <1>6, <1>7, FreshIdIsNew
<1>12. e.action # "create" => id = e.target
  BY <1>7
<1>13. id \in Key \cup {None}
  BY <1>5, <1>11, <1>12, KeysApart DEF PlanEntry
<1>14. e.action # "delete" => raw \in Raw /\ raw.name = e.name
  BY <1>2, <1>5, <1>8, RemappedIs DEF Aims
<1>15. map \in SUBSET (Key \X Key)
  BY <1>2, <1>5, <1>10, <1>11, RegisteredIs, KeysApart
<1>16. push' = [push EXCEPT !.records = Recorded(e, outcome,
                  IF outcome = "failed" /\ e.action = "create" THEN None ELSE id),
                  !.id_map = map, !.k = @ + 1, !.quiet = quiet]
  BY <1>6, <1>7, <1>9, <1>10
<1>17. Call(e.action, e.type, id, raw, outcome)
  BY <1>6, <1>7, <1>8
<1>18. quiet => push.quiet /\ Faultless
  BY <1>9
<1> HIDE DEF fresh, cleaned
<1>19. /\ Next_entry \in PlanEntry /\ Aims(Next_entry) /\ Next_entry.supported
       /\ push.pc = "push" /\ push.k <= Len(push.plan)
       /\ Next_entry.action # "delete" => raw \in Raw /\ raw.name = Next_entry.name
       /\ Next_entry.action = "create" => id \in Id /\ made[id] = None
       /\ Next_entry.action # "create" => id = Next_entry.target
  BY <1>1, <1>4, <1>5, <1>11, <1>12, <1>14
<1>20. Call(Next_entry.action, Next_entry.type, id, raw, outcome)
  BY <1>4, <1>17
<1>21. push' = [push EXCEPT !.records = Recorded(Next_entry, outcome,
                  IF outcome = "failed" /\ Next_entry.action = "create" THEN None ELSE id),
                  !.id_map = map, !.k = @ + 1, !.quiet = quiet]
  BY <1>4, <1>16
<1>22. ExecutesAs(outcome, id, raw, map, quiet)
  BY <1>1, <1>18, <1>19, <1>20, <1>21, Zenon DEF ExecutesAs
<1> QED
  BY <1>13, <1>15, <1>22

\* What undoes a record: a call on what it names.
LEMMA UndoIs ==
  ASSUME CInv, NEW k \in DOMAIN push.records, NEW u \in Undo(k)
  PROVE  /\ push.plan[k] \in PlanEntry /\ push.records[k] \in PushRecord
         /\ push.records[k].status = "applied" /\ Of(push.records[k], push.plan[k])
         /\ \/ /\ push.records[k].action = "create" /\ u[1] = "delete"
               /\ u[2] = push.records[k].id
            \/ /\ push.records[k].action = "update" /\ u[1] = "update"
               /\ u[2] = push.plan[k].target /\ u[3] = push.plan[k].pre
               /\ u[3] \in Raw /\ made[u[2]].name = u[3].name
<1>1. push.plan \in Seq(PlanEntry) /\ push.records \in Seq(PushRecord)
      /\ Len(push.records) <= Len(push.plan)
  BY DEF CInv, Pushes, PushTyped, Book
<1>2. k \in DOMAIN push.plan
  BY <1>1
<1>3. push.plan[k] \in PlanEntry /\ Aims(push.plan[k]) /\ push.records[k] \in PushRecord
      /\ Of(push.records[k], push.plan[k])
  BY <1>1, <1>2 DEF CInv, Pushes
<1>4. push.records[k].status = "applied"
  BY DEF Undo
<1>5. \/ push.records[k].action = "create" /\ u = <<"delete", push.records[k].id, None>>
      \/ /\ push.records[k].action = "update"
         /\ u = <<"update", push.plan[k].target, push.plan[k].pre>>
  BY DEF Undo
<1> QED
  BY <1>3, <1>4, <1>5 DEF Of, Aims

\* A step of the rollback is the undoing of the last record that is left.
LEMMA RollbackIs ==
  ASSUME CInv, RollbackStep
  PROVE  /\ push.pc = "undo" /\ push.k > 0 /\ push.k \in DOMAIN push.records
         /\ UNCHANGED <<row, snap, import>>
         /\ \/ /\ Undo(push.k) = {} /\ UNCHANGED <<tenant, made, count>>
               /\ push' = [push EXCEPT !.k = @ - 1]
            \/ \E u \in Undo(push.k), outcome \in {"applied", "failed"}, quiet \in BOOLEAN :
                 /\ Call(u[1], push.plan[push.k].type, u[2], u[3], outcome)
                 /\ quiet => push.quiet /\ Faultless
                 /\ push' = [push EXCEPT !.k = @ - 1, !.quiet = quiet]
<1>1. push.pc = "undo" /\ push.k > 0 /\ UNCHANGED <<row, snap, import>>
  BY DEF RollbackStep
<1>2. push.k \in DOMAIN push.records
  BY <1>1 DEF CInv, Pushes, PushTyped, Book
<1>3. CASE /\ Undo(push.k) = {} /\ UNCHANGED <<tenant, made, count>>
           /\ push' = [push EXCEPT !.k = @ - 1]
  BY <1>1, <1>2, <1>3
<1>4. ASSUME NEW u \in Undo(push.k), NEW outcome \in {"applied", "failed"},
             Call(u[1], push.plan[push.k].type, u[2], u[3], outcome),
             push' = [push EXCEPT !.k = @ - 1, !.quiet = @ /\ Faultless]
      PROVE  \E quiet \in BOOLEAN :
               /\ quiet => push.quiet /\ Faultless
               /\ push' = [push EXCEPT !.k = @ - 1, !.quiet = quiet]
  <2>1. PICK quiet \in BOOLEAN : quiet = (push.quiet /\ Faultless)
    OBVIOUS
  <2> QED
    BY <1>4, <2>1
<1> QED
  BY <1>1, <1>2, <1>3, <1>4 DEF RollbackStep, UndoAt

\* The table, the snapshot and the import wait while a push writes.
LEMMA PushWrites ==
  ASSUME CInv, Grows, UNCHANGED <<row, snap, import>>,
         tenant' \in [Id -> Object \cup {None}],
         made' \in [Id -> [type : Type, name : Name] \cup {None}],
         count' \in [{"acts", "noise", "imports", "pushes"} -> Nat],
         Assigned(tenant)', PushTyped', Pushes'
  PROVE  CInv'
<1>1. Typed'
  BY DEF CInv, Typed, Table
<1>2. /\ (import.on => Assigned(import.view))' /\ Sorted(row)'
      /\ (snap # None => \A c \in snap : Real(c.type, c.id, c.raw))'
  BY HeldStays
<1> QED
  BY <1>1, <1>2 DEF CInv

\* A push that only changes its stage.
LEMMA PushMoves ==
  ASSUME CInv, UNCHANGED <<tenant, made, row, snap, import>>,
         count' \in [{"acts", "noise", "imports", "pushes"} -> Nat], PushTyped', Pushes'
  PROVE  CInv'
<1>1. Typed'
  BY DEF CInv, Typed, Table
<1>2. Assigned(tenant)'
  BY DEF CInv, Assigned
<1>3. Grows
  BY GrowsIfSame
<1>4. /\ (import.on => Assigned(import.view))' /\ Sorted(row)'
      /\ (snap # None => \A c \in snap : Real(c.type, c.id, c.raw))'
  BY <1>3, HeldStays
<1> QED
  BY <1>1, <1>2, <1>4 DEF CInv

\* Only the table changes, and what an import holds is let go.
LEMMA TableMoves ==
  ASSUME CInv, UNCHANGED <<tenant, made, snap>>, import' \in {import, NoImport},
         count' \in [{"acts", "noise", "imports", "pushes"} -> Nat],
         Table(row)', Sorted(row)', push' \in {push, [push EXCEPT !.index = {}]}
  PROVE  CInv'
<1>1. Typed'
  <2>1. CASE import' = import
    BY <2>1 DEF CInv, Typed
  <2>2. CASE import' = NoImport
    BY <2>2 DEF CInv, Typed, NoImport
  <2> QED
    BY <2>1, <2>2
<1>2. Assigned(tenant)'
  BY DEF CInv, Assigned
<1>3. PushTyped' /\ Pushes'
  BY BooksStay, GrowsIfSame DEF CInv
<1>4. (import.on => Assigned(import.view))'
  <2>1. CASE import' = import
    <3>1. Grows
      BY GrowsIfSame
    <3> QED
      BY <2>1, <3>1, HeldStays
  <2>2. CASE import' = NoImport
    BY <2>2 DEF NoImport
  <2> QED
    BY <2>1, <2>2
<1>5. (snap # None => \A c \in snap : Real(c.type, c.id, c.raw))'
  BY HeldStays, GrowsIfSame
<1> QED
  BY <1>1, <1>2, <1>3, <1>4, <1>5 DEF CInv

\* An entry that is not serviced is recorded.
LEMMA SkipKeeps ==
  ASSUME CInv, Skip
  PROVE  CInv'
<1>1. /\ push.pc = "push" /\ push.k <= Len(push.plan)
      /\ push' = [push EXCEPT !.records = Recorded(Next_entry, "manual", None), !.k = @ + 1]
      /\ UNCHANGED <<tenant, made, row, snap, import, count>>
  BY DEF Skip
<1>2. PICK map \in SUBSET (Key \X Key), quiet \in BOOLEAN :
        map = push.id_map /\ quiet = push.quiet
  BY DEF CInv, PushTyped, Book
<1>3. push' = [push EXCEPT !.records = Recorded(Next_entry, "manual", None),
                           !.id_map = map, !.k = @ + 1, !.quiet = quiet]
  BY <1>1, <1>2 DEF CInv, PushTyped, Book
<1>4. PushTyped' /\ Pushes'
  <2>1. Grows
    BY <1>1, GrowsIfSame
  <2>2. PICK status \in {"manual", "applied", "failed"}, rid \in Key \cup {None} :
          status = "manual" /\ rid = None
    OBVIOUS
  <2>3. push' = [push EXCEPT !.records = Recorded(Next_entry, status, rid),
                             !.id_map = map, !.k = @ + 1, !.quiet = quiet]
    BY <1>3, <2>2
  <2>4. status = "applied" /\ Next_entry.action # "delete" =>
          rid \in Id /\ made'[rid] = [type |-> Next_entry.type, name |-> Next_entry.name]
    BY <2>2
  <2>5. push.pc = "push" /\ push.k <= Len(push.plan)
    BY <1>1
  <2> QED
    BY ONLY CInv, <2>1, <2>3, <2>4, <2>5, RecordKeeps, status \in {"manual", "applied", "failed"},
            rid \in Key \cup {None}, map \in SUBSET (Key \X Key), quiet \in BOOLEAN
<1>5. count \in [{"acts", "noise", "imports", "pushes"} -> Nat]
  BY DEF CInv, Typed
<1> QED
  BY <1>1, <1>4, <1>5, PushMoves

\* An entry that is executed is recorded, with the id it was written to.
LEMMA ExecuteKeeps ==
  ASSUME CInv, Tidy(tenant), Execute
  PROVE  CInv' /\ Tidy(tenant)'
<1>1. PICK outcome \in {"applied", "failed"}, id \in Key \cup {None},
           map \in SUBSET (Key \X Key), quiet \in BOOLEAN :
        \E raw : ExecutesAs(outcome, id, raw, map, quiet)
  BY ExecuteIs
<1>2. PICK raw : ExecutesAs(outcome, id, raw, map, quiet)
  BY <1>1
<1>3. PICK e \in PlanEntry : e = Next_entry
  BY <1>2 DEF ExecutesAs
<1>4. /\ e.action \in {"create", "update", "delete"} /\ e.type \in Type /\ Aims(e)
      /\ e.action # "delete" => raw \in Raw /\ raw.name = e.name
      /\ e.action = "create" => id \in Id /\ made[id] = None
      /\ e.action # "create" => id = e.target
      /\ Call(e.action, e.type, id, raw, outcome)
  BY <1>2, <1>3 DEF ExecutesAs, PlanEntry
<1>5. e.action = "update" => made[id].name = raw.name
  BY <1>4 DEF Aims
<1>6. /\ tenant' \in [Id -> Object \cup {None}]
      /\ made' \in [Id -> [type : Type, name : Name] \cup {None}]
      /\ count' \in [{"acts", "noise", "imports", "pushes"} -> Nat]
      /\ Grows /\ Assigned(tenant)' /\ Tidy(tenant)'
      /\ outcome = "applied" /\ e.action # "delete" =>
           id \in Id /\ made'[id] = [type |-> e.type, name |-> raw.name]
  BY <1>4, <1>5, CallKeeps
<1> DEFINE rid == IF outcome = "failed" /\ e.action = "create" THEN None ELSE id
<1>7. /\ push.pc = "push" /\ push.k <= Len(push.plan)
      /\ push' = [push EXCEPT !.records = Recorded(Next_entry, outcome, rid), !.id_map = map,
                              !.k = @ + 1, !.quiet = quiet]
      /\ UNCHANGED <<row, snap, import>>
  BY <1>2, <1>3 DEF ExecutesAs
<1>8. rid \in Key \cup {None}
  OBVIOUS
<1>9. outcome = "applied" /\ Next_entry.action # "delete" =>
        rid \in Id /\ made'[rid] = [type |-> Next_entry.type, name |-> Next_entry.name]
  BY <1>3, <1>4, <1>6
<1>10. PushTyped' /\ Pushes'
  <2> HIDE DEF rid
  <2>1. outcome \in {"manual", "applied", "failed"}
    OBVIOUS
  <2> QED
    BY <1>6, <1>7, <1>8, <1>9, <2>1, RecordKeeps
<1> QED
  BY <1>6, <1>7, <1>10, PushWrites

\* A push that is over keeps its plan and its records.
LEMMA BooksMove ==
  ASSUME PushTyped, Pushes, Grows, NEW pc \in {"done", "undo", "undone"}, NEW k \in Nat,
         NEW all \in BOOLEAN, NEW quiet \in BOOLEAN, k <= Len(push.records),
         push' = [push EXCEPT !.pc = pc, !.k = k, !.all = all, !.quiet = quiet]
  PROVE  PushTyped' /\ Pushes'
<1>1. /\ push'.plan = push.plan /\ push'.records = push.records /\ push'.k = k
      /\ push'.pc = pc /\ push'.index = push.index /\ push'.against = push.against
  BY DEF PushTyped, Book
<1>2. PushTyped'
  <2> DEFINE a == [push EXCEPT !.pc = pc]
             b == [a EXCEPT !.k = k]
             c == [b EXCEPT !.all = all]
             d == [c EXCEPT !.quiet = quiet]
  <2>1. push' = d
    BY DEF PushTyped, Book
  <2>2. a \in Book(push.against)
    BY DEF PushTyped, Book
  <2>3. b \in Book(push.against)
    <3> HIDE DEF a
    <3> QED
      BY <2>2 DEF Book
  <2>4. c \in Book(push.against)
    <3> HIDE DEF b
    <3> QED
      BY <2>3 DEF Book
  <2>5. d \in Book(push.against)
    <3> HIDE DEF c
    <3> QED
      BY <2>4 DEF Book
  <2> QED
    BY <1>1, <2>1, <2>5 DEF PushTyped, Book
<1>3. \A n \in DOMAIN push.plan : Aims(push.plan[n])'
  BY <1>1, AimsStay DEF Pushes, Aims, Grows
<1>4. \A n \in DOMAIN push.records : Wrote(push.records[n])'
  <2> TAKE n \in DOMAIN push.records
  <2>1. PICK r \in PushRecord : r = push.records[n]
    BY DEF PushTyped, Book
  <2>2. Wrote(r)
    BY <2>1 DEF Pushes
  <2>3. Wrote(r)'
    BY <2>1, <2>2, WroteStays
  <2>4. push'.records[n] = r
    BY <1>1, <2>1
  <2> QED
    BY <2>3, <2>4 DEF Wrote
<1> QED
  BY <1>1, <1>2, <1>3, <1>4 DEF Pushes

\* A push that ends has the records it has.
LEMMA PushDoneKeeps ==
  ASSUME CInv, PushDone
  PROVE  CInv'
<1>1. PICK pc \in {"done", "undo"} :
        push' = [push EXCEPT !.pc = pc, !.k = Len(push.records), !.all = push.k > Len(push.plan)]
  BY DEF PushDone
<1>2. PICK k \in Nat, all \in BOOLEAN, quiet \in BOOLEAN :
        k = Len(push.records) /\ all = (push.k > Len(push.plan)) /\ quiet = push.quiet
  <2>1. push.records \in Seq(PushRecord) /\ push.quiet \in BOOLEAN
    BY DEF CInv, PushTyped, Book
  <2>2. Len(push.records) \in Nat /\ (push.k > Len(push.plan)) \in BOOLEAN
    BY <2>1
  <2> QED
    BY <2>1, <2>2
<1>3. push' = [push EXCEPT !.pc = pc, !.k = k, !.all = all, !.quiet = quiet]
  BY <1>1, <1>2 DEF CInv, PushTyped, Book
<1>4. UNCHANGED <<tenant, made, row, snap, import, count>>
  BY DEF PushDone
<1>5. PushTyped' /\ Pushes'
  <2>1. Grows /\ PushTyped /\ Pushes
    BY <1>4, GrowsIfSame DEF CInv
  <2>2. pc \in {"done", "undo", "undone"} /\ k <= Len(push.records)
    <3>1. push.records \in Seq(PushRecord)
      BY DEF CInv, PushTyped, Book
    <3> QED
      BY <1>2, <3>1
  <2> QED
    BY ONLY <1>3, <2>1, <2>2, k \in Nat, all \in BOOLEAN, quiet \in BOOLEAN, BooksMove
<1>6. count' \in [{"acts", "noise", "imports", "pushes"} -> Nat]
  BY <1>4 DEF CInv, Typed
<1> QED
  BY <1>4, <1>5, <1>6, PushMoves

\* A step of the rollback.
LEMMA RollbackKeeps ==
  ASSUME CInv, Tidy(tenant), RollbackStep
  PROVE  CInv' /\ Tidy(tenant)'
<1>1. /\ push.pc = "undo" /\ push.k > 0 /\ push.k \in DOMAIN push.records
      /\ UNCHANGED <<row, snap, import>>
  BY RollbackIs
<1>2. push.k \in Nat /\ push.k <= Len(push.records) /\ push.records \in Seq(PushRecord)
  BY <1>1 DEF CInv, Pushes, PushTyped, Book
<1>3. push.k - 1 \in Nat /\ push.k - 1 <= Len(push.records)
  BY <1>1, <1>2
<1>4. ASSUME Grows, NEW quiet \in BOOLEAN, push' = [push EXCEPT !.k = @ - 1, !.quiet = quiet]
      PROVE  PushTyped' /\ Pushes'
  <2>1. PICK pc \in {"done", "undo", "undone"}, k \in Nat, all \in BOOLEAN :
          pc = push.pc /\ k = push.k - 1 /\ all = push.all
    BY <1>1, <1>3 DEF CInv, PushTyped, Book
  <2>2. push' = [push EXCEPT !.pc = pc, !.k = k, !.all = all, !.quiet = quiet]
    BY <1>4, <2>1 DEF CInv, PushTyped, Book
  <2>3. PushTyped /\ Pushes /\ k <= Len(push.records)
    BY <1>3, <2>1 DEF CInv
  <2> QED
    BY ONLY Grows, quiet \in BOOLEAN, pc \in {"done", "undo", "undone"}, k \in Nat,
            all \in BOOLEAN, <2>2, <2>3, BooksMove
<1>5. CASE UNCHANGED <<tenant, made, count>> /\ push' = [push EXCEPT !.k = @ - 1]
  <2>1. PICK quiet \in BOOLEAN : quiet = push.quiet
    BY DEF CInv, PushTyped, Book
  <2>2. push' = [push EXCEPT !.k = @ - 1, !.quiet = quiet]
    BY <1>5, <2>1 DEF CInv, PushTyped, Book
  <2>3. PushTyped' /\ Pushes'
    BY <1>4, <1>5, <2>2, GrowsIfSame
  <2>4. count' \in [{"acts", "noise", "imports", "pushes"} -> Nat]
    BY <1>5 DEF CInv, Typed
  <2>5. Tidy(tenant)'
    BY <1>5 DEF Tidy
  <2> QED
    BY <1>1, <1>5, <2>3, <2>4, <2>5, PushMoves
<1>6. ASSUME NEW u \in Undo(push.k), NEW outcome \in {"applied", "failed"}, NEW quiet \in BOOLEAN,
             Call(u[1], push.plan[push.k].type, u[2], u[3], outcome),
             push' = [push EXCEPT !.k = @ - 1, !.quiet = quiet]
      PROVE  CInv' /\ Tidy(tenant)'
  <2>1. /\ push.plan[push.k] \in PlanEntry
        /\ u[1] \in {"delete", "update"}
        /\ u[1] = "update" => u[3] \in Raw /\ made[u[2]].name = u[3].name
    BY <1>1, UndoIs
  <2>2. push.plan[push.k].type \in Type
    BY <2>1 DEF PlanEntry
  <2>3. /\ tenant' \in [Id -> Object \cup {None}]
        /\ made' \in [Id -> [type : Type, name : Name] \cup {None}]
        /\ count' \in [{"acts", "noise", "imports", "pushes"} -> Nat]
        /\ Grows /\ Assigned(tenant)' /\ Tidy(tenant)'
    <3>1. PICK action \in {"create", "update", "delete"}, type \in Type :
            action = u[1] /\ type = push.plan[push.k].type
      BY <2>1, <2>2
    <3>2. PICK id, raw : id = u[2] /\ raw = u[3]
      OBVIOUS
    <3>3. /\ action # "delete" => raw \in Raw
          /\ action = "create" => id \in Id /\ made[id] = None
          /\ action = "update" => made[id].name = raw.name
          /\ Call(action, type, id, raw, outcome)
      BY <1>6, <2>1, <3>1, <3>2
    <3> QED
      BY <3>3, CallKeeps
  <2>4. PushTyped' /\ Pushes'
    BY <1>4, <1>6, <2>3
  <2> QED
    BY <1>1, <2>3, <2>4, PushWrites
<1> QED
  BY <1>5, <1>6, RollbackIs

\* A rollback that ends has nothing left to undo.
LEMMA RollbackDoneKeeps ==
  ASSUME CInv, RollbackDone
  PROVE  CInv'
<1>1. PICK k \in Nat, all \in BOOLEAN, quiet \in BOOLEAN :
        k = push.k /\ all = push.all /\ quiet = push.quiet
  BY DEF CInv, PushTyped, Book
<1>2. PICK pc \in {"done", "undo", "undone"} : pc = "undone"
  OBVIOUS
<1>3. push' = [push EXCEPT !.pc = pc, !.k = k, !.all = all, !.quiet = quiet]
  BY <1>1, <1>2 DEF RollbackDone, CInv, PushTyped, Book
<1>4. UNCHANGED <<tenant, made, row, snap, import, count>>
  BY DEF RollbackDone
<1>5. k <= Len(push.records)
  BY <1>1 DEF RollbackDone, CInv, Pushes
<1>6. PushTyped' /\ Pushes'
  BY <1>2, <1>3, <1>4, <1>5, BooksMove, GrowsIfSame DEF CInv
<1>7. count' \in [{"acts", "noise", "imports", "pushes"} -> Nat]
  BY <1>4 DEF CInv, Typed
<1> QED
  BY <1>4, <1>6, <1>7, PushMoves

\* A push that is forgotten has no books.
LEMMA CloseKeeps ==
  ASSUME CInv, Close
  PROVE  CInv'
<1>1. push' = NoPush /\ UNCHANGED <<tenant, made, row, snap, import, count>>
  BY DEF Close
<1>2. PushTyped' /\ Pushes'
  <2>1. <<>> \in Seq(PlanEntry) /\ <<>> \in Seq(PushRecord)
    OBVIOUS
  <2>2. PushTyped'
    BY <1>1, <2>1 DEF NoPush, PushTyped, Book
  <2>3. /\ push'.plan = <<>> /\ push'.records = <<>> /\ push'.pc = "idle"
        /\ push'.index = {}
    BY <1>1 DEF NoPush
  <2> QED
    BY <2>2, <2>3 DEF Pushes
<1>3. count' \in [{"acts", "noise", "imports", "pushes"} -> Nat]
  BY <1>1 DEF CInv, Typed
<1> QED
  BY <1>1, <1>2, <1>3, PushMoves

\* The actions that write the table.
LEMMA TableKeeps ==
  ASSUME CInv,
         \/ \E o \in Offers, replace \in BOOLEAN : ingest(o, replace)
         \/ Reviewed \/ promote \/ ImportWrite
  PROVE  CInv' /\ UNCHANGED <<tenant, made>>
<1>1. Table(row) /\ Sorted(row) /\ Typed
  BY DEF CInv, Typed
<1>2. ASSUME NEW o \in Offers, NEW replace \in BOOLEAN, ingest(o, replace)
      PROVE  CInv' /\ UNCHANGED <<tenant, made>>
  <2>1. UNCHANGED <<tenant, made, snap, push, import>> /\ count' = Counted("acts")
    BY <1>2 DEF ingest
  <2>2. Table(row)' /\ Sorted(row)'
    BY <1>1, <1>2, <2>1, IngestFits
  <2> QED
    BY <1>1, <2>1, <2>2, CountedTyped, TableMoves
<1>3. CASE Reviewed
  <2>1. PICK chosen :
          discard(chosen) \/ \E s \in {"pending", "accepted", "rejected"} : set_status(chosen, s)
    BY <1>3 DEF Reviewed
  <2>2. UNCHANGED <<tenant, made, snap, push, import>> /\ count' = Counted("acts")
    BY <2>1 DEF discard, set_status
  <2>3. Table(row)' /\ Sorted(row)'
    BY <1>1, <2>1, <2>2, ReviewFits
  <2> QED
    BY <1>1, <2>2, <2>3, CountedTyped, TableMoves
<1>4. CASE promote
  <2>1. /\ UNCHANGED <<tenant, made, snap, import, count>>
        /\ push' = [push EXCEPT !.index = {}] /\ row' \in PromotedAll(promotions_from)
    BY <1>4 DEF promote
  <2>2. PICK new : new = row'
    OBVIOUS
  <2>3. Promotes(new)
    BY <1>1, <2>1, <2>2, PromotedMany DEF CInv
  <2>4. Table(row)' /\ Sorted(row)'
    BY <2>1, <2>2, <2>3, TableWritten DEF Promotes
  <2>5. count' \in [{"acts", "noise", "imports", "pushes"} -> Nat]
    BY <1>1, <2>1 DEF Typed
  <2> QED
    BY <2>1, <2>4, <2>5, TableMoves
<1>5. CASE ImportWrite
  <2>1. import.on /\ import' = NoImport /\ UNCHANGED <<tenant, made, snap, push, count>>
    BY <1>5 DEF ImportWrite
  <2>2. Table(row)' /\ Sorted(row)'
    BY <1>1, <1>5, <2>1, ImportFits DEF CInv
  <2>3. count' \in [{"acts", "noise", "imports", "pushes"} -> Nat]
    BY <1>1, <2>1 DEF Typed
  <2> QED
    BY <2>1, <2>2, <2>3, TableMoves
<1> QED
  BY <1>2, <1>3, <1>4, <1>5

\* An import reads the tenant as it is.
LEMMA ReadKeeps ==
  ASSUME CInv, NEW types \in SUBSET Type, ImportRead(types)
  PROVE  CInv'
<1>1. /\ import'.on = TRUE /\ import'.types = types /\ import'.view = tenant
      /\ UNCHANGED <<tenant, made, row, snap, push>>
  BY DEF ImportRead
<1>2. count' \in [{"acts", "noise", "imports", "pushes"} -> Nat]
  <2>1. PICK failed : count' = [count EXCEPT !.imports = @ + 1,
                                             !.noise = IF failed = {} THEN @ ELSE @ + 1]
    BY DEF ImportRead
  <2>2. count \in [{"acts", "noise", "imports", "pushes"} -> Nat]
    BY DEF CInv, Typed
  <2>3. PICK m \in Nat, n \in Nat :
          m = count.imports + 1 /\ n = IF failed = {} THEN count.noise ELSE count.noise + 1
    BY <2>2
  <2>4. count' = [count EXCEPT !.imports = m, !.noise = n]
    BY <2>1, <2>3
  <2> QED
    BY <2>2, <2>4
<1>3. Typed'
  BY <1>1, <1>2 DEF CInv, Typed, Table
<1>4. Grows
  BY <1>1, GrowsIfSame
<1>5. PushTyped' /\ Pushes'
  BY <1>1, <1>4, BooksStay DEF CInv
<1>6. Assigned(tenant)' /\ (import.on => Assigned(import.view))'
  BY <1>1 DEF CInv, Assigned
<1>7. Sorted(row)' /\ (snap # None => \A c \in snap : Real(c.type, c.id, c.raw))'
  BY <1>1, <1>4, HeldStays
<1> QED
  BY <1>3, <1>5, <1>6, <1>7 DEF CInv

\* A snapshot is of live rows.
LEMMA SnapshotKeeps ==
  ASSUME CInv, create_snapshot
  PROVE  CInv'
<1>1. /\ snap' = Current /\ count' = Counted("acts")
      /\ UNCHANGED <<tenant, made, row, push, import>>
  BY DEF create_snapshot
<1>2. Table(row) /\ Sorted(row) /\ Typed
  BY DEF CInv, Typed
<1>3. count' \in [{"acts", "noise", "imports", "pushes"} -> Nat]
  BY <1>1, <1>2, CountedTyped
<1>4. Typed'
  BY <1>1, <1>2, <1>3, CurrentIs DEF Typed, Table
<1>5. Grows
  BY <1>1, GrowsIfSame
<1>6. PushTyped' /\ Pushes'
  BY <1>1, <1>5, BooksStay DEF CInv
<1>7. Assigned(tenant)' /\ (import.on => Assigned(import.view))' /\ Sorted(row)'
  BY <1>1, <1>5, HeldStays DEF CInv, Assigned
<1>8. \A c \in Current : Real(c.type, c.id, c.raw)
  <2> TAKE c \in Current
  <2>1. c \in Filed /\ row[c.type][c.id] # None /\ row[c.type][c.id].live
        /\ row[c.type][c.id].raw = c.raw
    BY <1>2, CurrentIs
  <2>2. c.type \in Type /\ c.id \in Key
    BY <2>1 DEF Filed
  <2>3. Real(c.type, c.id, row[c.type][c.id].raw)
    BY <1>2, <2>1, <2>2 DEF Sorted
  <2> QED
    BY <2>1, <2>3
<1>9. (snap # None => \A c \in snap : Real(c.type, c.id, c.raw))'
  BY <1>1, <1>8 DEF Real
<1> QED
  BY <1>4, <1>6, <1>7, <1>9 DEF CInv

\* What somebody changes by hand keeps its type and its name.
LEMMA EditKeeps ==
  ASSUME CInv, Tidy(tenant), NEW i \in Id, EditTenant(i)
  PROVE  CInv' /\ Tidy(tenant)'
<1>1. /\ tenant[i] # None /\ push' = [push EXCEPT !.quiet = FALSE] /\ count' = Counted("noise")
      /\ UNCHANGED <<made, row, snap, import>>
  BY DEF EditTenant, Objects, Exists
<1>2. Typed /\ Assigned(tenant) /\ tenant \in [Id -> Object \cup {None}]
  BY DEF CInv, Typed
<1>3. tenant[i] \in Object
  BY <1>1, <1>2
<1>4. /\ tenant' \in [Id -> Object \cup {None}] /\ Assigned(tenant)' /\ Tidy(tenant)'
  <2>1. CASE Accepts("delete", tenant[i].type, i, None) /\ tenant' = [tenant EXCEPT ![i] = None]
    <3>1. tenant[i].type \in Type
      BY <1>3 DEF Object
    <3>2. PICK action \in {"create", "update", "delete"} : action = "delete"
      OBVIOUS
    <3>3. Accepts(action, tenant[i].type, i, None) /\ Written(action, tenant[i].type, i, None)
      BY <1>1, <2>1, <3>2 DEF Written
    <3> QED
      BY <1>2, <3>1, <3>2, <3>3, AcceptedWrite
  <2>2. ASSUME NEW raw \in Raw, tenant' = [tenant EXCEPT ![i].raw = raw],
               raw.name = tenant[i].raw.name, raw.refs \subseteq tenant[i].raw.refs
        PROVE  tenant' \in [Id -> Object \cup {None}] /\ Assigned(tenant)' /\ Tidy(tenant)'
    <3>1. tenant[i].type \in Type /\ tenant[i] = [type |-> tenant[i].type, raw |-> tenant[i].raw]
      BY <1>3 DEF Object
    <3>2. tenant' = [tenant EXCEPT ![i] = [type |-> tenant[i].type, raw |-> raw]]
      <4>1. PICK o \in Object : o = tenant[i]
        BY <1>3
      <4>2. [o EXCEPT !.raw = raw] = [type |-> o.type, raw |-> raw]
        BY DEF Object
      <4>3. tenant' = [tenant EXCEPT ![i] = [o EXCEPT !.raw = raw]]
        BY <2>2, <4>1
      <4> QED
        BY <4>1, <4>2, <4>3
    <3>3. PICK action \in {"create", "update", "delete"} : action = "update"
      OBVIOUS
    <3>4. raw.refs \subseteq Objects
      BY <1>1, <2>2 DEF Tidy, Objects, Exists
    <3>5. \A j \in Objects \ {i} : tenant[j].type = tenant[i].type => tenant[j].raw.name # raw.name
      BY <1>1, <2>2 DEF Tidy, Objects, Exists
    <3>6. Accepts(action, tenant[i].type, i, raw)
      BY <1>1, <3>3, <3>4, <3>5 DEF Accepts, Objects, Exists
    <3>7. Written(action, tenant[i].type, i, raw)
      BY <1>1, <3>2, <3>3 DEF Written
    <3>8. made[i].name = raw.name
      <4>1. made[i] = [type |-> tenant[i].type, name |-> tenant[i].raw.name]
        BY <1>1, <1>2 DEF Assigned
      <4> QED
        BY <2>2, <4>1
    <3> QED
      BY <1>2, <3>1, <3>3, <3>6, <3>7, <3>8, AcceptedWrite
  <2>3. ASSUME NEW c \in Cfg, tenant' = [tenant EXCEPT ![i].raw.cfg = c]
        PROVE  \E raw \in Raw : /\ tenant' = [tenant EXCEPT ![i].raw = raw]
                                /\ raw.name = tenant[i].raw.name
                                /\ raw.refs \subseteq tenant[i].raw.refs
    <3>1. PICK raw : raw = [tenant[i].raw EXCEPT !.cfg = c]
      OBVIOUS
    <3>2. raw \in Raw /\ raw.name = tenant[i].raw.name /\ raw.refs = tenant[i].raw.refs
      BY <1>3, <3>1 DEF Object, Raw
    <3>3. tenant' = [tenant EXCEPT ![i].raw = raw]
      BY <2>3, <3>1
    <3> QED
      BY <3>2, <3>3
  <2>4. ASSUME tenant' = [tenant EXCEPT ![i].raw.refs = {}]
        PROVE  \E raw \in Raw : /\ tenant' = [tenant EXCEPT ![i].raw = raw]
                                /\ raw.name = tenant[i].raw.name
                                /\ raw.refs \subseteq tenant[i].raw.refs
    <3>1. PICK raw : raw = [tenant[i].raw EXCEPT !.refs = {}]
      OBVIOUS
    <3>2. raw \in Raw /\ raw.name = tenant[i].raw.name /\ raw.refs = {}
      BY <1>3, <3>1 DEF Object, Raw
    <3>3. tenant' = [tenant EXCEPT ![i].raw = raw]
      BY <2>4, <3>1
    <3> QED
      BY <3>2, <3>3
  <2> QED
    BY <2>1, <2>2, <2>3, <2>4 DEF EditTenant
<1>5. Grows
  BY <1>1, GrowsIfSame
<1>6. PushTyped' /\ Pushes'
  BY <1>1, <1>5, BooksStay DEF CInv
<1>7. count' \in [{"acts", "noise", "imports", "pushes"} -> Nat]
  BY <1>1, <1>2, CountedTyped
<1>8. made' \in [Id -> [type : Type, name : Name] \cup {None}]
  BY <1>1, <1>2 DEF Typed
<1> QED
  BY <1>1, <1>4, <1>5, <1>6, <1>7, <1>8, PushWrites

\* A table that mirrors the tenant, and what was proposed.
LEMMA InitHolds ==
  ASSUME Init
  PROVE  CInv /\ Tidy(tenant)
<1>1. /\ tenant \in [Id -> Object \cup {None}] /\ Tidy(tenant)
      /\ made = [i \in Id |-> IF tenant[i] = None THEN None
                              ELSE [type |-> tenant[i].type, name |-> tenant[i].raw.name]]
      /\ snap = None /\ push = NoPush /\ import = NoImport
      /\ count = [c \in {"acts", "noise", "imports", "pushes"} |-> 0]
  BY StartAssumption DEF Init
<1>2. \A i \in Id : tenant[i] # None =>
        /\ tenant[i].type \in Type /\ tenant[i].raw \in Raw /\ tenant[i].raw.name \in Name
        /\ made[i] = [type |-> tenant[i].type, name |-> tenant[i].raw.name]
  BY <1>1 DEF Object, Raw
<1>3. made \in [Id -> [type : Type, name : Name] \cup {None}]
  BY <1>1, <1>2
<1>4. PICK offer \in Offers :
        row = [t \in Type |-> [k \in Key |->
          LET own == k \in Id /\ tenant[k] # None /\ tenant[k].type = t
              new == {o \in offer : o.type = t /\ candidate_key[o.raw.name] = k}
          IN  IF own THEN LiveRow(tenant[k].raw, 1)
              ELSE IF new = {} THEN None
              ELSE [raw |-> (CHOOSE o \in new : TRUE).raw, live |-> FALSE,
                    status |-> "accepted", synced |-> 0, deleted |-> FALSE]]]
  BY DEF Init
<1>5. ASSUME NEW t \in Type, NEW k \in Key
      PROVE  Fits(t, k, row[t][k])
  <2> DEFINE own == k \in Id /\ tenant[k] # None /\ tenant[k].type = t
             new == {o \in offer : o.type = t /\ candidate_key[o.raw.name] = k}
             raw == (CHOOSE o \in new : TRUE).raw
  <2>1. row[t][k] = IF own THEN LiveRow(tenant[k].raw, 1)
                    ELSE IF new = {} THEN None
                    ELSE [raw |-> raw, live |-> FALSE, status |-> "accepted", synced |-> 0,
                          deleted |-> FALSE]
    BY <1>4
  <2>2. CASE own
    <3>1. tenant[k].raw \in Raw /\ Real(t, k, tenant[k].raw) /\ made[k].type = t
      <4>1. /\ tenant[k].type \in Type /\ tenant[k].raw.name \in Name /\ tenant[k].type = t
            /\ made[k] = [type |-> tenant[k].type, name |-> tenant[k].raw.name]
        BY <1>2, <2>2
      <4>2. made[k] \in [type : Type, name : Name]
        BY <4>1
      <4>3. made[k] # None /\ made[k].name = tenant[k].raw.name /\ made[k].type = t
        BY <4>1, <4>2, NoneAssumption
      <4> QED
        BY <1>2, <2>2, <4>3 DEF Real
    <3>2. row[t][k] = LiveRow(tenant[k].raw, 1)
      BY <2>1, <2>2
    <3> QED
      BY <3>1, <3>2 DEF Fits, LiveRow, Row, Strays
  <2>3. CASE ~own /\ new = {}
    BY <2>1, <2>3 DEF Fits
  <2>4. CASE ~own /\ new # {}
    <3>1. PICK o \in offer : /\ o = (CHOOSE x \in new : TRUE)
                             /\ o.type = t /\ candidate_key[o.raw.name] = k
      BY <2>4
    <3>2. o.raw \in Raw /\ Offered(t, o.raw.name)
      BY <3>1, OffersTyped
    <3>3. row[t][k] = [raw |-> o.raw, live |-> FALSE, status |-> "accepted", synced |-> 0,
                       deleted |-> FALSE]
      BY <2>1, <2>4, <3>1
    <3> QED
      BY <3>1, <3>2, <3>3 DEF Fits, Row, StagedAt, Strays
  <2> HIDE DEF own, new
  <2> QED
    BY <2>2, <2>3, <2>4
<1>6. row = [t \in Type |-> [k \in Key |-> row[t][k]]]
  BY <1>4
<1>7. Table(row) /\ Sorted(row)
  BY <1>5, <1>6, FitsIs
<1>8. Typed
  BY <1>1, <1>3, <1>7 DEF Typed, NoImport
<1>9. PushTyped
  <2>1. <<>> \in Seq(PlanEntry) /\ <<>> \in Seq(PushRecord)
    OBVIOUS
  <2> QED
    BY <1>1, <2>1 DEF NoPush, PushTyped, Book
<1>10. Pushes
  BY <1>1 DEF NoPush, Pushes
<1>11. Assigned(tenant) /\ (import.on => Assigned(import.view))
  BY <1>1, <1>2 DEF Assigned, NoImport
<1> QED
  BY <1>1, <1>7, <1>8, <1>9, <1>10, <1>11 DEF CInv

\* Nothing happens.
LEMMA SameKeeps ==
  ASSUME CInv, UNCHANGED vars
  PROVE  CInv'
<1>1. UNCHANGED <<tenant, made, row, snap, push, import, count>>
  BY DEF vars
<1>2. Table(row)' /\ Sorted(row)'
  BY <1>1, GrowsIfSame, HeldStays DEF CInv, Typed, Table
<1>3. count' \in [{"acts", "noise", "imports", "pushes"} -> Nat]
  BY <1>1 DEF CInv, Typed
<1> QED
  BY <1>1, <1>2, <1>3, TableMoves

\* The tenant stays tidy where it is left alone.
LEMMA TidyStays ==
  ASSUME Tidy(tenant), tenant' = tenant
  PROVE  Tidy(tenant)'
BY DEF Tidy

\* Every step keeps the books in order and the tenant tidy.
LEMMA BooksKept ==
  ASSUME CInv, Tidy(tenant), [Next]_vars
  PROVE  CInv' /\ Tidy(tenant)'
<1>1. CASE \/ \E o \in Offers, replace \in BOOLEAN : ingest(o, replace)
           \/ Reviewed \/ promote \/ ImportWrite
  BY <1>1, TableKeeps, TidyStays
<1>2. ASSUME NEW selection \in SUBSET {p \in Type \X Key : Accepted(p[1], p[2])},
             classify_merge(selection)
      PROVE  CInv' /\ Tidy(tenant)'
  <2>1. selection \in SUBSET (Type \X Key)
    OBVIOUS
  <2>2. tenant' = tenant
    BY <1>2 DEF classify_merge, Begin
  <2> QED
    BY <1>2, <2>1, <2>2, MergeKeeps, TidyStays
<1>3. CASE classify_restore
  <2>1. tenant' = tenant
    BY <1>3 DEF classify_restore, Begin
  <2> QED
    BY <1>3, <2>1, RestoreKeeps, TidyStays
<1>4. CASE create_snapshot
  <2>1. tenant' = tenant
    BY <1>4 DEF create_snapshot
  <2> QED
    BY <1>4, <2>1, SnapshotKeeps, TidyStays
<1>5. CASE Skip
  <2>1. tenant' = tenant
    BY <1>5 DEF Skip
  <2> QED
    BY <1>5, <2>1, SkipKeeps, TidyStays
<1>6. CASE Execute
  BY <1>6, ExecuteKeeps
<1>7. CASE PushDone
  <2>1. tenant' = tenant
    BY <1>7 DEF PushDone
  <2> QED
    BY <1>7, <2>1, PushDoneKeeps, TidyStays
<1>8. CASE RollbackStep
  BY <1>8, RollbackKeeps
<1>9. CASE RollbackDone
  <2>1. tenant' = tenant
    BY <1>9 DEF RollbackDone
  <2> QED
    BY <1>9, <2>1, RollbackDoneKeeps, TidyStays
<1>10. CASE Close
  <2>1. tenant' = tenant
    BY <1>10 DEF Close
  <2> QED
    BY <1>10, <2>1, CloseKeeps, TidyStays
<1>11. CASE ImportRead(Type) \/ ImportRead(Touched)
  <2>1. Touched \in SUBSET Type
    <3>1. push.plan \in Seq(PlanEntry)
      BY DEF CInv, PushTyped, Book
    <3>2. \A n \in DOMAIN push.plan : push.plan[n] \in PlanEntry
      BY <3>1
    <3>3. \A e \in PlanEntry : e.type \in Type
      BY DEF PlanEntry
    <3> QED
      BY <3>2, <3>3 DEF Touched
  <2>2. tenant' = tenant
    BY <1>11 DEF ImportRead
  <2> QED
    BY <1>11, <2>1, <2>2, ReadKeeps, TidyStays
<1>12. ASSUME NEW i \in Id, EditTenant(i)
       PROVE  CInv' /\ Tidy(tenant)'
  BY <1>12, EditKeeps
<1>13. CASE UNCHANGED vars
  <2>1. tenant' = tenant
    BY <1>13 DEF vars
  <2> QED
    BY <1>13, <2>1, SameKeeps, TidyStays
<1> QED
  BY <1>1, <1>2, <1>3, <1>4, <1>5, <1>6, <1>7, <1>8, <1>9, <1>10, <1>11, <1>12, <1>13 DEF Next

---------------------------------------------------------------------------
(* What an accepted candidate is promised.                                 *)

\* An accepted candidate is not touched by an import.
LEMMA ImportPasses ==
  ASSUME CInv, ImportWrite, NEW t \in Type, NEW k \in Key, Accepted(t, k)
  PROVE  row'[t][k] = row[t][k]
<1>1. row[t][k] # None /\ ~row[t][k].live
  BY DEF Accepted, Candidate, CandidateKeys
<1>2. StagedAt(t, k, row[t][k]) /\ row[t][k].raw.name \in Name
  <2>1. row[t][k] \in Row
    BY <1>1 DEF CInv, Typed, Table
  <2> QED
    BY <1>1, <2>1 DEF CInv, Sorted, Row, Raw
<1>3. k \notin Id
  BY <1>2, KeysApart DEF StagedAt
<1>4. row'[t][k] = Imported(t, k)
  BY DEF ImportWrite
<1> QED
  BY <1>1, <1>3, <1>4 DEF Imported

\* Who takes a candidate off the list has a reason.
LEMMA AcceptedStep ==
  ASSUME CInv, [Next]_vars, NEW t \in Type, NEW k \in Key, Accepted(t, k), ~Accepted(t, k)',
         OneType(row[t][k].raw.name)
  PROVE  \/ count'["acts"] # count["acts"]
         \/ \E r \in Range(push.records) :
              r.type = t /\ r.name = row[t][k].raw.name /\ r.status = "applied"
<1>1. row'[t][k] # row[t][k]
  BY DEF Accepted, Candidate, CandidateKeys
<1>2. count' = Counted("acts") => count'["acts"] # count["acts"]
  <2>1. count \in [{"acts", "noise", "imports", "pushes"} -> Nat]
    BY DEF CInv, Typed
  <2>2. count["acts"] \in Nat /\ Counted("acts")["acts"] = count["acts"] + 1
    BY <2>1 DEF Counted
  <2> QED
    BY <2>2
<1>3. CASE (\E o \in Offers, replace \in BOOLEAN : ingest(o, replace)) \/ Reviewed
  BY <1>2, <1>3 DEF ingest, Reviewed, set_status, discard
<1>4. CASE promote
  <2>1. PICK new : new = row' /\ new \in PromotedAll(promotions_from)
    BY <1>4 DEF promote
  <2>2. Promotes(new)
    BY <2>1, PromotedMany DEF CInv, Typed
  <2>3. k \notin Id
    <3>1. row[t][k] # None /\ ~row[t][k].live
      BY DEF Accepted, Candidate, CandidateKeys
    <3>2. row[t][k] \in Row
      BY <3>1 DEF CInv, Typed, Table
    <3>3. StagedAt(t, k, row[t][k]) /\ row[t][k].raw.name \in Name
      BY <3>1, <3>2 DEF CInv, Sorted, Row, Raw
    <3> QED
      BY <3>3, KeysApart DEF StagedAt
  <2>4. Answered(t, k)
    BY <1>1, <2>1, <2>2, <2>3 DEF Promotes
  <2> QED
    BY <2>4 DEF Answered
<1>5. CASE ImportWrite
  BY <1>1, <1>5, ImportPasses
<1>6. CASE row' = row
  BY <1>1, <1>6
<1>7. \/ (\E o \in Offers, replace \in BOOLEAN : ingest(o, replace)) \/ Reviewed
      \/ promote \/ ImportWrite \/ row' = row
  BY DEF Next, vars, classify_merge, classify_restore, Begin, create_snapshot, Skip, Execute,
         PushDone, RollbackStep, RollbackDone, Close, ImportRead, EditTenant
<1> QED
  BY <1>3, <1>4, <1>5, <1>6, <1>7

---------------------------------------------------------------------------
(* What a merge has written can be undone.                                 *)

\* A record that nothing was written for.
LEMMA NothingWritten ==
  ASSUME NEW records \in Seq(PushRecord), NEW was, NEW conf, NEW r \in PushRecord,
         r.status # "applied", Traced(was, conf, records, Len(records))
  PROVE  Traced(was, conf, Append(records, r), Len(records) + 1)
<1> DEFINE N == Len(records)
           after == Append(records, r)
<1>1. /\ N \in Nat /\ DOMAIN records = 1..N /\ DOMAIN after = 1..N + 1
      /\ \A n \in 1..N : after[n] = records[n]
      /\ after[N + 1] = r
  OBVIOUS
<1> HIDE DEF N, after
<1>2. \A n : /\ Applied(after, n) <=> Applied(records, n)
             /\ Made(after, n) <=> Made(records, n)
  BY <1>1 DEF Applied, Made
<1>3. /\ Stays(was, conf) /\ Told(was, conf, records, N)
      /\ News(was, conf, records, N) /\ Later(conf, records, N)
  BY DEF Traced, N
<1>4. \A n : Applied(after, n) => n \in 1..N /\ n \in DOMAIN records /\ after[n] = records[n]
  BY <1>1, <1>2 DEF Applied
<1>5. \A n : Made(after, n) => Applied(after, n)
  BY DEF Made
<1>6. Told(was, conf, after, N + 1)
  <2> SUFFICES ASSUME NEW i \in Id, conf[i] # was[i]
               PROVE  \E n \in 1..N + 1 : Applied(after, n) /\ after[n].id = i
    BY DEF Told
  <2>1. PICK n \in 1..N : Applied(records, n) /\ records[n].id = i
    BY <1>3 DEF Told
  <2> QED
    BY <1>1, <1>2, <2>1
<1>7. News(was, conf, after, N + 1)
  <2> SUFFICES ASSUME NEW n \in DOMAIN after, Made(after, n)
               PROVE  /\ after[n].id \in Id /\ was[after[n].id] = None
                      /\ n <= N + 1 => conf[after[n].id] # None
                                       /\ conf[after[n].id].type = after[n].type
                      /\ \A m \in DOMAIN after :
                           Made(after, m) /\ after[m].id = after[n].id => m = n
    BY DEF News
  <2>1. n \in DOMAIN records /\ n <= N /\ after[n] = records[n] /\ Made(records, n)
    BY <1>1, <1>2, <1>4, <1>5
  <2>2. /\ records[n].id \in Id /\ was[records[n].id] = None
        /\ conf[records[n].id] # None /\ conf[records[n].id].type = records[n].type
        /\ \A m \in DOMAIN records :
             Made(records, m) /\ records[m].id = records[n].id => m = n
    BY <1>3, <2>1 DEF News
  <2>3. \A m \in DOMAIN after : Made(after, m) /\ after[m].id = after[n].id => m = n
    BY <1>2, <1>4, <1>5, <2>1, <2>2
  <2> QED
    BY <2>1, <2>2, <2>3
<1>8. Later(conf, after, N + 1)
  <2> SUFFICES ASSUME NEW n \in DOMAIN after, NEW j \in Id, Made(after, n), conf[j] # None,
                      after[n].id \in conf[j].raw.refs
               PROVE  \E m \in n + 1..N + 1 : Applied(after, m) /\ after[m].id = j
    BY DEF Later
  <2>1. n \in DOMAIN records /\ after[n] = records[n] /\ Made(records, n)
    BY <1>2, <1>4, <1>5
  <2>2. PICK m \in n + 1..N : Applied(records, m) /\ records[m].id = j
    BY <1>3, <2>1 DEF Later
  <2>3. m \in n + 1..N + 1 /\ Applied(after, m) /\ after[m].id = j
    BY <1>1, <1>2, <1>4, <2>1, <2>2
  <2> QED
    BY <2>3
<1> QED
  BY <1>3, <1>6, <1>7, <1>8 DEF Traced, after, N

\* A record of a write.
LEMMA OneWritten ==
  ASSUME NEW records \in Seq(PushRecord), NEW was, NEW conf \in [Id -> Object \cup {None}],
         NEW r \in PushRecord, NEW raw \in Raw,
         r.status = "applied", r.id \in Id, Tidy(conf),
         Traced(was, conf, records, Len(records)),
         r.action = "create" =>
           /\ conf[r.id] = None /\ was[r.id] = None
           /\ raw.refs \subseteq {i \in Id : conf[i] # None}
           /\ \A n \in DOMAIN records : Made(records, n) => records[n].id # r.id,
         r.action # "create" => was[r.id] # None,
         was[r.id] # None => was[r.id].type = r.type /\ was[r.id].raw.name = raw.name
  PROVE  Traced(was, [conf EXCEPT ![r.id] = [type |-> r.type, raw |-> raw]],
                Append(records, r), Len(records) + 1)
<1> DEFINE N == Len(records)
           after == Append(records, r)
           now == [conf EXCEPT ![r.id] = [type |-> r.type, raw |-> raw]]
<1>1. /\ N \in Nat /\ DOMAIN records = 1..N /\ DOMAIN after = 1..N + 1
      /\ \A n \in 1..N : after[n] = records[n]
      /\ after[N + 1] = r
  OBVIOUS
<1>2. /\ now[r.id].type = r.type /\ now[r.id].raw = raw /\ now[r.id] # None
      /\ \A i \in Id : i # r.id => now[i] = conf[i]
  <2>1. [type |-> r.type, raw |-> raw] \in Object
    BY DEF PushRecord, Object
  <2>2. [type |-> r.type, raw |-> raw] # None
    BY <2>1, NoneAssumption
  <2> QED
    BY <2>2
<1> HIDE DEF N, after, now
<1>3. /\ Stays(was, conf) /\ Told(was, conf, records, N)
      /\ News(was, conf, records, N) /\ Later(conf, records, N)
  BY DEF Traced, N
<1>4. /\ \A n \in 1..N : /\ Applied(after, n) <=> Applied(records, n)
                         /\ Made(after, n) <=> Made(records, n)
      /\ Applied(after, N + 1) /\ (Made(after, N + 1) <=> r.action = "create")
  BY <1>1 DEF Applied, Made
<1>5. \A n \in 1..N : Made(records, n) =>
        /\ records[n].id \in Id /\ records[n].id # r.id /\ was[records[n].id] = None
        /\ conf[records[n].id] # None /\ conf[records[n].id].type = records[n].type
        /\ \A m \in 1..N : Made(records, m) /\ records[m].id = records[n].id => m = n
  <2> SUFFICES ASSUME NEW n \in 1..N, Made(records, n)
               PROVE  /\ records[n].id \in Id /\ records[n].id # r.id /\ was[records[n].id] = None
                      /\ conf[records[n].id] # None /\ conf[records[n].id].type = records[n].type
                      /\ \A m \in 1..N : Made(records, m) /\ records[m].id = records[n].id => m = n
    OBVIOUS
  <2>1. n \in DOMAIN records /\ n <= N
    BY <1>1
  <2>2. /\ records[n].id \in Id /\ was[records[n].id] = None
        /\ conf[records[n].id] # None /\ conf[records[n].id].type = records[n].type
        /\ \A m \in DOMAIN records : Made(records, m) /\ records[m].id = records[n].id => m = n
    BY <1>3, <2>1 DEF News
  <2>3. records[n].id # r.id
    BY <2>1, <2>2
  <2> QED
    BY <1>1, <2>2, <2>3
<1>6. Stays(was, now)
  BY <1>2, <1>3 DEF Stays
<1>7. Told(was, now, after, N + 1)
  <2> SUFFICES ASSUME NEW i \in Id, now[i] # was[i]
               PROVE  \E n \in 1..N + 1 : Applied(after, n) /\ after[n].id = i
    BY DEF Told
  <2>1. CASE i = r.id
    BY <1>1, <1>4, <2>1
  <2>2. CASE i # r.id
    <3>1. PICK n \in 1..N : Applied(records, n) /\ records[n].id = i
      BY <1>2, <1>3, <2>2 DEF Told
    <3> QED
      BY <1>1, <1>4, <3>1
  <2> QED
    BY <2>1, <2>2
<1>8. News(was, now, after, N + 1)
  <2> SUFFICES ASSUME NEW n \in 1..N + 1, Made(after, n)
               PROVE  /\ after[n].id \in Id /\ was[after[n].id] = None
                      /\ now[after[n].id] # None /\ now[after[n].id].type = after[n].type
                      /\ \A m \in 1..N + 1 :
                           Made(after, m) /\ after[m].id = after[n].id => m = n
    BY <1>1 DEF News
  <2>1. CASE n = N + 1
    <3>1. r.action = "create" /\ after[n] = r
      BY <1>1, <1>4, <2>1
    <3>2. \A m \in 1..N : Made(after, m) => after[m].id # r.id
      BY <1>1, <1>4, <1>5
    <3>3. \A m \in 1..N + 1 : Made(after, m) /\ after[m].id = after[n].id => m = n
      BY <1>1, <2>1, <3>1, <3>2
    <3> QED
      BY <1>2, <3>1, <3>3
  <2>2. CASE n \in 1..N
    <3>1. after[n] = records[n] /\ Made(records, n)
      BY <1>1, <1>4, <2>2
    <3>2. \A m \in 1..N + 1 : Made(after, m) /\ after[m].id = after[n].id => m = n
      <4> SUFFICES ASSUME NEW m \in 1..N + 1, Made(after, m), after[m].id = after[n].id
                   PROVE  m = n
        OBVIOUS
      <4>1. m # N + 1
        BY <1>1, <1>5, <2>2, <3>1
      <4>2. m \in 1..N
        BY <1>1, <4>1
      <4>3. Made(records, m) /\ records[m].id = records[n].id
        BY <1>1, <1>4, <3>1, <4>2
      <4> QED
        BY <1>5, <2>2, <3>1, <4>2, <4>3
    <3>3. now[records[n].id] = conf[records[n].id]
      BY <1>2, <1>5, <2>2, <3>1
    <3> QED
      BY <1>5, <2>2, <3>1, <3>2, <3>3
  <2> QED
    BY <1>1, <2>1, <2>2
<1>9. Later(now, after, N + 1)
  <2> SUFFICES ASSUME NEW n \in 1..N + 1, NEW j \in Id, Made(after, n), now[j] # None,
                      after[n].id \in now[j].raw.refs
               PROVE  \E m \in n + 1..N + 1 : Applied(after, m) /\ after[m].id = j
    BY <1>1 DEF Later
  <2>1. CASE n = N + 1
    <3>1. r.action = "create" /\ after[n] = r /\ conf[r.id] = None
      BY <1>1, <1>4, <2>1
    <3>2. CASE j = r.id
      BY <1>2, <3>1, <3>2
    <3>3. CASE j # r.id
      BY <1>2, <3>1, <3>3 DEF Tidy
    <3> QED
      BY <3>2, <3>3
  <2>2. CASE n \in 1..N
    <3>1. n \in DOMAIN records /\ after[n] = records[n] /\ Made(records, n)
      BY <1>1, <1>4, <2>2
    <3>2. CASE j = r.id
      <4>1. N + 1 \in n + 1..N + 1
        BY <1>1, <2>2
      <4> QED
        BY <1>1, <1>4, <3>2, <4>1
    <3>3. CASE j # r.id
      <4>1. PICK m \in n + 1..N : Applied(records, m) /\ records[m].id = j
        BY <1>2, <1>3, <3>1, <3>3 DEF Later
      <4>2. m \in 1..N /\ m \in n + 1..N + 1
        BY <1>1, <2>2
      <4> QED
        BY <1>1, <1>4, <4>1, <4>2
    <3> QED
      BY <3>2, <3>3
  <2> QED
    BY <1>1, <2>1, <2>2
<1> QED
  BY <1>6, <1>7, <1>8, <1>9 DEF Traced, after, N, now

\* A record that there is nothing to undo for.
LEMMA NothingUndone ==
  ASSUME NEW records \in Seq(PushRecord), NEW was, NEW conf, NEW k \in Nat \ {0},
         ~Applied(records, k), Traced(was, conf, records, k)
  PROVE  Traced(was, conf, records, k - 1)
<1>1. \A n, m \in Nat : m \in n..k /\ Applied(records, m) => m \in n..k - 1
  OBVIOUS
<1>2. Told(was, conf, records, k - 1)
  BY <1>1 DEF Told, Traced
<1>3. News(was, conf, records, k - 1)
  BY DEF News, Traced
<1>4. Later(conf, records, k - 1)
  <2> SUFFICES ASSUME NEW n \in DOMAIN records, NEW j \in Id, Made(records, n), conf[j] # None,
                      records[n].id \in conf[j].raw.refs
               PROVE  \E m \in n + 1..k - 1 : Applied(records, m) /\ records[m].id = j
    BY DEF Later
  <2>1. PICK m \in n + 1..k : Applied(records, m) /\ records[m].id = j
    BY DEF Later, Traced
  <2>2. m \in n + 1..k - 1
    BY <2>1
  <2> QED
    BY <2>1, <2>2
<1> QED
  BY <1>2, <1>3, <1>4 DEF Traced

\* What a record tells of is put back.
LEMMA OneUndone ==
  ASSUME NEW records \in Seq(PushRecord), NEW was, NEW conf \in [Id -> Object \cup {None}],
         NEW k \in DOMAIN records, Applied(records, k), records[k].id \in Id, Tidy(was),
         Made(records, k) \/ was[records[k].id] # None,
         Traced(was, conf, records, k)
  PROVE  Traced(was, [conf EXCEPT ![records[k].id] = was[records[k].id]], records, k - 1)
<1>1. PICK id \in Id : id = records[k].id
  OBVIOUS
<1> DEFINE now == [conf EXCEPT ![id] = was[id]]
<1>2. now[id] = was[id] /\ \A i \in Id : i # id => now[i] = conf[i]
  OBVIOUS
<1> HIDE DEF now
<1>3. k \in Nat /\ DOMAIN records \subseteq Nat
  OBVIOUS
<1>4. /\ Stays(was, conf) /\ Told(was, conf, records, k)
      /\ News(was, conf, records, k) /\ Later(conf, records, k)
  BY DEF Traced
<1>5. Stays(was, now)
  BY <1>2, <1>4 DEF Stays
<1>6. Told(was, now, records, k - 1)
  <2> SUFFICES ASSUME NEW i \in Id, now[i] # was[i]
               PROVE  \E n \in 1..k - 1 : Applied(records, n) /\ records[n].id = i
    BY DEF Told
  <2>1. i # id /\ conf[i] # was[i]
    BY <1>2
  <2>2. PICK n \in 1..k : Applied(records, n) /\ records[n].id = i
    BY <1>4, <2>1 DEF Told
  <2>3. n \in 1..k - 1
    BY <1>1, <1>3, <2>1, <2>2
  <2> QED
    BY <2>2, <2>3
<1>7. ASSUME NEW n \in DOMAIN records, Made(records, n)
      PROVE  /\ records[n].id \in Id /\ was[records[n].id] = None
             /\ n <= k => conf[records[n].id] # None /\ conf[records[n].id].type = records[n].type
             /\ \A m \in DOMAIN records :
                  Made(records, m) /\ records[m].id = records[n].id => m = n
             /\ n # k => records[n].id # id
  BY <1>1, <1>4, <1>7 DEF News
<1>8. News(was, now, records, k - 1)
  <2> SUFFICES ASSUME NEW n \in DOMAIN records, Made(records, n)
               PROVE  /\ records[n].id \in Id /\ was[records[n].id] = None
                      /\ n <= k - 1 => /\ now[records[n].id] # None
                                       /\ now[records[n].id].type = records[n].type
                      /\ \A m \in DOMAIN records :
                           Made(records, m) /\ records[m].id = records[n].id => m = n
    BY DEF News
  <2>1. n <= k - 1 => n <= k /\ n # k
    BY <1>3
  <2> QED
    BY <1>2, <1>7, <2>1
<1>9. Later(now, records, k - 1)
  <2> SUFFICES ASSUME NEW n \in DOMAIN records, NEW j \in Id, Made(records, n), now[j] # None,
                      records[n].id \in now[j].raw.refs
               PROVE  \E m \in n + 1..k - 1 : Applied(records, m) /\ records[m].id = j
    BY DEF Later
  <2>1. j # id
    <3> SUFFICES ASSUME j = id
                 PROVE  FALSE
      OBVIOUS
    <3>1. was[id] # None /\ records[n].id \in was[id].raw.refs
      BY <1>2
    <3>2. was[records[n].id] # None
      BY <3>1 DEF Tidy
    <3> QED
      BY <1>7, <3>2
  <2>2. PICK m \in n + 1..k : Applied(records, m) /\ records[m].id = j
    BY <1>2, <1>4, <2>1 DEF Later
  <2>3. m \in n + 1..k - 1
    BY <1>1, <1>3, <2>1, <2>2
  <2> QED
    BY <2>2, <2>3
<1> QED
  BY <1>1, <1>5, <1>6, <1>8, <1>9 DEF Traced, now

\* Of what is known of the plan and of the records, time changes nothing.
LEMMA MergesStays ==
  ASSUME Grows, NEW was, NEW plan, NEW records, Merges(was, plan, records)
  PROVE  Merges(was, plan, records)'
<1>1. \A i \in Id : was[i] # None => made'[i] # None
  BY DEF Grows, Merges
<1> QED
  BY <1>1 DEF Merges

\* A call without a fault is accepted or refused.
LEMMA CallIs ==
  ASSUME CInv, NEW action, NEW type, NEW id, NEW raw, NEW outcome,
         Call(action, type, id, raw, outcome), Faultless
  PROVE  \/ outcome = "applied" /\ Accepts(action, type, id, raw) /\ Written(action, type, id, raw)
         \/ outcome = "failed" /\ ~Accepts(action, type, id, raw) /\ UNCHANGED <<tenant, made>>
<1>1. count' # Counted("noise")
  <2>1. count \in [{"acts", "noise", "imports", "pushes"} -> Nat]
    BY DEF CInv, Typed
  <2>2. count["noise"] \in Nat /\ Counted("noise")["noise"] = count["noise"] + 1
    BY <2>1 DEF Counted
  <2> QED
    BY <2>2 DEF Faultless
<1> QED
  BY <1>1 DEF Call

\* Where the cache is right, an entry of a merge says what the tenant has.
LEMMA MergingIs ==
  ASSUME Typed, CacheTrue, NEW e, Merging(e)
  PROVE  Planned(tenant, e)
<1>1. e.action # "delete" /\ (e.action = "create" /\ e.supported => e.type \in CanCreate)
  BY DEF Merging
<1>2. ASSUME e.action = "update"
      PROVE  tenant[e.target] = [type |-> e.type, raw |-> e.pre]
  <2>1. PICK c \in Current : c.type = e.type /\ c.id = e.target /\ c.raw = e.pre
    BY <1>2 DEF Merging
  <2>2. PICK i \in Objects : c = [type |-> tenant[i].type, id |-> i, raw |-> tenant[i].raw]
    BY <2>1 DEF CacheTrue
  <2>3. tenant[i] \in Object
    BY <2>2 DEF Objects, Exists, Typed
  <2>4. tenant[i] = [type |-> tenant[i].type, raw |-> tenant[i].raw]
    BY <2>3 DEF Object
  <2> QED
    BY <2>1, <2>2, <2>4
<1> QED
  BY <1>1, <1>2 DEF Planned

\* A merge plans entries of candidates against the tenant as it is.
LEMMA MergeIs ==
  ASSUME CInv, NEW selection \in SUBSET (Type \X Key), classify_merge(selection)
  PROVE  /\ \A n \in DOMAIN push'.plan : Merging(push'.plan[n])
         /\ push'.against = tenant /\ push'.sure = CacheTrue /\ push'.records = <<>>
         /\ push'.pc = "push" /\ UNCHANGED <<tenant, made>>
<1> DEFINE items == Included(selection)
           found == {p \in items : Matches(p[1], p[2]) # {}}
           plan == InOrder(Order, {Creating(p) : p \in items \ found})
                     \o InOrder(Order, {Updating(p) : p \in found})
<1>1. PICK map, index : Begin("merge", tenant, plan, map, index, Whole(items))
  BY DEF classify_merge
<1>2. \A n \in DOMAIN plan : Merging(plan[n])
  <2>1. items \ found \in SUBSET Included(selection) /\ found \in SUBSET Included(selection)
        /\ \A p \in found : Matches(p[1], p[2]) # {}
    OBVIOUS
  <2>2. Table(row) /\ Sorted(row)
    BY DEF CInv, Typed
  <2> HIDE DEF items, found
  <2> QED
    BY <2>1, <2>2, MergePlan
<1> HIDE DEF items, found, plan
<1> QED
  BY <1>1, <1>2, BeginIs

\* A merge begins with nothing written.
LEMMA MergeTraced ==
  ASSUME CInv, Tidy(tenant), NEW selection \in SUBSET (Type \X Key), classify_merge(selection)
  PROVE  Undoable'
<1>1. /\ \A n \in DOMAIN push'.plan : Merging(push'.plan[n])
      /\ push'.against = tenant /\ push'.sure = CacheTrue /\ push'.records = <<>>
      /\ push'.pc = "push" /\ UNCHANGED <<tenant, made>>
  BY MergeIs
<1>2. PICK plan : plan = push'.plan
  OBVIOUS
<1>3. Typed /\ tenant \in [Id -> Object \cup {None}] /\ Assigned(tenant)
  BY DEF CInv, Typed
<1>4. ASSUME CacheTrue
      PROVE  Merges(tenant, plan, <<>>)
  <2>1. \A n \in DOMAIN plan : Planned(tenant, plan[n])
    BY <1>1, <1>2, <1>3, <1>4, MergingIs
  <2>2. ASSUME NEW i \in Id, tenant[i] # None
        PROVE  made[i] # None
    <3>1. made[i] = [type |-> tenant[i].type, name |-> tenant[i].raw.name]
      BY <1>3, <2>2 DEF Assigned
    <3>2. made[i] \in [type : Type, name : Name]
      BY <1>3, <2>2, <3>1 DEF Object, Raw
    <3> QED
      BY <3>2, NoneAssumption
  <2> QED
    BY <1>3, <2>1, <2>2 DEF Merges
<1>5. Traced(tenant, tenant, <<>>, 0)
  BY DEF Traced, Stays, Told, News, Later
<1>6. ASSUME CacheTrue
      PROVE  Merges(push.against, push.plan, push.records)'
  BY <1>1, <1>2, <1>4, <1>6 DEF Merges
<1>7. Traced(push'.against, tenant', push'.records, Pending')
  BY <1>1, <1>5 DEF Pending
<1> QED
  BY <1>1, <1>6, <1>7 DEF Undoable, Calm, Traced

\* Nothing is written.
LEMMA SameTraced ==
  ASSUME Undoable, Grows, tenant' = tenant,
         push'.plan = push.plan, push'.records = push.records, push'.against = push.against,
         Calm' => Calm, Pending' = Pending, push'.pc = "undone" => push'.k = 0
  PROVE  Undoable'
<1> SUFFICES ASSUME Calm'
             PROVE  /\ Merges(push.against, push.plan, push.records)'
                    /\ Traced(push.against, tenant, push.records, Pending)'
  BY DEF Undoable
<1>1. /\ Merges(push.against, push.plan, push.records)
      /\ Traced(push.against, tenant, push.records, Pending)
  BY DEF Undoable
<1>2. PICK was, plan, records, k :
        was = push.against /\ plan = push.plan /\ records = push.records /\ k = Pending
  OBVIOUS
<1>3. Merges(was, plan, records)'
  BY <1>1, <1>2, MergesStays
<1>4. Merges(push.against, push.plan, push.records)'
  BY <1>2, <1>3
<1>5. Traced(push.against, tenant, push.records, Pending)'
  BY <1>1
<1> QED
  BY <1>4, <1>5

\* An entry has had its turn.
LEMMA RecordTraced ==
  ASSUME CInv, Undoable, Grows, push.pc = "push", NEW r \in PushRecord,
         push'.records = Append(push.records, r), push'.plan = push.plan, push'.pc = "push",
         push'.against = push.against, push'.mode = push.mode, push'.sure = push.sure,
         push'.quiet => push.quiet,
         Calm' => /\ Traced(push.against, tenant', push'.records, Len(push.records) + 1)
                  /\ r.status = "applied" =>
                       /\ push.plan[Len(push.records) + 1].supported
                       /\ r.action = "update" =>
                            r.id = push.plan[Len(push.records) + 1].target
  PROVE  Undoable'
<1> SUFFICES ASSUME Calm'
             PROVE  /\ Merges(push.against, push.plan, push.records)'
                    /\ Traced(push.against, tenant, push.records, Pending)'
  BY DEF Undoable
<1>1. Calm
  BY DEF Calm
<1>2. PICK was, plan, records :
        was = push.against /\ plan = push.plan /\ records = push.records
  OBVIOUS
<1> records \in Seq(PushRecord)
  BY <1>2 DEF CInv, PushTyped, Book
<1> DEFINE N == Len(records)
<1>3. Merges(was, plan, records)
  BY <1>1, <1>2 DEF Undoable
<1>4. Merges(was, plan, records)'
  BY <1>3, MergesStays
<1>5. PICK after : after = Append(records, r)
  OBVIOUS
<1>6. /\ N \in Nat /\ DOMAIN records = 1..N /\ DOMAIN after = 1..N + 1 /\ Len(after) = N + 1
      /\ \A n \in 1..N : after[n] = records[n]
      /\ after[N + 1] = r
  BY <1>5
<1>7. ASSUME NEW n \in DOMAIN after, Applied(after, n)
      PROVE  /\ plan[n].supported
             /\ after[n].action = "update" => after[n].id = plan[n].target
  <2>1. CASE n = N + 1
    <3>1. r.status = "applied"
      BY <1>6, <1>7, <2>1 DEF Applied
    <3> QED
      BY <1>2, <1>6, <2>1, <3>1
  <2>2. CASE n \in 1..N
    <3>1. Applied(records, n)
      BY <1>6, <1>7, <2>2 DEF Applied
    <3> QED
      BY <1>3, <1>6, <2>2, <3>1 DEF Merges
  <2> QED
    BY <1>6, <2>1, <2>2
<1>8. Merges(was, plan, after)'
  BY <1>4, <1>7 DEF Merges
<1>9. Merges(push.against, push.plan, push.records)'
  BY <1>2, <1>5, <1>8
<1>10. Pending' = N + 1
  BY <1>2, <1>5, <1>6 DEF Pending
<1>11. Traced(push.against, tenant, push.records, Pending)'
  BY <1>2, <1>10
<1> QED
  BY <1>9, <1>11

\* An entry that is not serviced leaves no trace.
LEMMA SkipTraced ==
  ASSUME CInv, Undoable, Skip
  PROVE  Undoable'
<1>1. /\ push.pc = "push" /\ push.k <= Len(push.plan)
      /\ push' = [push EXCEPT !.records = Recorded(Next_entry, "manual", None), !.k = @ + 1]
      /\ tenant' = tenant /\ made' = made
  BY DEF Skip
<1>2. push.plan \in Seq(PlanEntry) /\ push.k = Len(push.records) + 1
      /\ push.records \in Seq(PushRecord)
  BY <1>1 DEF CInv, Pushes, PushTyped, Book
<1>3. Next_entry \in PlanEntry
  BY <1>1, <1>2 DEF Next_entry
<1>4. PICK r \in PushRecord :
        r = [type |-> Next_entry.type, name |-> Next_entry.name, action |-> Next_entry.action,
             status |-> "manual", id |-> None]
  BY <1>3 DEF PlanEntry, PushRecord
<1>5. Recorded(Next_entry, "manual", None) = Append(push.records, r)
  BY <1>4 DEF Recorded
<1>6. /\ push'.records = Append(push.records, r) /\ push'.plan = push.plan
      /\ push'.pc = "push" /\ push'.against = push.against /\ push'.mode = push.mode
      /\ push'.sure = push.sure /\ push'.quiet = push.quiet
  BY <1>1, <1>5 DEF CInv, PushTyped, Book
<1>7. ASSUME Calm'
      PROVE  Traced(push.against, tenant', push'.records, Len(push.records) + 1)
  <2>1. Traced(push.against, tenant, push.records, Len(push.records))
    BY <1>1, <1>6, <1>7 DEF Undoable, Calm, Pending
  <2>2. r.status # "applied"
    BY <1>4
  <2>3. Traced(push.against, tenant, Append(push.records, r), Len(push.records) + 1)
    BY <1>2, <2>1, <2>2, NothingWritten
  <2> QED
    BY <1>1, <1>6, <2>3
<1>8. r.status # "applied"
  BY <1>4
<1>9. Grows
  BY <1>1, GrowsIfSame
<1> QED
  BY <1>1, <1>6, <1>7, <1>8, <1>9, RecordTraced

\* An id that was not assigned is of nothing.
LEMMA NewIsNone ==
  ASSUME CInv, NEW id \in Id, made[id] = None
  PROVE  tenant[id] = None
<1>1. tenant \in [Id -> Object \cup {None}] /\ Assigned(tenant)
  BY DEF CInv, Typed
<1> SUFFICES ASSUME tenant[id] # None
             PROVE  FALSE
  OBVIOUS
<1>2. made[id] = [type |-> tenant[id].type, name |-> tenant[id].raw.name]
  BY <1>1 DEF Assigned
<1>3. tenant[id] \in Object
  BY <1>1
<1>4. made[id] \in [type : Type, name : Name]
  BY <1>2, <1>3 DEF Object, Raw
<1> QED
  BY <1>4, NoneAssumption

\* What an entry writes is told.
LEMMA EntryTraced ==
  ASSUME CInv, Tidy(tenant), NEW e \in PlanEntry, Aims(e), e.supported,
         NEW raw \in Raw, raw.name = e.name, NEW id,
         e.action = "create" => id \in Id /\ made[id] = None,
         e.action # "create" => id = e.target,
         Accepts(e.action, e.type, id, raw), Written(e.action, e.type, id, raw),
         NEW was, NEW plan, NEW records \in Seq(PushRecord), Planned(was, e),
         Merges(was, plan, records), Traced(was, tenant, records, Len(records)),
         \A n \in DOMAIN records : Wrote(records[n]),
         NEW r \in PushRecord,
         r = [type |-> e.type, name |-> e.name, action |-> e.action, status |-> "applied",
              id |-> id]
  PROVE  Traced(was, tenant', Append(records, r), Len(records) + 1)
<1>1. tenant \in [Id -> Object \cup {None}] /\ Assigned(tenant)
  BY DEF CInv, Typed
<1>2. e.action \in {"create", "update"}
  BY DEF Planned, PlanEntry
<1>3. r.type = e.type /\ r.name = e.name /\ r.action = e.action /\ r.status = "applied" /\ r.id = id
  OBVIOUS
<1>4. tenant' = [tenant EXCEPT ![id] = [type |-> e.type, raw |-> raw]]
  BY <1>2 DEF Written
<1>5. id \in Id
  BY <1>2 DEF Aims
<1>6. ASSUME e.action = "create"
      PROVE  /\ tenant[id] = None /\ was[id] = None
             /\ raw.refs \subseteq {i \in Id : tenant[i] # None}
             /\ \A n \in DOMAIN records : Made(records, n) => records[n].id # id
  <2>1. made[id] = None
    BY <1>6
  <2>2. tenant[id] = None
    BY <1>5, <2>1, NewIsNone
  <2>3. was[id] = None
    BY <1>5, <2>1 DEF Merges
  <2>4. raw.refs \subseteq {i \in Id : tenant[i] # None}
    BY <1>6 DEF Accepts, Objects, Exists
  <2>5. ASSUME NEW n \in DOMAIN records, Made(records, n)
        PROVE  records[n].id # id
    <3>1. records[n] \in PushRecord /\ Wrote(records[n])
      OBVIOUS
    <3>2. records[n].status = "applied" /\ records[n].action = "create"
      BY <2>5 DEF Made, Applied
    <3>3. made[records[n].id] = [type |-> records[n].type, name |-> records[n].name]
      BY <3>1, <3>2 DEF Wrote
    <3>4. made[records[n].id] \in [type : Type, name : Name]
      BY <3>1, <3>3 DEF PushRecord
    <3> QED
      BY <2>1, <3>4, NoneAssumption
  <2> QED
    BY <2>2, <2>3, <2>4, <2>5
<1>7. ASSUME e.action # "create"
      PROVE  was[id] # None /\ was[id].type = e.type /\ was[id].raw.name = raw.name
  <2>1. was[id] = [type |-> e.type, raw |-> e.pre] /\ e.pre \in Raw /\ e.pre.name = e.name
    BY <1>2, <1>7 DEF Planned, Aims
  <2>2. was[id] \in Object
    BY <2>1 DEF Object, PlanEntry
  <2> QED
    BY <2>1, <2>2, NoneAssumption
<1>8. /\ r.id \in Id /\ r.status = "applied"
      /\ r.action = "create" =>
           /\ tenant[r.id] = None /\ was[r.id] = None
           /\ raw.refs \subseteq {i \in Id : tenant[i] # None}
           /\ \A n \in DOMAIN records : Made(records, n) => records[n].id # r.id
      /\ r.action # "create" => was[r.id] # None
      /\ was[r.id] # None => was[r.id].type = r.type /\ was[r.id].raw.name = raw.name
  BY <1>3, <1>5, <1>6, <1>7
<1>9. PICK conf \in [Id -> Object \cup {None}] : conf = tenant
  BY <1>1
<1>10. Traced(was, [conf EXCEPT ![r.id] = [type |-> r.type, raw |-> raw]],
              Append(records, r), Len(records) + 1)
  BY <1>8, <1>9, OneWritten
<1> QED
  BY <1>3, <1>4, <1>9, <1>10

\* An entry that is executed leaves its trace in its record.
LEMMA ExecuteTraced ==
  ASSUME CInv, Tidy(tenant), Undoable, Execute
  PROVE  Undoable'
<1>1. PICK outcome \in {"applied", "failed"}, id \in Key \cup {None},
           map \in SUBSET (Key \X Key), quiet \in BOOLEAN :
        \E raw : ExecutesAs(outcome, id, raw, map, quiet)
  BY ExecuteIs
<1>2. PICK raw : ExecutesAs(outcome, id, raw, map, quiet)
  BY <1>1
<1>3. PICK e \in PlanEntry : e = Next_entry
  BY <1>2 DEF ExecutesAs
<1>4. /\ e.action \in {"create", "update", "delete"} /\ Aims(e) /\ e.supported
      /\ push.pc = "push" /\ push.k <= Len(push.plan)
      /\ e.action # "delete" => raw \in Raw /\ raw.name = e.name
      /\ e.action = "create" => id \in Id /\ made[id] = None
      /\ e.action # "create" => id = e.target
      /\ Call(e.action, e.type, id, raw, outcome)
      /\ quiet => push.quiet /\ Faultless
  BY <1>2, <1>3 DEF ExecutesAs, PlanEntry
<1> DEFINE rid == IF outcome = "failed" /\ e.action = "create" THEN None ELSE id
<1>5. push' = [push EXCEPT !.records = Recorded(Next_entry, outcome, rid), !.id_map = map,
                           !.k = @ + 1, !.quiet = quiet]
  BY <1>2, <1>3 DEF ExecutesAs
<1>6. PICK r \in PushRecord :
        r = [type |-> e.type, name |-> e.name, action |-> e.action, status |-> outcome, id |-> rid]
  <2>1. rid \in Key \cup {None}
    OBVIOUS
  <2>2. e.type \in Type /\ e.name \in Name /\ e.action \in {"create", "update", "delete"}
    BY DEF PlanEntry
  <2>3. outcome \in {"manual", "applied", "failed"}
    OBVIOUS
  <2> HIDE DEF rid
  <2> QED
    BY <2>1, <2>2, <2>3 DEF PushRecord
<1>7. Recorded(Next_entry, outcome, rid) = Append(push.records, r)
  BY <1>3, <1>6 DEF Recorded
<1>8. /\ push'.records = Append(push.records, r) /\ push'.plan = push.plan
      /\ push'.pc = "push" /\ push'.against = push.against /\ push'.mode = push.mode
      /\ push'.sure = push.sure /\ push'.quiet = quiet
  BY <1>4, <1>5, <1>7 DEF CInv, PushTyped, Book
<1>9. /\ push.plan \in Seq(PlanEntry) /\ push.k = Len(push.records) + 1
      /\ push.records \in Seq(PushRecord)
      /\ \A n \in DOMAIN push.records : Wrote(push.records[n])
  BY <1>4 DEF CInv, Pushes, PushTyped, Book
<1>10. Len(push.records) + 1 \in DOMAIN push.plan /\ push.plan[Len(push.records) + 1] = e
  BY <1>3, <1>4, <1>9 DEF Next_entry
<1>11. Grows
  <2>1. e.action = "update" => made[id].name = raw.name
    BY <1>4 DEF Aims
  <2>2. e.type \in Type
    BY DEF PlanEntry
  <2> QED
    BY <1>4, <2>1, <2>2, CallKeeps
<1>12. ASSUME Calm'
       PROVE  /\ Traced(push.against, tenant', push'.records, Len(push.records) + 1)
              /\ r.status = "applied" =>
                   e.supported /\ (r.action = "update" => r.id = e.target)
  <2>1. Calm /\ Faultless
    BY <1>4, <1>8, <1>12 DEF Calm
  <2>2. /\ Merges(push.against, push.plan, push.records)
        /\ Traced(push.against, tenant, push.records, Len(push.records))
    BY <1>4, <2>1 DEF Undoable, Pending
  <2>3. Planned(push.against, e)
    BY <1>10, <2>2 DEF Merges
  <2>4. \/ outcome = "applied" /\ Accepts(e.action, e.type, id, raw)
                               /\ Written(e.action, e.type, id, raw)
        \/ outcome = "failed" /\ UNCHANGED <<tenant, made>>
    BY <1>4, <2>1, CallIs
  <2>5. CASE outcome = "failed" /\ UNCHANGED <<tenant, made>>
    <3>1. r.status # "applied"
      BY <1>6, <2>5
    <3>2. Traced(push.against, tenant, Append(push.records, r), Len(push.records) + 1)
      BY <1>9, <2>2, <3>1, NothingWritten
    <3> QED
      BY <1>8, <2>5, <3>1, <3>2
  <2>6. CASE outcome = "applied" /\ Accepts(e.action, e.type, id, raw)
                                 /\ Written(e.action, e.type, id, raw)
    <3>1. r = [type |-> e.type, name |-> e.name, action |-> e.action, status |-> "applied",
               id |-> id]
      BY <1>6, <2>6
    <3>2. raw \in Raw /\ raw.name = e.name
      BY <1>4, <2>3 DEF Planned
    <3>3. PICK was, plan, records :
            was = push.against /\ plan = push.plan /\ records = push.records
      OBVIOUS
    <3>4. records \in Seq(PushRecord) /\ (\A n \in DOMAIN records : Wrote(records[n]))
          /\ Planned(was, e) /\ Merges(was, plan, records)
          /\ Traced(was, tenant, records, Len(records))
      BY <1>9, <2>2, <2>3, <3>3
    <3>5. Traced(was, tenant', Append(records, r), Len(records) + 1)
      BY <1>4, <2>6, <3>1, <3>2, <3>4, EntryTraced
    <3>6. r.action = "update" => r.id = e.target
      BY <1>4, <3>1
    <3> QED
      BY <1>4, <1>8, <3>3, <3>5, <3>6
  <2> QED
    BY <2>4, <2>5, <2>6
<1> HIDE DEF rid
<1> QED
  BY <1>4, <1>8, <1>10, <1>11, <1>12, RecordTraced

\* What undoes a record is accepted, and puts back what was there.
LEMMA UndoPutsBack ==
  ASSUME CInv, Tidy(tenant), Calm, Merges(push.against, push.plan, push.records),
         NEW k \in DOMAIN push.records, Traced(push.against, tenant, push.records, k),
         NEW u \in Undo(k), NEW outcome, Faultless,
         Call(u[1], push.plan[k].type, u[2], u[3], outcome)
  PROVE  /\ tenant' = [tenant EXCEPT ![push.records[k].id] = push.against[push.records[k].id]]
         /\ made' = made /\ push.records[k].id \in Id
         /\ Applied(push.records, k)
         /\ Made(push.records, k) \/ push.against[push.records[k].id] # None
<1>1. /\ push.plan[k] \in PlanEntry /\ push.records[k] \in PushRecord
      /\ push.records[k].status = "applied" /\ Of(push.records[k], push.plan[k])
      /\ \/ /\ push.records[k].action = "create" /\ u[1] = "delete"
            /\ u[2] = push.records[k].id
         \/ /\ push.records[k].action = "update" /\ u[1] = "update"
            /\ u[2] = push.plan[k].target /\ u[3] = push.plan[k].pre
            /\ u[3] \in Raw /\ made[u[2]].name = u[3].name
  BY UndoIs
<1>2. PICK e \in PlanEntry : e = push.plan[k]
  BY <1>1
<1>3. PICK was \in [Id -> Object \cup {None}] : was = push.against
  BY DEF Merges
<1>4. PICK records : records = push.records
  OBVIOUS
<1> DEFINE r == records[k]
<1> r \in PushRecord
  BY <1>1, <1>4
<1>5. /\ tenant \in [Id -> Object \cup {None}] /\ k \in Nat /\ k \in DOMAIN push.plan
      /\ k \in DOMAIN records
  <2>1. push.records \in Seq(PushRecord) /\ push.plan \in Seq(PlanEntry)
        /\ Len(push.records) <= Len(push.plan)
    BY DEF CInv, PushTyped, Book, Pushes
  <2> QED
    BY <1>4, <2>1 DEF CInv, Typed
<1>6. Applied(records, k) /\ r.type = e.type /\ r.name = e.name /\ r.action = e.action
  BY <1>1, <1>2, <1>4, <1>5 DEF Applied, Of
<1>7. /\ Tidy(was) /\ Planned(was, e)
      /\ r.action = "update" => r.id = e.target
  BY <1>2, <1>3, <1>4, <1>5, <1>6 DEF Merges
<1>8. /\ Stays(was, tenant) /\ News(was, tenant, records, k) /\ Later(tenant, records, k)
  BY <1>3, <1>4 DEF Traced
<1>9. CASE r.action = "create" /\ u[1] = "delete" /\ u[2] = r.id
  <2>1. Made(records, k)
    BY <1>4, <1>6, <1>9 DEF Made
  <2>2. /\ r.id \in Id /\ was[r.id] = None /\ tenant[r.id] # None /\ tenant[r.id].type = e.type
    BY <1>4, <1>5, <1>6, <1>8, <2>1 DEF News
  <2>3. ASSUME NEW j \in Id, tenant[j] # None
        PROVE  r.id \notin tenant[j].raw.refs
    <3> SUFFICES ASSUME r.id \in tenant[j].raw.refs
                 PROVE  FALSE
      OBVIOUS
    <3>1. \E m \in k + 1..k : Applied(records, m) /\ records[m].id = j
      BY <1>4, <1>5, <1>8, <2>1, <2>3 DEF Later
    <3> QED
      BY <1>5, <3>1
  <2>4. Accepts(u[1], e.type, u[2], u[3])
    BY <1>9, <2>2, <2>3 DEF Accepts, Objects, Exists
  <2>5. Written(u[1], e.type, u[2], u[3])
    BY <1>2, <2>4, CallIs
  <2>6. tenant' = [tenant EXCEPT ![r.id] = was[r.id]] /\ made' = made
    BY <1>9, <2>2, <2>5 DEF Written
  <2> QED
    BY <1>3, <1>4, <1>6, <2>1, <2>2, <2>6
<1>10. CASE /\ r.action = "update" /\ u[1] = "update" /\ u[2] = e.target /\ u[3] = e.pre
            /\ u[3] \in Raw
  <2>1. /\ r.id = e.target /\ was[e.target] = [type |-> e.type, raw |-> e.pre]
    BY <1>6, <1>7, <1>10 DEF Planned
  <2>2. e.target \in Id
    <3>1. Aims(e)
      BY <1>2, <1>5 DEF CInv, Pushes
    <3> QED
      BY <1>6, <1>10, <3>1 DEF Aims
  <2>3. [type |-> e.type, raw |-> e.pre] \in Object
    BY <1>10 DEF Object, PlanEntry
  <2>4. was[e.target] # None /\ was[e.target].type = e.type /\ was[e.target].raw = e.pre
    BY <2>1, <2>3, NoneAssumption
  <2>5. /\ tenant[e.target] # None /\ tenant[e.target].type = e.type
        /\ tenant[e.target].raw.name = e.pre.name
    BY <1>8, <2>2, <2>4 DEF Stays
  <2>6. e.pre.refs \subseteq Objects
    BY <1>7, <1>8, <2>2, <2>4 DEF Tidy, Stays, Objects, Exists
  <2>7. \A i \in Objects \ {e.target} : tenant[i].type = e.type => tenant[i].raw.name # e.pre.name
    BY <2>2, <2>5 DEF Tidy, Objects, Exists
  <2>8. Accepts(u[1], e.type, u[2], u[3])
    BY <1>10, <2>2, <2>5, <2>6, <2>7 DEF Accepts, Objects, Exists
  <2>9. Written(u[1], e.type, u[2], u[3])
    BY <1>2, <2>8, CallIs
  <2>10. tenant' = [tenant EXCEPT ![r.id] = was[r.id]] /\ made' = made
    BY <1>10, <2>1, <2>9 DEF Written
  <2> QED
    BY <1>3, <1>4, <1>6, <2>1, <2>2, <2>4, <2>10
<1> QED
  BY <1>1, <1>2, <1>4, <1>9, <1>10

\* A record of a merge that there is no undoing for wrote nothing.
LEMMA UndoIsThere ==
  ASSUME CInv, Merges(push.against, push.plan, push.records), NEW k \in DOMAIN push.records,
         Undo(k) = {}
  PROVE  ~Applied(push.records, k)
<1> SUFFICES ASSUME Applied(push.records, k)
             PROVE  FALSE
  OBVIOUS
<1>1. /\ push.records \in Seq(PushRecord) /\ push.plan \in Seq(PlanEntry)
      /\ Len(push.records) <= Len(push.plan)
  BY DEF CInv, PushTyped, Book, Pushes
<1>2. k \in DOMAIN push.plan
  BY <1>1
<1>3. PICK e \in PlanEntry, r \in PushRecord : e = push.plan[k] /\ r = push.records[k]
  BY <1>1, <1>2
<1>4. r.type = e.type /\ r.action = e.action /\ r.status = "applied"
  BY <1>2, <1>3 DEF CInv, Pushes, Of, Applied
<1>5. Planned(push.against, e) /\ e.supported
  BY <1>2, <1>3 DEF Merges
<1>6. e.action = "create" => e.type \in CanDelete
  BY <1>5, CandidateAssumption DEF Planned
<1>7. e.action \in {"create", "update"}
  BY <1>5 DEF Planned, PlanEntry
<1> QED
  BY <1>3, <1>4, <1>6, <1>7 DEF Undo

\* A step of the rollback removes the last trace there is.
LEMMA RollbackTraced ==
  ASSUME CInv, Tidy(tenant), Undoable, RollbackStep
  PROVE  Undoable'
<1>1. push.pc = "undo" /\ push.k > 0 /\ push.k \in DOMAIN push.records
  BY RollbackIs
<1>2. /\ push'.plan = push.plan /\ push'.records = push.records /\ push'.against = push.against
      /\ push'.mode = push.mode /\ push'.sure = push.sure /\ push'.pc = "undo"
      /\ push'.k = push.k - 1
      /\ push'.quiet => push.quiet
  BY <1>1, RollbackIs DEF CInv, PushTyped, Book
<1>3. PICK k \in Nat \ {0} : k = push.k
  BY <1>1 DEF CInv, PushTyped, Book
<1>4. Pending = k /\ Pending' = k - 1
  BY <1>1, <1>2, <1>3 DEF Pending
<1> SUFFICES ASSUME Calm'
             PROVE  /\ Merges(push.against, push.plan, push.records)'
                    /\ Traced(push.against, tenant, push.records, Pending)'
  BY <1>2 DEF Undoable
<1>5. Calm
  BY <1>1, <1>2 DEF Calm
<1>6. PICK was, plan, records :
        was = push.against /\ plan = push.plan /\ records = push.records
  OBVIOUS
<1>7. /\ records \in Seq(PushRecord) /\ k \in DOMAIN records
      /\ tenant \in [Id -> Object \cup {None}]
  BY <1>1, <1>3, <1>6 DEF CInv, PushTyped, Book, Typed
<1>8. Merges(was, plan, records) /\ Traced(was, tenant, records, k)
  BY <1>4, <1>5, <1>6 DEF Undoable
<1>9. Merges(push.against, push.plan, push.records)
      /\ Traced(push.against, tenant, push.records, push.k)
  BY <1>3, <1>6, <1>8
<1>10. ASSUME Undo(push.k) = {}, UNCHANGED <<tenant, made>>
       PROVE  Traced(was, tenant', records, k - 1) /\ made' = made
  <2>1. ~Applied(records, k)
    BY <1>1, <1>3, <1>6, <1>9, <1>10, UndoIsThere
  <2>2. Traced(was, tenant, records, k - 1)
    BY <1>7, <1>8, <2>1, NothingUndone
  <2> QED
    BY <1>10, <2>2
<1>11. ASSUME NEW u \in Undo(push.k), NEW outcome \in {"applied", "failed"}, NEW quiet \in BOOLEAN,
              Call(u[1], push.plan[push.k].type, u[2], u[3], outcome),
              quiet => push.quiet /\ Faultless,
              push' = [push EXCEPT !.k = @ - 1, !.quiet = quiet]
       PROVE  Traced(was, tenant', records, k - 1) /\ made' = made
  <2>1. push'.quiet = quiet
    BY <1>11 DEF CInv, PushTyped, Book
  <2>2. Faultless
    BY <1>11, <2>1 DEF Calm
  <2>3. /\ tenant' = [tenant EXCEPT ![push.records[push.k].id] =
                        push.against[push.records[push.k].id]]
        /\ made' = made /\ push.records[push.k].id \in Id
        /\ Applied(push.records, push.k)
        /\ Made(push.records, push.k) \/ push.against[push.records[push.k].id] # None
    BY <1>1, <1>5, <1>9, <1>11, <2>2, UndoPutsBack
  <2>4. /\ tenant' = [tenant EXCEPT ![records[k].id] = was[records[k].id]]
        /\ records[k].id \in Id /\ Applied(records, k)
        /\ Made(records, k) \/ was[records[k].id] # None
    BY <1>3, <1>6, <2>3
  <2>5. PICK conf \in [Id -> Object \cup {None}] : conf = tenant
    BY <1>7
  <2>6. Tidy(was)
    BY <1>8 DEF Merges
  <2>7. Traced(was, [conf EXCEPT ![records[k].id] = was[records[k].id]], records, k - 1)
    BY <1>7, <1>8, <2>4, <2>5, <2>6, OneUndone
  <2> QED
    BY <2>3, <2>4, <2>5, <2>7
<1>12. Traced(was, tenant', records, k - 1) /\ made' = made
  BY <1>10, <1>11, RollbackIs
<1>13. Merges(was, plan, records)'
  BY <1>8, <1>12, GrowsIfSame, MergesStays
<1>14. Merges(push.against, push.plan, push.records)'
  BY <1>2, <1>6, <1>13
<1>15. Traced(push.against, tenant, push.records, Pending)'
  BY <1>2, <1>4, <1>6, <1>12
<1> QED
  BY <1>14, <1>15

\* The other actions write nothing for a push, or are seen to.
LEMMA OthersTraced ==
  ASSUME CInv, Undoable, [Next]_vars, ~Skip, ~Execute, ~RollbackStep,
         ~\E selection \in SUBSET {p \in Type \X Key : Accepted(p[1], p[2])} :
            classify_merge(selection)
  PROVE  Undoable'
<1>1. CASE push' = push /\ tenant' = tenant /\ made' = made
  <2>1. (Calm' => Calm) /\ Pending' = Pending /\ (push'.pc = "undone" => push'.k = 0)
    BY <1>1 DEF Calm, Pending, Undoable
  <2> QED
    BY <1>1, <2>1, SameTraced, GrowsIfSame
<1>2. CASE PushDone
  <2>1. PICK pc \in {"done", "undo"} :
          push' = [push EXCEPT !.pc = pc, !.k = Len(push.records), !.all = push.k > Len(push.plan)]
    BY <1>2 DEF PushDone
  <2>2. push.pc = "push" /\ tenant' = tenant /\ made' = made
    BY <1>2 DEF PushDone
  <2>3. /\ push'.pc = pc /\ push'.k = Len(push.records) /\ push'.plan = push.plan
        /\ push'.records = push.records /\ push'.against = push.against
        /\ push'.mode = push.mode /\ push'.sure = push.sure /\ push'.quiet = push.quiet
    BY <2>1 DEF CInv, PushTyped, Book
  <2>4. (Calm' => Calm) /\ Pending' = Pending /\ (push'.pc = "undone" => push'.k = 0)
    BY <2>2, <2>3 DEF Calm, Pending
  <2> QED
    BY <2>2, <2>3, <2>4, SameTraced, GrowsIfSame
<1>3. CASE RollbackDone
  <2>1. /\ push.pc = "undo" /\ push.k = 0 /\ push' = [push EXCEPT !.pc = "undone"]
        /\ tenant' = tenant /\ made' = made
    BY <1>3 DEF RollbackDone
  <2>2. /\ push'.pc = "undone" /\ push'.k = 0 /\ push'.plan = push.plan
        /\ push'.records = push.records /\ push'.against = push.against
        /\ push'.mode = push.mode /\ push'.sure = push.sure /\ push'.quiet = push.quiet
    BY <2>1 DEF CInv, PushTyped, Book
  <2>3. (Calm' => Calm) /\ Pending' = Pending
    BY <2>1, <2>2 DEF Calm, Pending
  <2> QED
    BY <2>1, <2>2, <2>3, SameTraced, GrowsIfSame
<1>4. CASE classify_restore
  <2>1. push'.mode = "restore" /\ push'.pc = "push"
    BY <1>4, BeginIs DEF classify_restore
  <2> QED
    BY <2>1 DEF Undoable, Calm
<1>5. CASE Close
  <2>1. push'.pc = "idle"
    BY <1>5 DEF Close, NoPush
  <2> QED
    BY <2>1 DEF Undoable, Calm
<1>6. CASE promote
  <2>1. push'.pc = "done"
    BY <1>6 DEF promote, CInv, PushTyped, Book
  <2> QED
    BY <2>1 DEF Undoable, Calm
<1>7. ASSUME NEW i \in Id, EditTenant(i)
      PROVE  Undoable'
  <2>1. push'.quiet = FALSE /\ push'.pc = push.pc /\ push'.k = push.k
    BY <1>7 DEF EditTenant, CInv, PushTyped, Book
  <2> QED
    BY <2>1 DEF Undoable, Calm
<1> QED
  BY <1>1, <1>2, <1>3, <1>4, <1>5, <1>6, <1>7
  DEF Next, vars, ingest, Reviewed, set_status, discard, create_snapshot, ImportRead, ImportWrite

---------------------------------------------------------------------------
(* A merge that lands whole.                                               *)

\* The entry whose turn it is is accepted.
LEMMA ReadyAccepts ==
  ASSUME Typed, Tidy(tenant), NEW map \in SUBSET (Key \X Key), NEW plan \in Seq(PlanEntry),
         NEW k \in DOMAIN plan, Ready(tenant, map, plan, k), NEW id,
         plan[k].action # "create" => id = plan[k].target
  PROVE  Accepts(plan[k].action, plan[k].type, id, Remapped(plan[k].desired, map))
<1> DEFINE e == plan[k]
           raw == Remapped(e.desired, map)
<1>1. k \in Nat /\ Len(plan) \in Nat /\ k \in k..Len(plan)
  OBVIOUS
<1>2. /\ e.action \in {"create", "update"} /\ e.desired \in Raw
      /\ \A r \in e.desired.refs : Resolves(tenant, map, plan, k, k, r)
      /\ e.action = "create" => Free(tenant, e)
      /\ e.action = "update" =>
           /\ e.target \in Id /\ tenant[e.target] # None
           /\ tenant[e.target].type = e.type
           /\ tenant[e.target].raw.name = e.desired.name
  BY <1>1 DEF Ready
<1>3. \A m \in map : m[2] \in Objects
  BY DEF Ready, Objects, Exists
<1>4. raw.name = e.desired.name /\ raw \in Raw
  BY <1>2, RemappedIs
<1>5. raw.refs \subseteq Objects
  <2> DEFINE to(r) == IF \E m \in map : m[1] = r THEN (CHOOSE m \in map : m[1] = r)[2] ELSE r
  <2>1. ASSUME NEW r \in e.desired.refs
        PROVE  to(r) \in Objects
    <3>1. CASE \E m \in map : m[1] = r
      <4>1. (CHOOSE m \in map : m[1] = r) \in map
        BY <3>1
      <4> QED
        BY <1>3, <3>1, <4>1
    <3>2. CASE ~\E m \in map : m[1] = r
      <4>1. Resolves(tenant, map, plan, k, k, r)
        BY <1>2
      <4>2. ~\E m \in k..k - 1 : TRUE
        BY <1>1
      <4>3. r \in Id /\ tenant[r] # None
        BY <3>2, <4>1, <4>2 DEF Resolves
      <4> QED
        BY <3>2, <4>3 DEF Objects, Exists
    <3> QED
      BY <3>1, <3>2
  <2>2. PICK d \in Raw : d = e.desired
    BY <1>2
  <2>3. raw = [d EXCEPT !.refs = {to(r) : r \in @}]
    BY <2>2 DEF Remapped
  <2> HIDE DEF to, raw
  <2>4. raw.refs = {to(r) : r \in d.refs}
    BY <2>3 DEF Raw
  <2> QED
    BY <2>1, <2>2, <2>4
<1> HIDE DEF raw
<1>6. CASE e.action = "create"
  <2>1. \A i \in Objects : tenant[i].type = e.type => tenant[i].raw.name # raw.name
    BY <1>2, <1>4, <1>6 DEF Free, Objects, Exists
  <2>2. Accepts(e.action, e.type, id, raw)
    BY <1>5, <1>6, <2>1 DEF Accepts
  <2> QED
    BY <2>2 DEF raw
<1>7. CASE e.action = "update"
  <2>1. /\ id \in Id /\ tenant[id] # None /\ tenant[id].type = e.type
        /\ tenant[id].raw.name = raw.name
    BY <1>2, <1>4, <1>7
  <2>2. \A i \in Objects \ {id} : tenant[i].type = e.type => tenant[i].raw.name # raw.name
    BY <2>1 DEF Tidy, Objects, Exists
  <2>3. Accepts(e.action, e.type, id, raw)
    BY <1>5, <1>7, <2>1, <2>2 DEF Accepts, Objects, Exists
  <2> QED
    BY <2>3 DEF raw
<1> QED
  BY <1>2, <1>6, <1>7

\* What it writes, the others may rely on.
LEMMA ReadyStays ==
  ASSUME NEW conf \in [Id -> Object \cup {None}], NEW map \in SUBSET (Key \X Key),
         NEW plan \in Seq(PlanEntry), NEW k \in DOMAIN plan, Ready(conf, map, plan, k),
         NEW id \in Id, NEW raw \in Raw, raw.name = plan[k].desired.name,
         plan[k].action = "create" => conf[id] = None,
         plan[k].action # "create" => id = plan[k].target
  PROVE  Ready([conf EXCEPT ![id] = [type |-> plan[k].type, raw |-> raw]],
               IF plan[k].action = "create" THEN Registered(map, plan[k], id) ELSE map,
               plan, k + 1)
<1> DEFINE e == plan[k]
           now == [conf EXCEPT ![id] = [type |-> e.type, raw |-> raw]]
           new == IF e.action = "create" THEN Registered(map, e, id) ELSE map
<1>1. k \in Nat /\ Len(plan) \in Nat /\ k \in k..Len(plan) /\ e \in PlanEntry
  OBVIOUS
<1>2. \A n \in k + 1..Len(plan) : n \in k..Len(plan) /\ n # k
  BY <1>1
<1>3. /\ e.action \in {"create", "update"}
      /\ e.action = "create" => e.source # None
      /\ e.action = "update" =>
           /\ conf[id] # None /\ conf[id].type = e.type /\ conf[id].raw.name = raw.name
  BY <1>1 DEF Ready
<1>4. [type |-> e.type, raw |-> raw] \in Object
  BY <1>1 DEF Object, PlanEntry
<1>5. now[id] # None /\ now[id].type = e.type /\ now[id].raw.name = raw.name
  BY <1>4, NoneAssumption
<1>6. \A i \in Id : i # id => now[i] = conf[i]
  OBVIOUS
<1> HIDE DEF now
<1>7. \A i \in Id : conf[i] # None => now[i] # None
  BY <1>5, <1>6
<1>8. \A m \in new : m[2] \in Id /\ now[m[2]] # None
  <2>1. \A m \in map : m[2] \in Id /\ conf[m[2]] # None
    BY DEF Ready
  <2>2. \A m \in Registered(map, e, id) : m \in map \/ m[2] = id
    BY DEF Registered
  <2> QED
    BY <1>5, <1>7, <2>1, <2>2
<1>9. \A r : (\E m \in map : m[1] = r) => \E m \in new : m[1] = r
  <2>1. ASSUME NEW r, NEW m \in map, m[1] = r
        PROVE  \E w \in Registered(map, e, id) : w[1] = r
    <3>1. CASE e.source = None \/ r # e.source
      BY <2>1, <3>1 DEF Registered
    <3>2. CASE e.source # None /\ r = e.source
      <4>1. <<e.source, id>> \in Registered(map, e, id)
        BY <3>2 DEF Registered
      <4> QED
        BY <3>2, <4>1
    <3> QED
      BY <3>1, <3>2
  <2> QED
    BY <2>1
<1>10. e.action = "create" => \E m \in new : m[1] = e.source
  <2>1. ASSUME e.action = "create"
        PROVE  \E m \in new : m[1] = e.source
    <3>1. <<e.source, id>> \in Registered(map, e, id)
      BY <1>3, <2>1 DEF Registered
    <3> QED
      BY <2>1, <3>1
  <2> QED
    BY <2>1
<1> HIDE DEF new
<1>11. ASSUME NEW n \in k + 1..Len(plan)
       PROVE  /\ plan[n].supported /\ plan[n].action \in {"create", "update"}
              /\ plan[n].desired \in Raw
              /\ plan[n].action = "create" => plan[n].source # None
  BY <1>2 DEF Ready
<1>12. ASSUME NEW n \in k + 1..Len(plan), NEW r \in plan[n].desired.refs
       PROVE  Resolves(now, new, plan, k + 1, n, r)
  <2>1. Resolves(conf, map, plan, k, n, r)
    BY <1>2 DEF Ready
  <2>2. CASE \E m \in map : m[1] = r
    BY <1>9, <2>2 DEF Resolves
  <2>3. CASE r \in Id /\ conf[r] # None
    BY <1>7, <2>3 DEF Resolves
  <2>4. ASSUME NEW m \in k..n - 1, plan[m].action = "create", plan[m].source = r
        PROVE  Resolves(now, new, plan, k + 1, n, r)
    <3>1. CASE m = k
      <4>1. \E w \in new : w[1] = r
        BY <1>10, <2>4, <3>1
      <4> QED
        BY <4>1 DEF Resolves
    <3>2. CASE m # k
      <4>1. m \in k + 1..n - 1
        BY <1>1, <3>2
      <4> QED
        BY <2>4, <4>1 DEF Resolves
    <3> QED
      BY <3>1, <3>2
  <2> QED
    BY <2>1, <2>2, <2>3, <2>4 DEF Resolves
<1>13. ASSUME NEW n \in k + 1..Len(plan), plan[n].action = "create"
       PROVE  Free(now, plan[n])
  <2>1. Free(conf, plan[n])
    BY <1>2, <1>13 DEF Ready
  <2>2. SUFFICES e.type = plan[n].type => raw.name # plan[n].desired.name
    BY <1>5, <1>6, <2>1 DEF Free
  <2>3. CASE e.action = "create"
    BY <1>1, <1>2, <1>13, <2>3 DEF Ready, Alike
  <2>4. CASE e.action = "update"
    BY <1>3, <2>1, <2>4 DEF Free
  <2> QED
    BY <1>3, <2>3, <2>4
<1>14. ASSUME NEW n \in k + 1..Len(plan), plan[n].action = "update"
       PROVE  /\ plan[n].target \in Id /\ now[plan[n].target] # None
              /\ now[plan[n].target].type = plan[n].type
              /\ now[plan[n].target].raw.name = plan[n].desired.name
  <2>1. /\ plan[n].target \in Id /\ conf[plan[n].target] # None
        /\ conf[plan[n].target].type = plan[n].type
        /\ conf[plan[n].target].raw.name = plan[n].desired.name
    BY <1>2, <1>14 DEF Ready
  <2> QED
    BY <1>3, <1>5, <1>6, <2>1
<1>15. \A m, n \in k + 1..Len(plan) :
         Alike(plan[m], plan[n]) => m = n
  BY <1>2 DEF Ready
<1>16. Ready(now, new, plan, k + 1)
  BY <1>8, <1>11, <1>12, <1>13, <1>14, <1>15 DEF Ready
<1> QED
  BY <1>16 DEF now, new

\* Where the cache is right, a match is an object of the tenant, and what
\* has no match has no namesake.
LEMMA MatchesTrue ==
  ASSUME CInv, CacheTrue, NEW selection, selection \subseteq Type \X Key,
         NEW p \in Included(selection)
  PROVE  /\ Matches(p[1], p[2]) # {} =>
              /\ Match(p).id \in Id /\ tenant[Match(p).id] # None
              /\ tenant[Match(p).id].type = p[1]
              /\ tenant[Match(p).id].raw.name = Staging(p).name
         /\ Matches(p[1], p[2]) = {} =>
              \A i \in Id : tenant[i] # None /\ tenant[i].type = p[1]
                              => tenant[i].raw.name # Staging(p).name
<1>1. Table(row) /\ Sorted(row)
  BY DEF CInv, Typed
<1>2. ASSUME Matches(p[1], p[2]) # {}
      PROVE  /\ Match(p).id \in Id /\ tenant[Match(p).id] # None
             /\ tenant[Match(p).id].type = p[1]
             /\ tenant[Match(p).id].raw.name = Staging(p).name
  <2>1. Match(p) \in Current /\ Match(p).type = p[1] /\ Match(p).raw.name = Staging(p).name
    BY <1>1, <1>2, MatchIs
  <2>2. PICK i \in Objects :
          Match(p) = [type |-> tenant[i].type, id |-> i, raw |-> tenant[i].raw]
    BY <2>1 DEF CacheTrue
  <2> QED
    BY <2>1, <2>2 DEF Objects, Exists
<1>3. ASSUME NEW i \in Id, tenant[i] # None, tenant[i].type = p[1],
             tenant[i].raw.name = Staging(p).name
      PROVE  Matches(p[1], p[2]) # {}
  <2> DEFINE c == [type |-> tenant[i].type, id |-> i, raw |-> tenant[i].raw]
  <2>1. c \in Current
    BY <1>3 DEF CacheTrue, Objects, Exists
  <2>2. c.type = p[1] /\ c.raw.name = Staging(p).name
    BY <1>3
  <2> HIDE DEF c
  <2> QED
    BY <2>1, <2>2 DEF Matches, Staging
<1> QED
  BY <1>2, <1>3

\* What a merge begins with.
LEMMA MergeBegins ==
  ASSUME NEW selection, classify_merge(selection)
  PROVE  LET items == Included(selection)
             found == {p \in items : Matches(p[1], p[2]) # {}}
         IN  /\ push'.plan = InOrder(Order, {Creating(p) : p \in items \ found})
                               \o InOrder(Order, {Updating(p) : p \in found})
             /\ push'.id_map = {<<p[2], Match(p).id>> : p \in found}
             /\ push'.whole = Whole(items) /\ push'.sure = CacheTrue
             /\ push'.records = <<>> /\ push'.k = 1 /\ push'.pc = "push"
             /\ tenant' = tenant
BY DEF classify_merge, Begin, NoPush

\* What is sent for a candidate.
LEMMA EntriesAre ==
  ASSUME NEW p
  PROVE  /\ Creating(p).type = p[1] /\ Creating(p).action = "create"
         /\ Creating(p).supported = (p[1] \in CanCreate) /\ Creating(p).source = p[2]
         /\ Creating(p).desired = Staging(p)
         /\ Updating(p).type = p[1] /\ Updating(p).action = "update"
         /\ Updating(p).supported = (p[1] \in CanUpdate) /\ Updating(p).target = Match(p).id
         /\ Updating(p).desired = Staging(p)
BY DEF Creating, Updating, Entry

\* The plan of a merge, entry by entry: first what it creates, by type.
PlanOf(plan, C, S, c) ==
  /\ c \in Nat /\ Len(plan) \in Nat /\ c <= Len(plan)
  /\ \A n \in 1..c : \E p \in C : plan[n] = Creating(p)
  /\ \A n \in c + 1..Len(plan) : \E p \in S : plan[n] = Updating(p)
  /\ \A p \in C : \E n \in 1..c : plan[n] = Creating(p)
  /\ \A m, n \in 1..c : plan[m] = plan[n] => m = n
  /\ \A m, n \in 1..c : Before(plan[m].type, plan[n].type) => m < n

LEMMA PlanIs ==
  ASSUME NEW C, IsFiniteSet(C), \A p \in C : p[1] \in Range(Order), NEW S, IsFiniteSet(S)
  PROVE  \E c : PlanOf(InOrder(Order, {Creating(p) : p \in C})
                         \o InOrder(Order, {Updating(p) : p \in S}), C, S, c)
<1> DEFINE f == [p \in C |-> Creating(p)]
           g == [p \in S |-> Updating(p)]
<1>1. PICK cs : cs = {Creating(p) : p \in C}
  OBVIOUS
<1>2. PICK us : us = {Updating(p) : p \in S}
  OBVIOUS
<1>3. IsFiniteSet(cs)
  <2>1. f = [p \in C |-> f[p]] /\ cs = {f[p] : p \in C}
    BY <1>1
  <2> HIDE DEF f
  <2> QED
    BY <2>1, FiniteImage
<1>4. IsFiniteSet(us)
  <2>1. g = [p \in S |-> g[p]] /\ us = {g[p] : p \in S}
    BY <1>2
  <2> HIDE DEF g
  <2> QED
    BY <2>1, FiniteImage
<1>5. Order \in Seq(Range(Order)) /\ IsInjective(Order)
  BY CandidateAssumption
<1>6. Placed(InOrder(Order, cs), cs, Order, Len(Order))
  BY <1>3, <1>5, InOrderPlaces
<1>7. PICK a \in Seq(cs) : a = InOrder(Order, cs)
  BY <1>6 DEF Placed
<1>8. PICK b \in Seq(us) : b = InOrder(Order, us)
  BY <1>4, <1>5, InOrderIs
<1>9. PICK plan : plan = a \o b
  OBVIOUS
<1>10. PICK c \in Nat : c = Len(a) /\ DOMAIN a = 1..c
  OBVIOUS
<1>11. /\ Len(plan) = c + Len(b) /\ Len(b) \in Nat
       /\ \A n \in 1..c : plan[n] = a[n] /\ a[n] \in cs
       /\ \A n \in c + 1..Len(plan) : plan[n] \in us
  BY <1>9, <1>10
<1>12. Placed(a, cs, Order, Len(Order)) /\ DOMAIN Order = 1..Len(Order)
  BY <1>5, <1>6, <1>7
<1>13. ASSUME NEW p \in C
       PROVE  \E n \in 1..c : plan[n] = Creating(p)
  <2>1. Creating(p) \in cs /\ Creating(p).type = p[1]
    BY <1>1, EntriesAre
  <2>2. PICK i \in DOMAIN Order : p[1] = Order[i]
    BY DEF Range
  <2>3. PICK n \in DOMAIN a : a[n] = Creating(p)
    BY <1>12, <2>1, <2>2 DEF Placed
  <2> QED
    BY <1>10, <1>11, <2>3
<1>14. ASSUME NEW m \in 1..c, NEW n \in 1..c, plan[m] = plan[n]
       PROVE  m = n
  <2>1. a[m] = a[n] /\ m \in DOMAIN a /\ n \in DOMAIN a
    BY <1>10, <1>11, <1>14
  <2>2. IsInjective(a)
    BY <1>12 DEF Placed
  <2> QED
    BY <2>1, <2>2 DEF IsInjective
<1>15. ASSUME NEW m \in 1..c, NEW n \in 1..c, Before(plan[m].type, plan[n].type)
       PROVE  m < n
  <2>1. PICK i, j \in DOMAIN Order :
          i < j /\ Order[i] = a[m].type /\ Order[j] = a[n].type
    BY <1>11, <1>15 DEF Before
  <2> QED
    BY <1>10, <1>12, <2>1 DEF Placed
<1>16. /\ \A n \in 1..c : \E p \in C : plan[n] = Creating(p)
       /\ \A n \in c + 1..Len(plan) : \E p \in S : plan[n] = Updating(p)
  BY <1>1, <1>2, <1>11
<1>17. c <= Len(plan) /\ Len(plan) \in Nat
  BY <1>11
<1>18. PlanOf(plan, C, S, c)
  BY <1>13, <1>14, <1>15, <1>16, <1>17 DEF PlanOf
<1> QED
  BY <1>1, <1>2, <1>7, <1>8, <1>9, <1>18

\* A merge of a whole selection against a true cache is ready.
LEMMA MergeReady ==
  ASSUME CInv, NEW selection \in SUBSET (Type \X Key), classify_merge(selection),
         CacheTrue, Whole(Included(selection))
  PROVE  Ready(tenant, push.id_map, push.plan, push.k)'
<1>1. PICK items : items = Included(selection)
  OBVIOUS
<1>2. PICK found : found = {p \in items : Matches(p[1], p[2]) # {}}
  OBVIOUS
<1>3. PICK plan : plan = InOrder(Order, {Creating(p) : p \in items \ found})
                           \o InOrder(Order, {Updating(p) : p \in found})
  OBVIOUS
<1>4. PICK map : map = {<<p[2], Match(p).id>> : p \in found}
  OBVIOUS
<1>5. push'.plan = plan /\ push'.id_map = map /\ push'.k = 1 /\ tenant' = tenant
  <2>1. /\ push'.plan = InOrder(Order, {Creating(p) : p \in items \ found})
                               \o InOrder(Order, {Updating(p) : p \in found})
        /\ push'.id_map = {<<p[2], Match(p).id>> : p \in found}
        /\ push'.k = 1 /\ tenant' = tenant
    BY <1>1, <1>2, MergeBegins
  <2> QED
    BY <1>3, <1>4, <2>1
<1>6. Table(row) /\ Sorted(row)
  BY DEF CInv, Typed
<1>7. ASSUME NEW p \in items
      PROVE  /\ p[1] \in Range(Order) /\ p[1] \in CanCreate /\ p[1] \in CanUpdate
             /\ p[2] \in Key /\ p = <<p[1], p[2]>>
             /\ Staging(p) \in Raw /\ p[2] = candidate_key[Staging(p).name]
  <2>1. p[1] \in Range(Order) /\ p[1] \in CanCreate /\ p[1] \in CanUpdate
    BY <1>1, CandidateAssumption DEF Included
  <2>2. /\ p[2] \in Key /\ p = <<p[1], p[2]>>
        /\ Staging(p) \in Raw /\ p[2] = candidate_key[Staging(p).name]
    BY <1>1, <1>6, IncludedIs
  <2> QED
    BY <2>1, <2>2
<1>8. IsFiniteSet(items \ found) /\ IsFiniteSet(found)
  <2>1. IsFiniteSet(Type \X Key)
    BY FiniteTables, FS_Product
  <2>2. items \ found \in SUBSET (Type \X Key) /\ found \in SUBSET (Type \X Key)
    BY <1>1, <1>2 DEF Included
  <2> QED
    BY <2>1, <2>2, FS_Subset
<1>9. PICK c : PlanOf(plan, items \ found, found, c)
  <2>1. \A p \in items \ found : p[1] \in Range(Order)
    BY <1>7
  <2> QED
    BY <1>3, <1>8, <2>1, PlanIs
<1>10. c \in Nat /\ Len(plan) \in Nat /\ c <= Len(plan)
  BY <1>9 DEF PlanOf
<1>11. \A n \in 1..Len(plan) : n \in 1..c \/ n \in c + 1..Len(plan)
  BY <1>10
<1>12. ASSUME NEW p \in found
       PROVE  /\ Match(p).id \in Id /\ tenant[Match(p).id] # None
              /\ tenant[Match(p).id].type = p[1]
              /\ tenant[Match(p).id].raw.name = Staging(p).name
  BY <1>1, <1>2, MatchesTrue
<1>13. \A m \in map : m[2] \in Id /\ tenant[m[2]] # None
  BY <1>4, <1>12
<1>14. ASSUME NEW p \in items, NEW n \in 1..Len(plan),
              \/ p \in items \ found /\ n \in 1..c /\ plan[n] = Creating(p)
              \/ p \in found /\ n \in c + 1..Len(plan) /\ plan[n] = Updating(p),
              NEW r \in Staging(p).refs
       PROVE  Resolves(tenant, map, plan, 1, n, r)
  <2>1. CASE r \in Objects
    BY <2>1 DEF Resolves, Objects, Exists
  <2>2. ASSUME NEW q \in items, q[2] = r,
               Before(q[1], p[1]) \/ q \in found \/ p \in found
        PROVE  Resolves(tenant, map, plan, 1, n, r)
    <3>1. CASE q \in found
      <4>1. <<q[2], Match(q).id>> \in map
        BY <1>4, <3>1
      <4> QED
        BY <2>2, <4>1 DEF Resolves
    <3>2. CASE q \notin found
      <4>1. PICK m \in 1..c : plan[m] = Creating(q)
        BY <1>9, <3>2 DEF PlanOf
      <4>2. plan[m].action = "create" /\ plan[m].source = r /\ plan[m].type = q[1]
        BY <2>2, <4>1, EntriesAre
      <4>3. m < n
        <5>1. CASE p \in found
          BY <1>10, <1>14, <5>1
        <5>2. CASE p \notin found
          <6>1. n \in 1..c /\ plan[n].type = p[1]
            BY <1>14, <5>2, EntriesAre
          <6>2. Before(plan[m].type, plan[n].type)
            BY <2>2, <3>2, <4>2, <5>2, <6>1
          <6> QED
            BY <1>9, <6>1, <6>2 DEF PlanOf
        <5> QED
          BY <5>1, <5>2
      <4>4. m \in 1..n - 1
        BY <1>10, <4>3
      <4> QED
        BY <4>2, <4>4 DEF Resolves
    <3> QED
      BY <3>1, <3>2
  <2>3. r \in row[p[1]][p[2]].raw.refs
    BY <1>14 DEF Staging
  <2>4. r \in Objects \/ \E q \in items :
          /\ q[2] = r
          /\ Before(q[1], p[1]) \/ Matches(q[1], q[2]) # {} \/ Matches(p[1], p[2]) # {}
    BY <1>1, <2>3 DEF Whole
  <2>5. r \in Objects \/ \E q \in items :
          q[2] = r /\ (Before(q[1], p[1]) \/ q \in found \/ p \in found)
    BY <1>2, <2>4
  <2> QED
    BY <2>1, <2>2, <2>5
<1>15. ASSUME NEW n \in 1..c
       PROVE  /\ plan[n].supported /\ plan[n].action = "create" /\ plan[n].desired \in Raw
              /\ plan[n].source # None /\ Free(tenant, plan[n])
              /\ \A r \in plan[n].desired.refs : Resolves(tenant, map, plan, 1, n, r)
  <2>1. PICK p \in items \ found : plan[n] = Creating(p)
    BY <1>9 DEF PlanOf
  <2>2. /\ plan[n].type = p[1] /\ plan[n].supported = (p[1] \in CanCreate)
        /\ plan[n].action = "create" /\ plan[n].desired = Staging(p) /\ plan[n].source = p[2]
    BY <2>1, EntriesAre
  <2>3. plan[n].source # None
    BY <1>7, <2>2, NoneAssumption
  <2>4. Free(tenant, plan[n])
    BY <1>1, <1>2, <2>2, MatchesTrue DEF Free
  <2>5. n \in 1..Len(plan)
    BY <1>10
  <2>6. \A r \in plan[n].desired.refs : Resolves(tenant, map, plan, 1, n, r)
    BY <1>14, <2>1, <2>2, <2>5
  <2> QED
    BY <1>7, <2>2, <2>3, <2>4, <2>6
<1>16. ASSUME NEW n \in c + 1..Len(plan)
       PROVE  /\ plan[n].supported /\ plan[n].action = "update" /\ plan[n].desired \in Raw
              /\ plan[n].target \in Id /\ tenant[plan[n].target] # None
              /\ tenant[plan[n].target].type = plan[n].type
              /\ tenant[plan[n].target].raw.name = plan[n].desired.name
              /\ \A r \in plan[n].desired.refs : Resolves(tenant, map, plan, 1, n, r)
  <2>1. PICK p \in found : plan[n] = Updating(p)
    BY <1>9 DEF PlanOf
  <2>2. /\ plan[n].type = p[1] /\ plan[n].supported = (p[1] \in CanUpdate)
        /\ plan[n].action = "update" /\ plan[n].desired = Staging(p)
        /\ plan[n].target = Match(p).id
    BY <2>1, EntriesAre
  <2>3. p \in items
    BY <1>2
  <2>4. n \in 1..Len(plan)
    BY <1>10
  <2>5. \A r \in plan[n].desired.refs : Resolves(tenant, map, plan, 1, n, r)
    BY <1>14, <2>1, <2>2, <2>3, <2>4
  <2> QED
    BY <1>7, <1>12, <2>2, <2>3, <2>5
<1>17. ASSUME NEW m \in 1..Len(plan), NEW n \in 1..Len(plan), Alike(plan[m], plan[n])
       PROVE  m = n
  <2>1. m \in 1..c /\ n \in 1..c
    BY <1>11, <1>16, <1>17 DEF Alike
  <2>2. PICK p \in items \ found : plan[m] = Creating(p)
    BY <1>9, <2>1 DEF PlanOf
  <2>3. PICK q \in items \ found : plan[n] = Creating(q)
    BY <1>9, <2>1 DEF PlanOf
  <2>4. p[1] = q[1] /\ Staging(p).name = Staging(q).name
    BY <1>17, <2>2, <2>3, EntriesAre DEF Alike
  <2>5. p = q
    BY <1>7, <2>4
  <2> QED
    BY <1>9, <2>1, <2>2, <2>3, <2>5 DEF PlanOf
<1>18. Ready(tenant, map, plan, 1)
  <2>1. \A n \in 1..Len(plan) :
       /\ plan[n].supported /\ plan[n].action \in {"create", "update"}
       /\ plan[n].desired \in Raw
       /\ \A r \in plan[n].desired.refs : Resolves(tenant, map, plan, 1, n, r)
       /\ plan[n].action = "create" => plan[n].source # None /\ Free(tenant, plan[n])
       /\ plan[n].action = "update" =>
            /\ plan[n].target \in Id /\ tenant[plan[n].target] # None
            /\ tenant[plan[n].target].type = plan[n].type
            /\ tenant[plan[n].target].raw.name = plan[n].desired.name
    BY <1>11, <1>15, <1>16
  <2> QED
    BY <1>13, <1>17, <2>1 DEF Ready
<1> QED
  BY <1>5, <1>18

\* A merge begins ready to land, when it is to land whole.
LEMMA MergeLands ==
  ASSUME CInv, NEW selection \in SUBSET (Type \X Key), classify_merge(selection)
  PROVE  AllLand'
<1>1. /\ push'.whole = Whole(Included(selection)) /\ push'.sure = CacheTrue
      /\ push'.records = <<>>
  BY MergeBegins
<1>2. \A n \in DOMAIN push'.records : push'.records[n].status = "applied"
  BY <1>1
<1>3. Landing' => Ready(tenant, push.id_map, push.plan, push.k)'
  <2>1. Landing' => CacheTrue /\ Whole(Included(selection))
    BY <1>1 DEF Landing
  <2> QED
    BY <2>1, MergeReady
<1> QED
  BY <1>2, <1>3 DEF AllLand

\* A call that is ready lands, and those after it stay ready.
LEMMA ExecuteLands ==
  ASSUME CInv, Tidy(tenant), AllLand, Execute
  PROVE  AllLand'
<1>1. /\ push.pc = "push" /\ push.k <= Len(push.plan) /\ Next_entry.supported
      /\ UNCHANGED <<row, snap, import>>
  BY DEF Execute
<1>2. /\ push.k = Len(push.records) + 1 /\ push.plan \in Seq(PlanEntry)
      /\ push.records \in Seq(PushRecord) /\ push.id_map \in SUBSET (Key \X Key)
      /\ push.k \in Nat
  BY <1>1 DEF CInv, Pushes, PushTyped, Book
<1>3. PICK plan \in Seq(PlanEntry), map \in SUBSET (Key \X Key), k \in Nat,
           records \in Seq(PushRecord) :
        plan = push.plan /\ map = push.id_map /\ k = push.k /\ records = push.records
  BY <1>2, Zenon
<1>4. k \in DOMAIN plan /\ k = Len(records) + 1
  BY <1>1, <1>2, <1>3
<1>5. PICK e \in PlanEntry : e = Next_entry /\ e = plan[k]
  BY <1>3, <1>4 DEF Next_entry
<1> DEFINE fresh == IF e.action = "create" THEN FreshId ELSE e.target
           cleaned == IF e.action = "delete" THEN None ELSE Remapped(e.desired, map)
<1>6. PICK outcome \in {"applied", "failed"} :
        /\ e.action = "create" => Unused # {}
        /\ Call(e.action, e.type, fresh, cleaned, outcome)
        /\ push' = [push EXCEPT
             !.records = Recorded(e, outcome,
               IF outcome = "failed" /\ e.action = "create" THEN None ELSE fresh),
             !.id_map = IF outcome = "applied" /\ e.action = "create"
                        THEN Registered(@, e, fresh) ELSE @,
             !.k = @ + 1, !.quiet = @ /\ Faultless]
  BY <1>3, <1>5 DEF Execute
<1>7. PICK id : id = fresh
  OBVIOUS
<1>8. /\ push'.plan = plan /\ push'.k = k + 1 /\ push'.pc = "push" /\ push'.mode = push.mode
      /\ push'.sure = push.sure /\ push'.whole = push.whole
      /\ push'.quiet = (push.quiet /\ Faultless)
      /\ push'.id_map = IF outcome = "applied" /\ e.action = "create"
                        THEN Registered(map, e, id) ELSE map
      /\ push'.records = Recorded(e, outcome,
               IF outcome = "failed" /\ e.action = "create" THEN None ELSE id)
  BY <1>1, <1>3, <1>6, <1>7 DEF CInv, PushTyped, Book
<1> SUFFICES ASSUME Landing'
             PROVE  /\ \A n \in DOMAIN push'.records : push'.records[n].status = "applied"
                    /\ Ready(tenant', push'.id_map, push'.plan, push'.k)
  BY <1>8 DEF AllLand, Ready, Resolves, Free
<1>9. Landing /\ Faultless
  BY <1>1, <1>8 DEF Landing
<1>10. Ready(tenant, map, plan, k) /\ \A n \in DOMAIN records : records[n].status = "applied"
  BY <1>1, <1>3, <1>9 DEF AllLand
<1>11. e.action \in {"create", "update"} /\ e.desired \in Raw
       /\ (e.action = "update" => e.target \in Id)
  <2>1. k \in k..Len(plan)
    BY <1>4
  <2> QED
    BY <1>5, <1>10, <2>1 DEF Ready
<1>12. PICK raw \in Raw : raw = Remapped(e.desired, map) /\ raw.name = e.desired.name
  BY <1>11, RemappedIs
<1>13. /\ e.action = "create" => id \in Id /\ made[id] = None
       /\ e.action # "create" => id = e.target
  BY <1>6, <1>7, FreshIdIsNew
<1>14. id \in Id
  BY <1>11, <1>13
<1>15. Call(e.action, e.type, id, raw, outcome)
  BY <1>6, <1>7, <1>11, <1>12
<1> HIDE DEF fresh, cleaned
<1>16. Accepts(e.action, e.type, id, raw)
  <2>1. Typed /\ (plan[k].action # "create" => id = plan[k].target)
    BY <1>5, <1>13 DEF CInv
  <2>2. Accepts(plan[k].action, plan[k].type, id, Remapped(plan[k].desired, map))
    BY <1>4, <1>10, <2>1, ReadyAccepts
  <2> QED
    BY <1>5, <1>12, <2>2
<1>17. outcome = "applied" /\ Written(e.action, e.type, id, raw)
  BY <1>9, <1>15, <1>16, CallIs
<1>18. tenant' = [tenant EXCEPT ![id] = [type |-> e.type, raw |-> raw]]
  BY <1>11, <1>17 DEF Written
<1>19. e.action = "create" => tenant[id] = None
  BY <1>13, <1>14, NewIsNone
<1>20. push'.id_map = IF e.action = "create" THEN Registered(map, e, id) ELSE map
  BY <1>8, <1>17
<1>21. Ready(tenant', push'.id_map, push'.plan, push'.k)
  <2>1. PICK conf \in [Id -> Object \cup {None}] : conf = tenant
    BY DEF CInv, Typed
  <2>2. Ready([conf EXCEPT ![id] = [type |-> plan[k].type, raw |-> raw]],
               IF plan[k].action = "create" THEN Registered(map, plan[k], id) ELSE map,
               plan, k + 1)
    BY <1>4, <1>5, <1>10, <1>12, <1>13, <1>14, <1>19, <2>1, ReadyStays
  <2> QED
    BY <1>5, <1>8, <1>18, <1>20, <2>1, <2>2
<1>22. \A n \in DOMAIN push'.records : push'.records[n].status = "applied"
  <2>1. PICK r : r.status = "applied" /\ push'.records = Append(records, r)
    BY <1>3, <1>8, <1>17 DEF Recorded
  <2> QED
    BY <1>10, <2>1
<1> QED
  BY <1>21, <1>22

\* The other steps leave the plan and the tenant to a merge, or end it.
LEMMA OthersLand ==
  ASSUME CInv, AllLand, [Next]_vars, ~Execute,
         ~\E selection \in SUBSET {p \in Type \X Key : Accepted(p[1], p[2])} :
            classify_merge(selection)
  PROVE  AllLand'
<1>1. CASE push' = push /\ tenant' = tenant
  BY <1>1 DEF AllLand, Landing, Ready, Resolves, Free
<1>2. CASE Skip
  <2> SUFFICES ASSUME Landing'
               PROVE  FALSE
    BY DEF AllLand
  <2>1. /\ push.pc = "push" /\ push.k <= Len(push.plan) /\ ~Next_entry.supported
        /\ push' = [push EXCEPT !.records = Recorded(Next_entry, "manual", None), !.k = @ + 1]
    BY <1>2 DEF Skip
  <2>2. Landing
    BY <2>1 DEF Landing, CInv, PushTyped, Book
  <2>3. Ready(tenant, push.id_map, push.plan, push.k) /\ push.k \in Nat
        /\ Len(push.plan) \in Nat
    BY <2>1, <2>2 DEF AllLand, CInv, PushTyped, Book
  <2>4. push.k \in push.k..Len(push.plan)
    BY <2>1, <2>3
  <2> QED
    BY <2>1, <2>3, <2>4 DEF Ready, Next_entry
<1>3. CASE PushDone
  <2>1. PICK pc \in {"done", "undo"} :
          push' = [push EXCEPT !.pc = pc, !.k = Len(push.records), !.all = push.k > Len(push.plan)]
    BY <1>3 DEF PushDone
  <2>2. /\ push'.pc = pc /\ push'.records = push.records /\ push'.mode = push.mode
        /\ push'.sure = push.sure /\ push'.quiet = push.quiet /\ push'.whole = push.whole
    BY <2>1 DEF CInv, PushTyped, Book
  <2>3. push.pc = "push" /\ pc # "push"
    BY <1>3 DEF PushDone
  <2> QED
    BY <2>2, <2>3 DEF AllLand, Landing
<1>4. CASE classify_restore
  <2>1. push'.mode = "restore"
    BY <1>4, BeginIs DEF classify_restore
  <2> QED
    BY <2>1 DEF AllLand, Landing
<1>5. CASE Close
  <2>1. push'.pc = "idle"
    BY <1>5 DEF Close, NoPush
  <2> QED
    BY <2>1 DEF AllLand, Landing
<1>6. CASE promote
  <2>1. /\ push.pc = "done" /\ push'.pc = "done" /\ push'.records = push.records
        /\ push'.mode = push.mode /\ push'.sure = push.sure /\ push'.quiet = push.quiet
        /\ push'.whole = push.whole
    BY <1>6 DEF promote, CInv, PushTyped, Book
  <2> QED
    BY <2>1 DEF AllLand, Landing
<1>7. CASE RollbackStep \/ RollbackDone
  <2>1. push'.pc \in {"undo", "undone"}
    BY <1>7 DEF RollbackStep, RollbackDone, CInv, PushTyped, Book
  <2> QED
    BY <2>1 DEF AllLand, Landing
<1>8. ASSUME NEW i \in Id, EditTenant(i)
      PROVE  AllLand'
  <2>1. push'.quiet = FALSE
    BY <1>8 DEF EditTenant, CInv, PushTyped, Book
  <2> QED
    BY <2>1 DEF AllLand, Landing
<1> QED
  BY <1>1, <1>2, <1>3, <1>4, <1>5, <1>6, <1>7, <1>8
  DEF Next, vars, ingest, Reviewed, set_status, discard, create_snapshot, ImportRead, ImportWrite

---------------------------------------------------------------------------
(* A restore: all that is there is going to be what was.                   *)

\* The reverse of an order has the same types, each once.
LEMMA ReverseIs ==
  /\ Order \in Seq(Range(Order)) /\ IsInjective(Order)
  /\ Reverse(Order) \in Seq(Range(Order)) /\ IsInjective(Reverse(Order))
  /\ \A t \in Range(Order) : /\ \E a \in 1..Len(Order) : t = Order[a]
                             /\ \E a \in 1..Len(Reverse(Order)) : t = Reverse(Order)[a]
<1>1. Order \in Seq(Range(Order)) /\ IsInjective(Order)
  BY CandidateAssumption
<1> DEFINE N == Len(Order)
           r == Reverse(Order)
<1>2. N \in Nat /\ DOMAIN Order = 1..N
  BY <1>1
<1>3. r = [i \in 1..N |-> Order[N - i + 1]]
  BY DEF Reverse
<1>4. \A i \in 1..N : N - i + 1 \in 1..N /\ N - (N - i + 1) + 1 = i
  BY <1>2
<1> HIDE DEF N, r
<1>5. \A i \in 1..N : Order[i] \in Range(Order)
  BY <1>2 DEF Range
<1>6. r \in Seq(Range(Order)) /\ Len(r) = N /\ DOMAIN r = 1..N
  BY <1>2, <1>3, <1>4, <1>5
<1>7. IsInjective(r)
  <2> SUFFICES ASSUME NEW x \in 1..N, NEW y \in 1..N, r[x] = r[y]
               PROVE  x = y
    BY <1>6 DEF IsInjective
  <2>1. Order[N - x + 1] = Order[N - y + 1]
    BY <1>3
  <2>2. N - x + 1 = N - y + 1
    BY <1>1, <1>2, <1>4, <2>1 DEF IsInjective
  <2> QED
    BY <1>2, <2>2
<1>8. ASSUME NEW t \in Range(Order)
      PROVE  (\E a \in 1..N : t = Order[a]) /\ \E a \in 1..N : t = r[a]
  <2>1. PICK a \in 1..N : t = Order[a]
    BY <1>2 DEF Range
  <2>2. r[N - a + 1] = Order[a]
    BY <1>3, <1>4
  <2> QED
    BY <1>4, <2>1, <2>2
<1> QED
  BY <1>1, <1>6, <1>7, <1>8 DEF N, r

\* Ids keep what they were made for, so a mirror stays one.
LEMMA MirrorsStays ==
  ASSUME Grows, NEW raw, NEW was, Mirrors(raw, was)
  PROVE  Mirrors(raw, was)'
<1>1. \A i \in raw.refs \cup was.refs : i \in Id /\ made[i] # None /\ made'[i] = made[i]
  BY DEF Grows, Mirrors
<1>2. {made'[i] : i \in raw.refs} = {made[i] : i \in raw.refs}
      /\ {made'[i] : i \in was.refs} = {made[i] : i \in was.refs}
  BY <1>1
<1> QED
  BY <1>1, <1>2 DEF Mirrors

\* What is sent for an object refers to what its references are now.
LEMMA MirrorsSent ==
  ASSUME Typed, Assigned(tenant), NEW map \in SUBSET (Key \X Key),
         \A m \in map : m[1] \in Id /\ m[2] \in Id /\ made[m[1]] # None /\ made[m[2]] = made[m[1]],
         NEW was \in Raw, Remapped(was, map).refs \subseteq Objects
  PROVE  Mirrors(Remapped(was, map), was)
<1> DEFINE to(r) == IF \E m \in map : m[1] = r THEN (CHOOSE m \in map : m[1] = r)[2] ELSE r
<1>1. PICK raw \in Raw : raw = Remapped(was, map) /\ raw.name = was.name
  BY RemappedIs
<1>2. raw.refs = {to(r) : r \in was.refs} /\ raw.cfg = was.cfg
  <2>1. raw = [was EXCEPT !.refs = {to(r) : r \in @}]
    BY <1>1 DEF Remapped
  <2> HIDE DEF to
  <2> QED
    BY <2>1 DEF Raw
<1>3. ASSUME NEW r \in was.refs
      PROVE  /\ r \in Id /\ made[r] # None /\ to(r) \in Id /\ made[to(r)] = made[r]
  <2>1. CASE \E m \in map : m[1] = r
    <3>1. (CHOOSE m \in map : m[1] = r) \in map /\ (CHOOSE m \in map : m[1] = r)[1] = r
      BY <2>1
    <3>2. to(r) = (CHOOSE m \in map : m[1] = r)[2]
      BY <2>1
    <3> HIDE DEF to
    <3> QED
      BY <3>1, <3>2
  <2>2. CASE ~\E m \in map : m[1] = r
    <3>1. to(r) = r
      BY <2>2
    <3>2. r \in Objects
      BY <1>1, <1>2, <3>1
    <3>3. r \in Id /\ tenant[r] # None
      BY <3>2 DEF Objects, Exists
    <3>4. made[r] # None
      BY <3>3, NoneAssumption DEF Assigned, Typed, Object, Raw
    <3> QED
      BY <3>1, <3>3, <3>4
  <2> QED
    BY <2>1, <2>2
<1> HIDE DEF to
<1>4. {made[i] : i \in raw.refs} = {made[i] : i \in was.refs}
  BY <1>2, <1>3
<1>5. Mirrors(raw, was)
  BY <1>1, <1>2, <1>3, <1>4 DEF Mirrors
<1> QED
  BY <1>1, <1>5

\* The next entry is the only one that is no longer ahead.
LEMMA AheadIs ==
  ASSUME NEW plan \in Seq(PlanEntry), NEW k \in DOMAIN plan, NEW action, NEW i
  PROVE  /\ Ahead(plan, k + 1, action, i) = Ahead(plan, k, action, i) \ {k}
         /\ k \in Ahead(plan, k, action, i) <=> plan[k].action = action /\ plan[k].target = i
<1>1. k \in Nat /\ Len(plan) \in Nat /\ k \in k..Len(plan) /\ k + 1..Len(plan) = (k..Len(plan)) \ {k}
  OBVIOUS
<1> QED
  BY <1>1 DEF Ahead

\* What is settled stays so until an update of it is sent.
LEMMA SettledStays ==
  ASSUME Grows, NEW plan \in Seq(PlanEntry), NEW k \in DOMAIN plan, NEW conf, NEW new,
         NEW i, NEW c, Settled(conf, plan, k, i, c), new[i] = conf[i],
         plan[k].action = "update" => plan[k].target # i
  PROVE  Settled(new, plan, k + 1, i, c)'
<1>1. /\ Ahead(plan, k + 1, "delete", i) = {}
      /\ Ahead(plan, k + 1, "update", i) = Ahead(plan, k, "update", i)
  <2>1. k \notin Ahead(plan, k, "update", i)
    BY AheadIs
  <2>2. /\ Ahead(plan, k + 1, "update", i) = Ahead(plan, k, "update", i) \ {k}
        /\ Ahead(plan, k + 1, "delete", i) = Ahead(plan, k, "delete", i) \ {k}
    BY AheadIs
  <2> QED
    BY <2>1, <2>2 DEF Settled
<1>2. Mirrors(conf[i].raw, c.raw) => Mirrors(conf[i].raw, c.raw)'
  BY MirrorsStays
<1>3. PICK o : o = conf[i] /\ o = new[i]
  OBVIOUS
<1> QED
  BY <1>1, <1>2, <1>3 DEF Settled, Ahead

\* An update of what is settled makes it what was.
LEMMA SettledSent ==
  ASSUME Grows, NEW plan \in Seq(PlanEntry), NEW k \in DOMAIN plan, NEW conf, NEW new,
         NEW i, NEW c, Settled(conf, plan, k, i, c), NEW raw,
         plan[k].action = "update", plan[k].target = i, conf[i].type = plan[k].type,
         new[i] = [type |-> plan[k].type, raw |-> raw], new[i] # None,
         Mirrors(raw, plan[k].desired)
  PROVE  Settled(new, plan, k + 1, i, c)'
<1>1. /\ Ahead(plan, k + 1, "delete", i) = {}
      /\ Ahead(plan, k + 1, "update", i) \subseteq Ahead(plan, k, "update", i)
      /\ plan[k].desired = c.raw
  BY AheadIs DEF Settled
<1>2. Mirrors(raw, c.raw)'
  BY <1>1, MirrorsStays
<1>3. PICK o : o = new[i] /\ o.raw = raw /\ o.type = c.type /\ o # None
  BY DEF Settled
<1> QED
  BY <1>1, <1>2, <1>3 DEF Settled, Ahead

\* Another object that is gone leaves the rest to be restored.
LEMMA DeleteRestores ==
  ASSUME Grows, NEW plan \in Seq(PlanEntry), NEW k \in DOMAIN plan, NEW was, NEW map,
         NEW conf \in [Id -> Object \cup {None}], Restored(was, conf, map, plan, k),
         plan[k].action = "delete", plan[k].target \in Id
  PROVE  Restored(was, [conf EXCEPT ![plan[k].target] = None], map, plan, k + 1)'
<1> DEFINE id == plan[k].target
           new == [conf EXCEPT ![id] = None]
<1>1. new[id] = None /\ \A i \in Id : i # id => new[i] = conf[i]
  OBVIOUS
<1> HIDE DEF new
<1>2. \A m \in map : m[1] \in Id /\ m[2] \in Id /\ made'[m[1]] # None /\ made'[m[2]] = made'[m[1]]
  BY DEF Restored, Grows
<1>3. ASSUME NEW i \in Id, NEW c, Settled(conf, plan, k, i, c)
      PROVE  Settled(new, plan, k + 1, i, c)'
  <2>1. i # id
    <3>1. k \in Ahead(plan, k, "delete", id)
      BY AheadIs
    <3> QED
      BY <1>3, <3>1 DEF Settled
  <2> QED
    BY <1>1, <1>3, <2>1, SettledStays
<1>4. ASSUME NEW i \in Id, new[i] # None, new[i].type \notin Foreign
      PROVE  Ahead(plan, k + 1, "delete", i) # {}
             \/ \E c \in was : Settled(new, plan, k + 1, i, c)'
  <2>1. i # id /\ conf[i] # None /\ conf[i].type \notin Foreign
    BY <1>1, <1>4
  <2>2. CASE Ahead(plan, k, "delete", i) # {}
    <3>1. k \notin Ahead(plan, k, "delete", i)
      BY <2>1, AheadIs
    <3>2. Ahead(plan, k + 1, "delete", i) = Ahead(plan, k, "delete", i) \ {k}
      BY AheadIs
    <3> QED
      BY <2>2, <3>1, <3>2
  <2>3. CASE \E c \in was : Settled(conf, plan, k, i, c)
    BY <1>3, <2>3
  <2> QED
    BY <2>1, <2>2, <2>3 DEF Restored
<1>5. ASSUME NEW c \in was, c.type \notin Foreign
      PROVE  Recreated(plan, k + 1, c) \/ \E i \in Id : Settled(new, plan, k + 1, i, c)'
  <2>1. Recreated(plan, k, c) => Recreated(plan, k + 1, c)
    BY DEF Recreated
  <2> QED
    BY <1>3, <1>5, <2>1 DEF Restored
<1>6. Restored(was, new, map, plan, k + 1)'
  BY <1>2, <1>4, <1>5 DEF Restored, Ahead, Recreated
<1> QED
  BY <1>6 DEF new

\* What is created is what was.
LEMMA CreateRestores ==
  ASSUME Grows, NEW plan \in Seq(PlanEntry), NEW k \in DOMAIN plan, NEW was,
         NEW map \in SUBSET (Key \X Key), NEW conf \in [Id -> Object \cup {None}],
         Restored(was, conf, map, plan, k), Restores(was, plan),
         \A n \in DOMAIN plan : Aims(plan[n]), plan[k].action = "create",
         NEW id \in Id, made[id] = None, conf[id] = None, NEW raw \in Raw,
         made'[id] = [type |-> plan[k].type, name |-> plan[k].desired.name],
         Mirrors(raw, plan[k].desired)
  PROVE  Restored(was, [conf EXCEPT ![id] = [type |-> plan[k].type, raw |-> raw]],
                  Registered(map, plan[k], id), plan, k + 1)'
<1> DEFINE o == [type |-> plan[k].type, raw |-> raw]
           new == [conf EXCEPT ![id] = o]
           after == Registered(map, plan[k], id)
<1>1. new[id] = o /\ \A i \in Id : i # id => new[i] = conf[i]
  OBVIOUS
<1>2. o # None /\ o.type = plan[k].type /\ o.raw = raw
  <2>1. plan[k] \in PlanEntry
    OBVIOUS
  <2>2. plan[k].type \in Type
    BY <2>1 DEF PlanEntry
  <2> QED
    BY <2>2, NoneAssumption DEF Object
<1>3. /\ plan[k].source \in Id /\ made[plan[k].source] # None
      /\ made[plan[k].source] = [type |-> plan[k].type, name |-> plan[k].desired.name]
      /\ \E c \in was : c.type = plan[k].type /\ c.raw = plan[k].desired
  BY DEF Restores
<1> HIDE DEF new, o
<1>4. ASSUME NEW m \in after
      PROVE  m[1] \in Id /\ m[2] \in Id /\ made'[m[1]] # None /\ made'[m[2]] = made'[m[1]]
  <2>1. m \in map \/ m = <<plan[k].source, id>>
    BY DEF Registered
  <2>2. CASE m \in map
    BY <2>2 DEF Restored, Grows
  <2>3. CASE m = <<plan[k].source, id>>
    <3>1. m[1] = plan[k].source /\ m[2] = id
      BY <2>3
    <3> QED
      BY <1>3, <3>1 DEF Grows
  <2> QED
    BY <2>1, <2>2, <2>3
<1>5. ASSUME NEW i \in Id, NEW c, Settled(conf, plan, k, i, c)
      PROVE  Settled(new, plan, k + 1, i, c)'
  <2>1. i # id
    BY <1>5 DEF Settled
  <2> QED
    BY <1>1, <1>5, <2>1, SettledStays
<1>6. ASSUME NEW c, c.type = plan[k].type, c.raw = plan[k].desired
      PROVE  Settled(new, plan, k + 1, id, c)'
  <2>1. Ahead(plan, k + 1, "delete", id) = {} /\ Ahead(plan, k + 1, "update", id) = {}
    <3>1. \A n \in DOMAIN plan : plan[n].action \in {"delete", "update"} => plan[n].target # id
      BY DEF Restores, Aims
    <3>2. k + 1..Len(plan) \subseteq DOMAIN plan
      OBVIOUS
    <3> QED
      BY <3>1, <3>2 DEF Ahead
  <2>2. Mirrors(raw, c.raw)'
    BY <1>6, MirrorsStays
  <2> QED
    BY <1>1, <1>2, <1>6, <2>1, <2>2 DEF Settled, Ahead
<1>7. ASSUME NEW i \in Id, new[i] # None, new[i].type \notin Foreign
      PROVE  Ahead(plan, k + 1, "delete", i) # {}
             \/ \E c \in was : Settled(new, plan, k + 1, i, c)'
  <2>1. CASE i = id
    BY <1>3, <1>6, <2>1
  <2>2. CASE i # id
    <3>1. conf[i] # None /\ conf[i].type \notin Foreign
      BY <1>1, <1>7, <2>2
    <3>2. Ahead(plan, k + 1, "delete", i) = Ahead(plan, k, "delete", i)
      <4>1. k \notin Ahead(plan, k, "delete", i)
        BY AheadIs
      <4>2. Ahead(plan, k + 1, "delete", i) = Ahead(plan, k, "delete", i) \ {k}
        BY AheadIs
      <4> QED
        BY <4>1, <4>2
    <3> QED
      BY <1>5, <3>1, <3>2 DEF Restored
  <2> QED
    BY <2>1, <2>2
<1>8. ASSUME NEW c \in was, c.type \notin Foreign
      PROVE  Recreated(plan, k + 1, c) \/ \E i \in Id : Settled(new, plan, k + 1, i, c)'
  <2>1. CASE Recreated(plan, k, c)
    <3>1. PICK n \in k..Len(plan) :
            plan[n].action = "create" /\ plan[n].type = c.type /\ plan[n].desired = c.raw
      BY <2>1 DEF Recreated
    <3>2. n = k \/ n \in k + 1..Len(plan)
      OBVIOUS
    <3> QED
      BY <1>6, <3>1, <3>2 DEF Recreated
  <2>2. CASE \E i \in Id : Settled(conf, plan, k, i, c)
    BY <1>5, <2>2
  <2> QED
    BY <1>8, <2>1, <2>2 DEF Restored
<1> HIDE DEF after
<1>9. Restored(was, new, after, plan, k + 1)'
  BY <1>4, <1>7, <1>8 DEF Restored, Ahead, Recreated
<1> QED
  BY <1>9 DEF new, o, after

\* What is updated is what was.
LEMMA UpdateRestores ==
  ASSUME Grows, NEW plan \in Seq(PlanEntry), NEW k \in DOMAIN plan, NEW was, NEW map,
         NEW conf \in [Id -> Object \cup {None}], Restored(was, conf, map, plan, k),
         plan[k].action = "update", plan[k].target \in Id,
         conf[plan[k].target] # None, conf[plan[k].target].type = plan[k].type,
         NEW raw \in Raw, Mirrors(raw, plan[k].desired)
  PROVE  Restored(was, [conf EXCEPT ![plan[k].target] = [type |-> plan[k].type, raw |-> raw]],
                  map, plan, k + 1)'
<1> DEFINE id == plan[k].target
           o == [type |-> plan[k].type, raw |-> raw]
           new == [conf EXCEPT ![id] = o]
<1>1. new[id] = o /\ \A i \in Id : i # id => new[i] = conf[i]
  OBVIOUS
<1>2. o # None /\ o.type = plan[k].type
  <2>1. plan[k] \in PlanEntry
    OBVIOUS
  <2>2. plan[k].type \in Type
    BY <2>1 DEF PlanEntry
  <2> QED
    BY <2>2, NoneAssumption DEF Object
<1>3. \A m \in map : m[1] \in Id /\ m[2] \in Id /\ made'[m[1]] # None /\ made'[m[2]] = made'[m[1]]
  BY DEF Restored, Grows
<1> HIDE DEF new
<1>4. ASSUME NEW i \in Id, NEW c, Settled(conf, plan, k, i, c)
      PROVE  Settled(new, plan, k + 1, i, c)'
  <2>1. CASE i = id
    <3>1. new[i] = [type |-> plan[k].type, raw |-> raw] /\ new[i] # None
          /\ conf[i].type = plan[k].type /\ plan[k].target = i
      BY <1>1, <1>2, <2>1
    <3> QED
      BY <1>4, <3>1, SettledSent
  <2>2. CASE i # id
    BY <1>1, <1>4, <2>2, SettledStays
  <2> QED
    BY <2>1, <2>2
<1>5. ASSUME NEW i \in Id, new[i] # None, new[i].type \notin Foreign
      PROVE  Ahead(plan, k + 1, "delete", i) # {}
             \/ \E c \in was : Settled(new, plan, k + 1, i, c)'
  <2>1. conf[i] # None /\ conf[i].type \notin Foreign
    BY <1>1, <1>2, <1>5
  <2>2. Ahead(plan, k + 1, "delete", i) = Ahead(plan, k, "delete", i)
    <3>1. k \notin Ahead(plan, k, "delete", i)
      BY AheadIs
    <3>2. Ahead(plan, k + 1, "delete", i) = Ahead(plan, k, "delete", i) \ {k}
      BY AheadIs
    <3> QED
      BY <3>1, <3>2
  <2> QED
    BY <1>4, <2>1, <2>2 DEF Restored
<1>6. ASSUME NEW c \in was, c.type \notin Foreign
      PROVE  Recreated(plan, k + 1, c) \/ \E i \in Id : Settled(new, plan, k + 1, i, c)'
  <2>1. Recreated(plan, k, c) => Recreated(plan, k + 1, c)
    BY DEF Recreated
  <2> QED
    BY <1>4, <1>6, <2>1 DEF Restored
<1>7. Restored(was, new, map, plan, k + 1)'
  BY <1>3, <1>5, <1>6 DEF Restored, Ahead, Recreated
<1> QED
  BY <1>7 DEF new, o

\* A concatenation has the one and then the other.
LEMMA ConcatIs ==
  ASSUME NEW V, NEW s \in Seq(V), NEW t \in Seq(V)
  PROVE  /\ Len(s \o t) = Len(s) + Len(t) /\ DOMAIN (s \o t) = 1..Len(s) + Len(t)
         /\ \A x \in 1..Len(s) : (s \o t)[x] = s[x]
         /\ \A x \in 1..Len(t) : (s \o t)[Len(s) + x] = t[x]
<1>1. s \o t \in Seq(V) /\ Len(s \o t) = Len(s) + Len(t)
  OBVIOUS
<1>2. DOMAIN (s \o t) = 1..Len(s) + Len(t)
  BY <1>1
<1>3. \A x \in 1..Len(s) : (s \o t)[x] = s[x]
  OBVIOUS
<1>4. \A x \in 1..Len(t) : (s \o t)[Len(s) + x] = t[x]
  OBVIOUS
<1> QED
  BY <1>1, <1>2, <1>3, <1>4

\* A plan in three parts has what each part has.
Parted(plan, D, C, U) ==
  /\ \A n \in DOMAIN plan : plan[n] \in D \cup C \cup U
  /\ \A e \in D \cup C \cup U : e.type \in Range(Order) =>
       \E n \in 1..Len(plan) : plan[n] = e

LEMMA PartsAre ==
  ASSUME NEW D, NEW C, NEW U, IsFiniteSet(D), IsFiniteSet(C), IsFiniteSet(U), NEW plan,
         plan = InOrder(Reverse(Order), D) \o InOrder(Order, C) \o InOrder(Order, U)
  PROVE  Parted(plan, D, C, U)
<1>1. PICK d, c, u : d = InOrder(Reverse(Order), D) /\ c = InOrder(Order, C)
                     /\ u = InOrder(Order, U)
  OBVIOUS
<1>2. /\ Placed(d, D, Reverse(Order), Len(Reverse(Order))) /\ Placed(c, C, Order, Len(Order))
      /\ Placed(u, U, Order, Len(Order))
  BY <1>1, ReverseIs, InOrderPlaces
<1>3. d \in Seq(D) /\ c \in Seq(C) /\ u \in Seq(U)
  BY <1>2 DEF Placed
<1>4. \A e \in D : e.type \in Range(Order) => \E x \in DOMAIN d : d[x] = e
  BY <1>2, ReverseIs DEF Placed
<1>5. \A e \in C : e.type \in Range(Order) => \E x \in DOMAIN c : c[x] = e
  BY <1>2, ReverseIs DEF Placed
<1>6. \A e \in U : e.type \in Range(Order) => \E x \in DOMAIN u : u[x] = e
  BY <1>2, ReverseIs DEF Placed
<1> DEFINE l == Len(d)
           m == Len(c)
           n == Len(u)
<1>7. l \in Nat /\ m \in Nat /\ n \in Nat
      /\ DOMAIN d = 1..l /\ DOMAIN c = 1..m /\ DOMAIN u = 1..n
  BY <1>3
<1>8. /\ plan = d \o c \o u /\ Len(plan) = l + m + n /\ DOMAIN plan = 1..l + m + n
      /\ \A x \in 1..l : plan[x] = d[x]
      /\ \A x \in 1..m : plan[l + x] = c[x]
      /\ \A x \in 1..n : plan[l + m + x] = u[x]
  <2>1. PICK V : D \subseteq V /\ C \subseteq V /\ U \subseteq V
    <3> WITNESS D \cup C \cup U
    <3> QED
      OBVIOUS
  <2>2. d \in Seq(V) /\ c \in Seq(V) /\ u \in Seq(V)
    BY <1>3, <2>1
  <2>3. PICK dc : dc = d \o c
    OBVIOUS
  <2>4. /\ dc \in Seq(V) /\ Len(dc) = l + m /\ \A x \in 1..l : dc[x] = d[x]
        /\ \A x \in 1..m : dc[l + x] = c[x]
    BY <2>2, <2>3
  <2>5. plan = dc \o u
    BY <1>1, <2>3
  <2>6. /\ Len(plan) = l + m + n /\ DOMAIN plan = 1..l + m + n
        /\ \A x \in 1..l + m : plan[x] = dc[x]
        /\ \A x \in 1..n : plan[l + m + x] = u[x]
    <3>1. /\ Len(dc \o u) = Len(dc) + Len(u) /\ DOMAIN (dc \o u) = 1..Len(dc) + Len(u)
          /\ \A x \in 1..Len(dc) : (dc \o u)[x] = dc[x]
          /\ \A x \in 1..Len(u) : (dc \o u)[Len(dc) + x] = u[x]
      <4>1. dc \in Seq(V) /\ u \in Seq(V)
        BY <2>2, <2>4
      <4>2. Len(dc \o u) = Len(dc) + Len(u)
        BY <4>1, ConcatIs
      <4>3. DOMAIN (dc \o u) = 1..Len(dc) + Len(u)
        BY <4>1, ConcatIs
      <4>4. \A x \in 1..Len(dc) : (dc \o u)[x] = dc[x]
        BY <4>1, ConcatIs
      <4>5. \A x \in 1..Len(u) : (dc \o u)[Len(dc) + x] = u[x]
        BY <4>1, ConcatIs
      <4> HIDE DEF l, m, n
      <4> QED
        BY <4>2, <4>3, <4>4, <4>5
    <3> QED
      BY <2>4, <2>5, <3>1
  <2>7. \A x \in 1..l : x \in 1..l + m
    BY <1>7
  <2>8. \A x \in 1..m : l + x \in 1..l + m
    BY <1>7
  <2> HIDE DEF l, m, n
  <2> QED
    BY <1>1, <2>4, <2>6, <2>7, <2>8
<1> HIDE DEF l, m, n
<1>9. ASSUME NEW x \in DOMAIN plan
      PROVE  plan[x] \in D \cup C \cup U
  <2>1. \/ x \in 1..l \/ (x - l \in 1..m /\ x = l + (x - l))
        \/ (x - l - m \in 1..n /\ x = l + m + (x - l - m))
    BY <1>7, <1>8
  <2>2. (\A y \in 1..l : d[y] \in D) /\ (\A y \in 1..m : c[y] \in C) /\ \A y \in 1..n : u[y] \in U
    BY <1>3, <1>7
  <2> QED
    BY <1>8, <2>1, <2>2
<1>10. ASSUME NEW e \in D \cup C \cup U, e.type \in Range(Order)
       PROVE  \E x \in 1..Len(plan) : plan[x] = e
  <2>1. (\A y \in 1..l : y \in 1..Len(plan)) /\ (\A y \in 1..m : l + y \in 1..Len(plan))
        /\ \A y \in 1..n : l + m + y \in 1..Len(plan)
    BY <1>7, <1>8
  <2>2. CASE e \in D
    BY <1>4, <1>7, <1>8, <1>10, <2>1, <2>2
  <2>3. CASE e \in C
    BY <1>5, <1>7, <1>8, <1>10, <2>1, <2>3
  <2>4. CASE e \in U
    BY <1>6, <1>7, <1>8, <1>10, <2>1, <2>4
  <2> QED
    BY <2>2, <2>3, <2>4
<1> QED
  BY <1>9, <1>10 DEF Parted

\* A snapshot is of what its ids were made for, when the cache is right.
LEMMA SnapIs ==
  ASSUME CInv, Remains, CacheTrue, snap # None, NEW c \in snap
  PROVE  /\ c.id \in Id /\ made[c.id] # None
         /\ made[c.id] = [type |-> c.type, name |-> c.raw.name]
         /\ c.type \in Type /\ c.raw \in Raw
<1>1. Real(c.type, c.id, c.raw) /\ c.type \in Type /\ c.raw \in Raw /\ c.id \in Id
  BY DEF CInv, Typed, Filed, Real
<1>2. made[c.id] # None /\ made[c.id].name = c.raw.name /\ made[c.id] \in [type : Type, name : Name]
  BY <1>1 DEF CInv, Typed, Real
<1>3. ASSUME made[c.id].type # c.type
      PROVE  FALSE
  <2> DEFINE r == row[c.type][c.id]
             o == [type |-> c.type, id |-> c.id, raw |-> r.raw]
  <2>1. Lives(row, c.type, c.id)
    BY <1>3 DEF Remains
  <2>2. r # None /\ r.live
    BY <2>1 DEF Lives
  <2>3. ~r.deleted
    BY <1>1, <1>3, <2>2, KeysApart DEF CInv, Sorted, Strays
  <2>4. o \in Current
    <3>1. PICK p \in Type \X Key : p = <<c.type, c.id>>
      BY <1>1, KeysApart
    <3>2. p[1] = c.type /\ p[2] = c.id
      BY <3>1
    <3> QED
      BY <2>2, <2>3, <3>1, <3>2 DEF Current
  <2>5. PICK i \in Objects : o = [type |-> tenant[i].type, id |-> i, raw |-> tenant[i].raw]
    BY <2>4 DEF CacheTrue
  <2>6. i = c.id /\ tenant[i].type = c.type
    BY <2>5
  <2>7. i \in Id /\ tenant[i] # None
    BY DEF Objects, Exists
  <2>8. made[i].type = tenant[i].type
    <3>1. made[i] = [type |-> tenant[i].type, name |-> tenant[i].raw.name]
      BY <2>7 DEF CInv, Assigned
    <3> QED
      BY <3>1
  <2> QED
    BY <1>3, <2>6, <2>8
<1> QED
  BY <1>1, <1>2, <1>3

\* What the entries of a restore are.
LEMMA RestoreEntries ==
  /\ \A c : /\ Removing(c).type = c.type /\ Removing(c).action = "delete"
            /\ Removing(c).target = c.id
            /\ Recreating(c).type = c.type /\ Recreating(c).action = "create"
            /\ Recreating(c).source = c.id /\ Recreating(c).desired = c.raw
  /\ \A was, now : /\ Modified(was, now).type = was.type
                   /\ Modified(was, now).action = "update"
                   /\ Modified(was, now).target = was.id
                   /\ Modified(was, now).desired = was.raw
BY DEF Removing, Recreating, Modified, Entry

\* A restore begins with all that is to be restored ahead of it.
LEMMA RestoreBegins ==
  ASSUME CInv, Tidy(tenant), Remains, CacheTrue, classify_restore
  PROVE  Restores(snap, push'.plan) /\ Restored(snap, tenant, {}, push'.plan, 1)
<1> DEFINE D == {c \in Current : ~Holds(snap, c)}
           C == {c \in snap : ~Holds(Current, c)}
           U == {p \in snap \X Current :
                   p[1].type = p[2].type /\ p[1].id = p[2].id /\ p[1].raw # p[2].raw}
           ds == {Removing(c) : c \in D}
           cs == {Recreating(c) : c \in C}
           us == {Modified(p[1], p[2]) : p \in U}
<1>1. snap # None
      /\ push'.plan = InOrder(Reverse(Order), ds) \o InOrder(Order, cs) \o InOrder(Order, us)
  BY BeginIs DEF classify_restore
<1>2. PICK plan : plan = push'.plan
  OBVIOUS
<1>3. /\ \A n \in DOMAIN plan : plan[n] \in ds \cup cs \cup us
      /\ \A e \in ds \cup cs \cup us : e.type \in Range(Order) =>
           \E n \in 1..Len(plan) : plan[n] = e
  <2>1. IsFiniteSet(ds) /\ IsFiniteSet(cs) /\ IsFiniteSet(us)
    <3>1. Table(row) /\ IsFiniteSet(snap)
      BY <1>1 DEF CInv, Typed
    <3>2. D \in SUBSET Current /\ C \in SUBSET snap /\ U \in SUBSET (snap \X Current)
      OBVIOUS
    <3> HIDE DEF D, C, U
    <3> QED
      BY <3>1, <3>2, PartsFinite
  <2>2. plan = InOrder(Reverse(Order), ds) \o InOrder(Order, cs) \o InOrder(Order, us)
    BY <1>1, <1>2
  <2> HIDE DEF ds, cs, us
  <2>3. PICK X, Y, Z : X = ds /\ Y = cs /\ Z = us
    OBVIOUS
  <2>4. IsFiniteSet(X) /\ IsFiniteSet(Y) /\ IsFiniteSet(Z)
        /\ plan = InOrder(Reverse(Order), X) \o InOrder(Order, Y) \o InOrder(Order, Z)
    BY <2>1, <2>2, <2>3
  <2>5. Parted(plan, X, Y, Z)
    BY <2>4, PartsAre
  <2> QED
    BY <2>3, <2>5 DEF Parted
<1>4. 1..Len(plan) = DOMAIN plan /\ plan \in Seq(PlanEntry)
  <2>1. plan \in Seq(PlanEntry)
    BY <1>2, RestoreKeeps DEF CInv, PushTyped, Book
  <2> QED
    BY <2>1
<1> HIDE DEF ds, cs, us
<1>5. ASSUME NEW n \in DOMAIN plan
      PROVE  \/ \E c \in D : plan[n] = Removing(c)
             \/ \E c \in C : plan[n] = Recreating(c)
             \/ \E p \in U : plan[n] = Modified(p[1], p[2])
  <2>1. plan[n] \in ds \/ plan[n] \in cs \/ plan[n] \in us
    BY <1>3
  <2> HIDE DEF D, C, U
  <2> QED
    BY <2>1, Zenon DEF ds, cs, us
<1>6. \A c : /\ Removing(c).action = "delete" /\ Recreating(c).action = "create"
             /\ \A d : Modified(c, d).action = "update"
  BY RestoreEntries
<1>7. ASSUME NEW n \in DOMAIN plan
      PROVE  /\ plan[n].action = "delete" => \E c \in D : plan[n] = Removing(c)
             /\ plan[n].action = "create" => \E c \in C : plan[n] = Recreating(c)
             /\ plan[n].action = "update" => \E p \in U : plan[n] = Modified(p[1], p[2])
  <2> HIDE DEF D, C, U
  <2>1. CASE \E c \in D : plan[n] = Removing(c)
    BY <1>6, <2>1
  <2>2. CASE \E c \in C : plan[n] = Recreating(c)
    BY <1>6, <2>2
  <2>3. CASE \E p \in U : plan[n] = Modified(p[1], p[2])
    <3>1. plan[n].action = "update"
      BY <1>6, <2>3
    <3> QED
      BY <2>3, <3>1
  <2> QED
    BY <1>5, <2>1, <2>2, <2>3
<1>8. \A d \in Current : /\ d.id \in Id /\ tenant[d.id] # None
                           /\ d = [type |-> tenant[d.id].type, id |-> d.id, raw |-> tenant[d.id].raw]
  <2> TAKE d \in Current
  <2>1. PICK i \in Objects : d = [type |-> tenant[i].type, id |-> i, raw |-> tenant[i].raw]
    BY DEF CacheTrue
  <2>2. i \in Id /\ tenant[i] # None /\ i = d.id
    BY <2>1 DEF Objects, Exists
  <2> QED
    BY <2>1, <2>2
<1>9. \A i \in Id : tenant[i] # None =>
        /\ [type |-> tenant[i].type, id |-> i, raw |-> tenant[i].raw] \in Current
        /\ tenant[i].type \in Type /\ made[i] # None
        /\ made[i] = [type |-> tenant[i].type, name |-> tenant[i].raw.name]
  <2> TAKE i \in Id
  <2> HAVE tenant[i] # None
  <2>1. [type |-> tenant[i].type, id |-> i, raw |-> tenant[i].raw] \in Current
    BY DEF CacheTrue, Objects, Exists
  <2>2. tenant[i] \in Object /\ made[i] = [type |-> tenant[i].type, name |-> tenant[i].raw.name]
    BY DEF CInv, Typed, Assigned
  <2>3. tenant[i].type \in Type /\ tenant[i].raw.name \in Name
    BY <2>2 DEF Object, Raw
  <2> QED
    BY <2>1, <2>2, <2>3, NoneAssumption
<1>10. \A c \in snap : /\ c.id \in Id /\ made[c.id] # None
                       /\ made[c.id] = [type |-> c.type, name |-> c.raw.name]
                       /\ c.type \in Type /\ c.raw \in Raw
  BY <1>1, SnapIs
<1>11. \A t \in Type : t \notin Foreign => t \in Range(Order)
  BY DEF Type
<1>12. Restores(snap, plan)
  <2>1. ASSUME NEW n \in DOMAIN plan, plan[n].action = "create"
        PROVE  /\ plan[n].source \in Id /\ made[plan[n].source] # None
               /\ made[plan[n].source] = [type |-> plan[n].type, name |-> plan[n].desired.name]
               /\ \E c \in snap : c.type = plan[n].type /\ c.raw = plan[n].desired
    <3>1. PICK c \in snap : plan[n] = Recreating(c)
      BY <1>7, <2>1 DEF C
    <3>2. plan[n].type = c.type /\ plan[n].source = c.id /\ plan[n].desired = c.raw
      BY <3>1, RestoreEntries
    <3> QED
      BY <1>10, <3>2
  <2>2. ASSUME NEW n \in DOMAIN plan, plan[n].action = "delete"
        PROVE  plan[n].target \in Id /\ made[plan[n].target] # None
    <3>1. PICK d \in Current : plan[n] = Removing(d)
      BY <1>7, <2>2 DEF D
    <3>2. plan[n].target = d.id
      BY <3>1, RestoreEntries
    <3> QED
      BY <1>8, <1>9, <3>2
  <2> QED
    BY <2>1, <2>2 DEF Restores
<1>13. ASSUME NEW c \in snap, NEW i \in Id, tenant[i] # None, c.id = i, c.type = tenant[i].type,
              c.type \notin Foreign
       PROVE  Settled(tenant, plan, 1, i, c)
  <2> DEFINE now == [type |-> tenant[i].type, id |-> i, raw |-> tenant[i].raw]
  <2>1. Ahead(plan, 1, "delete", i) = {}
    <3> SUFFICES ASSUME NEW n \in DOMAIN plan, plan[n].action = "delete", plan[n].target = i
                 PROVE  FALSE
      BY <1>4 DEF Ahead
    <3>1. PICK d \in Current : plan[n] = Removing(d) /\ ~Holds(snap, d)
      BY <1>7 DEF D
    <3>2. d.id = i
      BY <3>1, RestoreEntries
    <3>3. d.type = c.type /\ d.id = c.id
      BY <1>8, <1>13, <3>2
    <3> QED
      BY <3>1, <3>3 DEF Holds
  <2>2. ASSUME NEW n \in Ahead(plan, 1, "update", i)
        PROVE  plan[n].desired = c.raw
    <3>1. n \in DOMAIN plan /\ plan[n].action = "update" /\ plan[n].target = i
      BY <1>4 DEF Ahead
    <3>2. PICK p \in U : plan[n] = Modified(p[1], p[2])
      BY <1>7, <3>1
    <3>3. PICK d \in snap : d = p[1]
      BY DEF U
    <3>4. d.id = i /\ plan[n].desired = d.raw
      <4>1. Modified(p[1], p[2]).target = p[1].id /\ Modified(p[1], p[2]).desired = p[1].raw
        BY RestoreEntries, Zenon
      <4> QED
        BY <3>1, <3>2, <3>3, <4>1
    <3>5. d.type = c.type
      <4>1. made[i] = [type |-> d.type, name |-> d.raw.name]
        BY <1>10, <3>4
      <4>2. made[i] = [type |-> c.type, name |-> c.raw.name]
        BY <1>10, <1>13
      <4>3. made[i].type = d.type
        BY <4>1
      <4> QED
        BY <4>2, <4>3
    <3>6. d = c
      BY <1>1, <1>13, <3>4, <3>5 DEF Remains
    <3> QED
      BY <3>4, <3>6
  <2>3. CASE c.raw = tenant[i].raw
    <3>1. \A j \in tenant[i].raw.refs : j \in Id /\ made[j] # None
      BY <1>9, <1>13 DEF Tidy
    <3>2. Mirrors(tenant[i].raw, c.raw)
      BY <2>3, <3>1 DEF Mirrors
    <3> QED
      BY <1>13, <2>1, <2>2, <3>2 DEF Settled
  <2>4. CASE c.raw # tenant[i].raw
    <3>1. now \in Current /\ now.type = c.type /\ now.id = c.id /\ now.raw # c.raw
      BY <1>9, <1>13, <2>4
    <3> HIDE DEF now
    <3>2. PICK p \in U : p = <<c, now>>
      <4>1. <<c, now>> \in snap \X Current
        BY <3>1
      <4> QED
        BY <3>1, <4>1 DEF U
    <3>3. Modified(c, now) \in us /\ Modified(c, now).type = c.type
      <4>1. p[1] = c /\ p[2] = now
        BY <3>2
      <4> QED
        BY <4>1, RestoreEntries DEF us
    <3>4. c.type \in Range(Order)
      BY <1>10, <1>11, <1>13
    <3>5. PICK n \in 1..Len(plan) : plan[n] = Modified(c, now)
      BY <1>3, <3>3, <3>4
    <3>6. n \in Ahead(plan, 1, "update", i)
      <4>1. Modified(c, now).action = "update" /\ Modified(c, now).target = c.id
        BY RestoreEntries, Zenon
      <4>2. plan[n].action = "update" /\ plan[n].target = i
        BY <1>13, <3>5, <4>1
      <4> QED
        BY <4>2 DEF Ahead
    <3> QED
      BY <1>13, <2>1, <2>2, <3>6 DEF Settled
  <2> QED
    BY <2>3, <2>4
<1>14. ASSUME NEW i \in Id, tenant[i] # None, tenant[i].type \notin Foreign
       PROVE  Ahead(plan, 1, "delete", i) # {} \/ \E c \in snap : Settled(tenant, plan, 1, i, c)
  <2> DEFINE now == [type |-> tenant[i].type, id |-> i, raw |-> tenant[i].raw]
  <2>1. now \in Current /\ now.type = tenant[i].type /\ now.id = i /\ now.type \in Range(Order)
    BY <1>9, <1>11, <1>14
  <2> HIDE DEF now
  <2>2. CASE Holds(snap, now)
    <3>1. PICK c \in snap : c.type = now.type /\ c.id = now.id
      BY <2>2 DEF Holds
    <3> QED
      BY <1>13, <1>14, <2>1, <3>1
  <2>3. CASE ~Holds(snap, now)
    <3>1. Removing(now) \in ds /\ Removing(now).type = now.type
      BY <2>1, <2>3, RestoreEntries DEF ds, D
    <3>2. PICK n \in 1..Len(plan) : plan[n] = Removing(now)
      BY <1>3, <2>1, <3>1
    <3>3. n \in Ahead(plan, 1, "delete", i)
      BY <2>1, <3>2, RestoreEntries DEF Ahead
    <3> QED
      BY <3>3
  <2> QED
    BY <2>2, <2>3
<1>15. ASSUME NEW c \in snap, c.type \notin Foreign
       PROVE  Recreated(plan, 1, c) \/ \E i \in Id : Settled(tenant, plan, 1, i, c)
  <2>1. CASE Holds(Current, c)
    <3>1. PICK d \in Current : d.type = c.type /\ d.id = c.id
      BY <2>1 DEF Holds
    <3>2. d.id \in Id /\ tenant[d.id] # None /\ tenant[d.id].type = c.type
      BY <1>8, <3>1
    <3> QED
      BY <1>13, <1>15, <3>1, <3>2
  <2>2. CASE ~Holds(Current, c)
    <3>1. Recreating(c) \in cs /\ Recreating(c).type = c.type
      BY <2>2, RestoreEntries DEF cs, C
    <3>2. c.type \in Range(Order)
      BY <1>10, <1>11, <1>15
    <3>3. PICK n \in 1..Len(plan) : plan[n] = Recreating(c)
      BY <1>3, <3>1, <3>2
    <3> QED
      BY <3>3, RestoreEntries DEF Recreated
  <2> QED
    BY <2>1, <2>2
<1>16. Restored(snap, tenant, {}, plan, 1)
  BY <1>14, <1>15 DEF Restored
<1> QED
  BY <1>2, <1>12, <1>16

\* What made the ids stays, whatever is done.
LEMMA IdsStay ==
  ASSUME CInv, [Next]_vars
  PROVE  Grows
<1>1. CASE made' = made
  BY <1>1, GrowsIfSame
<1>2. CASE Execute
  <2>1. PICK e, id, raw, outcome :
          /\ e.action = "create" => Unused # {} /\ id = FreshId
          /\ Call(e.action, e.type, id, raw, outcome)
    BY <1>2 DEF Execute
  <2>2. made' = made \/ (e.action = "create"
          /\ made' = [made EXCEPT ![id] = [type |-> e.type, name |-> raw.name]])
    BY <2>1 DEF Call, Written
  <2>3. e.action = "create" => made[id] = None
    BY <2>1, FreshIdIsNew
  <2>4. made \in [Id -> [type : Type, name : Name] \cup {None}]
    BY DEF CInv, Typed
  <2> QED
    BY <2>2, <2>3, <2>4 DEF Grows
<1>3. CASE RollbackStep
  <2>1. ASSUME NEW u \in Undo(push.k), NEW outcome,
               Call(u[1], push.plan[push.k].type, u[2], u[3], outcome)
        PROVE  made' = made
    <3>1. u[1] # "create"
      BY <2>1 DEF Undo
    <3> QED
      BY <2>1, <3>1 DEF Call, Written
  <2>2. made' = made
    BY <1>3, <2>1, RollbackIs
  <2> QED
    BY <2>2, GrowsIfSame
<1> QED
  BY <1>1, <1>2, <1>3
  DEF Next, vars, ingest, Reviewed, set_status, discard, create_snapshot, ImportRead, ImportWrite,
      classify_merge, classify_restore, Begin, Skip, PushDone, RollbackDone, promote, Close,
      EditTenant

\* A live row stays one.
LEMMA LivesStay ==
  ASSUME CInv, [Next]_vars, NEW t \in Type, NEW k \in Key, Lives(row, t, k)
  PROVE  Lives(row', t, k)
<1>1. CASE row' = row
  BY <1>1
<1>2. row[t][k] # None /\ row[t][k].live /\ k \notin CandidateKeys(t)
  BY DEF Lives, CandidateKeys
<1>3. ASSUME NEW o \in Offers, NEW replace \in BOOLEAN, ingest(o, replace)
      PROVE  row'[t][k] = row[t][k]
  BY <1>2, <1>3 DEF ingest
<1>4. ASSUME Reviewed
      PROVE  row'[t][k] = row[t][k]
  <2>1. PICK chosen :
          discard(chosen) \/ \E s \in {"pending", "accepted", "rejected"} : set_status(chosen, s)
    BY <1>4 DEF Reviewed
  <2> QED
    BY <1>2, <2>1 DEF discard, set_status
<1>5. CASE promote
  <2>1. PICK new \in PromotedAll(promotions_from) : new = row'
    BY <1>5 DEF promote
  <2>2. Promotes(new)
    BY PromotedMany DEF CInv, Typed
  <2> QED
    BY <2>1, <2>2 DEF Promotes
<1>6. CASE ImportWrite
  <2> DEFINE r == row[t][k]
             start == count["imports"] + 1
             v == import.view[k]
  <2>1. row'[t][k] = Imported(t, k)
    BY <1>6 DEF ImportWrite
  <2>2. \/ Imported(t, k) = [r EXCEPT !.synced = start, !.deleted = FALSE, !.raw = v.raw]
        \/ Imported(t, k) = [r EXCEPT !.deleted = TRUE]
        \/ Imported(t, k) = r
    BY <1>2 DEF Imported
  <2>3. r \in Row
    BY <1>2 DEF CInv, Typed, Table
  <2>4. /\ v.raw \in Raw /\ start \in Nat
        \/ Imported(t, k) = [r EXCEPT !.deleted = TRUE] \/ Imported(t, k) = r
    <3>1. CASE t \in import.got /\ k \in Id /\ import.view[k] # None /\ import.view[k].type = t
      <4>1. import.view \in [Id -> Object \cup {None}] /\ start \in Nat
        BY <1>6 DEF ImportWrite, CInv, Typed
      <4>2. v \in Object
        BY <3>1, <4>1
      <4> QED
        BY <4>1, <4>2 DEF Object
    <3>2. CASE ~(t \in import.got /\ k \in Id /\ import.view[k] # None /\ import.view[k].type = t)
      BY <1>2, <3>2 DEF Imported
    <3> QED
      BY <3>1, <3>2
  <2> HIDE DEF r, start, v
  <2>5. ASSUME v.raw \in Raw, start \in Nat
        PROVE  LET w == [r EXCEPT !.synced = start, !.deleted = FALSE, !.raw = v.raw]
               IN  w \in Row /\ w.live = r.live
    BY <2>3, <2>5 DEF Row
  <2>6. LET w == [r EXCEPT !.deleted = TRUE] IN w \in Row /\ w.live = r.live
    BY <2>3 DEF Row
  <2>7. Imported(t, k) \in Row /\ Imported(t, k).live = r.live
    BY <2>2, <2>3, <2>4, <2>5, <2>6
  <2>8. Imported(t, k) # None
    BY <2>7, NoneAssumption
  <2> QED
    BY <1>2, <2>1, <2>7, <2>8 DEF r, Lives
<1> QED
  BY <1>1, <1>2, <1>3, <1>4, <1>5, <1>6
  DEF Next, vars, create_snapshot, ImportRead, Lives,
      classify_merge, classify_restore, Begin, Skip, Execute, PushDone, RollbackStep, RollbackDone,
      Close, EditTenant

\* So do those of a snapshot.
LEMMA RemainsKept ==
  ASSUME CInv, Remains, [Next]_vars
  PROVE  Remains'
<1>1. CASE snap' = snap
  <2> SUFFICES ASSUME snap # None
               PROVE  /\ \A c, d \in snap : c.type = d.type /\ c.id = d.id => c = d
                      /\ \A c \in snap : made'[c.id].type # c.type => Lives(row', c.type, c.id)
    BY <1>1 DEF Remains, Lives
  <2>1. \A c \in snap : c.type \in Type /\ c.id \in Id /\ made[c.id] # None
    BY DEF CInv, Typed, Filed, Real
  <2>2. \A c \in snap : made'[c.id] = made[c.id]
    BY <2>1, IdsStay DEF Grows
  <2>3. \A c \in snap : made[c.id].type # c.type => Lives(row', c.type, c.id)
    BY <2>1, LivesStay, KeysApart DEF Remains
  <2> QED
    BY <2>2, <2>3 DEF Remains
<1>2. CASE create_snapshot
  <2>1. snap' = Current /\ made' = made /\ row' = row
    BY <1>2 DEF create_snapshot
  <2>2. /\ Current \subseteq Filed
        /\ \A c \in Current : row[c.type][c.id] # None /\ row[c.type][c.id].live
                              /\ row[c.type][c.id].raw = c.raw
    BY CurrentIs DEF CInv, Typed
  <2>3. \A c, d \in Current : c.type = d.type /\ c.id = d.id => c = d
    BY <2>2 DEF Filed
  <2>4. \A c \in Current : Lives(row, c.type, c.id)
    BY <2>2 DEF Lives
  <2> QED
    BY <2>1, <2>3, <2>4 DEF Remains, Lives
<1> QED
  BY <1>1, <1>2
  DEF Next, vars, ingest, Reviewed, set_status, discard, ImportRead, ImportWrite,
      classify_merge, classify_restore, Begin, Skip, Execute, PushDone, RollbackStep, RollbackDone,
      promote, Close, EditTenant

\* A call of a restore that is answered brings the tenant nearer to what was.
LEMMA ExecuteRestores ==
  ASSUME CInv, Tidy(tenant), AllRestored, Execute
  PROVE  AllRestored'
<1>1. /\ push.pc = "push" /\ push.k <= Len(push.plan) /\ Next_entry.supported
      /\ UNCHANGED <<row, snap, import>>
  BY DEF Execute
<1>2. /\ push.k = Len(push.records) + 1 /\ push.plan \in Seq(PlanEntry)
      /\ push.records \in Seq(PushRecord) /\ push.id_map \in SUBSET (Key \X Key)
      /\ push.k \in Nat /\ \A n \in DOMAIN push.plan : Aims(push.plan[n])
  BY <1>1 DEF CInv, Pushes, PushTyped, Book
<1>3. PICK plan \in Seq(PlanEntry), map \in SUBSET (Key \X Key), k \in Nat,
           records \in Seq(PushRecord) :
        plan = push.plan /\ map = push.id_map /\ k = push.k /\ records = push.records
  BY <1>2, Zenon
<1>4. k \in DOMAIN plan /\ k = Len(records) + 1
  BY <1>1, <1>2, <1>3
<1>5. PICK e \in PlanEntry : e = Next_entry /\ e = plan[k] /\ Aims(e)
  BY <1>2, <1>3, <1>4 DEF Next_entry
<1> DEFINE fresh == IF e.action = "create" THEN FreshId ELSE e.target
           cleaned == IF e.action = "delete" THEN None ELSE Remapped(e.desired, map)
<1>6. PICK outcome \in {"applied", "failed"} :
        /\ e.action = "create" => Unused # {}
        /\ Call(e.action, e.type, fresh, cleaned, outcome)
        /\ push' = [push EXCEPT
             !.records = Recorded(e, outcome,
               IF outcome = "failed" /\ e.action = "create" THEN None ELSE fresh),
             !.id_map = IF outcome = "applied" /\ e.action = "create"
                        THEN Registered(@, e, fresh) ELSE @,
             !.k = @ + 1, !.quiet = @ /\ Faultless]
  BY <1>3, <1>5 DEF Execute
<1>7. PICK id, raw : id = fresh /\ raw = cleaned
  OBVIOUS
<1>8. PICK r : r.status = outcome /\ push'.records = Append(records, r)
  <2>1. push'.records = Recorded(e, outcome,
          IF outcome = "failed" /\ e.action = "create" THEN None ELSE fresh)
    BY <1>6 DEF CInv, PushTyped, Book
  <2> QED
    BY <1>3, <2>1 DEF Recorded
<1>9. /\ push'.plan = plan /\ push'.pc = "push" /\ push'.mode = push.mode
      /\ push'.sure = push.sure /\ push'.against = push.against
      /\ push'.quiet = (push.quiet /\ Faultless)
      /\ push'.id_map = IF outcome = "applied" /\ e.action = "create"
                        THEN Registered(map, e, id) ELSE map
  BY <1>1, <1>3, <1>6, <1>7 DEF CInv, PushTyped, Book
<1>10. /\ e.action \in {"create", "update", "delete"} /\ e.type \in Type
       /\ e.action = "create" => id \in Id /\ made[id] = None
       /\ e.action # "create" => id = e.target
       /\ Call(e.action, e.type, id, raw, outcome)
  BY <1>6, <1>7, FreshIdIsNew DEF PlanEntry
<1>11. e.action # "delete" => raw = Remapped(e.desired, map)
  BY <1>7
<1> HIDE DEF fresh, cleaned
<1> SUFFICES ASSUME Restoring'
             PROVE  AllRestored'
  BY DEF AllRestored
<1>12. /\ Len(push'.records) = k /\ outcome = "applied"
       /\ \A n \in DOMAIN records : records[n].status = "applied"
  <2>1. PICK rs : rs = push'.records
    OBVIOUS
  <2>2. rs = Append(records, r) /\ \A n \in DOMAIN rs : rs[n].status = "applied"
    BY <1>8, <2>1 DEF Restoring
  <2> QED
    BY <1>4, <1>8, <2>1, <2>2
<1>13. Restoring
  BY <1>1, <1>3, <1>9, <1>12 DEF Restoring
<1>14. PICK was, new, after : /\ was = push.against /\ was = push'.against
                              /\ new = tenant' /\ after = push'.id_map
  BY <1>9
<1>15. Restores(was, plan) /\ Restored(was, tenant, map, plan, k)
  BY <1>3, <1>4, <1>13, <1>14 DEF AllRestored
<1>16. Grows
  BY <1>1, IdsStay, Zenon DEF Next
<1>17. Accepts(e.action, e.type, id, raw) /\ Written(e.action, e.type, id, raw)
  BY <1>10, <1>12 DEF Call
<1>18. Restores(was, plan)'
  BY <1>15, <1>16 DEF Restores, Grows
<1>19. PICK conf \in [Id -> Object \cup {None}] : conf = tenant
  BY DEF CInv, Typed
<1>20. ASSUME e.action # "delete"
       PROVE  raw \in Raw /\ Mirrors(raw, e.desired)
  <2>1. e.desired \in Raw
    BY <1>5, <1>20 DEF Aims
  <2>2. raw \in Raw /\ raw = Remapped(e.desired, map) /\ raw.refs \subseteq Objects
    BY <1>11, <1>17, <1>20, <2>1, RemappedIs DEF Accepts
  <2>3. Typed /\ Assigned(tenant)
        /\ \A m \in map : m[1] \in Id /\ m[2] \in Id /\ made[m[1]] # None /\ made[m[2]] = made[m[1]]
    BY <1>15 DEF CInv, Restored
  <2> QED
    BY <2>1, <2>2, <2>3, MirrorsSent
<1>21. Restored(was, new, after, plan, k + 1)'
  <2>1. CASE e.action = "delete"
    <3>1. plan[k].target = id /\ id \in Id /\ plan[k].action = "delete"
      BY <1>4, <1>5, <1>10, <1>15, <2>1 DEF Restores
    <3>2. Restored(was, [conf EXCEPT ![plan[k].target] = None], map, plan, k + 1)'
      BY <1>4, <1>15, <1>16, <1>19, <3>1, DeleteRestores
    <3>3. new = [conf EXCEPT ![plan[k].target] = None] /\ after = map
      BY <1>9, <1>14, <1>17, <1>19, <2>1, <3>1 DEF Written
    <3> QED
      BY <3>2, <3>3
  <2>2. CASE e.action = "create"
    <3>1. id \in Id /\ made[id] = None /\ conf[id] = None /\ plan[k].action = "create"
      BY <1>5, <1>10, <1>19, <2>2, NewIsNone
    <3>2. /\ new = [conf EXCEPT ![id] = [type |-> plan[k].type, raw |-> raw]]
          /\ after = Registered(map, plan[k], id)
          /\ made' = [made EXCEPT ![id] = [type |-> plan[k].type, name |-> raw.name]]
      BY <1>5, <1>9, <1>12, <1>14, <1>17, <1>19, <2>2 DEF Written
    <3>3. made'[id] = [type |-> plan[k].type, name |-> plan[k].desired.name]
      BY <1>5, <1>20, <2>2, <3>1, <3>2 DEF CInv, Typed, Mirrors
    <3>4. raw \in Raw /\ Mirrors(raw, plan[k].desired) /\ \A n \in DOMAIN plan : Aims(plan[n])
      BY <1>2, <1>3, <1>5, <1>20, <2>2
    <3>5. Restored(was, [conf EXCEPT ![id] = [type |-> plan[k].type, raw |-> raw]],
                  Registered(map, plan[k], id), plan, k + 1)'
      BY <1>4, <1>15, <1>16, <1>19, <3>1, <3>3, <3>4, CreateRestores
    <3> QED
      BY <3>2, <3>5
  <2>3. CASE e.action = "update"
    <3>1. plan[k].target = id /\ id \in Id /\ conf[id] # None /\ conf[id].type = plan[k].type
          /\ plan[k].action = "update"
      BY <1>5, <1>10, <1>17, <1>19, <2>3 DEF Accepts, Objects, Exists
    <3>2. raw \in Raw /\ Mirrors(raw, plan[k].desired)
      BY <1>5, <1>20, <2>3
    <3>3. Restored(was, [conf EXCEPT ![plan[k].target] = [type |-> plan[k].type, raw |-> raw]],
                  map, plan, k + 1)'
      BY <1>4, <1>15, <1>16, <1>19, <3>1, <3>2, UpdateRestores
    <3>4. new = [conf EXCEPT ![plan[k].target] = [type |-> plan[k].type, raw |-> raw]]
          /\ after = map
      BY <1>5, <1>9, <1>14, <1>17, <1>19, <2>3, <3>1 DEF Written
    <3> QED
      BY <3>3, <3>4
  <2> QED
    BY <1>10, <2>1, <2>2, <2>3
<1>22. Restores(push.against, push.plan)'
  BY <1>9, <1>14, <1>18
<1>23. Restored(push.against, tenant, push.id_map, push.plan, Len(push.records) + 1)'
  BY <1>9, <1>12, <1>14, <1>21
<1> QED
  BY <1>9, <1>22, <1>23 DEF AllRestored

\* What is to be restored is so whatever else happens.
LEMMA SameRestored ==
  ASSUME Grows, NEW was, NEW conf, NEW map, NEW plan, NEW k,
         Restores(was, plan), Restored(was, conf, map, plan, k)
  PROVE  Restores(was, plan)' /\ Restored(was, conf, map, plan, k)'
<1>1. Restores(was, plan)'
  BY DEF Restores, Grows
<1>2. \A m \in map : m[1] \in Id /\ m[2] \in Id /\ made'[m[1]] # None /\ made'[m[2]] = made'[m[1]]
  BY DEF Restored, Grows
<1>3. ASSUME NEW i, NEW c, Settled(conf, plan, k, i, c)
      PROVE  Settled(conf, plan, k, i, c)'
  BY <1>3, MirrorsStays DEF Settled, Ahead
<1>4. Restored(was, conf, map, plan, k)'
  BY <1>2, <1>3 DEF Restored, Ahead, Recreated
<1> QED
  BY <1>1, <1>4

\* A restore begins so.
LEMMA RestoreStarts ==
  ASSUME CInv, Tidy(tenant), Remains, classify_restore
  PROVE  AllRestored'
<1>1. /\ push'.mode = "restore" /\ push'.pc = "push" /\ push'.records = <<>>
      /\ push'.id_map = {} /\ push'.against = snap /\ push'.sure = CacheTrue
      /\ UNCHANGED <<tenant, made>>
  BY BeginIs DEF classify_restore
<1> SUFFICES ASSUME CacheTrue
             PROVE  AllRestored'
  BY <1>1 DEF AllRestored, Restoring
<1>2. PICK plan, was, conf :
        plan = push'.plan /\ was = snap /\ was = push'.against /\ conf = tenant /\ conf = tenant'
  BY <1>1
<1>3. Restores(was, plan) /\ Restored(was, conf, {}, plan, 1)
  BY <1>2, RestoreBegins
<1>4. Restores(was, plan)' /\ Restored(was, conf, {}, plan, 1)'
  BY <1>1, <1>3, GrowsIfSame, SameRestored
<1>5. Restores(push.against, push.plan)'
  BY <1>2, <1>4
<1>6. Len(push'.records) + 1 = 1
  BY <1>1
<1>7. Restored(push.against, tenant, push.id_map, push.plan, Len(push.records) + 1)'
  BY <1>1, <1>2, <1>4, <1>6
<1> QED
  BY <1>1, <1>5, <1>7 DEF AllRestored

\* The other steps leave the plan and the tenant to a restore, or end it.
LEMMA OthersRestore ==
  ASSUME CInv, AllRestored, [Next]_vars, ~Execute, ~classify_restore
  PROVE  AllRestored'
<1>1. ASSUME UNCHANGED <<tenant, made>>, Restoring' => Restoring,
             push'.plan = push.plan, push'.against = push.against,
             push'.id_map = push.id_map, push'.records = push.records,
             push'.pc = "done" /\ push'.all => Len(push.records) = Len(push.plan)
      PROVE  AllRestored'
  <2> SUFFICES ASSUME Restoring'
               PROVE  AllRestored'
    BY DEF AllRestored
  <2>1. PICK was, conf, map, plan, k :
          /\ was = push.against /\ conf = tenant /\ map = push.id_map /\ plan = push.plan
          /\ k = Len(push.records) + 1
    OBVIOUS
  <2>2. Restores(was, plan) /\ Restored(was, conf, map, plan, k)
    BY <1>1, <2>1 DEF AllRestored
  <2>3. Restores(was, plan)' /\ Restored(was, conf, map, plan, k)'
    BY <1>1, <2>2, GrowsIfSame, SameRestored
  <2>4. Restores(push.against, push.plan)'
    BY <1>1, <2>1, <2>3
  <2>5. Restored(push.against, tenant, push.id_map, push.plan, Len(push.records) + 1)'
    BY <1>1, <2>1, <2>3
  <2> QED
    BY <1>1, <2>4, <2>5 DEF AllRestored
<1>2. CASE UNCHANGED <<push, tenant, made>>
  <2>1. Restoring' => Restoring
    BY <1>2 DEF Restoring
  <2>2. ~Restoring => AllRestored'
    BY <2>1 DEF AllRestored
  <2>3. Restoring => (push'.pc = "done" /\ push'.all => Len(push.records) = Len(push.plan))
    BY <1>2 DEF AllRestored
  <2> QED
    BY <1>1, <1>2, <2>1, <2>2, <2>3
<1>3. CASE Skip
  <2> SUFFICES ASSUME Restoring'
               PROVE  FALSE
    BY DEF AllRestored
  <2>1. push'.records = Recorded(Next_entry, "manual", None)
    BY <1>3 DEF Skip, CInv, PushTyped, Book
  <2>2. PICK r : r.status = "manual" /\ push'.records = Append(push.records, r)
    BY <2>1 DEF Recorded
  <2>3. PICK rs \in Seq(PushRecord) : rs = push.records
    BY DEF CInv, PushTyped, Book
  <2>4. Len(rs) + 1 \in DOMAIN push'.records /\ push'.records[Len(rs) + 1] = r
    BY <2>2, <2>3
  <2> QED
    BY <2>2, <2>4 DEF Restoring
<1>4. CASE PushDone
  <2>1. PICK all : all = (push.k > Len(push.plan))
    OBVIOUS
  <2>2. PICK pc \in {"done", "undo"} :
          push' = [push EXCEPT !.pc = pc, !.k = Len(push.records), !.all = all]
    BY <1>4, <2>1 DEF PushDone
  <2>3. /\ push'.pc = pc /\ push'.records = push.records /\ push'.mode = push.mode
        /\ push'.sure = push.sure /\ push'.quiet = push.quiet /\ push'.plan = push.plan
        /\ push'.against = push.against /\ push'.id_map = push.id_map
        /\ push'.all = all
    BY <2>2 DEF CInv, PushTyped, Book
  <2>4. push.pc = "push" /\ UNCHANGED <<tenant, made>>
    BY <1>4 DEF PushDone
  <2>5. push'.all => Len(push.records) = Len(push.plan)
    <3>1. push.k = Len(push.records) + 1 /\ Len(push.records) <= Len(push.plan)
          /\ Len(push.records) \in Nat /\ Len(push.plan) \in Nat
      BY <2>4 DEF CInv, Pushes, PushTyped, Book
    <3>2. all => push.k > Len(push.plan)
      BY <2>1
    <3> QED
      BY <2>3, <3>1, <3>2
  <2>6. Restoring' => Restoring
    BY <2>3, <2>4 DEF Restoring
  <2> QED
    BY <1>1, <2>3, <2>4, <2>5, <2>6
<1>5. CASE push'.mode = "merge"
  BY <1>5 DEF AllRestored, Restoring
<1>6. ASSUME NEW selection, classify_merge(selection)
      PROVE  push'.mode = "merge"
  BY <1>6, BeginIs DEF classify_merge
<1>7. CASE Close
  BY <1>7 DEF AllRestored, Restoring, Close, NoPush
<1>8. CASE promote
  <2>1. push.mode = "merge" /\ push'.mode = push.mode
    BY <1>8 DEF promote, CInv, PushTyped, Book
  <2> QED
    BY <1>5, <2>1
<1>9. CASE RollbackStep \/ RollbackDone
  <2>1. push'.pc \in {"undo", "undone"}
    BY <1>9 DEF RollbackStep, RollbackDone, CInv, PushTyped, Book
  <2> QED
    BY <2>1 DEF AllRestored, Restoring
<1>10. ASSUME NEW i \in Id, EditTenant(i)
       PROVE  AllRestored'
  <2>1. push'.quiet = FALSE
    BY <1>10 DEF EditTenant, CInv, PushTyped, Book
  <2> QED
    BY <2>1 DEF AllRestored, Restoring
<1> QED
  BY <1>2, <1>3, <1>4, <1>5, <1>6, <1>7, <1>8, <1>9, <1>10
  DEF Next, vars, ingest, Reviewed, set_status, discard, create_snapshot, ImportRead, ImportWrite

---------------------------------------------------------------------------
(* The theorems.                                                           *)

\* The invariant that the others follow from.
THEOREM Inductive == Spec => []IInv
<1>1. Init => IInv
  <2> SUFFICES ASSUME Init
               PROVE  IInv
    OBVIOUS
  <2>1. push.pc = "idle"
    BY DEF Init, NoPush
  <2> QED
    BY <2>1, InitHolds
    DEF IInv, Undoable, Calm, AllLand, Landing, Remains, AllRestored, Restoring, Init
<1>2. IInv /\ [Next]_vars => IInv'
  <2> SUFFICES ASSUME IInv, [Next]_vars
               PROVE  IInv'
    OBVIOUS
  <2>1. CInv /\ Tidy(tenant) /\ Undoable /\ AllLand /\ Remains /\ AllRestored
    BY DEF IInv
  <2>2. CInv' /\ Tidy(tenant)'
    BY <2>1, BooksKept
  <2>3. Undoable'
    <3>1. ASSUME NEW selection \in SUBSET {p \in Type \X Key : Accepted(p[1], p[2])},
                 classify_merge(selection)
          PROVE  Undoable'
      <4>1. selection \in SUBSET (Type \X Key)
        OBVIOUS
      <4> QED
        BY <2>1, <3>1, <4>1, MergeTraced
    <3> QED
      BY <2>1, <3>1, SkipTraced, ExecuteTraced, RollbackTraced, OthersTraced
  <2>4. AllLand'
    <3>1. ASSUME NEW selection \in SUBSET {p \in Type \X Key : Accepted(p[1], p[2])},
                 classify_merge(selection)
          PROVE  AllLand'
      <4>1. selection \in SUBSET (Type \X Key)
        OBVIOUS
      <4> QED
        BY <2>1, <3>1, <4>1, MergeLands
    <3> QED
      BY <2>1, <3>1, ExecuteLands, OthersLand
  <2>5. Remains' /\ AllRestored'
    BY <2>1, RemainsKept, RestoreStarts, ExecuteRestores, OthersRestore
  <2> QED
    BY <2>2, <2>3, <2>4, <2>5 DEF IInv
<1> QED
  BY <1>1, <1>2, PTL DEF Spec

\* The tenant, its ids, the table and the statuses of its rows have their
\* types, and a row has no status exactly when it is live.
THEOREM TypeCorrect == Spec => []TypeOK
<1>1. IInv => TypeOK
  <2> SUFFICES ASSUME IInv
               PROVE  TypeOK
    OBVIOUS
  <2>1. Typed /\ Sorted(row)
    BY DEF IInv, CInv
  <2>2. ASSUME NEW t \in Type, NEW k \in Key, row[t][k] # None
        PROVE  (row[t][k].status = "none") = row[t][k].live
    <3>1. row[t][k].live \in BOOLEAN
      <4>1. row[t][k] \in Row
        BY <2>1, <2>2 DEF Typed, Table
      <4> QED
        BY <4>1 DEF Row
    <3>2. row[t][k].status = "none" <=> row[t][k].live
      BY <2>1, <2>2 DEF Sorted
    <3> QED
      BY <3>1, <3>2
  <2>3. /\ tenant \in [Id -> [type : Type, raw : Raw] \cup {None}]
        /\ made \in [Id -> [type : Type, name : Name] \cup {None}]
        /\ row \in [Type -> [Key -> Row \cup {None}]]
    BY <2>1 DEF Typed, Table, Object
  <2> QED
    BY <2>2, <2>3 DEF TypeOK
<1> QED
  BY <1>1, Inductive, PTL

\* No proposal leaks into the live state: a live row, and an object of a
\* snapshot, is one that the tenant has or had under that name (ingest,
\* promote, ImportWrite, create_snapshot).
THEOREM LiveRows == Spec => []LiveRowsAreReal
<1>1. IInv => LiveRowsAreReal
  BY DEF IInv, CInv, Sorted, LiveRowsAreReal
<1> QED
  BY <1>1, Inductive, PTL

\* An accepted candidate leaves the list of what is to be pushed only by a
\* reviewer, the generator or a record that says it was written (promote).
THEOREM Outstanding == Spec => AcceptedUntilPushed
<1>1. IInv /\ [Next]_vars =>
        [\A t \in Type, k \in Key :
           Accepted(t, k) /\ ~Accepted(t, k)' /\ OneType(row[t][k].raw.name) =>
             \/ count'["acts"] # count["acts"]
             \/ \E r \in Range(push.records) :
                  /\ r.type = t /\ r.name = row[t][k].raw.name /\ r.status = "applied"]_vars
  BY AcceptedStep DEF IInv
<1> QED
  BY <1>1, Inductive, PTL DEF Spec, AcceptedUntilPushed

\* A cancelled merge that is rolled back leaves the tenant as it was, when
\* the cache was right and nobody interfered (_rollback_entries).
THEOREM NoTrace == Spec => []RollbackLeavesNoTrace
<1>1. IInv => RollbackLeavesNoTrace
  <2> SUFFICES ASSUME IInv, push.pc = "undone", push.mode = "merge", push.sure, push.quiet
               PROVE  tenant = push.against
    BY DEF RollbackLeavesNoTrace
  <2>1. Undoable /\ Calm /\ Pending = 0
    BY DEF IInv, Undoable, Calm, Pending
  <2>2. Merges(push.against, push.plan, push.records)
        /\ Traced(push.against, tenant, push.records, 0)
    BY <2>1 DEF Undoable
  <2>3. PICK was \in [Id -> Object \cup {None}] : was = push.against
    BY <2>2 DEF Merges
  <2>4. \A i \in Id : tenant[i] = was[i]
    BY <2>2, <2>3 DEF Traced, Told
  <2>5. tenant \in [Id -> Object \cup {None}]
    BY DEF IInv, CInv, Typed
  <2> QED
    BY <2>3, <2>4, <2>5
<1> QED
  BY <1>1, Inductive, PTL

\* A merge of candidates that refer to the tenant and, in the order of the
\* engine, to each other is taken whole when the cache was right and nobody
\* interfered (classify_merge, _do_create, _remap_ids).
THEOREM WholeLands == Spec => []WholePushLands
<1>1. IInv => WholePushLands
  <2> SUFFICES ASSUME IInv, Landing, push.pc = "done", NEW r \in Range(push.records)
               PROVE  r.status = "applied"
    BY DEF WholePushLands, Landing
  <2>1. PICK n \in DOMAIN push.records : r = push.records[n]
    BY DEF Range
  <2> QED
    BY <2>1 DEF IInv, AllLand
<1> QED
  BY <1>1, Inductive, PTL

\* A restore without failures leaves what the snapshot says, although what
\* was gone comes back under other ids (classify_restore, push_classified).
THEOREM Converges == Spec => []RestoreConverges
<1>1. IInv => RestoreConverges
  <2> SUFFICES ASSUME IInv, push.pc = "done", push.mode = "restore", push.sure,
                      push.quiet, push.all,
                      \A r \in Range(push.records) : r.status = "applied"
               PROVE  {Shape(tenant[i].type, tenant[i].raw) :
                         i \in {i \in Objects : tenant[i].type \notin Foreign}}
                      = {Shape(c.type, c.raw) : c \in {c \in push.against : c.type \notin Foreign}}
    BY DEF RestoreConverges
  <2>1. PICK plan, was : plan = push.plan /\ was = push.against /\ plan \in Seq(PlanEntry)
    BY DEF IInv, CInv, PushTyped, Book
  <2>2. Restoring
    BY DEF Restoring, Range
  <2>3. Restored(was, tenant, push.id_map, plan, Len(plan) + 1)
    BY <2>1, <2>2 DEF IInv, AllRestored
  <2>4. Len(plan) + 1..Len(plan) = {}
    OBVIOUS
  <2>5. \A i, c : Settled(tenant, plan, Len(plan) + 1, i, c) =>
          /\ tenant[i] # None /\ tenant[i].type = c.type
          /\ Shape(tenant[i].type, tenant[i].raw) = Shape(c.type, c.raw)
    BY <2>4 DEF Settled, Ahead, Mirrors, Shape
  <2>6. \A i : Ahead(plan, Len(plan) + 1, "delete", i) = {}
    BY <2>4 DEF Ahead
  <2>7. ASSUME NEW i \in Objects, tenant[i].type \notin Foreign
        PROVE  \E c \in was : c.type \notin Foreign
                              /\ Shape(tenant[i].type, tenant[i].raw) = Shape(c.type, c.raw)
    <3>1. i \in Id /\ tenant[i] # None
      BY DEF Objects, Exists
    <3>2. PICK c \in was : Settled(tenant, plan, Len(plan) + 1, i, c)
      BY <2>3, <2>6, <2>7, <3>1 DEF Restored
    <3> QED
      BY <2>5, <2>7, <3>2
  <2>8. ASSUME NEW c \in was, c.type \notin Foreign
        PROVE  \E i \in Objects : tenant[i].type \notin Foreign
                                  /\ Shape(tenant[i].type, tenant[i].raw) = Shape(c.type, c.raw)
    <3>1. ~Recreated(plan, Len(plan) + 1, c)
      BY <2>4 DEF Recreated
    <3>2. PICK i \in Id : Settled(tenant, plan, Len(plan) + 1, i, c)
      BY <2>3, <2>8, <3>1 DEF Restored
    <3>3. i \in Objects /\ tenant[i].type \notin Foreign
      BY <2>5, <2>8, <3>2 DEF Objects, Exists
    <3> QED
      BY <2>5, <3>2, <3>3
  <2> QED
    BY <2>1, <2>7, <2>8
<1> QED
  BY <1>1, Inductive, PTL

=============================================================================
