---------------------------- MODULE SyncRunProofs ----------------------------
(***************************************************************************)
(* Proofs about SyncRun: the types, that only what rules need changes,     *)
(* that references lead to namesakes, that a success is a mirror and that  *)
(* the run after it finds nothing to do.                                   *)
(***************************************************************************)
EXTENDS SyncRun, FiniteSetTheorems, WellFoundedInduction, TLAPS

---------------------------------------------------------------------------
(* The shapes of the state.                                                *)

Op == {"create", "update", "rename", "delete"}
Stage == {"idle", "source", "target", "close", "pulled", "resolve",
          "diff", "apply", "report", "done"}
Entry == [op : Op, from : Key \cup {None}, at : Key \cup {None},
          row : Stored \cup {None}, type : Type]

RunState ==
  [at : Stage, label : BOOLEAN, deletes : BOOLEAN, loaded : SUBSET Type,
   pulled : SUBSET (Type \X Name), resolve : SUBSET Type, left : SUBSET Entry,
   created : SUBSET [type : Type, name : Name, at : Key],
   errors : BOOLEAN, clean : BOOLEAN, quiet : BOOLEAN, given : SUBSET (Type \X Name)]

(* A row refers to lower tiers only, as the object it was read from.       *)
LowRow(k, row) == \A q \in row.refs : Tier[TypeOf(q[1])] < Tier[TypeOf(k)]

Clouds ==
  /\ cloud \in [Tenant -> [Key -> Object \cup {None}]]
  /\ \A t \in Tenant : Sound(cloud[t])

Caches ==
  /\ cache \in [Tenant -> [Key -> Stored \cup {None}]]
  /\ \A t \in Tenant, k \in Key : cache[t][k] # None => LowRow(k, cache[t][k])

(* What a record of the comparison says: a new object, or a row that is    *)
(* renamed or updated.                                                     *)
Matches(ty, r) ==
  /\ r.from \in Wanted(run, ty)
  /\ r = [op |-> r.op, from |-> r.from, at |-> r.at, row |-> Source[r.from], type |-> ty]
  /\ \/ r.op = "create" /\ r.at = None
     \/ /\ r.op \in {"rename", "update"} /\ r.at \in Rows(Target, ty)
        /\ r.op = "update" => Target[r.at].name = Source[r.from].name

(* What a delete says: a row of a selected type that the task covers.      *)
Removes(r) ==
  /\ run.deletes /\ r.type \in Selected /\ r.at \in Rows(Target, r.type)
  /\ run.label => Target[r.at].label
  /\ r = [op |-> "delete", from |-> None, at |-> r.at, row |-> None, type |-> r.type]

(* A record that is still to be applied.                                   *)
Booked(r) ==
  /\ r \in Entry /\ r.type \in AllTypes(run)
  /\ \/ r.op # "delete" /\ Matches(r.type, r)
     \/ r.op = "delete" /\ Removes(r)

Pulled == run.pulled \subseteq (Replicable \ Selected) \X Name

Runs ==
  /\ run \in RunState
  /\ run.loaded \subseteq Selected \cup Replicable
  /\ run.resolve \subseteq Type \ Replicable
  /\ Pulled
  /\ \A c \in run.created : TypeOf(c.at) = c.type
  /\ ~At("apply") => run.left = {}
  /\ \A r \in run.left : Booked(r)
  /\ \A q, r \in run.left : q.at = r.at /\ r.at # None => q = r

Counts == runs \in Nat /\ edits \in Nat /\ faults \in Nat

Shaped == Clouds /\ Caches /\ Runs /\ Counts

---------------------------------------------------------------------------
(* Numbers, least elements and recursion.                                  *)

\* The naturals are well founded: every set of them that is not empty has a
\* least element.
LEMMA LeastNat ==
  ASSUME NEW T \in SUBSET Nat, T # {}
  PROVE  \E x \in T : \A y \in T : x <= y
<1> DEFINE R == {p \in Nat \X Nat : p[1] < p[2]}
<1>1. IsWellFoundedOn(R, Nat)
  BY NatLessThanWellFounded DEF OpToRel
<1>2. PICK x \in T : \A y \in T : ~(<<y, x>> \in R)
  BY <1>1, WFMin
<1>3. ASSUME NEW y \in T
      PROVE  x <= y
  <2>1. x \in Nat /\ y \in Nat /\ <<y, x>> \notin R
    BY <1>2
  <2> QED
    BY <2>1
<1> QED
  BY <1>3

\* First picks an element: some id is the least.
LEMMA FirstIn ==
  ASSUME NEW K \in SUBSET Key, K # {}
  PROVE  First(K) \in K
<1> DEFINE T == {k[2] : k \in K}
<1>1. T \in SUBSET Nat /\ T # {}
  BY BoundsAssumption DEF Key
<1>2. PICK x \in T : \A y \in T : x <= y
  <2> HIDE DEF T
  <2> QED
    BY <1>1, LeastNat
<1>3. \E k \in K : \A j \in K : k[2] <= j[2]
  BY <1>2
<1> QED
  BY <1>3 DEF First

\* What holds at the start and of each next number holds up to N.
LEMMA Climb ==
  ASSUME NEW N \in Nat, NEW S, 0 \in S, \A i \in 1..N : i - 1 \in S => i \in S
  PROVE  \A i \in 0..N : i \in S
<1> DEFINE T == {i \in 0..N : i \notin S}
<1>1. SUFFICES ASSUME T # {} PROVE FALSE
  OBVIOUS
<1>2. PICK x \in T : \A y \in T : x <= y
  <2>1. T \in SUBSET Nat
    OBVIOUS
  <2> HIDE DEF T
  <2> QED
    BY <1>1, <2>1, LeastNat
<1>3. x \in 1..N
  OBVIOUS
<1>4. x - 1 \notin T
  BY <1>2, <1>3
<1>5. x - 1 \in S /\ x \in S
  BY <1>3, <1>4
<1> QED
  BY <1>5

LEMMA Types ==
  /\ Tier \in [Type -> Nat]
  /\ \A k \in Key : TypeOf(k) \in Type /\ k[2] \in 1..MaxNum /\ k = <<TypeOf(k), k[2]>>
  /\ \A ty \in Type, n \in 1..MaxNum : <<ty, n>> \in Key /\ TypeOf(<<ty, n>>) = ty
  /\ MaxNum \in Nat
BY BoundsAssumption DEF TypeOf, Tier, Type, Key

\* The constants and values that count as nothing are nothing else.
LEMMA NoneIs ==
  /\ None \notin Object /\ None \notin Stored /\ None \notin Key
BY NoneAssumption

---------------------------------------------------------------------------
(* Matching.                                                               *)

(* A row of the target that needs nothing to be a row of the source.       *)
Twin(j, k) == /\ Fingerprint(Target[j]) = Fingerprint(Source[k])
              /\ Target[j].name = Source[k].name

Tally == [claimed : SUBSET Key, records : SUBSET Entry]
NoTally == [claimed |-> {}, records |-> {}]

(* One row of the source, or nothing if it is not wanted.                  *)
MatchStep(ty, n, acc) ==
  IF <<ty, n>> \in Wanted(run, ty) THEN Match(acc, <<ty, n>>, Rows(Target, ty)) ELSE acc

\* What is compared is rows of the cache: their keys and what they hold.
LEMMA RowsAre ==
  ASSUME Caches, NEW ty \in Type
  PROVE  /\ \A j \in Rows(Target, ty) : /\ j \in Key /\ TypeOf(j) = ty
                                        /\ Target[j] \in Stored /\ ~Target[j].system
         /\ \A k \in Wanted(run, ty) : /\ k \in Key /\ TypeOf(k) = ty
                                       /\ Source[k] \in Stored /\ ~Source[k].system
BY DEF Caches, Rows, Wanted, Held, Source, Target, Tenant

\* A record carries the source's row; a delete carries the place only.
LEMMA RecordIs ==
  ASSUME Caches, NEW ty \in Type, NEW k \in Wanted(run, ty),
         NEW op \in Op, NEW at \in Key \cup {None}
  PROVE  /\ Record(op, k, at) = [op |-> op, from |-> k, at |-> at, row |-> Source[k], type |-> ty]
         /\ Record(op, k, at) \in Entry
<1>1. k \in Key /\ k # None /\ TypeOf(k) = ty /\ Source[k] \in Stored
  BY RowsAre, NoneIs
<1> QED
  BY <1>1 DEF Record, Entry

\* What a row of the source comes to: a twin that is claimed, a row that is
\* renamed or updated, or an object to create.
LEMMA MatchDoes ==
  ASSUME Caches, NEW ty \in Type, NEW k \in Wanted(run, ty), NEW acc \in Tally
  PROVE  LET new == Match(acc, k, Rows(Target, ty))
             free == Rows(Target, ty) \ acc.claimed
         IN  \/ \E j \in free : /\ Twin(j, k)
                                /\ new = [claimed |-> acc.claimed \cup {j}, records |-> acc.records]
             \/ /\ \A j \in free : ~Twin(j, k)
                /\ \E j \in free, op \in {"rename", "update"} :
                     /\ op = "update" => Target[j].name = Source[k].name
                     /\ new = [claimed |-> acc.claimed \cup {j},
                               records |-> acc.records \cup {Record(op, k, j)}]
             \/ /\ \A j \in free : ~Twin(j, k)
                /\ new = [claimed |-> acc.claimed,
                          records |-> acc.records \cup {Record("create", k, None)}]
<1> DEFINE rows  == Rows(Target, ty)
           free  == rows \ acc.claimed
           same  == {j \in free : Fingerprint(Target[j]) = Fingerprint(Source[k])}
           twin  == {j \in same : Target[j].name = Source[k].name}
           named == {j \in free : Target[j].name = Source[k].name}
           new   == Match(acc, k, rows)
<1>1. same \subseteq Key /\ twin \subseteq Key /\ named \subseteq Key
  BY RowsAre
<1>2. acc = [claimed |-> acc.claimed, records |-> acc.records]
  BY DEF Tally
<1>3. CASE twin # {}
  <2>1. First(twin) \in twin
    BY <1>1, <1>3, FirstIn
  <2>2. new = [acc EXCEPT !.claimed = @ \cup {First(twin)}]
    BY <1>3 DEF Match
  <2>3. new = [claimed |-> acc.claimed \cup {First(twin)}, records |-> acc.records]
    BY <1>2, <2>2
  <2> QED
    BY <2>1, <2>3 DEF Twin
<1>4. CASE twin = {} /\ same # {}
  <2>1. First(same) \in same
    BY <1>1, <1>4, FirstIn
  <2>2. new = [claimed |-> acc.claimed \cup {First(same)},
               records |-> acc.records \cup {Record("rename", k, First(same))}]
    BY <1>4 DEF Match
  <2>3. \A j \in free : ~Twin(j, k)
    BY <1>4 DEF Twin
  <2> QED
    BY <2>1, <2>2, <2>3
<1>5. CASE same = {} /\ named # {}
  <2>1. First(named) \in named
    BY <1>1, <1>5, FirstIn
  <2>2. new = [claimed |-> acc.claimed \cup {First(named)},
               records |-> acc.records \cup {Record("update", k, First(named))}]
    BY <1>5 DEF Match
  <2>3. \A j \in free : ~Twin(j, k)
    BY <1>5 DEF Twin
  <2> QED
    BY <2>1, <2>2, <2>3
<1>6. CASE twin = {} /\ same = {} /\ named = {}
  <2>1. new = [acc EXCEPT !.records = @ \cup {Record("create", k, None)}]
    BY <1>6 DEF Match
  <2>2. new = [claimed |-> acc.claimed,
               records |-> acc.records \cup {Record("create", k, None)}]
    BY <1>2, <2>1
  <2>3. \A j \in free : ~Twin(j, k)
    BY <1>6 DEF Twin
  <2> QED
    BY <2>2, <2>3
<1> QED
  BY <1>3, <1>4, <1>5, <1>6

LEMMA StepTallies ==
  ASSUME Caches, NEW ty \in Type, NEW n \in 1..MaxNum, NEW acc \in Tally
  PROVE  MatchStep(ty, n, acc) \in Tally
<1>1. CASE <<ty, n>> \in Wanted(run, ty)
  <2>1. \A op \in Op, at \in Key \cup {None} : Record(op, <<ty, n>>, at) \in Entry
    BY <1>1, RecordIs
  <2>2. Rows(Target, ty) \subseteq Key
    BY RowsAre
  <2> QED
    BY <1>1, <2>1, <2>2, MatchDoes DEF MatchStep, Tally, Op
<1>2. CASE <<ty, n>> \notin Wanted(run, ty)
  BY <1>2 DEF MatchStep
<1> QED
  BY <1>1, <1>2

\* Matched is the last of a series of tallies, one for each id.
LEMMA MatchedSteps ==
  ASSUME Caches, NEW ty \in Type
  PROVE  \E f \in [0..MaxNum -> Tally] :
           /\ f[0] = NoTally
           /\ \A n \in 1..MaxNum : f[n] = MatchStep(ty, n, f[n - 1])
           /\ Matched(run, ty) = f[MaxNum]
<1> DEFINE N == MaxNum
           Goes(n, f) == /\ f[0] = NoTally
                         /\ \A i \in 1..n : f[i] = MatchStep(ty, i, f[i - 1])
           Rec(f) == f = [n \in 0..N |-> IF n = 0 THEN NoTally
                            ELSE IF <<ty, n>> \in Wanted(run, ty)
                              THEN Match(f[n - 1], <<ty, n>>, Rows(Target, ty)) ELSE f[n - 1]]
           S == {n \in 0..N : \E f \in [0..n -> Tally] : Goes(n, f)}
<1>1. N \in Nat
  BY BoundsAssumption
<1>2. NoTally \in Tally
  BY DEF NoTally, Tally
<1>3. 0 \in S
  <2> DEFINE g == [i \in 0..0 |-> NoTally]
  <2>1. g \in [0..0 -> Tally] /\ Goes(0, g)
    BY <1>2
  <2> HIDE DEF g, Goes
  <2>2. \E f \in [0..0 -> Tally] : Goes(0, f)
    BY <2>1
  <2> QED
    BY <1>1, <2>2
<1>4. ASSUME NEW n \in 1..N, n - 1 \in S
      PROVE  n \in S
  <2>1. PICK f \in [0..(n - 1) -> Tally] : Goes(n - 1, f)
    BY <1>4
  <2> DEFINE g == [i \in 0..n |-> IF i < n THEN f[i] ELSE MatchStep(ty, n, f[n - 1])]
  <2>2. f[n - 1] \in Tally
    <3>1. n - 1 \in 0..(n - 1)
      BY <1>1
    <3> QED
      BY <3>1
  <2>3. MatchStep(ty, n, f[n - 1]) \in Tally
    BY <2>2, StepTallies
  <2>4. g \in [0..n -> Tally]
    BY <1>1, <2>3
  <2>5. ASSUME NEW i \in 1..n
        PROVE  g[i] = MatchStep(ty, i, g[i - 1])
    <3>1. CASE i < n
      <4>1. g[i] = f[i] /\ g[i - 1] = f[i - 1] /\ i \in 1..(n - 1)
        BY <1>1, <3>1
      <4> QED
        BY <2>1, <4>1
    <3>2. CASE i = n
      <4>1. g[n] = MatchStep(ty, n, f[n - 1]) /\ g[n - 1] = f[n - 1]
        BY <1>1
      <4> QED
        BY <3>2, <4>1
    <3> QED
      BY <1>1, <3>1, <3>2
  <2>6. g[0] = NoTally
    BY <1>1, <2>1
  <2>7. Goes(n, g)
    BY <2>5, <2>6
  <2> HIDE DEF g, Goes
  <2>8. \E h \in [0..n -> Tally] : Goes(n, h)
    BY <2>4, <2>7
  <2> QED
    BY <2>8
<1>5. PICK f \in [0..N -> Tally] : Goes(N, f)
  <2> HIDE DEF S
  <2>1. \A i \in 0..N : i \in S
    BY <1>1, <1>3, <1>4, Climb
  <2>2. N \in S
    BY <1>1, <2>1
  <2> QED
    BY <2>2 DEF S
<1>6. Rec(f)
  <2>1. ASSUME NEW n \in 0..N
        PROVE  f[n] = IF n = 0 THEN NoTally
                      ELSE IF <<ty, n>> \in Wanted(run, ty)
                        THEN Match(f[n - 1], <<ty, n>>, Rows(Target, ty)) ELSE f[n - 1]
    <3>1. CASE n = 0
      BY <1>5, <3>1
    <3>2. CASE n # 0
      <4>1. n \in 1..N
        BY <1>1, <3>2
      <4> QED
        BY <1>5, <3>2, <4>1 DEF MatchStep
    <3> QED
      BY <3>1, <3>2
  <2>2. f = [n \in 0..N |-> f[n]]
    OBVIOUS
  <2> QED
    BY <2>1, <2>2
<1> DEFINE after == CHOOSE f_ : Rec(f_)
<1>7. Rec(after)
  <2> HIDE DEF Rec
  <2> QED
    BY <1>6
<1>8. Matched(run, ty) = after[N]
  BY DEF Matched, NoTally
<1> HIDE DEF after
<1>9. \A n \in 0..N : after[n] = IF n = 0 THEN NoTally
                        ELSE IF <<ty, n>> \in Wanted(run, ty)
                          THEN Match(after[n - 1], <<ty, n>>, Rows(Target, ty)) ELSE after[n - 1]
  BY <1>7
<1>10. after[0] = NoTally
  <2>1. 0 \in 0..N
    BY <1>1
  <2> HIDE DEF N
  <2> QED
    BY <1>9, <2>1, Zenon
<1>11. \A n \in 1..N : after[n] = MatchStep(ty, n, after[n - 1])
  <2> TAKE n \in 1..N
  <2>1. n \in 0..N /\ n # 0
    BY <1>1
  <2> QED
    BY <1>9, <2>1 DEF MatchStep
<1> DEFINE T == {n \in 0..N : after[n] \in Tally}
<1>12. 0 \in T
  BY <1>1, <1>2, <1>10
<1>13. \A n \in 1..N : n - 1 \in T => n \in T
  <2> TAKE n \in 1..N
  <2>1. HAVE n - 1 \in T
  <2>2. MatchStep(ty, n, after[n - 1]) \in Tally
    BY <2>1, StepTallies
  <2> QED
    BY <1>1, <1>11, <2>2
<1>14. \A n \in 0..N : n \in T
  <2> HIDE DEF T
  <2> QED
    BY <1>1, <1>12, <1>13, Climb
<1>15. \A n \in 0..N : after[n] \in Tally
  BY <1>14
<1>16. after \in [0..N -> Tally]
  <2>1. after = [n \in 0..N |-> after[n]]
    BY <1>7
  <2> QED
    BY <1>15, <2>1
<1> QED
  BY <1>8, <1>10, <1>11, <1>16

(* The tally of the first n ids of a type: each wanted row has a twin of   *)
(* its own or a record, and no two records are for one place.              *)
Tallied(ty, n, acc) ==
  /\ \A k \in Wanted(run, ty) : k[2] <= n =>
       \/ \E j \in acc.claimed : Twin(j, k) /\ \A r \in acc.records : r.at # j
       \/ \E r \in acc.records : r.from = k
  /\ \A r \in acc.records : Matches(ty, r) /\ (r.at = None \/ r.at \in acc.claimed)
  /\ \A q, r \in acc.records : q.at = r.at /\ r.at # None => q = r
  /\ acc.claimed \subseteq Rows(Target, ty)
  /\ \A j \in acc.claimed : \/ \E r \in acc.records : r.at = j
                            \/ \E k \in Wanted(run, ty) : Twin(j, k)

\* One more row keeps the tally.
LEMMA TallyStep ==
  ASSUME Caches, NEW ty \in Type, NEW n \in 1..MaxNum, NEW acc \in Tally,
         Tallied(ty, n - 1, acc)
  PROVE  Tallied(ty, n, MatchStep(ty, n, acc))
<1> DEFINE k == <<ty, n>>
           new == MatchStep(ty, n, acc)
           rows == Rows(Target, ty)
<1>1. \A i \in Wanted(run, ty) : i[2] <= n => i = k \/ i[2] <= n - 1
  <2> TAKE i \in Wanted(run, ty)
  <2>1. i \in Key /\ TypeOf(i) = ty
    BY RowsAre
  <2>2. i[2] \in 1..MaxNum /\ i = <<ty, i[2]>>
    BY <2>1, Types
  <2> QED
    BY <2>2, BoundsAssumption
<1>2. CASE k \notin Wanted(run, ty)
  <2>1. new = acc
    BY <1>2 DEF MatchStep
  <2>2. \A i \in Wanted(run, ty) : i[2] <= n => i[2] <= n - 1
    BY <1>1, <1>2
  <2> HIDE DEF new, k
  <2> QED
    BY <2>1, <2>2 DEF Tallied, new
<1>3. CASE k \in Wanted(run, ty)
  <2>1. new = Match(acc, k, rows)
    BY <1>3 DEF MatchStep
  <2>2. \A j \in rows : j \in Key /\ j # None
    BY RowsAre, NoneIs
  <2>3. ASSUME NEW j \in rows \ acc.claimed, Twin(j, k),
               new = [claimed |-> acc.claimed \cup {j}, records |-> acc.records]
        PROVE  Tallied(ty, n, new)
    <3>1. new.claimed = acc.claimed \cup {j} /\ new.records = acc.records
      BY <2>3
    <3>2. \A r \in acc.records : r.at # j
      BY <2>2 DEF Tallied
    <3>3. \A i \in Wanted(run, ty) : i[2] <= n =>
             \/ \E h \in new.claimed : Twin(h, i) /\ \A r \in new.records : r.at # h
             \/ \E r \in new.records : r.from = i
      <4> HIDE DEF new, k
      <4> QED
        BY <1>1, <2>3, <3>1, <3>2 DEF Tallied
    <3> HIDE DEF new, k
    <3> QED
      BY <1>3, <2>3, <3>1, <3>3 DEF Tallied
  <2>4. ASSUME NEW j \in rows \ acc.claimed, NEW op \in {"rename", "update"},
               op = "update" => Target[j].name = Source[k].name,
               new = [claimed |-> acc.claimed \cup {j},
                      records |-> acc.records \cup {Record(op, k, j)}]
        PROVE  Tallied(ty, n, new)
    <3> DEFINE r0 == Record(op, k, j)
    <3>1. new.claimed = acc.claimed \cup {j} /\ new.records = acc.records \cup {r0}
      BY <2>4
    <3>2. r0 = [op |-> op, from |-> k, at |-> j, row |-> Source[k], type |-> ty]
      BY <1>3, <2>2, RecordIs DEF Op
    <3>3. Matches(ty, r0) /\ r0.at = j /\ r0.from = k
      BY <1>3, <2>4, <3>2 DEF Matches
    <3>4. \A r \in acc.records : r.at # j
      BY <2>2 DEF Tallied
    <3> HIDE DEF new, k, r0, rows
    <3>5. \A i \in Wanted(run, ty) : i[2] <= n =>
             \/ \E h \in new.claimed : Twin(h, i) /\ \A r \in new.records : r.at # h
             \/ \E r \in new.records : r.from = i
      <4> TAKE i \in Wanted(run, ty)
      <4>1. HAVE i[2] <= n
      <4>2. CASE i = k
        BY <3>1, <3>3, <4>2
      <4>3. CASE i[2] <= n - 1 /\ \E r \in acc.records : r.from = i
        BY <3>1, <4>3
      <4>4. CASE i[2] <= n - 1 /\ \E h \in acc.claimed : Twin(h, i) /\ \A r \in acc.records : r.at # h
        <5>1. PICK h \in acc.claimed : Twin(h, i) /\ \A r \in acc.records : r.at # h
          BY <4>4
        <5>2. h # j
          BY <2>4
        <5>3. h \in new.claimed /\ \A r \in new.records : r.at # h
          BY <3>1, <3>3, <5>1, <5>2
        <5> QED
          BY <5>1, <5>3
      <4> QED
        BY <1>1, <4>1, <4>2, <4>3, <4>4 DEF Tallied
    <3>6. \A q, r \in new.records : q.at = r.at /\ r.at # None => q = r
      BY <3>1, <3>3, <3>4 DEF Tallied
    <3>7. \A h \in new.claimed : \/ \E r \in new.records : r.at = h
                                 \/ \E i \in Wanted(run, ty) : Twin(h, i)
      BY <3>1, <3>3 DEF Tallied
    <3>8. new.claimed \subseteq Rows(Target, ty)
      BY <2>4, <3>1 DEF Tallied, rows
    <3>9. \A r \in new.records : Matches(ty, r) /\ (r.at = None \/ r.at \in new.claimed)
      BY <3>1, <3>3 DEF Tallied
    <3> QED
      BY <3>5, <3>6, <3>7, <3>8, <3>9 DEF Tallied
  <2>5. ASSUME new = [claimed |-> acc.claimed,
                      records |-> acc.records \cup {Record("create", k, None)}]
        PROVE  Tallied(ty, n, new)
    <3> DEFINE r0 == Record("create", k, None)
    <3>1. new.claimed = acc.claimed /\ new.records = acc.records \cup {r0}
      BY <2>5
    <3>2. r0 = [op |-> "create", from |-> k, at |-> None, row |-> Source[k], type |-> ty]
      BY <1>3, RecordIs DEF Op
    <3>3. Matches(ty, r0) /\ r0.at = None /\ r0.from = k
      BY <1>3, <3>2 DEF Matches
    <3> HIDE DEF new, k, r0
    <3>4. \A i \in Wanted(run, ty) : i[2] <= n =>
             \/ \E h \in new.claimed : Twin(h, i) /\ \A r \in new.records : r.at # h
             \/ \E r \in new.records : r.from = i
      <4> TAKE i \in Wanted(run, ty)
      <4>1. HAVE i[2] <= n
      <4>2. CASE i = k
        BY <3>1, <3>3, <4>2
      <4>3. CASE i[2] <= n - 1 /\ \E r \in acc.records : r.from = i
        BY <3>1, <4>3
      <4>4. CASE i[2] <= n - 1 /\ \E h \in acc.claimed : Twin(h, i) /\ \A r \in acc.records : r.at # h
        <5>1. PICK h \in acc.claimed : Twin(h, i) /\ \A r \in acc.records : r.at # h
          BY <4>4
        <5>2. h \in Key /\ h # None
          BY <2>2, <5>1 DEF Tallied
        <5>3. h \in new.claimed /\ \A r \in new.records : r.at # h
          BY <3>1, <3>3, <5>1, <5>2
        <5> QED
          BY <5>1, <5>3
      <4> QED
        BY <1>1, <4>1, <4>2, <4>3, <4>4 DEF Tallied
    <3> QED
      BY <3>1, <3>3, <3>4 DEF Tallied
  <2> HIDE DEF new, k, rows
  <2> QED
    <3>1. Tallied(ty, n, new)
      BY <1>3, <2>1, <2>3, <2>4, <2>5, MatchDoes DEF rows
    <3> QED
      BY <3>1 DEF new
<1> QED
  BY <1>2, <1>3

\* So the comparison of a type tallies all of its ids.
LEMMA MatchedTallies ==
  ASSUME Caches, NEW ty \in Type
  PROVE  Matched(run, ty) \in Tally /\ Tallied(ty, MaxNum, Matched(run, ty))
<1>1. PICK f \in [0..MaxNum -> Tally] :
             /\ f[0] = NoTally
             /\ \A n \in 1..MaxNum : f[n] = MatchStep(ty, n, f[n - 1])
             /\ Matched(run, ty) = f[MaxNum]
  BY MatchedSteps
<1> DEFINE S == {n \in 0..MaxNum : Tallied(ty, n, f[n])}
<1>2. MaxNum \in Nat
  BY BoundsAssumption
<1>3. 0 \in S
  <2>1. \A k \in Wanted(run, ty) : ~(k[2] <= 0)
    BY RowsAre, Types
  <2>2. Tallied(ty, 0, NoTally)
    BY <2>1 DEF Tallied, NoTally
  <2> QED
    BY <1>1, <1>2, <2>2
<1>4. \A n \in 1..MaxNum : n - 1 \in S => n \in S
  <2> TAKE n \in 1..MaxNum
  <2>1. HAVE n - 1 \in S
  <2>2. n - 1 \in 0..MaxNum /\ n \in 0..MaxNum
    BY <1>2
  <2>3. f[n - 1] \in Tally
    BY <2>2
  <2>4. Tallied(ty, n, MatchStep(ty, n, f[n - 1]))
    BY <2>1, <2>3, TallyStep
  <2> QED
    BY <1>1, <2>2, <2>4
<1>5. \A n \in 0..MaxNum : n \in S
  <2> HIDE DEF S
  <2> QED
    BY <1>2, <1>3, <1>4, Climb
<1>6. MaxNum \in 0..MaxNum
  BY <1>2
<1> QED
  BY <1>1, <1>5, <1>6

---------------------------------------------------------------------------
(* The batch.                                                              *)

\* The types of a run are selected or of what was pulled in.
LEMMA TypesAre ==
  ASSUME Pulled
  PROVE  /\ AllTypes(run) \subseteq Type /\ Selected \subseteq AllTypes(run)
         /\ \A ty \in AllTypes(run) \ Selected : ty \in Replicable
         /\ \A ty \in Type, nm \in Name :
              <<ty, nm>> \in run.pulled => ty \in AllTypes(run) \ Selected
BY SelectedAssumption DEF Pulled, AllTypes, PulledTypes, Replicable, Type

\* Each record of the batch is a match or a delete of one of the types.
LEMMA BatchIs ==
  ASSUME Caches, Pulled, NEW r \in Batch(run)
  PROVE  /\ Booked(r)
         /\ r.op # "delete" => r \in Matched(run, r.type).records
         /\ r.op = "delete" => r.at \notin Matched(run, r.type).claimed
<1>1. PICK ty \in AllTypes(run) :
        \/ r \in Matched(run, ty).records
        \/ \E j \in Doomed(run, ty, Rows(Target, ty)) \ Matched(run, ty).claimed :
             r = Record("delete", None, j)
  BY DEF Batch
<1>2. ty \in Type
  BY TypesAre
<1>3. CASE r \in Matched(run, ty).records
  <2>1. r \in Entry /\ Matches(ty, r)
    BY <1>2, <1>3, MatchedTallies DEF Tallied, Tally
  <2>2. r.type = ty /\ r.op # "delete"
    BY <2>1 DEF Matches
  <2> QED
    BY <1>3, <2>1, <2>2 DEF Booked
<1>4. ASSUME NEW j \in Doomed(run, ty, Rows(Target, ty)) \ Matched(run, ty).claimed,
             r = Record("delete", None, j)
      PROVE  /\ r \in Entry /\ r.type = ty /\ r.op = "delete" /\ Removes(r)
             /\ r.at \notin Matched(run, r.type).claimed
  <2>1. /\ run.deletes /\ ty \in Selected /\ j \in Rows(Target, ty)
        /\ run.label => Target[j].label
    BY <1>4 DEF Doomed
  <2>2. j \in Key /\ TypeOf(j) = ty
    BY <1>2, <2>1, RowsAre
  <2>3. r = [op |-> "delete", from |-> None, at |-> j, row |-> None, type |-> ty]
    BY <1>4, <2>2 DEF Record
  <2> QED
    BY <1>2, <1>4, <2>1, <2>2, <2>3 DEF Entry, Op, Removes
<1> QED
  BY <1>1, <1>3, <1>4 DEF Booked

\* The place of a record: of its type, a row of the cache or none.
LEMMA BookedAt ==
  ASSUME Caches, Pulled, NEW r, Booked(r)
  PROVE  /\ r.op = "create" => r.at = None
         /\ r.op # "create" => /\ r.at \in Rows(Target, r.type) /\ r.at \in Key
                               /\ TypeOf(r.at) = r.type /\ r.at # None
         /\ r.op # "delete" => /\ r.from \in Wanted(run, r.type) /\ r.from \in Key
                               /\ TypeOf(r.from) = r.type
                               /\ r.row = Source[r.from] /\ r.row \in Stored
                               /\ ~r.row.system
         /\ r.op = "update" => Target[r.at].name = r.row.name
<1>1. r.type \in Type /\ r.type \in AllTypes(run)
  BY TypesAre DEF Booked
<1>2. CASE r.op # "delete" /\ Matches(r.type, r)
  <2>1. /\ r.from \in Wanted(run, r.type) /\ r.row = Source[r.from]
        /\ \/ r.op = "create" /\ r.at = None
           \/ /\ r.op \in {"rename", "update"} /\ r.at \in Rows(Target, r.type)
              /\ r.op = "update" => Target[r.at].name = Source[r.from].name
    BY <1>2 DEF Matches
  <2> QED
    BY <1>1, <1>2, <2>1, RowsAre, NoneIs
<1>3. CASE r.op = "delete" /\ Removes(r)
  BY <1>1, <1>3, RowsAre, NoneIs DEF Removes
<1> QED
  BY <1>2, <1>3 DEF Booked

\* Each row of the target is the place of one record at most.
LEMMA BatchApart ==
  ASSUME Caches, Pulled, NEW q \in Batch(run), NEW r \in Batch(run),
         q.at = r.at, r.at # None
  PROVE  q = r
<1>1. /\ q.op # "create" /\ r.op # "create" /\ q.type = r.type /\ q.type \in Type
  BY BookedAt, BatchIs, TypesAre DEF Booked
<1> DEFINE M == Matched(run, r.type)
<1>2. Tallied(r.type, MaxNum, M) /\ M \in Tally
  BY <1>1, MatchedTallies
<1>3. CASE q.op # "delete" /\ r.op # "delete"
  <2>1. q \in M.records /\ r \in M.records
    BY <1>1, <1>3, BatchIs
  <2> HIDE DEF M
  <2> QED
    BY <1>2, <2>1 DEF Tallied
<1>4. CASE q.op = "delete" /\ r.op = "delete"
  <2>1. Removes(q) /\ Removes(r)
    BY <1>4, BatchIs DEF Booked
  <2> QED
    BY <1>1, <2>1 DEF Removes
<1>5. ASSUME NEW x \in Batch(run), NEW y \in Batch(run), x.op = "delete", y.op # "delete",
             x.type = r.type, y.type = r.type, x.at = y.at, y.at # None
      PROVE  FALSE
  <2>1. x.at \notin M.claimed /\ y \in M.records
    BY <1>5, BatchIs
  <2> HIDE DEF M
  <2> QED
    BY <1>2, <1>5, <2>1 DEF Tallied
<1> QED
  BY <1>1, <1>3, <1>4, <1>5

\* A wanted row has a twin that no record touches, or a record.
LEMMA BatchCovers ==
  ASSUME Caches, Pulled, NEW ty \in AllTypes(run), NEW k \in Wanted(run, ty)
  PROVE  \/ \E j \in Rows(Target, ty) : Twin(j, k) /\ \A r \in Batch(run) : r.at # j
         \/ \E r \in Batch(run) : r.from = k /\ r.op # "delete"
<1> DEFINE M == Matched(run, ty)
<1>1. ty \in Type
  BY TypesAre
<1>2. Tallied(ty, MaxNum, M) /\ M.records \subseteq Batch(run)
  BY <1>1, MatchedTallies DEF Batch
<1>3. k \in Key /\ k[2] <= MaxNum
  BY <1>1, RowsAre, Types
<1>4. CASE \E r \in M.records : r.from = k
  <2>1. PICK r \in M.records : r.from = k
    BY <1>4
  <2>2. r \in Batch(run) /\ Matches(ty, r)
    BY <1>2, <2>1 DEF Tallied
  <2> QED
    BY <2>1, <2>2 DEF Matches
<1>5. ASSUME NEW j \in M.claimed, Twin(j, k), \A r \in M.records : r.at # j
      PROVE  j \in Rows(Target, ty) /\ \A r \in Batch(run) : r.at # j
  <2>1. j \in Rows(Target, ty) /\ j # None /\ TypeOf(j) = ty
    BY <1>1, <1>2, RowsAre, NoneIs DEF Tallied
  <2>2. ASSUME NEW r \in Batch(run), r.at = j
        PROVE  FALSE
    <3>1. r.type = ty
      BY <2>1, <2>2, BookedAt, BatchIs
    <3> QED
      BY <1>5, <2>2, <3>1, BatchIs
  <2> QED
    BY <2>1, <2>2
<1> HIDE DEF M
<1> QED
  BY <1>2, <1>3, <1>4, <1>5 DEF Tallied

\* With deletes, each covered row of the target has a record, or a twin.
LEMMA BatchClears ==
  ASSUME Caches, Pulled, run.deletes, NEW ty \in Selected, NEW j \in Rows(Target, ty),
         run.label => Target[j].label
  PROVE  \/ \E r \in Batch(run) : r.at = j
         \/ \E k \in Wanted(run, ty) : Twin(j, k)
<1> DEFINE M == Matched(run, ty)
<1>1. ty \in Type /\ ty \in AllTypes(run)
  BY TypesAre
<1>2. Tallied(ty, MaxNum, M) /\ M.records \subseteq Batch(run)
  BY <1>1, MatchedTallies DEF Batch
<1>3. CASE j \in M.claimed
  <2> HIDE DEF M
  <2> QED
    BY <1>2, <1>3 DEF Tallied
<1>4. CASE j \notin M.claimed
  <2>1. j \in Doomed(run, ty, Rows(Target, ty))
    BY DEF Doomed
  <2>2. Record("delete", None, j) \in Batch(run)
    BY <1>1, <1>4, <2>1 DEF Batch
  <2>3. Record("delete", None, j).at = j
    BY DEF Record
  <2> QED
    BY <2>2, <2>3
<1> QED
  BY <1>3, <1>4

---------------------------------------------------------------------------
(* What is written.                                                        *)

\* The names a row refers to are of lower tiers.
LEMMA NamedAre ==
  ASSUME NEW k \in Key, NEW row \in Stored, LowRow(k, row), NEW p \in Named(row)
  PROVE  /\ p \in Type \X Name /\ p = <<p[1], p[2]>>
         /\ Tier[p[1]] < Tier[TypeOf(k)]
<1>1. PICK q \in row.refs : p = <<TypeOf(q[1]), q[2]>>
  BY DEF Named
<1>2. q \in Key \X Name
  BY DEF Stored
<1> QED
  BY <1>1, <1>2, Types DEF LowRow

\* Where a name is found is a place of its type: of what the run created, or
\* of a row of the target.
LEMMA FoundAre ==
  ASSUME Caches, Runs, NEW p \in Type \X Name, Found(run, p) # {}
  PROVE  /\ First(Found(run, p)) \in Key /\ TypeOf(First(Found(run, p))) = p[1]
         /\ \/ \E c \in run.created : <<c.type, c.name>> = p /\ First(Found(run, p)) = c.at
            \/ /\ First(Found(run, p)) \in Held(Target)
               /\ Target[First(Found(run, p))].name = p[2]
<1> DEFINE made == {c.at : c \in {d \in run.created : <<d.type, d.name>> = p}}
           rows == {k \in Held(Target) : <<TypeOf(k), Target[k].name>> = p}
<1>1. Found(run, p) = IF made # {} THEN made ELSE rows
  BY DEF Found
<1>2. made \subseteq Key /\ \A k \in made : TypeOf(k) = p[1]
  BY DEF Runs, RunState
<1>3. rows \subseteq Key /\ \A k \in rows : TypeOf(k) = p[1] /\ Target[k].name = p[2]
  BY DEF Caches, Held, Target, Tenant
<1>4. First(Found(run, p)) \in Found(run, p)
  <2>1. Found(run, p) \subseteq Key
    BY <1>1, <1>2, <1>3
  <2> QED
    BY <2>1, FirstIn
<1> QED
  BY <1>1, <1>2, <1>3, <1>4

\* A reference that is kept leads to where its name was found.
LEMMA KeptAre ==
  ASSUME Caches, Runs, NEW row, NEW k \in Kept(run, row)
  PROVE  \E p \in Named(row) : Found(run, p) # {} /\ k = First(Found(run, p))
BY DEF Kept

(* What a record writes.                                                   *)
Outcome(r) == IF r.op = "delete" THEN None ELSE Payload(run, r)

\* The payload is the row of the source with references of the target.
LEMMA PayloadIs ==
  ASSUME Caches, Runs, NEW r, Booked(r), r.op # "delete"
  PROVE  LET o == Payload(run, r)
         IN  /\ o \in Object /\ ~o.system /\ o # None
             /\ o.name = r.row.name /\ o.content = r.row.content /\ o.label = r.row.label
             /\ o.refs = Kept(run, r.row)
             /\ o.on = (r.row.on /\ ~(r.op = "create" /\ ScopeLost(r.row, Kept(run, r.row))))
             /\ \A k \in Key : TypeOf(k) = r.type => Lower(k, o)
             /\ LowRow(r.from, r.row)
<1> DEFINE refs == Kept(run, r.row)
           lost == r.op = "create" /\ ScopeLost(r.row, refs)
           o == Payload(run, r)
<1>1. /\ r.row \in Stored /\ ~r.row.system /\ r.from \in Key /\ TypeOf(r.from) = r.type
      /\ r.row = Source[r.from] /\ r.type \in Type /\ Pulled
  BY BookedAt, TypesAre DEF Runs, Booked
<1>2. LowRow(r.from, r.row)
  <2>1. r.row # None
    BY <1>1, NoneIs
  <2> QED
    BY <1>1, <2>1 DEF Caches, Source, Tenant
<1>3. \A k \in refs : k \in Key /\ Tier[TypeOf(k)] < Tier[r.type]
  <2> TAKE k \in refs
  <2>1. PICK p \in Named(r.row) : Found(run, p) # {} /\ k = First(Found(run, p))
    BY KeptAre
  <2>2. p \in Type \X Name /\ Tier[p[1]] < Tier[r.type]
    BY <1>1, <1>2, NamedAre
  <2> QED
    BY <2>1, <2>2, FoundAre
<1>4. o = [r.row EXCEPT !.refs = refs, !.on = @ /\ ~lost]
  BY DEF Payload
<1>5. lost \in BOOLEAN
  BY DEF ScopeLost
<1> HIDE DEF refs, lost, o
<1>6. /\ o \in Object
      /\ o.name = r.row.name /\ o.content = r.row.content /\ o.label = r.row.label
      /\ o.refs = refs /\ o.system = r.row.system /\ o.on = (r.row.on /\ ~lost)
  <2>1. refs \in SUBSET Key
    BY <1>3
  <2> QED
    BY <1>1, <1>4, <1>5, <2>1 DEF Stored, Object
<1>7. \A k \in Key : TypeOf(k) = r.type => Lower(k, o)
  BY <1>3, <1>6 DEF Lower
<1> QED
  BY <1>1, <1>2, <1>6, <1>7, NoneIs DEF refs, lost, o

(* A record takes effect at a place.                                       *)
Lands(r, k) ==
  /\ k \in Key /\ TypeOf(k) = r.type
  /\ IF r.op = "create" THEN cloud["target"][k] = None
                        ELSE k = r.at /\ cloud["target"][k] # None
  /\ Fits(cloud["target"], k, Outcome(r))
  /\ cloud' = [cloud EXCEPT !["target"][k] = Outcome(r)]

Entered(r, k) == [type |-> r.type, name |-> r.row.name, at |-> k]

(* What the turn of a record does: nothing; or it takes effect and its     *)
(* answer is lost; or it takes effect and the run knows.                   *)
Turns(r) ==
  /\ At("apply") /\ r \in run.left /\ \A q \in run.left \ {r} : Before(r, q)
  /\ run' = [run EXCEPT !.left = @ \ {r}, !.errors = run'.errors,
                        !.created = run'.created, !.given = run'.given]
  /\ UNCHANGED <<cache, runs, edits>> /\ faults' \in Nat /\ steady' = None
  /\ run'.errors \in BOOLEAN
  /\ \/ UNCHANGED cloud /\ run'.errors /\ run'.created = run.created /\ run'.given = run.given
     \/ \E k \in Key :
          /\ Lands(r, k)
          /\ run'.given = IF r.op = "rename" THEN run.given \cup {<<r.type, cloud["target"][k].name>>}
                                             ELSE run.given
          /\ \/ run'.errors /\ run'.created = run.created
             \/ /\ ~run'.errors => /\ ~run.errors
                                   /\ r.op # "delete" => Dropped(run, r.row) = {}
                /\ run'.created = IF r.op = "create" THEN run.created \cup {Entered(r, k)}
                                                     ELSE run.created

\* ApplyOne is the turn of some record.
LEMMA ApplyTurns ==
  ASSUME Shaped, ApplyOne
  PROVE  \E r \in run.left : Turns(r)
<1>1. PICK r \in Turn, answer \in {"done", "refused", "lost"} :
       LET places == Place(r)
           k == IF places = {} THEN r.at ELSE First(places)
           o == IF r.op = "delete" THEN None ELSE Payload(run, r)
           drops == r.op # "delete" /\ Dropped(run, r.row) # {}
           ok == /\ places # {} /\ Fits(cloud["target"], k, o)
                 /\ r.op = "create" \/ cloud["target"][k] # None
           told == ok /\ answer = "done"
       IN  /\ faults' = faults + IF answer = "done" THEN 0 ELSE 1
           /\ faults' <= MaxFaults
           /\ cloud' = IF ok /\ answer # "refused"
                         THEN [cloud EXCEPT !["target"][k] = o] ELSE cloud
           /\ run' = [run EXCEPT !.left = @ \ {r},
                !.errors = @ \/ ~told \/ drops,
                !.created = IF told /\ r.op = "create"
                  THEN @ \cup {[type |-> r.type, name |-> o.name, at |-> k]}
                  ELSE @,
                !.given = IF r.op = "rename" /\ ok /\ answer # "refused"
                  THEN @ \cup {<<r.type, cloud["target"][k].name>>} ELSE @]
  BY DEF ApplyOne
<1> DEFINE places == Place(r)
           k == IF places = {} THEN r.at ELSE First(places)
           o == Outcome(r)
           drops == r.op # "delete" /\ Dropped(run, r.row) # {}
           ok == /\ places # {} /\ Fits(cloud["target"], k, o)
                 /\ r.op = "create" \/ cloud["target"][k] # None
           told == ok /\ answer = "done"
           takes == ok /\ answer # "refused"
<1>2. /\ At("apply") /\ r \in run.left /\ \A q \in run.left \ {r} : Before(r, q)
      /\ UNCHANGED <<cache, runs, edits>> /\ steady' = None
  BY DEF ApplyOne, Turn
<1>3. /\ run \in RunState /\ Booked(r) /\ Pulled /\ Caches /\ Runs /\ faults \in Nat
  BY <1>2 DEF Shaped, Runs, Counts
<1>4. faults' \in Nat
  BY <1>1, <1>3
<1>5. cloud' = IF takes THEN [cloud EXCEPT !["target"][k] = o] ELSE cloud
  BY <1>1 DEF Outcome
<1>6. run' = [run EXCEPT !.left = @ \ {r},
                !.errors = @ \/ ~told \/ drops,
                !.created = IF told /\ r.op = "create"
                  THEN @ \cup {[type |-> r.type, name |-> o.name, at |-> k]}
                  ELSE @,
                !.given = IF r.op = "rename" /\ takes
                  THEN @ \cup {<<r.type, cloud["target"][k].name>>} ELSE @]
  BY <1>1 DEF Outcome
<1>7. ok => k \in Key /\ TypeOf(k) = r.type /\ (r.op # "create" => k = r.at)
            /\ (r.op = "create" => cloud["target"][k] = None)
  <2>1. CASE r.op # "create"
    <3>1. places = {r.at} /\ r.at \in Key /\ TypeOf(r.at) = r.type
      BY <1>3, <2>1, BookedAt DEF Place
    <3>2. First({r.at}) = r.at
      BY <3>1, FirstIn
    <3> QED
      BY <2>1, <3>1, <3>2
  <2>2. CASE r.op = "create" /\ places # {}
    <3>1. places = {j \in Key : TypeOf(j) = r.type /\ cloud["target"][j] = None}
      BY <2>2 DEF Place
    <3>2. First(places) \in places
      BY <2>2, <3>1, FirstIn
    <3> QED
      BY <2>2, <3>1, <3>2
  <2> QED
    BY <2>1, <2>2
<1>8. takes => Lands(r, k)
  BY <1>5, <1>7 DEF Lands
<1>9. told => takes
  OBVIOUS
<1>10. r.op # "delete" => o.name = r.row.name
  BY <1>3, PayloadIs DEF Outcome
<1> HIDE DEF k, o, ok, places
<1>11. /\ run' = [run EXCEPT !.left = @ \ {r}, !.errors = run'.errors,
                             !.created = run'.created, !.given = run'.given]
       /\ run'.errors = (run.errors \/ ~told \/ drops)
       /\ run'.created = IF told /\ r.op = "create"
                  THEN run.created \cup {[type |-> r.type, name |-> o.name, at |-> k]}
                  ELSE run.created
       /\ run'.given = IF r.op = "rename" /\ takes
                  THEN run.given \cup {<<r.type, cloud["target"][k].name>>} ELSE run.given
  BY <1>3, <1>6 DEF RunState
<1>12. run'.errors \in BOOLEAN
  BY <1>3, <1>11 DEF RunState
<1>13. CASE ~takes
  <2>1. ~told
    BY <1>13
  <2>2. UNCHANGED cloud /\ run'.errors /\ run'.created = run.created /\ run'.given = run.given
    BY <1>5, <1>11, <1>13, <2>1
  <2> QED
    BY <1>2, <1>4, <1>11, <1>12, <2>2 DEF Turns
<1>14. CASE takes
  <2>1. Lands(r, k) /\ k \in Key
    BY <1>7, <1>8, <1>14
  <2>2. run'.given = IF r.op = "rename" THEN run.given \cup {<<r.type, cloud["target"][k].name>>}
                                        ELSE run.given
    BY <1>11, <1>14
  <2>3. CASE ~told
    <3>1. run'.errors /\ run'.created = run.created
      BY <1>11, <2>3
    <3> QED
      BY <1>2, <1>4, <1>11, <1>12, <2>1, <2>2, <3>1 DEF Turns
  <2>4. CASE told
    <3>1. ~run'.errors => /\ ~run.errors
                          /\ r.op # "delete" => Dropped(run, r.row) = {}
      BY <1>11
    <3>2. run'.created = IF r.op = "create" THEN run.created \cup {Entered(r, k)}
                                            ELSE run.created
      BY <1>10, <1>11, <2>4 DEF Entered
    <3> QED
      BY <1>2, <1>4, <1>11, <1>12, <2>1, <2>2, <3>1, <3>2 DEF Turns
  <2> QED
    BY <2>3, <2>4
<1> QED
  BY <1>2, <1>13, <1>14

---------------------------------------------------------------------------
(* The steps keep the shapes.                                              *)

\* What an import stores of an object.
LEMMA RowIs ==
  ASSUME NEW m, Sound(m), NEW k \in Key, m[k] # None
  PROVE  LET row == Row(m, k)
         IN  /\ row \in Stored /\ row # None /\ LowRow(k, row)
             /\ row.name = m[k].name /\ row.content = m[k].content /\ row.label = m[k].label
             /\ row.on = m[k].on /\ row.system = m[k].system
             /\ row.refs = {<<r, m[r].name>> : r \in m[k].refs}
             /\ Named(row) = {<<TypeOf(r), m[r].name>> : r \in m[k].refs}
             /\ \A r \in m[k].refs : r \in Key /\ m[r] # None /\ m[r] \in Object
<1> DEFINE refs == {<<r, m[r].name>> : r \in m[k].refs}
           row == Row(m, k)
<1>1. m[k] \in Object /\ m[k].refs \subseteq Held(m) /\ Lower(k, m[k])
  BY DEF Sound, Held
<1>2. \A r \in m[k].refs : r \in Key /\ m[r] # None /\ m[r] \in Object /\ m[r].name \in Name
  BY <1>1 DEF Sound, Held, Object
<1>3. row = [m[k] EXCEPT !.refs = refs]
  BY DEF Row
<1>4. refs \in SUBSET (Key \X Name)
  BY <1>2
<1>5. \A q \in refs : q[1] \in m[k].refs /\ q = <<q[1], m[q[1]].name>>
  OBVIOUS
<1>6. \A r \in m[k].refs : <<r, m[r].name>> \in refs
  OBVIOUS
<1> HIDE DEF refs, row
<1>7. /\ row \in Stored
      /\ row.name = m[k].name /\ row.content = m[k].content /\ row.label = m[k].label
      /\ row.on = m[k].on /\ row.system = m[k].system /\ row.refs = refs
  BY <1>1, <1>3, <1>4 DEF Object, Stored
<1>8. LowRow(k, row)
  BY <1>1, <1>5, <1>7 DEF LowRow, Lower
<1>9. Named(row) = {<<TypeOf(r), m[r].name>> : r \in m[k].refs}
  <2>1. \A p : p \in Named(row) <=> \E q \in refs : p = <<TypeOf(q[1]), q[2]>>
    BY <1>7 DEF Named
  <2>2. ASSUME NEW q \in refs
        PROVE  q[1] \in m[k].refs /\ q[2] = m[q[1]].name
    BY <1>5
  <2>3. ASSUME NEW r \in m[k].refs
        PROVE  \E q \in refs : <<TypeOf(r), m[r].name>> = <<TypeOf(q[1]), q[2]>>
    BY <1>6
  <2> QED
    BY <2>1, <2>2, <2>3
<1> QED
  BY <1>2, <1>7, <1>8, <1>9, NoneIs DEF refs, row

LEMMA ImportedIs ==
  ASSUME Clouds, Caches, NEW t \in Tenant, NEW types, NEW fetched,
         cache' = Imported(t, types, fetched)
  PROVE  /\ Caches'
         /\ \A s \in Tenant : s # t => cache'[s] = cache[s]
         /\ \A k \in Key :
              cache'[t][k] = IF TypeOf(k) \notin types THEN cache[t][k]
                             ELSE IF TypeOf(k) \in fetched /\ cloud[t][k] # None
                                    THEN Row(cloud[t], k) ELSE None
<1> DEFINE new == [k \in Key |->
              IF TypeOf(k) \notin types THEN cache[t][k]
              ELSE IF TypeOf(k) \in fetched /\ cloud[t][k] # None THEN Row(cloud[t], k) ELSE None]
<1>1. cache' = [cache EXCEPT ![t] = new]
  BY DEF Imported
<1>2. \A k \in Key : cloud[t][k] # None => Row(cloud[t], k) \in Stored /\ LowRow(k, Row(cloud[t], k))
  BY RowIs DEF Clouds
<1>3. \A k \in Key : cache[t][k] \in Stored \cup {None}
                     /\ (cache[t][k] # None => LowRow(k, cache[t][k]))
  BY DEF Caches
<1>4. new \in [Key -> Stored \cup {None}] /\ \A k \in Key : new[k] # None => LowRow(k, new[k])
  BY <1>2, <1>3
<1> HIDE DEF new
<1>5. cache' \in [Tenant -> [Key -> Stored \cup {None}]]
      /\ cache'[t] = new /\ \A s \in Tenant : s # t => cache'[s] = cache[s]
  BY <1>1, <1>4 DEF Caches
<1>6. Caches'
  BY <1>4, <1>5 DEF Caches
<1> QED
  BY <1>5, <1>6 DEF new

LEMMA FailuresCount ==
  ASSUME NEW failed \in SUBSET Type
  PROVE  Cardinality(failed) \in Nat
<1>1. IsFiniteSet({"svc"}) /\ IsFiniteSet({"svc", "grp"})
  <2>1. IsFiniteSet({"svc"})
    BY FS_Singleton
  <2>2. IsFiniteSet({"svc"} \cup {"grp"})
    BY <2>1, FS_AddElement
  <2>3. {"svc"} \cup {"grp"} = {"svc", "grp"}
    OBVIOUS
  <2> QED
    BY <2>1, <2>2, <2>3
<1>2. IsFiniteSet(Type)
  <2>1. IsFiniteSet({"svc", "grp"} \cup {"loc"})
    BY <1>1, FS_AddElement
  <2>2. IsFiniteSet(({"svc", "grp"} \cup {"loc"}) \cup {"rule"})
    BY <2>1, FS_AddElement
  <2>3. ({"svc", "grp"} \cup {"loc"}) \cup {"rule"} = Type
    BY DEF Type
  <2> QED
    BY <2>2, <2>3
<1> QED
  BY <1>2, FS_Subset, FS_CardinalityType

\* An import changes rows, and counts what failed.
LEMMA ImportDoes ==
  ASSUME Shaped, NEW t \in Tenant, NEW types \in SUBSET Type, NEW w, Import(t, types, w)
  PROVE  Caches' /\ Clouds' /\ Counts'
<1>1. PICK failed \in SUBSET types :
        /\ faults' = faults + Cardinality(failed)
        /\ cache' = Imported(t, types, types \ failed)
        /\ UNCHANGED <<cloud, steady, runs, edits>>
  BY DEF Import
<1>2. Caches'
  BY <1>1, ImportedIs DEF Shaped
<1>3. Counts'
  BY <1>1, FailuresCount DEF Shaped, Counts
<1>4. Clouds'
  BY <1>1 DEF Shaped, Clouds
<1> QED
  BY <1>2, <1>3, <1>4

\* What a walk finds: keys of rows, types that are read, names that are
\* pulled in.
LEMMA WalkIs ==
  ASSUME Caches
  PROVE  /\ Walk(run).missing \subseteq Replicable /\ Walk(run).resolve \subseteq Type \ Replicable
         /\ Walk(run).pulled \subseteq (Replicable \ Selected) \X Name
         /\ Seeds(run) \subseteq Held(Source)
         /\ \A K \in SUBSET Held(Source), loaded \in SUBSET Type :
              RefsOf(K) \subseteq Key /\ Follow(K, loaded) \subseteq Held(Source)
<1>1. /\ Held(Source) \subseteq Key /\ \A k \in Held(Source) : Source[k] \in Stored
      /\ Source \in [Key -> Stored \cup {None}]
  BY DEF Caches, Held, Source, Tenant
<1>2. Seeds(run) \subseteq Held(Source)
  BY DEF Seeds
<1>3. \A K \in SUBSET Held(Source) : RefsOf(K) \subseteq Key
  BY <1>1 DEF RefsOf, Stored
<1>4. \A K \in SUBSET Held(Source) : \A loaded : Follow(K, loaded) \subseteq Held(Source)
  BY <1>1, <1>3 DEF Follow, Held
<1> DEFINE near == Follow(Seeds(run), run.loaded)
           all  == near \cup Follow(near, run.loaded)
           seen == {TypeOf(k) : k \in RefsOf(Seeds(run) \cup all)}
<1>5. Walk(run) = [pulled  |-> {<<TypeOf(k), Source[k].name>> :
                                  k \in {j \in all : TypeOf(j) \notin Selected}},
                   missing |-> (seen \cap Replicable) \ run.loaded,
                   resolve |-> seen \ Replicable]
  BY DEF Walk
<1>6. near \subseteq Held(Source) /\ all \subseteq Held(Source)
  BY <1>2, <1>4
<1>7. seen \subseteq Type
  <2>1. Seeds(run) \cup all \subseteq Held(Source)
    BY <1>2, <1>6
  <2> QED
    BY <1>3, <2>1, Types
<1>8. \A k \in all : TypeOf(k) \in Replicable
  BY DEF Follow
<1> HIDE DEF near, all, seen
<1>9. \A k \in all : Source[k].name \in Name
  BY <1>1, <1>6 DEF Stored
<1> QED
  BY <1>2, <1>3, <1>4, <1>5, <1>7, <1>8, <1>9

\* The imports, and the steps between them, keep the shapes.
LEMMA ReadingShapes ==
  ASSUME Shaped,
         Start \/ ImportSource \/ ImportTarget \/ CloseMore \/ CloseDone
           \/ ImportPulled \/ ImportResolved
  PROVE  Shaped'
<1> USE DEF At
<1>1. /\ Caches /\ Clouds /\ Counts /\ Runs /\ run \in RunState /\ Pulled
      /\ run.resolve \subseteq Type \ Replicable /\ run.loaded \subseteq Selected \cup Replicable
  BY DEF Shaped, Runs
<1>2. CASE Start
  <2>1. PICK label, deletes \in BOOLEAN :
          run' = [Idle EXCEPT !.at = "source", !.label = label,
                              !.deletes = deletes, !.loaded = Selected]
    BY <1>2 DEF Start
  <2>2. run' = [at |-> "source", label |-> label, deletes |-> deletes, loaded |-> Selected,
                pulled |-> {}, resolve |-> {}, left |-> {}, created |-> {},
                errors |-> FALSE, clean |-> TRUE, quiet |-> TRUE, given |-> {}]
    BY <2>1 DEF Idle
  <2>3. Runs'
    BY <2>2, SelectedAssumption DEF Runs, RunState, Stage, Pulled
  <2>4. Clouds' /\ Caches' /\ Counts'
    <3>1. UNCHANGED <<cloud, cache, edits, faults>> /\ runs' = runs + 1
      BY <1>2 DEF Start
    <3>2. Counts'
      BY <1>1, <3>1 DEF Counts
    <3> QED
      BY <1>1, <3>1, <3>2 DEF Clouds, Caches
  <2> QED
    BY <2>3, <2>4 DEF Shaped
<1>3. ASSUME NEW t \in Tenant, NEW types \in SUBSET Type, NEW w, Import(t, types, w),
             w \in RunState, w.left = {}, w.created = run.created, w.pulled = run.pulled,
             w.loaded \subseteq Selected \cup Replicable, w.resolve \subseteq Type \ Replicable
      PROVE  Shaped'
  <2>1. PICK failed \in SUBSET types : run' = [w EXCEPT !.clean = @ /\ failed = {}]
    BY <1>3 DEF Import
  <2>2. /\ run' \in RunState /\ run'.left = {} /\ run'.created = run.created
        /\ run'.pulled = run.pulled /\ run'.loaded = w.loaded /\ run'.resolve = w.resolve
    BY <1>3, <2>1 DEF RunState
  <2>3. Runs'
    BY <1>1, <1>3, <2>2 DEF Runs, Pulled
  <2>4. Caches' /\ Clouds' /\ Counts'
    BY <1>3, ImportDoes
  <2> QED
    BY <2>3, <2>4 DEF Shaped
<1>4. ASSUME NEW types, Import("source", types, [run EXCEPT !.at = "target"]) \/
                        Import("target", types, [run EXCEPT !.at = "close"]) \/
                        Import("target", types, [run EXCEPT !.at = "resolve"]) \/
                        Import("target", types, [run EXCEPT !.at = "diff"]),
             types \subseteq Type, run.at # "apply"
      PROVE  Shaped'
  <2>1. run.left = {}
    BY <1>1, <1>4 DEF Runs
  <2>2. \A stage \in Stage : LET w == [run EXCEPT !.at = stage]
                             IN  /\ w \in RunState /\ w.left = {} /\ w.created = run.created
                                 /\ w.pulled = run.pulled /\ w.loaded = run.loaded
                                 /\ w.resolve = run.resolve
    BY <1>1, <2>1 DEF RunState
  <2>3. {"source", "target"} = Tenant /\ {"target", "close", "resolve", "diff"} \subseteq Stage
    BY DEF Tenant, Stage
  <2> QED
    BY <1>1, <1>3, <1>4, <2>2, <2>3
<1>5. CASE ImportSource \/ ImportTarget \/ ImportPulled \/ ImportResolved
  <2>1. run.resolve \subseteq Type /\ PulledTypes(run) \subseteq Type /\ run.at # "apply"
    BY <1>1, <1>5 DEF PulledTypes, Pulled, Replicable, Type, ImportSource, ImportTarget,
                      ImportPulled, ImportResolved
  <2> QED
    BY <1>4, <1>5, <2>1, SelectedAssumption
      DEF ImportSource, ImportTarget, ImportPulled, ImportResolved
<1>6. CASE CloseMore
  <2> DEFINE w == [run EXCEPT !.loaded = @ \cup Walk(run).missing,
                              !.resolve = @ \cup Walk(run).resolve]
  <2>1. Import("source", Walk(run).missing, w) /\ run.at = "close"
    BY <1>6 DEF CloseMore
  <2>2. Walk(run).missing \subseteq Replicable /\ Walk(run).resolve \subseteq Type \ Replicable
    BY <1>1, WalkIs
  <2>3. Replicable \subseteq Type /\ "source" \in Tenant
    BY DEF Replicable, Type, Tenant
  <2>4. run.left = {}
    BY <1>1, <2>1 DEF Runs
  <2>5. /\ w \in RunState /\ w.left = {} /\ w.created = run.created /\ w.pulled = run.pulled
        /\ w.loaded \subseteq Selected \cup Replicable /\ w.resolve \subseteq Type \ Replicable
    BY <1>1, <2>2, <2>3, <2>4, SelectedAssumption DEF RunState
  <2> HIDE DEF w
  <2> QED
    BY <1>3, <2>1, <2>2, <2>3, <2>5
<1>7. CASE CloseDone
  <2>1. /\ run' = [run EXCEPT !.at = "pulled", !.pulled = Walk(run).pulled,
                              !.resolve = @ \cup Walk(run).resolve]
        /\ run.at = "close" /\ UNCHANGED <<cloud, cache, steady, runs, edits, faults>>
    BY <1>7 DEF CloseDone
  <2>2. /\ Walk(run).resolve \subseteq Type \ Replicable
        /\ Walk(run).pulled \subseteq (Replicable \ Selected) \X Name
    BY <1>1, WalkIs
  <2>3. run.left = {}
    BY <1>1, <2>1 DEF Runs
  <2>4. /\ run' \in RunState /\ run'.left = {} /\ run'.created = run.created
        /\ run'.pulled = Walk(run).pulled /\ run'.loaded = run.loaded
        /\ run'.resolve = run.resolve \cup Walk(run).resolve
    <3>1. /\ Walk(run).pulled \in SUBSET (Type \X Name)
          /\ run.resolve \cup Walk(run).resolve \in SUBSET Type /\ "pulled" \in Stage
      BY <1>1, <2>2 DEF Replicable, Type, Stage
    <3> QED
      BY <1>1, <2>1, <2>3, <3>1 DEF RunState
  <2>5. Runs'
    BY <1>1, <2>2, <2>4 DEF Runs, Pulled
  <2>6. Clouds' /\ Caches' /\ Counts'
    BY <1>1, <2>1 DEF Clouds, Caches, Counts
  <2> QED
    BY <2>5, <2>6 DEF Shaped
<1> QED
  BY <1>2, <1>5, <1>6, <1>7

\* Writing an object into a sound tenant where the API takes it keeps it
\* sound.
LEMMA WritesSoundly ==
  ASSUME NEW m, Sound(m), NEW k \in Key, NEW o \in Object \cup {None}, Fits(m, k, o),
         o # None => Lower(k, o)
  PROVE  Sound([m EXCEPT ![k] = o])
<1> DEFINE n == [m EXCEPT ![k] = o]
<1>1. m \in [Key -> Object \cup {None}]
  BY DEF Sound
<1>2. n \in [Key -> Object \cup {None}] /\ n[k] = o /\ \A j \in Key : j # k => n[j] = m[j]
  BY <1>1
<1>3. Held(m) \subseteq Key /\ Held(n) \subseteq Key
      /\ \A j \in Key : (j \in Held(m) <=> m[j] # None) /\ (j \in Held(n) <=> n[j] # None)
  BY <1>1, <1>2 DEF Held
<1> HIDE DEF n
<1>4. CASE o = None
  <2>1. \A j \in Held(n) : j # k /\ j \in Held(m) /\ n[j] = m[j] /\ k \notin m[j].refs
    BY <1>2, <1>3, <1>4 DEF Fits
  <2>2. \A j \in Held(n) : n[j].refs \subseteq Held(n) /\ Lower(j, n[j])
    BY <1>2, <1>3, <2>1 DEF Sound
  <2>3. \A i, j \in Held(n) : TypeOf(i) = TypeOf(j) /\ n[i].name = n[j].name => i = j
    BY <2>1 DEF Sound
  <2> QED
    BY <1>2, <2>2, <2>3 DEF Sound, n
<1>5. CASE o # None
  <2>1. /\ Held(n) = Held(m) \cup {k} /\ o.refs \subseteq Held(m)
        /\ \A j \in Held(m) \ {k} : ~(TypeOf(j) = TypeOf(k) /\ m[j].name = o.name)
    BY <1>2, <1>3, <1>5 DEF Fits
  <2>2. \A j \in Held(n) : n[j].refs \subseteq Held(n) /\ Lower(j, n[j])
    BY <1>2, <1>3, <1>5, <2>1 DEF Sound
  <2>3. \A i, j \in Held(n) : TypeOf(i) = TypeOf(j) /\ n[i].name = n[j].name => i = j
    BY <1>2, <1>3, <2>1 DEF Sound
  <2> QED
    BY <1>2, <2>2, <2>3 DEF Sound, n
<1> QED
  BY <1>4, <1>5

\* Records stay booked while the caches and the task's choices stay.
LEMMA BookedStays ==
  ASSUME UNCHANGED cache, run'.label = run.label, run'.deletes = run.deletes,
         run'.pulled = run.pulled, NEW r, Booked(r)
  PROVE  Booked(r)'
<1>1. AllTypes(run)' = AllTypes(run) /\ Target' = Target /\ Source' = Source
  BY DEF AllTypes, PulledTypes, Target, Source
<1>2. \A ty : Rows(Target, ty)' = Rows(Target, ty)
  BY <1>1 DEF Rows, Held
<1>3. \A ty : Wanted(run, ty)' = Wanted(run, ty)
  BY <1>1 DEF Wanted, Rows, Held
<1>4. Matches(r.type, r) => Matches(r.type, r)'
  BY <1>1, <1>2, <1>3 DEF Matches
<1>5. Removes(r) => Removes(r)'
  BY <1>1, <1>2 DEF Removes
<1> QED
  BY <1>1, <1>4, <1>5 DEF Booked

\* What the turn of a record changes of the run.
LEMMA TurnIs ==
  ASSUME Shaped, NEW r \in run.left, Turns(r)
  PROVE  /\ run'.left = run.left \ {r} /\ run'.at = run.at
         /\ run'.label = run.label /\ run'.deletes = run.deletes /\ run'.loaded = run.loaded
         /\ run'.pulled = run.pulled /\ run'.resolve = run.resolve
         /\ run'.clean = run.clean /\ run'.quiet = run.quiet
         /\ Booked(r) /\ Caches /\ Runs /\ Pulled /\ Clouds /\ r.type \in Type
BY TypesAre DEF Turns, Shaped, Runs, RunState, Booked

\* The turn of a record keeps the shapes.
LEMMA TurnShapes ==
  ASSUME Shaped, NEW r \in run.left, Turns(r)
  PROVE  Shaped'
<1>1. /\ run'.left = run.left \ {r} /\ run'.at = run.at
      /\ run'.label = run.label /\ run'.deletes = run.deletes
      /\ run'.pulled = run.pulled /\ run'.resolve = run.resolve /\ run'.loaded = run.loaded
      /\ Booked(r) /\ Caches /\ Runs /\ Pulled /\ Clouds /\ r.type \in Type
  BY TurnIs
<1>2. UNCHANGED cache /\ run \in RunState /\ run'.errors \in BOOLEAN
      /\ UNCHANGED <<runs, edits>> /\ faults' \in Nat
  BY <1>1 DEF Turns, Runs
<1>3. Outcome(r) \in Object \cup {None}
      /\ \A k \in Key : TypeOf(k) = r.type /\ Outcome(r) # None => Lower(k, Outcome(r))
  BY <1>1, PayloadIs DEF Outcome
<1>4. Clouds'
  <2>1. CASE UNCHANGED cloud
    BY <1>1, <2>1 DEF Clouds
  <2>2. ASSUME NEW k \in Key, Lands(r, k)
        PROVE  Clouds'
    <3>1. /\ TypeOf(k) = r.type /\ Fits(cloud["target"], k, Outcome(r))
          /\ cloud' = [cloud EXCEPT !["target"][k] = Outcome(r)]
      BY <2>2 DEF Lands
    <3>2. Sound([cloud["target"] EXCEPT ![k] = Outcome(r)])
      BY <1>1, <1>3, <3>1, WritesSoundly DEF Clouds, Tenant
    <3>3. /\ cloud' \in [Tenant -> [Key -> Object \cup {None}]]
          /\ cloud'["target"] = [cloud["target"] EXCEPT ![k] = Outcome(r)]
          /\ cloud'["source"] = cloud["source"]
      BY <1>1, <1>3, <3>1 DEF Clouds, Tenant
    <3> QED
      BY <1>1, <3>2, <3>3 DEF Clouds, Tenant
  <2> QED
    BY <2>1, <2>2 DEF Turns
<1>5. /\ run'.created \in SUBSET [type : Type, name : Name, at : Key]
      /\ run'.given \in SUBSET (Type \X Name)
      /\ \A c \in run'.created : TypeOf(c.at) = c.type
  <2>1. CASE run'.created = run.created /\ run'.given = run.given
    BY <1>1, <1>2, <2>1 DEF Runs, RunState
  <2>2. ASSUME NEW k \in Key, Lands(r, k),
               run'.given = IF r.op = "rename" THEN run.given \cup {<<r.type, cloud["target"][k].name>>}
                                               ELSE run.given,
               run'.created = run.created \/
                 (r.op = "create" /\ run'.created = run.created \cup {Entered(r, k)})
        PROVE  /\ run'.created \in SUBSET [type : Type, name : Name, at : Key]
               /\ run'.given \in SUBSET (Type \X Name)
               /\ \A c \in run'.created : TypeOf(c.at) = c.type
    <3>1. r.op # "create" => cloud["target"][k].name \in Name
      BY <1>1, <2>2 DEF Lands, Clouds, Object, Tenant
    <3>2. r.op = "create" => r.row.name \in Name
      BY <1>1, BookedAt DEF Stored
    <3>3. TypeOf(k) = r.type
      BY <2>2 DEF Lands
    <3>4. run'.given \in SUBSET (Type \X Name)
      BY <1>1, <1>2, <2>2, <3>1 DEF RunState
    <3>5. run.created \in SUBSET [type : Type, name : Name, at : Key]
          /\ \A c \in run.created : TypeOf(c.at) = c.type
      BY <1>1 DEF Runs, RunState
    <3>6. r.op = "create" => /\ Entered(r, k) \in [type : Type, name : Name, at : Key]
                             /\ TypeOf(Entered(r, k).at) = Entered(r, k).type
      BY <1>1, <3>2, <3>3 DEF Entered
    <3> QED
      BY <2>2, <3>4, <3>5, <3>6
  <2>3. CASE r.op = "create"
    BY <2>1, <2>2, <2>3 DEF Turns
  <2>4. CASE r.op # "create"
    BY <2>1, <2>2, <2>4 DEF Turns
  <2> QED
    BY <2>3, <2>4
<1>6. run' \in RunState
  <2>1. run' = [run EXCEPT !.left = @ \ {r}, !.errors = run'.errors,
                           !.created = run'.created, !.given = run'.given]
    BY DEF Turns
  <2> QED
    BY <1>2, <1>5, <2>1 DEF RunState
<1>7. \A q \in run'.left : Booked(q)'
  <2>1. \A q \in run.left : Booked(q)
    BY <1>1 DEF Runs
  <2> QED
    BY <1>1, <1>2, <2>1, BookedStays
<1>8. Runs'
  BY <1>1, <1>5, <1>6, <1>7 DEF Runs, Pulled, At
<1>9. Caches' /\ Counts'
  BY <1>1, <1>2 DEF Caches, Counts, Shaped
<1> QED
  BY <1>4, <1>8, <1>9 DEF Shaped

\* The steps around the records keep the shapes.
LEMMA OtherShapes ==
  ASSUME Shaped, Diff \/ Reimport \/ Report \/ Break \/ Stop \/ EditTenant
  PROVE  Shaped'
<1> USE DEF At
<1>1. Caches /\ Clouds /\ Counts /\ Runs /\ run \in RunState /\ Pulled
  BY DEF Shaped, Runs
<1>2. CASE Diff
  <2>1. /\ run' = [run EXCEPT !.at = "apply", !.left = Batch(run)]
        /\ UNCHANGED <<cloud, cache, steady, runs, edits, faults>>
    BY <1>2 DEF Diff
  <2>2. \A r \in Batch(run) : Booked(r)
    BY <1>1, BatchIs
  <2>3. Batch(run) \in SUBSET Entry
    BY <2>2 DEF Booked
  <2>4. /\ run' \in RunState /\ run'.left = Batch(run) /\ run'.created = run.created
        /\ run'.pulled = run.pulled /\ run'.loaded = run.loaded /\ run'.resolve = run.resolve
        /\ run'.label = run.label /\ run'.deletes = run.deletes /\ run'.at = "apply"
    BY <1>1, <2>1, <2>3 DEF RunState, Stage
  <2>5. \A r \in Batch(run) : Booked(r)'
    BY <2>1, <2>2, <2>4, BookedStays
  <2>6. \A q, r \in Batch(run) : q.at = r.at /\ r.at # None => q = r
    BY <1>1, BatchApart
  <2>7. Runs'
    BY <1>1, <2>4, <2>5, <2>6 DEF Runs, Pulled
  <2>8. Clouds' /\ Caches' /\ Counts'
    BY <1>1, <2>1 DEF Clouds, Caches, Counts
  <2> QED
    BY <2>7, <2>8 DEF Shaped
<1>3. CASE Reimport
  <2>1. run.left = {} /\ Import("target", AllTypes(run), [run EXCEPT !.at = "report"])
    BY <1>3 DEF Reimport
  <2>2. AllTypes(run) \subseteq Type /\ "target" \in Tenant
    BY <1>1, TypesAre DEF Tenant
  <2>3. Caches' /\ Clouds' /\ Counts'
    BY <2>1, <2>2, ImportDoes
  <2>4. PICK failed \in SUBSET AllTypes(run) :
          run' = [[run EXCEPT !.at = "report"] EXCEPT !.clean = @ /\ failed = {}]
    BY <2>1 DEF Import
  <2>5. /\ run' \in RunState /\ run'.left = {} /\ run'.created = run.created
        /\ run'.pulled = run.pulled /\ run'.loaded = run.loaded /\ run'.resolve = run.resolve
    BY <1>1, <2>1, <2>4 DEF RunState, Stage
  <2>6. Runs'
    BY <1>1, <2>5 DEF Runs, Pulled
  <2> QED
    BY <2>3, <2>6 DEF Shaped
<1>4. CASE Report \/ Break
  <2>1. run.left = {}
    BY <1>1, <1>4 DEF Report, Break, Runs
  <2>2. \/ run' = [run EXCEPT !.at = "done"]
        \/ run' = [run EXCEPT !.at = "done", !.errors = TRUE]
    BY <1>4 DEF Report, Break
  <2>3. /\ run' \in RunState /\ run'.left = {} /\ run'.created = run.created
        /\ run'.pulled = run.pulled /\ run'.loaded = run.loaded /\ run'.resolve = run.resolve
    BY <1>1, <2>1, <2>2 DEF RunState, Stage
  <2>4. Runs'
    BY <1>1, <2>3 DEF Runs, Pulled
  <2>5. UNCHANGED <<cloud, cache, runs, edits>> /\ faults' \in {faults, faults + 1}
    BY <1>4 DEF Report, Break
  <2>6. Clouds' /\ Caches' /\ Counts'
    BY <1>1, <2>5 DEF Clouds, Caches, Counts
  <2> QED
    BY <2>4, <2>6 DEF Shaped
<1>5. CASE Stop
  <2>1. run' = Idle /\ UNCHANGED <<cloud, cache, runs, edits>> /\ faults' = faults + 1
    BY <1>5 DEF Stop
  <2>2. Runs'
    BY <2>1 DEF Runs, RunState, Stage, Pulled, Idle
  <2>3. Clouds' /\ Caches' /\ Counts'
    BY <1>1, <2>1 DEF Clouds, Caches, Counts
  <2> QED
    BY <2>2, <2>3 DEF Shaped
<1>6. CASE EditTenant
  <2>1. PICK e \in Edits :
          /\ Fits(cloud[e.tenant], e.at, e.object)
          /\ cloud' = [cloud EXCEPT ![e.tenant][e.at] = e.object]
    BY <1>6 DEF EditTenant
  <2>2. /\ run' = [run EXCEPT !.quiet = FALSE] /\ UNCHANGED <<cache, runs, faults>>
        /\ edits' = edits + 1
    BY <1>6 DEF EditTenant
  <2>3. /\ e.tenant \in Tenant /\ e.at \in Key
        /\ e.object # None => e.object \in Object /\ Lower(e.at, e.object)
    BY EditsAssumption
  <2>4. Sound([cloud[e.tenant] EXCEPT ![e.at] = e.object])
    BY <1>1, <2>1, <2>3, WritesSoundly DEF Clouds
  <2>5. /\ cloud' \in [Tenant -> [Key -> Object \cup {None}]]
        /\ cloud'[e.tenant] = [cloud[e.tenant] EXCEPT ![e.at] = e.object]
        /\ \A t \in Tenant : t # e.tenant => cloud'[t] = cloud[t]
    BY <1>1, <2>1, <2>3 DEF Clouds
  <2>6. Clouds'
    BY <1>1, <2>4, <2>5 DEF Clouds
  <2>7. /\ run' \in RunState /\ run'.left = run.left /\ run'.created = run.created
        /\ run'.pulled = run.pulled /\ run'.loaded = run.loaded /\ run'.resolve = run.resolve
        /\ run'.label = run.label /\ run'.deletes = run.deletes /\ run'.at = run.at
    BY <1>1, <2>2 DEF RunState
  <2>8. \A r \in run.left : Booked(r)'
    <3>1. \A r \in run.left : Booked(r)
      BY <1>1 DEF Runs
    <3> QED
      BY <2>2, <2>7, <3>1, BookedStays
  <2>9. Runs'
    BY <1>1, <2>7, <2>8 DEF Runs, Pulled
  <2>10. Caches' /\ Counts'
    BY <1>1, <2>2 DEF Caches, Counts
  <2> QED
    BY <2>6, <2>9, <2>10 DEF Shaped
<1> QED
  BY <1>2, <1>3, <1>4, <1>5, <1>6

LEMMA InitShapes ==
  ASSUME Init
  PROVE  Shaped
<1>1. cloud \in Worlds
  BY DEF Init
<1>2. /\ DOMAIN cloud = Tenant /\ cloud = [t \in Tenant |-> cloud[t]]
      /\ Sound(cloud["source"]) /\ Sound(cloud["target"])
  BY <1>1, WorldsAssumption
<1>3. \A t \in Tenant : Sound(cloud[t]) /\ cloud[t] \in [Key -> Object \cup {None}]
  BY <1>2 DEF Tenant, Sound
<1>4. Clouds
  BY <1>2, <1>3 DEF Clouds
<1>5. \A t \in Tenant, k \in Key : cloud[t][k] # None =>
         Row(cloud[t], k) \in Stored /\ LowRow(k, Row(cloud[t], k))
  BY <1>3, RowIs
<1>6. \A t \in Tenant : /\ Mirror(t) \in [Key -> Stored \cup {None}]
                        /\ \A k \in Key : Mirror(t)[k] # None => LowRow(k, Mirror(t)[k])
  BY <1>5 DEF Mirror
<1>7. ASSUME cache = [t \in Tenant |-> [k \in Key |-> None]]
      PROVE  Caches
  BY <1>7 DEF Caches
<1>8. ASSUME cache = [t \in Tenant |-> Mirror(t)]
      PROVE  Caches
  BY <1>6, <1>8 DEF Caches
<1>9. Caches
  BY <1>7, <1>8 DEF Init
<1>10. Runs
  BY DEF Init, Idle, Runs, RunState, Stage, Pulled
<1>11. Counts
  BY DEF Init, Counts
<1> QED
  BY <1>4, <1>9, <1>10, <1>11 DEF Shaped

LEMMA NextShapes ==
  ASSUME Shaped, [Next]_vars
  PROVE  Shaped'
<1>1. CASE UNCHANGED vars
  <2>1. Clouds' /\ Caches' /\ Counts'
    BY <1>1 DEF vars, Shaped, Clouds, Caches, Counts
  <2>2. \A r \in run.left : Booked(r)'
    <3>1. \A r \in run.left : Booked(r)
      BY DEF Shaped, Runs
    <3> QED
      BY <1>1, <3>1, BookedStays DEF vars
  <2>3. Runs'
    BY <1>1, <2>2 DEF vars, Shaped, Runs, Pulled, At
  <2> QED
    BY <2>1, <2>3 DEF Shaped
<1>2. CASE ApplyOne
  BY <1>2, ApplyTurns, TurnShapes
<1>3. CASE Start \/ ImportSource \/ ImportTarget \/ CloseMore \/ CloseDone
             \/ ImportPulled \/ ImportResolved
  BY <1>3, ReadingShapes
<1>4. CASE Diff \/ Reimport \/ Report \/ Break \/ Stop \/ EditTenant
  BY <1>4, OtherShapes
<1> QED
  BY <1>1, <1>2, <1>3, <1>4 DEF Next, Pipeline

LEMMA ShapesInvariant == Spec => []Shaped
<1>1. Init => Shaped
  BY InitShapes
<1>2. Shaped /\ [Next]_vars => Shaped'
  BY NextShapes
<1> QED
  BY <1>1, <1>2, PTL DEF Spec

\* The tenants stay sound and the run well formed: what is written refers to
\* what exists and to lower tiers, and no name is given twice, whatever was
\* stale, refused or lost (_apply_one, the API).
THEOREM TypeCorrect == Spec => []TypeOK
<1>1. Shaped => TypeOK
  BY DEF Shaped, Clouds, Caches, Runs, RunState, Stage, Pulled, TypeOK
<1> QED
  BY <1>1, ShapesInvariant, PTL

---------------------------------------------------------------------------
(* Only what rules need.                                                   *)

\* The pipeline changes the target only by the turn of a record that lands.
LEMMA WritesLand ==
  ASSUME Shaped, [Next]_vars, Writes
  PROVE  \E r \in run.left : Turns(r) /\ \E k \in Key : Lands(r, k)
<1>1. ~UNCHANGED cloud /\ edits' = edits /\ edits \in Nat
  BY DEF Writes, Shaped, Counts
<1>2. ApplyOne
  <2>1. Start \/ CloseDone \/ Diff \/ Report \/ Break \/ Stop => UNCHANGED cloud
    BY DEF Start, CloseDone, Diff, Report, Break, Stop
  <2>2. ImportSource \/ ImportTarget \/ CloseMore \/ ImportPulled \/ ImportResolved
          \/ Reimport => UNCHANGED cloud
    BY DEF ImportSource, ImportTarget, CloseMore, ImportPulled, ImportResolved, Reimport, Import
  <2>3. EditTenant => edits' = edits + 1
    BY DEF EditTenant
  <2>4. UNCHANGED vars => UNCHANGED cloud
    BY DEF vars
  <2> QED
    BY <1>1, <2>1, <2>2, <2>3, <2>4 DEF Next, Pipeline
<1>3. PICK r \in run.left : Turns(r)
  BY <1>2, ApplyTurns
<1> QED
  BY <1>1, <1>3 DEF Turns

\* A write changes the target at its place and nowhere else.
LEMMA LandsAt ==
  ASSUME Clouds, NEW r, NEW k \in Key, Lands(r, k)
  PROVE  /\ cloud'["target"][k] = Outcome(r) /\ cloud'["source"] = cloud["source"]
         /\ \A j \in Key : j # k => cloud'["target"][j] = cloud["target"][j]
BY DEF Lands, Clouds, Tenant

\* Whatever fails, dependencies are never deleted, and of a type that is not
\* selected only what a selected rule refers to, directly or through a group,
\* is written (_close_over, sync_delete_types).
THEOREM OnlyNeededChanges == Spec => OnlyWhatRulesNeed
<1>1. ASSUME Shaped, [Next]_vars, Writes, NEW k \in Key, TypeOf(k) \notin Selected
      PROVE  \/ cloud'["target"][k] = cloud["target"][k]
             \/ /\ cloud'["target"][k] # None
                /\ <<TypeOf(k), cloud'["target"][k].name>> \in run.pulled
  <2>1. PICK r \in run.left, j \in Key : Turns(r) /\ Lands(r, j)
    BY <1>1, WritesLand
  <2>2. Clouds /\ Caches /\ Runs /\ Pulled /\ Booked(r) /\ TypeOf(j) = r.type
    BY <1>1, <2>1, TurnIs DEF Lands
  <2>3. CASE j # k
    BY <2>1, <2>2, <2>3, LandsAt
  <2>4. CASE j = k
    <3>1. r.type \notin Selected /\ r.op # "delete"
      BY <1>1, <2>2, <2>4 DEF Booked, Removes
    <3>2. cloud'["target"][k] = Payload(run, r)
      BY <2>1, <2>2, <2>4, <3>1, LandsAt DEF Outcome
    <3>3. cloud'["target"][k] # None /\ cloud'["target"][k].name = r.row.name
      BY <2>2, <3>1, <3>2, PayloadIs
    <3>4. r.from \in Wanted(run, r.type) /\ r.row = Source[r.from]
      BY <2>2, <3>1, BookedAt
    <3>5. <<r.type, r.row.name>> \in run.pulled
      BY <3>1, <3>4 DEF Wanted
    <3> QED
      BY <2>2, <2>4, <3>3, <3>5
  <2> QED
    BY <2>3, <2>4
<1>2. ASSUME Shaped, [Next]_vars
      PROVE  [Writes => \A k \in Key : TypeOf(k) \notin Selected =>
                \/ cloud'["target"][k] = cloud["target"][k]
                \/ /\ cloud'["target"][k] # None
                   /\ <<TypeOf(k), cloud'["target"][k].name>> \in run.pulled]_vars
  BY <1>1, <1>2
<1> QED
  BY <1>2, ShapesInvariant, PTL DEF Spec, OnlyWhatRulesNeed

---------------------------------------------------------------------------
(* What is predefined stays where it is.                                   *)

IsSystem(m, k) == m[k] # None /\ m[k].system

(* Both tenants have the same predefined objects; a row tells them apart   *)
(* from others, and no other row has the name of one.                      *)
Predefines ==
  /\ Predefined(cloud["source"]) = Predefined(cloud["target"])
  /\ \A t \in Tenant, k \in Key : cache[t][k] # None =>
       /\ cache[t][k].system <=> IsSystem(cloud[t], k)
       /\ \A s \in Key :
            IsSystem(cloud[t], s) /\ TypeOf(s) = TypeOf(k)
              /\ cloud[t][s].name = cache[t][k].name => s = k

\* Who writes something else beside what is predefined leaves that as it is.
LEMMA SystemStays ==
  ASSUME NEW m \in [Key -> Object \cup {None}], NEW k \in Key,
         NEW o \in Object \cup {None}, ~IsSystem(m, k), o # None => ~o.system,
         NEW n, n = [m EXCEPT ![k] = o]
  PROVE  /\ Predefined(n) = Predefined(m)
         /\ \A j \in Key : IsSystem(n, j) <=> IsSystem(m, j)
         /\ \A j \in Key : IsSystem(n, j) => n[j] = m[j]
<1>1. /\ \A j \in Key : j # k => n[j] = m[j]
      /\ n[k] = o /\ DOMAIN n = Key /\ DOMAIN m = Key
  OBVIOUS
<1>2. \A j \in Key : (IsSystem(n, j) <=> IsSystem(m, j)) /\ (IsSystem(n, j) => n[j] = m[j])
  BY <1>1 DEF IsSystem
<1>3. {j \in Held(n) : n[j].system} = {j \in Held(m) : m[j].system}
  BY <1>1, <1>2 DEF Held, IsSystem
<1>4. \A j \in {i \in Held(m) : m[i].system} : n[j].name = m[j].name
  BY <1>1, <1>2 DEF Held, IsSystem
<1>5. Predefined(n) = Predefined(m)
  <2> DEFINE A == {j \in Held(n) : n[j].system}
             B == {j \in Held(m) : m[j].system}
  <2>1. /\ Predefined(n) = {<<TypeOf(j), n[j].name>> : j \in A}
        /\ Predefined(m) = {<<TypeOf(j), m[j].name>> : j \in B}
    BY DEF Predefined
  <2>2. A = B /\ \A j \in B : n[j].name = m[j].name
    BY <1>3, <1>4
  <2>3. \A p : p \in Predefined(n) <=> \E j \in B : p = <<TypeOf(j), m[j].name>>
    <3> HIDE DEF A, B
    <3> QED
      BY <2>1, <2>2
  <2>4. \A p : p \in Predefined(m) <=> \E j \in B : p = <<TypeOf(j), m[j].name>>
    <3> HIDE DEF A, B
    <3> QED
      BY <2>1
  <2> HIDE DEF A, B
  <2>5. \A p : p \in Predefined(n) <=> p \in Predefined(m)
    BY <2>3, <2>4
  <2> QED
    BY <2>5
<1> QED
  BY <1>2, <1>5

\* A tenant that changes in a place that is not predefined.
LEMMA PredefinedStays ==
  ASSUME Clouds, Clouds', Predefines, NEW t \in Tenant, NEW k \in Key,
         NEW o \in Object \cup {None}, ~IsSystem(cloud[t], k), o # None => ~o.system,
         cloud' = [cloud EXCEPT ![t][k] = o], UNCHANGED cache
  PROVE  Predefines'
<1>1. /\ cloud'[t] = [cloud[t] EXCEPT ![k] = o]
      /\ \A s \in Tenant : s # t => cloud'[s] = cloud[s]
      /\ \A s \in Tenant : cloud[s] \in [Key -> Object \cup {None}]
  BY DEF Clouds
<1>2. /\ Predefined(cloud'[t]) = Predefined(cloud[t])
      /\ \A j \in Key : IsSystem(cloud'[t], j) <=> IsSystem(cloud[t], j)
      /\ \A j \in Key : IsSystem(cloud'[t], j) => cloud'[t][j] = cloud[t][j]
  BY <1>1, SystemStays DEF IsSystem
<1>3. \A s \in Tenant :
        /\ Predefined(cloud'[s]) = Predefined(cloud[s])
        /\ \A j \in Key : IsSystem(cloud'[s], j) <=> IsSystem(cloud[s], j)
        /\ \A j \in Key : IsSystem(cloud'[s], j) => cloud'[s][j] = cloud[s][j]
  <2> TAKE s \in Tenant
  <2>1. CASE s = t
    BY <1>2, <2>1
  <2>2. CASE s # t
    BY <1>1, <2>2
  <2> QED
    BY <2>1, <2>2
<1>4. Predefined(cloud'["source"]) = Predefined(cloud'["target"])
  BY <1>3 DEF Predefines, Tenant
<1>5. ASSUME NEW s \in Tenant, NEW j \in Key, cache[s][j] # None
      PROVE  /\ cache[s][j].system <=> IsSystem(cloud'[s], j)
             /\ \A i \in Key :
                  IsSystem(cloud'[s], i) /\ TypeOf(i) = TypeOf(j)
                    /\ cloud'[s][i].name = cache[s][j].name => i = j
  BY <1>3, <1>5 DEF Predefines
<1> QED
  BY <1>4, <1>5 DEF Predefines

\* An import reads predefined objects as such.
LEMMA PredefinedRead ==
  ASSUME Clouds, Caches, Predefines, UNCHANGED cloud, NEW t \in Tenant, NEW types, NEW fetched,
         cache' = Imported(t, types, fetched)
  PROVE  Predefines'
<1>1. /\ \A s \in Tenant : s # t => cache'[s] = cache[s]
      /\ \A k \in Key : cache'[t][k] = IF TypeOf(k) \notin types THEN cache[t][k]
                             ELSE IF TypeOf(k) \in fetched /\ cloud[t][k] # None
                                    THEN Row(cloud[t], k) ELSE None
  BY ImportedIs
<1>2. /\ cloud[t] \in [Key -> Object \cup {None}] /\ Sound(cloud[t])
      /\ \A s \in Key : cloud[t][s] # None => s \in Held(cloud[t])
  BY DEF Clouds, Held
<1>4. ASSUME NEW k \in Key, cloud[t][k] # None
      PROVE  Row(cloud[t], k).system <=> IsSystem(cloud[t], k)
  <2>1. Row(cloud[t], k).system = cloud[t][k].system /\ cloud[t][k].system \in BOOLEAN
    BY <1>2, <1>4, RowIs DEF Object
  <2> QED
    BY <1>4, <2>1 DEF IsSystem
<1>5. ASSUME NEW k \in Key, cloud[t][k] # None, NEW s \in Key, IsSystem(cloud[t], s),
             TypeOf(s) = TypeOf(k), cloud[t][s].name = Row(cloud[t], k).name
      PROVE  s = k
  <2>1. Row(cloud[t], k).name = cloud[t][k].name
    BY <1>2, <1>5, RowIs
  <2>2. s \in Held(cloud[t]) /\ k \in Held(cloud[t])
    BY <1>2, <1>5 DEF IsSystem
  <2> QED
    BY <1>2, <1>5, <2>1, <2>2 DEF Sound
<1>3. ASSUME NEW s \in Tenant, NEW k \in Key, cache'[s][k] # None
      PROVE  /\ cache'[s][k].system <=> IsSystem(cloud[s], k)
             /\ \A j \in Key :
                  IsSystem(cloud[s], j) /\ TypeOf(j) = TypeOf(k)
                    /\ cloud[s][j].name = cache'[s][k].name => j = k
  <2>1. CASE cache'[s][k] = cache[s][k]
    BY <1>3, <2>1 DEF Predefines
  <2>2. CASE s = t /\ cloud[t][k] # None /\ cache'[s][k] = Row(cloud[t], k)
    <3>1. cache'[s][k].system <=> IsSystem(cloud[s], k)
      BY <1>4, <2>2 DEF IsSystem
    <3>2. ASSUME NEW j \in Key, IsSystem(cloud[s], j), TypeOf(j) = TypeOf(k),
                 cloud[s][j].name = cache'[s][k].name
          PROVE  j = k
      BY <1>5, <2>2, <3>2
    <3> QED
      BY <3>1, <3>2 DEF IsSystem
  <2> QED
    BY <1>1, <1>3, <2>1, <2>2
<1> QED
  BY <1>3 DEF Predefines

\* A record never lands on what is predefined, nor does it make any.
LEMMA LandsBeside ==
  ASSUME Clouds, Caches, Runs, Predefines, NEW r, Booked(r), NEW k \in Key, Lands(r, k)
  PROVE  /\ ~IsSystem(cloud["target"], k)
         /\ Outcome(r) \in Object \cup {None} /\ (Outcome(r) # None => ~Outcome(r).system)
<1>1. Pulled /\ r.type \in Type
  BY TypesAre DEF Runs, Booked
<1>2. ~IsSystem(cloud["target"], k)
  <2>1. CASE r.op = "create"
    BY <2>1 DEF Lands, IsSystem
  <2>2. CASE r.op # "create"
    <3>1. k = r.at /\ r.at \in Rows(Target, r.type)
      BY <1>1, <2>2, BookedAt DEF Lands
    <3>2. Target[k] # None /\ ~Target[k].system
      BY <1>1, <3>1, RowsAre, NoneIs
    <3> QED
      BY <3>2 DEF Predefines, Target, Tenant
  <2> QED
    BY <2>1, <2>2
<1> QED
  BY <1>2, PayloadIs DEF Outcome

LEMMA InitPredefines ==
  ASSUME Init
  PROVE  Predefines
<1>1. Shaped /\ Clouds /\ Caches
  BY InitShapes DEF Shaped
<1>2. Predefined(cloud["source"]) = Predefined(cloud["target"])
  BY WorldsAssumption DEF Init
<1>3. \A t \in Tenant, k \in Key : cache[t][k] # None =>
         cloud[t][k] # None /\ cache[t][k] = Row(cloud[t], k)
  BY DEF Init, Mirror
<1>4. ASSUME NEW t \in Tenant, NEW k \in Key, cache[t][k] # None
      PROVE  cache[t][k].system <=> IsSystem(cloud[t], k)
  <2>1. Sound(cloud[t]) /\ cloud[t][k] # None /\ cloud[t][k] \in Object
    BY <1>1, <1>3, <1>4 DEF Clouds
  <2>2. cache[t][k].system = cloud[t][k].system /\ cloud[t][k].system \in BOOLEAN
    BY <1>3, <1>4, <2>1, RowIs DEF Object
  <2> QED
    BY <2>1, <2>2 DEF IsSystem
<1>5. ASSUME NEW t \in Tenant, NEW k \in Key, cache[t][k] # None, NEW s \in Key,
             IsSystem(cloud[t], s), TypeOf(s) = TypeOf(k),
             cloud[t][s].name = cache[t][k].name
      PROVE  s = k
  <2>1. /\ Sound(cloud[t]) /\ cloud[t][k] # None /\ cloud[t][s] # None
        /\ cloud[t] \in [Key -> Object \cup {None}]
    BY <1>1, <1>3, <1>5 DEF Clouds, IsSystem
  <2>2. cache[t][k].name = cloud[t][k].name
    BY <1>3, <1>5, <2>1, RowIs
  <2>3. s \in Held(cloud[t]) /\ k \in Held(cloud[t])
    BY <2>1 DEF Held
  <2> QED
    BY <1>5, <2>1, <2>2, <2>3 DEF Sound
<1> QED
  BY <1>2, <1>4, <1>5 DEF Predefines

\* Only the turn of a record and an operator change a tenant; else the cache
\* is imported or left as it is.
LEMMA TenantsChange ==
  ASSUME [Next]_vars
  PROVE  \/ ApplyOne
         \/ EditTenant
         \/ UNCHANGED <<cloud, cache>>
         \/ /\ UNCHANGED cloud
            /\ \E t \in Tenant : \E types, fetched : cache' = Imported(t, types, fetched)
<1>1. Start \/ CloseDone \/ Diff \/ Report \/ Break \/ Stop => UNCHANGED <<cloud, cache>>
  BY DEF Start, CloseDone, Diff, Report, Break, Stop
<1>2. ASSUME ImportSource \/ ImportTarget \/ CloseMore \/ ImportPulled \/ ImportResolved \/ Reimport
      PROVE  /\ UNCHANGED cloud
             /\ \E t \in Tenant : \E types, fetched : cache' = Imported(t, types, fetched)
  BY <1>2 DEF ImportSource, ImportTarget, CloseMore, ImportPulled, ImportResolved, Reimport,
              Import, Tenant
<1>3. UNCHANGED vars => UNCHANGED <<cloud, cache>>
  BY DEF vars
<1> QED
  BY <1>1, <1>2, <1>3 DEF Next, Pipeline

LEMMA NextPredefines ==
  ASSUME Shaped, Predefines, [Next]_vars
  PROVE  Predefines'
<1>1. Clouds /\ Caches /\ Runs /\ Clouds' /\ Caches'
  BY NextShapes DEF Shaped
<1>2. CASE ApplyOne
  <2>1. PICK r \in run.left : Turns(r)
    BY <1>2, ApplyTurns
  <2>2. UNCHANGED cache /\ Booked(r)
    BY <2>1, TurnIs DEF Turns
  <2>3. CASE UNCHANGED cloud
    BY <2>2, <2>3 DEF Predefines
  <2>4. ASSUME NEW k \in Key, Lands(r, k)
        PROVE  Predefines'
    <3>1. /\ ~IsSystem(cloud["target"], k)
          /\ Outcome(r) \in Object \cup {None} /\ (Outcome(r) # None => ~Outcome(r).system)
          /\ cloud' = [cloud EXCEPT !["target"][k] = Outcome(r)] /\ "target" \in Tenant
      BY <1>1, <2>2, <2>4, LandsBeside DEF Lands, Tenant
    <3> QED
      BY <1>1, <2>2, <3>1, PredefinedStays
  <2> QED
    BY <2>1, <2>3, <2>4 DEF Turns
<1>3. CASE EditTenant
  <2>1. PICK e \in Edits :
          /\ Fits(cloud[e.tenant], e.at, e.object)
          /\ cloud[e.tenant][e.at] # None => ~cloud[e.tenant][e.at].system
          /\ cloud' = [cloud EXCEPT ![e.tenant][e.at] = e.object]
    BY <1>3 DEF EditTenant
  <2>2. UNCHANGED cache
    BY <1>3 DEF EditTenant
  <2>3. /\ e.tenant \in Tenant /\ e.at \in Key /\ e.object \in Object \cup {None}
        /\ e.object # None => ~e.object.system
    BY EditsAssumption
  <2>4. ~IsSystem(cloud[e.tenant], e.at)
    BY <2>1 DEF IsSystem
  <2> QED
    BY <1>1, <2>1, <2>2, <2>3, <2>4, PredefinedStays
<1>4. CASE UNCHANGED <<cloud, cache>>
  BY <1>4 DEF Predefines
<1>5. CASE UNCHANGED cloud /\ \E t \in Tenant : \E types, fetched : cache' = Imported(t, types, fetched)
  <2>1. PICK t \in Tenant : \E types, fetched : cache' = Imported(t, types, fetched)
    BY <1>5
  <2>2. PICK types, fetched : cache' = Imported(t, types, fetched)
    BY <2>1
  <2> QED
    BY <1>1, <1>5, <2>2, PredefinedRead
<1> QED
  BY <1>2, <1>3, <1>4, <1>5, TenantsChange

---------------------------------------------------------------------------
(* What the run has read.                                                  *)

(* A tenant as an import sees it; rows that are that for some types.       *)
View(m) == [k \in Key |-> IF m[k] = None THEN None ELSE Row(m, k)]
Reflects(rows, m, T) == \A k \in Key : TypeOf(k) \in T => rows[k] = View(m)[k]

Closing == {"pulled", "resolve", "diff", "apply", "report"}
Succeeds == At("done") /\ ~run.errors

SourceRead == IF run.at \in {"target", "close"} \cup Closing \/ Succeeds THEN run.loaded ELSE {}
TargetRead ==
  UNION {IF run.at \in {"close", "pulled", "resolve", "diff"} THEN Selected ELSE {},
         IF run.at \in {"resolve", "diff"} THEN PulledTypes(run) ELSE {},
         IF run.at = "diff" THEN run.resolve ELSE {}}

(* While nobody edits and nothing fails, what was read reflects the tenant. *)
Quiet == run.clean /\ run.quiet
Fresh == Quiet => /\ Reflects(cache["source"], cloud["source"], SourceRead)
                  /\ Reflects(cache["target"], cloud["target"], TargetRead)

(* The closure is closed: the walk would pull in nothing else.             *)
Closed ==
  run.at \in Closing \/ Succeeds =>
    /\ run.pulled = Walk(run).pulled /\ Walk(run).missing = {}
    /\ Walk(run).resolve \subseteq run.resolve /\ Selected \subseteq run.loaded

(* What a run starts with.                                                 *)
Early ==
  /\ run.at \notin {"apply", "report", "done"} => run.created = {} /\ run.given = {}
  /\ run.at \in {"source", "target"} => run.loaded = Selected
  /\ At("close") => Selected \subseteq run.loaded

Reads == Fresh /\ Closed /\ Early

\* An import that fetches everything makes its types reflect the tenant.
LEMMA ReflectsMore ==
  ASSUME NEW rows, NEW new, NEW m, NEW types, NEW T, NEW U, U \subseteq T \cup types,
         \A k \in Key : new[k] = IF TypeOf(k) \in types THEN View(m)[k] ELSE rows[k],
         Reflects(rows, m, T)
  PROVE  Reflects(new, m, U)
BY DEF Reflects

\* The walk sees the source's rows, the label and what was read.
LEMMA WalkStays ==
  ASSUME cache'["source"] = cache["source"], run'.label = run.label, run'.loaded = run.loaded
  PROVE  Walk(run)' = Walk(run)
<1>1. Source' = Source
  BY DEF Source
<1>2. Seeds(run)' = Seeds(run)
  BY <1>1 DEF Seeds, Held
<1>3. \A K : RefsOf(K)' = RefsOf(K)
  BY <1>1 DEF RefsOf
<1>4. \A K, loaded : Follow(K, loaded)' = Follow(K, loaded)
  BY <1>1, <1>3 DEF Follow
<1> QED
  BY <1>1, <1>2, <1>3, <1>4 DEF Walk

\* An import goes on with w; if it is still clean, it fetched everything.
LEMMA ImportGoes ==
  ASSUME Shaped, NEW t \in Tenant, NEW types \in SUBSET Type, NEW w \in RunState,
         Import(t, types, w)
  PROVE  /\ run' = [w EXCEPT !.clean = run'.clean] /\ run'.clean \in BOOLEAN
         /\ run'.clean => w.clean
         /\ UNCHANGED <<cloud, steady>> /\ \A s \in Tenant : s # t => cache'[s] = cache[s]
         /\ run'.clean => \A k \in Key :
              cache'[t][k] = IF TypeOf(k) \in types THEN View(cloud[t])[k] ELSE cache[t][k]
<1>1. PICK failed \in SUBSET types :
        /\ cache' = Imported(t, types, types \ failed)
        /\ run' = [w EXCEPT !.clean = @ /\ failed = {}]
        /\ UNCHANGED <<cloud, steady, runs, edits>>
  BY DEF Import
<1>2. Clouds /\ Caches
  BY DEF Shaped
<1>3. /\ run'.clean = (w.clean /\ failed = {}) /\ run' = [w EXCEPT !.clean = run'.clean]
  BY <1>1 DEF RunState
<1>4. w.clean \in BOOLEAN
  BY DEF RunState
<1>5. \A s \in Tenant : s # t => cache'[s] = cache[s]
  BY <1>1, <1>2, ImportedIs
<1>6. ASSUME run'.clean, NEW k \in Key
      PROVE  cache'[t][k] = IF TypeOf(k) \in types THEN View(cloud[t])[k] ELSE cache[t][k]
  <2>1. types \ failed = types
    BY <1>3, <1>6
  <2>2. cache'[t][k] = IF TypeOf(k) \notin types THEN cache[t][k]
                       ELSE IF TypeOf(k) \in types /\ cloud[t][k] # None
                              THEN Row(cloud[t], k) ELSE None
    BY <1>1, <1>2, <2>1, ImportedIs
  <2> QED
    BY <2>2 DEF View
<1> QED
  BY <1>1, <1>3, <1>4, <1>5, <1>6

\* The run as an import leaves it.
LEMMA RunGoes ==
  ASSUME NEW w \in RunState, run' = [w EXCEPT !.clean = run'.clean]
  PROVE  /\ run'.at = w.at /\ run'.label = w.label /\ run'.deletes = w.deletes
         /\ run'.loaded = w.loaded /\ run'.pulled = w.pulled /\ run'.resolve = w.resolve
         /\ run'.left = w.left /\ run'.created = w.created /\ run'.errors = w.errors
         /\ run'.quiet = w.quiet /\ run'.given = w.given
BY DEF RunState

\* The run as a step to another stage leaves it.
LEMMA StageGoes ==
  ASSUME run \in RunState, NEW stage \in Stage
  PROVE  LET w == [run EXCEPT !.at = stage]
         IN  /\ w \in RunState /\ w.at = stage /\ w.label = run.label /\ w.deletes = run.deletes
             /\ w.loaded = run.loaded /\ w.pulled = run.pulled /\ w.resolve = run.resolve
             /\ w.left = run.left /\ w.created = run.created /\ w.errors = run.errors
             /\ w.quiet = run.quiet /\ w.given = run.given /\ w.clean = run.clean
BY DEF RunState

\* An import that only moves the run on.
LEMMA StageImports ==
  ASSUME Shaped, NEW t \in Tenant, NEW types \in SUBSET Type, NEW stage \in Stage,
         Import(t, types, [run EXCEPT !.at = stage])
  PROVE  /\ run'.at = stage /\ run'.label = run.label /\ run'.deletes = run.deletes
         /\ run'.loaded = run.loaded /\ run'.pulled = run.pulled /\ run'.resolve = run.resolve
         /\ run'.left = run.left /\ run'.created = run.created /\ run'.errors = run.errors
         /\ run'.given = run.given /\ (Quiet' => Quiet)
         /\ UNCHANGED <<cloud, steady>> /\ \A s \in Tenant : s # t => cache'[s] = cache[s]
         /\ Quiet' => \A k \in Key :
              cache'[t][k] = IF TypeOf(k) \in types THEN View(cloud[t])[k] ELSE cache[t][k]
<1> DEFINE w == [run EXCEPT !.at = stage]
<1>1. run \in RunState
  BY DEF Shaped, Runs
<1>2. /\ w \in RunState /\ w.at = stage /\ w.label = run.label /\ w.deletes = run.deletes
      /\ w.loaded = run.loaded /\ w.pulled = run.pulled /\ w.resolve = run.resolve
      /\ w.left = run.left /\ w.created = run.created /\ w.errors = run.errors
      /\ w.quiet = run.quiet /\ w.given = run.given /\ w.clean = run.clean
  BY <1>1, StageGoes
<1>3. Import(t, types, w)
  OBVIOUS
<1> HIDE DEF w
<1>4. /\ run' = [w EXCEPT !.clean = run'.clean] /\ run'.clean \in BOOLEAN
      /\ run'.clean => w.clean
      /\ UNCHANGED <<cloud, steady>> /\ \A s \in Tenant : s # t => cache'[s] = cache[s]
      /\ run'.clean => \A k \in Key :
              cache'[t][k] = IF TypeOf(k) \in types THEN View(cloud[t])[k] ELSE cache[t][k]
  BY <1>2, <1>3, ImportGoes
<1>5. /\ run'.at = w.at /\ run'.label = w.label /\ run'.deletes = w.deletes
      /\ run'.loaded = w.loaded /\ run'.pulled = w.pulled /\ run'.resolve = w.resolve
      /\ run'.left = w.left /\ run'.created = w.created /\ run'.errors = w.errors
      /\ run'.quiet = w.quiet /\ run'.given = w.given
  BY <1>2, <1>4, RunGoes
<1> QED
  BY <1>2, <1>4, <1>5 DEF Quiet

\* An import of the target that only moves the run on.
LEMMA TargetImports ==
  ASSUME Shaped, NEW types \in SUBSET Type, NEW stage \in Stage,
         Import("target", types, [run EXCEPT !.at = stage])
  PROVE  /\ run'.at = stage /\ run'.label = run.label /\ run'.deletes = run.deletes
         /\ run'.loaded = run.loaded /\ run'.pulled = run.pulled /\ run'.resolve = run.resolve
         /\ run'.left = run.left /\ run'.created = run.created /\ run'.errors = run.errors
         /\ run'.given = run.given /\ (Quiet' => Quiet)
         /\ UNCHANGED <<cloud, steady>> /\ cache'["source"] = cache["source"]
         /\ Quiet' => \A k \in Key :
              cache'["target"][k] = IF TypeOf(k) \in types THEN View(cloud["target"])[k]
                                                           ELSE cache["target"][k]
<1>1. "target" \in Tenant /\ "source" \in Tenant /\ "source" # "target"
  BY DEF Tenant
<1> QED
  BY <1>1, StageImports

\* The stages of reading: each import adds its types to what is read.
LEMMA ReadingReads ==
  ASSUME Shaped, Reads,
         ImportSource \/ ImportTarget \/ CloseMore \/ ImportPulled \/ ImportResolved \/ Reimport
  PROVE  Reads'
<1> USE DEF At
<1>1. /\ run \in RunState /\ Pulled /\ Caches /\ Clouds /\ Fresh /\ Closed /\ Early
      /\ AllTypes(run) \subseteq Type /\ PulledTypes(run) \subseteq Type
      /\ run.resolve \subseteq Type /\ Selected \subseteq Type
  BY TypesAre, SelectedAssumption DEF Shaped, Runs, Reads, AllTypes, RunState
<1>2. "source" \in Tenant /\ "target" \in Tenant /\ "source" # "target"
      /\ {"target", "close", "resolve", "diff", "report"} \subseteq Stage
  BY DEF Tenant, Stage
<1>3. CASE ImportSource
  <2>1. Import("source", Selected, [run EXCEPT !.at = "target"]) /\ run.at = "source"
    BY <1>3 DEF ImportSource
  <2>2. /\ run'.at = "target" /\ run'.loaded = run.loaded
        /\ run'.created = run.created /\ run'.given = run.given /\ UNCHANGED cloud
        /\ Quiet' => \A k \in Key : cache'["source"][k] =
             IF TypeOf(k) \in Selected THEN View(cloud["source"])[k] ELSE cache["source"][k]
    BY <1>1, <1>2, <2>1, StageImports
  <2>3. run.loaded = Selected /\ run.created = {} /\ run.given = {}
    BY <1>1, <2>1 DEF Early
  <2>4. SourceRead' = Selected /\ TargetRead' = {}
    BY <2>2, <2>3 DEF SourceRead, TargetRead
  <2>5. Fresh'
    BY <2>2, <2>4 DEF Fresh, Reflects
  <2> QED
    BY <2>2, <2>3, <2>5 DEF Reads, Closed, Early, Closing, Succeeds
<1>4. CASE ImportTarget
  <2>1. Import("target", Selected, [run EXCEPT !.at = "close"]) /\ run.at = "target"
    BY <1>4 DEF ImportTarget
  <2>2. /\ run'.at = "close" /\ run'.loaded = run.loaded /\ (Quiet' => Quiet)
        /\ run'.created = run.created /\ run'.given = run.given /\ UNCHANGED cloud
        /\ cache'["source"] = cache["source"]
        /\ Quiet' => \A k \in Key : cache'["target"][k] =
             IF TypeOf(k) \in Selected THEN View(cloud["target"])[k] ELSE cache["target"][k]
    BY <1>1, <1>2, <2>1, TargetImports
  <2>3. run.loaded = Selected /\ run.created = {} /\ run.given = {} /\ SourceRead = Selected
    BY <1>1, <2>1 DEF Early, SourceRead
  <2>4. SourceRead' = Selected /\ TargetRead' = Selected
    BY <2>2, <2>3 DEF SourceRead, TargetRead
  <2>5. Fresh'
    BY <1>1, <2>2, <2>3, <2>4 DEF Fresh, Reflects
  <2> QED
    BY <2>2, <2>3, <2>5 DEF Reads, Closed, Early, Closing, Succeeds
<1>5. CASE CloseMore
  <2> DEFINE walk == Walk(run)
             w == [run EXCEPT !.loaded = @ \cup walk.missing,
                              !.resolve = @ \cup walk.resolve]
  <2>1. Import("source", walk.missing, w) /\ run.at = "close"
    BY <1>5 DEF CloseMore
  <2>2. walk.missing \subseteq Type /\ walk.resolve \subseteq Type
    BY <1>1, WalkIs DEF Replicable, Type
  <2> HIDE DEF walk
  <2>3. /\ w \in RunState /\ w.at = "close" /\ w.loaded = run.loaded \cup walk.missing
        /\ w.created = run.created /\ w.given = run.given /\ w.quiet = run.quiet
        /\ w.clean = run.clean
    BY <1>1, <2>1, <2>2 DEF RunState
  <2> HIDE DEF w
  <2>4. /\ run' = [w EXCEPT !.clean = run'.clean] /\ (run'.clean => w.clean)
        /\ UNCHANGED cloud /\ cache'["target"] = cache["target"]
        /\ run'.clean => \A k \in Key : cache'["source"][k] =
             IF TypeOf(k) \in walk.missing THEN View(cloud["source"])[k] ELSE cache["source"][k]
    BY <1>2, <2>1, <2>2, <2>3, ImportGoes
  <2>5. /\ run'.at = "close" /\ run'.loaded = run.loaded \cup walk.missing
        /\ run'.created = run.created /\ run'.given = run.given /\ run'.quiet = run.quiet
    BY <2>3, <2>4, RunGoes
  <2>6. SourceRead = run.loaded /\ TargetRead = Selected
    BY <2>1 DEF SourceRead, TargetRead
  <2>7. SourceRead' = run.loaded \cup walk.missing /\ TargetRead' = Selected
    BY <2>5 DEF SourceRead, TargetRead
  <2>8. Fresh'
    BY <1>1, <2>3, <2>4, <2>5, <2>6, <2>7 DEF Fresh, Reflects, Quiet
  <2>9. run.created = {} /\ run.given = {} /\ Selected \subseteq run.loaded
    BY <1>1, <2>1 DEF Early
  <2> QED
    BY <2>5, <2>8, <2>9 DEF Reads, Closed, Early, Closing, Succeeds
<1>6. ASSUME NEW types \in SUBSET Type, NEW stage \in {"resolve", "diff", "report"},
             Import("target", types, [run EXCEPT !.at = stage]),
             run.at \in {"pulled", "resolve", "diff", "apply"},
             run.at \in {"pulled", "resolve", "diff"} \/ stage = "report",
             LET read == UNION {IF stage \in {"resolve", "diff"} THEN Selected ELSE {},
                                IF stage \in {"resolve", "diff"} THEN PulledTypes(run) ELSE {},
                                IF stage = "diff" THEN run.resolve ELSE {}}
             IN  read \subseteq TargetRead \cup types
      PROVE  Reads'
  <2>1. stage \in Stage /\ Import("target", types, [run EXCEPT !.at = stage])
    BY <1>2, <1>6
  <2>2. /\ run'.at = stage /\ run'.label = run.label /\ run'.loaded = run.loaded
        /\ run'.pulled = run.pulled /\ run'.resolve = run.resolve /\ (Quiet' => Quiet)
        /\ run'.created = run.created /\ run'.given = run.given /\ UNCHANGED cloud
        /\ cache'["source"] = cache["source"]
        /\ Quiet' => \A k \in Key : cache'["target"][k] =
             IF TypeOf(k) \in types THEN View(cloud["target"])[k] ELSE cache["target"][k]
    BY <2>1, TargetImports
  <2>3. SourceRead = run.loaded /\ SourceRead' = run.loaded
    BY <1>6, <2>2 DEF SourceRead, Closing
  <2>4. TargetRead' \subseteq TargetRead \cup types
    <3>1. PulledTypes(run)' = PulledTypes(run)
      BY <2>2 DEF PulledTypes
    <3>2. TargetRead' = UNION {IF stage \in {"resolve", "diff"} THEN Selected ELSE {},
                               IF stage \in {"resolve", "diff"} THEN PulledTypes(run) ELSE {},
                               IF stage = "diff" THEN run.resolve ELSE {}}
      BY <1>6, <2>2, <3>1 DEF TargetRead
    <3> QED
      BY <1>6, <3>2
  <2>5. Fresh'
    BY <1>1, <2>2, <2>3, <2>4 DEF Fresh, Reflects
  <2>6. Walk(run)' = Walk(run)
    BY <2>2, WalkStays
  <2>7. Closed'
    BY <1>1, <1>6, <2>2, <2>6 DEF Closed, Closing
  <2>8. Early'
    BY <1>1, <1>6, <2>2 DEF Early
  <2> QED
    BY <2>5, <2>7, <2>8 DEF Reads
<1>7. CASE ImportPulled
  <2>1. Import("target", PulledTypes(run), [run EXCEPT !.at = "resolve"]) /\ run.at = "pulled"
    BY <1>7 DEF ImportPulled
  <2>2. TargetRead = Selected
    BY <2>1 DEF TargetRead
  <2> QED
    BY <1>1, <1>6, <2>1, <2>2
<1>8. CASE ImportResolved
  <2>1. Import("target", run.resolve, [run EXCEPT !.at = "diff"]) /\ run.at = "resolve"
    BY <1>8 DEF ImportResolved
  <2>2. TargetRead = Selected \cup PulledTypes(run)
    BY <2>1 DEF TargetRead
  <2> QED
    BY <1>1, <1>6, <2>1, <2>2
<1>9. CASE Reimport
  <2>1. Import("target", AllTypes(run), [run EXCEPT !.at = "report"]) /\ run.at = "apply"
    BY <1>9 DEF Reimport
  <2> QED
    BY <1>1, <1>6, <2>1
<1> QED
  BY <1>3, <1>4, <1>5, <1>7, <1>8, <1>9

\* The other steps keep what was read.
LEMMA OtherReads ==
  ASSUME Shaped, Reads,
         Start \/ CloseDone \/ Diff \/ ApplyOne \/ Report \/ Break \/ Stop \/ EditTenant
           \/ UNCHANGED vars
  PROVE  Reads'
<1> USE DEF At
<1>1. /\ run \in RunState /\ Pulled /\ Caches /\ Clouds /\ Fresh /\ Closed /\ Early
  BY DEF Shaped, Runs, Reads
<1>2. \A rows, m : Reflects(rows, m, {})
  BY DEF Reflects
<1>3. CASE Start
  <2>1. PICK label, deletes \in BOOLEAN :
          run' = [Idle EXCEPT !.at = "source", !.label = label,
                              !.deletes = deletes, !.loaded = Selected]
    BY <1>3 DEF Start
  <2>2. /\ run'.at = "source" /\ run'.created = {} /\ run'.given = {} /\ run'.loaded = Selected
    BY <2>1 DEF Idle
  <2>3. SourceRead' = {} /\ TargetRead' = {}
    BY <2>2 DEF SourceRead, TargetRead, Closing, Succeeds
  <2> QED
    BY <1>2, <2>2, <2>3 DEF Reads, Fresh, Closed, Early, Closing, Succeeds
<1>4. CASE CloseDone
  <2>1. /\ run.at = "close" /\ Walk(run).missing = {}
        /\ run' = [run EXCEPT !.at = "pulled", !.pulled = Walk(run).pulled,
                              !.resolve = @ \cup Walk(run).resolve]
        /\ UNCHANGED <<cloud, cache>>
    BY <1>4 DEF CloseDone
  <2>2. /\ run'.at = "pulled" /\ run'.label = run.label /\ run'.loaded = run.loaded
        /\ run'.pulled = Walk(run).pulled /\ run'.resolve = run.resolve \cup Walk(run).resolve
        /\ run'.created = run.created /\ run'.given = run.given
        /\ run'.clean = run.clean /\ run'.quiet = run.quiet
    BY <1>1, <2>1 DEF RunState
  <2>3. Walk(run)' = Walk(run)
    BY <2>1, <2>2, WalkStays
  <2>4. SourceRead' = SourceRead /\ TargetRead' = TargetRead
    BY <2>1, <2>2 DEF SourceRead, TargetRead, Closing
  <2>5. Fresh'
    BY <1>1, <2>1, <2>2, <2>4 DEF Fresh, Quiet
  <2> QED
    BY <1>1, <2>1, <2>2, <2>3, <2>5 DEF Reads, Closed, Early
<1>5. ASSUME run' \in RunState, UNCHANGED cache, run'.loaded = run.loaded,
             cloud'["source"] = cloud["source"] \/ ~run'.quiet,
             run'.clean = run.clean, run'.quiet => run.quiet, run'.label = run.label,
             run'.pulled = run.pulled, run'.resolve = run.resolve,
             \/ /\ run'.at = run.at
                /\ run.at = "apply" \/ /\ run'.errors = run.errors /\ run'.created = run.created
                                       /\ run'.given = run.given
                                       /\ cloud' = cloud \/ ~run'.quiet
             \/ run.at = "diff" /\ run'.at = "apply"
             \/ run.at = "report" /\ run'.at = "done"
             \/ run'.at = "done" /\ run'.errors
      PROVE  Reads'
  <2>1. Walk(run)' = Walk(run) /\ PulledTypes(run)' = PulledTypes(run)
    BY <1>5, WalkStays DEF PulledTypes
  <2>2. SourceRead' \subseteq SourceRead
    BY <1>5 DEF SourceRead, Closing, Succeeds
  <2>3. TargetRead' = {} \/ (TargetRead' = TargetRead /\ (cloud' = cloud \/ ~run'.quiet))
    BY <1>5, <2>1 DEF TargetRead
  <2>4. Quiet' => /\ Reflects(cache["source"], cloud["source"], SourceRead')
                  /\ cloud'["source"] = cloud["source"]
    BY <1>1, <1>5, <2>2 DEF Fresh, Quiet, Reflects
  <2>5. Fresh'
    <3>1. CASE TargetRead' = {}
      BY <1>2, <1>5, <2>4, <3>1 DEF Fresh
    <3>2. CASE TargetRead' = TargetRead /\ (cloud' = cloud \/ ~run'.quiet)
      BY <1>1, <1>5, <2>4, <3>2 DEF Fresh, Quiet
    <3> QED
      BY <2>3, <3>1, <3>2
  <2>6. Closed'
    BY <1>1, <1>5, <2>1 DEF Closed, Closing, Succeeds
  <2>7. Early'
    BY <1>1, <1>5 DEF Early
  <2> QED
    BY <2>5, <2>6, <2>7 DEF Reads
<1>6. Shaped'
  <2>1. [Next]_vars
    BY DEF Next, Pipeline
  <2> QED
    BY <2>1, NextShapes
<1>7. run' \in RunState
  BY <1>6 DEF Shaped, Runs
<1>8. CASE Diff
  <2>1. /\ run' = [run EXCEPT !.at = "apply", !.left = Batch(run)]
        /\ UNCHANGED <<cloud, cache>> /\ run.at = "diff"
    BY <1>8 DEF Diff
  <2>2. /\ run'.at = "apply" /\ run'.label = run.label /\ run'.loaded = run.loaded
        /\ run'.pulled = run.pulled /\ run'.resolve = run.resolve
        /\ run'.clean = run.clean /\ run'.quiet = run.quiet
    BY <1>1, <2>1 DEF RunState
  <2> QED
    BY <1>5, <1>7, <2>1, <2>2
<1>9. CASE ApplyOne
  <2>1. PICK r \in run.left : Turns(r)
    BY <1>9, ApplyTurns
  <2>2. /\ run'.at = run.at /\ run'.label = run.label /\ run'.loaded = run.loaded
        /\ run'.pulled = run.pulled /\ run'.resolve = run.resolve
        /\ run'.clean = run.clean /\ run'.quiet = run.quiet
    BY <2>1, TurnIs
  <2>3. run.at = "apply" /\ UNCHANGED cache /\ run'.errors \in BOOLEAN
    BY <2>1 DEF Turns
  <2>4. cloud'["source"] = cloud["source"]
    BY <1>1, <2>1, LandsAt DEF Turns
  <2> QED
    BY <1>5, <1>7, <2>2, <2>3, <2>4
<1>10. CASE Report
  <2>1. /\ run' = [run EXCEPT !.at = "done"]
        /\ UNCHANGED <<cloud, cache>> /\ run.at = "report"
    BY <1>10 DEF Report
  <2>2. /\ run'.at = "done" /\ run'.label = run.label /\ run'.loaded = run.loaded
        /\ run'.pulled = run.pulled /\ run'.resolve = run.resolve
        /\ run'.clean = run.clean /\ run'.quiet = run.quiet
    BY <1>1, <2>1 DEF RunState
  <2> QED
    BY <1>5, <1>7, <2>1, <2>2
<1>11. CASE Break
  <2>1. /\ run' = [run EXCEPT !.at = "done", !.errors = TRUE] /\ UNCHANGED <<cloud, cache>>
    BY <1>11 DEF Break
  <2>2. /\ run'.at = "done" /\ run'.errors /\ run'.label = run.label /\ run'.loaded = run.loaded
        /\ run'.pulled = run.pulled /\ run'.resolve = run.resolve
        /\ run'.clean = run.clean /\ run'.quiet = run.quiet
    BY <1>1, <2>1 DEF RunState
  <2> QED
    BY <1>5, <1>7, <2>1, <2>2
<1>12. CASE Stop
  <2>1. run'.at = "idle" /\ run'.created = {} /\ run'.given = {}
    BY <1>12 DEF Stop, Idle
  <2>2. SourceRead' = {} /\ TargetRead' = {}
    BY <2>1 DEF SourceRead, TargetRead, Closing, Succeeds
  <2> QED
    BY <1>2, <2>1, <2>2 DEF Reads, Fresh, Closed, Early, Closing, Succeeds
<1>13. CASE EditTenant
  <2>1. run' = [run EXCEPT !.quiet = FALSE] /\ UNCHANGED cache
    BY <1>13 DEF EditTenant
  <2>2. /\ run'.at = run.at /\ run'.label = run.label /\ run'.loaded = run.loaded
        /\ run'.pulled = run.pulled /\ run'.resolve = run.resolve
        /\ run'.created = run.created /\ run'.given = run.given /\ run'.errors = run.errors
        /\ run'.clean = run.clean /\ ~run'.quiet /\ run'.errors \in BOOLEAN
    BY <1>1, <2>1 DEF RunState
  <2> QED
    BY <1>5, <1>7, <2>1, <2>2
<1>14. CASE UNCHANGED vars
  BY <1>1, <1>5, <1>14 DEF vars, RunState
<1> QED
  BY <1>3, <1>4, <1>8, <1>9, <1>10, <1>11, <1>12, <1>13, <1>14

LEMMA NextReads ==
  ASSUME Shaped, Reads, [Next]_vars
  PROVE  Reads'
BY ReadingReads, OtherReads DEF Next, Pipeline

LEMMA InitReads ==
  ASSUME Init
  PROVE  Reads
<1>1. /\ run.at = "idle" /\ run.created = {} /\ run.given = {}
  BY DEF Init, Idle
<1>2. SourceRead = {} /\ TargetRead = {}
  BY <1>1 DEF SourceRead, TargetRead, Closing, Succeeds, At
<1> QED
  BY <1>1, <1>2 DEF Reads, Fresh, Closed, Early, Closing, Succeeds, At, Reflects

---------------------------------------------------------------------------
(* What the closure comes to.                                              *)

(* What the task covers of a tenant; what its objects refer to and the     *)
(* walk may follow; what a run carries over.                               *)
Covers(m, label) ==
  {j \in Held(m) : ~m[j].system /\ TypeOf(j) \in Selected /\ (label => m[j].label)}
RefsIn(m, K) == UNION {m[k].refs : k \in K}
FollowIn(m, K) == {k \in RefsIn(m, K) : TypeOf(k) \in Replicable /\ ~m[k].system}
Near(m, label) == FollowIn(m, Covers(m, label))
Needs(m, label) ==
  Covers(m, label) \cup
    {k \in Near(m, label) \cup FollowIn(m, Near(m, label)) : TypeOf(k) \notin Selected}

Here == cloud["source"]
There == cloud["target"]

(* The types whose names are looked up on the target.                      *)
Known == AllTypes(run) \cup run.resolve

(* The run has read the source and closed the selection.                   *)
Planned == Shaped /\ Reads /\ Predefines /\ Quiet /\ (run.at \in Closing \/ Succeeds)

\* What a view holds.
LEMMA ViewIs ==
  ASSUME NEW m, Sound(m), NEW k \in Key
  PROVE  /\ View(m)[k] = None <=> m[k] = None
         /\ m[k] # None =>
              /\ View(m)[k] = Row(m, k) /\ m[k] \in Object
              /\ View(m)[k].name = m[k].name /\ View(m)[k].content = m[k].content
              /\ View(m)[k].label = m[k].label /\ View(m)[k].on = m[k].on
              /\ View(m)[k].system = m[k].system
              /\ {r[1] : r \in View(m)[k].refs} = m[k].refs
              /\ Named(View(m)[k]) = {<<TypeOf(r), m[r].name>> : r \in m[k].refs}
              /\ \A r \in m[k].refs : r \in Key /\ m[r] # None /\ Tier[TypeOf(r)] < Tier[TypeOf(k)]
<1>1. View(m)[k] = IF m[k] = None THEN None ELSE Row(m, k)
  BY DEF View
<1>2. CASE m[k] = None
  BY <1>1, <1>2
<1>3. CASE m[k] # None
  <2> DEFINE row == Row(m, k)
  <2>1. /\ row \in Stored /\ row # None
        /\ row.name = m[k].name /\ row.content = m[k].content /\ row.label = m[k].label
        /\ row.on = m[k].on /\ row.system = m[k].system
        /\ row.refs = {<<r, m[r].name>> : r \in m[k].refs}
        /\ Named(row) = {<<TypeOf(r), m[r].name>> : r \in m[k].refs}
        /\ \A r \in m[k].refs : r \in Key /\ m[r] # None /\ m[r] \in Object
    BY <1>3, RowIs
  <2>2. View(m)[k] = row /\ m[k] \in Object /\ Lower(k, m[k])
    BY <1>1, <1>3 DEF Sound, Held
  <2> HIDE DEF row
  <2>3. {r[1] : r \in row.refs} = m[k].refs
    <3>1. ASSUME NEW r \in m[k].refs
          PROVE  \E q \in row.refs : r = q[1]
      <4>1. <<r, m[r].name>> \in row.refs /\ r = <<r, m[r].name>>[1]
        BY <2>1
      <4> QED
        BY <4>1
    <3>2. ASSUME NEW q \in row.refs
          PROVE  q[1] \in m[k].refs
      BY <2>1
    <3> QED
      BY <3>1, <3>2
  <2> QED
    BY <1>3, <2>1, <2>2, <2>3 DEF Lower, row
<1> QED
  BY <1>2, <1>3

\* A row of a type that was read from the source.
LEMMA SourceIs ==
  ASSUME Planned, NEW k \in Key, TypeOf(k) \in run.loaded
  PROVE  Source[k] = View(Here)[k] /\ Sound(Here) /\ Here \in [Key -> Object \cup {None}]
<1>1. SourceRead = run.loaded
  BY DEF Planned, SourceRead
<1>2. Reflects(cache["source"], cloud["source"], run.loaded)
  BY <1>1 DEF Planned, Reads, Fresh
<1> QED
  BY <1>2 DEF Reflects, Source, Here, Planned, Shaped, Clouds, Tenant

\* What the walk follows, if it has read what it meets.
LEMMA FollowIs ==
  ASSUME Planned, NEW K \in SUBSET Key,
         \A k \in K : Source[k] # None /\ TypeOf(k) \in run.loaded,
         \A k \in RefsOf(K) : TypeOf(k) \in Replicable => TypeOf(k) \in run.loaded
  PROVE  /\ RefsOf(K) = RefsIn(Here, K) /\ Follow(K, run.loaded) = FollowIn(Here, K)
         /\ \A k \in K : Here[k] # None
         /\ \A k \in FollowIn(Here, K) : /\ k \in Key /\ Source[k] # None /\ TypeOf(k) \in run.loaded
                                         /\ Here[k] # None
<1>1. \A k \in K : /\ Here[k] # None /\ {r[1] : r \in Source[k].refs} = Here[k].refs
                   /\ \A r \in Here[k].refs : r \in Key /\ Here[r] # None
  BY SourceIs, ViewIs
<1>2. RefsOf(K) = RefsIn(Here, K)
  <2>1. \A x : x \in RefsOf(K) <=> \E k \in K : x \in {r[1] : r \in Source[k].refs}
    BY DEF RefsOf
  <2>2. \A x : x \in RefsIn(Here, K) <=> \E k \in K : x \in Here[k].refs
    BY DEF RefsIn
  <2> QED
    BY <1>1, <2>1, <2>2
<1>3. \A k \in RefsIn(Here, K) : k \in Key /\ Here[k] # None
  BY <1>1 DEF RefsIn
<1>4. \A k \in RefsIn(Here, K) : TypeOf(k) \in Replicable =>
         /\ TypeOf(k) \in run.loaded /\ Source[k] # None /\ (Source[k].system <=> Here[k].system)
  BY <1>2, <1>3, SourceIs, ViewIs
<1>5. Follow(K, run.loaded) = FollowIn(Here, K)
  BY <1>2, <1>4 DEF Follow, FollowIn
<1> QED
  BY <1>1, <1>2, <1>3, <1>4, <1>5 DEF FollowIn

\* The closed walk: what it covers, follows and finds.
LEMMA Walked ==
  ASSUME Planned
  PROVE  /\ Seeds(run) = Covers(Here, run.label)
         /\ run.pulled = {<<TypeOf(k), Source[k].name>> :
              k \in {j \in Near(Here, run.label) \cup FollowIn(Here, Near(Here, run.label)) :
                       TypeOf(j) \notin Selected}}
         /\ \A k \in Seeds(run) \cup Near(Here, run.label) \cup FollowIn(Here, Near(Here, run.label)) :
              /\ k \in Key /\ Source[k] # None /\ TypeOf(k) \in run.loaded
              /\ \A r \in Here[k].refs :
                   IF TypeOf(r) \in Replicable THEN TypeOf(r) \in run.loaded
                                               ELSE TypeOf(r) \in run.resolve
<1> DEFINE seeds == Seeds(run)
           near == Follow(seeds, run.loaded)
           far  == Follow(near, run.loaded)
           seen == {TypeOf(k) : k \in RefsOf(seeds \cup (near \cup far))}
<1>1. /\ Shaped /\ Caches /\ Closed /\ Selected \subseteq run.loaded /\ Walk(run).missing = {}
      /\ Walk(run).resolve \subseteq run.resolve /\ run.pulled = Walk(run).pulled
      /\ run.loaded \in SUBSET Type
  BY DEF Planned, Shaped, Reads, Closed, Runs, RunState
<1>2. Walk(run) = [pulled  |-> {<<TypeOf(k), Source[k].name>> :
                                  k \in {j \in near \cup far : TypeOf(j) \notin Selected}},
                   missing |-> (seen \cap Replicable) \ run.loaded,
                   resolve |-> seen \ Replicable]
  BY DEF Walk
<1>3. /\ seeds \subseteq Held(Source) /\ near \subseteq Held(Source) /\ far \subseteq Held(Source)
      /\ Held(Source) \subseteq Key /\ \A k \in Held(Source) : Source[k] # None
  <2>1. Held(Source) \subseteq Key
    BY <1>1 DEF Caches, Held, Source, Tenant
  <2>2. seeds \subseteq Held(Source)
    BY <1>1, WalkIs
  <2>3. near \subseteq Held(Source)
    BY <1>1, <2>2, WalkIs
  <2>4. far \subseteq Held(Source)
    BY <1>1, <2>3, WalkIs
  <2> QED
    BY <2>1, <2>2, <2>3, <2>4 DEF Held
<1>4. \A k \in seeds \cup (near \cup far) : TypeOf(k) \in run.loaded
  BY <1>1 DEF Seeds, Follow
<1>5. \A K : K \subseteq seeds \cup (near \cup far) =>
         \A k \in RefsOf(K) : TypeOf(k) \in seen
  BY DEF RefsOf
<1>6. \A ty \in seen : IF ty \in Replicable THEN ty \in run.loaded ELSE ty \in run.resolve
  <2> HIDE DEF seen, near, far
  <2> QED
    BY <1>1, <1>2
<1>7. seeds = Covers(Here, run.label)
  <2>1. \A k \in Key : TypeOf(k) \in Selected =>
           /\ Source[k] = None <=> Here[k] = None
           /\ Source[k] # None => /\ Source[k].system = Here[k].system
                                  /\ Source[k].label = Here[k].label
    BY <1>1, SourceIs, ViewIs
  <2>2. DOMAIN Here = Key /\ DOMAIN Source = Key
    BY <1>1 DEF Shaped, Clouds, Caches, Here, Source, Tenant
  <2> QED
    BY <2>1, <2>2 DEF Seeds, Covers, Held
<1> HIDE DEF seen
<1>8. near = FollowIn(Here, seeds)
  <2>1. \A k \in RefsOf(seeds) : TypeOf(k) \in Replicable => TypeOf(k) \in run.loaded
    BY <1>5, <1>6
  <2> QED
    BY <1>3, <1>4, <2>1, FollowIs
<1>9. far = FollowIn(Here, near)
  <2>1. \A k \in RefsOf(near) : TypeOf(k) \in Replicable => TypeOf(k) \in run.loaded
    BY <1>5, <1>6
  <2> QED
    BY <1>3, <1>4, <2>1, FollowIs
<1>10. RefsOf(seeds \cup (near \cup far)) = RefsIn(Here, seeds \cup (near \cup far))
  <2> DEFINE K == seeds \cup (near \cup far)
  <2>1. \A k \in RefsOf(K) : TypeOf(k) \in Replicable => TypeOf(k) \in run.loaded
    BY <1>5, <1>6
  <2>2. K \in SUBSET Key /\ \A k \in K : Source[k] # None /\ TypeOf(k) \in run.loaded
    BY <1>3, <1>4
  <2> HIDE DEF K
  <2>3. RefsOf(K) = RefsIn(Here, K)
    BY <2>1, <2>2, FollowIs
  <2> QED
    BY <2>3 DEF K
<1>11. \A k \in seeds \cup (near \cup far) : \A r \in Here[k].refs : TypeOf(r) \in seen
  BY <1>5, <1>10 DEF RefsIn
<1> HIDE DEF seeds, near, far
<1>12. near = Near(Here, run.label) /\ far = FollowIn(Here, Near(Here, run.label))
  BY <1>7, <1>8, <1>9 DEF Near
<1>13. run.pulled = {<<TypeOf(k), Source[k].name>> :
                                  k \in {j \in near \cup far : TypeOf(j) \notin Selected}}
  BY <1>1, <1>2
<1> QED
  BY <1>3, <1>4, <1>6, <1>7, <1>11, <1>12, <1>13 DEF seeds

\* What a run carries over is what the closure of the source comes to.
LEMMA CarriedIs ==
  ASSUME Planned
  PROVE  /\ Carried(run) = Needs(Here, run.label)
         /\ \A k \in Carried(run) :
              /\ k \in Key /\ Here[k] # None /\ TypeOf(k) \in run.loaded
              /\ Source[k] = View(Here)[k] /\ k \in Wanted(run, TypeOf(k))
              /\ TypeOf(k) \in AllTypes(run) /\ ~Source[k].system
         /\ \A ty \in AllTypes(run) : \A k \in Wanted(run, ty) : k \in Carried(run) /\ TypeOf(k) = ty
<1> DEFINE seeds == Seeds(run)
           near == Near(Here, run.label)
           far  == FollowIn(Here, near)
           pulled == {j \in near \cup far : TypeOf(j) \notin Selected}
<1>1. /\ Caches /\ Pulled /\ Clouds /\ Sound(Here)
      /\ AllTypes(run) \subseteq Type /\ Selected \subseteq AllTypes(run)
  BY TypesAre DEF Planned, Shaped, Runs, Clouds, Here, Tenant
<1>2. /\ seeds = Covers(Here, run.label)
      /\ run.pulled = {<<TypeOf(k), Source[k].name>> : k \in pulled}
      /\ \A k \in seeds \cup near \cup far :
              k \in Key /\ Source[k] # None /\ TypeOf(k) \in run.loaded
  BY Walked
<1>3. Held(Source) \subseteq Key /\ DOMAIN Source = Key
  BY <1>1 DEF Held, Caches, Source, Tenant
<1>4. \A k \in Key : TypeOf(k) \in run.loaded =>
        /\ Source[k] = View(Here)[k]
        /\ Source[k] # None => /\ Here[k] # None /\ Source[k].name = Here[k].name
                               /\ Source[k].system = Here[k].system
  BY <1>1, SourceIs, ViewIs
<1>5. \A k \in near \cup far : ~Here[k].system
  BY DEF Near, FollowIn
<1>6. \A k \in pulled : /\ TypeOf(k) \in AllTypes(run) /\ k \in Wanted(run, TypeOf(k))
                        /\ TypeOf(k) \notin Selected
  <2> TAKE k \in pulled
  <2>1. /\ k \in Key /\ Source[k] # None /\ TypeOf(k) \in run.loaded /\ ~Here[k].system
        /\ TypeOf(k) \notin Selected
    BY <1>2, <1>5
  <2>2. <<TypeOf(k), Source[k].name>> \in run.pulled
    BY <1>2
  <2>3. ~Source[k].system /\ k \in Held(Source)
    BY <1>3, <1>4, <2>1 DEF Held
  <2>4. TypeOf(k) \in AllTypes(run)
    BY <2>2 DEF AllTypes, PulledTypes
  <2> QED
    BY <2>1, <2>2, <2>3, <2>4 DEF Wanted, Rows
<1>7. \A k \in seeds : TypeOf(k) \in AllTypes(run) /\ k \in Wanted(run, TypeOf(k))
  BY <1>1 DEF Seeds, Wanted, Rows
<1>8. ASSUME NEW ty \in AllTypes(run), NEW k \in Wanted(run, ty)
      PROVE  /\ TypeOf(k) = ty /\ k \in seeds \cup pulled /\ k \in Key /\ Source[k] # None
             /\ ~Source[k].system
  <2>1. k \in Held(Source) /\ TypeOf(k) = ty /\ ~Source[k].system /\ Source[k] # None /\ k \in Key
    BY <1>3 DEF Wanted, Rows, Held
  <2>2. CASE ty \in Selected
    BY <2>1, <2>2 DEF Wanted, Seeds
  <2>3. CASE ty \notin Selected
    <3>1. <<ty, Source[k].name>> \in run.pulled
      BY <2>3 DEF Wanted
    <3>2. PICK j \in pulled : <<ty, Source[k].name>> = <<TypeOf(j), Source[j].name>>
      BY <1>2, <3>1
    <3>3. /\ j \in Key /\ Source[j] # None /\ TypeOf(j) \in run.loaded
          /\ TypeOf(j) = ty /\ Source[j].name = Source[k].name
      BY <1>2, <3>2
    <3>4. /\ Here[j] # None /\ Here[k] # None /\ Here[j].name = Here[k].name
      BY <1>4, <2>1, <3>3
    <3>5. j = k
      <4>1. j \in Held(Here) /\ k \in Held(Here)
        BY <1>1, <2>1, <3>3, <3>4 DEF Held, Sound
      <4> QED
        BY <1>1, <2>1, <3>3, <3>4, <4>1 DEF Sound
    <3> QED
      BY <2>1, <3>2, <3>5
  <2> QED
    BY <2>1, <2>2, <2>3
<1> HIDE DEF seeds, near, far, pulled
<1>9. Carried(run) = seeds \cup pulled
  <2>1. \A x : x \in Carried(run) <=> \E ty \in AllTypes(run) : x \in Wanted(run, ty)
    BY DEF Carried
  <2> QED
    BY <1>6, <1>7, <1>8, <2>1
<1>10. Carried(run) = Needs(Here, run.label)
  BY <1>2, <1>9 DEF Needs, near, far, pulled
<1>11. \A k \in Carried(run) : k \in seeds \cup near \cup far
  BY <1>9 DEF pulled
<1>12. ASSUME NEW k \in Carried(run)
       PROVE  /\ k \in Key /\ Here[k] # None /\ TypeOf(k) \in run.loaded
              /\ Source[k] = View(Here)[k] /\ k \in Wanted(run, TypeOf(k))
              /\ TypeOf(k) \in AllTypes(run) /\ ~Source[k].system
  <2>1. /\ k \in Key /\ Source[k] # None /\ TypeOf(k) \in run.loaded
    BY <1>2, <1>11
  <2>2. TypeOf(k) \in AllTypes(run) /\ k \in Wanted(run, TypeOf(k))
    BY <1>6, <1>7, <1>9
  <2> QED
    BY <1>4, <1>8, <2>1, <2>2
<1>13. \A ty \in AllTypes(run) : \A k \in Wanted(run, ty) : k \in Carried(run) /\ TypeOf(k) = ty
  BY <1>8 DEF Carried
<1> QED
  BY <1>10, <1>12, <1>13

\* A service refers to nothing, so that the walk has no third step: each name
\* that is referred to is looked up among what the run has read of the target,
\* or it is predefined.
LEMMA NamesKnown ==
  ASSUME Planned, NEW k \in Carried(run), NEW p \in Named(Source[k])
  PROVE  p \in Type \X Name /\ (p[1] \in Known \/ p \in Predefined(There))
<1> DEFINE seeds == Covers(Here, run.label)
           near == Near(Here, run.label)
           far  == FollowIn(Here, near)
<1>1. /\ k \in Key /\ Here[k] # None /\ Source[k] = View(Here)[k] /\ Sound(Here)
      /\ Carried(run) = Needs(Here, run.label) /\ Here \in [Key -> Object \cup {None}]
  BY CarriedIs DEF Planned, Shaped, Clouds, Here, Tenant
<1>2. Named(Source[k]) = {<<TypeOf(r), Here[r].name>> : r \in Here[k].refs}
      /\ \A r \in Here[k].refs : r \in Key /\ Here[r] # None /\ Tier[TypeOf(r)] < Tier[TypeOf(k)]
  BY <1>1, ViewIs
<1>3. PICK r \in Here[k].refs : p = <<TypeOf(r), Here[r].name>>
  BY <1>2
<1>4. r \in Key /\ Here[r] # None /\ Here[r] \in Object /\ TypeOf(r) \in Type
      /\ p \in Type \X Name /\ p[1] = TypeOf(r) /\ Tier[TypeOf(r)] < Tier[TypeOf(k)]
  BY <1>1, <1>2, <1>3, Types DEF Object
<1>5. k \in seeds \cup near \cup far
  BY <1>1 DEF Needs
<1>6. IF TypeOf(r) \in Replicable THEN TypeOf(r) \in run.loaded ELSE TypeOf(r) \in run.resolve
  BY <1>5, Walked
<1>7. CASE TypeOf(r) \notin Replicable
  BY <1>4, <1>6, <1>7 DEF Known
<1>8. CASE Here[r].system
  <2>1. p \in Predefined(Here)
    BY <1>1, <1>3, <1>4, <1>8 DEF Predefined, Held
  <2> QED
    BY <1>4, <2>1 DEF Planned, Predefines, Here, There
<1>9. CASE TypeOf(r) \in Replicable /\ ~Here[r].system
  <2>1. ASSUME NEW K, k \in K
        PROVE  r \in FollowIn(Here, K)
    BY <1>9, <2>1 DEF FollowIn, RefsIn
  <2>2. r \in near \cup far
    <3>1. CASE k \in seeds
      BY <2>1, <3>1 DEF Near
    <3>2. CASE k \in near
      BY <2>1, <3>2
    <3>3. CASE k \in far
      <4>1. PICK i \in near : k \in Here[i].refs
        BY <3>3 DEF FollowIn, RefsIn
      <4>2. i \in Key /\ TypeOf(i) \in Replicable /\ TypeOf(k) \in Replicable /\ Here[i] # None
        <5>1. i \in Key /\ Source[i] # None /\ TypeOf(i) \in run.loaded
          BY <4>1, Walked
        <5>2. Here[i] # None
          BY <1>1, <5>1, SourceIs, ViewIs
        <5> QED
          BY <3>3, <4>1, <5>1, <5>2 DEF Near, FollowIn
      <4>3. Tier[TypeOf(k)] < Tier[TypeOf(i)]
        BY <1>1, <4>1, <4>2, ViewIs
      <4>4. Tier["svc"] = 1 /\ Tier["grp"] = 2
        BY DEF Tier
      <4>5. TypeOf(i) \in {"svc", "grp"} /\ TypeOf(k) \in {"svc", "grp"} /\ TypeOf(r) \in {"svc", "grp"}
        BY <1>9, <4>2 DEF Replicable
      <4> QED
        BY <1>4, <4>3, <4>4, <4>5
    <3> QED
      BY <1>5, <3>1, <3>2, <3>3
  <2>3. CASE TypeOf(r) \in Selected
    BY <1>4, <2>3 DEF Known, AllTypes
  <2>4. CASE TypeOf(r) \notin Selected
    <3>1. <<TypeOf(r), Source[r].name>> \in run.pulled
      BY <2>2, <2>4, Walked
    <3> QED
      BY <1>4, <3>1 DEF Known, AllTypes, PulledTypes
  <2> QED
    BY <2>3, <2>4
<1> QED
  BY <1>7, <1>8, <1>9

---------------------------------------------------------------------------
(* References lead to namesakes.                                           *)

Untouched(j) == \A r \in run.left : r.at # j

(* What the cache says of the target while the records are applied: a name *)
(* is as it was read, or a rename took it; before the deletes, what was    *)
(* read is there; and so is what the run created, where nothing was.       *)
Tracks == At("apply") /\ Quiet =>
  /\ \A k \in Key : TypeOf(k) \in Known /\ Target[k] # None /\ There[k] # None =>
       \/ There[k].name = Target[k].name
       \/ <<TypeOf(k), Target[k].name>> \in run.given /\ Untouched(k)
  /\ (\E q \in run.left : q.op # "delete") =>
       \A k \in Key : TypeOf(k) \in Known /\ Target[k] # None => There[k] # None
  /\ \A c \in run.created :
       /\ c.type \in Known /\ Target[c.at] = None
       /\ There[c.at] # None /\ There[c.at].name = c.name

Applies == Planned /\ At("apply") /\ Tracks

\* Where a name is found, the object has that name, unless a rename took it.
LEMMA FoundNames ==
  ASSUME Applies, NEW k \in Carried(run), NEW p \in Named(Source[k]), p \notin run.given,
         Found(run, p) # {}
  PROVE  LET j == First(Found(run, p))
         IN  j \in Key /\ TypeOf(j) = p[1] /\ (There[j] # None => There[j].name = p[2])
<1> DEFINE j == First(Found(run, p))
<1>1. /\ p \in Type \X Name /\ p = <<p[1], p[2]>> /\ (p[1] \in Known \/ p \in Predefined(There))
      /\ Caches /\ Runs /\ Clouds /\ Quiet /\ Predefines
  BY NamesKnown DEF Applies, Planned, Shaped
<1>2. /\ j \in Key /\ TypeOf(j) = p[1]
      /\ \/ \E c \in run.created : <<c.type, c.name>> = p /\ j = c.at
         \/ j \in Held(Target) /\ Target[j].name = p[2]
  BY <1>1, FoundAre
<1> HIDE DEF j
<1>3. ASSUME NEW c \in run.created, <<c.type, c.name>> = p, j = c.at
      PROVE  There[j] # None => There[j].name = p[2]
  BY <1>1, <1>3 DEF Applies, Tracks
<1>4. ASSUME j \in Held(Target), Target[j].name = p[2]
      PROVE  There[j] # None => There[j].name = p[2]
  <2>1. Target[j] # None
    BY <1>4 DEF Held
  <2>2. CASE p[1] \in Known
    BY <1>1, <1>2, <1>4, <2>1, <2>2 DEF Applies, Tracks
  <2>3. CASE p \in Predefined(There)
    <3>1. PICK s \in {i \in Held(There) : There[i].system} : p = <<TypeOf(s), There[s].name>>
      BY <2>3 DEF Predefined
    <3>2. s \in Key /\ IsSystem(There, s)
      BY <1>1, <3>1 DEF Held, IsSystem, Clouds, There, Tenant
    <3>3. TypeOf(s) = TypeOf(j) /\ There[s].name = Target[j].name
      BY <1>1, <1>2, <1>4, <3>1
    <3>4. s = j
      BY <1>1, <1>2, <2>1, <3>2, <3>3 DEF Predefines, Target, There, Tenant
    <3> QED
      BY <1>4, <3>3, <3>4
  <2> QED
    BY <1>1, <2>2, <2>3
<1> QED
  BY <1>2, <1>3, <1>4 DEF j

\* A record of content that lands: what it takes and what it leaves there.
LEMMA ContentLands ==
  ASSUME Shaped, NEW r \in run.left, Turns(r), r.op # "delete", NEW k \in Key, Lands(r, k)
  PROVE  /\ r.row = Source[r.from] /\ r.from \in Carried(run) /\ r.type \in AllTypes(run)
         /\ TypeOf(k) = r.type /\ TypeOf(r.from) = r.type
         /\ There'[k] = Payload(run, r) /\ Payload(run, r) # None
         /\ There'[k].name = r.row.name
         /\ r.op = "create" => There[k] = None /\ r.at = None
         /\ r.op # "create" => k = r.at /\ Target[k] # None /\ There[k] # None
         /\ r.op = "update" => Target[k].name = r.row.name
         /\ \A j \in Key : j # k => There'[j] = There[j]
         /\ There'[k].refs = Kept(run, r.row) /\ There'[k].refs \subseteq Held(There)
<1>1. Booked(r) /\ Caches /\ Runs /\ Pulled /\ Clouds /\ r.type \in Type
  BY TurnIs
<1>2. /\ There'[k] = Outcome(r) /\ \A j \in Key : j # k => There'[j] = There[j]
      /\ Outcome(r) = Payload(run, r)
  BY <1>1, LandsAt DEF There, Outcome
<1>3. /\ Payload(run, r) # None /\ Payload(run, r).name = r.row.name
      /\ Payload(run, r).refs = Kept(run, r.row)
  BY <1>1, PayloadIs
<1>4. /\ r.op = "create" => r.at = None
      /\ r.op # "create" => r.at \in Rows(Target, r.type) /\ r.at \in Key
      /\ r.from \in Wanted(run, r.type) /\ r.row = Source[r.from] /\ TypeOf(r.from) = r.type
      /\ r.op = "update" => Target[r.at].name = r.row.name
  BY <1>1, BookedAt
<1>5. r.type \in AllTypes(run)
  BY <1>1 DEF Booked
<1>6. r.from \in Carried(run)
  BY <1>4, <1>5 DEF Carried
<1>7. /\ TypeOf(k) = r.type
      /\ IF r.op = "create" THEN There[k] = None ELSE k = r.at /\ There[k] # None
      /\ Payload(run, r).refs \subseteq Held(There)
  BY <1>2, <1>3 DEF Lands, Fits, There
<1>8. \A j \in Rows(Target, r.type) : Target[j] # None
  BY <1>1, RowsAre, NoneIs
<1> QED
  BY <1>2, <1>3, <1>4, <1>5, <1>6, <1>7, <1>8

\* The turn of a record keeps track.
LEMMA TurnTracks ==
  ASSUME Applies, NEW r \in run.left, Turns(r)
  PROVE  Tracks'
<1> USE DEF At
<1>1. /\ Shaped /\ Quiet /\ Runs /\ Caches /\ Clouds /\ Pulled /\ Booked(r) /\ run.at = "apply"
      /\ run'.left = run.left \ {r} /\ run'.pulled = run.pulled /\ run'.resolve = run.resolve
      /\ r.type \in Type
  BY TurnIs DEF Applies, Planned
<1>2. /\ \A k \in Key : TypeOf(k) \in Known /\ Target[k] # None /\ There[k] # None =>
           \/ There[k].name = Target[k].name
           \/ <<TypeOf(k), Target[k].name>> \in run.given /\ Untouched(k)
      /\ (\E q \in run.left : q.op # "delete") =>
           \A k \in Key : TypeOf(k) \in Known /\ Target[k] # None => There[k] # None
      /\ \A c \in run.created :
           /\ c.type \in Known /\ Target[c.at] = None
           /\ There[c.at] # None /\ There[c.at].name = c.name
  BY <1>1 DEF Applies, Tracks
<1>3. UNCHANGED cache /\ Target' = Target /\ Known' = Known
  BY <1>1 DEF Turns, Target, Known, AllTypes, PulledTypes
<1>4. \A k : Untouched(k) => Untouched(k)'
  BY <1>1 DEF Untouched
<1>5. ASSUME UNCHANGED cloud, run'.created = run.created, run'.given = run.given
      PROVE  Tracks'
  <2>1. There' = There
    BY <1>5 DEF There
  <2>2. (\E q \in run'.left : q.op # "delete") => \E q \in run.left : q.op # "delete"
    BY <1>1
  <2> QED
    BY <1>2, <1>3, <1>4, <1>5, <2>1, <2>2 DEF Tracks
<1>6. ASSUME NEW k \in Key, Lands(r, k), r.op = "delete",
             run'.created = run.created, run'.given = run.given
      PROVE  Tracks'
  <2>1. There'[k] = None /\ \A j \in Key : j # k => There'[j] = There[j]
    BY <1>1, <1>6, LandsAt DEF There, Outcome
  <2>2. ~(\E q \in run'.left : q.op # "delete")
    BY <1>1, <1>6 DEF Turns, Before
  <2>3. k = r.at /\ Target[k] # None
    <3>1. k = r.at
      BY <1>6 DEF Lands
    <3>2. r.at \in Rows(Target, r.type)
      BY <1>1, <1>6, BookedAt
    <3> QED
      BY <1>1, <3>1, <3>2, RowsAre, NoneIs
  <2>4. \A c \in run.created : c.at \in Key /\ c.at # k
    BY <1>1, <1>2, <2>3 DEF Runs, RunState
  <2>5. \A c \in run'.created :
           /\ c.type \in Known' /\ Target'[c.at] = None
           /\ There'[c.at] # None /\ There'[c.at].name = c.name
    BY <1>2, <1>3, <1>6, <2>1, <2>4
  <2>6. \A j \in Key : TypeOf(j) \in Known' /\ Target'[j] # None /\ There'[j] # None =>
           \/ There'[j].name = Target'[j].name
           \/ <<TypeOf(j), Target'[j].name>> \in run'.given /\ Untouched(j)'
    BY <1>2, <1>3, <1>4, <1>6, <2>1
  <2> QED
    BY <2>2, <2>5, <2>6 DEF Tracks
<1>7. ASSUME NEW k \in Key, Lands(r, k), r.op # "delete",
             run'.given = IF r.op = "rename" THEN run.given \cup {<<r.type, There[k].name>>}
                                             ELSE run.given,
             run'.created = run.created \/
               (r.op = "create" /\ run'.created = run.created \cup {Entered(r, k)})
      PROVE  Tracks'
  <2>1. /\ r.type \in AllTypes(run) /\ TypeOf(k) = r.type
        /\ There'[k] # None /\ There'[k].name = r.row.name
        /\ r.op = "create" => There[k] = None /\ r.at = None
        /\ r.op # "create" => k = r.at /\ Target[k] # None /\ There[k] # None
        /\ r.op = "update" => Target[k].name = r.row.name
        /\ \A j \in Key : j # k => There'[j] = There[j]
    BY <1>1, <1>7, ContentLands
  <2>2. \A j \in Key : TypeOf(j) \in Known /\ Target[j] # None => There[j] # None
    BY <1>2, <1>7
  <2>3. TypeOf(k) \in Known
    BY <2>1 DEF Known
  <2>4. r.op = "create" => Target[k] = None
    BY <2>1, <2>2, <2>3
  <2>5. r.op # "create" => ~Untouched(k) /\ Untouched(k)'
    <3>1. SUFFICES ASSUME r.op # "create" PROVE ~Untouched(k) /\ Untouched(k)'
      OBVIOUS
    <3>2. ~Untouched(k) /\ k # None
      BY <2>1, <3>1, NoneIs DEF Untouched
    <3>3. \A q \in run.left : q.at = r.at /\ r.at # None => q = r
      BY <1>1 DEF Runs
    <3>4. \A q \in run'.left : q.at # k
      BY <1>1, <2>1, <3>1, <3>2, <3>3
    <3> QED
      BY <3>2, <3>4 DEF Untouched
  <2>6. r.op \in Op /\ Op = {"create", "update", "rename", "delete"}
    BY <1>1 DEF Booked, Entry, Op
  <2>7. ASSUME NEW j \in Key, TypeOf(j) \in Known, Target[j] # None, There'[j] # None
        PROVE  \/ There'[j].name = Target[j].name
               \/ <<TypeOf(j), Target[j].name>> \in run'.given /\ Untouched(j)'
    <3>1. CASE j # k
      BY <1>2, <1>4, <1>7, <2>1, <2>7, <3>1
    <3>2. CASE j = k /\ r.op = "update"
      BY <2>1, <3>2
    <3>3. CASE j = k /\ r.op = "rename"
      BY <1>2, <1>7, <2>1, <2>3, <2>5, <2>7, <3>3
    <3> QED
      BY <1>7, <2>4, <2>6, <2>7, <3>1, <3>2, <3>3
  <2>8. ASSUME NEW j \in Key, TypeOf(j) \in Known, Target[j] # None
        PROVE  There'[j] # None
    BY <2>1, <2>2, <2>8
  <2>9. ASSUME NEW c \in run.created
        PROVE  /\ c.type \in Known /\ Target[c.at] = None
               /\ There'[c.at] # None /\ There'[c.at].name = c.name
    <3>1. c.at \in Key
      BY <1>1 DEF Runs, RunState
    <3>2. c.at # k
      BY <1>2, <2>1
    <3> QED
      BY <1>2, <2>1, <3>1, <3>2
  <2>10. r.op = "create" => LET c == Entered(r, k)
                            IN  /\ c.type \in Known /\ Target[c.at] = None
                                /\ There'[c.at] # None /\ There'[c.at].name = c.name
    BY <2>1, <2>3, <2>4 DEF Entered
  <2>11. \A c \in run'.created :
           /\ c.type \in Known /\ Target[c.at] = None
           /\ There'[c.at] # None /\ There'[c.at].name = c.name
    BY <1>7, <2>9, <2>10
  <2> QED
    BY <1>3, <2>7, <2>8, <2>11 DEF Tracks
<1>8. ASSUME NEW k \in Key, Lands(r, k),
             run'.given = IF r.op = "rename" THEN run.given \cup {<<r.type, There[k].name>>}
                                             ELSE run.given,
             run'.created = run.created \/
               (r.op = "create" /\ run'.created = run.created \cup {Entered(r, k)})
      PROVE  Tracks'
  <2>1. CASE r.op = "delete"
    BY <1>6, <1>8, <2>1
  <2>2. CASE r.op # "delete"
    BY <1>7, <1>8, <2>2
  <2> QED
    BY <2>1, <2>2
<1> QED
  BY <1>5, <1>8 DEF Turns, There

\* What the run knows when it compares.
LEMMA DiffKnows ==
  ASSUME Shaped, Reads, Predefines, Quiet, Diff
  PROVE  /\ Planned /\ run.created = {} /\ run.given = {}
         /\ \A k \in Key : TypeOf(k) \in Known => Target[k] = View(There)[k]
         /\ Sound(There) /\ There \in [Key -> Object \cup {None}]
         /\ UNCHANGED <<cloud, cache, steady>> /\ run'.at = "apply" /\ run'.left = Batch(run)
         /\ run'.created = {} /\ run'.given = {} /\ run'.label = run.label
         /\ run'.deletes = run.deletes /\ run'.pulled = run.pulled /\ run'.resolve = run.resolve
         /\ run'.errors = run.errors /\ Quiet' = Quiet
<1>1. /\ run.at = "diff" /\ run' = [run EXCEPT !.at = "apply", !.left = Batch(run)]
      /\ UNCHANGED <<cloud, cache, steady>>
  BY DEF Diff, At
<1>2. run \in RunState /\ Clouds
  BY DEF Shaped, Runs
<1>3. /\ run'.at = "apply" /\ run'.left = Batch(run) /\ run'.created = run.created
      /\ run'.given = run.given /\ run'.label = run.label /\ run'.deletes = run.deletes
      /\ run'.pulled = run.pulled /\ run'.resolve = run.resolve /\ run'.errors = run.errors
      /\ run'.clean = run.clean /\ run'.quiet = run.quiet
  BY <1>1, <1>2 DEF RunState
<1>4. run.created = {} /\ run.given = {}
  BY <1>1 DEF Reads, Early
<1>5. TargetRead = Known
  BY <1>1 DEF TargetRead, Known, AllTypes
<1>6. Reflects(cache["target"], cloud["target"], Known)
  BY <1>5 DEF Reads, Fresh
<1>7. Sound(There) /\ There \in [Key -> Object \cup {None}]
  BY <1>2 DEF Clouds, There, Tenant
<1>8. Planned
  BY <1>1 DEF Planned, Closing
<1> QED
  BY <1>1, <1>3, <1>4, <1>6, <1>7, <1>8 DEF Reflects, Target, There, Quiet

\* The steps that lead to the last stages.
LEMMA LateSteps ==
  ASSUME Shaped, [Next]_vars, run'.at \in {"apply", "report", "done"}
  PROVE  \/ Diff \/ ApplyOne \/ Break \/ EditTenant \/ UNCHANGED vars
         \/ Reimport /\ run'.at = "report"
         \/ Report /\ run'.at = "done"
<1> USE DEF At
<1>1. run \in RunState /\ Caches /\ Pulled
  BY DEF Shaped, Runs
<1>2. Start \/ Stop => run'.at \in {"source", "idle"}
  <2>1. Start => run'.at = "source"
    BY DEF Start, Idle
  <2>2. Stop => run'.at = "idle"
    BY DEF Stop, Idle
  <2> QED
    BY <2>1, <2>2
<1>3. CloseDone => run'.at = "pulled"
  BY <1>1 DEF CloseDone, RunState
<1>4. Report => run'.at = "done"
  BY <1>1 DEF Report, RunState
<1>5. ImportSource \/ ImportTarget \/ ImportPulled \/ ImportResolved
          => run'.at \in {"target", "close", "resolve", "diff"}
  <2>1. "source" \in Tenant /\ "target" \in Tenant
        /\ Selected \in SUBSET Type /\ PulledTypes(run) \in SUBSET Type
        /\ run.resolve \in SUBSET Type /\ {"target", "close", "resolve", "diff"} \subseteq Stage
    BY <1>1, SelectedAssumption DEF Tenant, PulledTypes, RunState, Stage
  <2>2. ImportSource => run'.at = "target"
    BY <2>1, StageImports DEF ImportSource
  <2>3. ImportTarget => run'.at = "close"
    BY <2>1, StageImports DEF ImportTarget
  <2>4. ImportPulled => run'.at = "resolve"
    BY <2>1, StageImports DEF ImportPulled
  <2>5. ImportResolved => run'.at = "diff"
    <3>1. SUFFICES ASSUME Import("target", run.resolve, [run EXCEPT !.at = "diff"])
                   PROVE  run'.at = "diff"
      BY DEF ImportResolved
    <3>2. "target" \in Tenant /\ run.resolve \in SUBSET Type /\ "diff" \in Stage
      BY <2>1
    <3> QED
      BY <3>1, <3>2, StageImports
  <2> QED
    BY <2>2, <2>3, <2>4, <2>5
<1>6. CloseMore => run'.at = "close"
  <2> DEFINE walk == Walk(run)
             w == [run EXCEPT !.loaded = @ \cup walk.missing, !.resolve = @ \cup walk.resolve]
  <2>1. SUFFICES ASSUME CloseMore PROVE run'.at = "close"
    OBVIOUS
  <2>2. Import("source", walk.missing, w) /\ run.at = "close"
    BY <2>1 DEF CloseMore
  <2>3. walk.missing \subseteq Type /\ walk.resolve \subseteq Type
    BY <1>1, WalkIs DEF Replicable, Type
  <2> HIDE DEF walk
  <2>4. w \in RunState /\ w.at = "close"
    BY <1>1, <2>2, <2>3 DEF RunState
  <2>5. "source" \in Tenant
    BY DEF Tenant
  <2> HIDE DEF w
  <2>6. run' = [w EXCEPT !.clean = run'.clean]
    BY <2>2, <2>3, <2>4, <2>5, ImportGoes
  <2> QED
    BY <2>4, <2>6, RunGoes
<1>7. Reimport => run'.at = "report"
  <2>1. AllTypes(run) \in SUBSET Type /\ "report" \in Stage /\ "target" \in Tenant
    BY <1>1, TypesAre DEF Stage, Tenant
  <2> QED
    BY <2>1, StageImports DEF Reimport
<1> QED
  BY <1>2, <1>3, <1>4, <1>5, <1>6, <1>7 DEF Next, Pipeline

LEMMA NextTracks ==
  ASSUME Shaped, Reads, Predefines, Tracks, [Next]_vars
  PROVE  Tracks'
<1> USE DEF At
<1>1. SUFFICES ASSUME run'.at = "apply", Quiet' PROVE Tracks'
  BY DEF Tracks
<1>2. run \in RunState
  BY DEF Shaped, Runs
<1>3. CASE Diff
  <2>1. Quiet
    BY <1>1, <1>2, <1>3 DEF Diff, Quiet, RunState
  <2>2. /\ run'.created = {} /\ \A k \in Key : TypeOf(k) \in Known => Target[k] = View(There)[k]
        /\ Sound(There) /\ UNCHANGED <<cloud, cache>> /\ run'.pulled = run.pulled
        /\ run'.resolve = run.resolve
    BY <1>3, <2>1, DiffKnows
  <2>3. Target' = Target /\ There' = There /\ Known' = Known
    BY <2>2 DEF Target, There, Known, AllTypes, PulledTypes
  <2>4. \A k \in Key : TypeOf(k) \in Known /\ Target[k] # None =>
           There[k] # None /\ There[k].name = Target[k].name
    BY <2>2, ViewIs
  <2> QED
    BY <2>2, <2>3, <2>4 DEF Tracks
<1>4. CASE ApplyOne
  <2>1. PICK r \in run.left : Turns(r)
    BY <1>4, ApplyTurns
  <2>2. run.at = "apply" /\ run'.clean = run.clean /\ run'.quiet = run.quiet
    BY <2>1, TurnIs DEF Turns
  <2>3. Applies
    BY <1>1, <2>2 DEF Applies, Planned, Closing, Quiet
  <2> QED
    BY <2>1, <2>3, TurnTracks
<1>5. CASE UNCHANGED vars
  <2>1. /\ Target' = Target /\ There' = There /\ Known' = Known
        /\ \A k : Untouched(k)' <=> Untouched(k)
    BY <1>5 DEF vars, Target, There, Known, AllTypes, PulledTypes, Untouched
  <2> QED
    BY <1>1, <1>5, <2>1 DEF Tracks, Quiet, vars
<1>6. EditTenant => FALSE
  BY <1>1, <1>2 DEF EditTenant, RunState, Quiet
<1>7. Break => FALSE
  BY <1>1, <1>2 DEF Break, RunState
<1> QED
  BY <1>1, <1>3, <1>4, <1>5, <1>6, <1>7, LateSteps

(* The state of a run, from the imports to the records.                    *)
Tracked == Shaped /\ Reads /\ Predefines /\ Tracks

LEMMA TrackedInvariant == Spec => []Tracked
<1>1. Init => Tracked
  <2>1. Init => Tracks
    BY DEF Init, Idle, Tracks, At
  <2> QED
    BY <2>1, InitShapes, InitReads, InitPredefines DEF Tracked
<1>2. Tracked /\ [Next]_vars => Tracked'
  BY NextShapes, NextReads, NextPredefines, NextTracks DEF Tracked
<1> QED
  BY <1>1, <1>2, PTL DEF Spec

\* A reference that a record keeps leads, where it lands, to the namesake of
\* what the source refers to.
LEMMA KeptNames ==
  ASSUME Tracked, Quiet, NEW r \in run.left, Turns(r), r.op # "delete", NEW k \in Key, Lands(r, k),
         Named(r.row) \cap run.given = {}, NEW j \in There'[k].refs
  PROVE  \E p \in Named(r.row) : /\ Found(run, p) # {} /\ j = First(Found(run, p))
                                 /\ p = <<TypeOf(j), There[j].name>> /\ There[j] # None
<1>1. Shaped /\ Applies
  BY DEF Tracked, Applies, Planned, Turns, At, Closing
<1>2. /\ r.row = Source[r.from] /\ r.from \in Carried(run)
      /\ j \in Kept(run, r.row) /\ j \in Held(There) /\ Caches /\ Runs
  BY <1>1, ContentLands, TurnIs
<1>3. PICK p \in Named(r.row) : Found(run, p) # {} /\ j = First(Found(run, p))
  BY <1>2, KeptAre
<1>4. p \notin run.given
  BY <1>3
<1>5. TypeOf(j) = p[1] /\ (There[j] # None => There[j].name = p[2])
  BY <1>1, <1>2, <1>3, <1>4, FoundNames
<1>6. There[j] # None
  BY <1>2 DEF Held
<1>7. p = <<p[1], p[2]>>
  BY <1>1, <1>2, NamesKnown DEF Applies
<1> QED
  BY <1>3, <1>5, <1>6, <1>7

\* While nobody else changes the tenants and no fetch fails, every reference
\* that is written leads to the namesake of what the source refers to, however
\* stale the cache of the target was before the run, unless a rename of the
\* run has taken the name (step 6c, _close_over, _remap_refs).
THEOREM ReferencesLead == Spec => RefersToNamesakes
<1>1. ASSUME Tracked, [Next]_vars, Writes, run.clean, run.quiet, NEW k \in Changed,
             NEW row \in Written, Named(row) \cap run.given = {}
      PROVE  Meant(k) \subseteq Named(row)
  <2>1. Shaped /\ Quiet
    BY <1>1 DEF Tracked, Quiet
  <2>2. PICK r \in run.left, i \in Key : Turns(r) /\ Lands(r, i)
    BY <1>1, <2>1, WritesLand
  <2>3. run'.left = run.left \ {r} /\ Clouds /\ Caches
    BY <2>1, <2>2, TurnIs
  <2>4. row = r.row
    BY <2>3 DEF Written
  <2>5. /\ There'[i] = Outcome(r) /\ \A j \in Key : j # i => There'[j] = There[j]
    BY <2>2, <2>3, LandsAt DEF There
  <2>6. k \in Key /\ There'[k] # None /\ There'[k] # There[k]
    <3>1. Clouds'
      BY <1>1, <2>1, NextShapes DEF Shaped
    <3> QED
      BY <1>1, <3>1 DEF Changed, Held, There, Clouds, Tenant
  <2>7. k = i /\ r.op # "delete"
    BY <2>5, <2>6 DEF Outcome
  <2>8. ASSUME NEW j \in There'[k].refs
        PROVE  <<TypeOf(j), There[j].name>> \in Named(row)
    BY <1>1, <2>1, <2>2, <2>4, <2>7, <2>8, KeptNames
  <2> QED
    BY <2>8 DEF Meant, There
<1>2. ASSUME Tracked, [Next]_vars
      PROVE  [Writes /\ run.clean /\ run.quiet =>
                \A k \in Changed, row \in Written :
                  Named(row) \cap run.given = {} => Meant(k) \subseteq Named(row)]_vars
  BY <1>1, <1>2
<1> QED
  BY <1>2, TrackedInvariant, PTL DEF Spec, RefersToNamesakes

---------------------------------------------------------------------------
(* A success is a mirror.                                                  *)

(* An object of the target is what a row of the source says, up to names   *)
(* that renames have taken.                                                *)
NamesOf(m, j) == {<<TypeOf(i), m[i].name>> : i \in m[j].refs}
Same(j, k) ==
  /\ TypeOf(j) = TypeOf(k) /\ There[j] # None /\ ~There[j].system
  /\ There[j].name = Source[k].name /\ There[j].content = Source[k].content
  /\ There[j].label = Source[k].label /\ There[j].on = Source[k].on
  /\ Named(Source[k]) \cap run.given = {} => NamesOf(There, j) = Named(Source[k])

(* As long as there is no error, each row that is carried over is there,   *)
(* with no record for its place, or has a record left; with deletes, each  *)
(* object that the task covers has a record, or it is one of those.        *)
Delivers ==
  (At("apply") \/ At("report") \/ Succeeds) /\ Quiet /\ ~run.errors =>
    /\ \A k \in Carried(run) :
         \/ \E j \in Key : Same(j, k) /\ Untouched(j)
         \/ \E r \in run.left : r.from = k /\ r.op # "delete"
    /\ run.deletes => \A j \in Covers(There, run.label) :
         \/ \E r \in run.left : r.at = j
         \/ \E k \in Carried(run) : Same(j, k)

\* An object of a tenant refers to what exists, and comes earlier.
LEMMA NamesThere ==
  ASSUME Clouds, NEW j \in Key, There[j] # None
  PROVE  \A i \in There[j].refs : i \in Key /\ There[i] # None /\ Tier[TypeOf(i)] < Tier[TypeOf(j)]
<1>1. Sound(There)
  BY DEF Clouds, There, Tenant
<1> QED
  BY <1>1, ViewIs DEF View

\* Where a record lands keeps its name, or a rename takes it.
LEMMA NameStays ==
  ASSUME Applies, NEW r \in run.left, Turns(r), NEW k \in Key, Lands(r, k),
         run'.given = IF r.op = "rename" THEN run.given \cup {<<r.type, There[k].name>>}
                                         ELSE run.given,
         There[k] # None, r.op # "delete"
  PROVE  There'[k].name = There[k].name \/ <<TypeOf(k), There[k].name>> \in run'.given
<1>1. Shaped /\ Booked(r) /\ r.op \in {"create", "update", "rename", "delete"}
  BY TurnIs DEF Applies, Planned, Booked, Entry, Op
<1>2. /\ TypeOf(k) = r.type /\ There'[k].name = r.row.name /\ r.type \in AllTypes(run)
      /\ r.op = "create" => There[k] = None
      /\ r.op # "create" => k = r.at /\ Target[k] # None
      /\ r.op = "update" => Target[k].name = r.row.name
  BY <1>1, ContentLands
<1>3. CASE r.op = "rename"
  BY <1>2, <1>3
<1>4. CASE r.op = "update"
  <2>1. ~Untouched(k) /\ TypeOf(k) \in Known
    BY <1>2, <1>4 DEF Untouched, Known
  <2>2. There[k].name = Target[k].name
    BY <1>2, <1>4, <2>1 DEF Applies, Planned, Tracks
  <2> QED
    BY <1>2, <1>4, <2>2
<1> QED
  BY <1>1, <1>2, <1>3, <1>4

\* An object in another place stays what a row says.
LEMMA SameStays ==
  ASSUME Applies, NEW r \in run.left, Turns(r), NEW k \in Key, Lands(r, k),
         run'.given = IF r.op = "rename" THEN run.given \cup {<<r.type, There[k].name>>}
                                         ELSE run.given,
         NEW j \in Key, j # k, NEW x, Same(j, x)
  PROVE  Same(j, x)'
<1>1. /\ Clouds /\ Clouds' /\ UNCHANGED cache /\ Source' = Source
      /\ \A i \in Key : i # k => There'[i] = There[i]
  <2>1. Shaped
    BY DEF Applies, Planned
  <2>2. Clouds /\ Clouds'
    BY <2>1, TurnIs, TurnShapes DEF Shaped
  <2> QED
    BY <2>2, LandsAt DEF There, Turns, Source
<1>2. There'[j] = There[j] /\ There[j] # None
  BY <1>1 DEF Same
<1>3. ASSUME Named(Source[x]) \cap run'.given = {}
      PROVE  NamesOf(There, j)' = Named(Source[x])
  <2>1. Named(Source[x]) \cap run.given = {}
    BY <1>3
  <2>2. NamesOf(There, j) = Named(Source[x])
    BY <2>1 DEF Same
  <2>3. /\ Named(Source[x]) = {<<TypeOf(i), There[i].name>> : i \in There[j].refs}
        /\ \A i \in There[j].refs : i \in Key /\ There[i] # None
    BY <1>1, <1>2, <2>2, NamesThere DEF NamesOf
  <2>4. NamesOf(There, j)' = {<<TypeOf(i), There'[i].name>> : i \in There[j].refs}
    BY <1>2 DEF NamesOf
  <2>5. ASSUME NEW i \in There[j].refs
        PROVE  There'[i].name = There[i].name
    <3>1. CASE i # k
      BY <1>1, <2>3, <3>1
    <3>2. CASE i = k /\ r.op = "delete"
      <4>1. Fits(There, k, None)
        BY <3>2 DEF Lands, Outcome, There
      <4>2. j \in Held(There)
        BY <1>1, <1>2 DEF Held, Clouds, There, Tenant
      <4> QED
        BY <2>5, <3>2, <4>1, <4>2 DEF Fits
    <3>3. CASE i = k /\ r.op # "delete"
      <4>1. There[k] # None /\ <<TypeOf(k), There[k].name>> \in Named(Source[x])
        BY <2>3, <2>5, <3>3
      <4>2. There'[k].name = There[k].name \/ <<TypeOf(k), There[k].name>> \in run'.given
        BY <3>3, <4>1, NameStays
      <4> QED
        BY <1>3, <3>3, <4>1, <4>2
    <3> QED
      BY <3>1, <3>2, <3>3
  <2> QED
    BY <2>3, <2>4, <2>5
<1> QED
  BY <1>1, <1>2, <1>3 DEF Same

\* A record that lands without an error makes its place what its row says.
LEMMA LandsSame ==
  ASSUME Tracked, Quiet, NEW r \in run.left, Turns(r), r.op # "delete", NEW k \in Key, Lands(r, k),
         run'.given = IF r.op = "rename" THEN run.given \cup {<<r.type, There[k].name>>}
                                         ELSE run.given,
         Dropped(run, r.row) = {}
  PROVE  Same(k, r.from)'
<1>1. Shaped /\ Applies
  BY DEF Tracked, Applies, Planned, Turns, At, Closing
<1>2. /\ r.row = Source[r.from] /\ r.from \in Carried(run) /\ TypeOf(k) = r.type
      /\ TypeOf(r.from) = r.type /\ There'[k] = Payload(run, r) /\ Payload(run, r) # None
      /\ There'[k].refs = Kept(run, r.row) /\ There'[k].refs \subseteq Held(There)
      /\ \A j \in Key : j # k => There'[j] = There[j]
  BY <1>1, ContentLands
<1>3. /\ Booked(r) /\ Caches /\ Runs /\ Clouds' /\ Source' = Source
  BY <1>1, TurnIs, TurnShapes DEF Shaped, Turns, Source
<1>4. LET o == Payload(run, r)
      IN  /\ ~o.system /\ o.name = r.row.name /\ o.content = r.row.content
          /\ o.label = r.row.label
          /\ o.on = (r.row.on /\ ~(r.op = "create" /\ ScopeLost(r.row, Kept(run, r.row))))
  BY <1>3, PayloadIs
<1>5. \A p \in Named(r.row) : /\ Found(run, p) # {} /\ First(Found(run, p)) \in Kept(run, r.row)
                              /\ TypeOf(First(Found(run, p))) = p[1]
  <2> TAKE p \in Named(r.row)
  <2>1. Found(run, p) # {}
    BY DEF Dropped
  <2>2. First(Found(run, p)) \in Kept(run, r.row)
    BY <2>1 DEF Kept
  <2>3. p \in Type \X Name
    BY <1>1, <1>2, NamesKnown DEF Applies
  <2> QED
    BY <1>3, <2>1, <2>2, <2>3, FoundAre
<1>6. ~ScopeLost(r.row, Kept(run, r.row))
  BY <1>5 DEF ScopeLost
<1>7. Payload(run, r).on = r.row.on
  <2>1. r.row.on \in BOOLEAN
    BY <1>3, BookedAt DEF Runs, Stored
  <2> QED
    BY <1>4, <1>6, <2>1
<1>8. ASSUME Named(r.row) \cap run'.given = {}
      PROVE  NamesOf(There, k)' = Named(r.row)
  <2>1. Named(r.row) \cap run.given = {}
    BY <1>8
  <2>2. /\ NamesOf(There, k)' = {<<TypeOf(i), There'[i].name>> : i \in There'[k].refs}
        /\ \A i \in There'[k].refs : i \in Key /\ Tier[TypeOf(i)] < Tier[TypeOf(k)]
    <3>1. Sound(There') /\ There'[k] # None
      BY <1>2, <1>3 DEF Clouds, There, Tenant
    <3> QED
      BY <3>1, ViewIs DEF NamesOf
  <2>3. Tier[TypeOf(k)] \in Nat
    BY Types
  <2>4. \A i \in There'[k].refs : There'[i] = There[i]
    BY <1>2, <2>2, <2>3
  <2>5. \A i \in There'[k].refs : \E p \in Named(r.row) :
           /\ Found(run, p) # {} /\ i = First(Found(run, p))
           /\ p = <<TypeOf(i), There[i].name>>
    BY <2>1, KeptNames
  <2>6. ASSUME NEW p \in Named(r.row)
        PROVE  \E i \in There'[k].refs : p = <<TypeOf(i), There'[i].name>>
    <3> DEFINE i == First(Found(run, p))
    <3>1. i \in There'[k].refs /\ p \notin run.given /\ Found(run, p) # {}
      BY <1>2, <1>5, <2>1
    <3>2. TypeOf(i) = p[1] /\ (There[i] # None => There[i].name = p[2])
      BY <1>1, <1>2, <3>1, FoundNames
    <3>3. There[i] # None
      BY <1>2, <3>1 DEF Held
    <3>4. p = <<p[1], p[2]>>
      BY <1>1, <1>2, NamesKnown DEF Applies
    <3> HIDE DEF i
    <3> QED
      BY <2>4, <3>1, <3>2, <3>3, <3>4
  <2> QED
    BY <2>2, <2>4, <2>5, <2>6
<1> QED
  BY <1>2, <1>3, <1>4, <1>7, <1>8 DEF Same

\* The turn of a record delivers, unless there is an error.
LEMMA TurnDelivers ==
  ASSUME Tracked, Delivers, NEW r \in run.left, Turns(r)
  PROVE  Delivers'
<1> USE DEF At
<1>1. SUFFICES ASSUME Quiet', ~run'.errors PROVE Delivers'
  BY DEF Delivers
<1>2. /\ Shaped /\ Runs /\ Clouds /\ Caches /\ run.at = "apply" /\ Booked(r)
      /\ run'.left = run.left \ {r} /\ run'.pulled = run.pulled /\ run'.deletes = run.deletes
      /\ run'.label = run.label /\ run'.clean = run.clean /\ run'.quiet = run.quiet
  BY TurnIs DEF Tracked, Turns
<1>3. Quiet /\ Applies
  BY <1>1, <1>2 DEF Quiet, Tracked, Applies, Planned, Closing
<1>4. UNCHANGED cache /\ Source' = Source /\ Carried(run)' = Carried(run)
  <2>1. UNCHANGED cache
    BY DEF Turns
  <2>2. Source' = Source /\ AllTypes(run)' = AllTypes(run)
    BY <1>2, <2>1 DEF Source, AllTypes, PulledTypes
  <2>3. \A ty : Wanted(run, ty)' = Wanted(run, ty)
    BY <1>2, <2>2 DEF Wanted, Rows, Held
  <2> QED
    BY <2>1, <2>2, <2>3 DEF Carried
<1>5. PICK k \in Key :
        /\ Lands(r, k) /\ ~run.errors
        /\ r.op # "delete" => Dropped(run, r.row) = {}
        /\ run'.given = IF r.op = "rename" THEN run.given \cup {<<r.type, There[k].name>>}
                                           ELSE run.given
  BY <1>1 DEF Turns, There
<1>6. /\ \A x \in Carried(run) :
           \/ \E j \in Key : Same(j, x) /\ Untouched(j)
           \/ \E q \in run.left : q.from = x /\ q.op # "delete"
      /\ run.deletes => \A j \in Covers(There, run.label) :
           \/ \E q \in run.left : q.at = j
           \/ \E x \in Carried(run) : Same(j, x)
  BY <1>2, <1>3, <1>5 DEF Delivers
<1>7. \A j \in Key : \A x : j # k /\ Same(j, x) => Same(j, x)'
  BY <1>3, <1>5, SameStays
<1>8. r.op # "delete" => Same(k, r.from)'
  BY <1>3, <1>5, LandsSame
<1>9. /\ \A j \in Key : j # k => There'[j] = There[j]
      /\ r.op = "delete" => There'[k] = None
  BY <1>2, <1>5, LandsAt DEF There, Outcome
<1>10. IF r.op = "create" THEN r.at = None /\ There[k] = None ELSE r.at = k
  BY <1>2, <1>5, BookedAt DEF Lands, There, Runs
<1>11. r.op # "delete" => Untouched(k)'
  <2>1. SUFFICES ASSUME r.op # "delete", NEW q \in run.left, q # r, q.at = k PROVE FALSE
    BY <1>2 DEF Untouched
  <2>2. CASE r.op # "create"
    BY <1>2, <1>10, <2>1, <2>2, NoneIs DEF Runs
  <2>3. CASE r.op = "create"
    <3>1. TypeOf(k) \in Known
      BY <1>2, <1>5, <2>1, ContentLands DEF Known
    <3>2. Target[k] = None
      BY <1>3, <1>10, <2>1, <2>3, <3>1 DEF Applies, Planned, Tracks
    <3>3. Booked(q) /\ Pulled /\ q.at # None
      BY <1>2, <2>1, NoneIs DEF Runs
    <3>4. q.at \in Rows(Target, q.type) /\ q.type \in Type
      BY <1>2, <3>3, BookedAt, TypesAre DEF Booked
    <3> QED
      BY <1>2, <2>1, <3>2, <3>4, RowsAre, NoneIs
  <2> QED
    BY <2>2, <2>3
<1>12. ASSUME NEW x \in Carried(run)
       PROVE  \/ \E j \in Key : Same(j, x)' /\ Untouched(j)'
              \/ \E q \in run'.left : q.from = x /\ q.op # "delete"
  <2>1. ASSUME NEW j \in Key, Same(j, x), Untouched(j)
        PROVE  Same(j, x)' /\ Untouched(j)'
    <3>1. j # k
      BY <1>10, <2>1 DEF Same, Untouched
    <3>2. Untouched(j)'
      BY <1>2, <2>1 DEF Untouched
    <3> QED
      BY <1>7, <2>1, <3>1, <3>2
  <2>2. ASSUME NEW q \in run.left, q.from = x, q.op # "delete"
        PROVE  \/ Same(k, x)' /\ Untouched(k)'
               \/ q \in run'.left
    BY <1>2, <1>8, <1>11, <2>2
  <2> QED
    BY <1>6, <2>1, <2>2
<1>13. ASSUME run.deletes, NEW j \in Covers(There, run.label)'
       PROVE  \/ \E q \in run'.left : q.at = j
              \/ \E x \in Carried(run) : Same(j, x)'
  <2>1. j \in Key /\ There'[j] # None
    <3>1. Clouds'
      BY <1>2, TurnShapes DEF Shaped
    <3> QED
      BY <1>13, <3>1 DEF Covers, Held, Clouds, There, Tenant
  <2>2. CASE j = k
    <3>1. r.op # "delete" /\ r.from \in Carried(run)
      BY <1>2, <1>5, <1>9, <2>1, <2>2, ContentLands
    <3> QED
      BY <1>8, <2>2, <3>1
  <2>3. CASE j # k
    <3>1. j \in Covers(There, run.label)
      BY <1>2, <1>9, <1>13, <2>1, <2>3 DEF Covers, Held, Clouds, There, Tenant
    <3>2. ASSUME NEW q \in run.left, q.at = j
          PROVE  q \in run'.left
      BY <1>2, <1>10, <2>1, <2>3, <3>2, NoneIs
    <3> QED
      BY <1>6, <1>7, <1>13, <2>1, <2>3, <3>1, <3>2
  <2> QED
    BY <2>2, <2>3
<1> QED
  BY <1>2, <1>4, <1>12, <1>13 DEF Delivers

\* The comparison finds what is there, or makes a record for it.
LEMMA DiffDelivers ==
  ASSUME Tracked, Diff
  PROVE  Delivers'
<1> USE DEF At
<1>1. SUFFICES ASSUME Quiet' PROVE Delivers'
  BY DEF Delivers
<1>2. run \in RunState /\ Caches /\ Pulled /\ Clouds
  BY DEF Tracked, Shaped, Runs
<1>3. Quiet
  BY <1>1, <1>2 DEF Diff, Quiet, RunState
<1>4. /\ Planned /\ \A k \in Key : TypeOf(k) \in Known => Target[k] = View(There)[k]
      /\ Sound(There) /\ There \in [Key -> Object \cup {None}]
      /\ UNCHANGED <<cloud, cache>> /\ run'.at = "apply" /\ run'.left = Batch(run)
      /\ run'.given = {} /\ run'.label = run.label
      /\ run'.deletes = run.deletes /\ run'.pulled = run.pulled
  BY <1>3, DiffKnows DEF Tracked
<1>5. There' = There /\ Source' = Source /\ Carried(run)' = Carried(run)
  <2>1. There' = There /\ Source' = Source /\ AllTypes(run)' = AllTypes(run)
    BY <1>4 DEF There, Source, AllTypes, PulledTypes
  <2>2. \A ty : Wanted(run, ty)' = Wanted(run, ty)
    BY <1>4, <2>1 DEF Wanted, Rows, Held
  <2> QED
    BY <2>1, <2>2 DEF Carried
<1>6. \A k \in Carried(run) : TypeOf(k) \in AllTypes(run) /\ k \in Wanted(run, TypeOf(k))
  BY <1>4, CarriedIs
<1>7. AllTypes(run) \subseteq Known /\ AllTypes(run) \subseteq Type /\ Selected \subseteq AllTypes(run)
  BY <1>2, TypesAre DEF Known
<1>8. ASSUME NEW ty \in AllTypes(run), NEW j \in Rows(Target, ty), NEW k \in Wanted(run, ty),
             Twin(j, k)
      PROVE  j \in Key /\ Same(j, k)'
  <2>1. /\ j \in Key /\ TypeOf(j) = ty /\ Target[j] # None /\ ~Target[j].system
        /\ TypeOf(k) = ty
    BY <1>2, <1>7, <1>8, RowsAre, NoneIs
  <2>2. Target[j] = View(There)[j]
    BY <1>4, <1>7, <2>1
  <2>3. /\ There[j] # None /\ There[j].name = Target[j].name
        /\ There[j].content = Target[j].content /\ There[j].label = Target[j].label
        /\ There[j].on = Target[j].on /\ There[j].system = Target[j].system
        /\ Named(Target[j]) = NamesOf(There, j)
    BY <1>4, <2>1, <2>2, ViewIs DEF NamesOf
  <2>4. /\ Target[j].content = Source[k].content /\ Named(Target[j]) = Named(Source[k])
        /\ Target[j].label = Source[k].label /\ Target[j].on = Source[k].on
        /\ Target[j].name = Source[k].name
    BY <1>8 DEF Twin, Fingerprint
  <2>5. NamesOf(There, j)' = NamesOf(There, j)
    BY <1>5 DEF NamesOf
  <2> QED
    BY <1>5, <2>1, <2>3, <2>4, <2>5 DEF Same
<1>9. ASSUME NEW k \in Carried(run)
      PROVE  \/ \E j \in Key : Same(j, k)' /\ Untouched(j)'
             \/ \E r \in run'.left : r.from = k /\ r.op # "delete"
  <2>1. TypeOf(k) \in AllTypes(run) /\ k \in Wanted(run, TypeOf(k))
    BY <1>6
  <2>2. \/ \E j \in Rows(Target, TypeOf(k)) : Twin(j, k) /\ \A r \in Batch(run) : r.at # j
        \/ \E r \in Batch(run) : r.from = k /\ r.op # "delete"
    BY <1>2, <2>1, BatchCovers
  <2> QED
    BY <1>4, <1>8, <2>1, <2>2 DEF Untouched
<1>10. ASSUME run.deletes, NEW j \in Covers(There, run.label)
       PROVE  \/ \E r \in run'.left : r.at = j
              \/ \E k \in Carried(run) : Same(j, k)'
  <2>1. /\ j \in Key /\ There[j] # None /\ ~There[j].system /\ TypeOf(j) \in Selected
        /\ run.label => There[j].label
    BY <1>4, <1>10 DEF Covers, Held
  <2>2. /\ Target[j] # None /\ Target[j].system = There[j].system
        /\ Target[j].label = There[j].label
    BY <1>4, <1>7, <2>1, ViewIs
  <2>3. j \in Rows(Target, TypeOf(j))
    BY <1>2, <2>1, <2>2 DEF Rows, Held, Caches, Target, Tenant
  <2>4. \/ \E r \in Batch(run) : r.at = j
        \/ \E k \in Wanted(run, TypeOf(j)) : Twin(j, k)
    BY <1>2, <1>10, <2>1, <2>2, <2>3, BatchClears
  <2>5. \A k \in Wanted(run, TypeOf(j)) : k \in Carried(run)
    BY <1>7, <2>1 DEF Carried
  <2> QED
    BY <1>4, <1>7, <1>8, <2>1, <2>3, <2>4, <2>5
<1> QED
  BY <1>4, <1>5, <1>9, <1>10 DEF Delivers

\* Whoever changes neither tenant nor the source's rows leaves things so.
LEMMA DeliversStays ==
  ASSUME Delivers, UNCHANGED cloud, cache'["source"] = cache["source"],
         run'.label = run.label, run'.deletes = run.deletes, run'.pulled = run.pulled,
         run'.given = run.given, run'.left = run.left, run'.errors = run.errors, Quiet' => Quiet,
         run.at \in {"apply", "report"} \/ Succeeds
  PROVE  Delivers'
<1>1. There' = There /\ Source' = Source /\ AllTypes(run)' = AllTypes(run)
  BY DEF There, Source, AllTypes, PulledTypes
<1>2. \A ty : Wanted(run, ty)' = Wanted(run, ty)
  BY <1>1 DEF Wanted, Rows, Held
<1>3. Carried(run)' = Carried(run)
  BY <1>1, <1>2 DEF Carried
<1>4. \A j : Untouched(j) => Untouched(j)'
  BY DEF Untouched
<1>5. \A j, k : Same(j, k) => Same(j, k)'
  BY <1>1 DEF Same, NamesOf
<1>6. Covers(There, run.label)' = Covers(There, run.label)
  BY <1>1 DEF Covers, Held
<1> QED
  BY <1>1, <1>3, <1>4, <1>5, <1>6 DEF Delivers, At

LEMMA NextDelivers ==
  ASSUME Tracked, Delivers, [Next]_vars
  PROVE  Delivers'
<1> USE DEF At
<1>1. SUFFICES ASSUME run'.at \in {"apply", "report"} \/ Succeeds', Quiet', ~run'.errors
               PROVE  Delivers'
  BY DEF Delivers
<1>2. run \in RunState /\ Shaped /\ Caches
  BY DEF Tracked, Shaped, Runs
<1>3. run'.at \in {"apply", "report", "done"}
  BY <1>1 DEF Succeeds
<1>4. CASE Diff
  BY <1>4, DiffDelivers
<1>5. CASE ApplyOne
  BY <1>2, <1>5, ApplyTurns, TurnDelivers
<1>6. CASE Reimport
  <2>1. Import("target", AllTypes(run), [run EXCEPT !.at = "report"]) /\ run.at = "apply"
    BY <1>6 DEF Reimport
  <2>2. AllTypes(run) \in SUBSET Type /\ "report" \in Stage
    BY <1>2, TypesAre DEF Shaped, Runs, Stage
  <2>3. /\ UNCHANGED cloud /\ cache'["source"] = cache["source"]
        /\ run'.label = run.label /\ run'.deletes = run.deletes /\ run'.pulled = run.pulled
        /\ run'.given = run.given /\ run'.left = run.left /\ run'.errors = run.errors
        /\ (Quiet' => Quiet)
    BY <1>2, <2>1, <2>2, TargetImports
  <2> QED
    BY <2>1, <2>3, DeliversStays
<1>7. CASE Report
  <2>1. run' = [run EXCEPT !.at = "done"] /\ UNCHANGED <<cloud, cache>> /\ run.at = "report"
    BY <1>7 DEF Report
  <2>2. /\ run'.label = run.label /\ run'.deletes = run.deletes /\ run'.pulled = run.pulled
        /\ run'.given = run.given /\ run'.left = run.left /\ run'.errors = run.errors
        /\ run'.clean = run.clean /\ run'.quiet = run.quiet
    BY <1>2, <2>1 DEF RunState
  <2> QED
    BY <2>1, <2>2, DeliversStays DEF Quiet
<1>8. CASE UNCHANGED vars
  <2>1. run.at \in {"apply", "report"} \/ Succeeds
    BY <1>1, <1>8 DEF vars, Succeeds
  <2> QED
    BY <1>8, <2>1, DeliversStays DEF vars, Quiet
<1>9. EditTenant => FALSE
  BY <1>1, <1>2 DEF EditTenant, RunState, Quiet
<1>10. Break => FALSE
  BY <1>1, <1>2 DEF Break, RunState
<1> QED
  BY <1>2, <1>3, <1>4, <1>5, <1>6, <1>7, <1>8, <1>9, <1>10, LateSteps

(* The state of a run, up to what it has delivered.                        *)
Mirrored == Tracked /\ Delivers

LEMMA MirroredInvariant == Spec => []Mirrored
<1>1. Init => Mirrored
  <2>1. Init => Tracks /\ Delivers
    BY DEF Init, Idle, Tracks, Delivers, Succeeds, At
  <2> QED
    BY <2>1, InitShapes, InitReads, InitPredefines DEF Tracked, Mirrored
<1>2. Mirrored /\ [Next]_vars => Mirrored'
  <2>1. Tracked /\ [Next]_vars => Tracked'
    BY NextShapes, NextReads, NextPredefines, NextTracks DEF Tracked
  <2> QED
    BY <2>1, NextDelivers DEF Mirrored
<1> QED
  BY <1>1, <1>2, PTL DEF Spec

\* What the source holds of what was covered or pulled in is carried over.
LEMMA CoveredIs ==
  ASSUME Planned
  PROVE  /\ Covered(View(Here)) = Covers(Here, run.label)
         /\ Covered(View(There)) = Covers(There, run.label)
         /\ \A k \in Covers(Here, run.label) : k \in Carried(run)
         /\ \A k \in Carried(run) : TypeOf(k) \in Selected => k \in Covers(Here, run.label)
         /\ \A k \in Held(View(Here)) :
              <<TypeOf(k), View(Here)[k].name>> \in run.pulled => k \in Carried(run)
<1>1. /\ Sound(Here) /\ Sound(There)
      /\ Here \in [Key -> Object \cup {None}] /\ There \in [Key -> Object \cup {None}]
  BY DEF Planned, Shaped, Clouds, Here, There, Tenant
<1>2. ASSUME NEW m, Sound(m), m \in [Key -> Object \cup {None}]
      PROVE  Held(View(m)) = Held(m) /\ Covered(View(m)) = Covers(m, run.label)
  <2>1. DOMAIN View(m) = Key /\ DOMAIN m = Key
    BY <1>2 DEF View
  <2>2. Held(View(m)) = Held(m)
    BY <1>2, <2>1, ViewIs DEF Held
  <2>3. \A k \in Held(m) : View(m)[k].system = m[k].system /\ View(m)[k].label = m[k].label
    BY <1>2, <2>1, ViewIs DEF Held
  <2> QED
    BY <2>2, <2>3 DEF Covered, Covers
<1>3. Carried(run) = Needs(Here, run.label)
  BY CarriedIs
<1>4. ASSUME NEW k \in Carried(run), TypeOf(k) \in Selected
      PROVE  k \in Covers(Here, run.label)
  BY <1>3, <1>4 DEF Needs
<1>5. ASSUME NEW k \in Held(View(Here)), <<TypeOf(k), View(Here)[k].name>> \in run.pulled
      PROVE  k \in Carried(run)
  <2>1. k \in Key /\ Here[k] # None /\ View(Here)[k].name = Here[k].name
    BY <1>1, <1>2, ViewIs DEF Held
  <2>2. PICK j \in Near(Here, run.label) \cup FollowIn(Here, Near(Here, run.label)) :
          /\ TypeOf(j) \notin Selected
          /\ <<TypeOf(k), View(Here)[k].name>> = <<TypeOf(j), Source[j].name>>
    BY <1>5, Walked
  <2>3. j \in Key /\ Source[j] # None /\ TypeOf(j) \in run.loaded
    BY <2>2, Walked
  <2>4. Here[j] # None /\ Source[j].name = Here[j].name
    BY <1>1, <2>3, SourceIs, ViewIs
  <2>5. j \in Held(Here) /\ k \in Held(Here)
    BY <1>1, <2>1, <2>3, <2>4 DEF Held
  <2>6. j = k
    BY <1>1, <2>1, <2>2, <2>4, <2>5 DEF Sound
  <2> QED
    BY <1>3, <2>2, <2>6 DEF Needs
<1> QED
  BY <1>1, <1>2, <1>3, <1>4, <1>5 DEF Needs

\* An object that is what a carried row says is equal to it, if no rename has
\* taken a name that it refers to.
LEMMA SameEqual ==
  ASSUME Planned, ~Misled(run), NEW k \in Carried(run), NEW j \in Key, Same(j, k)
  PROVE  /\ Equal(View(There)[j], View(Here)[k]) /\ TypeOf(j) = TypeOf(k)
         /\ View(There)[j] # None /\ ~There[j].system
<1>1. Sound(There) /\ There[j] # None /\ Source[k] = View(Here)[k]
  BY CarriedIs DEF Same, Planned, Shaped, Clouds, There, Tenant
<1>2. Named(Source[k]) \cap run.given = {}
  BY DEF Misled
<1>3. NamesOf(There, j) = Named(View(There)[j])
  BY <1>1, ViewIs DEF NamesOf
<1> QED
  BY <1>1, <1>2, <1>3, ViewIs DEF Same, Equal

\* A success means what it says: nobody having changed the tenants meanwhile
\* and everything having been fetched, each selected object and each that was
\* pulled in has an equal on the target, and with deletes nothing else that the
\* task covers is left, unless a rename took a name that is referred to
\* (_execute_sync_pipeline, _compute_diff, _apply_one).
THEOREM SuccessIsMirror == Spec => []SuccessMirrors
<1>1. ASSUME Mirrored
      PROVE  SuccessMirrors
  <2> DEFINE there == Mirror("target")
             here  == Mirror("source")
  <2>1. there = View(There) /\ here = View(Here)
    BY DEF Mirror, View, There, Here
  <2>2. SUFFICES ASSUME At("done"), ~run.errors, run.clean, run.quiet, ~Misled(run)
                 PROVE  /\ \A k \in Covered(here) \cup
                             {j \in Held(here) : <<TypeOf(j), here[j].name>> \in run.pulled} :
                           \E j \in Held(there) : /\ TypeOf(j) = TypeOf(k)
                                                  /\ Equal(there[j], here[k])
                        /\ run.deletes => \A j \in Covered(there) :
                             \E k \in Covered(here) : /\ TypeOf(j) = TypeOf(k)
                                                      /\ Equal(there[j], here[k])
    BY DEF SuccessMirrors
  <2> HIDE DEF there, here
  <2>3. Planned /\ Runs
    BY <1>1, <2>2 DEF Mirrored, Tracked, Planned, Quiet, Succeeds, Shaped
  <2>4. run.left = {}
    BY <2>2, <2>3 DEF Runs, At
  <2>5. /\ \A k \in Carried(run) : \E j \in Key : Same(j, k)
        /\ run.deletes => \A j \in Covers(There, run.label) : \E k \in Carried(run) : Same(j, k)
    BY <1>1, <2>2, <2>4 DEF Mirrored, Delivers, Succeeds, Quiet
  <2>6. DOMAIN View(There) = Key
    BY DEF View
  <2>7. ASSUME NEW k \in Covered(here) \cup
                     {j \in Held(here) : <<TypeOf(j), here[j].name>> \in run.pulled}
        PROVE  \E j \in Held(there) : TypeOf(j) = TypeOf(k) /\ Equal(there[j], here[k])
    <3>1. k \in Carried(run)
      BY <2>1, <2>3, CoveredIs
    <3>2. PICK j \in Key : Same(j, k)
      BY <2>5, <3>1
    <3> QED
      BY <2>1, <2>2, <2>3, <2>6, <3>1, <3>2, SameEqual DEF Held
  <2>8. ASSUME run.deletes, NEW j \in Covered(there)
        PROVE  \E k \in Covered(here) : TypeOf(j) = TypeOf(k) /\ Equal(there[j], here[k])
    <3>1. j \in Covers(There, run.label)
      BY <2>1, <2>3, CoveredIs
    <3>2. PICK k \in Carried(run) : Same(j, k)
      BY <2>5, <2>8, <3>1
    <3>3. j \in Key /\ TypeOf(j) \in Selected
      BY <2>3, <3>1 DEF Covers, Held, Planned, Shaped, Clouds, There, Tenant
    <3>4. k \in Covered(here)
      BY <2>1, <2>3, <3>2, <3>3, CoveredIs, SameEqual, <2>2
    <3> QED
      BY <2>1, <2>2, <2>3, <3>2, <3>3, <3>4, SameEqual
  <2> QED
    BY <2>7, <2>8
<1> QED
  BY <1>1, MirroredInvariant, PTL

---------------------------------------------------------------------------
(* The run after a success finds nothing to do.                            *)

(* The tenants agree on what a run with the label and deletes carries.     *)
Level(label, deletes) ==
  /\ \A k \in Needs(Here, label) : \E j \in Key :
       /\ There[j] # None /\ ~There[j].system /\ TypeOf(j) = TypeOf(k)
       /\ Equal(View(There)[j], View(Here)[k])
  /\ deletes => \A j \in Covers(There, label) : \E k \in Needs(Here, label) :
       TypeOf(j) = TypeOf(k) /\ Equal(View(There)[j], View(Here)[k])

Levelled ==
  /\ \A label, deletes \in BOOLEAN : steady = <<label, deletes>> => Level(label, deletes)
  /\ At("apply") /\ Quiet /\ steady = <<run.label, run.deletes>> => run.left = {}

\* Equal rows of a type that is compared are twins, and twins are unique.
LEMMA TwinsAre ==
  ASSUME Planned, \A k \in Key : TypeOf(k) \in Known => Target[k] = View(There)[k],
         NEW ty \in AllTypes(run)
  PROVE  /\ \A j \in Key, k \in Carried(run) :
              /\ There[j] # None /\ ~There[j].system /\ TypeOf(j) = ty /\ TypeOf(k) = ty
              /\ Equal(View(There)[j], View(Here)[k])
              => j \in Rows(Target, ty) /\ k \in Wanted(run, ty) /\ Twin(j, k)
         /\ \A i, j \in Rows(Target, ty) : Target[i].name = Target[j].name => i = j
         /\ \A i, k \in Wanted(run, ty) : Source[i].name = Source[k].name => i = k
<1>1. /\ Sound(There) /\ Sound(Here) /\ Caches /\ Pulled /\ ty \in Type /\ ty \in Known
      /\ There \in [Key -> Object \cup {None}] /\ Here \in [Key -> Object \cup {None}]
  BY TypesAre DEF Planned, Shaped, Runs, Clouds, There, Here, Tenant, Known
<1>2. ASSUME NEW j \in Key, NEW k \in Carried(run),
             There[j] # None, ~There[j].system, TypeOf(j) = ty, TypeOf(k) = ty,
             Equal(View(There)[j], View(Here)[k])
      PROVE  j \in Rows(Target, ty) /\ k \in Wanted(run, ty) /\ Twin(j, k)
  <2>1. Target[j] = View(There)[j] /\ Target[j] # None /\ ~Target[j].system
    BY <1>1, <1>2, ViewIs
  <2>2. Source[k] = View(Here)[k] /\ k \in Wanted(run, ty)
    BY <1>2, CarriedIs
  <2>3. j \in Rows(Target, ty)
    BY <1>1, <1>2, <2>1 DEF Rows, Held, Caches, Target, Tenant
  <2> QED
    BY <1>2, <2>1, <2>2, <2>3 DEF Twin, Fingerprint, Equal
<1>3. ASSUME NEW i \in Rows(Target, ty), NEW j \in Rows(Target, ty),
             Target[i].name = Target[j].name
      PROVE  i = j
  <2>1. /\ i \in Key /\ j \in Key /\ TypeOf(i) = ty /\ TypeOf(j) = ty
        /\ Target[i] # None /\ Target[j] # None
    BY <1>1, RowsAre, NoneIs
  <2>2. /\ There[i] # None /\ There[j] # None
        /\ Target[i].name = There[i].name /\ Target[j].name = There[j].name
    BY <1>1, <2>1, ViewIs
  <2>3. i \in Held(There) /\ j \in Held(There)
    BY <1>1, <2>1, <2>2 DEF Held
  <2> QED
    BY <1>1, <1>3, <2>1, <2>2, <2>3 DEF Sound
<1>4. ASSUME NEW i \in Wanted(run, ty), NEW k \in Wanted(run, ty), Source[i].name = Source[k].name
      PROVE  i = k
  <2>1. i \in Carried(run) /\ k \in Carried(run) /\ TypeOf(i) = ty /\ TypeOf(k) = ty
    BY CarriedIs
  <2>2. /\ i \in Key /\ Here[i] # None /\ Source[i] = View(Here)[i]
        /\ k \in Key /\ Here[k] # None /\ Source[k] = View(Here)[k]
    BY <2>1, CarriedIs
  <2>3. Source[i].name = Here[i].name /\ Source[k].name = Here[k].name
    BY <1>1, <2>2, ViewIs
  <2>4. i \in Held(Here) /\ k \in Held(Here)
    BY <1>1, <2>2 DEF Held
  <2> QED
    BY <1>1, <1>4, <2>1, <2>3, <2>4 DEF Sound
<1> QED
  BY <1>2, <1>3, <1>4

\* Where each row has a twin, each is claimed, and there is no record.
LEMMA AllTwins ==
  ASSUME Caches, NEW ty \in Type,
         \A k \in Wanted(run, ty) : \E j \in Rows(Target, ty) : Twin(j, k),
         \A i, k \in Wanted(run, ty) : Source[i].name = Source[k].name => i = k
  PROVE  /\ Matched(run, ty).records = {}
         /\ \A k \in Wanted(run, ty) : \E j \in Matched(run, ty).claimed : Twin(j, k)
         /\ Matched(run, ty).claimed \subseteq Rows(Target, ty)
<1>1. PICK f \in [0..MaxNum -> Tally] :
             /\ f[0] = NoTally
             /\ \A n \in 1..MaxNum : f[n] = MatchStep(ty, n, f[n - 1])
             /\ Matched(run, ty) = f[MaxNum]
  BY MatchedSteps
<1> DEFINE Holds(n, acc) ==
             /\ acc.records = {} /\ acc.claimed \subseteq Rows(Target, ty)
             /\ \A j \in acc.claimed : \E k \in Wanted(run, ty) : k[2] <= n /\ Twin(j, k)
             /\ \A k \in Wanted(run, ty) : k[2] <= n => \E j \in acc.claimed : Twin(j, k)
           S == {n \in 0..MaxNum : Holds(n, f[n])}
<1>2. MaxNum \in Nat
  BY BoundsAssumption
<1>3. \A k \in Wanted(run, ty) : k[2] \in 1..MaxNum /\ k = <<ty, k[2]>>
  BY RowsAre, Types
<1>4. 0 \in S
  <2>1. \A k \in Wanted(run, ty) : ~(k[2] <= 0)
    BY <1>3
  <2>2. Holds(0, NoTally)
    BY <2>1 DEF NoTally
  <2> QED
    BY <1>1, <1>2, <2>2
<1>5. ASSUME NEW n \in 1..MaxNum, n - 1 \in S
      PROVE  n \in S
  <2> DEFINE acc == f[n - 1]
             k == <<ty, n>>
             new == f[n]
  <2>1. /\ Holds(n - 1, acc) /\ acc \in Tally /\ new = MatchStep(ty, n, acc)
        /\ n \in 0..MaxNum
    BY <1>1, <1>2, <1>5
  <2>2. \A i \in Wanted(run, ty) : (i[2] <= n <=> (i = k \/ i[2] <= n - 1))
    BY <1>2, <1>3
  <2>3. CASE k \notin Wanted(run, ty)
    <3>1. new = acc
      BY <2>1, <2>3 DEF MatchStep
    <3>2. Holds(n, acc)
      <4> HIDE DEF acc, k
      <4> QED
        BY <2>1, <2>2, <2>3
    <3> QED
      BY <2>1, <3>1, <3>2
  <2>4. CASE k \in Wanted(run, ty)
    <3>1. new = Match(acc, k, Rows(Target, ty))
      BY <2>1, <2>4 DEF MatchStep
    <3>2. PICK j \in Rows(Target, ty) : Twin(j, k)
      BY <2>4
    <3>3. j \notin acc.claimed
      <4>1. SUFFICES ASSUME j \in acc.claimed PROVE FALSE
        OBVIOUS
      <4>2. PICK i \in Wanted(run, ty) : i[2] <= n - 1 /\ Twin(j, i)
        BY <2>1, <4>1
      <4>3. i = k
        BY <2>4, <3>2, <4>2 DEF Twin
      <4>4. i[2] = n
        BY <4>3
      <4> QED
        BY <1>2, <4>2, <4>4
    <3>4. PICK h \in Rows(Target, ty) \ acc.claimed :
            /\ Twin(h, k)
            /\ new = [claimed |-> acc.claimed \cup {h}, records |-> acc.records]
      <4> HIDE DEF acc, new, k
      <4> QED
        BY <2>1, <2>4, <3>1, <3>2, <3>3, MatchDoes
    <3>5. new.claimed = acc.claimed \cup {h} /\ new.records = acc.records
      BY <3>4
    <3>6. Holds(n, new)
      <4>1. k[2] <= n
        BY <2>2, <2>4
      <4> HIDE DEF acc, new, k
      <4>2. \A i \in acc.claimed \cup {h} : \E x \in Wanted(run, ty) : x[2] <= n /\ Twin(i, x)
        BY <2>1, <2>2, <2>4, <3>4, <4>1
      <4>3. \A x \in Wanted(run, ty) : x[2] <= n => \E i \in acc.claimed \cup {h} : Twin(i, x)
        BY <2>1, <2>2, <3>4
      <4> QED
        BY <2>1, <3>4, <3>5, <4>2, <4>3
    <3> QED
      BY <2>1, <3>6
  <2> QED
    BY <2>3, <2>4
<1>6. \A n \in 0..MaxNum : n \in S
  <2> HIDE DEF S
  <2> QED
    BY <1>2, <1>4, <1>5, Climb
<1>7. Holds(MaxNum, f[MaxNum])
  BY <1>2, <1>6
<1> QED
  BY <1>1, <1>3, <1>7

\* Tenants that agree leave nothing to do.
LEMMA LevelMatches ==
  ASSUME Planned, \A k \in Key : TypeOf(k) \in Known => Target[k] = View(There)[k],
         Level(run.label, run.deletes)
  PROVE  Batch(run) = {}
<1>1. /\ Caches /\ Pulled /\ Carried(run) = Needs(Here, run.label)
      /\ AllTypes(run) \subseteq Type
  BY CarriedIs, TypesAre DEF Planned, Shaped, Runs
<1>2. ASSUME NEW ty \in AllTypes(run)
      PROVE  /\ Matched(run, ty).records = {}
             /\ Doomed(run, ty, Rows(Target, ty)) \subseteq Matched(run, ty).claimed
  <2>1. /\ \A j \in Key, k \in Carried(run) :
             /\ There[j] # None /\ ~There[j].system /\ TypeOf(j) = ty /\ TypeOf(k) = ty
             /\ Equal(View(There)[j], View(Here)[k])
             => j \in Rows(Target, ty) /\ k \in Wanted(run, ty) /\ Twin(j, k)
        /\ \A i, j \in Rows(Target, ty) : Target[i].name = Target[j].name => i = j
        /\ \A i, k \in Wanted(run, ty) : Source[i].name = Source[k].name => i = k
    BY TwinsAre
  <2>2. \A k \in Wanted(run, ty) : \E j \in Rows(Target, ty) : Twin(j, k)
    <3> TAKE k \in Wanted(run, ty)
    <3>1. k \in Carried(run) /\ TypeOf(k) = ty
      BY CarriedIs
    <3>2. PICK j \in Key : /\ There[j] # None /\ ~There[j].system /\ TypeOf(j) = ty
                           /\ Equal(View(There)[j], View(Here)[k])
      BY <1>1, <3>1 DEF Level
    <3> QED
      BY <2>1, <3>1, <3>2
  <2>3. /\ Matched(run, ty).records = {}
        /\ \A k \in Wanted(run, ty) : \E j \in Matched(run, ty).claimed : Twin(j, k)
        /\ Matched(run, ty).claimed \subseteq Rows(Target, ty)
    BY <1>1, <2>1, <2>2, AllTwins
  <2>4. ASSUME NEW j \in Doomed(run, ty, Rows(Target, ty))
        PROVE  j \in Matched(run, ty).claimed
    <3>1. /\ run.deletes /\ ty \in Selected /\ j \in Rows(Target, ty)
          /\ run.label => Target[j].label
      BY <2>4 DEF Doomed
    <3>2. /\ j \in Key /\ TypeOf(j) = ty /\ Target[j] # None /\ ~Target[j].system
          /\ Target[j] = View(There)[j]
      BY <1>1, <3>1, RowsAre, NoneIs DEF Known
    <3>3. Sound(There) /\ There \in [Key -> Object \cup {None}]
      BY DEF Planned, Shaped, Clouds, There, Tenant
    <3>4. /\ There[j] # None /\ ~There[j].system /\ There[j].label = Target[j].label
      BY <3>2, <3>3, ViewIs
    <3>5. j \in Covers(There, run.label)
      BY <3>1, <3>2, <3>3, <3>4 DEF Covers, Held
    <3>6. PICK k \in Carried(run) : TypeOf(j) = TypeOf(k) /\ Equal(View(There)[j], View(Here)[k])
      BY <1>1, <3>1, <3>5 DEF Level
    <3>7. k \in Wanted(run, ty) /\ Twin(j, k)
      BY <2>1, <3>2, <3>4, <3>6
    <3>8. PICK i \in Matched(run, ty).claimed : Twin(i, k)
      BY <2>3, <3>7
    <3>9. i = j
      BY <2>1, <2>3, <3>1, <3>7, <3>8 DEF Twin
    <3> QED
      BY <3>8, <3>9
  <2> QED
    BY <2>3, <2>4
<1> QED
  BY <1>2 DEF Batch

\* A success levels the tenants.
LEMMA ReportLevels ==
  ASSUME Mirrored, At("report"), Quiet, ~run.errors, ~Misled(run)
  PROVE  Level(run.label, run.deletes)
<1>1. Planned /\ Runs
  BY DEF Mirrored, Tracked, Planned, Closing, Shaped, At
<1>2. run.left = {}
  BY <1>1 DEF Runs, At
<1>3. /\ \A k \in Carried(run) : \E j \in Key : Same(j, k)
      /\ run.deletes => \A j \in Covers(There, run.label) : \E k \in Carried(run) : Same(j, k)
  BY <1>2 DEF Mirrored, Delivers
<1>4. Carried(run) = Needs(Here, run.label)
  BY <1>1, CarriedIs
<1>5. \A j \in Covers(There, run.label) : j \in Key
  BY <1>1 DEF Covers, Held, Planned, Shaped, Clouds, There, Tenant
<1>6. \A j \in Key, k \in Carried(run) : Same(j, k) =>
        /\ There[j] # None /\ ~There[j].system /\ TypeOf(j) = TypeOf(k)
        /\ Equal(View(There)[j], View(Here)[k])
  BY <1>1, SameEqual DEF Same
<1> QED
  BY <1>3, <1>4, <1>5, <1>6 DEF Level

LEMMA NextLevelled ==
  ASSUME Mirrored, Levelled, [Next]_vars
  PROVE  Levelled'
<1> USE DEF At
<1>1. Shaped /\ run \in RunState /\ \A label, deletes \in BOOLEAN : None # <<label, deletes>>
  BY NoneAssumption DEF Mirrored, Tracked, Shaped, Runs
<1>2. CASE ApplyOne \/ EditTenant
  <2>1. steady' = None
    BY <1>2 DEF ApplyOne, EditTenant
  <2>2. run' \in RunState
    BY <1>1, NextShapes DEF Shaped, Runs
  <2>3. run'.label \in BOOLEAN /\ run'.deletes \in BOOLEAN
    BY <2>2 DEF RunState
  <2> QED
    BY <1>1, <2>1, <2>3 DEF Levelled
<1>3. CASE Report
  <2>1. /\ run.at = "report" /\ run' = [run EXCEPT !.at = "done"] /\ UNCHANGED cloud
        /\ steady' = IF ~run.errors /\ run.clean /\ run.quiet /\ ~Misled(run)
                       THEN <<run.label, run.deletes>> ELSE None
    BY <1>3 DEF Report
  <2>2. run'.at = "done"
    BY <1>1, <2>1 DEF RunState
  <2>3. ASSUME NEW label \in BOOLEAN, NEW deletes \in BOOLEAN, steady' = <<label, deletes>>
        PROVE  Level(label, deletes)'
    <3>1. ~run.errors /\ Quiet /\ ~Misled(run) /\ label = run.label /\ deletes = run.deletes
      BY <1>1, <2>1, <2>3 DEF Quiet
    <3>2. Level(label, deletes)
      BY <2>1, <3>1, ReportLevels
    <3>3. There' = There /\ Here' = Here
      BY <2>1 DEF There, Here
    <3> QED
      BY <3>2, <3>3 DEF Level
  <2> QED
    BY <2>2, <2>3 DEF Levelled
<1>4. ASSUME UNCHANGED <<cloud, steady>>
      PROVE  \A label, deletes \in BOOLEAN : steady' = <<label, deletes>> => Level(label, deletes)'
  <2>1. There' = There /\ Here' = Here
    BY <1>4 DEF There, Here
  <2> QED
    BY <1>4, <2>1 DEF Levelled, Level
<1>5. CASE Diff
  <2>1. UNCHANGED <<cloud, steady>>
    BY <1>5 DEF Diff
  <2>2. ASSUME Quiet', steady' = <<run'.label, run'.deletes>>
        PROVE  run'.left = {}
    <3>1. Quiet
      BY <1>1, <1>5, <2>2 DEF Diff, Quiet, RunState
    <3>2. /\ Planned /\ \A k \in Key : TypeOf(k) \in Known => Target[k] = View(There)[k]
          /\ run'.left = Batch(run) /\ run'.label = run.label /\ run'.deletes = run.deletes
      BY <1>1, <1>5, <3>1, DiffKnows DEF Mirrored, Tracked
    <3>3. run.label \in BOOLEAN /\ run.deletes \in BOOLEAN
      BY <1>1 DEF RunState
    <3>4. Level(run.label, run.deletes)
      BY <2>1, <2>2, <3>2, <3>3 DEF Levelled
    <3> QED
      BY <3>2, <3>4, LevelMatches
  <2> QED
    BY <1>4, <2>1, <2>2 DEF Levelled
<1>6. CASE UNCHANGED vars
  <2>1. run' = run /\ UNCHANGED <<cloud, steady>>
    BY <1>6 DEF vars
  <2>2. Quiet' = Quiet
    BY <2>1 DEF Quiet
  <2> QED
    BY <1>4, <2>1, <2>2 DEF Levelled
<1>7. CASE run'.at # "apply" /\ UNCHANGED <<cloud, steady>>
  BY <1>4, <1>7 DEF Levelled
<1>8. ASSUME Start \/ ImportSource \/ ImportTarget \/ CloseMore \/ CloseDone \/ ImportPulled
               \/ ImportResolved \/ Reimport \/ Break \/ Stop
      PROVE  UNCHANGED <<cloud, steady>>
  <2>1. Start \/ CloseDone \/ Break \/ Stop => UNCHANGED <<cloud, steady>>
    BY DEF Start, CloseDone, Break, Stop
  <2>2. ImportSource \/ ImportTarget \/ CloseMore \/ ImportPulled \/ ImportResolved \/ Reimport
          => UNCHANGED <<cloud, steady>>
    BY DEF ImportSource, ImportTarget, CloseMore, ImportPulled, ImportResolved, Reimport, Import
  <2> QED
    BY <1>8, <2>1, <2>2
<1>9. CASE run'.at = "apply"
  <2>1. Break => FALSE
    BY <1>1, <1>9 DEF Break, RunState
  <2> QED
    BY <1>1, <1>2, <1>5, <1>6, <1>9, <2>1, LateSteps
<1>10. CASE run'.at # "apply"
  BY <1>2, <1>3, <1>5, <1>6, <1>7, <1>8, <1>10 DEF Next, Pipeline
<1> QED
  BY <1>9, <1>10

\* A run that follows a success nobody has disturbed finds nothing to do: what
\* was written compares equal to what was read, row by row, each with a twin of
\* its own (_content_fingerprint, _compute_diff).
THEOREM SuccessIsSteady == Spec => []SteadyState
<1>1. Init => Mirrored /\ Levelled
  <2>1. Init => Tracks /\ Delivers
    BY DEF Init, Idle, Tracks, Delivers, Succeeds, At
  <2>2. Init => Levelled
    BY NoneAssumption DEF Init, Idle, Levelled, At
  <2> QED
    BY <2>1, <2>2, InitShapes, InitReads, InitPredefines DEF Tracked, Mirrored
<1>2. Levelled => SteadyState
  BY DEF Levelled, SteadyState, Quiet
<1>3. Mirrored /\ Levelled /\ [Next]_vars => Levelled'
  BY NextLevelled
<1>4. Init => Levelled
  BY <1>1
<1> QED
  BY <1>2, <1>3, <1>4, MirroredInvariant, PTL DEF Spec
=============================================================================
