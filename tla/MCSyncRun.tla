------------------------------ MODULE MCSyncRun ------------------------------
(* Instances of SyncRun for TLC. *)
EXTENDS SyncRun, TLC

CONSTANTS a, b, c

O(n, v, refs) == [name |-> n, content |-> v, refs |-> refs, label |-> TRUE,
                  on |-> TRUE, system |-> FALSE]

(* A tenant with some objects and nothing else.                            *)
Holds(f) == [k \in Key |-> IF k \in DOMAIN f THEN f[k] ELSE None]

Svc == <<"svc", 1>>    Svc2 == <<"svc", 2>>
Grp == <<"grp", 1>>
Loc == <<"loc", 1>>    Loc2 == <<"loc", 2>>
Rule == <<"rule", 1>>  Rule2 == <<"rule", 2>>

(* A rule with a group of one service and a location.                      *)
Full == Holds(Svc :> O(a, 0, {}) @@ Grp :> O(a, 0, {Svc}) @@ Loc :> O(a, 0, {})
              @@ Rule :> O(a, 0, {Grp, Loc}))

(* Two rules, one without the label, and a service that neither needs.     *)
Two == Holds(Svc :> O(a, 0, {}) @@ Svc2 :> O(b, 1, {}) @@ Rule :> O(a, 0, {Svc})
             @@ Rule2 :> [O(b, 1, {}) EXCEPT !.label = FALSE])

(* Two services and a rule that needs one; the other has a predefined name. *)
Std(o) == [o EXCEPT !.system = TRUE]
Pair == Holds(Svc :> O(a, 0, {}) @@ Svc2 :> O(b, 1, {}) @@ Rule :> O(a, 0, {Svc2}))
Stock == Holds(Svc :> Std(O(c, 0, {})) @@ Svc2 :> O(b, 1, {}) @@ Rule :> O(a, 0, {Svc, Svc2}))

(* Targets: locations under other ids; objects of the same names with      *)
(* another content, and one nobody needs; the rules' names the other way   *)
(* round; the same service by another name, or by the other's; and what is *)
(* predefined under another id.                                            *)
Bare == Holds(Loc :> O(b, 0, {}) @@ Loc2 :> O(a, 0, {}))
Used == Holds(Svc2 :> O(a, 1, {}) @@ Svc :> O(b, 1, {})
              @@ Loc :> O(a, 0, {}) @@ Rule :> O(a, 1, {Svc, Loc})
              @@ Rule2 :> O(b, 0, {Svc2}))
Other == Holds(Svc :> O(a, 0, {}) @@ Rule :> O(b, 0, {Svc}) @@ Rule2 :> O(a, 1, {}))
Alike == Holds(Svc :> O(b, 0, {}) @@ Loc2 :> O(a, 0, {}))
Shifted == Holds(Svc :> O(b, 0, {}) @@ Svc2 :> O(c, 1, {}))
Renumbered == Holds(Svc2 :> Std(O(c, 0, {})) @@ Svc :> O(b, 0, {}) @@ Rule :> O(c, 0, {Svc2}))

MCWorlds ==
  {[source |-> s, target |-> t] : s \in {Full, Two, Pair}, t \in {Bare, Used, Other, Alike, Shifted}}
  \cup {[source |-> Stock, target |-> Renumbered]}

Edit(t, k, o) == [tenant |-> t, at |-> k, object |-> o]

(* A location is deleted, or its id given to another; a rule is switched   *)
(* off, changed or removed; an object takes a name.                        *)
MCEdits ==
  {Edit("target", Loc2, None), Edit("target", Loc2, O(b, 0, {})),
   Edit("target", Loc, O(a, 1, {})), Edit("source", Rule, O(a, 1, {Svc})),
   Edit("source", Rule2, None), Edit("target", Svc2, O(a, 0, {}))}

(* A source whose services have the contents that the target has under     *)
(* names that are one further.                                             *)
SwapWorlds == {[source |-> Pair, target |-> Shifted]}
=============================================================================
