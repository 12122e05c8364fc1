--------------------------- MODULE MCCandidates ---------------------------
(* Instances of Candidates. *)
EXTENDS Candidates, TLC

R(n, c, r) == [name |-> n, cfg |-> c, refs |-> r]
O(t, n, c, r) == [type |-> t, raw |-> R(n, c, r)]

MCOrder == <<"segment_group", "application", "service_edge">>
MCKey == ("g" :> "palo:g") @@ ("a" :> "palo:a") @@ ("e" :> "palo:e")

\* A group and an application in it; a service edge, which no push can
\* create.
MCOffers ==
  {{O("segment_group", "g", "new", {}), O("application", "a", "new", {"palo:g"})},
   {O("service_edge", "e", "new", {})}}

Conf(f) == [i \in Id |-> IF i \in DOMAIN f THEN f[i] ELSE None]

\* An empty tenant, and one with a group in use and an edge.
MCTenants ==
  {Conf(<<>>),
   Conf(("1" :> O("segment_group", "g", "old", {})) @@
        ("2" :> O("application", "a", "old", {"1"})) @@
        ("3" :> O("service_edge", "e", "old", {})))}
=============================================================================
