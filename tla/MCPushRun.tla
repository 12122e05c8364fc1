----------------------------- MODULE MCPushRun -----------------------------
(***************************************************************************)
(* Instances of PushRun.  Ids below 10 are of the target, the others of    *)
(* the source, unless an instance makes them collide.                      *)
(***************************************************************************)
EXTENDS PushRun, TLC

O(n, c, r, s, b) == [name |-> n, cfg |-> c, refs |-> r, scope |-> s, on |-> b]
E(i, o) == [id |-> i, object |-> o]
(* The configuration with the objects f.                                *)
Conf(f) == [i \in Id |-> IF i \in DOMAIN f THEN f[i] ELSE None]

MCName == {"group", "host", "rule", "loc", "toggle", "oneclick", "urls",
           "instance", "app", "segment",
           "proxy", "system"}
MCKind == [n \in MCName |->
  CASE n \in {"group", "host", "instance"} -> "user"
    [] n = "rule" -> "rule"
    [] n = "loc" -> "scope"
    [] n = "segment" -> "unimported"
    [] n = "toggle" -> "settings"
    [] n = "oneclick" -> "predefined"
    [] n = "urls" -> "list"
    [] n = "proxy" -> "proxy"
    [] n = "system" -> "managed"
    [] n = "app" -> "cloud_rule"]
MCRank == [n \in DOMAIN Base |->
  CASE n = "instance" -> 1 [] n = "group" -> 2 [] n = "host" -> 3
    [] n = "proxy" -> 4 [] n = "toggle" -> 5 [] n = "rule" -> 6
    [] n = "oneclick" -> 7 [] n = "app" -> 8 [] n = "system" -> 9 [] n = "urls" -> 10]

(* Two groups, one of them new, and a rule that refers to the new one and  *)
(* is scoped to a location the target has or has lost.                     *)
GroupsBase == [n \in {"group", "host", "rule"} |->
  CASE n = "group" -> E(11, O("group", "new", {}, {}, TRUE))
    [] n = "host"  -> E(12, O("host", "new", {}, {}, TRUE))
    [] n = "rule"  -> E(13, O("rule", "new", {11, 12}, {3, 14}, TRUE))]
GroupsTenants ==
  {Conf((1 :> O("host", "old", {}, {}, TRUE)) @@
        (2 :> O("rule", "old", {1}, {3}, TRUE)) @@
        (3 :> O("loc", "old", {}, {}, TRUE))),
   Conf((1 :> O("host", "old", {}, {}, TRUE)) @@
        (2 :> O("rule", "old", {1}, {}, TRUE)))}

(* The kinds with paths of their own, on a tenant to be wiped: a toggle and *)
(* the rule it brings, a URL list, a proxy; a rule and a group to delete.  *)
KindsBase == [n \in {"toggle", "oneclick", "urls", "proxy", "system"} |->
  CASE n = "toggle"   -> E(1, O("toggle", "new", {}, {}, TRUE))
    [] n = "oneclick" -> E(12, O("oneclick", "new", {}, {}, TRUE))
    [] n = "urls"     -> E(13, O("urls", "new", {}, {}, TRUE))
    [] n = "system"   -> E(6, O("system", "new", {}, {}, TRUE))
    [] n = "proxy"    -> E(11, O("proxy", "new", {}, {}, TRUE))]
KindsTenants ==
  {Conf((1 :> O("toggle", "old", {}, {}, TRUE)) @@
        (2 :> O("urls", "old", {}, {}, TRUE)) @@
        (3 :> O("host", "old", {}, {}, TRUE)) @@
        (4 :> O("rule", "old", {3}, {}, TRUE)) @@
        (6 :> O("system", "old", {}, {}, TRUE)))}
=============================================================================
