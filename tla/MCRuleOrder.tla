---------------------------- MODULE MCRuleOrder ----------------------------
(***************************************************************************)
(* Instances of RuleOrder: a baseline of the rules a..d with a one-click   *)
(* rule anywhere in it, and rules x, y of the target's own.                *)
(***************************************************************************)
EXTENDS RuleOrder

MCBaselines ==
  {<<"a", "b", "c", "d">>} \cup
  {InsertAt(<<"a", "b", "c", "d">>, k, "click") : k \in 1..5}

Subsequence(rs) == SelectSeq(<<"a", "b", "c", "d">>, LAMBDA r : r \in rs)

(* Some of the baseline's rules, in its order, then the target's own.      *)
SortedTargets ==
  {Subsequence(rs) \o own : rs \in SUBSET {"a", "b", "c", "d"},
                            own \in {<<>>, <<"x">>, <<"x", "y">>}}
=============================================================================
