----------------------------- MODULE RuleOrder -----------------------------
(***************************************************************************)
(* The order of the rules of one type while a push runs: the sorting at    *)
(* the end of classify_baseline, the renumbering in push_classified, and   *)
(* the passes of _single_pass, in services/zia_push_service.py.  Policies  *)
(* are first-match, so the order is what they mean.                        *)
(***************************************************************************)
EXTENDS Integers, Sequences, FiniteSets, SequencesExt

CONSTANTS
  Rule,       \* rules, of the baseline and of the target
  Baselines,  \* the orders a baseline may list its rules in
  Targets,    \* the orders the target may have its rules in
  OneClick    \* rules that only a toggle can provision, and never does here

ASSUME SequencesAssumption ==
  /\ \A s \in Baselines \cup Targets : s \in Seq(Rule) /\ IsInjective(s)
  /\ OneClick \subseteq Rule
  /\ \A s \in Targets : Range(s) \cap OneClick = {}

VARIABLES
  baseline,   \* the rules in baseline order: place k has order k
  target,     \* the target's rules, first match first
  equal,      \* rules that differ from the target at most in their order
  stage,      \* "start", "push", "done"
  todo,       \* this pass: records [rule, create, order]
  retry,      \* failed in this pass, in the same order
  prev,       \* how many the pass began with
  pass_num,   \* which pass over the rules it is
  failed      \* rules whose record is failed

vars == <<baseline, target, equal, stage, todo, retry, prev, pass_num, failed>>

Place(s, r) == CHOOSE k \in DOMAIN s : s[k] = r
In(s, r) == r \in Range(s)

(* The baseline's rules that the target can have.                          *)
Wanted == SelectSeq(baseline, LAMBDA r : r \notin OneClick)

Init ==
  /\ baseline \in Baselines
  /\ target \in Targets
  /\ equal \in SUBSET Range(target)
  /\ stage = "start" /\ todo = <<>> /\ retry = <<>> /\ prev = 0
  /\ pass_num = 1 /\ failed = {}

---------------------------------------------------------------------------
Created == SelectSeq(Wanted, LAMBDA r : ~In(target, r))

(* An order is part of the configuration that is compared.                 *)
Moved == SelectSeq(Wanted, LAMBDA r :
  /\ In(target, r)
  /\ r \notin equal \/ Place(target, r) # Place(baseline, r))

(* Every create goes to the smallest order of a create.                    *)
InsertionPoint == Place(baseline, Head(Created))

(* Orders above skipped one-click rules close the gap these leave.         *)
Renumbered(order) ==
  order - Cardinality({k \in DOMAIN baseline :
                         baseline[k] \in OneClick /\ k < order})

(* Mutant: creates are sent in baseline order.                             *)
Queue_Ascending ==
  [k \in DOMAIN Created |->
     [rule |-> Created[k], create |-> TRUE,
      order |-> Renumbered(InsertionPoint)]]
  \o [k \in DOMAIN Moved |->
     [rule |-> Moved[k], create |-> FALSE,
      order |-> Renumbered(Place(baseline, Moved[k]))]]

(* Creates in descending order, then updates in ascending order.           *)
Queue ==
  [k \in DOMAIN Created |->
     [rule |-> Reverse(Created)[k], create |-> TRUE,
      order |-> Renumbered(InsertionPoint)]]
  \o [k \in DOMAIN Moved |->
     [rule |-> Moved[k], create |-> FALSE,
      order |-> Renumbered(Place(baseline, Moved[k]))]]

Classify ==
  /\ stage = "start"
  /\ todo' = Queue /\ prev' = Len(Queue)
  /\ stage' = "push"
  /\ UNCHANGED <<baseline, target, equal, retry, pass_num, failed>>

---------------------------------------------------------------------------
(* The API: a rule at order k moves the ones from k on up by one; an order *)
(* beyond the end is refused, and then a create is sent once more without  *)
(* an order (_do_create_with_rank_fallback) and lands at the end.          *)
Inserted(s, r, k) == InsertAt(s, IF k > Len(s) + 1 THEN Len(s) + 1 ELSE k, r)

Push ==
  /\ stage = "push" /\ todo # <<>>
  /\ LET e == Head(todo)
         rest == IF e.create THEN target ELSE Remove(target, e.rule)
     IN  \/ /\ e.create \/ e.order <= Len(target)
            /\ target' = Inserted(rest, e.rule, e.order)
            /\ UNCHANGED <<retry, failed>>
         \/ /\ ~e.create /\ e.order > Len(target)
            /\ failed' = failed \cup {e.rule}
            /\ UNCHANGED <<target, retry>>
         \/ retry' = Append(retry, e) /\ UNCHANGED <<target, failed>>
  /\ todo' = Tail(todo)
  /\ UNCHANGED <<baseline, equal, stage, prev, pass_num>>

(* Another pass for what failed for the moment, if this one made progress. *)
Again ==
  /\ stage = "push" /\ todo = <<>> /\ retry # <<>> /\ Len(retry) < prev
  /\ todo' = retry /\ retry' = <<>> /\ prev' = Len(retry)
  /\ pass_num' = pass_num + 1
  /\ UNCHANGED <<baseline, target, equal, stage, failed>>

Done ==
  /\ stage = "push" /\ todo = <<>>
  /\ retry = <<>> \/ Len(retry) >= prev
  /\ stage' = "done"
  /\ failed' = failed \cup {e.rule : e \in Range(retry)}
  /\ UNCHANGED <<baseline, target, equal, todo, retry, prev, pass_num>>

Next == Classify \/ Push \/ Again \/ Done
Spec == Init /\ [][Next]_vars

---------------------------------------------------------------------------
TypeOK ==
  /\ {baseline, target} \subseteq Seq(Rule) /\ equal \in SUBSET Rule
  /\ stage \in {"start", "push", "done"}
  /\ {todo, retry} \subseteq Seq([rule : Rule, create : BOOLEAN, order : Nat \ {0}])
  /\ prev \in Nat /\ pass_num \in Nat \ {0} /\ failed \subseteq Rule

Ordered == SelectSeq(target, LAMBDA r : In(Wanted, r)) = Wanted

(* A push that needs no second pass and reports no failure leaves the      *)
(* baseline's rules in baseline order, when the target has some of them in *)
(* that order and rules of its own behind them (classify_baseline's        *)
(* stacking and push_classified's renumbering).                            *)
OrderKept == (stage = "done" /\ failed = {} /\ pass_num = 1) => Ordered
=============================================================================
