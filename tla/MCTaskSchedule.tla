--------------------------- MODULE MCTaskSchedule ---------------------------
(* Instances of TaskSchedule for TLC. *)
EXTENDS TaskSchedule

CONSTANTS a, b, c, hourly, daily

T(k, x, ys, n) ==
  [kind |-> k, source |-> x, target |-> IF k = "sync" /\ Cardinality(ys) = 1
     THEN CHOOSE y \in ys : TRUE ELSE None,
   targets |-> IF Cardinality(ys) > 1 THEN ys ELSE {},
   groups |-> k = "sync", mode |-> "type", label |-> FALSE,
   deletes |-> FALSE, products |-> n, cron |-> hourly, enabled |-> TRUE]

(* A sync to one tenant, a fan-out to two, and one onto its own source.    *)
MCNews == {T("sync", a, {b}, 0), T("sync", a, {b, c}, 0),
           T("sync", b, {b, c}, 0)}

(* The update that leaves out everything.                                  *)
No == [kind |-> Keep, source |-> Keep, target |-> Keep, targets |-> Keep,
       groups |-> Keep, mode |-> Keep, label |-> Keep, deletes |-> Keep,
       products |-> Keep, cron |-> Keep, enabled |-> Keep]

(* Another schedule; one target in place of several; an import, and back   *)
(* to a fan-out from any source.                                           *)
MCBodies ==
  {[No EXCEPT !.cron = daily],
   [No EXCEPT !.source = b, !.target = c, !.targets = {}],
   [No EXCEPT !.kind = "import", !.groups = FALSE, !.products = 2],
   [No EXCEPT !.kind = "sync", !.groups = TRUE, !.targets = {b, c}],
   [No EXCEPT !.kind = "sync", !.groups = TRUE, !.source = b,
              !.targets = {b, c}]}
=============================================================================
