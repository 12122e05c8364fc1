----------------------------- MODULE JobService -----------------------------
(***************************************************************************)
(* What the job store of api/jobs.py promises those who start, cancel and  *)
(* follow jobs, without threads, locks, events or pruning: the states a    *)
(* job goes through, and that two jobs of one key never run at once.       *)
(***************************************************************************)
CONSTANTS Job, Key, NoKey

VARIABLE job     \* for each id, its key and the phase it is in

Running == {"running", "cancelling"}
Over    == {"ok", "cancelled", "error"}

\* An id nobody was given yet, and one the store no longer has.
Absent == {"unknown", "gone"}

Phase == Running \union Over \union Absent

Is(phase, k) == [phase |-> phase, key |-> k]

Init == job = [j \in Job |-> Is("unknown", NoKey)]

(* The store may forget jobs that are over, at any time.                   *)
Forgotten(some) ==
    [j \in Job |-> IF j \in some THEN Is("gone", NoKey) ELSE job[j]]

Forgettable == {j \in Job : job[j].phase \in Over}

(* A job starts unless one of its key is running.                          *)
Start(j, k) ==
    /\ job[j].phase = "unknown"
    /\ \A i \in Job : job[i].phase \in Running => job[i].key # k \/ k = NoKey
    /\ \E some \in SUBSET Forgettable :
         job' = [Forgotten(some) EXCEPT ![j] = Is("running", k)]

Forget == \E some \in SUBSET Forgettable : job' = Forgotten(some)

Cancel(j) ==
    /\ job[j].phase = "running"
    /\ job' = [job EXCEPT ![j] = Is("cancelling", job[j].key)]

(* A job ends once, and as cancelled only if somebody asked for that; one  *)
(* that was to be cancelled may still be done first, or fail.              *)
End(j, outcome) ==
    /\ job[j].phase \in Running
    /\ outcome = "cancelled" => job[j].phase = "cancelling"
    /\ job' = [job EXCEPT ![j] = Is(outcome, job[j].key)]

(* The server stops: every job it knew is gone.                            *)
Stop ==
    job' = [j \in Job |-> IF job[j].phase = "unknown" THEN job[j]
                          ELSE Is("gone", NoKey)]

Next ==
    \/ \E j \in Job : \/ \E k \in Key \union {NoKey} : Start(j, k)
                      \/ Cancel(j)
                      \/ \E outcome \in Over : End(j, outcome)
    \/ Forget
    \/ Stop

Spec == Init /\ [][Next]_job
=============================================================================
