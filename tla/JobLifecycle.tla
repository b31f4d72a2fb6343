----------------------------- MODULE JobLifecycle -----------------------------
(***************************************************************************)
(* What the calendar job queue promises of its jobs, without workers,      *)
(* batches, retry times, providers or crashes: a job that is submitted is  *)
(* tried at most Budget times, by one worker at a time; it is given up     *)
(* only when every try has been used; and once decided it is never         *)
(* reopened, by whatever submits it again.                                 *)
(***************************************************************************)
EXTENDS Naturals

CONSTANTS Job, Budget

VARIABLES phase, tries

lifecycle == <<phase, tries>>

Init ==
    /\ phase = [j \in Job |-> "absent"]
    /\ tries = [j \in Job |-> 0]

Submit(J) ==
    /\ \A j \in J : phase[j] = "absent"
    /\ phase' = [j \in Job |-> IF j \in J THEN "waiting" ELSE phase[j]]
    /\ UNCHANGED tries

Start(J) ==
    /\ \A j \in J : phase[j] = "waiting" /\ tries[j] < Budget
    /\ phase' = [j \in Job |-> IF j \in J THEN "running" ELSE phase[j]]
    /\ tries' = [j \in Job |-> IF j \in J THEN tries[j] + 1 ELSE tries[j]]

Decide(j, outcome) ==
    /\ phase[j] = "running"
    /\ \/ outcome = "succeeded"
       \/ outcome = "waiting" /\ tries[j] < Budget
       \/ outcome = "dead" /\ tries[j] = Budget
    /\ phase' = [phase EXCEPT ![j] = outcome]
    /\ UNCHANGED tries

Next ==
    \/ \E J \in SUBSET Job : Submit(J) \/ Start(J)
    \/ \E j \in Job, outcome \in {"succeeded", "waiting", "dead"} :
          Decide(j, outcome)

Spec == Init /\ [][Next]_lifecycle

===============================================================================
