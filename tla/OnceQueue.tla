------------------------------ MODULE OnceQueue ------------------------------
(***************************************************************************)
(* What a queue that hands out each job at most once promises: a job is    *)
(* taken once, and whoever took it either finishes it or abandons it; no   *)
(* job is taken a second time.  Jobs change one at a time.                 *)
(***************************************************************************)
CONSTANT Jobs

VARIABLE job

States == {"absent", "waiting", "running", "done", "abandoned"}

TypeOK == job \in [Jobs -> States]

Init == job = [j \in Jobs |-> "absent"]

Moves(j, from, to) ==
    /\ job[j] = from
    /\ job' = [job EXCEPT ![j] = to]

Submit(j)  == Moves(j, "absent", "waiting")
Take(j)    == Moves(j, "waiting", "running")
Finish(j)  == Moves(j, "running", "done")
Abandon(j) == Moves(j, "running", "abandoned")

Next == \E j \in Jobs : Submit(j) \/ Take(j) \/ Finish(j) \/ Abandon(j)

Spec == Init /\ [][Next]_job
=============================================================================
