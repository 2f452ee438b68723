------------------------------ MODULE MCTasks ------------------------------
(* Instances for TLC of the process's two background tasks: the worker that  *)
(* runs BacktestJobs, and the subscriber that sends the EventFeed to two     *)
(* sockets of one user, next to a user without any.                          *)
(*                                                                           *)
(* The two share no state.  So each behaviour moves one of them only, the    *)
(* one in focus, and TLC explores the sum of their states and not the        *)
(* product.                                                                  *)
EXTENDS EventFeed, BacktestJobs

CONSTANTS j1, j2, j3, u1, u2, s1, s2, Focuses

VARIABLE focus

\* BacktestJobs.
TwoJobs == {j1, j2}
ThreeJobs == {j1, j2, j3}

\* EventFeed.
TwoUsers == {u1, u2}
TwoSockets == {s1, s2}
OneOwner == [s \in TwoSockets |-> u1]

MCInit ==
    /\ focus \in Focuses
    /\ Init /\ JobsInit

MCNext ==
    \/ focus = "feed" /\ Next     /\ UNCHANGED <<focus, jobsVars>>
    \/ focus = "jobs" /\ JobsNext /\ UNCHANGED <<focus, vars>>

\* What is out of focus has nothing to do, so that its fairness asks for nothing.
MCSpec ==
    /\ MCInit /\ [][MCNext]_<<focus, vars, jobsVars>>
    /\ Fairness /\ JobsFairness

BothFocuses == {"feed", "jobs"}
JobsOnly == {"jobs"}
=============================================================================
