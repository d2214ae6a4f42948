---------------------------- MODULE MCManagerJobs ----------------------------
(* ManagerJobs with two jobs of one application, one of them dispatched.     *)
EXTENDS ManagerJobs

CONSTANTS j1, j2, a1

TwoJobs == {j1, j2}
OnlyJ2 == {j2}
OneApp == {a1}
AllOfA1 == [j \in TwoJobs |-> a1]
=============================================================================
