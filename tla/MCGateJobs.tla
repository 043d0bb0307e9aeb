------------------------------ MODULE MCGateJobs ------------------------------
(* Gate checks, with the attempts their jobs are added with.               *)
EXTENDS GateJobs

MCAttempts == [joint |-> 3, stability |-> 5, grid |-> 3]
===============================================================================
