------------------------------ MODULE MCRunJobs ------------------------------
(* RunJobs on two jobs and two polls in flight.                             *)
EXTENDS RunJobs
=============================================================================
