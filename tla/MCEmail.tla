-------------------------------- MODULE MCEmail -------------------------------
(* Small instances of EmailDelivery for TLC. *)
EXTENDS EmailDelivery

\* A worker killed twice uses up the stalls of a job.
EachTrouble ==
  [webCrash |-> 1, workerCrash |-> 2, shutdown |-> 1, lostUpdate |-> 1, ambiguous |-> 1]
=============================================================================
