-------------------------------- MODULE MCSetup -------------------------------
(* Small instances of Seed for TLC.  *)
EXTENDS Seed, TLC

CONSTANTS p1, p2, superAdmin, support

\* The super admin holds everything, another role a part of it.
MCGrants == {<<superAdmin, p1>>, <<superAdmin, p2>>, <<support, p1>>}

SubmissionSymmetry == Permutations(Submissions) \cup Permutations(Seeds)
=============================================================================
