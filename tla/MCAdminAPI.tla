----------------------------- MODULE MCAdminAPI ------------------------------
(***************************************************************************)
(* The admin API over three rows of one type.                              *)
(***************************************************************************)
EXTENDS AdminAPI, TLC

CONSTANTS j1, j2, j3, a1

MCTypeOf == [j \in Jobs |-> "NOTIFICATION"]

\* dead-letter-jobs, all jobs, and the dead-lettered ones of a type.
MCLists == {[dead |-> TRUE, status |-> "", jobType |-> ""],
            [dead |-> FALSE, status |-> "", jobType |-> ""],
            [dead |-> FALSE, status |-> "DEAD_LETTER", jobType |-> "NOTIFICATION"]}

\* Above MaxPage: the client gets pages of the default size.
MCLimits == {<<3>>}

JobSymmetry == Permutations(Jobs)
=============================================================================
