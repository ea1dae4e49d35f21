---------------------------- MODULE MCEmailJobs ----------------------------
(* Small instances of EmailJobs.  Workers are interchangeable, but symmetry would *)
(* not be sound for the liveness property.                                        *)
EXTENDS EmailJobs

CONSTANTS w1, w2
=============================================================================
