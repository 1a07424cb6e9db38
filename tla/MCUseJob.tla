------------------------------ MODULE MCUseJob ------------------------------
(* A small instance of UseJob for TLC. *)
EXTENDS UseJob

TwoJobs == 1..2
=============================================================================
