---------------------------- MODULE MCPackRuntime ----------------------------
(* PackRuntime for TLC: requests are interchangeable model values. *)
EXTENDS PackRuntime, TLC

ReqSymmetry == Permutations(Reqs)
=============================================================================
