---------------------------- MODULE MCZaloLifecycle ----------------------------
(* ZaloLifecycle on a small instance. *)
EXTENDS ZaloLifecycle, TLC

\* The properties of run zalo say nothing of what follows a slip.
NoSlip == slips = {}

Symmetry == Permutations(Procs) \cup Permutations(Logins)
=============================================================================
