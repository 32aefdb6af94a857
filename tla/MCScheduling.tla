---------------------------- MODULE MCScheduling ----------------------------
(* Model checking of the scheduler on one and on three CPUs. *)
EXTENDS Scheduling, TLC

\* The CPUs other than the boot CPU run the same loop.
Symmetry == Permutations(Cpus \ {BootCpu})
=============================================================================
