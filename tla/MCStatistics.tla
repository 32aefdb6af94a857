---------------------------- MODULE MCStatistics ----------------------------
(***************************************************************************)
(* The statistics of the heap with two CPUs, one class that is used and    *)
(* blocks of whole pages.                                                  *)
(***************************************************************************)
EXTENDS AllocatorInfo

SomeLayouts == {[size |-> 1, align |-> 2], [size |-> 4, align |-> 2]}
=============================================================================
