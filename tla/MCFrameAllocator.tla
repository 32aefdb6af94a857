-------------------------- MODULE MCFrameAllocator --------------------------
(* Model checking of the frame allocator: four frames of memory, two of them  *)
(* described from the start, and one frame of a device beyond the memory.     *)
EXTENDS FrameAllocator

MCRegion == [f \in 0 .. 4 |->
    CASE f \in {0, 2} -> "Usable" [] f \in {1, 3} -> "Kernel" [] OTHER -> "Reserved"]
=============================================================================
