--------------------------- MODULE FrameOwnership ---------------------------
(***************************************************************************)
(* The physical frames as the rest of the kernel sees them: only the       *)
(* number of owners of a frame counts, that is of the frame guards and the *)
(* page table entries that hold it.  A frame is handed out only when       *)
(* nobody holds it, and a frame of main memory is shared by its owners.    *)
(***************************************************************************)
EXTENDS Naturals

CONSTANTS AllFrames,   \* the frames that a page table entry can name
          Ram,         \* the frames of main memory that the kernel may use
          BootFrames   \* the frames that are in use when the kernel starts

VARIABLE owned         \* number of owners of every frame

OwnershipInit == owned = [f \in AllFrames |-> IF f \in BootFrames THEN 1 ELSE 0]

\* A frame of main memory that has no owner gets its first one.
Acquire(f) ==
    /\ f \in Ram
    /\ owned[f] = 0
    /\ owned' = [owned EXCEPT ![f] = 1]

\* An owner shares the frame; device memory can be shared by anybody.
Share(f) ==
    /\ owned[f] > 0 \/ f \notin Ram
    /\ owned' = [owned EXCEPT ![f] = @ + 1]

Release(f) ==
    /\ owned[f] > 0
    /\ owned' = [owned EXCEPT ![f] = @ - 1]
=============================================================================
