----------------------------- MODULE FrameGrants -----------------------------
(***************************************************************************)
(* What the physical frame allocator promises: the frame that allocate()   *)
(* returns has no owner at that moment, and its caller becomes the first.  *)
(* `granted' is the result of allocate() when it was the last call, so     *)
(* that a new owner can be told from one that shares the frame.            *)
(***************************************************************************)
EXTENDS FrameOwnership

CONSTANT None

VARIABLE granted

GrantsInit == OwnershipInit /\ granted = None

Grant(f) == Acquire(f) /\ granted' = f

PassOn(f) == (Share(f) \/ Release(f)) /\ granted' = None

GrantsNext == \E f \in AllFrames : Grant(f) \/ PassOn(f)

GrantsSpec == GrantsInit /\ [][GrantsNext]_<<owned, granted>>
=============================================================================
