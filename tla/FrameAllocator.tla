--------------------------- MODULE FrameAllocator ---------------------------
(***************************************************************************)
(* kernel/src/memory/frame_allocator.rs: the allocator of physical frames. *)
(* Each frame is absent, free or used; the free frames form an intrusive   *)
(* list, a used frame counts its references.  The allocator starts over a  *)
(* small static array of descriptors and later moves to an array that      *)
(* covers the whole of the memory.                                         *)
(*                                                                         *)
(* Every operation runs under the FRAME_ALLOCATOR spinlock.  The loop of   *)
(* init_frame_info() takes one frame per step, in any order of the memory  *)
(* map, and the lock keeps the other operations out until it ends.         *)
(***************************************************************************)
EXTENDS Integers

CONSTANTS FrameLimit,       \* number of frames a page table entry can name
          FrameCount,       \* number of frames of physical memory
          BootLen,          \* BOOT_FRAME_INFO_LEN
          Region,           \* memory map: the kind of region of each frame
          MaxOwners,        \* bound on the number of owners of one frame
          EarlyReferences,  \* whether frames are referenced before resize()
                            \* that only resize() will describe
          None              \* Option::None

Frames == 0 .. FrameLimit - 1

ASSUME FrameLimitAssumption == FrameLimit \in Nat
ASSUME FrameCountAssumption == FrameCount \in Nat /\ FrameCount <= FrameLimit
ASSUME BootLenAssumption == BootLen \in Nat /\ BootLen <= FrameCount
ASSUME RegionAssumption ==
    /\ Region \in [Frames -> {"Usable", "Kernel", "Reserved"}]
    /\ \A f \in Frames : f >= FrameCount => Region[f] = "Reserved"
ASSUME MaxOwnersAssumption == MaxOwners \in Nat /\ MaxOwners > 0
ASSUME EarlyReferencesAssumption == EarlyReferences \in BOOLEAN
ASSUME NoneAssumption == None \notin Nat

VARIABLES frame_info,                 \* descriptors of the frames
          len,                        \* frame_info.len()
          pending,                    \* frames init_frame_info() has to visit
          free_count,
          free_frame,                 \* head of the free list, Option<usize>
          access_beyond_frame_info,
          granted,                    \* the result of allocate(), if it was
                                      \* the last call
          owners,                     \* guards and PTEs that hold each frame
          panicked                    \* the kernel has panicked in the allocator

allocatorVars == <<frame_info, len, pending, free_count, free_frame,
                   access_beyond_frame_info, granted, owners, panicked>>

Absent == [kind |-> "Absent"]
FreeInfo(next) == [kind |-> "Free", next_free |-> next]
UsedInfo(count) == [kind |-> "Used", reference_count |-> count]

FrameInfo ==
    {Absent}
    \cup [kind : {"Free"}, next_free : Frames \cup {None}]
    \cup [kind : {"Used"}, reference_count : 1 .. MaxOwners]

IsFree(f) == frame_info[f].kind = "Free"
IsUsed(f) == frame_info[f].kind = "Used"

\* Frames of the kernel image, its stack and its page tables: the page tables
\* of the boot loader hold each of them once.
BootFrames == {f \in Frames : Region[f] = "Kernel"}
Ram == {f \in Frames : Region[f] # "Reserved"}

\* FrameAllocator::new() up to the loop of init_frame_info().
AllocatorInit ==
    /\ frame_info = [f \in Frames |-> Absent]
    /\ len = BootLen
    /\ pending = 0 .. BootLen - 1
    /\ free_count = 0
    /\ free_frame = None
    /\ access_beyond_frame_info = FALSE
    /\ granted = None
    /\ owners = [f \in Frames |-> IF f \in BootFrames THEN 1 ELSE 0]
    /\ panicked = FALSE
-----------------------------------------------------------------------------
\* The free list gets a new head.
Push(f) ==
    /\ frame_info' = [frame_info EXCEPT ![f] = FreeInfo(free_frame)]
    /\ free_frame' = f
    /\ free_count' = free_count + 1

\* One iteration of init_frame_info().
InitFrame(f) ==
    /\ f \in pending
    /\ pending' = pending \ {f}
    /\ \/ Region[f] = "Usable" /\ Push(f)
       \/ /\ Region[f] = "Kernel"
          /\ frame_info' = [frame_info EXCEPT ![f] = UsedInfo(1)]
          /\ UNCHANGED <<free_count, free_frame>>
       \/ Region[f] = "Reserved" /\ UNCHANGED <<frame_info, free_count, free_frame>>
    /\ UNCHANGED <<len, access_beyond_frame_info, granted, owners, panicked>>

\* The lock is free and the kernel has not panicked.
Ready == pending = {} /\ ~panicked

\* Whether allocate() succeeds; otherwise it returns NoFrame.
CanAllocate == free_count # 0 /\ free_frame # None

\* FrameAllocator::allocate(): pops the head of the free list, which has to be
\* a free frame, or else the kernel panics and no operation follows.
Allocate ==
    /\ Ready
    /\ CanAllocate
    /\ panicked' = ~IsFree(free_frame)
    /\ free_frame' = IF IsFree(free_frame) THEN frame_info[free_frame].next_free ELSE None
    /\ free_count' = free_count - 1
    /\ frame_info' = [frame_info EXCEPT ![free_frame] = UsedInfo(1)]
    /\ granted' = free_frame
    /\ owners' = [owners EXCEPT ![free_frame] = @ + 1]
    /\ UNCHANGED <<len, pending, access_beyond_frame_info>>

\* Whether the frame has a descriptor that is not Absent.
Managed(f) == f < len /\ frame_info[f].kind # "Absent"

\* Frames that are described neither now nor, unless EarlyReferences is set,
\* by a later resize().
MayReference(f) ==
    \/ owners[f] > 0 /\ f < len
    \/ ~Managed(f) /\ (Region[f] = "Reserved" \/ EarlyReferences)

\* Mutant of Reference: the new owner is not counted.
ReferenceForgets(f) ==
    /\ Ready
    /\ MayReference(f)
    /\ owners[f] < MaxOwners
    /\ granted' = None
    /\ owners' = [owners EXCEPT ![f] = @ + 1]
    /\ UNCHANGED <<frame_info, len, pending, free_count, free_frame,
                   access_beyond_frame_info, panicked>>

\* FrameAllocator::reference(): a new owner of a frame, who has it from another
\* owner or wants memory that the allocator does not manage.  Such memory is
\* not counted, and a free frame makes it panic.
Reference(f) ==
    /\ Ready
    /\ MayReference(f)
    /\ owners[f] < MaxOwners
    /\ granted' = None
    /\ owners' = [owners EXCEPT ![f] = @ + 1]
    /\ panicked' = (Managed(f) /\ IsFree(f))
    /\ frame_info' = IF Managed(f) /\ IsUsed(f)
                     THEN [frame_info EXCEPT ![f] = UsedInfo(@.reference_count + 1)]
                     ELSE frame_info
    /\ UNCHANGED <<len, pending, free_count, free_frame, access_beyond_frame_info>>

\* FrameAllocator::deallocate(), also FrameGuard::drop(): an owner lets the
\* frame go, and the last one puts it onto the free list.
Deallocate(f) ==
    /\ Ready
    /\ owners[f] > 0
    /\ f < len \/ Region[f] = "Reserved" \/ EarlyReferences
    /\ granted' = None
    /\ owners' = [owners EXCEPT ![f] = @ - 1]
    /\ panicked' = (Managed(f) /\ IsFree(f))
    /\ IF Managed(f) /\ IsUsed(f)
       THEN IF frame_info[f].reference_count = 1
            THEN Push(f)
            ELSE /\ frame_info' = [frame_info EXCEPT ![f] = UsedInfo(@.reference_count - 1)]
                 /\ UNCHANGED <<free_count, free_frame>>
       ELSE UNCHANGED <<frame_info, free_count, free_frame>>
    /\ UNCHANGED <<len, pending, access_beyond_frame_info>>

\* Mutant of Resize: the frames of the small array are initialized again.
ResizeFromZero ==
    /\ Ready
    /\ ~access_beyond_frame_info
    /\ len < FrameCount
    /\ len' = FrameCount
    /\ pending' = 0 .. FrameCount - 1
    /\ UNCHANGED <<frame_info, free_count, free_frame, access_beyond_frame_info,
                   granted, owners, panicked>>

\* FrameAllocator::resize() up to the loop of init_frame_info(): the old
\* descriptors are copied, the new ones are Absent until the loop visits them.
Resize ==
    /\ Ready
    /\ ~access_beyond_frame_info
    /\ len < FrameCount
    /\ len' = FrameCount
    /\ pending' = len .. FrameCount - 1
    /\ UNCHANGED <<frame_info, free_count, free_frame, access_beyond_frame_info,
                   granted, owners, panicked>>

AllocatorNext ==
    \/ \E f \in Frames : InitFrame(f) \/ Reference(f) \/ Deallocate(f)
    \/ Allocate
    \/ Resize

AllocatorSpec == AllocatorInit /\ [][AllocatorNext]_allocatorVars
-----------------------------------------------------------------------------
\* Type invariant of struct FrameAllocator.
AllocatorTypeOK ==
    /\ frame_info \in [Frames -> FrameInfo]
    /\ len \in {BootLen, FrameCount}
    /\ pending \in SUBSET (0 .. len - 1)
    /\ free_count \in 0 .. FrameCount
    /\ free_frame \in Frames \cup {None}
    /\ access_beyond_frame_info = FALSE
    /\ owners \in [Frames -> 0 .. MaxOwners]
    /\ panicked \in BOOLEAN

\* FrameAllocator::allocate() never finds a used frame on the free list, and
\* neither reference() nor deallocate() ever meets a free frame that somebody
\* owns: the panics of these three functions are unreachable.
NeverPanics == panicked = FALSE

\* FrameAllocator::reference_count() where it is not NoFrame.
ReferenceCount(f) == IF IsFree(f) THEN 0 ELSE frame_info[f].reference_count

\* The reference count of every managed frame is the number of its owners
\* (frame guards and page table entries): no frame leaks, and none is freed by
\* FrameAllocator::deallocate() while somebody still uses it.
CountsAreExact ==
    \A f \in Frames : frame_info[f].kind # "Absent" => ReferenceCount(f) = owners[f]

\* `stack' lists the free frames from the bottom of the free list to its head.
FreeFrames(stack, n) ==
    /\ \A i, j \in 1 .. n : stack[i] = stack[j] => i = j
    /\ \A f \in Frames : IsFree(f) <=> \E i \in 1 .. n : stack[i] = f
    /\ free_frame = IF n = 0 THEN None ELSE stack[n]
    /\ \A i \in 1 .. n :
          frame_info[stack[i]].next_free = IF i = 1 THEN None ELSE stack[i - 1]

\* The free list visits every free frame exactly once and no other frame, and
\* FrameAllocator::count() is its length.
FramesAreListed ==
    \E stack \in [1 .. free_count -> Frames] : FreeFrames(stack, free_count)

\* FrameAllocator::allocate() answers NoFrame only when all the memory that
\* init_frame_info() has described has an owner.
NoFrameIsHonest ==
    ~CanAllocate => \A f \in Ram : f < len /\ f \notin pending => owners[f] > 0

Grants == INSTANCE FrameGrants WITH AllFrames <- Frames, owned <- owners

\* Whatever the allocator hands out has no other owner at that moment: neither
\* a boot time page table, nor a process, nor another caller of allocate(), and
\* moving to the large array in resize() forgets nobody.
ImplementsGrants == Grants!GrantsSpec

\* The allocator as a whole: its counts are the owners, its list the free frames, it refuses
\* memory only when there is none, and never panics.
AllocatorIsSound ==
    AllocatorTypeOK /\ CountsAreExact /\ FramesAreListed /\ NoFrameIsHonest /\ NeverPanics
=============================================================================
