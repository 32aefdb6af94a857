------------------------ MODULE FrameAllocatorProofs ------------------------
(***************************************************************************)
(* Proofs about the frame allocator for every size of memory, every memory *)
(* map and every bound on the owners, provided that nobody touches a frame *)
(* that only resize() will describe before resize() is called.             *)
(***************************************************************************)
EXTENDS FrameAllocator, FiniteSetTheorems, TLAPS

\* The part of the type invariant that is inductive on its own.
AllocatorTypes ==
    /\ frame_info \in [Frames -> FrameInfo]
    /\ len \in {BootLen, FrameCount}
    /\ pending \in SUBSET (0 .. len - 1)
    /\ free_count \in Nat
    /\ free_frame \in Frames \cup {None}
    /\ access_beyond_frame_info = FALSE
    /\ owners \in [Frames -> 0 .. MaxOwners]

\* Exactly the frames of main memory that init_frame_info() has visited have a
\* descriptor, and the others have the owners they had when the kernel started.
Described ==
    \A f \in Frames :
        /\ frame_info[f].kind # "Absent" <=> f \in Ram /\ f < len /\ f \notin pending
        /\ f \in Ram /\ frame_info[f].kind = "Absent" =>
              owners[f] = IF f \in BootFrames THEN 1 ELSE 0

\* The inductive invariant.
AllocatorInv ==
    /\ AllocatorTypes
    /\ Described
    /\ CountsAreExact
    /\ FramesAreListed
    /\ NeverPanics

\* What the provers need to know of a descriptor.
LEMMA InfoKinds ==
  ASSUME AllocatorTypes, NEW f \in Frames
  PROVE  /\ frame_info[f].kind \in {"Absent", "Free", "Used"}
         /\ IsFree(f) => frame_info[f].next_free \in Frames \cup {None}
         /\ IsUsed(f) => frame_info[f].reference_count \in 1 .. MaxOwners
<1>1. frame_info[f] \in FrameInfo
  BY DEF AllocatorTypes
<1>2. CASE frame_info[f] = Absent
  BY <1>2 DEF Absent, IsFree, IsUsed
<1>3. CASE frame_info[f] \in [kind : {"Free"}, next_free : Frames \cup {None}]
  BY <1>3 DEF IsFree, IsUsed
<1>4. CASE frame_info[f] \in [kind : {"Used"}, reference_count : 1 .. MaxOwners]
  BY <1>4 DEF IsFree, IsUsed
<1> QED
  BY <1>1, <1>2, <1>3, <1>4 DEF FrameInfo

\* Descriptors that the operations write.
LEMMA InfoTypes ==
  /\ \A next \in Frames \cup {None} :
        /\ FreeInfo(next) \in FrameInfo
        /\ FreeInfo(next).kind = "Free"
        /\ FreeInfo(next).next_free = next
  /\ \A n \in 1 .. MaxOwners :
        /\ UsedInfo(n) \in FrameInfo
        /\ UsedInfo(n).kind = "Used"
        /\ UsedInfo(n).reference_count = n
  BY DEF FreeInfo, UsedInfo, FrameInfo

\* Steps that neither free nor take a frame leave the free list intact.
LEMMA SameFreeFramesSameList ==
  ASSUME FramesAreListed,
         UNCHANGED <<free_count, free_frame>>,
         \A f \in Frames : IsFree(f)' <=> IsFree(f),
         \A f \in Frames : IsFree(f) => frame_info'[f].next_free = frame_info[f].next_free
  PROVE  FramesAreListed'
<1>1. PICK n : n = free_count
  OBVIOUS
<1>2. PICK stack \in [1 .. n -> Frames] : FreeFrames(stack, n)
  BY <1>1 DEF FramesAreListed
<1>3. FreeFrames(stack, n)'
  <2>1. \A i \in 1 .. n : IsFree(stack[i])
    BY <1>2 DEF FreeFrames
  <2>2. \A i \in 1 .. n :
           frame_info'[stack[i]].next_free = IF i = 1 THEN None ELSE stack[i - 1]
    BY <1>2, <2>1 DEF FreeFrames
  <2> QED
    BY <1>2, <2>2 DEF FreeFrames
<1> QED
  BY <1>1, <1>2, <1>3 DEF FramesAreListed

\* A frame that was not free becomes the head of the free list.
LEMMA PushKeepsList ==
  ASSUME AllocatorTypes, FramesAreListed,
         NEW f0 \in Frames, ~IsFree(f0), Push(f0)
  PROVE  FramesAreListed'
<1>1. PICK n \in Nat : n = free_count
  BY DEF AllocatorTypes
<1>2. PICK stack \in [1 .. n -> Frames] : FreeFrames(stack, n)
  BY <1>1 DEF FramesAreListed
<1>3. free_frame' = f0 /\ free_count' = n + 1
  BY <1>1 DEF Push
<1>4. \A f \in Frames : f # f0 => frame_info'[f] = frame_info[f]
  BY DEF Push, AllocatorTypes
<1>5. frame_info'[f0].kind = "Free" /\ frame_info'[f0].next_free = free_frame
  <2>1. frame_info'[f0] = FreeInfo(free_frame)
    BY DEF Push, AllocatorTypes
  <2> QED
    BY <2>1, InfoTypes DEF AllocatorTypes
<1> DEFINE longer == [i \in 1 .. n + 1 |-> IF i = n + 1 THEN f0 ELSE stack[i]]
<1>6. longer \in [1 .. n + 1 -> Frames]
  OBVIOUS
<1>7. \A i \in 1 .. n : stack[i] \in Frames /\ stack[i] # f0 /\ longer[i] = stack[i]
  BY <1>2 DEF FreeFrames
<1>8. longer[n + 1] = f0
  OBVIOUS
<1>9. \A i \in 1 .. n + 1 : i \in 1 .. n \/ i = n + 1
  OBVIOUS
<1>10. n + 1 \in 1 .. n + 1 /\ (n # 0 => n \in 1 .. n) /\ \A i \in 1 .. n : i \in 1 .. n + 1
  OBVIOUS
<1> HIDE DEF longer
<1>11. \A i, j \in 1 .. n + 1 : longer[i] = longer[j] => i = j
  <2>1. \A i, j \in 1 .. n : stack[i] = stack[j] => i = j
    BY <1>2 DEF FreeFrames
  <2> QED
    BY <1>7, <1>8, <1>9, <2>1
<1>12. \A f \in Frames : IsFree(f)' <=> \E i \in 1 .. n + 1 : longer[i] = f
  <2> SUFFICES ASSUME NEW f \in Frames
               PROVE  IsFree(f)' <=> \E i \in 1 .. n + 1 : longer[i] = f
    OBVIOUS
  <2>1. CASE f = f0
    BY <1>5, <1>8, <1>10, <2>1 DEF IsFree
  <2>2. CASE f # f0
    <3>1. IsFree(f)' <=> IsFree(f)
      BY <1>4, <2>2 DEF IsFree
    <3>2. IsFree(f) <=> \E i \in 1 .. n : stack[i] = f
      BY <1>2 DEF FreeFrames
    <3> QED
      BY <1>7, <1>8, <1>9, <1>10, <2>2, <3>1, <3>2
  <2> QED
    BY <2>1, <2>2
<1>13. \A i \in 1 .. n + 1 :
          frame_info'[longer[i]].next_free = IF i = 1 THEN None ELSE longer[i - 1]
  <2> SUFFICES ASSUME NEW i \in 1 .. n + 1
               PROVE  frame_info'[longer[i]].next_free
                         = IF i = 1 THEN None ELSE longer[i - 1]
    OBVIOUS
  <2>1. CASE i = n + 1
    <3>1. free_frame = IF n = 0 THEN None ELSE stack[n]
      BY <1>2 DEF FreeFrames
    <3> QED
      BY <1>5, <1>7, <1>8, <1>10, <2>1, <3>1
  <2>2. CASE i # n + 1
    <3>1. i \in 1 .. n /\ (i # 1 => i - 1 \in 1 .. n)
      BY <2>2
    <3>2. frame_info'[longer[i]].next_free = frame_info[stack[i]].next_free
      BY <1>4, <1>7, <3>1
    <3> QED
      BY <1>2, <1>7, <3>1, <3>2 DEF FreeFrames
  <2> QED
    BY <2>1, <2>2
<1>14. FreeFrames(longer, n + 1)'
  BY <1>3, <1>8, <1>11, <1>12, <1>13 DEF FreeFrames
<1> QED
  BY <1>3, <1>6, <1>14 DEF FramesAreListed

\* While the free list is intact, its head is a free frame unless it is empty.
LEMMA HeadIsFree ==
  ASSUME AllocatorTypes, FramesAreListed
  PROVE  /\ CanAllocate => free_frame \in Frames /\ IsFree(free_frame)
         /\ ~CanAllocate => \A f \in Frames : ~IsFree(f)
<1>1. PICK n \in Nat : n = free_count
  BY DEF AllocatorTypes
<1>2. PICK stack \in [1 .. n -> Frames] : FreeFrames(stack, n)
  BY <1>1 DEF FramesAreListed
<1>3. CASE n = 0
  BY <1>1, <1>2, <1>3 DEF FreeFrames, CanAllocate
<1>4. CASE n # 0
  <2>1. n \in 1 .. n
    BY <1>4
  <2>2. free_frame = stack[n] /\ stack[n] \in Frames /\ IsFree(stack[n])
    BY <1>2, <1>4, <2>1 DEF FreeFrames
  <2>3. CanAllocate
    BY <1>1, <1>4, <2>2, NoneAssumption, FrameLimitAssumption DEF CanAllocate, Frames
  <2> QED
    BY <2>2, <2>3
<1> QED
  BY <1>3, <1>4

\* FrameAllocator::allocate() pops the head of the free list.
LEMMA PopKeepsList ==
  ASSUME AllocatorTypes, FramesAreListed, Allocate
  PROVE  FramesAreListed'
<1>1. PICK n \in Nat : n = free_count
  BY DEF AllocatorTypes
<1>2. PICK stack \in [1 .. n -> Frames] : FreeFrames(stack, n)
  BY <1>1 DEF FramesAreListed
<1>3. n # 0 /\ n \in 1 .. n /\ n - 1 \in Nat
  BY <1>1 DEF Allocate, CanAllocate
<1> DEFINE top == stack[n]
<1>4. top \in Frames /\ free_frame = top /\ IsFree(top)
  BY <1>2, <1>3 DEF FreeFrames
<1>5. /\ free_count' = n - 1
      /\ free_frame' = frame_info[top].next_free
      /\ frame_info' = [frame_info EXCEPT ![top] = UsedInfo(1)]
  BY <1>1, <1>4 DEF Allocate
<1>6. \A f \in Frames : f # top => frame_info'[f] = frame_info[f]
  BY <1>5 DEF AllocatorTypes
<1>7. ~IsFree(top)'
  BY <1>4, <1>5 DEF AllocatorTypes, IsFree, UsedInfo
<1> DEFINE rest == [i \in 1 .. n - 1 |-> stack[i]]
<1>8. rest \in [1 .. n - 1 -> Frames]
  BY <1>3
<1>9. \A i \in 1 .. n - 1 : i \in 1 .. n /\ rest[i] = stack[i] /\ i # n /\ (i # 1 => i - 1 \in 1 .. n - 1)
  BY <1>3
<1>10. \A i \in 1 .. n : i \in 1 .. n - 1 \/ i = n
  BY <1>3
<1> HIDE DEF rest
<1>11. \A i, j \in 1 .. n : stack[i] = stack[j] => i = j
  BY <1>2 DEF FreeFrames
<1>12. \A i \in 1 .. n - 1 : rest[i] \in Frames /\ rest[i] # top
  BY <1>3, <1>8, <1>9, <1>11
<1>13. \A i, j \in 1 .. n - 1 : rest[i] = rest[j] => i = j
  BY <1>9, <1>11
<1>14. \A f \in Frames : IsFree(f)' <=> \E i \in 1 .. n - 1 : rest[i] = f
  <2> SUFFICES ASSUME NEW f \in Frames
               PROVE  IsFree(f)' <=> \E i \in 1 .. n - 1 : rest[i] = f
    OBVIOUS
  <2>1. CASE f = top
    BY <1>7, <1>12, <2>1
  <2>2. CASE f # top
    <3>1. IsFree(f)' <=> IsFree(f)
      BY <1>6, <2>2 DEF IsFree
    <3>2. IsFree(f) <=> \E i \in 1 .. n : stack[i] = f
      BY <1>2 DEF FreeFrames
    <3> QED
      BY <1>9, <1>10, <2>2, <3>1, <3>2
  <2> QED
    BY <2>1, <2>2
<1>15. \A i \in 1 .. n - 1 :
          frame_info'[rest[i]].next_free = IF i = 1 THEN None ELSE rest[i - 1]
  <2> SUFFICES ASSUME NEW i \in 1 .. n - 1
               PROVE  frame_info'[rest[i]].next_free
                         = IF i = 1 THEN None ELSE rest[i - 1]
    OBVIOUS
  <2>1. frame_info'[rest[i]].next_free = frame_info[stack[i]].next_free
    BY <1>6, <1>9, <1>12
  <2> QED
    BY <1>2, <1>9, <2>1 DEF FreeFrames
<1>16. free_frame' = IF n - 1 = 0 THEN None ELSE rest[n - 1]
  <2>1. frame_info[stack[n]].next_free = IF n = 1 THEN None ELSE stack[n - 1]
    BY <1>2, <1>3 DEF FreeFrames
  <2>2. n # 1 => n - 1 \in 1 .. n - 1
    BY <1>3
  <2> QED
    BY <1>5, <1>9, <2>1, <2>2
<1>17. FreeFrames(rest, n - 1)'
  BY <1>13, <1>14, <1>15, <1>16 DEF FreeFrames
<1> QED
  BY <1>5, <1>8, <1>17 DEF FramesAreListed

\* The allocator starts in a state that satisfies the invariant.
LEMMA InitEstablishesInv == AllocatorInit => AllocatorInv
<1> SUFFICES ASSUME AllocatorInit PROVE AllocatorInv
  OBVIOUS
<1>1. \A f \in Frames : frame_info[f].kind = "Absent" /\ ~IsFree(f)
  BY DEF AllocatorInit, Absent, IsFree
<1>2. AllocatorTypes
  <2>1. frame_info \in [Frames -> FrameInfo]
    BY DEF AllocatorInit, FrameInfo
  <2>2. owners \in [Frames -> 0 .. MaxOwners]
    BY MaxOwnersAssumption DEF AllocatorInit
  <2> QED
    BY <2>1, <2>2 DEF AllocatorInit, AllocatorTypes
<1>3. Described
  <2> SUFFICES ASSUME NEW f \in Frames
               PROVE  /\ ~(f \in Ram /\ f < len /\ f \notin pending)
                      /\ owners[f] = IF f \in BootFrames THEN 1 ELSE 0
    BY <1>1 DEF Described
  <2> QED
    BY BootLenAssumption, FrameLimitAssumption DEF AllocatorInit, Frames
<1>4. CountsAreExact
  BY <1>1 DEF CountsAreExact
<1>5. FramesAreListed
  <2> DEFINE empty == [i \in 1 .. 0 |-> 0]
  <2>1. empty \in [1 .. free_count -> Frames]
    BY DEF AllocatorInit
  <2>2. FreeFrames(empty, free_count)
    BY <1>1 DEF AllocatorInit, FreeFrames
  <2> QED
    BY <2>1, <2>2 DEF FramesAreListed
<1>6. NeverPanics
  BY DEF AllocatorInit, NeverPanics
<1> QED
  BY <1>2, <1>3, <1>4, <1>5, <1>6 DEF AllocatorInv

\* init_frame_info() describes one more frame, by its region.
LEMMA InitFramePreservesInv ==
  ASSUME AllocatorInv, NEW f0 \in Frames, InitFrame(f0)
  PROVE  AllocatorInv'
<1> USE DEF AllocatorInv
<1>1. /\ f0 \in pending
      /\ pending' = pending \ {f0}
      /\ UNCHANGED <<len, access_beyond_frame_info, owners, panicked>>
  BY DEF InitFrame
<1>2. frame_info[f0].kind = "Absent" /\ f0 < len /\ ~IsFree(f0)
  <2>1. f0 < len
    BY <1>1, FrameCountAssumption, BootLenAssumption, FrameLimitAssumption
       DEF AllocatorTypes, Frames
  <2>2. frame_info[f0].kind = "Absent"
    BY <1>1 DEF Described
  <2> QED
    BY <2>1, <2>2 DEF IsFree
<1>3. f0 \in Ram => owners[f0] = IF f0 \in BootFrames THEN 1 ELSE 0
  BY <1>2 DEF Described
<1>4. NeverPanics'
  BY <1>1 DEF NeverPanics
<1>5. CASE Region[f0] = "Usable"
  <2>1. Push(f0)
    BY <1>5 DEF InitFrame
  <2>2. f0 \in Ram /\ f0 \notin BootFrames
    BY <1>5 DEF Ram, BootFrames
  <2>3. /\ frame_info' \in [Frames -> FrameInfo]
        /\ frame_info'[f0] = FreeInfo(free_frame)
        /\ frame_info'[f0].kind = "Free"
        /\ \A f \in Frames : f # f0 => frame_info'[f] = frame_info[f]
    BY <2>1, InfoTypes DEF Push, AllocatorTypes
  <2>4. AllocatorTypes'
    BY <1>1, <2>1, <2>3 DEF AllocatorTypes, Push
  <2>5. Described'
    <3> SUFFICES ASSUME NEW f \in Frames
                 PROVE  /\ frame_info'[f].kind # "Absent"
                              <=> f \in Ram /\ f < len' /\ f \notin pending'
                        /\ f \in Ram /\ frame_info'[f].kind = "Absent" =>
                              owners'[f] = IF f \in BootFrames THEN 1 ELSE 0
      BY DEF Described, Ram, BootFrames
    <3> QED
      BY <1>1, <1>2, <2>2, <2>3 DEF Described
  <2>6. CountsAreExact'
    <3> SUFFICES ASSUME NEW f \in Frames, frame_info'[f].kind # "Absent"
                 PROVE  ReferenceCount(f)' = owners'[f]
      BY DEF CountsAreExact
    <3>1. CASE f = f0
      BY <1>1, <1>3, <2>2, <2>3, <3>1 DEF ReferenceCount, IsFree
    <3>2. CASE f # f0
      BY <1>1, <2>3, <3>2 DEF CountsAreExact, ReferenceCount, IsFree
    <3> QED
      BY <3>1, <3>2
  <2>7. FramesAreListed'
    BY <1>2, <2>1, PushKeepsList
  <2> QED
    BY <1>4, <2>4, <2>5, <2>6, <2>7
<1>6. CASE Region[f0] = "Kernel"
  <2>1. /\ frame_info' = [frame_info EXCEPT ![f0] = UsedInfo(1)]
        /\ UNCHANGED <<free_count, free_frame>>
    BY <1>6 DEF InitFrame
  <2>2. f0 \in Ram /\ f0 \in BootFrames
    BY <1>6 DEF Ram, BootFrames
  <2>3. /\ frame_info' \in [Frames -> FrameInfo]
        /\ frame_info'[f0].kind = "Used"
        /\ frame_info'[f0].reference_count = 1
        /\ \A f \in Frames : f # f0 => frame_info'[f] = frame_info[f]
    BY <2>1, InfoTypes, MaxOwnersAssumption DEF AllocatorTypes
  <2>4. AllocatorTypes'
    BY <1>1, <2>1, <2>3 DEF AllocatorTypes
  <2>5. Described'
    <3> SUFFICES ASSUME NEW f \in Frames
                 PROVE  /\ frame_info'[f].kind # "Absent"
                              <=> f \in Ram /\ f < len' /\ f \notin pending'
                        /\ f \in Ram /\ frame_info'[f].kind = "Absent" =>
                              owners'[f] = IF f \in BootFrames THEN 1 ELSE 0
      BY DEF Described, Ram, BootFrames
    <3> QED
      BY <1>1, <1>2, <2>2, <2>3 DEF Described
  <2>6. CountsAreExact'
    <3> SUFFICES ASSUME NEW f \in Frames, frame_info'[f].kind # "Absent"
                 PROVE  ReferenceCount(f)' = owners'[f]
      BY DEF CountsAreExact
    <3>1. CASE f = f0
      BY <1>1, <1>3, <2>2, <2>3, <3>1 DEF ReferenceCount, IsFree
    <3>2. CASE f # f0
      BY <1>1, <2>3, <3>2 DEF CountsAreExact, ReferenceCount, IsFree
    <3> QED
      BY <3>1, <3>2
  <2>7. FramesAreListed'
    <3>1. \A f \in Frames : IsFree(f)' <=> IsFree(f)
      BY <1>2, <2>3 DEF IsFree
    <3>2. \A f \in Frames :
             IsFree(f) => frame_info'[f].next_free = frame_info[f].next_free
      BY <1>2, <2>3
    <3> QED
      BY <2>1, <3>1, <3>2, SameFreeFramesSameList
  <2> QED
    BY <1>4, <2>4, <2>5, <2>6, <2>7
<1>7. CASE Region[f0] = "Reserved"
  <2>1. UNCHANGED <<frame_info, free_count, free_frame>>
    BY <1>7 DEF InitFrame
  <2>2. f0 \notin Ram
    BY <1>7 DEF Ram
  <2>3. AllocatorTypes'
    BY <1>1, <2>1 DEF AllocatorTypes
  <2>4. Described'
    BY <1>1, <2>1, <2>2 DEF Described, Ram, BootFrames
  <2>5. CountsAreExact'
    BY <1>1, <2>1 DEF CountsAreExact, ReferenceCount, IsFree
  <2>6. FramesAreListed'
    BY <2>1, SameFreeFramesSameList DEF IsFree
  <2> QED
    BY <1>4, <2>3, <2>4, <2>5, <2>6
<1> QED
  BY <1>5, <1>6, <1>7, RegionAssumption

\* FrameAllocator::allocate() gives the frame its first owner.
LEMMA AllocatePreservesInv ==
  ASSUME AllocatorInv, Allocate
  PROVE  AllocatorInv' /\ free_frame \in Ram /\ owners[free_frame] = 0
<1> USE DEF AllocatorInv
<1> DEFINE top == free_frame
<1>1. top \in Frames /\ IsFree(top)
  BY HeadIsFree DEF Allocate
<1>2. frame_info[top].next_free \in Frames \cup {None}
  BY <1>1, InfoKinds
<1>3. top \in Ram /\ owners[top] = 0
  BY <1>1 DEF Described, CountsAreExact, ReferenceCount, IsFree
<1>4. /\ free_frame' = frame_info[top].next_free
      /\ free_count' = free_count - 1
      /\ free_count # 0
      /\ UNCHANGED <<len, pending, access_beyond_frame_info>>
      /\ panicked' = FALSE
  BY <1>1 DEF Allocate, CanAllocate
<1>5. /\ owners' \in [Frames -> 0 .. MaxOwners]
      /\ owners'[top] = 1
      /\ \A f \in Frames : f # top => owners'[f] = owners[f]
  BY <1>1, <1>3, MaxOwnersAssumption DEF Allocate, AllocatorTypes
<1>6. /\ frame_info' \in [Frames -> FrameInfo]
      /\ frame_info'[top].kind = "Used"
      /\ frame_info'[top].reference_count = 1
      /\ \A f \in Frames : f # top => frame_info'[f] = frame_info[f]
  BY <1>1, InfoTypes, MaxOwnersAssumption DEF Allocate, AllocatorTypes
<1>7. AllocatorTypes'
  BY <1>2, <1>4, <1>5, <1>6 DEF AllocatorTypes
<1>8. Described'
  <2> SUFFICES ASSUME NEW f \in Frames
               PROVE  /\ frame_info'[f].kind # "Absent"
                            <=> f \in Ram /\ f < len' /\ f \notin pending'
                      /\ f \in Ram /\ frame_info'[f].kind = "Absent" =>
                            owners'[f] = IF f \in BootFrames THEN 1 ELSE 0
    BY DEF Described, Ram, BootFrames
  <2>1. CASE f = top
    BY <1>1, <1>4, <1>6, <2>1 DEF Described, IsFree
  <2>2. CASE f # top
    BY <1>4, <1>5, <1>6, <2>2 DEF Described
  <2> QED
    BY <2>1, <2>2
<1>9. CountsAreExact'
  <2> SUFFICES ASSUME NEW f \in Frames, frame_info'[f].kind # "Absent"
               PROVE  ReferenceCount(f)' = owners'[f]
    BY DEF CountsAreExact
  <2>1. CASE f = top
    BY <1>5, <1>6, <2>1 DEF ReferenceCount, IsFree
  <2>2. CASE f # top
    BY <1>5, <1>6, <2>2 DEF CountsAreExact, ReferenceCount, IsFree
  <2> QED
    BY <2>1, <2>2
<1>10. FramesAreListed'
  BY PopKeepsList
<1>11. NeverPanics'
  BY <1>4 DEF NeverPanics
<1> QED
  BY <1>3, <1>7, <1>8, <1>9, <1>10, <1>11

\* FrameAllocator::reference() counts the new owner of a managed frame.
LEMMA ReferencePreservesInv ==
  ASSUME AllocatorInv, ~EarlyReferences, NEW f0 \in Frames, Reference(f0)
  PROVE  AllocatorInv' /\ (owners[f0] > 0 \/ f0 \notin Ram)
<1> USE DEF AllocatorInv
<1>1. UNCHANGED <<len, pending, free_count, free_frame, access_beyond_frame_info>>
  BY DEF Reference
<1>2. /\ owners' \in [Frames -> 0 .. MaxOwners]
      /\ owners'[f0] = owners[f0] + 1
      /\ owners[f0] \in Nat /\ owners[f0] + 1 \in 1 .. MaxOwners
      /\ \A f \in Frames : f # f0 => owners'[f] = owners[f]
  BY MaxOwnersAssumption DEF Reference, AllocatorTypes
<1>3. owners[f0] > 0 \/ f0 \notin Ram
  BY DEF Reference, MayReference, Ram
<1>4. CASE f0 \in Ram
  <2>1. owners[f0] > 0 /\ f0 < len /\ f0 \notin pending
    BY <1>4 DEF Reference, MayReference, Ram, Ready
  <2>2. IsUsed(f0) /\ Managed(f0) /\ ~IsFree(f0) /\ frame_info[f0].reference_count = owners[f0]
    <3>1. frame_info[f0].kind # "Absent"
      BY <1>4, <2>1 DEF Described
    <3>2. ~IsFree(f0)
      BY <2>1, <3>1 DEF CountsAreExact, ReferenceCount
    <3> QED
      BY <2>1, <3>1, <3>2, InfoKinds DEF IsUsed, IsFree, Managed, CountsAreExact, ReferenceCount
  <2>3. frame_info' = [frame_info EXCEPT ![f0] = UsedInfo(owners'[f0])] /\ panicked' = FALSE
    BY <1>2, <2>2 DEF Reference, AllocatorTypes
  <2>4. /\ frame_info' \in [Frames -> FrameInfo]
        /\ frame_info'[f0].kind = "Used"
        /\ frame_info'[f0].reference_count = owners'[f0]
        /\ \A f \in Frames : f # f0 => frame_info'[f] = frame_info[f]
    BY <1>2, <2>3, InfoTypes DEF AllocatorTypes
  <2>5. AllocatorTypes'
    BY <1>1, <1>2, <2>4 DEF AllocatorTypes
  <2>6. Described'
    <3> SUFFICES ASSUME NEW f \in Frames
                 PROVE  /\ frame_info'[f].kind # "Absent"
                              <=> f \in Ram /\ f < len' /\ f \notin pending'
                        /\ f \in Ram /\ frame_info'[f].kind = "Absent" =>
                              owners'[f] = IF f \in BootFrames THEN 1 ELSE 0
      BY DEF Described, Ram, BootFrames
    <3>1. CASE f = f0
      BY <1>1, <1>4, <2>1, <2>4, <3>1
    <3>2. CASE f # f0
      BY <1>1, <1>2, <2>4, <3>2 DEF Described
    <3> QED
      BY <3>1, <3>2
  <2>7. CountsAreExact'
    <3> SUFFICES ASSUME NEW f \in Frames, frame_info'[f].kind # "Absent"
                 PROVE  ReferenceCount(f)' = owners'[f]
      BY DEF CountsAreExact
    <3>1. CASE f = f0
      BY <2>4, <3>1 DEF ReferenceCount, IsFree
    <3>2. CASE f # f0
      BY <1>2, <2>4, <3>2 DEF CountsAreExact, ReferenceCount, IsFree
    <3> QED
      BY <3>1, <3>2
  <2>8. FramesAreListed'
    <3>1. \A f \in Frames : IsFree(f)' <=> IsFree(f)
      BY <2>2, <2>4 DEF IsFree
    <3>2. \A f \in Frames :
             IsFree(f) => frame_info'[f].next_free = frame_info[f].next_free
      BY <2>2, <2>4
    <3> QED
      BY <1>1, <3>1, <3>2, SameFreeFramesSameList
  <2>9. NeverPanics'
    BY <2>3 DEF NeverPanics
  <2> QED
    BY <1>3, <2>5, <2>6, <2>7, <2>8, <2>9
<1>5. CASE f0 \notin Ram
  <2>1. frame_info[f0].kind = "Absent"
    BY <1>5 DEF Described
  <2>2. frame_info' = frame_info /\ panicked' = FALSE
    BY <2>1 DEF Reference, Managed
  <2>3. AllocatorTypes'
    BY <1>1, <1>2, <2>2 DEF AllocatorTypes
  <2>4. Described'
    BY <1>1, <1>2, <1>5, <2>2 DEF Described, Ram, BootFrames
  <2>5. CountsAreExact'
    BY <1>2, <2>1, <2>2 DEF CountsAreExact, ReferenceCount, IsFree
  <2>6. FramesAreListed'
    BY <1>1, <2>2, SameFreeFramesSameList DEF IsFree
  <2>7. NeverPanics'
    BY <2>2 DEF NeverPanics
  <2> QED
    BY <1>3, <2>3, <2>4, <2>5, <2>6, <2>7
<1> QED
  BY <1>4, <1>5

\* FrameAllocator::deallocate() forgets one owner and frees the frame with the
\* last one.
LEMMA DeallocatePreservesInv ==
  ASSUME AllocatorInv, ~EarlyReferences, NEW f0 \in Frames, Deallocate(f0)
  PROVE  AllocatorInv'
<1> USE DEF AllocatorInv
<1>1. UNCHANGED <<len, pending, access_beyond_frame_info>>
  BY DEF Deallocate
<1>2. /\ owners' \in [Frames -> 0 .. MaxOwners]
      /\ owners'[f0] = owners[f0] - 1
      /\ owners[f0] \in 1 .. MaxOwners
      /\ \A f \in Frames : f # f0 => owners'[f] = owners[f]
  BY MaxOwnersAssumption DEF Deallocate, AllocatorTypes
<1>3. CASE f0 \in Ram
  <2>1. f0 < len /\ f0 \notin pending
    BY <1>3 DEF Deallocate, Ram, Ready
  <2>2. IsUsed(f0) /\ Managed(f0) /\ ~IsFree(f0) /\ frame_info[f0].reference_count = owners[f0]
    <3>1. frame_info[f0].kind # "Absent"
      BY <1>3, <2>1 DEF Described
    <3>2. ~IsFree(f0)
      BY <1>2, <3>1 DEF CountsAreExact, ReferenceCount
    <3> QED
      BY <2>1, <3>1, <3>2, InfoKinds DEF IsUsed, IsFree, Managed, CountsAreExact, ReferenceCount
  <2>3. NeverPanics'
    BY <2>2 DEF Deallocate, NeverPanics
  <2>4. CASE owners[f0] = 1
    <3>1. Push(f0)
      BY <2>2, <2>4 DEF Deallocate
    <3>2. /\ frame_info' \in [Frames -> FrameInfo]
          /\ frame_info'[f0].kind = "Free"
          /\ \A f \in Frames : f # f0 => frame_info'[f] = frame_info[f]
      BY <3>1, InfoTypes DEF Push, AllocatorTypes
    <3>3. AllocatorTypes'
      BY <1>1, <1>2, <3>1, <3>2 DEF AllocatorTypes, Push
    <3>4. Described'
      <4> SUFFICES ASSUME NEW f \in Frames
                   PROVE  /\ frame_info'[f].kind # "Absent"
                                <=> f \in Ram /\ f < len' /\ f \notin pending'
                          /\ f \in Ram /\ frame_info'[f].kind = "Absent" =>
                                owners'[f] = IF f \in BootFrames THEN 1 ELSE 0
        BY DEF Described, Ram, BootFrames
      <4>1. CASE f = f0
        BY <1>1, <1>3, <2>1, <3>2, <4>1
      <4>2. CASE f # f0
        BY <1>1, <1>2, <3>2, <4>2 DEF Described
      <4> QED
        BY <4>1, <4>2
    <3>5. CountsAreExact'
      <4> SUFFICES ASSUME NEW f \in Frames, frame_info'[f].kind # "Absent"
                   PROVE  ReferenceCount(f)' = owners'[f]
        BY DEF CountsAreExact
      <4>1. CASE f = f0
        BY <1>2, <2>4, <3>2, <4>1 DEF ReferenceCount, IsFree
      <4>2. CASE f # f0
        BY <1>2, <3>2, <4>2 DEF CountsAreExact, ReferenceCount, IsFree
      <4> QED
        BY <4>1, <4>2
    <3>6. FramesAreListed'
      BY <2>2, <3>1, PushKeepsList
    <3> QED
      BY <2>3, <3>3, <3>4, <3>5, <3>6
  <2>5. CASE owners[f0] # 1
    <3>1. /\ frame_info' = [frame_info EXCEPT ![f0] = UsedInfo(owners'[f0])]
          /\ UNCHANGED <<free_count, free_frame>>
          /\ owners'[f0] \in 1 .. MaxOwners
      BY <1>2, <2>2, <2>5, MaxOwnersAssumption DEF Deallocate, AllocatorTypes
    <3>2. /\ frame_info' \in [Frames -> FrameInfo]
          /\ frame_info'[f0].kind = "Used"
          /\ frame_info'[f0].reference_count = owners'[f0]
          /\ \A f \in Frames : f # f0 => frame_info'[f] = frame_info[f]
      BY <3>1, InfoTypes DEF AllocatorTypes
    <3>3. AllocatorTypes'
      BY <1>1, <1>2, <3>1, <3>2 DEF AllocatorTypes
    <3>4. Described'
      <4> SUFFICES ASSUME NEW f \in Frames
                   PROVE  /\ frame_info'[f].kind # "Absent"
                                <=> f \in Ram /\ f < len' /\ f \notin pending'
                          /\ f \in Ram /\ frame_info'[f].kind = "Absent" =>
                                owners'[f] = IF f \in BootFrames THEN 1 ELSE 0
        BY DEF Described, Ram, BootFrames
      <4>1. CASE f = f0
        BY <1>1, <1>3, <2>1, <3>2, <4>1
      <4>2. CASE f # f0
        BY <1>1, <1>2, <3>2, <4>2 DEF Described
      <4> QED
        BY <4>1, <4>2
    <3>5. CountsAreExact'
      <4> SUFFICES ASSUME NEW f \in Frames, frame_info'[f].kind # "Absent"
                   PROVE  ReferenceCount(f)' = owners'[f]
        BY DEF CountsAreExact
      <4>1. CASE f = f0
        BY <3>2, <4>1 DEF ReferenceCount, IsFree
      <4>2. CASE f # f0
        BY <1>2, <3>2, <4>2 DEF CountsAreExact, ReferenceCount, IsFree
      <4> QED
        BY <4>1, <4>2
    <3>6. FramesAreListed'
      <4>1. \A f \in Frames : IsFree(f)' <=> IsFree(f)
        BY <2>2, <3>2 DEF IsFree
      <4>2. \A f \in Frames :
               IsFree(f) => frame_info'[f].next_free = frame_info[f].next_free
        BY <2>2, <3>2
      <4> QED
        BY <3>1, <4>1, <4>2, SameFreeFramesSameList
    <3> QED
      BY <2>3, <3>3, <3>4, <3>5, <3>6
  <2> QED
    BY <2>4, <2>5
<1>4. CASE f0 \notin Ram
  <2>1. frame_info[f0].kind = "Absent"
    BY <1>4 DEF Described
  <2>2. UNCHANGED <<frame_info, free_count, free_frame>> /\ panicked' = FALSE
    BY <2>1 DEF Deallocate, Managed
  <2>3. AllocatorTypes'
    BY <1>1, <1>2, <2>2 DEF AllocatorTypes
  <2>4. Described'
    BY <1>1, <1>2, <1>4, <2>2 DEF Described, Ram, BootFrames
  <2>5. CountsAreExact'
    BY <1>2, <2>1, <2>2 DEF CountsAreExact, ReferenceCount, IsFree
  <2>6. FramesAreListed'
    BY <2>2, SameFreeFramesSameList DEF IsFree
  <2>7. NeverPanics'
    BY <2>2 DEF NeverPanics
  <2> QED
    BY <2>3, <2>4, <2>5, <2>6, <2>7
<1> QED
  BY <1>3, <1>4

\* FrameAllocator::resize() only makes more frames visible.
LEMMA ResizePreservesInv ==
  ASSUME AllocatorInv, Resize
  PROVE  AllocatorInv'
<1> USE DEF AllocatorInv
<1>1. /\ UNCHANGED <<frame_info, free_count, free_frame, access_beyond_frame_info,
                     owners, panicked>>
      /\ len \in Nat /\ len < FrameCount /\ len' = FrameCount
      /\ pending = {} /\ pending' = len .. FrameCount - 1
  BY BootLenAssumption, FrameCountAssumption DEF Resize, Ready, AllocatorTypes
<1>2. AllocatorTypes'
  BY <1>1, FrameCountAssumption DEF AllocatorTypes
<1>3. Described'
  <2> SUFFICES ASSUME NEW f \in Frames
               PROVE  f \in Ram /\ f < len <=> f \in Ram /\ f < len' /\ f \notin pending'
    BY <1>1 DEF Described, Ram, BootFrames
  <2>1. f \in Ram => f < FrameCount
    BY RegionAssumption, FrameCountAssumption, FrameLimitAssumption DEF Ram, Frames
  <2> QED
    BY <1>1, <2>1, FrameCountAssumption, FrameLimitAssumption DEF Frames
<1>4. CountsAreExact' /\ NeverPanics'
  BY <1>1 DEF CountsAreExact, ReferenceCount, IsFree, NeverPanics
<1>5. FramesAreListed'
  BY <1>1, SameFreeFramesSameList DEF IsFree
<1> QED
  BY <1>2, <1>3, <1>4, <1>5

\* Every step of the allocator preserves the invariant.
LEMMA StepPreservesInv ==
  ASSUME ~EarlyReferences, AllocatorInv, [AllocatorNext]_allocatorVars
  PROVE  AllocatorInv'
<1>1. ASSUME NEW f \in Frames, InitFrame(f) PROVE AllocatorInv'
  BY <1>1, InitFramePreservesInv
<1>2. ASSUME NEW f \in Frames, Reference(f) PROVE AllocatorInv'
  BY <1>2, ReferencePreservesInv
<1>3. ASSUME NEW f \in Frames, Deallocate(f) PROVE AllocatorInv'
  BY <1>3, DeallocatePreservesInv
<1>4. CASE Allocate
  BY <1>4, AllocatePreservesInv
<1>5. CASE Resize
  BY <1>5, ResizePreservesInv
<1>6. CASE UNCHANGED allocatorVars
  <2> USE <1>6 DEF allocatorVars, AllocatorInv
  <2>1. AllocatorTypes' /\ Described' /\ NeverPanics'
    BY DEF AllocatorTypes, Described, NeverPanics, Ram, BootFrames
  <2>2. CountsAreExact'
    BY DEF CountsAreExact, ReferenceCount, IsFree
  <2>3. FramesAreListed'
    BY SameFreeFramesSameList DEF IsFree
  <2> QED
    BY <2>1, <2>2, <2>3
<1> QED
  BY <1>1, <1>2, <1>3, <1>4, <1>5, <1>6 DEF AllocatorNext

\* The frame allocator always satisfies its inductive invariant.
THEOREM AllocatorInvariance ==
  ASSUME ~EarlyReferences
  PROVE  AllocatorSpec => []AllocatorInv
<1>1. AllocatorInv /\ [AllocatorNext]_allocatorVars => AllocatorInv'
  BY StepPreservesInv
<1> QED
  BY <1>1, InitEstablishesInv, PTL DEF AllocatorSpec

\* The free list is no longer than the physical memory (pigeonhole: it has no
\* repetitions), so that the types of struct FrameAllocator are preserved.
THEOREM AllocatorTypeCorrect ==
  ASSUME ~EarlyReferences
  PROVE  AllocatorSpec => []AllocatorTypeOK
<1>1. AllocatorInv => AllocatorTypeOK
  <2> SUFFICES ASSUME AllocatorInv PROVE AllocatorTypeOK
    OBVIOUS
  <2>1. PICK n \in Nat : n = free_count
    BY DEF AllocatorInv, AllocatorTypes
  <2>2. PICK stack \in [1 .. n -> Frames] : FreeFrames(stack, n)
    BY <2>1 DEF AllocatorInv, FramesAreListed
  <2> DEFINE Memory == 0 .. FrameCount - 1
  <2>3. stack \in [1 .. n -> Memory]
    <3> SUFFICES ASSUME NEW i \in 1 .. n PROVE stack[i] \in Memory
      OBVIOUS
    <3>1. stack[i] \in Frames /\ IsFree(stack[i])
      BY <2>2 DEF FreeFrames
    <3>2. stack[i] \in Ram
      BY <3>1 DEF AllocatorInv, Described, IsFree
    <3> QED
      BY <3>1, <3>2, RegionAssumption, FrameCountAssumption, FrameLimitAssumption
         DEF Ram, Frames
  <2>4. IsFiniteSet(Memory) /\ Cardinality(Memory) = FrameCount
    BY FrameCountAssumption, FS_Interval
  <2>5. IsFiniteSet(1 .. n) /\ Cardinality(1 .. n) = n
    BY FS_Interval
  <2>6. n <= FrameCount
    <3> SUFFICES ASSUME n > FrameCount PROVE FALSE
      BY FrameCountAssumption
    <3> HIDE DEF Memory
    <3>1. Cardinality(Memory) < Cardinality(1 .. n)
      BY <2>4, <2>5, FrameCountAssumption
    <3>2. PICK i, j \in 1 .. n : i # j /\ stack[i] = stack[j]
      BY <2>3, <2>4, <2>5, <3>1, FS_PigeonHole
    <3> QED
      BY <2>2, <3>2 DEF FreeFrames
  <2>7. free_count \in 0 .. FrameCount
    BY <2>1, <2>6, FrameCountAssumption
  <2>8. panicked \in BOOLEAN
    BY Zenon DEF AllocatorInv, NeverPanics
  <2> QED
    BY <2>7, <2>8 DEF AllocatorInv, AllocatorTypes, AllocatorTypeOK
<1> QED
  BY <1>1, AllocatorInvariance, PTL

\* The reference count of a managed frame is always the number of its owners.
THEOREM CountsAlwaysExact ==
  ASSUME ~EarlyReferences
  PROVE  AllocatorSpec => []CountsAreExact
<1>1. AllocatorInv => CountsAreExact
  BY DEF AllocatorInv
<1> QED
  BY <1>1, AllocatorInvariance, PTL

\* The free list always holds exactly the free frames, each of them once.
THEOREM FreeFramesAlwaysListed ==
  ASSUME ~EarlyReferences
  PROVE  AllocatorSpec => []FramesAreListed
<1>1. AllocatorInv => FramesAreListed
  BY DEF AllocatorInv
<1> QED
  BY <1>1, AllocatorInvariance, PTL

\* The panics of allocate(), reference() and deallocate() are unreachable.
THEOREM AllocatorNeverPanics ==
  ASSUME ~EarlyReferences
  PROVE  AllocatorSpec => []NeverPanics
<1>1. AllocatorInv => NeverPanics
  BY DEF AllocatorInv
<1> QED
  BY <1>1, AllocatorInvariance, PTL

\* allocate() answers NoFrame only when all the described memory is owned.
THEOREM RefusalIsHonest ==
  ASSUME ~EarlyReferences
  PROVE  AllocatorSpec => []NoFrameIsHonest
<1>1. AllocatorInv => NoFrameIsHonest
  <2> SUFFICES ASSUME AllocatorInv, ~CanAllocate,
                      NEW f \in Ram, f < len, f \notin pending
               PROVE  owners[f] > 0
    BY DEF NoFrameIsHonest
  <2>1. f \in Frames /\ frame_info[f].kind # "Absent"
    BY DEF Ram, AllocatorInv, Described
  <2>2. ~IsFree(f) /\ IsUsed(f)
    BY <2>1, HeadIsFree, InfoKinds DEF AllocatorInv, IsFree, IsUsed
  <2>3. owners[f] = frame_info[f].reference_count
    BY <2>1, <2>2 DEF AllocatorInv, CountsAreExact, ReferenceCount
  <2> QED
    BY <2>1, <2>2, <2>3, InfoKinds, MaxOwnersAssumption DEF AllocatorInv
<1> QED
  BY <1>1, AllocatorInvariance, PTL

\* Every step of the allocator is a step of the owners of the frames, or none.
LEMMA StepIsGrantStep ==
  ASSUME ~EarlyReferences, AllocatorInv, [AllocatorNext]_allocatorVars
  PROVE  [Grants!GrantsNext]_<<owners, granted>>
<1>1. CASE Allocate
  <2>1. /\ free_frame \in Frames /\ free_frame \in Ram /\ owners[free_frame] = 0
        /\ owners' = [owners EXCEPT ![free_frame] = 1] /\ granted' = free_frame
    <3>1. free_frame \in Ram /\ owners[free_frame] = 0
      BY <1>1, AllocatePreservesInv
    <3>2. free_frame \in Frames
      BY <3>1 DEF Ram
    <3>3. owners' = [owners EXCEPT ![free_frame] = @ + 1] /\ granted' = free_frame
      BY <1>1 DEF Allocate
    <3> QED
      BY <3>1, <3>2, <3>3 DEF AllocatorInv, AllocatorTypes
  <2> QED
    BY <2>1 DEF Grants!GrantsNext, Grants!Grant, Grants!Acquire
<1>2. ASSUME NEW f \in Frames, Reference(f)
      PROVE  [Grants!GrantsNext]_<<owners, granted>>
  BY <1>2, ReferencePreservesInv
     DEF Reference, Grants!GrantsNext, Grants!PassOn, Grants!Share
<1>3. ASSUME NEW f \in Frames, Deallocate(f)
      PROVE  [Grants!GrantsNext]_<<owners, granted>>
  BY <1>3 DEF Deallocate, Grants!GrantsNext, Grants!PassOn, Grants!Release
<1>4. CASE UNCHANGED <<owners, granted>>
  BY <1>4
<1> QED
  BY <1>1, <1>2, <1>3, <1>4 DEF AllocatorNext, InitFrame, Resize, allocatorVars

\* For every memory map: a frame is handed out by allocate() only when nobody
\* owns it, through the boot, resize() and any sequence of operations.
THEOREM FramesAreExclusive ==
  ASSUME ~EarlyReferences
  PROVE  AllocatorSpec => ImplementsGrants
<1>1. AllocatorInit => Grants!GrantsInit
  BY DEF AllocatorInit, Grants!GrantsInit, Grants!OwnershipInit
<1>2. AllocatorInv /\ [AllocatorNext]_allocatorVars => [Grants!GrantsNext]_<<owners, granted>>
  BY StepIsGrantStep
<1> QED
  BY <1>1, <1>2, AllocatorInvariance, PTL
  DEF AllocatorSpec, ImplementsGrants, Grants!GrantsSpec

\* All that the allocator promises about its own state, for every memory map.
THEOREM AllocatorAlwaysSound ==
  ASSUME ~EarlyReferences
  PROVE  AllocatorSpec => []AllocatorIsSound
<1>1. AllocatorTypeOK /\ CountsAreExact /\ FramesAreListed /\ NoFrameIsHonest /\ NeverPanics
        => AllocatorIsSound
  BY DEF AllocatorIsSound
<1> QED
  BY <1>1, AllocatorTypeCorrect, CountsAlwaysExact, FreeFramesAlwaysListed, RefusalIsHonest,
     AllocatorNeverPanics, PTL
=============================================================================
