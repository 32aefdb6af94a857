--------------------------- MODULE MappingsProofs ---------------------------
(***************************************************************************)
(* Proofs about what the page tables say, from what PageTablesProofs has   *)
(* proved of their shape, for any mappings, pages, depth of the tables and *)
(* size of memory.                                                         *)
(*                                                                         *)
(* A step stores to entries of one node.  A page keeps its frame and its   *)
(* rights when its walk does not pass them, or passes them to the same     *)
(* node with at least the same flags: WalkKept.  Two walks that meet in a  *)
(* node are the same above it, for a node has one user (Climb); so a leaf  *)
(* entry belongs to one page of one mapping, and what a step may change is *)
(* that page (SparesBut) or the pages of the mapping that it drops         *)
(* (SparesOthers).  Independence of the mappings and freshness of the TLB  *)
(* follow.                                                                 *)
(*                                                                         *)
(* For duplicate() the invariant Twin names the nodes of the copy so far   *)
(* and the original of each, and says that every entry that was dealt with *)
(* is a copy of the entry of the original.                                 *)
(***************************************************************************)
EXTENDS PageTablesProofs

\* What Mapping::path() and the processor find on a level, and the rights that all levels grant.
EntryOn(mem, root, page, l) ==
    IF PathIn(mem, root, page)[l] = None THEN None ELSE mem[PathIn(mem, root, page)[l]][page[l]]
EffIn(mem, root, page) ==
    {g \in Flags : \A l \in Levels : EntryOn(mem, root, page, l) # None /\ g \in EntryOn(mem, root, page, l).flags}

\* EffectiveFlags() is EffIn() of the current tables.
LEMMA EffIs ==
    /\ \A m, page : EffectiveFlags(m, page) = EffIn(memory, roots[m], page)
    /\ \A m, page : EffectiveFlags(m, page)' = EffIn(memory', roots'[m], page)
<1>1. ASSUME NEW m, NEW page PROVE EffectiveFlags(m, page) = EffIn(memory, roots[m], page)
  BY PathIs DEF EffectiveFlags, EffIn, EntryOn, Entry
<1>2. ASSUME NEW m, NEW page PROVE EffectiveFlags(m, page)' = EffIn(memory', roots'[m], page)
  BY PathIs DEF EffectiveFlags, EffIn, EntryOn, Entry
<1> QED BY <1>1, <1>2

\* The entries on a walk link to the same nodes, and grant at least the same rights.
Widened(mem, mem2, root, page) ==
    \A l \in Levels :
        LET n == PathIn(mem, root, page)[l]
            e == mem[n][page[l]]
            e2 == mem2[n][page[l]]
        IN  n # None => /\ SameLink(e, e2) /\ (e = None <=> e2 = None)
                        /\ e # None => e.flags \subseteq e2.flags
                        /\ l = LeafLevel => e = e2

\* A walk over the entries that stay is the same walk.
LEMMA WalkStays ==
    ASSUME NEW mem \in Contents, NEW mem2 \in Contents, NEW root \in AllFrames \cup {None}, NEW page \in Pages,
           Widened(mem, mem2, root, page)
    PROVE  /\ \A l \in Levels : PathIn(mem2, root, page)[l] = PathIn(mem, root, page)[l]
           /\ LeafIn(mem2, root, page) = LeafIn(mem, root, page)
           /\ EffIn(mem, root, page) \subseteq EffIn(mem2, root, page)
<1> DEFINE P == PathIn(mem, root, page)
<1>1. ASSUME NEW l \in Levels PROVE Below(mem2, P[l], page[l]) = Below(mem, P[l], page[l])
  <2>1. P[l] # None => SameLink(mem[P[l]][page[l]], mem2[P[l]][page[l]])
    BY DEF Widened
  <2> HIDE DEF P
  <2> QED BY <2>1, BelowLinks
<1>2. ASSUME NEW l \in Levels PROVE PathIn(mem2, root, page)[l] = P[l]
  <2>1. \A k \in Levels : k >= LeafLevel => PathIn(mem2, root, page)[k] = P[k]
    BY <1>1, PathKept, LevelsFacts
  <2> QED BY <2>1, LevelsFacts
<1>3. LeafIn(mem2, root, page) = LeafIn(mem, root, page)
  BY <1>2, LevelsFacts DEF LeafIn, Widened
<1>4. ASSUME NEW g \in EffIn(mem, root, page) PROVE g \in EffIn(mem2, root, page)
  <2>1. ASSUME NEW l \in Levels PROVE EntryOn(mem2, root, page, l) # None /\ g \in EntryOn(mem2, root, page, l).flags
    <3>1. EntryOn(mem, root, page, l) # None /\ g \in EntryOn(mem, root, page, l).flags
      BY DEF EffIn
    <3>2. P[l] # None /\ EntryOn(mem, root, page, l) = mem[P[l]][page[l]]
      BY <3>1 DEF EntryOn
    <3>3. EntryOn(mem2, root, page, l) = mem2[P[l]][page[l]]
      BY <1>2, <3>2 DEF EntryOn
    <3>4. /\ mem[P[l]][page[l]] = None <=> mem2[P[l]][page[l]] = None
          /\ mem[P[l]][page[l]] # None => mem[P[l]][page[l]].flags \subseteq mem2[P[l]][page[l]].flags
      BY <3>2 DEF Widened
    <3> HIDE DEF P
    <3> QED BY <3>1, <3>2, <3>3, <3>4
  <2> QED BY <2>1 DEF EffIn
<1> QED BY <1>2, <1>3, <1>4

\* Where a walk meets no node, no link or no page, the page is not mapped.
LEMMA DeadEnd ==
    ASSUME NEW mem \in Contents, NEW root \in AllFrames \cup {None}, NEW page \in Pages, NEW h \in Levels,
           LET n == PathIn(mem, root, page)[h] IN
           n # None => IF h = LeafLevel THEN mem[n][page[h]] = None ELSE ~Linked(mem[n][page[h]])
    PROVE  LeafIn(mem, root, page) = None
<1> DEFINE P == PathIn(mem, root, page)
           S == {k \in Levels : k < h /\ P[k] # None}
<1>0. IsPath(mem, root, page, P)
  BY PathExists
<1>1. P[h] # None => IF h = LeafLevel THEN mem[P[h]][page[h]] = None ELSE ~Linked(mem[P[h]][page[h]])
  OBVIOUS
<1>2. CASE h = LeafLevel
  BY <1>1, <1>2 DEF LeafIn
<1>3. CASE h # LeafLevel
  <2>1. S = {}
    <3>1. SUFFICES ASSUME S # {} PROVE FALSE
      OBVIOUS
    <3>2. PICK l \in S : l = RootLevel \/ (l + 1 \in Levels /\ l < RootLevel /\ l + 1 \notin S)
      BY <3>1, Topmost
    <3>3. l \in Levels /\ l < h /\ P[l] # None
      BY <3>2
    <3>4. l < RootLevel /\ l + 1 \in Levels /\ (l + 1 < h \/ l + 1 = h)
      BY <3>3, LevelsFacts
    <3>5. P[l] = Below(mem, P[l + 1], page[l + 1])
      BY <1>0, <3>3, <3>4 DEF IsPath
    <3> HIDE DEF P
    <3>6. P[l + 1] # None /\ Linked(mem[P[l + 1]][page[l + 1]])
      BY <3>3, <3>5 DEF Below
    <3>7. l + 1 = h
      <4>1. l # RootLevel
        BY <3>3, <3>4, LevelsFacts
      <4>2. l + 1 \notin S
        BY <3>2, <4>1
      <4>3. l + 1 < h => l + 1 \in S
        BY <3>4, <3>6
      <4> QED BY <3>4, <4>2, <4>3
    <3> QED BY <1>1, <1>3, <3>6, <3>7
  <2>2. P[LeafLevel] = None
    BY <2>1, <1>3, LevelsFacts
  <2> QED BY <2>2 DEF LeafIn
<1> QED BY <1>2, <1>3

\* The walk of a page of a live mapping.
LEMMA WalkFacts ==
    ASSUME NEW N, Now(N), NEW m \in Mappings, roots[m] # None, NEW page \in Pages
    PROVE  LET P == PathIn(memory, roots[m], page) IN
           /\ memory \in Contents /\ roots[m] \in AllFrames /\ roots[m] \in AllFrames \cup {None}
           /\ P[RootLevel] = roots[m]
           /\ \A l \in Levels : page[l] \in Index /\ P[l] \in AllFrames \cup {None}
           /\ \A l \in Levels : P[l] # None => P[l] \in N[l] /\ P[l] \in AllOf(N) /\ P[l] \in AllFrames
           /\ \A l, h \in Levels : P[l] # None /\ P[l] \in N[h] => h = l
           /\ \A l \in Levels : l < RootLevel /\ P[l] # None =>
                 P[l + 1] # None /\ LinksTo(memory[P[l + 1]][page[l + 1]], P[l])
           /\ \A l \in Levels : l < RootLevel => P[l] = Below(memory, P[l + 1], page[l + 1])
<1> DEFINE P == PathIn(memory, roots[m], page)
<1>1. /\ memory \in Contents /\ N \in [Levels -> SUBSET AllFrames] /\ IsTree(owned, memory, N)
      /\ \A x : x \in AllOf(N) <=> \E l \in Levels : x \in N[l]
  BY SoundFacts DEF Now
<1>2. /\ roots[m] \in AllFrames /\ IsPath(memory, roots[m], page, P) /\ P[RootLevel] = roots[m]
      /\ \A l \in Levels : P[l] # None => P[l] \in N[l]
  BY LivePath DEF Now
<1> HIDE DEF P
<1>3. \A l \in Levels : page[l] \in Index /\ P[l] \in AllFrames \cup {None}
  BY <1>2, PageType DEF IsPath
<1>4. \A l \in Levels : P[l] # None => P[l] \in N[l] /\ P[l] \in AllOf(N) /\ P[l] \in AllFrames
  BY <1>1, <1>2, <1>3
<1>5. \A l, h \in Levels : P[l] # None /\ P[l] \in N[h] => h = l
  BY <1>1, <1>2 DEF IsTree
<1>6. ASSUME NEW l \in Levels, l < RootLevel PROVE P[l] = Below(memory, P[l + 1], page[l + 1])
  BY <1>2, <1>6 DEF IsPath
<1>7. ASSUME NEW l \in Levels, l < RootLevel, P[l] # None
      PROVE  P[l + 1] # None /\ LinksTo(memory[P[l + 1]][page[l + 1]], P[l])
  BY <1>6, <1>7 DEF Below, LinksTo
<1>8. QED
  BY <1>1, <1>2, <1>3, <1>4, <1>5, <1>6, <1>7 DEF P
-----------------------------------------------------------------------------
\* The step leaves the page as it is mapped, and takes no right from it.
WalkKept(m, page) ==
    /\ LeafIn(memory', roots[m], page) = LeafIn(memory, roots[m], page)
    /\ LeafIn(memory, roots[m], page) # None =>
          EffIn(memory, roots[m], page) \subseteq EffIn(memory', roots[m], page)

\* Entries that only get wider keep what is mapped and its rights.
LEMMA WidenedKept ==
    ASSUME NEW N, Now(N), NEW m \in Mappings, roots[m] # None, NEW page \in Pages, memory' \in Contents,
           Widened(memory, memory', roots[m], page)
    PROVE  WalkKept(m, page)
<1>1. memory \in Contents /\ roots[m] \in AllFrames \cup {None}
  BY WalkFacts
<1> QED BY <1>1, WalkStays DEF WalkKept

SameEntries(mem, mem2, root, page) ==
    \A l \in Levels : LET n == PathIn(mem, root, page)[l] IN n # None => mem2[n][page[l]] = mem[n][page[l]]

\* The entries of the walk stay, and so does the page.
LEMMA SameKept ==
    ASSUME NEW N, Now(N), NEW m \in Mappings, roots[m] # None, NEW page \in Pages, memory' \in Contents,
           SameEntries(memory, memory', roots[m], page)
    PROVE  WalkKept(m, page)
<1>1. Widened(memory, memory', roots[m], page)
  BY DEF SameEntries, Widened, SameLink
<1> QED BY <1>1, WidenedKept

\* A store to an entry that is not on the walk.
LEMMA EditOffWalk ==
    ASSUME NEW N, Now(N), NEW m \in Mappings, roots[m] # None, NEW page \in Pages,
           NEW h \in Levels, NEW n \in N[h], NEW i \in Index, NEW pte \in Pte \cup {None},
           Edited(memory, memory', n, i, pte),
           ~(PathIn(memory, roots[m], page)[h] = n /\ page[h] = i)
    PROVE  WalkKept(m, page)
<1> DEFINE P == PathIn(memory, roots[m], page)
<1>1. memory \in Contents /\ n \in AllFrames /\ n # None
  BY SoundFacts, FramesFacts DEF Now
<1>2. memory' \in Contents /\ \A k \in AllFrames, j \in Index : k # n \/ j # i => memory'[k][j] = memory[k][j]
  BY <1>1, EditedFacts, SMTT(30)
<1>3. ASSUME NEW l \in Levels, P[l] # None PROVE memory'[P[l]][page[l]] = memory[P[l]][page[l]]
  <2>1. P[l] \in AllFrames /\ page[l] \in Index /\ (P[l] = n => h = l)
    BY <1>3, WalkFacts
  <2> QED BY <1>2, <2>1
<1>4. SameEntries(memory, memory', roots[m], page)
  BY <1>3 DEF SameEntries
<1> QED BY <1>2, <1>4, SameKept

\* A new node is not on the walk.
LEMMA ClearOffWalk ==
    ASSUME NEW N, Now(N), NEW m \in Mappings, roots[m] # None, NEW page \in Pages,
           NEW new \in AllFrames, new \notin AllOf(N), Cleared(memory, memory', new)
    PROVE  WalkKept(m, page)
<1> DEFINE P == PathIn(memory, roots[m], page)
<1>1. memory \in Contents
  BY SoundFacts DEF Now
<1>2. memory' \in Contents /\ \A k \in AllFrames : k # new => memory'[k] = memory[k]
  BY <1>1, ClearedFacts
<1>3. ASSUME NEW l \in Levels, P[l] # None PROVE memory'[P[l]][page[l]] = memory[P[l]][page[l]]
  <2>1. P[l] \in AllFrames /\ P[l] \in AllOf(N)
    BY <1>3, WalkFacts
  <2> QED BY <1>2, <2>1
<1>4. SameEntries(memory, memory', roots[m], page)
  BY <1>3 DEF SameEntries
<1> QED BY <1>2, <1>4, SameKept

\* No store at all.
LEMMA NoStoreKept ==
    ASSUME NEW N, Now(N), NEW m \in Mappings, roots[m] # None, NEW page \in Pages, memory' = memory
    PROVE  WalkKept(m, page)
  BY DEF WalkKept

\* A node that nothing links to and that is no root is not on the walk.
LEMMA NotOnWalk ==
    ASSUME NEW N, Now(N), NEW m \in Mappings, roots[m] # None, NEW page \in Pages, NEW n,
           \A k \in AllOf(N), j \in Index : ~LinksTo(memory[k][j], n), \A q \in Mappings : roots[q] # n,
           NEW l \in Levels
    PROVE  PathIn(memory, roots[m], page)[l] # n \/ n = None
<1> DEFINE P == PathIn(memory, roots[m], page)
<1>1. CASE l = RootLevel
  BY <1>1, WalkFacts
<1>2. CASE l # RootLevel
  <2>1. l < RootLevel /\ l + 1 \in Levels
    BY <1>2, LevelsFacts
  <2>2. ASSUME P[l] # None PROVE P[l + 1] \in AllOf(N) /\ page[l + 1] \in Index /\ LinksTo(memory[P[l + 1]][page[l + 1]], P[l])
    BY <2>1, <2>2, WalkFacts
  <2> QED BY <2>2
<1> QED BY <1>1, <1>2
-----------------------------------------------------------------------------
\* A chain of links up to the root.
IsChain(N, Q, l) ==
    \A k \in Levels : k > l => Q[k] \in AllOf(N) /\ \E j \in Index : LinksTo(memory[Q[k]][j], Q[k - 1])

\* The page tables are a tree: what reaches a node of a walk is the walk.
LEMMA Climb ==
    ASSUME NEW N, Now(N), NEW m \in Mappings, roots[m] # None, NEW page \in Pages,
           NEW Q, NEW l \in Levels, IsChain(N, Q, l),
           PathIn(memory, roots[m], page)[l] # None, Q[l] = PathIn(memory, roots[m], page)[l]
    PROVE  \A k \in Levels : k >= l => PathIn(memory, roots[m], page)[k] = Q[k] /\ Q[k] # None
<1> DEFINE P == PathIn(memory, roots[m], page)
           bad == {k \in Levels : k >= l /\ ~(P[k] = Q[k] /\ Q[k] # None)}
<1>0. bad = {}
  <2>1. SUFFICES ASSUME bad # {} PROVE FALSE
    OBVIOUS
  <2>2. bad \subseteq Nat
    BY LevelsFacts
  <2>3. PICK k \in bad : \A y \in bad : k <= y
    BY <2>1, <2>2, Least
  <2>4. k \in Levels /\ k >= l /\ ~(P[k] = Q[k] /\ Q[k] # None)
    BY <2>3
  <2>5. k # l
    BY <2>4
  <2>6. k > l /\ k # LeafLevel /\ k - 1 \in Levels /\ k - 1 >= l /\ k - 1 < RootLevel /\ k - 1 + 1 = k /\ k - 1 < k
    BY <2>4, <2>5, LevelsFacts
  <2>7. k - 1 \notin bad
    BY <2>3, <2>6, LevelsFacts
  <2>8. P[k - 1] = Q[k - 1] /\ Q[k - 1] # None
    BY <2>6, <2>7
  <2>9. P[k] # None /\ LinksTo(memory[P[k]][page[k]], P[k - 1]) /\ P[k] \in AllOf(N) /\ page[k] \in Index /\ P[k - 1] \in AllOf(N)
    <3>1. P[k - 1] \in AllOf(N) /\ P[k - 1 + 1] # None /\ LinksTo(memory[P[k - 1 + 1]][page[k - 1 + 1]], P[k - 1])
      BY <2>6, <2>8, WalkFacts
    <3>2. page[k] \in Index /\ (P[k] # None => P[k] \in AllOf(N))
      BY <2>4, WalkFacts
    <3> HIDE DEF P
    <3> QED BY <2>6, <3>1, <3>2
  <2>10. PICK j \in Index : Q[k] \in AllOf(N) /\ LinksTo(memory[Q[k]][j], Q[k - 1])
    BY <2>4, <2>6 DEF IsChain
  <2>11. Unique(memory, N, roots, GuardsOf(op), P[k - 1])
    <3>1. /\ owned \in [AllFrames -> Nat] /\ N \in [Levels -> SUBSET AllFrames]
          /\ IsOp(op) /\ IsTree(owned, memory, N) /\ Covers(owned, memory, N, roots, op)
      BY SoundFacts DEF Now
    <3> QED BY <2>9, <3>1, NodesHaveOneUser
  <2> HIDE DEF P
  <2>12. P[k] = Q[k]
    BY <2>8, <2>9, <2>10, <2>11 DEF Unique
  <2> QED BY <2>4, <2>9, <2>12
<1> QED BY <1>0

\* A walk is a chain.
LEMMA WalkIsChain ==
    ASSUME NEW N, Now(N), NEW m \in Mappings, roots[m] # None, NEW page \in Pages, NEW l \in Levels,
           PathIn(memory, roots[m], page)[l] # None
    PROVE  IsChain(N, PathIn(memory, roots[m], page), l)
<1> DEFINE P == PathIn(memory, roots[m], page)
           bad == {k \in Levels : k >= l /\ P[k] = None}
<1>1. bad = {}
  <2>1. SUFFICES ASSUME bad # {} PROVE FALSE
    OBVIOUS
  <2>2. PICK k \in bad : \A y \in bad : k <= y
    BY <2>1, Least, LevelsFacts
  <2>3. k \in Levels /\ k >= l /\ P[k] = None /\ k # l
    BY <2>2
  <2>4. k # LeafLevel /\ k - 1 \in Levels /\ k - 1 >= l /\ k - 1 < RootLevel /\ k - 1 + 1 = k /\ k - 1 < k
    BY <2>3, LevelsFacts
  <2>5. P[k - 1] # None
    BY <2>2, <2>4, LevelsFacts
  <2>6. P[k - 1 + 1] # None
    BY <2>4, <2>5, WalkFacts
  <2> HIDE DEF P
  <2> QED BY <2>3, <2>4, <2>6
<1>2. ASSUME NEW k \in Levels, k > l PROVE P[k] \in AllOf(N) /\ \E j \in Index : LinksTo(memory[P[k]][j], P[k - 1])
  <2>1. k # LeafLevel /\ k - 1 \in Levels /\ k - 1 >= l /\ k - 1 < RootLevel /\ k - 1 + 1 = k
    BY <1>2, LevelsFacts
  <2>2. P[k - 1] # None
    BY <1>1, <2>1
  <2>3. P[k - 1 + 1] # None /\ LinksTo(memory[P[k - 1 + 1]][page[k - 1 + 1]], P[k - 1])
    BY <2>1, <2>2, WalkFacts
  <2>4. page[k] \in Index /\ (P[k] # None => P[k] \in AllOf(N))
    BY WalkFacts
  <2> HIDE DEF P
  <2> QED BY <2>1, <2>3, <2>4
<1> QED BY <1>2 DEF IsChain

\* Two pages with the same leaf entry are the same page of the same mapping.
LEMMA LeafEntriesAreApart ==
    ASSUME NEW N, Now(N), NEW m \in Mappings, roots[m] # None, NEW page \in Pages,
           NEW m2 \in Mappings, roots[m2] # None, NEW page2 \in Pages,
           PathIn(memory, roots[m], page)[LeafLevel] # None,
           PathIn(memory, roots[m2], page2)[LeafLevel] = PathIn(memory, roots[m], page)[LeafLevel],
           page[LeafLevel] = page2[LeafLevel]
    PROVE  m = m2 /\ page = page2
<1> DEFINE P == PathIn(memory, roots[m], page)
           Q == PathIn(memory, roots[m2], page2)
<1>0. LeafLevel \in Levels /\ RootLevel \in Levels /\ \A k \in Levels : k >= LeafLevel
  BY LevelsFacts
<1>1. IsChain(N, Q, LeafLevel)
  BY <1>0, WalkIsChain
<1>2. ASSUME NEW k \in Levels PROVE P[k] = Q[k] /\ Q[k] # None
  BY <1>0, <1>1, Climb
<1>3. /\ owned \in [AllFrames -> Nat] /\ N \in [Levels -> SUBSET AllFrames]
      /\ IsOp(op) /\ IsTree(owned, memory, N) /\ Covers(owned, memory, N, roots, op)
  BY SoundFacts DEF Now
<1>4. m = m2
  <2>1. P[RootLevel] = roots[m] /\ Q[RootLevel] = roots[m2] /\ roots[m] \in AllOf(N)
    BY <1>0, WalkFacts
  <2>2. Unique(memory, N, roots, GuardsOf(op), roots[m])
    BY <1>3, <2>1, NodesHaveOneUser
  <2> QED BY <1>0, <1>2, <2>1, <2>2 DEF Unique
<1>5. ASSUME NEW k \in Levels PROVE page[k] = page2[k]
  <2>1. CASE k = LeafLevel
    BY <2>1
  <2>2. CASE k # LeafLevel
    <3>1. k - 1 \in Levels /\ k - 1 < RootLevel /\ k - 1 + 1 = k
      BY <2>2, LevelsFacts
    <3>2. P[k - 1] # None /\ P[k - 1] = Q[k - 1] /\ P[k] = Q[k]
      BY <1>2, <3>1
    <3>3. P[k - 1] \in AllOf(N) /\ LinksTo(memory[P[k - 1 + 1]][page[k - 1 + 1]], P[k - 1])
      BY <3>1, <3>2, WalkFacts
    <3>4. LinksTo(memory[Q[k - 1 + 1]][page2[k - 1 + 1]], Q[k - 1])
      BY <3>1, <3>2, WalkFacts
    <3>5. page[k] \in Index /\ page2[k] \in Index /\ P[k] \in AllOf(N)
      BY <1>2, WalkFacts
    <3>6. Unique(memory, N, roots, GuardsOf(op), P[k - 1])
      BY <1>3, <3>3, NodesHaveOneUser
    <3> HIDE DEF P, Q
    <3> QED BY <3>1, <3>2, <3>3, <3>4, <3>5, <3>6 DEF Unique
  <2> QED BY <2>1, <2>2
<1>6. page \in [Levels -> Index] /\ page2 \in [Levels -> Index]
  BY PagesAssumption
<1>7. page = page2
  BY <1>5, <1>6
<1> QED BY <1>4, <1>7
-----------------------------------------------------------------------------
\* Which pages a step may change: none, one page, or the pages of one mapping.
SparesAll == \A m \in Mappings, page \in Pages : roots[m] # None => WalkKept(m, page)
SparesBut(m0, page0) ==
    \A m \in Mappings, page \in Pages : roots[m] # None /\ ~(m = m0 /\ page = page0) => WalkKept(m, page)
SparesOthers(m0) == \A m \in Mappings, page \in Pages : roots[m] # None /\ m # m0 => WalkKept(m, page)

\* Path::map() going through a node spares all pages: they can only gain rights.
LEMMA MapDescendsSpares ==
    ASSUME NEW N, Now(N), MapDescends
    PROVE  SparesAll
<1> DEFINE n == op.node
           i == op.page[op.level]
           h == op.level
           pte == [MapEntry EXCEPT !.flags = @ \cup op.flags]
<1>0. /\ MapsInnerNode /\ MapEntry # None /\ op.kind = "map" /\ h > LeafLevel
      /\ Edited(memory, memory', n, i, pte)
  BY DEF MapDescends, MapsInnerNode, SetEntry, Edited
<1>1. h \in Levels /\ n \in N[h] /\ i \in Index /\ op.flags \in SUBSET Flags /\ n \in AllFrames
  BY <1>0, MapsFacts
<1>2. Linked(MapEntry) /\ MapEntry \in Pte /\ MapEntry = memory[n][i]
  <2>1. MapEntry \in Pte
    BY <1>0, MapsFacts
  <2> QED BY <1>0, <2>1, InnerEntryIsLinked DEF MapEntry
<1>3. /\ pte \in Pte \cup {None} /\ SameLink(memory[n][i], pte)
      /\ pte # None /\ memory[n][i] # None /\ memory[n][i].flags \subseteq pte.flags
  <2>1. pte \in Pte /\ pte.frame = MapEntry.frame /\ pte.huge = MapEntry.huge /\ MapEntry.flags \subseteq pte.flags
    BY <1>1, <1>2 DEF Pte
  <2>2. pte # None /\ MapEntry # None
    BY <1>0, <2>1, FramesFacts
  <2>3. SameLink(MapEntry, pte)
    BY <2>1, <2>2 DEF SameLink, LinksTo, Linked
  <2> QED BY <1>2, <2>1, <2>2, <2>3
<1> HIDE DEF pte
<1>4. memory \in Contents /\ h # LeafLevel
  BY <1>0, <1>1, SoundFacts, LevelsFacts DEF Now
<1>5. memory' \in Contents /\ memory'[n][i] = pte
      /\ \A k \in AllFrames, j \in Index : k # n \/ j # i => memory'[k][j] = memory[k][j]
  <2>1. memory \in Contents /\ n \in AllFrames /\ i \in Index /\ pte \in Pte \cup {None}
        /\ Edited(memory, memory', n, i, pte)
    BY <1>0, <1>1, <1>3, <1>4
  <2> QED BY ONLY <2>1, EditedFacts, SMTT(30)
<1> HIDE DEF n, i, h
<1>6. ASSUME NEW m \in Mappings, NEW page \in Pages, roots[m] # None PROVE WalkKept(m, page)
  <2> DEFINE P == PathIn(memory, roots[m], page)
  <2>1. ASSUME NEW l \in Levels, P[l] # None
        PROVE  /\ SameLink(memory[P[l]][page[l]], memory'[P[l]][page[l]])
               /\ memory[P[l]][page[l]] = None <=> memory'[P[l]][page[l]] = None
               /\ memory[P[l]][page[l]] # None => memory[P[l]][page[l]].flags \subseteq memory'[P[l]][page[l]].flags
               /\ l = LeafLevel => memory[P[l]][page[l]] = memory'[P[l]][page[l]]
    <3>1. P[l] \in AllFrames /\ page[l] \in Index /\ (P[l] = n => l = h)
      BY <1>1, <1>6, <2>1, WalkFacts
    <3> HIDE DEF P
    <3>2. CASE P[l] = n /\ page[l] = i
      BY <3>1, <3>2, <1>3, <1>4, <1>5
    <3>3. CASE ~(P[l] = n /\ page[l] = i)
      BY <3>1, <3>3, <1>5 DEF SameLink
    <3> QED BY <3>2, <3>3
  <2>2. Widened(memory, memory', roots[m], page)
    BY <2>1 DEF Widened
  <2> QED BY <1>5, <1>6, <2>2, WidenedKept
<1> QED BY <1>6 DEF SparesAll

\* Path::map() clears a free frame and links it under the entry of the page; no other entry of the tables changes.
LEMMA MapAllocatesNodeStores ==
    ASSUME NEW N, Now(N), NEW new \in Ram, MapAllocatesNode(new)
    PROVE  /\ op.kind = "map" /\ op.level # LeafLevel /\ op.level \in Levels /\ op.node \in N[op.level]
           /\ op.page[op.level] \in Index /\ memory[op.node][op.page[op.level]] = None
           /\ new \in AllFrames /\ new \notin AllOf(N)
           /\ memory' \in Contents /\ memory'[new] = Zeroed
           /\ memory'[op.node][op.page[op.level]] = [frame |-> new, flags |-> op.flags, huge |-> FALSE]
           /\ \A k \in AllFrames, j \in Index :
                 k # new /\ (k # op.node \/ j # op.page[op.level]) => memory'[k][j] = memory[k][j]
<1> DEFINE n == op.node
           i == op.page[op.level]
           h == op.level
           pte == [frame |-> new, flags |-> op.flags, huge |-> FALSE]
           mem1 == [memory EXCEPT ![new] = Zeroed]
<1>0. /\ op.kind = "map" /\ h > LeafLevel /\ MapEntry = None
      /\ Acquire(new)
      /\ Edited(mem1, memory', n, i, pte)
  BY DEF MapAllocatesNode, MapsInnerNode, SetEntry, Edited
<1>1. h \in Levels /\ n \in N[h] /\ n \in AllOf(N) /\ i \in Index /\ n \in AllFrames /\ op.flags \in SUBSET Flags
  BY <1>0, MapsFacts
<1>2. memory[n][i] = None /\ memory \in Contents /\ h # LeafLevel
  BY <1>0, <1>1, SoundFacts, LevelsFacts DEF Now, MapEntry
<1>3. new \in AllFrames /\ new \notin AllOf(N) /\ new # n
  BY <1>0, <1>1, NewNodeFacts
<1>4. pte \in Pte \cup {None} /\ Linked(pte) /\ pte.frame = new
  <2>1. pte \in Pte
    BY <1>1, <1>3 DEF Pte
  <2> QED BY <2>1, FramesFacts DEF Linked
<1>5. /\ mem1 \in Contents /\ mem1[new] = Zeroed
      /\ \A k \in AllFrames : k # new => mem1[k] = memory[k]
  <2>1. memory \in Contents /\ new \in AllFrames /\ Cleared(memory, mem1, new)
    BY <1>2, <1>3 DEF Cleared
  <2> HIDE DEF mem1
  <2> QED BY ONLY <2>1, ClearedFacts, ZenonT(20)
<1> HIDE DEF pte, mem1
<1>6. DiffersAt(mem1, memory', n, i, pte)
  <2>1. n \in AllFrames /\ i \in Index /\ Edited(mem1, memory', n, i, pte) /\ mem1 \in Contents /\ pte \in Pte \cup {None}
    BY <1>0, <1>1, <1>4, <1>5
  <2> QED BY ONLY <2>1, EditedDiffers
<1>7. /\ memory' \in Contents /\ memory'[n][i] = pte /\ memory'[new] = Zeroed
      /\ \A k \in AllFrames, j \in Index : k # new /\ (k # n \/ j # i) => memory'[k][j] = memory[k][j]
  BY <1>3, <1>5, <1>6 DEF DiffersAt
<1> QED BY <1>0, <1>1, <1>2, <1>3, <1>7 DEF pte

\* Path::map() adding a node spares all pages: nothing was mapped there.
LEMMA MapAllocatesNodeSpares ==
    ASSUME NEW N, Now(N), NEW new \in Ram, MapAllocatesNode(new)
    PROVE  SparesAll
<1> DEFINE n == op.node
           i == op.page[op.level]
           h == op.level
           pte == [frame |-> new, flags |-> op.flags, huge |-> FALSE]
<1>1. h \in Levels /\ n \in N[h] /\ i \in Index /\ n \in AllFrames
  BY MapAllocatesNodeStores, MapsFacts
<1>2. memory[n][i] = None /\ memory \in Contents /\ h # LeafLevel
  BY MapAllocatesNodeStores, SoundFacts DEF Now
<1>3. new \in AllFrames /\ new \notin AllOf(N)
  BY MapAllocatesNodeStores
<1>4. Linked(pte) /\ pte.frame = new
  <2>1. pte \in Pte
    BY <1>3, MapAllocatesNodeStores, MapsFacts DEF Pte
  <2> QED BY <2>1, FramesFacts DEF Linked
<1>7. /\ memory' \in Contents /\ memory'[n][i] = pte /\ memory'[new] = Zeroed
      /\ \A k \in AllFrames, j \in Index : k # new /\ (k # n \/ j # i) => memory'[k][j] = memory[k][j]
  BY MapAllocatesNodeStores
<1> HIDE DEF pte
<1>8. \A j \in Index : ~Linked(memory'[new][j]) /\ memory'[new][j] = None
  BY <1>7, NoneIsNotLinked DEF Zeroed
<1> HIDE DEF n, i, h
<1>9. ASSUME NEW m \in Mappings, NEW page \in Pages, roots[m] # None PROVE WalkKept(m, page)
  <2> DEFINE P == PathIn(memory, roots[m], page)
             Q == PathIn(memory', roots[m], page)
  <2>1. ASSUME NEW l \in Levels, P[l] # None, ~(P[l] = n /\ page[l] = i)
        PROVE  memory'[P[l]][page[l]] = memory[P[l]][page[l]]
    <3>1. P[l] \in AllFrames /\ page[l] \in Index /\ P[l] # new
      BY <1>3, <1>9, <2>1, WalkFacts
    <3> HIDE DEF P
    <3> QED BY <3>1, <2>1, <1>7
  <2>2. CASE ~(P[h] = n /\ page[h] = i)
    <3>1. ASSUME NEW l \in Levels, P[l] # None PROVE memory'[P[l]][page[l]] = memory[P[l]][page[l]]
      <4>1. P[l] = n => l = h
        BY <1>1, <1>9, <3>1, WalkFacts
      <4> QED BY <2>1, <2>2, <3>1, <4>1
    <3>2. SameEntries(memory, memory', roots[m], page)
      BY <3>1 DEF SameEntries
    <3> QED BY <1>7, <1>9, <3>2, SameKept
  <2>3. CASE P[h] = n /\ page[h] = i
    <3>1. roots[m] \in AllFrames \cup {None} /\ \A l \in Levels : page[l] \in Index
      BY <1>9, WalkFacts
    <3>2. LeafIn(memory, roots[m], page) = None
      <4>1. ~Linked(memory[P[h]][page[h]])
        BY <2>3, <1>2, NoneIsNotLinked
      <4> QED BY <4>1, <1>1, <1>2, <3>1, DeadEnd
    <3>3. IsPath(memory', roots[m], page, Q)
      BY <1>7, <3>1, PathExists
    <3>4. ASSUME NEW l \in Levels, l > h
          PROVE  Below(memory', P[l], page[l]) = Below(memory, P[l], page[l])
      <4>1. CASE P[l] = None
        BY <4>1 DEF Below
      <4>2. CASE P[l] # None
        <5>1. P[l] = n => l = h
          BY <1>1, <1>9, <4>2, WalkFacts
        <5>2. l # h
          <6>1. l \in Nat /\ h \in Nat /\ l > h
            BY <1>1, <3>4, LevelsFacts
          <6> QED BY ONLY <6>1
        <5>3. memory'[P[l]][page[l]] = memory[P[l]][page[l]]
          BY <2>1, <4>2, <5>1, <5>2
        <5> QED BY <5>3 DEF Below
      <4> QED BY <4>1, <4>2
    <3>5. Q[h] = P[h]
      <4>1. \A l \in Levels : l >= h => Q[l] = P[l]
        <5>1. /\ memory \in Contents /\ memory' \in Contents /\ roots[m] \in AllFrames \cup {None} /\ page \in Pages
              /\ h \in Levels
          BY <1>1, <1>2, <1>7, <3>1
        <5>2. \A l \in Levels : l > h => Below(memory', P[l], page[l]) = Below(memory, P[l], page[l])
          BY <3>4
        <5> QED BY ONLY <5>1, <5>2, PathKept, ZenonT(30)
      <4> QED BY <4>1, <1>1, LevelsFacts
    <3>6. h - 1 \in Levels /\ h - 1 + 1 = h /\ h - 1 < RootLevel
      BY <1>1, <1>2, LevelsFacts
    <3>7. Q[h - 1] = new
      <4>1. Q[h - 1] = Below(memory', Q[h - 1 + 1], page[h - 1 + 1])
        BY <3>3, <3>6 DEF IsPath
      <4>2. Q[h - 1] = Below(memory', n, i)
        BY <4>1, <3>5, <3>6, <2>3
      <4> QED BY <4>2, <1>1, <1>4, <1>7, FramesFacts DEF Below
    <3>8. LeafIn(memory', roots[m], page) = None
      <4>1. page[h - 1] \in Index
        BY <3>1, <3>6
      <4>2. memory'[Q[h - 1]][page[h - 1]] = None /\ ~Linked(memory'[Q[h - 1]][page[h - 1]])
        BY <1>8, <3>7, <4>1
      <4> QED BY <4>2, <3>6, <1>7, <3>1, DeadEnd
    <3> QED BY <3>2, <3>8 DEF WalkKept
  <2> QED BY <2>2, <2>3
<1> QED BY <1>9 DEF SparesAll
-----------------------------------------------------------------------------
\* A store to the leaf entry of one page.
LEMMA LeafStoreSpares ==
    ASSUME NEW N, Now(N), NEW m0 \in Mappings, roots[m0] # None, NEW page0 \in Pages,
           PathIn(memory, roots[m0], page0)[LeafLevel] # None, NEW pte \in Pte \cup {None},
           Edited(memory, memory', PathIn(memory, roots[m0], page0)[LeafLevel], page0[LeafLevel], pte)
    PROVE  SparesBut(m0, page0)
<1> DEFINE n == PathIn(memory, roots[m0], page0)[LeafLevel]
<1>0. LeafLevel \in Levels
  BY LevelsFacts
<1>1. n \in N[LeafLevel] /\ page0[LeafLevel] \in Index
  BY <1>0, WalkFacts
<1>2. ASSUME NEW m \in Mappings, NEW page \in Pages, roots[m] # None, ~(m = m0 /\ page = page0)
      PROVE  WalkKept(m, page)
  <2>1. ~(PathIn(memory, roots[m], page)[LeafLevel] = n /\ page[LeafLevel] = page0[LeafLevel])
    BY <1>2, LeafEntriesAreApart
  <2> QED BY <1>0, <1>1, <1>2, <2>1, EditOffWalk
<1> QED BY <1>2 DEF SparesBut

\* Path::map() storing the leaf entry changes the page that it maps.
LEMMA MapStoresLeafSpares ==
    ASSUME NEW N, Now(N), MapStoresLeaf
    PROVE  SparesBut(op.m, op.page)
<1> DEFINE pte == [frame |-> op.frame, flags |-> op.flags, huge |-> FALSE]
<1>0. /\ op.kind = "map" /\ op.level = LeafLevel
      /\ Edited(memory, memory', op.node, op.page[LeafLevel], pte)
  BY DEF MapStoresLeaf, SetEntry, Edited
<1>1. /\ op.m \in Mappings /\ op.page \in Pages /\ roots[op.m] # None /\ op.node \in AllFrames
      /\ op.node = PathIn(memory, roots[op.m], op.page)[LeafLevel]
      /\ op.frame \in AllFrames /\ op.flags \in SUBSET Flags
  BY <1>0, MapsFacts
<1>2. pte \in Pte \cup {None}
  BY <1>1 DEF Pte
<1> HIDE DEF pte
<1> QED BY <1>0, <1>1, <1>2, FramesFacts, LeafStoreSpares

\* Path::unmap() changes the page that it unmaps.
LEMMA UnmapSpares ==
    ASSUME NEW N, Now(N), NEW m \in Mappings, NEW page \in Pages, Unmap(m, page)
    PROVE  SparesBut(m, page)
<1> DEFINE n == PathIn(memory, roots[m], page)[LeafLevel]
<1>0. roots[m] # None /\ LeafIn(memory, roots[m], page) # None /\ Edited(memory, memory', n, page[LeafLevel], None)
  BY LeafIs, PathIs DEF Unmap, SetEntry, Edited
<1>1. n # None
  BY <1>0 DEF LeafIn
<1>2. None \in Pte \cup {None}
  OBVIOUS
<1> QED BY <1>0, <1>1, <1>2, LeafStoreSpares

\* remap_block() changes the page whose flags it sets.
LEMMA RemapSpares ==
    ASSUME NEW N, Now(N), NEW m \in Mappings, NEW page \in Pages, NEW flags \in Rights, Remap(m, page, flags)
    PROVE  SparesBut(m, page)
<1> DEFINE n == PathIn(memory, roots[m], page)[LeafLevel]
           e == LeafIn(memory, roots[m], page)
           pte == [e EXCEPT !.flags = flags]
<1>0. roots[m] # None /\ e # None /\ Edited(memory, memory', n, page[LeafLevel], pte)
  BY LeafIs, PathIs DEF Remap, SetEntry, Edited
<1>1. n # None
  BY <1>0 DEF LeafIn
<1>2. e \in Pte
  BY <1>0, LiveLeaf DEF Now
<1> HIDE DEF e, n
<1>3. pte \in Pte \cup {None}
  BY <1>2, RightsAssumption DEF Pte
<1> HIDE DEF pte
<1> QED BY <1>0, <1>1, <1>3, LeafStoreSpares DEF n
-----------------------------------------------------------------------------
\* A store to a node of an unfinished copy.
LEMMA CopyStoreSpares ==
    ASSUME NEW N, Now(N), op.kind = "duplicate", NEW e \in 1 .. Len(op.stack), NEW i \in Index,
           NEW pte \in Pte \cup {None}, Edited(memory, memory', op.stack[e].node, i, pte)
    PROVE  SparesAll
<1> DEFINE n == op.stack[e].node
<1>1. n \in AllFrames /\ n # None /\ LevelAt(e) \in Levels /\ n \in N[LevelAt(e)]
  BY CopyFacts, FramesFacts DEF CopyAt
<1>2. /\ \A k \in AllOf(N), j \in Index : ~LinksTo(memory[k][j], n)
      /\ \A m \in Mappings : roots[m] # n
  BY CopiesAreApart
<1> HIDE DEF n
<1>3. ASSUME NEW m \in Mappings, NEW page \in Pages, roots[m] # None PROVE WalkKept(m, page)
  <2>1. PathIn(memory, roots[m], page)[LevelAt(e)] # n
    BY <1>1, <1>2, <1>3, NotOnWalk
  <2> QED BY <1>1, <1>3, <2>1, EditOffWalk DEF n
<1> QED BY <1>3 DEF SparesAll

\* A free frame that is cleared is on no walk.
LEMMA NewNodeSpares ==
    ASSUME NEW N, Now(N), NEW new, Acquire(new), Cleared(memory, memory', new)
    PROVE  SparesAll
<1>1. new \in AllFrames /\ new \notin AllOf(N)
  BY NewNodeFacts
<1> QED BY <1>1, ClearOffWalk DEF SparesAll

\* Without a store nothing changes.
LEMMA NoStoreSpares ==
    ASSUME memory' = memory
    PROVE  SparesAll
  BY DEF SparesAll, WalkKept

\* duplicate_subtree() storing an entry of the copy spares all pages.
LEMMA CopyStepSpares ==
    ASSUME NEW N, Now(N), NEW pte \in Pte \cup {None}, CopySteps(pte)
    PROVE  SparesAll
<1>1. op.kind = "duplicate" /\ Edited(memory, memory', Top.node, Top.i, pte) /\ Top = op.stack[Len(op.stack)]
  BY DEF CopySteps, Duplicating, Top
<1>2. Top.i \in Index
  BY CopyAdvances
<1>3. Len(op.stack) \in 1 .. Len(op.stack)
  <2>1. Len(op.stack) \in Nat /\ Len(op.stack) \in 1 .. RootLevel + 1
    BY <1>1, CopyFacts
  <2> QED BY <2>1, LevelsFacts
<1> QED BY <1>1, <1>2, <1>3, CopyStoreSpares

\* duplicate_subtree() linking a finished child spares all pages.
LEMMA DuplicateReturnsSpares ==
    ASSUME NEW N, Now(N), DuplicateReturns
    PROVE  SparesAll
<1> DEFINE stk == op.stack
           n == Len(op.stack)
           c == n - 1
           p == stk[c].node
           i == stk[c].i
           t == stk[n].node
           e0 == memory[stk[c].src][i]
           pte == [e0 EXCEPT !.frame = t]
<1>0. /\ op.kind = "duplicate" /\ n > 1 /\ Edited(memory, memory', p, i, pte)
  BY DEF DuplicateReturns, SetEntry, Edited, Depth, Top
<1>1. /\ Copies(memory, roots, op, N) /\ n \in Nat
      /\ \A d \in 1 .. n : CopyAt(memory, N, stk, d)
  BY <1>0, CopyFacts
<1>2. c \in 1 .. n /\ c \in 1 .. n - 1 /\ n \in 1 .. n /\ c + 1 = n
  BY <1>0, <1>1, SMTT(30)
<1>3. memory \in Contents
  BY SoundFacts DEF Now
<1>4. i \in 0 .. EntryCount /\ stk[c].src \in AllFrames /\ t \in AllFrames
  BY <1>1, <1>2 DEF CopyAt
<1>5. i < EntryCount /\ LinksTo(e0, stk[n].src)
  BY <1>1, <1>2 DEF Copies
<1>6. i \in Index
  BY <1>4, <1>5, IndexFacts
<1>7. pte \in Pte \cup {None}
  <2>1. e0 \in Pte
    BY <1>3, <1>4, <1>5, <1>6, ContentsType DEF LinksTo, Linked
  <2> QED BY <2>1, <1>4 DEF Pte
<1> HIDE DEF pte
<1> QED BY <1>0, <1>2, <1>6, <1>7, CopyStoreSpares
-----------------------------------------------------------------------------
\* drop_subtree() cuts off a node without links: what was below it was mapped to nothing.
LEMMA DropNodeSpares ==
    ASSUME NEW N, Now(N), DropNode
    PROVE  SparesAll
<1> DEFINE stk == op.stack
           n == Len(op.stack)
           c == n - 1
           p == stk[c].node
           i == stk[c].i
           t == stk[n].node
           h == LevelAt(c)
<1>0. AtSubtreeEnd /\ Depth > 1 /\ Deleted /\ Edited(memory, memory', p, i, None)
  BY DEF DropNode, SetEntry, Edited, Top, Depth
<1>1. /\ op.drop_used \in BOOLEAN /\ c \in 1 .. n /\ n \in 1 .. n
      /\ i \in Index /\ LinksTo(memory[p][i], t)
      /\ DropAt(memory, N, op, c) /\ DropAt(memory, N, op, n)
      /\ Top = stk[n] /\ Top.i = EntryCount
      /\ h = LevelAt(n) + 1 /\ h # LeafLevel
  BY <1>0, ReturnFacts
<1>2. /\ p \in AllFrames /\ p \in N[h] /\ h \in Levels
      /\ t \in AllFrames /\ t \in N[LevelAt(n)] /\ LevelAt(n) \in Levels
  BY <1>1 DEF DropAt
<1>3. NoLinks(memory, t)
  <2>1. op.drop_used \/ ~stk[n].has_used
    BY <1>0, <1>1 DEF Deleted
  <2> QED BY <1>1, <2>1, DeletedIsEmpty
<1>4. memory \in Contents /\ IsTree(owned, memory, N) /\ None \in Pte \cup {None}
  BY SoundFacts DEF Now
<1>5. /\ memory' \in Contents /\ memory'[p][i] = None
      /\ \A k \in AllFrames, j \in Index : k # p \/ j # i => memory'[k][j] = memory[k][j]
  <2>1. None \in Pte \cup {None} /\ p \in AllFrames /\ i \in Index /\ memory \in Contents /\ Edited(memory, memory', p, i, None)
    BY <1>0, <1>1, <1>2, <1>4
  <2>2. DiffersAt(memory, memory', p, i, None)
    BY <2>1, EditedDiffers
  <2> QED BY <2>2 DEF DiffersAt
<1>6. h - 1 = LevelAt(n) /\ h - 1 \in Levels /\ h - 1 < RootLevel /\ h - 1 + 1 = h
  <2>1. h \in Levels /\ LevelAt(n) \in Levels /\ h = LevelAt(n) + 1 /\ h # LeafLevel
    BY <1>1, <1>2
  <2> HIDE DEF h, n
  <2>2. h - 1 \in Levels /\ h - 1 < RootLevel /\ h - 1 + 1 = h /\ h \in Nat /\ LevelAt(n) \in Nat
    BY <2>1, LevelsFacts
  <2>3. h - 1 = LevelAt(n)
    BY ONLY <2>1, <2>2
  <2> QED BY <2>2, <2>3
<1>7. Edited(memory, memory', p, i, None) /\ i \in Index
  BY <1>0, <1>1
<1>8. \A j \in Index : ~Linked(memory[t][j]) /\ (LevelAt(n) = LeafLevel => memory[t][j] = None)
  BY <1>2, <1>3, <1>4 DEF NoLinks, IsTree
<1>9. LinksTo(memory[p][i], t) /\ h # LeafLevel
  BY <1>1
<1> HIDE DEF stk, n, c, p, i, t, h
<1>10. ASSUME NEW m \in Mappings, NEW page \in Pages, roots[m] # None PROVE WalkKept(m, page)
  <2> DEFINE P == PathIn(memory, roots[m], page)
             Q == PathIn(memory', roots[m], page)
  <2>1. CASE ~(P[h] = p /\ page[h] = i)
    BY <1>2, <1>4, <1>7, <1>10, <2>1, EditOffWalk
  <2>2. CASE P[h] = p /\ page[h] = i
    <3>1. /\ roots[m] \in AllFrames \cup {None} /\ \A l \in Levels : page[l] \in Index
          /\ \A l \in Levels : l < RootLevel => P[l] = Below(memory, P[l + 1], page[l + 1])
      BY <1>10, WalkFacts
    <3>2. P[h - 1] = t
      <4>1. P[h - 1] = Below(memory, P[h - 1 + 1], page[h - 1 + 1])
        BY <3>1, <1>6
      <4>2. P[h - 1] = Below(memory, p, i)
        BY <4>1, <1>6, <2>2
      <4> QED BY <4>2, <1>2, <1>9, FramesFacts DEF Below, LinksTo
    <3>3. LeafIn(memory, roots[m], page) = None
      <4>1. page[h - 1] \in Index
        BY <3>1, <1>6
      <4>2. IF h - 1 = LeafLevel THEN memory[P[h - 1]][page[h - 1]] = None ELSE ~Linked(memory[P[h - 1]][page[h - 1]])
        BY <1>6, <1>8, <3>2, <4>1
      <4> QED BY <4>2, <1>6, <1>4, <3>1, DeadEnd
    <3>4. ASSUME NEW l \in Levels, l > h
          PROVE  Below(memory', P[l], page[l]) = Below(memory, P[l], page[l])
      <4>1. CASE P[l] = None
        BY <4>1 DEF Below
      <4>2. CASE P[l] # None
        <5>1. P[l] \in AllFrames /\ page[l] \in Index /\ (P[l] = p => l = h)
          BY <1>2, <1>10, <4>2, WalkFacts
        <5>2. l # h
          <6>1. l \in Nat /\ h \in Nat /\ l > h
            BY <1>2, <3>4, LevelsFacts
          <6> QED BY ONLY <6>1
        <5>3. memory'[P[l]][page[l]] = memory[P[l]][page[l]]
          BY <1>5, <5>1, <5>2
        <5> QED BY <5>3 DEF Below
      <4> QED BY <4>1, <4>2
    <3>5. Q[h] = p
      <4>1. \A l \in Levels : l >= h => Q[l] = P[l]
        <5>1. /\ h \in Levels /\ memory \in Contents /\ memory' \in Contents /\ page \in Pages
              /\ roots[m] \in AllFrames \cup {None}
              /\ \A l \in Levels : l > h => Below(memory', P[l], page[l]) = Below(memory, P[l], page[l])
          BY <1>2, <1>4, <1>5, <1>10, <3>1, <3>4
        <5> QED BY ONLY <5>1, PathKept
      <4> QED BY <4>1, <1>2, <2>2, LevelsFacts
    <3>6. LeafIn(memory', roots[m], page) = None
      <4>1. ~Linked(memory'[Q[h]][page[h]])
        BY <1>5, <2>2, <3>5, NoneIsNotLinked
      <4> QED BY <4>1, <1>2, <1>5, <1>9, <3>1, DeadEnd
    <3> QED BY <3>3, <3>6 DEF WalkKept
  <2> QED BY <2>1, <2>2
<1> QED BY <1>10 DEF SparesAll

\* The nodes that drop_subtree() is in are a chain from the root of its mapping.
LEMMA DropStackIsChain ==
    ASSUME NEW N, Now(N), op.kind = "drop_subtree", ~DropsNothing(memory, op), NEW Q,
           Q = [k \in Levels |-> IF LevelAt(Len(op.stack)) <= k THEN op.stack[RootLevel - k + 1].node ELSE None]
    PROVE  /\ Q[RootLevel] = roots[op.m]
           /\ Q[LevelAt(Len(op.stack))] = op.stack[Len(op.stack)].node
           /\ IsChain(N, Q, LevelAt(Len(op.stack)))
<1> DEFINE n == Len(op.stack)
           l == LevelAt(n)
<1>1. /\ Drops(memory, roots, current, op, N) /\ n \in 1 .. RootLevel + 1 /\ n \in Nat
      /\ op.stack[1].node = roots[op.m]
      /\ \A d \in 1 .. n : DropAt(memory, N, op, d)
  BY DropFacts
<1>2. RootLevel \in Nat /\ RootLevel \in Levels /\ \A k \in Levels : k \in Nat /\ k <= RootLevel
  BY LevelsFacts
<1>3. l = RootLevel - n + 1 /\ l <= RootLevel /\ l \in Levels
  <2>1. n \in 1 .. n
    BY <1>1
  <2>2. l \in Levels
    BY <1>1, <2>1, LevelAtType
  <2> QED BY <1>2, <2>2 DEF LevelAt
<1>4. Q[RootLevel] = roots[op.m]
  <2>1. RootLevel - RootLevel + 1 = 1
    BY <1>2
  <2> QED BY <1>1, <1>2, <1>3, <2>1
<1>5. Q[l] = op.stack[n].node
  <2>1. RootLevel - l + 1 = n /\ l <= l
    BY <1>1, <1>2, <1>3
  <2> HIDE DEF l
  <2>2. Q[l] = op.stack[RootLevel - l + 1].node
    BY <1>3, <2>1 DEF l
  <2> QED BY <2>1, <2>2
<1>6. ASSUME NEW k \in Levels, k > l
      PROVE  Q[k] \in AllOf(N) /\ \E j \in Index : LinksTo(memory[Q[k]][j], Q[k - 1])
  <2> DEFINE d == RootLevel - k + 1
  <2>1. d \in 1 .. n - 1 /\ d \in 1 .. n /\ d + 1 \in 1 .. n /\ RootLevel - (k - 1) + 1 = d + 1 /\ k >= l /\ k - 1 >= l
    <3>1. RootLevel \in Nat /\ k \in Nat /\ k <= RootLevel /\ l = RootLevel - n + 1 /\ n \in Nat /\ n \in 1 .. RootLevel + 1 /\ k > l
      BY <1>1, <1>2, <1>3, <1>6
    <3> HIDE DEF l, n
    <3> QED BY ONLY <3>1
  <2>2. k - 1 \in Levels
    <3>1. k # LeafLevel
      <4>1. k > l /\ l \in Nat /\ k \in Nat
        BY <1>2, <1>3, <1>6
      <4> HIDE DEF l
      <4> QED BY <4>1 DEF LeafLevel
    <3> QED BY <3>1, LevelsFacts
  <2>3. Q[k] = op.stack[d].node
    <3>1. LevelAt(Len(op.stack)) <= k
      BY <2>1, <1>2, <1>3
    <3> QED BY <3>1
  <2>4. Q[k - 1] = op.stack[d + 1].node
    <3>1. LevelAt(Len(op.stack)) <= k - 1
      BY <2>1, <2>2, <1>2, <1>3
    <3>2. Q[k - 1] = op.stack[RootLevel - (k - 1) + 1].node
      BY <3>1, <2>2
    <3> QED BY <3>2, <2>1
  <2> HIDE DEF d
  <2>5. op.stack[d].i < EntryCount /\ LinksTo(memory[op.stack[d].node][op.stack[d].i], op.stack[d + 1].node)
    BY <1>1, <2>1 DEF Drops
  <2>6. op.stack[d].i \in 0 .. EntryCount /\ op.stack[d].node \in AllOf(N)
    BY <1>1, <2>1 DEF DropAt
  <2>7. op.stack[d].i \in Index
    BY <2>5, <2>6, IndexFacts
  <2> QED BY <2>3, <2>4, <2>5, <2>6, <2>7
<1> QED BY <1>4, <1>5, <1>6 DEF IsChain

\* drop_subtree() releases pages of its own mapping only.
LEMMA DropPageSpares ==
    ASSUME NEW N, Now(N), DropPage
    PROVE  SparesOthers(op.m) /\ op.drop_used /\ op.m \in Mappings /\ op.m # current
<1> DEFINE n == Len(op.stack)
           t == Top.node
           i == Top.i
           Q == [k \in Levels |-> IF LevelAt(Len(op.stack)) <= k THEN op.stack[RootLevel - k + 1].node ELSE None]
<1>0. /\ InSubtree /\ op.kind = "drop_subtree" /\ NodeEntry # None /\ Level = LeafLevel /\ op.drop_used
      /\ Edited(memory, memory', t, i, None)
  BY DEF DropPage, InSubtree, AtLeaf, SetEntry, Edited
<1>1. ~DropsNothing(memory, op)
  BY <1>0, NothingIsEmpty DEF InSubtree
<1>2. Drops(memory, roots, current, op, N) /\ op.m \in Mappings /\ roots[op.m] # None
  BY <1>0, <1>1, DropFacts
<1>3. /\ i \in Index /\ t \in N[LeafLevel] /\ t \in AllFrames /\ t = op.stack[n].node /\ LevelAt(n) = LeafLevel
  BY <1>0, <1>1, InSubtreeFacts
<1>4. Q[RootLevel] = roots[op.m] /\ Q[LeafLevel] = t /\ IsChain(N, Q, LeafLevel)
  BY <1>0, <1>1, <1>3, DropStackIsChain
<1> HIDE DEF t, i, Q
<1>5. LeafLevel \in Levels /\ RootLevel \in Levels /\ RootLevel >= LeafLevel
  BY LevelsFacts
<1>6. ASSUME NEW m \in Mappings, NEW page \in Pages, roots[m] # None, m # op.m PROVE WalkKept(m, page)
  <2> DEFINE P == PathIn(memory, roots[m], page)
  <2>1. P[LeafLevel] # t
    <3>1. SUFFICES ASSUME P[LeafLevel] = t PROVE FALSE
      OBVIOUS
    <3>2. P[LeafLevel] # None
      BY <1>3, <3>1, FramesFacts
    <3>3. P[RootLevel] = Q[RootLevel]
      BY <1>4, <1>5, <1>6, <3>1, <3>2, Climb
    <3>4. roots[m] = roots[op.m] /\ roots[m] \in AllOf(N)
      <4>1. P[RootLevel] = roots[m] /\ (P[RootLevel] # None => P[RootLevel] \in AllOf(N))
        BY <1>5, <1>6, WalkFacts
      <4> QED BY <1>4, <1>6, <3>3, <4>1
    <3>5. Unique(memory, N, roots, GuardsOf(op), roots[m])
      <4>1. /\ owned \in [AllFrames -> Nat] /\ N \in [Levels -> SUBSET AllFrames]
            /\ IsOp(op) /\ IsTree(owned, memory, N) /\ Covers(owned, memory, N, roots, op)
        BY SoundFacts DEF Now
      <4> QED BY <3>4, <4>1, NodesHaveOneUser
    <3> QED BY <1>2, <1>6, <3>4, <3>5 DEF Unique
  <2>2. None \in Pte \cup {None} /\ Edited(memory, memory', t, i, None)
    BY <1>0 DEF t, i
  <2> QED BY <1>3, <1>5, <1>6, <2>1, <2>2, EditOffWalk
<1>7. op.m # current
  BY <1>0, <1>2 DEF Drops
<1> QED BY <1>0, <1>2, <1>6, <1>7 DEF SparesOthers
-----------------------------------------------------------------------------
\* The step changes the pages of no live mapping but one.
ChangesOne ==
    \/ SparesAll
    \/ \E m \in Mappings : SparesOthers(m)

\* The steps that store to page tables.
Stores ==
    \/ MapDescends \/ MapStoresLeaf \/ \E new \in Ram : MapAllocatesNode(new)
    \/ DuplicateSkips \/ DuplicateCopiesHuge \/ DuplicateSharesPage \/ DuplicateReturns
    \/ \E new \in Ram : DuplicateDescends(new)
    \/ DropPage \/ DropNode
    \/ \E m \in Mappings, page \in Pages : Unmap(m, page) \/ \E flags \in Rights : Remap(m, page, flags)
    \/ \E m \in Mappings, copy \in Mappings, new \in Ram : Duplicate(m, copy, new)

\* The steps that do not store leave the tables as they are.
LEMMA OtherStepsStoreNothing ==
    ASSUME [Next]_vars, ~Stores
    PROVE  memory' = memory
<1>1. CASE PageSteps
  BY <1>1 DEF PageSteps, Stores, MapPage, MapPageToFrame
<1>2. CASE MappingSteps
  BY <1>2 DEF MappingSteps, Stores, DuplicateFailsAtOnce, Drop, UnmapUnusedIntermediate, SwitchTo
<1>3. CASE LoadSteps
  BY <1>3 DEF LoadSteps, LoadTlb
<1>4. CASE DropGuard
  BY <1>4 DEF DropGuard
<1>5. CASE MapSteps
  BY <1>5 DEF MapSteps, Stores, MapPageReferences, MapFails
<1>6. CASE DuplicateSteps
  BY <1>6 DEF DuplicateSteps, Stores, DuplicateEnds, DuplicateFails, DuplicateUnwinds
<1>7. CASE DropSteps
  BY <1>7 DEF DropSteps, Stores, DropSkips, DropDescends, DropKeepsNode, DropEnds, UnmapUnusedEnds
<1>8. CASE UNCHANGED vars
  BY <1>8 DEF vars, tableVars
<1> QED BY <1>1, <1>2, <1>3, <1>4, <1>5, <1>6, <1>7, <1>8, NextIs

\* What each step may do to the pages of live mappings.
LEMMA StepSpares ==
    ASSUME NEW N, Now(N), [Next]_vars
    PROVE  \/ SparesAll
           \/ MapStoresLeaf /\ SparesBut(op.m, op.page)
           \/ \E m \in Mappings, page \in Pages : Unmap(m, page) /\ SparesBut(m, page)
           \/ \E m \in Mappings, page \in Pages, flags \in Rights : Remap(m, page, flags) /\ SparesBut(m, page)
           \/ DropPage /\ SparesOthers(op.m)
<1>1. CASE ~Stores
  BY <1>1, OtherStepsStoreNothing, NoStoreSpares
<1>2. CASE MapDescends
  BY <1>2, MapDescendsSpares
<1>3. CASE MapStoresLeaf
  BY <1>3, MapStoresLeafSpares
<1>4. ASSUME NEW new \in Ram, MapAllocatesNode(new) PROVE SparesAll
  BY <1>4, MapAllocatesNodeSpares
<1>5. CASE DuplicateSkips
  <2>1. CopySteps(None)
    BY <1>5 DEF DuplicateSkips, CopySteps, SetEntry, Edited
  <2>2. None \in Pte \cup {None}
    OBVIOUS
  <2> QED BY <2>1, <2>2, CopyStepSpares
<1>6. CASE DuplicateCopiesHuge
  <2>1. CopySteps(SourceEntry) /\ Duplicating
    BY <1>6 DEF DuplicateCopiesHuge, CopySteps, SetEntry, Edited
  <2>2. SourceEntry \in Pte \cup {None}
    BY <2>1, SourceFacts
  <2> QED BY <2>1, <2>2, CopyStepSpares
<1>7. CASE DuplicateSharesPage
  <2>1. CopySteps(SourceEntry) /\ Duplicating
    BY <1>7 DEF DuplicateSharesPage, CopySteps, SetEntry, Edited
  <2>2. SourceEntry \in Pte \cup {None}
    BY <2>1, SourceFacts
  <2> QED BY <2>1, <2>2, CopyStepSpares
<1>8. CASE DuplicateReturns
  BY <1>8, DuplicateReturnsSpares
<1>9. ASSUME NEW new \in Ram, DuplicateDescends(new) PROVE SparesAll
  BY <1>9, NewNodeSpares DEF DuplicateDescends, Cleared
<1>10. CASE DropPage
  BY <1>10, DropPageSpares
<1>11. CASE DropNode
  BY <1>11, DropNodeSpares
<1>12. ASSUME NEW m \in Mappings, NEW page \in Pages, Unmap(m, page) PROVE SparesBut(m, page)
  BY <1>12, UnmapSpares
<1>13. ASSUME NEW m \in Mappings, NEW page \in Pages, NEW flags \in Rights, Remap(m, page, flags) PROVE SparesBut(m, page)
  BY <1>13, RemapSpares
<1>14. ASSUME NEW m \in Mappings, NEW copy \in Mappings, NEW new \in Ram, Duplicate(m, copy, new) PROVE SparesAll
  BY <1>14, NewNodeSpares DEF Duplicate, Cleared
<1> QED BY <1>1, <1>2, <1>3, <1>4, <1>5, <1>6, <1>7, <1>8, <1>9, <1>10, <1>11, <1>12, <1>13, <1>14 DEF Stores
-----------------------------------------------------------------------------
\* Of pages of two mappings a step spares one.
LEMMA OthersAreSpared ==
    ASSUME NEW m1 \in Mappings, NEW m2 \in Mappings, m1 # m2, roots[m1] # None, roots[m2] # None,
           NEW p1 \in Pages, NEW p2 \in Pages, NEW N, Now(N), [Next]_vars
    PROVE  WalkKept(m1, p1) \/ WalkKept(m2, p2)
<1>1. CASE SparesAll
  BY <1>1 DEF SparesAll
<1>2. ASSUME NEW m0, NEW page0, SparesBut(m0, page0) PROVE WalkKept(m1, p1) \/ WalkKept(m2, p2)
  BY <1>2 DEF SparesBut
<1>3. ASSUME NEW m0, SparesOthers(m0) PROVE WalkKept(m1, p1) \/ WalkKept(m2, p2)
  BY <1>3 DEF SparesOthers
<1> QED BY <1>1, <1>2, <1>3, StepSpares

\* A step of mapping.rs changes pages of one mapping only: map(), unmap() and remap_block() one page, drop() those
\* of the mapping that it drops; nodes that are made, copied or removed change nothing that is mapped.
THEOREM MappingsStayIndependent ==
    Spec /\ FrameZeroIsUnharmed => MappingsAreIndependent
<1> DEFINE I == TablesInv
           A == \A m1, m2 \in LiveMappings, p1, p2 \in Pages :
                   roots'[m1] = roots[m1] /\ roots'[m2] = roots[m2] /\ m1 # m2 =>
                       Leaf(m1, p1)' = Leaf(m1, p1) \/ Leaf(m2, p2)' = Leaf(m2, p2)
<1>1. Init => I
  BY InitTables
<1>2. I /\ [Next]_vars /\ [DropsFrameZero => ZeroIsZero]_vars => I' /\ A
  <2> SUFFICES ASSUME I, [Next]_vars, [DropsFrameZero => ZeroIsZero]_vars PROVE I' /\ A
    OBVIOUS
  <2>1. Now(NowLevels) /\ (DropsFrameZero => ZeroIsZero)
    BY InvIsNow, UnharmedStep
  <2>2. KeptSound
    BY <2>1, StepKeeps, KeptIsSound
  <2>4. ASSUME NEW m1 \in LiveMappings, NEW m2 \in LiveMappings, NEW p1 \in Pages, NEW p2 \in Pages,
               roots'[m1] = roots[m1], roots'[m2] = roots[m2], m1 # m2
        PROVE  Leaf(m1, p1)' = Leaf(m1, p1) \/ Leaf(m2, p2)' = Leaf(m2, p2)
    <3>1. m1 \in Mappings /\ m2 \in Mappings /\ roots[m1] # None /\ roots[m2] # None
      BY DEF LiveMappings
    <3>2. WalkKept(m1, p1) \/ WalkKept(m2, p2)
      BY <2>1, <2>4, <3>1, OthersAreSpared
    <3>3. /\ Leaf(m1, p1) = LeafIn(memory, roots[m1], p1) /\ Leaf(m1, p1)' = LeafIn(memory', roots[m1], p1)
          /\ Leaf(m2, p2) = LeafIn(memory, roots[m2], p2) /\ Leaf(m2, p2)' = LeafIn(memory', roots[m2], p2)
      BY <2>4, LeafIs
    <3> QED BY <3>2, <3>3 DEF WalkKept
  <2> QED BY <2>2, <2>4, InvIsNow
<1> QED BY <1>1, <1>2, PTL DEF Spec, FrameZeroIsUnharmed, MappingsAreIndependent
-----------------------------------------------------------------------------
\* The cached translation agrees with the tables, and grants no more than they do.
Fresh(mem, root, t) ==
    t # None => /\ t.page \in Pages /\ LeafIn(mem, root, t.page) # None
                /\ LeafIn(mem, root, t.page).frame = t.frame
Grants(mem, root, t) == t # None => t.flags \subseteq EffIn(mem, root, t.page)

\* The processor forgets its translation, loads a new one, or keeps it with the mapping in CR3.
LEMMA TlbSteps ==
    ASSUME NEW N, Now(N), [Next]_vars
    PROVE  tlb' = None \/ LoadSteps \/ (tlb' = tlb /\ current' = current /\ roots'[current] = roots[current])
<1>0. current \in Mappings /\ roots[current] # None /\ roots \in Roots
  BY SoundFacts DEF Now
<1>1. CASE PageSteps
  <2>1. ASSUME NEW m \in Mappings, NEW page \in Pages, Unmap(m, page)
        PROVE  tlb' = None \/ (tlb' = tlb /\ current' = current /\ roots'[current] = roots[current])
    BY <2>1 DEF Unmap, Flush
  <2>2. ASSUME NEW m \in Mappings, NEW page \in Pages, NEW flags \in Rights,
               \/ \E new \in Ram : MapPage(m, page, flags, new)
               \/ \E frame \in AllFrames : MapPageToFrame(m, page, flags, frame)
               \/ Remap(m, page, flags)
        PROVE  tlb' = tlb /\ current' = current /\ roots'[current] = roots[current]
    BY <2>2 DEF MapPage, MapPageToFrame, Remap
  <2> QED BY <1>1, <2>1, <2>2 DEF PageSteps
<1>2. CASE MappingSteps
  BY <1>2 DEF MappingSteps, Duplicate, DuplicateFailsAtOnce, Drop, UnmapUnusedIntermediate, SwitchTo
<1>3. CASE LoadSteps
  BY <1>3
<1>4. CASE DropGuard
  BY <1>4 DEF DropGuard
<1>5. CASE MapSteps
  BY <1>5 DEF MapSteps, MapPageReferences, MapDescends, MapFails, MapStoresLeaf, MapAllocatesNode, Flush
<1>6. CASE DuplicateSteps /\ ~DuplicateEnds
  BY <1>6 DEF DuplicateSteps, DuplicateSkips, DuplicateCopiesHuge, DuplicateSharesPage, DuplicateDescends,
              DuplicateReturns, DuplicateFails, DuplicateUnwinds
<1>7. CASE DuplicateEnds
  <2>1. tlb' = tlb /\ current' = current /\ roots' = [roots EXCEPT ![op.copy] = Top.node] /\ op.kind = "duplicate"
    BY <1>7 DEF DuplicateEnds
  <2>2. op.copy # current
    BY <1>0, <2>1, CopyFacts
  <2> QED BY <1>0, <2>1, <2>2 DEF Roots
<1>8. CASE DropSteps /\ ~DropEnds
  BY <1>8 DEF DropSteps, DropSkips, DropPage, DropDescends, DropNode, DropKeepsNode, UnmapUnusedEnds
<1>9. CASE DropEnds
  <2>1. /\ tlb' = tlb /\ current' = current /\ op.kind = "drop_subtree" /\ op.drop_used
        /\ \/ op.m = None /\ roots' = roots
           \/ op.m # None /\ roots' = [roots EXCEPT ![op.m] = None]
    BY <1>9 DEF DropEnds, AtSubtreeEnd
  <2>2. CASE op.m # None
    <3>1. ~DropsNothing(memory, op)
      BY <2>2 DEF DropsNothing
    <3>2. op.m # current
      BY <2>1, <3>1, DropFacts DEF Drops
    <3> QED BY <1>0, <2>1, <3>2 DEF Roots
  <2>3. CASE op.m = None
    BY <2>1, <2>3
  <2> QED BY <2>2, <2>3
<1>10. CASE UNCHANGED vars
  BY <1>10 DEF vars, tableVars
<1> QED BY <1>1, <1>2, <1>3, <1>4, <1>5, <1>6, <1>7, <1>8, <1>9, <1>10, NextIs

\* What the processor loads is what the tables say.
LEMMA LoadIsFresh ==
    ASSUME LoadSteps
    PROVE  Fresh(memory', roots'[current'], tlb') /\ Grants(memory', roots'[current'], tlb')
<1>1. PICK page \in CachedPages : LoadTlb(page)
  BY DEF LoadSteps
<1>2. /\ memory' = memory /\ roots' = roots /\ current' = current
      /\ LeafIn(memory, roots[current], page) # None
      /\ tlb' = [page |-> page, frame |-> LeafIn(memory, roots[current], page).frame,
                 flags |-> EffIn(memory, roots[current], page)]
  BY <1>1, LeafIs, EffIs DEF LoadTlb
<1>3. page \in Pages
  BY RightsAssumption
<1> QED BY <1>2, <1>3 DEF Fresh, Grants

\* A translation that the processor keeps is of a page that the step spares, or of a page with new flags.
LEMMA KeptTranslations ==
    ASSUME NEW N, Now(N), [Next]_vars, tlb' # None, tlb' = tlb, tlb.page \in Pages
    PROVE  \/ WalkKept(current, tlb.page)
           \/ \E page \in Pages, flags \in Rights : page = tlb.page /\ Remap(current, page, flags)
<1>0. current \in Mappings /\ roots[current] # None
  BY SoundFacts DEF Now
<1>1. CASE SparesAll
  BY <1>0, <1>1 DEF SparesAll
<1>2. CASE MapStoresLeaf /\ SparesBut(op.m, op.page)
  <2>1. tlb.page # op.page
    BY <1>2 DEF MapStoresLeaf, Flush
  <2> QED BY <1>0, <1>2, <2>1 DEF SparesBut
<1>3. ASSUME NEW m \in Mappings, NEW page \in Pages, Unmap(m, page), SparesBut(m, page)
      PROVE  WalkKept(current, tlb.page)
  <2>1. tlb.page # page
    BY <1>3 DEF Unmap, Flush
  <2> QED BY <1>0, <1>3, <2>1 DEF SparesBut
<1>4. ASSUME NEW m \in Mappings, NEW page \in Pages, NEW flags \in Rights, Remap(m, page, flags), SparesBut(m, page)
      PROVE  WalkKept(current, tlb.page) \/ (page = tlb.page /\ Remap(current, page, flags))
  BY <1>0, <1>4 DEF SparesBut
<1>5. CASE DropPage /\ SparesOthers(op.m)
  BY <1>0, <1>5, DropPageSpares DEF SparesOthers
<1> QED BY <1>1, <1>2, <1>3, <1>4, <1>5, StepSpares

\* Path::remap() keeps the frame.
LEMMA RemapKeepsFrame ==
    ASSUME NEW N, Now(N), NEW m \in Mappings, NEW page \in Pages, NEW flags \in Rights, Remap(m, page, flags)
    PROVE  /\ LeafIn(memory', roots[m], page) # None
           /\ LeafIn(memory', roots[m], page).frame = LeafIn(memory, roots[m], page).frame
           /\ LeafIn(memory', roots[m], page).flags = flags
<1> DEFINE P == PathIn(memory, roots[m], page)
           n == P[LeafLevel]
           i == page[LeafLevel]
           e == LeafIn(memory, roots[m], page)
           pte == [e EXCEPT !.flags = flags]
<1>0. roots[m] # None /\ e # None /\ Edited(memory, memory', n, i, pte)
  BY LeafIs, PathIs DEF Remap, SetEntry, Edited
<1>1. n \in N[LeafLevel] /\ n # None /\ i \in Index /\ e = memory[n][i] /\ e \in Pte
  BY <1>0, LiveLeaf DEF Now, LeafIn
<1> HIDE DEF e
<1>2. pte \in Pte /\ pte # None /\ pte.frame = e.frame /\ pte.flags = flags
  <2>1. pte \in Pte /\ pte.frame = e.frame /\ pte.flags = flags
    BY <1>1, RightsAssumption DEF Pte
  <2> QED BY <2>1, FramesFacts
<1> HIDE DEF pte
<1>3. memory \in Contents /\ n \in AllFrames /\ LeafLevel \in Levels /\ roots[m] \in AllFrames \cup {None}
  BY <1>0, <1>1, WalkFacts, LevelsFacts
<1>4. memory' \in Contents /\ memory'[n][i] = pte
      /\ \A k \in AllFrames, j \in Index : k # n \/ j # i => memory'[k][j] = memory[k][j]
  <2>1. memory \in Contents /\ n \in AllFrames /\ i \in Index /\ pte \in Pte \cup {None} /\ Edited(memory, memory', n, i, pte)
    BY <1>0, <1>1, <1>2, <1>3
  <2> HIDE DEF n, i
  <2> QED BY ONLY <2>1, EditedFacts
<1>5. ASSUME NEW l \in Levels, l > LeafLevel PROVE Below(memory', P[l], page[l]) = Below(memory, P[l], page[l])
  <2>1. CASE P[l] = None
    BY <2>1 DEF Below
  <2>2. CASE P[l] # None
    <3>1. P[l] \in AllFrames /\ page[l] \in Index /\ (P[l] = n => LeafLevel = l)
      BY <1>0, <1>1, <1>3, <2>2, WalkFacts
    <3>2. l # LeafLevel
      BY <1>5, LevelsFacts
    <3>3. memory'[P[l]][page[l]] = memory[P[l]][page[l]]
      BY <1>4, <3>1, <3>2
    <3> QED BY <3>3 DEF Below
  <2> QED BY <2>1, <2>2
<1>6. PathIn(memory', roots[m], page)[LeafLevel] = n
  <2>1. \A l \in Levels : l >= LeafLevel => PathIn(memory', roots[m], page)[l] = P[l]
    BY <1>3, <1>4, <1>5, PathKept
  <2> QED BY <2>1, LevelsFacts
<1>7. LeafIn(memory', roots[m], page) = pte
  BY <1>1, <1>4, <1>6 DEF LeafIn
<1> QED BY <1>2, <1>7 DEF e

\* The cached translation stays fresh, and without remap_block() it grants no more than the tables.
LEMMA TlbKept ==
    ASSUME NEW N, Now(N), [Next]_vars, Fresh(memory, roots[current], tlb)
    PROVE  /\ Fresh(memory', roots'[current'], tlb')
           /\ Remaps = {} /\ Grants(memory, roots[current], tlb) => Grants(memory', roots'[current'], tlb')
<1>0. current \in Mappings
  BY SoundFacts DEF Now
<1>1. CASE tlb' = None
  BY <1>1 DEF Fresh, Grants
<1>2. CASE LoadSteps
  BY <1>2, LoadIsFresh
<1>3. CASE tlb' # None /\ tlb' = tlb /\ current' = current /\ roots'[current] = roots[current]
  <2>1. tlb # None /\ tlb.page \in Pages /\ LeafIn(memory, roots[current], tlb.page) # None
        /\ LeafIn(memory, roots[current], tlb.page).frame = tlb.frame
    BY <1>3 DEF Fresh
  <2>2. CASE WalkKept(current, tlb.page)
    BY <1>3, <2>1, <2>2 DEF WalkKept, Fresh, Grants
  <2>3. ASSUME NEW page \in Pages, NEW flags \in Rights, page = tlb.page, Remap(current, page, flags)
        PROVE  Fresh(memory', roots'[current'], tlb') /\ Remaps # {}
    BY <1>0, <1>3, <2>1, <2>3, RemapKeepsFrame DEF Fresh, Remap
  <2> QED BY <1>3, <2>1, <2>2, <2>3, KeptTranslations
<1> QED BY <1>1, <1>2, <1>3, TlbSteps

\* TlbIsFresh and TlbGrantsNoMore in terms of the walk of the page.
LEMMA TlbIs ==
    /\ Fresh(memory, roots[current], tlb) => TlbIsFresh
    /\ Grants(memory, roots[current], tlb) => TlbGrantsNoMore
  BY LeafIs, EffIs DEF Fresh, Grants, TlbIsFresh, TlbGrantsNoMore

\* Path::map() and Path::unmap() flush the page before its frame is released, and neither remap_block() nor the
\* steps on other pages move it: the TLB never translates to a frame that the page has lost.
THEOREM TlbStaysFresh ==
    Spec /\ FrameZeroIsUnharmed => []TlbIsFresh
<1> DEFINE I == TablesInv /\ Fresh(memory, roots[current], tlb)
<1>1. Init => I
  BY InitTables DEF Init, Fresh
<1>2. I /\ [Next]_vars /\ [DropsFrameZero => ZeroIsZero]_vars => I'
  <2> SUFFICES ASSUME I, [Next]_vars, [DropsFrameZero => ZeroIsZero]_vars PROVE I'
    OBVIOUS
  <2>1. Now(NowLevels) /\ (DropsFrameZero => ZeroIsZero)
    BY InvIsNow, UnharmedStep
  <2>2. KeptSound
    BY <2>1, StepKeeps, KeptIsSound
  <2>4. Fresh(memory', roots'[current'], tlb')
    BY <2>1, TlbKept
  <2> QED BY <2>2, <2>4, InvIsNow
<1>3. I => TlbIsFresh
  BY TlbIs
<1> QED BY <1>1, <1>2, <1>3, PTL DEF Spec, FrameZeroIsUnharmed

\* Without remap_block(), which does not flush, the TLB never holds a right that the page tables do not grant.
THEOREM TlbStaysCurrent ==
    ASSUME Remaps = {}
    PROVE  Spec /\ FrameZeroIsUnharmed => []TlbIsCurrent
<1> DEFINE I == /\ TablesInv
                /\ Fresh(memory, roots[current], tlb) /\ Grants(memory, roots[current], tlb)
<1>1. Init => I
  BY InitTables DEF Init, Fresh, Grants
<1>2. I /\ [Next]_vars /\ [DropsFrameZero => ZeroIsZero]_vars => I'
  <2> SUFFICES ASSUME I, [Next]_vars, [DropsFrameZero => ZeroIsZero]_vars PROVE I'
    OBVIOUS
  <2>1. Now(NowLevels) /\ (DropsFrameZero => ZeroIsZero)
    BY InvIsNow, UnharmedStep
  <2>2. KeptSound
    BY <2>1, StepKeeps, KeptIsSound
  <2>4. Fresh(memory', roots'[current'], tlb') /\ Grants(memory', roots'[current'], tlb')
    BY <2>1, TlbKept
  <2> QED BY <2>2, <2>4, InvIsNow
<1>3. I => TlbIsCurrent
  BY TlbIs DEF TlbIsCurrent
<1> QED BY <1>1, <1>2, <1>3, PTL DEF Spec, FrameZeroIsUnharmed
-----------------------------------------------------------------------------
\* An entry of a copy and the entry of its original: pages of the user are left out, links go to copies.
Same(mem, C, T, l, c, j) ==
    LET e == mem[c][j]
        s == mem[T[c]][j]
    IN  IF l = LeafLevel THEN e = IF s = None \/ "USER" \in s.flags THEN None ELSE s
        ELSE IF Linked(s) THEN Linked(e) /\ e.flags = s.flags /\ e.frame \in C[l - 1] /\ T[e.frame] = s.frame
        ELSE e = s

OnStack(stk, c, l) == \E d \in 1 .. Len(stk) : LevelAt(d) = l /\ stk[d].node = c
Done(stk, c, j) == \A d \in 1 .. Len(stk) : stk[d].node = c => j < stk[d].i
Hangs(mem, C, c, l) == l < RootLevel /\ \E n \in C[l + 1], j \in Index : LinksTo(mem[n][j], c)

\* What duplicate_subtree() has done so far: C are the nodes of the copy on each level and T their originals.
Twin(mem, stk, C, T) ==
    /\ C \in [Levels -> SUBSET AllFrames] /\ T \in [AllFrames -> AllFrames]
    /\ \A l, k \in Levels : \A c \in C[l] : T[c] \notin C[k]
    /\ \A d \in 1 .. Len(stk) : stk[d].node \in C[LevelAt(d)] /\ T[stk[d].node] = stk[d].src
    /\ \A l \in Levels : \A c \in C[l] : OnStack(stk, c, l) \/ Hangs(mem, C, c, l)
    /\ \A l \in Levels : \A c \in C[l], j \in Index : Done(stk, c, j) => Same(mem, C, T, l, c, j)

TwinInv == op.kind = "duplicate" => \E C, T : Twin(memory, op.stack, C, T)

\* Entries that are there are done.
LEMMA PresentIsDone ==
    ASSUME NEW N, Now(N), op.kind = "duplicate", NEW c, NEW j \in Index, memory[c][j] # None
    PROVE  Done(op.stack, c, j)
<1>1. ASSUME NEW d \in 1 .. Len(op.stack), op.stack[d].node = c PROVE j < op.stack[d].i
  <2>1. op.stack[d].i \in 0 .. EntryCount /\ \A k \in Index : k >= op.stack[d].i => memory[op.stack[d].node][k] = None
    BY CopyFacts DEF CopyAt
  <2>2. ~(j >= op.stack[d].i)
    BY <1>1, <2>1
  <2>3. op.stack[d].i \in Nat /\ j \in Nat
    BY <2>1, IndexFacts
  <2> QED BY ONLY <2>2, <2>3
<1> QED BY <1>1 DEF Done

\* Copies and originals are nodes of the same level.
LEMMA TwinFacts ==
    ASSUME NEW N, Now(N), op.kind = "duplicate", NEW C, NEW T, Twin(memory, op.stack, C, T)
    PROVE  \A l \in Levels : \A c \in C[l] : c \in N[l] /\ T[c] \in N[l]
<1> DEFINE bad == {l \in Levels : \E c \in C[l] : ~(c \in N[l] /\ T[c] \in N[l])}
<1>0. /\ AreLevels(memory, TopsOf(roots, op), N) /\ N \in [Levels -> SUBSET AllFrames] /\ memory \in Contents
  BY SoundFacts DEF Now
<1>1. bad = {}
  <2>1. SUFFICES ASSUME bad # {} PROVE FALSE
    OBVIOUS
  <2>2. PICK l \in bad : l = RootLevel \/ (l + 1 \in Levels /\ l < RootLevel /\ l + 1 \notin bad)
    BY <2>1, Topmost
  <2>3. l \in Levels
    BY <2>2
  <2>4. PICK c \in C[l] : ~(c \in N[l] /\ T[c] \in N[l])
    BY <2>2
  <2>5. CASE OnStack(op.stack, c, l)
    <3>1. PICK d \in 1 .. Len(op.stack) : LevelAt(d) = l /\ op.stack[d].node = c
      BY <2>5 DEF OnStack
    <3>2. op.stack[d].node \in N[l] /\ op.stack[d].src \in N[l]
      BY <3>1, CopyFacts DEF CopyAt
    <3>3. T[c] = op.stack[d].src
      BY <3>1 DEF Twin
    <3> QED BY <2>4, <3>1, <3>2, <3>3
  <2>6. CASE Hangs(memory, C, c, l)
    <3>1. l < RootLevel /\ l # RootLevel
      BY <2>3, <2>6, LevelsFacts DEF Hangs
    <3>2. l + 1 \in Levels /\ l + 1 \notin bad
      BY <2>2, <3>1
    <3>3. PICK n \in C[l + 1], j \in Index : LinksTo(memory[n][j], c)
      BY <2>6 DEF Hangs
    <3>4. n \in N[l + 1] /\ T[n] \in N[l + 1] /\ n \in AllFrames /\ T[n] \in AllFrames /\ c \in AllFrames
      BY <1>0, <2>3, <3>2, <3>3 DEF Twin
    <3>5. c \in N[l]
      BY <1>0, <2>3, <3>1, <3>3, <3>4 DEF AreLevels
    <3>6. Same(memory, C, T, l + 1, n, j)
      <4>1. memory[n][j] # None
        BY <3>3 DEF LinksTo, Linked
      <4>2. Done(op.stack, n, j)
        BY <4>1, PresentIsDone
      <4> QED BY <3>2, <3>3, <4>2 DEF Twin
    <3>7. l + 1 # LeafLevel /\ l + 1 - 1 = l
      BY <2>3, LevelsFacts
    <3> DEFINE s == memory[T[n]][j]
    <3>8. memory[n][j] # None /\ memory[n][j].frame = c /\ Linked(memory[n][j])
      BY <3>3 DEF LinksTo, Linked
    <3>9. Linked(s) /\ T[c] = s.frame
      <4>1. IF Linked(s) THEN T[memory[n][j].frame] = s.frame ELSE memory[n][j] = s
        BY <3>6, <3>7 DEF Same
      <4> QED BY <3>8, <4>1
    <3>10. LinksTo(s, T[c]) /\ T[c] \in AllFrames
      BY <3>9, <3>4 DEF LinksTo, Twin
    <3>11. T[c] \in N[l]
      BY <1>0, <2>3, <3>1, <3>3, <3>4, <3>10 DEF AreLevels
    <3> QED BY <2>4, <3>5, <3>11
  <2> QED BY <2>3, <2>4, <2>5, <2>6 DEF Twin
<1> QED BY <1>1

\* The entry under which duplicate_subtree() has finished is a copy.
Next2(stk, stk2, n, i) ==
    /\ \A c : \A j \in Index : Done(stk2, c, j) => Done(stk, c, j) \/ (c = n /\ j = i)
    /\ Len(stk2) \in Nat
    /\ \A d \in 1 .. Len(stk2) : d \in 1 .. Len(stk) /\ stk2[d].node = stk[d].node /\ stk2[d].src = stk[d].src

\* A store to an entry of the copy that is still absent.
LEMMA TwinEdited ==
    ASSUME NEW N, Now(N), op.kind = "duplicate", NEW C, NEW T, Twin(memory, op.stack, C, T),
           NEW h \in Levels, NEW n \in C[h], NEW i \in Index, memory[n][i] = None, NEW pte \in Pte \cup {None},
           Edited(memory, memory', n, i, pte), NEW stk2, Next2(op.stack, stk2, n, i),
           Same(memory', C, T, h, n, i),
           \A l \in Levels : \A c \in C[l] : OnStack(op.stack, c, l) => OnStack(stk2, c, l) \/ Hangs(memory', C, c, l)
    PROVE  Twin(memory', stk2, C, T)
<1>0. memory \in Contents /\ N \in [Levels -> SUBSET AllFrames] /\ IsTree(owned, memory, N)
  BY SoundFacts DEF Now
<1>1. \A l \in Levels : \A c \in C[l] : c \in N[l] /\ T[c] \in N[l] /\ c \in AllFrames /\ T[c] \in AllFrames
  <2>1. \A l \in Levels : \A c \in C[l] : c \in N[l] /\ T[c] \in N[l]
    BY TwinFacts
  <2> QED BY <1>0, <2>1
<1>2. \A k \in AllFrames, j \in Index : k # n \/ j # i => memory'[k][j] = memory[k][j]
  <2>1. memory \in Contents /\ n \in AllFrames /\ i \in Index /\ pte \in Pte \cup {None} /\ Edited(memory, memory', n, i, pte)
    BY <1>0, <1>1
  <2> QED BY ONLY <2>1, EditedFacts
<1>3. ASSUME NEW l \in Levels, NEW c \in C[l] PROVE OnStack(stk2, c, l) \/ Hangs(memory', C, c, l)
  <2>1. CASE OnStack(op.stack, c, l)
    BY <2>1
  <2>2. CASE Hangs(memory, C, c, l)
    <3>1. PICK k \in C[l + 1], j \in Index : l < RootLevel /\ LinksTo(memory[k][j], c)
      BY <2>2 DEF Hangs
    <3>2. l + 1 \in Levels
      BY <3>1, LevelsFacts
    <3>3. memory[k][j] # None /\ k \in AllFrames
      BY <1>1, <3>1, <3>2 DEF LinksTo, Linked
    <3>4. memory'[k][j] = memory[k][j]
      BY <1>2, <3>3
    <3> QED BY <3>1, <3>4 DEF Hangs
  <2> QED BY <2>1, <2>2 DEF Twin
<1>4. ASSUME NEW l \in Levels, NEW c \in C[l], NEW j \in Index, Done(stk2, c, j) PROVE Same(memory', C, T, l, c, j)
  <2>1. CASE c = n /\ j = i
    <3>1. l = h
      BY <1>0, <1>1, <2>1 DEF IsTree
    <3> QED BY <2>1, <3>1
  <2>2. CASE ~(c = n /\ j = i)
    <3>1. Same(memory, C, T, l, c, j)
      BY <1>4, <2>2 DEF Twin, Next2
    <3>2. T[c] # n
      BY DEF Twin
    <3>3. memory'[c][j] = memory[c][j] /\ memory'[T[c]][j] = memory[T[c]][j]
      BY <1>1, <1>2, <2>2, <3>2
    <3> QED BY <3>1, <3>3 DEF Same
  <2> QED BY <2>1, <2>2
<1>5. ASSUME NEW d \in 1 .. Len(stk2) PROVE stk2[d].node \in C[LevelAt(d)] /\ T[stk2[d].node] = stk2[d].src
  BY DEF Twin, Next2
<1> QED BY <1>3, <1>4, <1>5 DEF Twin
-----------------------------------------------------------------------------
\* Going on to the next entry makes one more entry done.
LEMMA AdvancedIsNext ==
    ASSUME NEW stk \in Seq(CopyFrame), NEW stk2, Len(stk) >= 1, stk[Len(stk)].i \in Nat, AdvancedIs(stk, stk2)
    PROVE  Next2(stk, stk2, stk[Len(stk)].node, stk[Len(stk)].i)
<1> DEFINE n == Len(stk)
<1>0. n \in Nat /\ n \in 1 .. n /\ Len(stk2) = n
  BY DEF AdvancedIs
<1>1. ASSUME NEW c, NEW j \in Index, Done(stk2, c, j), ~Done(stk, c, j)
      PROVE  c = stk[n].node /\ j = stk[n].i
  <2>1. PICK d \in 1 .. n : stk[d].node = c /\ ~(j < stk[d].i)
    BY <1>1 DEF Done
  <2>2. stk2[d].node = c /\ j < stk2[d].i
    BY <1>0, <1>1, <2>1 DEF Done, AdvancedIs
  <2>3. d = n
    BY <2>1, <2>2 DEF AdvancedIs
  <2>4. stk2[n].i = stk[n].i + 1 /\ j \in Nat
    BY IndexFacts DEF AdvancedIs
  <2>5. j = stk[n].i
    <3>1. j \in Nat /\ stk[n].i \in Nat /\ j < stk[n].i + 1 /\ ~(j < stk[n].i)
      BY <2>1, <2>2, <2>3, <2>4
    <3> QED BY ONLY <3>1
  <2> QED BY <2>1, <2>3, <2>5
<1>2. ASSUME NEW d \in 1 .. Len(stk2)
      PROVE  d \in 1 .. Len(stk) /\ stk2[d].node = stk[d].node /\ stk2[d].src = stk[d].src
  BY <1>0 DEF AdvancedIs
<1> QED BY <1>0, <1>1, <1>2 DEF Next2

\* Going on to the next entry keeps the nodes on the stack.
LEMMA StackStays ==
    ASSUME NEW stk, NEW stk2, AdvancedIs(stk, stk2), NEW c, NEW l, OnStack(stk, c, l)
    PROVE  OnStack(stk2, c, l)
  BY DEF OnStack, AdvancedIs

\* The entry that duplicate_subtree() writes for one that is not a link to a node.
LEMMA CopyStepTwin ==
    ASSUME NEW N, Now(N), NEW pte \in Pte \cup {None}, CopySteps(pte), TwinInv,
           IF Level = LeafLevel THEN pte = IF SourceEntry = None \/ "USER" \in SourceEntry.flags THEN None ELSE SourceEntry
           ELSE ~Linked(SourceEntry) /\ pte = SourceEntry
    PROVE  TwinInv'
<1> DEFINE n == Len(op.stack)
<1>0. op.kind = "duplicate" /\ Edited(memory, memory', Top.node, Top.i, pte) /\ Top = op.stack[n] /\ Duplicating
  BY DEF CopySteps, Duplicating, Top
<1>1. PICK C, T : Twin(memory, op.stack, C, T)
  BY <1>0 DEF TwinInv
<1>2. /\ op' \in CopyOp /\ AdvancedIs(op.stack, op'.stack)
      /\ Level \in Levels /\ Top.i \in Index /\ memory[Top.node][Top.i] = None /\ Top.src \in AllFrames /\ Top.node \in AllFrames
  BY CopyAdvances
<1>3. op.stack \in Seq(CopyFrame) /\ n \in Nat /\ n \in 1 .. RootLevel + 1 /\ memory \in Contents
  BY <1>0, CopyFacts, SoundFacts DEF Now
<1>4. n \in 1 .. n /\ n >= 1 /\ Level = LevelAt(n)
  BY <1>3, LevelsFacts DEF Level, LevelAt, Depth
<1>5. Top.node \in C[Level] /\ T[Top.node] = Top.src
  BY <1>0, <1>1, <1>4 DEF Twin
<1>6. Top.src # Top.node
  BY <1>0, <1>4, CopiesAreApart
<1>7. /\ memory'[Top.node][Top.i] = pte /\ memory'[Top.src][Top.i] = SourceEntry
  <2>1. memory \in Contents /\ Top.node \in AllFrames /\ Top.i \in Index /\ pte \in Pte \cup {None}
        /\ Edited(memory, memory', Top.node, Top.i, pte)
    BY <1>0, <1>2, <1>3
  <2>2. DiffersAt(memory, memory', Top.node, Top.i, pte)
    BY ONLY <2>1, EditedDiffers
  <2> QED BY <1>2, <1>6, <2>2 DEF DiffersAt, SourceEntry
<1>8. Same(memory', C, T, Level, Top.node, Top.i)
  BY <1>5, <1>7 DEF Same
<1>9. Next2(op.stack, op'.stack, Top.node, Top.i)
  <2>1. op.stack[n].i \in Nat
    BY <1>0, <1>2, IndexFacts
  <2> QED BY <1>0, <1>2, <1>3, <1>4, <2>1, AdvancedIsNext
<1>10. Twin(memory', op'.stack, C, T)
  <2>1. \A l \in Levels : \A c \in C[l] : OnStack(op.stack, c, l) => OnStack(op'.stack, c, l) \/ Hangs(memory', C, c, l)
    BY <1>2, StackStays
  <2> QED BY <1>0, <1>1, <1>2, <1>5, <1>8, <1>9, <2>1, TwinEdited
<1> QED BY <1>10 DEF TwinInv

\* The root that duplicate() has allocated is an empty copy.
LEMMA DuplicateTwin ==
    ASSUME NEW N, Now(N), NEW m \in Mappings, NEW copy \in Mappings, NEW new \in Ram, Duplicate(m, copy, new)
    PROVE  TwinInv'
<1> DEFINE fr == [src |-> roots[m], node |-> new, i |-> 0]
           C == [l \in Levels |-> IF l = RootLevel THEN {new} ELSE {}]
           T == [f \in AllFrames |-> roots[m]]
<1>1. op'.stack = <<fr>> /\ roots[m] # None /\ Acquire(new)
  BY DEF Duplicate
<1>2. roots[m] \in AllFrames /\ roots[m] \in AllOf(N) /\ new \in AllFrames /\ new # roots[m]
  <2>1. roots[m] \in AllFrames /\ roots[m] \in TopsOf(roots, op)[RootLevel] /\ RootLevel \in Levels
    <3>1. roots \in Roots /\ IsOp(op)
      BY SoundFacts DEF Now
    <3> QED BY <1>1, <3>1, TopsType, LevelsFacts DEF Roots
  <2>2. roots[m] \in N[RootLevel]
    BY <2>1, SoundFacts DEF Now, AreLevels
  <2>3. new \in AllFrames /\ new \notin AllOf(N)
    BY <1>1, NewNodeFacts
  <2> QED BY <2>1, <2>2, <2>3, SoundFacts DEF Now
<1>3. Len(<<fr>>) = 1 /\ <<fr>>[1] = fr /\ LevelAt(1) = RootLevel /\ RootLevel \in Levels
  BY LevelsFacts DEF LevelAt
<1>4. C \in [Levels -> SUBSET AllFrames] /\ T \in [AllFrames -> AllFrames]
  BY <1>2
<1>5. \A l \in Levels : \A c \in C[l] : l = RootLevel /\ c = new
  OBVIOUS
<1>6. \A l, k \in Levels : \A c \in C[l] : T[c] \notin C[k]
  BY <1>2
<1>7. ASSUME NEW d \in 1 .. Len(<<fr>>) PROVE <<fr>>[d].node \in C[LevelAt(d)] /\ T[<<fr>>[d].node] = <<fr>>[d].src
  BY <1>2, <1>3
<1>8. ASSUME NEW l \in Levels, NEW c \in C[l] PROVE OnStack(<<fr>>, c, l)
  BY <1>3, <1>5 DEF OnStack
<1>9. ASSUME NEW l \in Levels, NEW c \in C[l], NEW j \in Index PROVE ~Done(<<fr>>, c, j)
  <2>1. j \in Nat /\ 1 \in 1 .. Len(<<fr>>) /\ <<fr>>[1].node = c /\ <<fr>>[1].i = 0
    BY <1>3, <1>5, IndexFacts
  <2> QED BY <2>1 DEF Done
<1> HIDE DEF C, T, fr
<1>10. Twin(memory', <<fr>>, C, T)
  BY <1>4, <1>6, <1>7, <1>8, <1>9 DEF Twin
<1> QED BY <1>1, <1>10 DEF TwinInv

\* A finished child that is linked is the copy of the child of the original.
LEMMA DuplicateReturnsTwin ==
    ASSUME NEW N, Now(N), DuplicateReturns, TwinInv
    PROVE  TwinInv'
<1> DEFINE stk == op.stack
           n == Len(op.stack)
           c == n - 1
           p == stk[c].node
           i == stk[c].i
           t == stk[n].node
           e0 == memory[stk[c].src][i]
           pte == [e0 EXCEPT !.frame = t]
           stkp == SubSeq(stk, 1, n - 1)
           stk2 == Next1(stkp)
           h == LevelAt(c)
<1>0. /\ op.kind = "duplicate" /\ n > 1 /\ Edited(memory, memory', p, i, pte) /\ stk[n].i = EntryCount
      /\ op' = [op EXCEPT !.stack = stk2]
  BY DEF DuplicateReturns, SetEntry, Edited, Popped, Depth, Top
<1>1. /\ Copies(memory, roots, op, N) /\ op \in CopyOp
      /\ stk \in Seq(CopyFrame) /\ n \in 1 .. RootLevel + 1 /\ n \in Nat
      /\ \A d \in 1 .. n : CopyAt(memory, N, stk, d)
  BY <1>0, CopyFacts
<1>2. c \in 1 .. n /\ c \in 1 .. n - 1 /\ n \in 1 .. n /\ c + 1 = n /\ c # n /\ c \in Nat /\ c >= 1 /\ c < n
  BY <1>0, <1>1, CallerBelow
<1>3. memory \in Contents
  BY SoundFacts DEF Now
<1>4. /\ p \in AllFrames /\ h \in Levels /\ i \in 0 .. EntryCount /\ i \in Nat /\ stk[c].src \in AllFrames /\ t \in AllFrames
      /\ \A j \in Index : j >= i => memory[p][j] = None
  <2>1. CopyAt(memory, N, stk, c) /\ CopyAt(memory, N, stk, n)
    BY <1>1, <1>2
  <2>2. /\ p \in AllFrames /\ h \in Levels /\ i \in 0 .. EntryCount /\ stk[c].src \in AllFrames
        /\ \A j \in Index : j >= i => memory[p][j] = None
    BY ONLY <2>1 DEF CopyAt
  <2>3. t \in AllFrames
    BY ONLY <2>1 DEF CopyAt
  <2>4. i \in Nat
    BY <2>2, IndexFacts
  <2> QED BY <2>2, <2>3, <2>4
<1>5. h = LevelAt(n) + 1 /\ h # LeafLevel /\ h - 1 = LevelAt(n) /\ LevelAt(n) \in Levels
  <2>1. n \in 1 .. RootLevel + 1 /\ c \in 1 .. n /\ c < n /\ c + 1 = n /\ n \in 1 .. n
    BY <1>1, <1>2
  <2>2. LevelAt(c) = LevelAt(c + 1) + 1 /\ LevelAt(c) # LeafLevel /\ LevelAt(n) \in Levels
    <3> HIDE DEF c, n
    <3> QED BY ONLY <2>1, LevelAtType
  <2>3. h = LevelAt(n) + 1 /\ LevelAt(n) \in Nat
    BY <2>1, <2>2, LevelsFacts
  <2>4. h - 1 = LevelAt(n)
    <3> HIDE DEF h, n
    <3> QED BY ONLY <2>3
  <2> QED BY <2>2, <2>3, <2>4
<1>6. i < EntryCount /\ LinksTo(e0, stk[n].src)
  BY <1>1, <1>2 DEF Copies
<1>7. i \in Index /\ memory[p][i] = None
  BY <1>4, <1>6, IndexFacts
<1>8. pte \in Pte \cup {None} /\ Linked(pte) /\ pte.frame = t /\ pte.flags = e0.flags
  <2>1. e0 \in Pte /\ ~e0.huge
    BY <1>3, <1>4, <1>6, <1>7, ContentsType DEF LinksTo, Linked
  <2>2. pte \in Pte /\ pte.frame = t /\ ~pte.huge /\ pte.flags = e0.flags
    BY <2>1, <1>4 DEF Pte
  <2> QED BY <2>2, FramesFacts DEF Linked
<1> HIDE DEF pte
<1>9. PICK C, T : Twin(memory, stk, C, T)
  BY <1>0 DEF TwinInv
<1>10. p \in C[h] /\ T[p] = stk[c].src /\ t \in C[LevelAt(n)] /\ T[t] = stk[n].src
  BY <1>2, <1>9 DEF Twin
<1>11. stk[c].src # p
  BY <1>0, <1>2, CopiesAreApart
<1>12. memory'[p][i] = pte /\ memory'[stk[c].src][i] = e0
  <2>1. memory \in Contents /\ p \in AllFrames /\ i \in Index /\ pte \in Pte \cup {None} /\ Edited(memory, memory', p, i, pte)
    BY <1>0, <1>3, <1>4, <1>7, <1>8
  <2>2. DiffersAt(memory, memory', p, i, pte)
    <3> HIDE DEF p, i
    <3> QED BY ONLY <2>1, EditedDiffers
  <2> QED BY <1>4, <1>7, <1>11, <2>2 DEF DiffersAt
<1>13. Same(memory', C, T, h, p, i)
  <2>1. Linked(e0) /\ e0.frame = stk[n].src
    BY <1>6 DEF LinksTo
  <2>2. Linked(pte) /\ pte.flags = e0.flags /\ pte.frame \in C[h - 1] /\ T[pte.frame] = e0.frame
    BY <1>5, <1>8, <1>10, <2>1
  <2>3. T[p] = stk[c].src
    BY <1>10
  <2> HIDE DEF e0, p, i, h
  <2> QED BY <1>5, <1>12, <2>1, <2>2, <2>3 DEF Same
<1>14. stkp \in Seq(CopyFrame) /\ Len(stkp) = c /\ \A d \in 1 .. c : stkp[d] = stk[d]
  BY <1>0, <1>1, PoppedFacts
<1> HIDE DEF stkp
<1>15. AdvancedIs(stkp, stk2)
  <2>1. Advanced(stkp, stk2)
    BY DEF Advanced, Next1
  <2>2. Len(stkp) >= 1 /\ stkp[Len(stkp)].i < EntryCount
    BY <1>2, <1>6, <1>14
  <2> QED BY <1>14, <2>1, <2>2, AdvancedFacts
<1> HIDE DEF stk2
<1>16. op'.stack = stk2
  BY <1>0, <1>1 DEF CopyOp
<1>17. Next2(stk, stk2, p, i)
  <2>1. stkp[c] = stk[c] /\ stkp[c].i \in Nat
    BY <1>2, <1>4, <1>14
  <2>2. Next2(stkp, stk2, p, i)
    BY <1>2, <1>14, <1>15, <2>1, AdvancedIsNext
  <2>3. ASSUME NEW k, NEW j \in Index, Done(stkp, k, j) PROVE Done(stk, k, j)
    <3>1. ASSUME NEW d \in 1 .. n, stk[d].node = k PROVE j < stk[d].i
      <4>1. CASE d = n
        BY <1>0, <4>1, IndexFacts
      <4>2. CASE d # n
        <5>1. d \in 1 .. c
          BY <1>2, <4>2
        <5> QED BY <1>14, <2>3, <3>1, <5>1 DEF Done
      <4> QED BY <4>1, <4>2
    <3> QED BY <3>1 DEF Done
  <2>4. \A d \in 1 .. c : d \in 1 .. n /\ stkp[d] = stk[d]
    BY <1>2, <1>14
  <2> HIDE DEF c, n
  <2> QED BY <1>14, <2>2, <2>3, <2>4 DEF Next2, n
<1>18. ASSUME NEW l \in Levels, NEW k \in C[l], OnStack(stk, k, l) PROVE OnStack(stk2, k, l) \/ Hangs(memory', C, k, l)
  <2>1. PICK d \in 1 .. n : LevelAt(d) = l /\ stk[d].node = k
    BY <1>18 DEF OnStack
  <2>2. CASE d = n
    <3>1. l = LevelAt(n) /\ k = t /\ l + 1 = h
      BY <1>5, <2>1, <2>2
    <3>2. LinksTo(memory'[p][i], t) /\ l < RootLevel
      <4>1. l + 1 \in Levels
        BY <1>4, <3>1
      <4> QED BY <1>8, <1>12, <4>1, LevelsFacts DEF LinksTo
    <3> HIDE DEF h, p, t, i
    <3> QED BY <1>7, <1>10, <3>1, <3>2 DEF Hangs
  <2>3. CASE d # n
    <3>1. d \in 1 .. c
      BY <1>2, <2>3
    <3>2. OnStack(stkp, k, l)
      BY <1>14, <2>1, <3>1 DEF OnStack
    <3> QED BY <1>15, <3>2, StackStays
  <2> QED BY <2>2, <2>3
<1>19. Twin(memory', stk2, C, T)
  <2>1. /\ Now(N) /\ op.kind = "duplicate" /\ Twin(memory, op.stack, C, T) /\ h \in Levels /\ p \in C[h] /\ i \in Index
        /\ memory[p][i] = None /\ pte \in Pte \cup {None} /\ Edited(memory, memory', p, i, pte)
        /\ Next2(op.stack, stk2, p, i) /\ Same(memory', C, T, h, p, i)
        /\ \A l \in Levels : \A k \in C[l] : OnStack(op.stack, k, l) => OnStack(stk2, k, l) \/ Hangs(memory', C, k, l)
    BY <1>0, <1>4, <1>7, <1>8, <1>9, <1>10, <1>13, <1>17, <1>18
  <2> HIDE DEF h, p, i
  <2> QED BY ONLY <2>1, TwinEdited
<1> QED BY <1>16, <1>19 DEF TwinInv
-----------------------------------------------------------------------------
\* The node for a child is an empty copy of the child.
LEMMA DuplicateDescendsTwin ==
    ASSUME NEW N, Now(N), NEW new \in Ram, DuplicateDescends(new), TwinInv
    PROVE  TwinInv'
<1> DEFINE stk == op.stack
           n == Len(op.stack)
           fr == [src |-> SourceEntry.frame, node |-> new, i |-> 0]
           stk2 == Append(stk, fr)
           h == Level - 1
           x == SourceEntry.frame
<1>0. /\ Duplicating /\ op.kind = "duplicate" /\ Acquire(new) /\ Cleared(memory, memory', new)
      /\ Level > LeafLevel /\ Linked(SourceEntry)
      /\ op' = [op EXCEPT !.stack = stk2]
  BY DEF DuplicateDescends, Duplicating, Cleared, AtInnerEntry, Linked, Pushed
<1>1. /\ op \in CopyOp /\ stk \in Seq(CopyFrame) /\ n \in 1 .. RootLevel + 1 /\ n \in Nat
  BY <1>0, CopyFacts
<1>2. /\ memory \in Contents /\ N \in [Levels -> SUBSET AllFrames] /\ AreLevels(memory, TopsOf(roots, op), N)
      /\ owned \in [AllFrames -> Nat] /\ IsOp(op) /\ IsTree(owned, memory, N) /\ Covers(owned, memory, N, roots, op)
      /\ \A y : y \in AllOf(N) <=> \E l \in Levels : y \in N[l]
  BY SoundFacts DEF Now
<1>3. new \in AllFrames /\ new \notin AllOf(N)
  BY <1>0, NewNodeFacts
<1>4. /\ Level \in Levels /\ Top.src \in N[Level] /\ Top.src \in AllOf(N) /\ Top.i \in Index
      /\ x \in AllFrames /\ Top = stk[n] /\ Level = LevelAt(n) /\ n \in 1 .. n
      /\ LinksTo(memory[Top.src][Top.i], x)
  <2>1. /\ Level \in Levels /\ Top.src \in N[Level] /\ Top.src \in AllOf(N) /\ Top.i \in Index
        /\ SourceEntry \in Pte \cup {None}
    BY <1>0, SourceFacts
  <2>2. SourceEntry # None
    BY <1>0, NoneIsNotLinked
  <2>3. x \in AllFrames
    BY <2>1, <2>2 DEF Pte
  <2>4. Top = stk[n] /\ Level = LevelAt(n)
    BY DEF Top, Level, LevelAt, Depth
  <2>5. n \in 1 .. n
    BY <1>1
  <2>6. LinksTo(memory[Top.src][Top.i], x)
    BY <1>0 DEF SourceEntry, LinksTo
  <2> QED BY <2>1, <2>3, <2>4, <2>5, <2>6
<1>5. h \in Levels /\ h < RootLevel /\ h + 1 = Level /\ h = LevelAt(n + 1)
  BY <1>0, <1>1, <1>4, LevelsFacts, LevelsAssumption DEF LevelAt, Level, Depth, LeafLevel
<1>6. x \in N[h] /\ x \in AllOf(N) /\ x # new
  BY <1>2, <1>3, <1>4, <1>5 DEF AreLevels
<1>7. fr \in CopyFrame /\ fr.src = x /\ fr.node = new /\ fr.i = 0
  BY <1>3, <1>4, IndexFacts DEF CopyFrame
<1>8. LinksTo(memory[stk[n].src][Top.i], x) /\ stk[n].src \in AllOf(N)
  BY <1>4
<1> HIDE DEF fr, x
<1>9. IsPushed(stk, fr, stk2)
  BY DEF IsPushed
<1> HIDE DEF stk2
<1>10. Len(stk2) = n + 1 /\ stk2[n + 1] = fr /\ \A d \in 1 .. n : stk2[d] = stk[d]
  BY <1>1, <1>7, <1>9, PushedFacts
<1>11. op'.stack = stk2
  BY <1>0, <1>1 DEF CopyOp
<1> HIDE DEF h
<1>12. \A d : d \in 1 .. n + 1 <=> d \in 1 .. n \/ d = n + 1
  BY <1>1
<1>13. PICK C, T : Twin(memory, stk, C, T)
  BY <1>0 DEF TwinInv
<1>14. \A l \in Levels : \A c \in C[l] : c \in N[l] /\ T[c] \in N[l] /\ c \in AllFrames /\ T[c] \in AllFrames /\ c # new /\ T[c] # new
  <2>1. \A l \in Levels : \A c \in C[l] : c \in N[l] /\ T[c] \in N[l]
    BY <1>0, <1>13, TwinFacts
  <2> QED BY <1>2, <1>3, <2>1
<1>15. ASSUME NEW k \in Levels PROVE x \notin C[k]
  <2>1. SUFFICES ASSUME x \in C[k] PROVE FALSE
    OBVIOUS
  <2>2. CASE OnStack(stk, x, k)
    <3>1. PICK d \in 1 .. n : stk[d].node = x
      BY <2>2 DEF OnStack
    <3> QED BY <1>0, <1>4, <3>1, CopiesAreApart
  <2>3. CASE Hangs(memory, C, x, k)
    <3>1. PICK q \in C[k + 1], j \in Index : k < RootLevel /\ LinksTo(memory[q][j], x)
      BY <2>3 DEF Hangs
    <3>2. k + 1 \in Levels
      BY <3>1, LevelsFacts
    <3>3. q \in AllOf(N)
      BY <1>2, <1>14, <3>1, <3>2
    <3>4. Unique(memory, N, roots, GuardsOf(op), x)
      BY <1>2, <1>6, NodesHaveOneUser
    <3>5. q = Top.src
      BY <1>4, <3>1, <3>3, <3>4 DEF Unique
    <3>6. T[Top.node] = Top.src /\ Top.node \in C[Level]
      BY <1>4, <1>13 DEF Twin
    <3> QED BY <1>4, <1>13, <3>1, <3>2, <3>5, <3>6 DEF Twin
  <2> QED BY <1>13, <2>1, <2>2, <2>3 DEF Twin
<1> DEFINE C2 == [C EXCEPT ![h] = @ \cup {new}]
           T2 == [T EXCEPT ![new] = x]
<1>16. /\ C \in [Levels -> SUBSET AllFrames] /\ T \in [AllFrames -> AllFrames]
  BY <1>13 DEF Twin
<1>17. /\ C2 \in [Levels -> SUBSET AllFrames] /\ T2 \in [AllFrames -> AllFrames]
       /\ \A l \in Levels : \A c : c \in C2[l] <=> c \in C[l] \/ (l = h /\ c = new)
       /\ T2[new] = x /\ \A c \in AllFrames : c # new => T2[c] = T[c]
  BY <1>3, <1>4, <1>5, <1>16
<1> HIDE DEF C2, T2
<1>18. memory' \in Contents /\ \A k \in AllFrames : k # new => memory'[k] = memory[k]
  BY <1>0, <1>2, <1>3, ClearedFacts
<1>19. ASSUME NEW l \in Levels, NEW k \in Levels, NEW c \in C2[l] PROVE T2[c] \notin C2[k]
  <2>1. CASE c \in C[l]
    <3>1. T2[c] = T[c] /\ T[c] \notin C[k] /\ T[c] # new
      BY <1>13, <1>14, <1>17, <2>1 DEF Twin
    <3> QED BY <1>17, <3>1
  <2>2. CASE c = new
    BY <1>6, <1>15, <1>17, <2>2
  <2> QED BY <1>17, <2>1, <2>2
<1>20. ASSUME NEW d \in 1 .. Len(stk2) PROVE stk2[d].node \in C2[LevelAt(d)] /\ T2[stk2[d].node] = stk2[d].src
  <2>1. CASE d \in 1 .. n
    <3>1. stk[d].node \in C[LevelAt(d)] /\ T[stk[d].node] = stk[d].src /\ LevelAt(d) \in Levels
      BY <1>1, <1>13, <2>1, LevelAtType DEF Twin
    <3> QED BY <1>10, <1>14, <1>17, <2>1, <3>1
  <2>2. CASE d = n + 1
    BY <1>5, <1>7, <1>10, <1>17, <2>2
  <2> QED BY <1>10, <1>12, <2>1, <2>2
<1>21. ASSUME NEW l \in Levels, NEW c \in C2[l] PROVE OnStack(stk2, c, l) \/ Hangs(memory', C2, c, l)
  <2>1. CASE c \in C[l] /\ OnStack(stk, c, l)
    BY <1>10, <1>12, <2>1 DEF OnStack
  <2>2. CASE c \in C[l] /\ Hangs(memory, C, c, l)
    <3>1. PICK q \in C[l + 1], j \in Index : l < RootLevel /\ LinksTo(memory[q][j], c)
      BY <2>2 DEF Hangs
    <3>2. l + 1 \in Levels
      BY <3>1, LevelsFacts
    <3>3. q \in C2[l + 1] /\ memory'[q] = memory[q]
      BY <1>14, <1>17, <1>18, <3>1, <3>2
    <3> QED BY <3>1, <3>3 DEF Hangs
  <2>3. CASE l = h /\ c = new
    <3>1. n + 1 \in 1 .. Len(stk2)
      BY <1>1, <1>10
    <3> QED BY <1>5, <1>7, <1>10, <2>3, <3>1 DEF OnStack
  <2> QED BY <1>13, <1>17, <2>1, <2>2, <2>3 DEF Twin
<1>22. ASSUME NEW l \in Levels, NEW c \in C2[l], NEW j \in Index, Done(stk2, c, j) PROVE Same(memory', C2, T2, l, c, j)
  <2>1. CASE c = new
    <3>1. n + 1 \in 1 .. Len(stk2) /\ stk2[n + 1].node = new /\ stk2[n + 1].i = 0 /\ j \in Nat
      BY <1>1, <1>7, <1>10, IndexFacts
    <3>2. j < 0
      BY <1>22, <2>1, <3>1 DEF Done
    <3> QED BY <3>1, <3>2
  <2>2. CASE c # new
    <3>1. c \in C[l]
      BY <1>17, <2>2
    <3>2. Done(stk, c, j)
      BY <1>10, <1>12, <1>22 DEF Done
    <3>3. Same(memory, C, T, l, c, j)
      BY <1>13, <3>1, <3>2 DEF Twin
    <3>4. memory'[c] = memory[c] /\ T2[c] = T[c] /\ memory'[T[c]] = memory[T[c]]
      BY <1>14, <1>17, <1>18, <3>1
    <3>5. CASE l = LeafLevel
      BY <3>3, <3>4, <3>5 DEF Same
    <3>6. CASE l # LeafLevel
      <4> DEFINE e == memory[c][j]
                 s == memory[T[c]][j]
      <4>1. l - 1 \in Levels
        BY <3>6, LevelsFacts
      <4>2. IF Linked(s) THEN Linked(e) /\ e.flags = s.flags /\ e.frame \in C[l - 1] /\ T[e.frame] = s.frame ELSE e = s
        BY <3>3, <3>6 DEF Same
      <4>3. e.frame \in C[l - 1] => e.frame \in C2[l - 1] /\ T2[e.frame] = T[e.frame]
        BY <1>14, <1>17, <4>1
      <4>4. e = memory'[c][j] /\ s = memory'[T2[c]][j]
        BY <3>4
      <4> HIDE DEF e, s
      <4> QED BY <3>6, <4>2, <4>3, <4>4 DEF Same
    <3> QED BY <3>5, <3>6
  <2> QED BY <2>1, <2>2
<1>23. Twin(memory', stk2, C2, T2)
  BY <1>17, <1>19, <1>20, <1>21, <1>22 DEF Twin
<1> QED BY <1>11, <1>23 DEF TwinInv
-----------------------------------------------------------------------------
\* Dropping guards is not walking down page tables.
LEMMA DroppingKind ==
    ASSUME NEW g
    PROVE  Dropping(g).kind \in {"idle", "drop"}
  BY DEF Dropping, Idle

MapBegins ==
    \E m \in Mappings, page \in Pages, flags \in Rights :
       \/ \E new \in Ram : MapPage(m, page, flags, new)
       \/ \E frame \in AllFrames : MapPageToFrame(m, page, flags, frame)
MapGoesOn == MapPageReferences \/ MapDescends \/ \E new \in Ram : MapAllocatesNode(new)
CopyBegins == \E m, copy \in Mappings, new \in Ram : Duplicate(m, copy, new)
CopyGoesOn ==
    \/ DuplicateSkips \/ DuplicateCopiesHuge \/ DuplicateSharesPage \/ DuplicateReturns
    \/ \E new \in Ram : DuplicateDescends(new)
Walking == {"map", "reference", "duplicate"}

\* How an operation that walks down page tables begins and goes on.
LEMMA OpSteps ==
    ASSUME NEW N, Now(N), [Next]_vars
    PROVE  \/ op'.kind \notin Walking
           \/ op' = op /\ memory' = memory /\ roots' = roots
           \/ MapBegins \/ MapGoesOn \/ CopyBegins \/ CopyGoesOn
<1>0. /\ IsOp(op)
      /\ op.kind = "drop_subtree" => op \in DropOp
  BY SoundFacts, KindFacts DEF Now
<1> USE DEF Walking
<1>1. CASE PageSteps
  <2>1. ASSUME NEW m \in Mappings, NEW page \in Pages, NEW flags \in Rights, NEW new \in Ram, MapPage(m, page, flags, new)
        PROVE  MapBegins
    BY <2>1 DEF MapBegins
  <2>2. ASSUME NEW m \in Mappings, NEW page \in Pages, NEW flags \in Rights, NEW frame \in AllFrames,
               MapPageToFrame(m, page, flags, frame)
        PROVE  MapBegins
    BY <2>2 DEF MapBegins
  <2>3. ASSUME NEW m, NEW page, NEW flags, Remap(m, page, flags) PROVE op'.kind \notin Walking
    BY <2>3 DEF Remap, Idle
  <2>4. ASSUME NEW m, NEW page, Unmap(m, page) PROVE op'.kind \notin Walking
    BY <2>4, DroppingKind DEF Unmap
  <2> QED BY <1>1, <2>1, <2>2, <2>3, <2>4 DEF PageSteps
<1>2. CASE MappingSteps
  <2>1. ASSUME NEW m \in Mappings, Drop(m) \/ UnmapUnusedIntermediate(m) \/ SwitchTo(m) PROVE op'.kind \notin Walking
    BY <2>1 DEF Drop, UnmapUnusedIntermediate, SwitchTo, Idle
  <2>2. ASSUME NEW m, NEW copy, DuplicateFailsAtOnce(m, copy) PROVE op'.kind \notin Walking
    BY <2>2 DEF DuplicateFailsAtOnce, DroppingFrameZero
  <2> QED BY <1>2, <2>1, <2>2 DEF MappingSteps, CopyBegins
<1>3. CASE LoadSteps \/ UNCHANGED vars
  BY <1>3 DEF LoadSteps, LoadTlb, vars, tableVars
<1>4. CASE DropGuard
  BY <1>4, DroppingKind DEF DropGuard
<1>5. CASE MapSteps
  <2>1. CASE MapFails \/ MapStoresLeaf
    BY <2>1, DroppingKind DEF MapFails, MapStoresLeaf
  <2> QED BY <1>5, <2>1 DEF MapSteps, MapGoesOn
<1>6. CASE DuplicateSteps
  <2>1. CASE DuplicateEnds \/ DuplicateFails
    BY <2>1 DEF DuplicateEnds, DuplicateFails, Idle
  <2>2. CASE DuplicateUnwinds
    <3>1. op \in HoldOp
      BY <1>0, <2>2, KindFacts DEF DuplicateUnwinds
    <3> QED BY <2>2, <3>1 DEF DuplicateUnwinds, DroppingFrameZero, HoldOp
  <2> QED BY <1>6, <2>1, <2>2 DEF DuplicateSteps, CopyGoesOn
<1>7. CASE DropSteps
  <2>1. CASE DropSkips \/ DropPage \/ DropDescends
    BY <1>0, <2>1, KindStays DEF DropSkips, DropPage, DropDescends, InSubtree
  <2>2. CASE DropNode \/ DropKeepsNode
    BY <1>0, <2>2, KindStays DEF DropNode, DropKeepsNode, AtSubtreeEnd
  <2>3. CASE DropEnds \/ UnmapUnusedEnds
    BY <2>3 DEF DropEnds, UnmapUnusedEnds, Idle
  <2> QED BY <1>7, <2>1, <2>2, <2>3 DEF DropSteps
<1> QED BY <1>1, <1>2, <1>3, <1>4, <1>5, <1>6, <1>7, NextIs

\* Every step keeps what duplicate_subtree() has copied a copy.
LEMMA TwinStays ==
    ASSUME NEW N, Now(N), [Next]_vars, TwinInv
    PROVE  TwinInv'
<1>1. CASE op'.kind \notin Walking
  BY <1>1 DEF TwinInv, Walking
<1>2. CASE op' = op /\ memory' = memory
  BY <1>2 DEF TwinInv
<1>3. CASE MapBegins
  <2>1. op'.kind \in {"map", "reference"}
    <3>1. ASSUME NEW m, NEW page, NEW flags, NEW new, MapPage(m, page, flags, new) PROVE op'.kind = "reference"
      BY <3>1 DEF MapPage, Mapping
    <3>2. ASSUME NEW m, NEW page, NEW flags, NEW frame, MapPageToFrame(m, page, flags, frame) PROVE op'.kind = "map"
      BY <3>2 DEF MapPageToFrame, Mapping
    <3> QED BY <1>3, <3>1, <3>2 DEF MapBegins
  <2> QED BY <2>1 DEF TwinInv
<1>4. CASE MapGoesOn
  <2>1. op \in MapOp
    BY <1>4, SoundFacts, KindFacts DEF MapGoesOn, MapPageReferences, MapDescends, MapAllocatesNode, MapsInnerNode, Now
  <2>2. op'.kind \in {"map", "reference"}
    BY <1>4, <2>1 DEF MapGoesOn, MapPageReferences, MapDescends, MapAllocatesNode, MapOp
  <2> QED BY <2>2 DEF TwinInv
<1>5. CASE CopyBegins
  BY <1>5, DuplicateTwin DEF CopyBegins
<1>6. CASE DuplicateSkips
  <2>1. CopySteps(None) /\ Duplicating
    BY <1>6 DEF DuplicateSkips, CopySteps, SetEntry, Edited
  <2>2. None \in Pte \cup {None}
    OBVIOUS
  <2>3. \/ SourceEntry = None
        \/ Level = LeafLevel /\ "USER" \in SourceEntry.flags
    BY <1>6 DEF DuplicateSkips
  <2>4. IF Level = LeafLevel THEN None = IF SourceEntry = None \/ "USER" \in SourceEntry.flags THEN None ELSE SourceEntry
        ELSE ~Linked(SourceEntry) /\ None = SourceEntry
    BY <2>3, NoneIsNotLinked
  <2> QED BY <2>1, <2>2, <2>4, CopyStepTwin
<1>7. CASE DuplicateCopiesHuge
  <2>1. CopySteps(SourceEntry) /\ Duplicating /\ SourceEntry # None /\ ~Linked(SourceEntry)
    BY <1>7 DEF DuplicateCopiesHuge, CopySteps, SetEntry, Edited, Linked
  <2>2. SourceEntry \in Pte \cup {None} /\ Level # LeafLevel
    BY <2>1, SourceFacts
  <2> QED BY <2>1, <2>2, CopyStepTwin
<1>8. CASE DuplicateSharesPage
  <2>1. CopySteps(SourceEntry) /\ Duplicating /\ SourceEntry # None /\ "USER" \notin SourceEntry.flags /\ Level = LeafLevel
    BY <1>8 DEF DuplicateSharesPage, CopySteps, SetEntry, Edited, IsKernelLeaf
  <2>2. SourceEntry \in Pte \cup {None}
    BY <2>1, SourceFacts
  <2> QED BY <2>1, <2>2, CopyStepTwin
<1>9. CASE DuplicateReturns
  BY <1>9, DuplicateReturnsTwin
<1>10. ASSUME NEW new \in Ram, DuplicateDescends(new) PROVE TwinInv'
  BY <1>10, DuplicateDescendsTwin
<1> QED BY <1>1, <1>2, <1>3, <1>4, <1>5, <1>6, <1>7, <1>8, <1>9, <1>10, OpSteps DEF CopyGoesOn
-----------------------------------------------------------------------------
\* duplicate_subtree() of the root has returned.
Copied == op.kind = "duplicate" /\ Len(op.stack) = 1 /\ op.stack[1].i = EntryCount

\* An entry that is the copy of another one links to a copy, or to nothing.
LEMMA SameBelow ==
    ASSUME NEW mem, NEW C, NEW T, NEW l, NEW c, NEW j, Same(mem, C, T, l, c, j), l # LeafLevel, c # None, T[c] # None,
           C[l - 1] \subseteq AllFrames, mem[T[c]][j] # None => mem[T[c]][j].frame \in AllFrames
    PROVE  LET p == Below(mem, c, j)
               s == Below(mem, T[c], j)
           IN  IF s = None THEN p = None ELSE p \in C[l - 1] /\ T[p] = s
<1> DEFINE e == mem[c][j]
           o == mem[T[c]][j]
<1>1. IF Linked(o) THEN Linked(e) /\ e.frame \in C[l - 1] /\ T[e.frame] = o.frame ELSE e = o
  BY DEF Same
<1>2. /\ Below(mem, c, j) = IF Linked(e) THEN e.frame ELSE None
      /\ Below(mem, T[c], j) = IF Linked(o) THEN o.frame ELSE None
  BY DEF Below
<1>3. Linked(o) => o.frame # None
  BY FramesFacts DEF Linked
<1> HIDE DEF e, o
<1> QED BY <1>1, <1>2, <1>3

\* The walk over the copy is the copy of the walk over the original.
LEMMA CopiedWalk ==
    ASSUME NEW N, Now(N), Copied, NEW C, NEW T, Twin(memory, op.stack, C, T), NEW page \in Pages
    PROVE  LET P == PathIn(memory, op.stack[1].node, page)
               S == PathIn(memory, roots[op.m], page)
           IN  \A l \in Levels : IF S[l] = None THEN P[l] = None
                                 ELSE P[l] \in C[l] /\ T[P[l]] = S[l]
<1> DEFINE P == PathIn(memory, op.stack[1].node, page)
           S == PathIn(memory, roots[op.m], page)
           Ok(l) == IF S[l] = None THEN P[l] = None ELSE P[l] \in C[l] /\ T[P[l]] = S[l]
           bad == {l \in Levels : ~Ok(l)}
<1>0. /\ memory \in Contents /\ op.m \in Mappings /\ roots[op.m] # None /\ op.stack[1].src = roots[op.m]
      /\ op.stack[1].node \in AllFrames /\ 1 \in 1 .. Len(op.stack) /\ roots[op.m] \in AllFrames
  <2>1. op \in CopyOp /\ roots[op.m] # None /\ op.stack[1].src = roots[op.m] /\ 1 \in 1 .. Len(op.stack)
    <3>1. Copies(memory, roots, op, N) /\ op \in CopyOp /\ Len(op.stack) = 1
      BY CopyFacts DEF Copied
    <3>2. 1 \in 1 .. Len(op.stack)
      BY <3>1
    <3> QED BY <3>1, <3>2 DEF Copies
  <2>2. op.stack[1] \in CopyFrame
    BY <2>1 DEF CopyOp
  <2> QED BY <2>1, <2>2, SoundFacts DEF Now, CopyOp, CopyFrame, Roots
<1>1. /\ IsPath(memory, op.stack[1].node, page, P) /\ IsPath(memory, roots[op.m], page, S)
  BY <1>0, PathExists
<1> HIDE DEF P, S
<1>2. /\ C \in [Levels -> SUBSET AllFrames] /\ T \in [AllFrames -> AllFrames]
      /\ op.stack[1].node \in C[RootLevel] /\ T[op.stack[1].node] = op.stack[1].src
  <2>1. LevelAt(1) = RootLevel
    BY LevelsFacts DEF LevelAt
  <2> QED BY <1>0, <2>1 DEF Twin
<1>3. ASSUME NEW l \in Levels, NEW c \in C[l], NEW j \in Index PROVE Same(memory, C, T, l, c, j)
  <2>1. Done(op.stack, c, j)
    BY IndexFacts DEF Done, Copied
  <2> QED BY <2>1 DEF Twin
<1>4. bad = {}
  <2>1. SUFFICES ASSUME bad # {} PROVE FALSE
    OBVIOUS
  <2>2. PICK l \in bad : l = RootLevel \/ (l + 1 \in Levels /\ l < RootLevel /\ l + 1 \notin bad)
    BY <2>1, Topmost
  <2>3. l \in Levels /\ ~Ok(l)
    BY <2>2
  <2>4. CASE l = RootLevel
    BY <1>0, <1>1, <1>2, <2>3, <2>4 DEF IsPath
  <2>5. CASE l # RootLevel
    <3>1. l + 1 \in Levels /\ l < RootLevel /\ Ok(l + 1) /\ l + 1 # LeafLevel /\ l + 1 - 1 = l
      BY <2>2, <2>3, <2>5, LevelsFacts
    <3>2. P[l] = Below(memory, P[l + 1], page[l + 1]) /\ S[l] = Below(memory, S[l + 1], page[l + 1])
      BY <1>1, <2>3, <3>1 DEF IsPath
    <3>3. CASE S[l + 1] = None
      BY <2>3, <3>1, <3>2, <3>3 DEF Below
    <3>4. CASE S[l + 1] # None
      <4>1. P[l + 1] \in C[l + 1] /\ T[P[l + 1]] = S[l + 1] /\ page[l + 1] \in Index
        BY <3>1, <3>4, PageType
      <4>2. P[l + 1] \in AllFrames /\ S[l + 1] \in AllFrames /\ P[l + 1] # None
        BY <1>2, <3>1, <4>1, FramesFacts
      <4>3. Same(memory, C, T, l + 1, P[l + 1], page[l + 1])
        BY <1>3, <3>1, <4>1
      <4>4. memory[S[l + 1]][page[l + 1]] # None => memory[S[l + 1]][page[l + 1]].frame \in AllFrames
        BY <1>0, <4>1, <4>2, ContentsType
      <4>5. C[l] \subseteq AllFrames
        BY <1>2, <2>3
      <4> DEFINE h == l + 1
                 c == P[h]
      <4>6. h - 1 = l /\ h = l + 1
        BY <2>3, LevelsFacts
      <4> HIDE DEF h
      <4>7. Same(memory, C, T, h, c, page[h]) /\ h # LeafLevel /\ c # None /\ T[c] # None
        BY <3>1, <3>4, <4>1, <4>2, <4>3, <4>6
      <4>8. C[h - 1] \subseteq AllFrames /\ (memory[T[c]][page[h]] # None => memory[T[c]][page[h]].frame \in AllFrames)
        BY <4>1, <4>4, <4>5, <4>6
      <4>9. IF Below(memory, T[c], page[h]) = None THEN Below(memory, c, page[h]) = None
            ELSE Below(memory, c, page[h]) \in C[h - 1] /\ T[Below(memory, c, page[h])] = Below(memory, T[c], page[h])
        <5> HIDE DEF c
        <5> QED BY <4>7, <4>8, SameBelow
      <4>10. P[l] = Below(memory, c, page[h]) /\ S[l] = Below(memory, T[c], page[h])
        BY <3>2, <4>1, <4>6
      <4>11. IF S[l] = None THEN P[l] = None ELSE P[l] \in C[l] /\ T[P[l]] = S[l]
        <5> HIDE DEF c
        <5> QED BY ONLY <4>6, <4>9, <4>10
      <4> QED BY ONLY <2>3, <4>11
    <3> QED BY <3>3, <3>4
  <2> QED BY <2>4, <2>5
<1> QED BY <1>4 DEF P, S

\* The copy of a page is the page itself if it is of the kernel, with at least the same rights; user pages have none.
LEMMA CopiedLeaf ==
    ASSUME NEW N, Now(N), Copied, TwinInv, NEW page \in Pages
    PROVE  LET e == LeafIn(memory, op.stack[1].node, page)
               s == LeafIn(memory, roots[op.m], page)
           IN  /\ e = IF s = None \/ "USER" \in s.flags THEN None ELSE s
               /\ e # None => EffIn(memory, roots[op.m], page) \subseteq EffIn(memory, op.stack[1].node, page)
<1> DEFINE P == PathIn(memory, op.stack[1].node, page)
           S == PathIn(memory, roots[op.m], page)
<1>0. PICK C, T : Twin(memory, op.stack, C, T)
  BY DEF TwinInv, Copied
<1>1. \A l \in Levels : IF S[l] = None THEN P[l] = None ELSE P[l] \in C[l] /\ T[P[l]] = S[l]
  BY <1>0, CopiedWalk
<1>2. C \in [Levels -> SUBSET AllFrames] /\ T \in [AllFrames -> AllFrames]
  BY <1>0 DEF Twin
<1>3. ASSUME NEW l \in Levels, NEW c \in C[l], NEW j \in Index PROVE Same(memory, C, T, l, c, j)
  <2>1. Done(op.stack, c, j)
    BY IndexFacts DEF Done, Copied
  <2> QED BY <1>0, <2>1 DEF Twin
<1> DEFINE e(l) == memory[P[l]][page[l]]
           s(l) == memory[S[l]][page[l]]
<1>4. ASSUME NEW l \in Levels, S[l] # None
      PROVE  /\ P[l] # None
             /\ l = LeafLevel => e(l) = IF s(l) = None \/ "USER" \in s(l).flags THEN None ELSE s(l)
             /\ l # LeafLevel /\ s(l) # None => e(l) # None /\ e(l).flags = s(l).flags
  <2> HIDE DEF P, S
  <2>1. P[l] \in C[l] /\ T[P[l]] = S[l] /\ page[l] \in Index
    BY <1>1, <1>4, PageType
  <2>2. Same(memory, C, T, l, P[l], page[l])
    BY <1>3, <2>1
  <2>3. P[l] # None
    BY <1>2, <2>1, FramesFacts
  <2> QED BY <2>1, <2>2, <2>3 DEF Same, Linked
<1>5. /\ LeafIn(memory, op.stack[1].node, page) = IF P[LeafLevel] = None THEN None ELSE e(LeafLevel)
      /\ LeafIn(memory, roots[op.m], page) = IF S[LeafLevel] = None THEN None ELSE s(LeafLevel)
  BY DEF LeafIn
<1>6. /\ EffIn(memory, op.stack[1].node, page) = {g \in Flags : \A l \in Levels : P[l] # None /\ e(l) # None /\ g \in e(l).flags}
      /\ EffIn(memory, roots[op.m], page) = {g \in Flags : \A l \in Levels : S[l] # None /\ s(l) # None /\ g \in s(l).flags}
  <2>1. ASSUME NEW l \in Levels, NEW g
        PROVE  /\ EntryOn(memory, op.stack[1].node, page, l) # None /\ g \in EntryOn(memory, op.stack[1].node, page, l).flags
                  <=> P[l] # None /\ e(l) # None /\ g \in e(l).flags
               /\ EntryOn(memory, roots[op.m], page, l) # None /\ g \in EntryOn(memory, roots[op.m], page, l).flags
                  <=> S[l] # None /\ s(l) # None /\ g \in s(l).flags
    BY DEF EntryOn
  <2> QED BY <2>1 DEF EffIn
<1> HIDE DEF P, S, e, s
<1>7. LeafLevel \in Levels
  BY LevelsFacts
<1> QED BY <1>1, <1>4, <1>5, <1>6, <1>7
-----------------------------------------------------------------------------
\* The step stores pte into the entry of a page on level h, and into no other entry of the tables.
StoresOn(N, m, page, h, pte) ==
    LET n == PathIn(memory, roots[m], page)[h]
    IN  /\ n # None /\ memory' \in Contents /\ memory'[n][page[h]] = pte
        /\ \A k \in AllOf(N), j \in Index : k # n \/ j # page[h] => memory'[k][j] = memory[k][j]

\* A store on level h leaves the walk above it as it is.
LEMMA EntryStored ==
    ASSUME NEW N, Now(N), NEW m \in Mappings, roots[m] # None, NEW page \in Pages, NEW h \in Levels, NEW pte,
           StoresOn(N, m, page, h, pte)
    PROVE  /\ EntryOn(memory', roots[m], page, h) = pte
           /\ \A l \in Levels : l > h => EntryOn(memory', roots[m], page, l) = EntryOn(memory, roots[m], page, l)
<1> DEFINE P == PathIn(memory, roots[m], page)
           Q == PathIn(memory', roots[m], page)
<1>0. /\ P[h] # None /\ memory' \in Contents /\ memory'[P[h]][page[h]] = pte
      /\ \A k \in AllOf(N), j \in Index : k # P[h] \/ j # page[h] => memory'[k][j] = memory[k][j]
  BY DEF StoresOn
<1>1. memory \in Contents /\ roots[m] \in AllFrames \cup {None}
  BY WalkFacts
<1>2. ASSUME NEW l \in Levels, l > h, P[l] # None PROVE memory'[P[l]][page[l]] = memory[P[l]][page[l]]
  <2>1. P[l] \in AllOf(N) /\ page[l] \in Index /\ (P[l] \in N[h] => h = l) /\ P[h] \in N[h]
    BY <1>0, <1>2, WalkFacts
  <2>2. l # h
    <3>1. l \in Nat /\ h \in Nat /\ l > h
      BY <1>2, LevelsFacts
    <3> QED BY ONLY <3>1
  <2> HIDE DEF P
  <2> QED BY <1>0, <2>1, <2>2
<1>3. ASSUME NEW l \in Levels, l > h PROVE Below(memory', P[l], page[l]) = Below(memory, P[l], page[l])
  <2> HIDE DEF P
  <2> QED BY <1>2, <1>3 DEF Below
<1>4. \A l \in Levels : l >= h => Q[l] = P[l]
  BY <1>0, <1>1, <1>3, PathKept
<1>5. Q[h] = P[h]
  BY <1>4, LevelsFacts
<1>6. ASSUME NEW l \in Levels, l > h PROVE Q[l] = P[l]
  BY <1>4, <1>6, LevelsFacts
<1>7. EntryOn(memory', roots[m], page, h) = pte
  <2>1. EntryOn(memory', roots[m], page, h) = IF Q[h] = None THEN None ELSE memory'[Q[h]][page[h]]
    BY DEF EntryOn
  <2> HIDE DEF P, Q
  <2> QED BY <1>0, <1>5, <2>1
<1>8. ASSUME NEW l \in Levels, l > h PROVE EntryOn(memory', roots[m], page, l) = EntryOn(memory, roots[m], page, l)
  <2>1. /\ EntryOn(memory', roots[m], page, l) = IF Q[l] = None THEN None ELSE memory'[Q[l]][page[l]]
        /\ EntryOn(memory, roots[m], page, l) = IF P[l] = None THEN None ELSE memory[P[l]][page[l]]
    BY DEF EntryOn
  <2>2. Q[l] = P[l] /\ (P[l] # None => memory'[P[l]][page[l]] = memory[P[l]][page[l]])
    BY <1>2, <1>6, <1>8
  <2> HIDE DEF P, Q
  <2> QED BY <2>1, <2>2
<1> QED BY <1>7, <1>8

\* A store to one entry is a store on a level.
LEMMA EditStores ==
    ASSUME NEW N, Now(N), NEW m \in Mappings, roots[m] # None, NEW page \in Pages, NEW h \in Levels,
           NEW pte \in Pte \cup {None}, NEW n, n = PathIn(memory, roots[m], page)[h], n # None,
           Edited(memory, memory', n, page[h], pte)
    PROVE  StoresOn(N, m, page, h, pte)
<1>1. memory \in Contents /\ n \in AllFrames /\ page[h] \in Index /\ \A k \in AllOf(N) : k \in AllFrames
  <2>1. \A k \in AllOf(N) : k \in AllFrames
    BY SoundFacts DEF Now
  <2> QED BY <2>1, WalkFacts
<1>2. /\ memory' \in Contents /\ memory'[n][page[h]] = pte
      /\ \A k \in AllFrames, j \in Index : k # n \/ j # page[h] => memory'[k][j] = memory[k][j]
  BY <1>1, EditedFacts
<1> QED BY <1>1, <1>2 DEF StoresOn

\* A new leaf entry is all that changes on the walk.
NewLeaf(m, page, pte) ==
    /\ LeafIn(memory', roots[m], page) = pte
    /\ \A l \in Levels : l # LeafLevel => EntryOn(memory', roots[m], page, l) = EntryOn(memory, roots[m], page, l)

\* A store to the leaf entry of a page leaves the walk above it.
LEMMA LeafStored ==
    ASSUME NEW N, Now(N), NEW m \in Mappings, roots[m] # None, NEW page \in Pages,
           NEW pte \in Pte \cup {None}, NEW n, n = PathIn(memory, roots[m], page)[LeafLevel], n # None,
           Edited(memory, memory', n, page[LeafLevel], pte)
    PROVE  NewLeaf(m, page, pte)
<1>1. LeafLevel \in Levels /\ StoresOn(N, m, page, LeafLevel, pte)
  BY LevelsFacts, EditStores
<1>2. /\ EntryOn(memory', roots[m], page, LeafLevel) = pte
      /\ \A l \in Levels : l > LeafLevel => EntryOn(memory', roots[m], page, l) = EntryOn(memory, roots[m], page, l)
  BY <1>1, EntryStored
<1>3. EntryOn(memory', roots[m], page, LeafLevel) = LeafIn(memory', roots[m], page)
  BY DEF EntryOn, LeafIn
<1>4. \A l \in Levels : l # LeafLevel => l > LeafLevel
  BY LevelsFacts
<1> QED BY <1>2, <1>3, <1>4 DEF NewLeaf
-----------------------------------------------------------------------------
\* What Path::map() stores is the leaf entry of its page.
LEMMA MapStoresNewLeaf ==
    ASSUME NEW N, Now(N), MapStoresLeaf
    PROVE  /\ NewLeaf(op.m, op.page, [frame |-> op.frame, flags |-> op.flags, huge |-> FALSE])
           /\ op.kind = "map" /\ op.level = LeafLevel /\ op.m \in Mappings /\ op.page \in Pages /\ op.flags \in SUBSET Flags
<1> DEFINE pte == [frame |-> op.frame, flags |-> op.flags, huge |-> FALSE]
<1>0. /\ op.kind = "map" /\ op.level = LeafLevel
      /\ Edited(memory, memory', op.node, op.page[LeafLevel], pte)
  BY DEF MapStoresLeaf, SetEntry, Edited
<1>1. /\ op.m \in Mappings /\ op.page \in Pages /\ roots[op.m] # None /\ op.node \in AllFrames
      /\ op.node = PathIn(memory, roots[op.m], op.page)[LeafLevel]
      /\ op.frame \in AllFrames /\ op.flags \in SUBSET Flags
  BY <1>0, MapsFacts
<1>2. pte \in Pte \cup {None}
  BY <1>1 DEF Pte
<1> HIDE DEF pte
<1>3. NewLeaf(op.m, op.page, pte)
  BY <1>0, <1>1, <1>2, FramesFacts, LeafStored
<1> QED BY <1>0, <1>1, <1>3 DEF pte

\* Path::unmap() takes away the leaf entry of its page.
LEMMA UnmapStoresNone ==
    ASSUME NEW N, Now(N), NEW m \in Mappings, NEW page \in Pages, Unmap(m, page)
    PROVE  NewLeaf(m, page, None)
<1> DEFINE n == PathIn(memory, roots[m], page)[LeafLevel]
<1>0. roots[m] # None /\ LeafIn(memory, roots[m], page) # None /\ Edited(memory, memory', n, page[LeafLevel], None)
  BY LeafIs, PathIs DEF Unmap, SetEntry, Edited
<1>1. n # None
  BY <1>0 DEF LeafIn
<1>2. None \in Pte \cup {None}
  OBVIOUS
<1> QED BY <1>0, <1>1, <1>2, LeafStored

\* remap_block() stores the flags into the leaf entry.
LEMMA RemapStoresFlags ==
    ASSUME NEW N, Now(N), NEW m \in Mappings, NEW page \in Pages, NEW flags \in Rights, Remap(m, page, flags)
    PROVE  /\ NewLeaf(m, page, [LeafIn(memory, roots[m], page) EXCEPT !.flags = flags])
           /\ LeafIn(memory, roots[m], page) \in Pte /\ LeafIn(memory, roots[m], page) # None
<1> DEFINE n == PathIn(memory, roots[m], page)[LeafLevel]
           e == LeafIn(memory, roots[m], page)
           pte == [e EXCEPT !.flags = flags]
<1>0. roots[m] # None /\ e # None /\ Edited(memory, memory', n, page[LeafLevel], pte)
  BY LeafIs, PathIs DEF Remap, SetEntry, Edited
<1>1. n # None
  BY <1>0 DEF LeafIn
<1>2. e \in Pte
  BY <1>0, LiveLeaf DEF Now
<1> HIDE DEF e, n
<1>3. pte \in Pte \cup {None}
  BY <1>2, RightsAssumption DEF Pte
<1> HIDE DEF pte
<1>4. NewLeaf(m, page, pte)
  BY <1>0, <1>1, <1>3, LeafStored DEF n
<1> QED BY <1>0, <1>2, <1>4 DEF e, pte

\* drop_subtree() takes a page out of the mapping, or leaves it as it is.
LEMMA DropPageLeaves ==
    ASSUME NEW N, Now(N), DropPage, NEW m \in Mappings, roots[m] # None, NEW page \in Pages
    PROVE  WalkKept(m, page) \/ LeafIn(memory', roots[m], page) = None
<1> DEFINE t == Top.node
           i == Top.i
           P == PathIn(memory, roots[m], page)
<1>0. /\ InSubtree /\ op.kind = "drop_subtree" /\ NodeEntry # None /\ Level = LeafLevel
      /\ Edited(memory, memory', t, i, None)
  BY DEF DropPage, InSubtree, AtLeaf, SetEntry, Edited
<1>1. ~DropsNothing(memory, op)
  BY <1>0, NothingIsEmpty DEF InSubtree
<1>2. /\ i \in Index /\ t \in N[LeafLevel] /\ t \in AllFrames
  BY <1>0, <1>1, InSubtreeFacts
<1>3. LeafLevel \in Levels /\ None \in Pte \cup {None}
  BY LevelsFacts
<1>4. CASE P[LeafLevel] = t /\ page[LeafLevel] = i
  <2>1. t # None
    BY <1>2, FramesFacts
  <2>2. NewLeaf(m, page, None)
    BY <1>0, <1>3, <1>4, <2>1, LeafStored
  <2> QED BY <2>2 DEF NewLeaf
<1>5. CASE ~(P[LeafLevel] = t /\ page[LeafLevel] = i)
  BY <1>0, <1>2, <1>3, <1>5, EditOffWalk
<1> QED BY <1>4, <1>5
-----------------------------------------------------------------------------
\* A mapping is made by duplicate() only, when it has copied everything.
LEMMA RootsSteps ==
    ASSUME NEW N, Now(N), [Next]_vars, NEW m \in Mappings, roots'[m] # None
    PROVE  \/ roots'[m] = roots[m]
           \/ DuplicateEnds /\ Copied /\ m = op.copy /\ roots'[m] = op.stack[1].node /\ memory' = memory
<1>0. roots \in Roots
  BY SoundFacts DEF Now
<1>1. CASE DuplicateEnds
  <2>1. /\ op.kind = "duplicate" /\ Top.i = EntryCount /\ Depth = 1 /\ memory' = memory
        /\ roots' = [roots EXCEPT ![op.copy] = Top.node]
    BY <1>1 DEF DuplicateEnds
  <2>2. Copied /\ Top = op.stack[1]
    BY <2>1 DEF Copied, Top, Depth
  <2> QED BY <1>0, <1>1, <2>1, <2>2 DEF Roots
<1>2. CASE DropEnds
  <2>1. \/ roots' = roots
        \/ roots' = [roots EXCEPT ![op.m] = None]
    BY <1>2 DEF DropEnds
  <2> QED BY <1>0, <2>1 DEF Roots
<1>3. CASE PageSteps
  BY <1>3, ZenonT(30) DEF PageSteps, MapPage, MapPageToFrame, Remap, Unmap
<1>4. CASE MappingSteps \/ LoadSteps \/ DropGuard
  BY <1>4 DEF MappingSteps, Duplicate, DuplicateFailsAtOnce, Drop, UnmapUnusedIntermediate, SwitchTo,
               LoadSteps, LoadTlb, DropGuard
<1>5. CASE MapSteps
  BY <1>5 DEF MapSteps, MapPageReferences, MapDescends, MapFails, MapStoresLeaf, MapAllocatesNode
<1>6. CASE DuplicateSteps /\ ~DuplicateEnds
  BY <1>6 DEF DuplicateSteps, DuplicateSkips, DuplicateCopiesHuge, DuplicateSharesPage, DuplicateDescends,
              DuplicateReturns, DuplicateFails, DuplicateUnwinds
<1>7. CASE DropSteps /\ ~DropEnds
  BY <1>7 DEF DropSteps, DropSkips, DropPage, DropDescends, DropNode, DropKeepsNode, UnmapUnusedEnds
<1>8. CASE UNCHANGED vars
  BY <1>8 DEF vars, tableVars
<1> QED BY <1>1, <1>2, <1>3, <1>4, <1>5, <1>6, <1>7, <1>8, NextIs

\* Where the leaf entry of a page of a live mapping comes from.
LEMMA LeafSteps ==
    ASSUME NEW N, Now(N), [Next]_vars, NEW m \in Mappings, roots'[m] # None, NEW page \in Pages
    PROVE  \/ roots'[m] = roots[m] /\ WalkKept(m, page)
           \/ LeafIn(memory', roots'[m], page) = None
           \/ MapStoresLeaf /\ roots'[m] = roots[m] /\ m = op.m /\ page = op.page
           \/ roots'[m] = roots[m] /\ \E flags \in Rights : Remap(m, page, flags)
           \/ DuplicateEnds /\ Copied /\ m = op.copy /\ roots'[m] = op.stack[1].node /\ memory' = memory
<1>1. CASE roots'[m] = roots[m]
  <2>1. roots[m] # None
    BY <1>1
  <2>2. CASE SparesAll
    BY <1>1, <2>1, <2>2 DEF SparesAll
  <2>3. CASE MapStoresLeaf /\ SparesBut(op.m, op.page)
    BY <1>1, <2>1, <2>3 DEF SparesBut
  <2>4. ASSUME NEW m0 \in Mappings, NEW page0 \in Pages, Unmap(m0, page0), SparesBut(m0, page0)
        PROVE  WalkKept(m, page) \/ LeafIn(memory', roots[m], page) = None
    BY <2>1, <2>4, UnmapStoresNone DEF SparesBut, NewLeaf
  <2>5. ASSUME NEW m0 \in Mappings, NEW page0 \in Pages, NEW flags \in Rights, Remap(m0, page0, flags), SparesBut(m0, page0)
        PROVE  WalkKept(m, page) \/ Remap(m, page, flags)
    BY <2>1, <2>5 DEF SparesBut
  <2>6. CASE DropPage
    BY <1>1, <2>1, <2>6, DropPageLeaves
  <2> QED BY <1>1, <2>2, <2>3, <2>4, <2>5, <2>6, StepSpares
<1> QED BY <1>1, RootsSteps
-----------------------------------------------------------------------------
\* Every page of a live mapping has the flags that range::validate_page_flags() accepts for it.
FlagsAreValid ==
    \A m \in LiveMappings, page \in Pages : Leaf(m, page) # None => ValidFlags(page, Leaf(m, page).flags)

\* The same of a walk, and of the operation that maps a page.
ValidLeaf(mem, root, page) == LeafIn(mem, root, page) # None => ValidFlags(page, LeafIn(mem, root, page).flags)
ValidLeaves == \A m \in Mappings, page \in Pages : roots[m] # None => ValidLeaf(memory, roots[m], page)
MapsValid == op.kind \in {"map", "reference"} => ValidFlags(op.page, op.flags)

\* FlagsAreValid in terms of the walks.
LEMMA FlagsAre == FlagsAreValid <=> ValidLeaves
  BY LeafIs DEF FlagsAreValid, ValidLeaves, ValidLeaf, LiveMappings

\* duplicate() goes on as duplicate().
LEMMA CopyGoesOnKind ==
    ASSUME NEW N, Now(N), CopyGoesOn
    PROVE  op'.kind = "duplicate"
<1>1. op \in CopyOp /\ op.kind = "duplicate"
  BY SoundFacts, KindFacts DEF CopyGoesOn, DuplicateSkips, DuplicateCopiesHuge, DuplicateSharesPage, DuplicateReturns,
     DuplicateDescends, Duplicating, Now
<1> QED BY <1>1 DEF CopyGoesOn, DuplicateSkips, DuplicateCopiesHuge, DuplicateSharesPage, DuplicateReturns,
     DuplicateDescends, CopyOp

\* Path::map() stores the flags that were validated.
LEMMA MapsStayValid ==
    ASSUME NEW N, Now(N), [Next]_vars, MapsValid
    PROVE  MapsValid'
<1>1. CASE op'.kind \notin Walking
  BY <1>1 DEF MapsValid, Walking
<1>2. CASE op' = op
  BY <1>2 DEF MapsValid
<1>3. CASE MapBegins
  <2>1. ASSUME NEW m, NEW page, NEW flags, NEW new, MapPage(m, page, flags, new) PROVE ValidFlags(op'.page, op'.flags)
    BY <2>1 DEF MapPage, Mapping
  <2>2. ASSUME NEW m, NEW page, NEW flags, NEW frame, MapPageToFrame(m, page, flags, frame)
        PROVE  ValidFlags(op'.page, op'.flags)
    BY <2>2 DEF MapPageToFrame, Mapping
  <2>3. ValidFlags(op'.page, op'.flags)
    BY <1>3, <2>1, <2>2 DEF MapBegins
  <2> QED BY <2>3 DEF MapsValid
<1>4. CASE MapGoesOn
  <2>1. op \in MapOp /\ op.kind \in {"map", "reference"}
    BY <1>4, SoundFacts, KindFacts DEF MapGoesOn, MapPageReferences, MapDescends, MapAllocatesNode, MapsInnerNode, Now
  <2>2. op'.page = op.page /\ op'.flags = op.flags
    BY <1>4, <2>1 DEF MapGoesOn, MapPageReferences, MapDescends, MapAllocatesNode, MapOp
  <2> QED BY <2>1, <2>2 DEF MapsValid
<1>5. CASE CopyBegins
  <2>1. op'.kind = "duplicate"
    BY <1>5 DEF CopyBegins, Duplicate
  <2> QED BY <2>1 DEF MapsValid
<1>6. CASE CopyGoesOn
  <2>1. op'.kind = "duplicate"
    BY <1>6, CopyGoesOnKind
  <2> QED BY <2>1 DEF MapsValid
<1> QED BY <1>1, <1>2, <1>3, <1>4, <1>5, <1>6, OpSteps

\* The flags that duplicate() copies, that map() and remap_block() store and that other steps leave are valid.
LEMMA LeavesStayValid ==
    ASSUME NEW N, Now(N), [Next]_vars, TwinInv, MapsValid, ValidLeaves
    PROVE  ValidLeaves'
<1>1. ASSUME NEW m \in Mappings, NEW page \in Pages, roots'[m] # None PROVE ValidLeaf(memory', roots'[m], page)
  <2>1. CASE roots'[m] = roots[m] /\ WalkKept(m, page)
    BY <1>1, <2>1 DEF ValidLeaves, ValidLeaf, WalkKept
  <2>2. CASE LeafIn(memory', roots'[m], page) = None
    BY <2>2 DEF ValidLeaf
  <2>3. CASE MapStoresLeaf /\ roots'[m] = roots[m] /\ m = op.m /\ page = op.page
    <3>1. LeafIn(memory', roots[m], page) = [frame |-> op.frame, flags |-> op.flags, huge |-> FALSE] /\ op.kind = "map"
      BY <2>3, MapStoresNewLeaf DEF NewLeaf
    <3>2. LeafIn(memory', roots[m], page).flags = op.flags /\ ValidFlags(page, op.flags)
      BY <2>3, <3>1 DEF MapsValid
    <3> QED BY <2>3, <3>2 DEF ValidLeaf
  <2>4. ASSUME roots'[m] = roots[m], NEW flags \in Rights, Remap(m, page, flags) PROVE ValidLeaf(memory', roots'[m], page)
    <3>1. LeafIn(memory', roots[m], page).flags = flags
      BY <2>4, RemapKeepsFrame
    <3>2. ValidFlags(page, flags)
      BY <2>4 DEF Remap
    <3> QED BY <2>4, <3>1, <3>2 DEF ValidLeaf
  <2>5. CASE Copied /\ roots'[m] = op.stack[1].node /\ memory' = memory
    <3>1. LET e == LeafIn(memory, op.stack[1].node, page)
              s == LeafIn(memory, roots[op.m], page)
          IN  e = IF s = None \/ "USER" \in s.flags THEN None ELSE s
      BY <2>5, CopiedLeaf
    <3>2. ValidLeaf(memory, roots[op.m], page)
      BY <2>5, CopyFacts DEF Copied, ValidLeaves
    <3> QED BY <2>5, <3>1, <3>2 DEF ValidLeaf
  <2> QED BY <1>1, <2>1, <2>2, <2>3, <2>4, <2>5, LeafSteps
<1> QED BY <1>1 DEF ValidLeaves

\* Mapping::duplicate() returns a mapping with all the pages of the kernel and none of the user.
THEOREM DuplicateStaysFaithful ==
    Spec /\ FrameZeroIsUnharmed /\ FlagsAreValid => DuplicateIsFaithful /\ []FlagsAreValid
<1> DEFINE I == TablesInv /\ TwinInv /\ MapsValid /\ ValidLeaves
           A == \A m \in Mappings \ LiveMappings, page \in Pages :
                   roots'[m] # None => Leaf(m, page)' = IF IsUserPage(page) THEN None ELSE Leaf(op.m, page)
<1>1. Init /\ FlagsAreValid => I
  BY InitTables, FlagsAre DEF Init, TwinInv, MapsValid, Idle
<1>2. I /\ [Next]_vars /\ [DropsFrameZero => ZeroIsZero]_vars => I' /\ A
  <2> SUFFICES ASSUME I, [Next]_vars, [DropsFrameZero => ZeroIsZero]_vars PROVE I' /\ A
    OBVIOUS
  <2>1. Now(NowLevels) /\ (DropsFrameZero => ZeroIsZero)
    BY InvIsNow, UnharmedStep
  <2>2. KeptSound
    BY <2>1, StepKeeps, KeptIsSound
  <2>4. TwinInv' /\ MapsValid' /\ ValidLeaves'
    BY <2>1, TwinStays, MapsStayValid, LeavesStayValid
  <2>5. ASSUME NEW m \in Mappings \ LiveMappings, NEW page \in Pages, roots'[m] # None
        PROVE  Leaf(m, page)' = IF IsUserPage(page) THEN None ELSE Leaf(op.m, page)
    <3>1. m \in Mappings /\ roots[m] = None
      BY DEF LiveMappings
    <3>2. Copied /\ roots'[m] = op.stack[1].node /\ memory' = memory
      BY <2>1, <2>5, <3>1, RootsSteps
    <3>3. LET e == LeafIn(memory, op.stack[1].node, page)
              s == LeafIn(memory, roots[op.m], page)
          IN  e = IF s = None \/ "USER" \in s.flags THEN None ELSE s
      BY <2>1, <3>2, CopiedLeaf
    <3>4. ValidLeaf(memory, roots[op.m], page)
      BY <2>1, <3>2, CopyFacts DEF Copied, ValidLeaves
    <3>5. Leaf(m, page)' = LeafIn(memory, op.stack[1].node, page) /\ Leaf(op.m, page) = LeafIn(memory, roots[op.m], page)
      BY <3>2, LeafIs
    <3> QED BY <3>3, <3>4, <3>5 DEF ValidLeaf, ValidFlags
  <2> QED BY <2>2, <2>4, <2>5, InvIsNow
<1>3. I => FlagsAreValid
  BY FlagsAre
<1> QED BY <1>1, <1>2, <1>3, PTL DEF Spec, FrameZeroIsUnharmed, DuplicateIsFaithful
-----------------------------------------------------------------------------
\* The rights of RightsAreEffective, walk by walk.
EffectiveLeaf(mem, root, page) == LeafIn(mem, root, page) # None => LeafIn(mem, root, page).flags \subseteq EffIn(mem, root, page)
EffectiveLeaves == \A m \in Mappings, page \in Pages : roots[m] # None => EffectiveLeaf(memory, roots[m], page)

\* An entry grants rights.
GrantsAt(mem, root, page, l, flags) ==
    EntryOn(mem, root, page, l) # None /\ flags \subseteq EntryOn(mem, root, page, l).flags

\* Path::map() has widened the entries that it has passed.
MapsWide ==
    op.kind \in {"map", "reference"} =>
        \A l \in Levels : l > op.level => GrantsAt(memory, roots[op.m], op.page, l, op.flags)

\* RightsAreEffective in terms of the walks.
LEMMA RightsAre == RightsAreEffective <=> EffectiveLeaves
  BY LeafIs, EffIs DEF RightsAreEffective, EffectiveLeaves, EffectiveLeaf, LiveMappings

\* A store on the level of Path::map() of an entry with the flags that it maps.
LEMMA WidenedOn ==
    ASSUME NEW N, Now(N), op.kind = "map", MapsWide, NEW pte, pte # None, op.flags \subseteq pte.flags,
           StoresOn(N, op.m, op.page, op.level, pte), op.level # LeafLevel, roots' = roots,
           op'.m = op.m, op'.page = op.page, op'.flags = op.flags, op'.level = op.level - 1
    PROVE  MapsWide'
<1>1. op.m \in Mappings /\ roots[op.m] # None /\ op.page \in Pages /\ op.level \in Levels
  BY MapsFacts
<1>2. /\ EntryOn(memory', roots[op.m], op.page, op.level) = pte
      /\ \A l \in Levels : l > op.level => EntryOn(memory', roots[op.m], op.page, l) = EntryOn(memory, roots[op.m], op.page, l)
  BY <1>1, EntryStored
<1>3. ASSUME NEW l \in Levels, l > op.level - 1 PROVE GrantsAt(memory', roots[op.m], op.page, l, op.flags)
  <2>1. l = op.level \/ l > op.level
    <3>1. l \in Nat /\ op.level \in Nat /\ l > op.level - 1
      BY <1>1, <1>3, LevelsFacts
    <3> QED BY ONLY <3>1
  <2>2. CASE l = op.level
    BY <1>2, <2>2 DEF GrantsAt
  <2>3. CASE l > op.level
    BY <1>2, <2>3 DEF GrantsAt, MapsWide
  <2> QED BY <2>1, <2>2, <2>3
<1> QED BY <1>3 DEF MapsWide

\* Path::map() widens an existing entry or stores a new one before it goes down.
LEMMA MapsStayWide ==
    ASSUME NEW N, Now(N), [Next]_vars, MapsWide
    PROVE  MapsWide'
<1>1. CASE op'.kind \notin {"map", "reference"}
  BY <1>1 DEF MapsWide
<1>2. CASE op' = op /\ memory' = memory /\ roots' = roots
  BY <1>2 DEF MapsWide
<1>3. CASE MapBegins
  <2>1. ASSUME NEW m, NEW page, NEW flags, NEW new, MapPage(m, page, flags, new) PROVE op'.level = RootLevel
    BY <2>1 DEF MapPage, Mapping
  <2>2. ASSUME NEW m, NEW page, NEW flags, NEW frame, MapPageToFrame(m, page, flags, frame) PROVE op'.level = RootLevel
    BY <2>2 DEF MapPageToFrame, Mapping
  <2>3. op'.level = RootLevel
    BY <1>3, <2>1, <2>2 DEF MapBegins
  <2>4. \A l \in Levels : ~(l > RootLevel)
    BY LevelsFacts
  <2> QED BY <2>3, <2>4 DEF MapsWide
<1>4. CASE MapPageReferences
  <2>1. op \in MapOp /\ op.kind = "reference" /\ op' = [op EXCEPT !.kind = "map"] /\ memory' = memory /\ roots' = roots
    BY <1>4, SoundFacts, KindFacts DEF MapPageReferences, Now
  <2>2. op'.m = op.m /\ op'.page = op.page /\ op'.flags = op.flags /\ op'.level = op.level
    BY <2>1 DEF MapOp
  <2> QED BY <2>1, <2>2 DEF MapsWide
<1>5. CASE MapDescends
  <2> DEFINE pte == [MapEntry EXCEPT !.flags = @ \cup op.flags]
  <2>1. /\ op.kind = "map" /\ op.level > LeafLevel /\ MapEntry # None /\ roots' = roots
        /\ Edited(memory, memory', op.node, op.page[op.level], pte)
        /\ op' = [op EXCEPT !.level = @ - 1, !.node = MapEntry.frame]
    BY <1>5 DEF MapDescends, MapsInnerNode, SetEntry, Edited
  <2>2. /\ op \in MapOp /\ op.m \in Mappings /\ op.page \in Pages /\ op.level \in Levels /\ op.node \in AllFrames
        /\ op.flags \in SUBSET Flags /\ roots[op.m] # None /\ op.node = PathIn(memory, roots[op.m], op.page)[op.level]
        /\ MapEntry \in Pte
    BY <2>1, MapsFacts
  <2>3. pte \in Pte /\ op.flags \subseteq pte.flags /\ pte # None
    <3>1. pte \in Pte /\ op.flags \subseteq pte.flags
      BY <2>2 DEF Pte
    <3> QED BY <3>1, FramesFacts
  <2>4. op'.m = op.m /\ op'.page = op.page /\ op'.flags = op.flags /\ op'.level = op.level - 1
    BY <2>1, <2>2 DEF MapOp
  <2> HIDE DEF pte
  <2>5. StoresOn(N, op.m, op.page, op.level, pte)
    BY <2>1, <2>2, <2>3, FramesFacts, EditStores
  <2>6. op.level # LeafLevel
    BY <2>1, <2>2, LevelsFacts
  <2> QED BY <2>1, <2>3, <2>4, <2>5, <2>6, WidenedOn
<1>6. ASSUME NEW new \in Ram, MapAllocatesNode(new) PROVE MapsWide'
  <2> DEFINE pte == [frame |-> new, flags |-> op.flags, huge |-> FALSE]
  <2>1. roots' = roots /\ op' = [op EXCEPT !.level = @ - 1, !.node = new]
    BY <1>6 DEF MapAllocatesNode
  <2>2. /\ op.kind = "map" /\ op.level # LeafLevel /\ new \in AllFrames /\ new \notin AllOf(N)
        /\ memory' \in Contents /\ memory'[op.node][op.page[op.level]] = pte
        /\ \A k \in AllFrames, j \in Index :
              k # new /\ (k # op.node \/ j # op.page[op.level]) => memory'[k][j] = memory[k][j]
    BY <1>6, MapAllocatesNodeStores
  <2>3. /\ op \in MapOp /\ op.node \in AllFrames /\ op.node = PathIn(memory, roots[op.m], op.page)[op.level]
        /\ op.flags \in SUBSET Flags
    BY <2>2, MapsFacts
  <2>4. op.flags \subseteq pte.flags /\ pte # None
    <3>1. pte \in Pte
      BY <2>2, <2>3 DEF Pte
    <3> QED BY <3>1, FramesFacts
  <2>5. op'.m = op.m /\ op'.page = op.page /\ op'.flags = op.flags /\ op'.level = op.level - 1
    BY <2>1, <2>3 DEF MapOp
  <2> HIDE DEF pte
  <2>6. \A k \in AllOf(N) : k \in AllFrames /\ k # new
    BY <2>2, SoundFacts DEF Now
  <2>7. StoresOn(N, op.m, op.page, op.level, pte)
    BY <2>2, <2>3, <2>6, FramesFacts DEF StoresOn
  <2> QED BY <2>1, <2>2, <2>4, <2>5, <2>7, WidenedOn
<1>7. CASE CopyBegins
  <2>1. op'.kind = "duplicate"
    BY <1>7 DEF CopyBegins, Duplicate
  <2> QED BY <1>1, <2>1
<1>8. CASE CopyGoesOn
  <2>1. op'.kind = "duplicate"
    BY <1>8, CopyGoesOnKind
  <2> QED BY <1>1, <2>1
<1> QED BY <1>1, <1>2, <1>3, <1>4, <1>5, <1>6, <1>7, <1>8, OpSteps DEF MapGoesOn, Walking

\* A new leaf entry with flags that the levels above it grant.
LEMMA NewLeafIsEffective ==
    ASSUME NEW m, NEW page, NEW pte, NewLeaf(m, page, pte), pte # None, pte.flags \subseteq Flags,
           \A l \in Levels : l # LeafLevel => GrantsAt(memory, roots[m], page, l, pte.flags)
    PROVE  EffectiveLeaf(memory', roots[m], page)
<1>1. LeafIn(memory', roots[m], page) = pte
  BY DEF NewLeaf
<1>2. ASSUME NEW l \in Levels PROVE GrantsAt(memory', roots[m], page, l, pte.flags)
  <2>1. CASE l = LeafLevel
    <3>1. EntryOn(memory', roots[m], page, l) = LeafIn(memory', roots[m], page)
      BY <2>1 DEF EntryOn, LeafIn
    <3> QED BY <1>1, <3>1 DEF GrantsAt
  <2>2. CASE l # LeafLevel
    BY <2>2 DEF NewLeaf, GrantsAt
  <2> QED BY <2>1, <2>2
<1>3. pte.flags \subseteq EffIn(memory', roots[m], page)
  BY <1>2 DEF EffIn, GrantsAt
<1> QED BY <1>1, <1>3 DEF EffectiveLeaf

\* Above a page that is mapped every entry is present.
LEMMA LeafWalk ==
    ASSUME NEW N, Now(N), NEW m \in Mappings, roots[m] # None, NEW page \in Pages,
           LeafIn(memory, roots[m], page) # None, NEW h \in Levels
    PROVE  EntryOn(memory, roots[m], page, h) # None
<1> DEFINE P == PathIn(memory, roots[m], page)
<1>1. SUFFICES ASSUME EntryOn(memory, roots[m], page, h) = None PROVE FALSE
  OBVIOUS
<1>2. P[h] # None => memory[P[h]][page[h]] = None /\ ~Linked(memory[P[h]][page[h]])
  BY <1>1, NoneIsNotLinked DEF EntryOn
<1>3. memory \in Contents /\ roots[m] \in AllFrames \cup {None}
  BY WalkFacts
<1> QED BY <1>2, <1>3, DeadEnd

\* Every step keeps the rights in the leaf entries effective.
LEMMA LeavesStayEffective ==
    ASSUME NEW N, Now(N), [Next]_vars, "widen" \notin Remaps, TwinInv, MapsWide, EffectiveLeaves
    PROVE  EffectiveLeaves'
<1>1. ASSUME NEW m \in Mappings, NEW page \in Pages, roots'[m] # None PROVE EffectiveLeaf(memory', roots'[m], page)
  <2>1. CASE roots'[m] = roots[m] /\ WalkKept(m, page)
    BY <1>1, <2>1 DEF EffectiveLeaves, EffectiveLeaf, WalkKept
  <2>2. CASE LeafIn(memory', roots'[m], page) = None
    BY <2>2 DEF EffectiveLeaf
  <2>3. CASE MapStoresLeaf /\ roots'[m] = roots[m] /\ m = op.m /\ page = op.page
    <3> DEFINE pte == [frame |-> op.frame, flags |-> op.flags, huge |-> FALSE]
    <3>1. NewLeaf(op.m, op.page, pte) /\ op.kind = "map" /\ op.level = LeafLevel /\ op.flags \in SUBSET Flags
      BY <2>3, MapStoresNewLeaf
    <3>2. pte # None /\ pte.flags = op.flags
      <4>1. op.frame \in AllFrames /\ op.flags \in SUBSET Flags
        BY <3>1, MapsFacts
      <4>2. pte \in Pte
        BY <4>1 DEF Pte
      <4> QED BY <4>2, FramesFacts
    <3> HIDE DEF pte
    <3>3. \A l \in Levels : l # LeafLevel => GrantsAt(memory, roots[op.m], op.page, l, pte.flags)
      <4>1. \A l \in Levels : l # LeafLevel => l > LeafLevel
        BY LevelsFacts
      <4> QED BY <3>1, <3>2, <4>1 DEF MapsWide
    <3> QED BY <2>3, <3>1, <3>2, <3>3, NewLeafIsEffective
  <2>4. ASSUME roots'[m] = roots[m], NEW flags \in Rights, Remap(m, page, flags) PROVE EffectiveLeaf(memory', roots'[m], page)
    <3> DEFINE e == LeafIn(memory, roots[m], page)
               pte == [e EXCEPT !.flags = flags]
    <3>1. NewLeaf(m, page, pte) /\ e \in Pte /\ e # None
      BY <2>4, RemapStoresFlags
    <3>2. flags \subseteq e.flags /\ e.flags \subseteq EffIn(memory, roots[m], page)
      <4>1. RemapKind(m, page, flags) \in Remaps
        BY <2>4 DEF Remap
      <4>2. flags \subseteq Leaf(m, page).flags
        BY <4>1 DEF RemapKind
      <4>3. Leaf(m, page) = e
        BY LeafIs
      <4>4. EffectiveLeaf(memory, roots[m], page)
        BY <1>1, <2>4 DEF EffectiveLeaves
      <4> QED BY <3>1, <4>2, <4>3, <4>4 DEF EffectiveLeaf
    <3> HIDE DEF e
    <3>3. pte \in Pte /\ pte.flags = flags /\ flags \subseteq Flags /\ pte # None
      <4>1. pte \in Pte /\ pte.flags = flags /\ flags \subseteq Flags
        BY <3>1, RightsAssumption DEF Pte
      <4> QED BY <4>1, FramesFacts
    <3> HIDE DEF pte
    <3>4. \A l \in Levels : GrantsAt(memory, roots[m], page, l, flags)
      <4>1. ASSUME NEW l \in Levels, NEW g \in flags
            PROVE  EntryOn(memory, roots[m], page, l) # None /\ g \in EntryOn(memory, roots[m], page, l).flags
        BY <3>2 DEF EffIn
      <4>2. ASSUME NEW l \in Levels PROVE EntryOn(memory, roots[m], page, l) # None
        BY <1>1, <2>4, <3>1, LeafWalk DEF e
      <4> QED BY <4>1, <4>2 DEF GrantsAt
    <3> QED BY <2>4, <3>1, <3>3, <3>4, NewLeafIsEffective
  <2>5. CASE Copied /\ roots'[m] = op.stack[1].node /\ memory' = memory
    <3> DEFINE e == LeafIn(memory, op.stack[1].node, page)
               s == LeafIn(memory, roots[op.m], page)
    <3>1. /\ e = IF s = None \/ "USER" \in s.flags THEN None ELSE s
          /\ e # None => EffIn(memory, roots[op.m], page) \subseteq EffIn(memory, op.stack[1].node, page)
      BY <2>5, CopiedLeaf
    <3>2. EffectiveLeaf(memory, roots[op.m], page)
      BY <2>5, CopyFacts DEF Copied, EffectiveLeaves
    <3>3. s # None => s.flags \subseteq EffIn(memory, roots[op.m], page)
      BY <3>2 DEF EffectiveLeaf
    <3>4. e # None => e.flags \subseteq EffIn(memory, op.stack[1].node, page)
      <4> HIDE DEF e, s
      <4> QED BY <3>1, <3>3
    <3> QED BY <2>5, <3>4 DEF EffectiveLeaf
  <2> QED BY <1>1, <2>1, <2>2, <2>3, <2>4, <2>5, LeafSteps
<1> QED BY <1>1 DEF EffectiveLeaves

\* Path::map() widens the entries above the page it maps, and no later map(), unmap(), duplicate() or drop(), and no
\* remap_block() that takes rights away, makes the rights in a leaf entry ineffective.
THEOREM RightsStayEffective ==
    ASSUME "widen" \notin Remaps
    PROVE  Spec /\ FrameZeroIsUnharmed /\ RightsAreEffective => []RightsAreEffective
<1> DEFINE I == TablesInv /\ TwinInv /\ MapsWide /\ EffectiveLeaves
<1>1. Init /\ RightsAreEffective => I
  BY InitTables, RightsAre DEF Init, TwinInv, MapsWide, Idle
<1>2. I /\ [Next]_vars /\ [DropsFrameZero => ZeroIsZero]_vars => I'
  <2> SUFFICES ASSUME I, [Next]_vars, [DropsFrameZero => ZeroIsZero]_vars PROVE I'
    OBVIOUS
  <2>1. Now(NowLevels) /\ (DropsFrameZero => ZeroIsZero)
    BY InvIsNow, UnharmedStep
  <2>2. KeptSound
    BY <2>1, StepKeeps, KeptIsSound
  <2>4. TwinInv' /\ MapsWide' /\ EffectiveLeaves'
    BY <2>1, TwinStays, MapsStayWide, LeavesStayEffective
  <2> QED BY <2>2, <2>4, InvIsNow
<1>3. I => RightsAreEffective
  BY RightsAre
<1> QED BY <1>1, <1>2, <1>3, PTL DEF Spec, FrameZeroIsUnharmed
=============================================================================
