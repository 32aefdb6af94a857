-------------------------- MODULE PageTablesProofs --------------------------
(***************************************************************************)
(* Proofs about the page tables, for any mappings, pages, depth of the     *)
(* tables and size of memory.                                              *)
(*                                                                         *)
(* The inductive invariant TablesInv says that the page tables are a tree: *)
(* its nodes are frames of main memory with one owner each, on one level   *)
(* each, and every frame has at least as many owners as users, that is     *)
(* page table entries of the nodes, mappings and guards.  A node has one   *)
(* owner and is used by what links to it; so nothing else uses it, and it  *)
(* can be changed and released.  For the operation in progress the         *)
(* invariant says where it is in the tree, and what it has done there.     *)
(*                                                                         *)
(* The levels of the tree are found by recursion on the depth.  The proofs *)
(* use only that they satisfy their equations (AreLevels), so that for a   *)
(* step it is enough to name the levels after it.                          *)
(*                                                                         *)
(* A failed duplicate() drops a mapping whose root is frame 0.  Nothing is *)
(* assumed of frame 0: the theorems are about the behaviours in which this *)
(* never happens while frame 0 holds entries (FrameZeroIsUnharmed).        *)
(***************************************************************************)
EXTENDS PageTables, FiniteSetTheorems, WellFoundedInduction, NaturalsInduction, TLAPS

Contents == [AllFrames -> [Index -> Pte \cup {None}]]
Roots == [Mappings -> AllFrames \cup {None}]

\* An entry that refers to a node or to a page, and owns its frame.
Linked(pte) == pte # None /\ ~pte.huge
LinksTo(pte, f) == Linked(pte) /\ pte.frame = f

\* The nodes that are not entries of other nodes.
RootsOf(rts) == {rts[m] : m \in {m \in Mappings : rts[m] # None}}
CopiesOf(o, l) == IF o.kind = "duplicate"
                  THEN {o.stack[d].node : d \in {k \in 1 .. Len(o.stack) : RootLevel - k + 1 = l}}
                  ELSE {}
TopsOf(rts, o) == [l \in Levels |-> (IF l = RootLevel THEN RootsOf(rts) ELSE {}) \cup CopiesOf(o, l)]

AllOf(N) == UNION {N[l] : l \in Levels}

\* The references to a frame, by page table entries, by mappings and by guards.
EntriesTo(mem, nodes, f) == {x \in nodes \X Index : LinksTo(mem[x[1]][x[2]], f)}
MappingsOf(rts, f) == {m \in {m \in Mappings : rts[m] # None} : rts[m] = f}
Places(g, f) == {k \in 1 .. Len(g) : g[k] = f}

GuardsOf(o) ==
    CASE o.kind \in {"drop", "unwind"} -> o.frames
      [] o.kind = "reference" -> o.held
      [] o.kind = "map" -> <<o.frame>> \o o.held
      [] o.kind = "duplicate" -> [d \in 1 .. Len(o.stack) |-> o.stack[d].node]
      [] OTHER -> <<>>

Entries(mem, nodes, f) == Cardinality(EntriesTo(mem, nodes, f))
Live(rts, f) == Cardinality(MappingsOf(rts, f))
Held(g, f) == Cardinality(Places(g, f))

\* References(f) of any state.
Users(mem, N, rts, o, f) == Entries(mem, AllOf(N), f) + Live(rts, f) + Held(GuardsOf(o), f)

\* N are the levels of the page tables under the given nodes.
AreLevels(mem, tops, N) ==
    /\ N \in [Levels -> SUBSET AllFrames]
    /\ \A l \in Levels, x \in AllFrames :
          x \in N[l] <=> \/ x \in tops[l]
                         \/ l < RootLevel /\ \E n \in N[l + 1], i \in Index : LinksTo(mem[n][i], x)

\* P is the path of a page under a root.
Below(mem, n, i) == IF n = None THEN None ELSE IF Linked(mem[n][i]) THEN mem[n][i].frame ELSE None
IsPath(mem, root, page, P) ==
    /\ P \in [Levels -> AllFrames \cup {None}]
    /\ P[RootLevel] = root
    /\ \A l \in Levels : l < RootLevel => P[l] = Below(mem, P[l + 1], page[l + 1])
PathIn(mem, root, page) ==
    LET node[l \in Levels] ==
            IF l = RootLevel THEN root
            ELSE LET pte == IF node[l + 1] = None THEN None ELSE mem[node[l + 1]][page[l + 1]]
                 IN  IF pte = None \/ pte.huge THEN None ELSE pte.frame
    IN  node
-----------------------------------------------------------------------------
\* Nodes are frames of main memory with one owner, and no node is on two levels.
IsTree(own, mem, N) ==
    /\ \A l \in Levels : \A f \in N[l] : f \in Ram /\ own[f] = 1
    /\ \A k, l \in Levels : \A f \in N[k] : f \in N[l] => k = l
    /\ \A n \in N[LeafLevel], i \in Index : mem[n][i] # None => Linked(mem[n][i])

Covers(own, mem, N, rts, o) == \A f \in Ram : own[f] >= Users(mem, N, rts, o, f)

MapOp == [kind : {"reference", "map"}, m : Mappings, page : Pages, flags : SUBSET Flags,
          frame : AllFrames, held : Seq(AllFrames), level : Levels, node : AllFrames]
HoldOp == [kind : {"drop", "unwind"}, frames : Seq(AllFrames)]
CopyFrame == [src : AllFrames, node : AllFrames, i : 0 .. EntryCount]
CopyOp == [kind : {"duplicate"}, m : Mappings, copy : Mappings, stack : Seq(CopyFrame)]
DropFrame == [node : AllFrames, i : 0 .. EntryCount, has_used : BOOLEAN]
DropOp == [kind : {"drop_subtree"}, m : Mappings \cup {None}, drop_used : BOOLEAN, stack : Seq(DropFrame)]

Holds(o) == o \in HoldOp /\ o.frames # <<>>

Maps(mem, rts, o) ==
    /\ o \in MapOp
    /\ rts[o.m] # None
    /\ o.node = PathIn(mem, rts[o.m], o.page)[o.level]
    /\ o.held \in {<<>>, <<o.frame>>}
    /\ o.kind = "reference" => o.held = <<o.frame>>

LevelAt(d) == RootLevel - d + 1

Copies(mem, rts, o, N) ==
    /\ o \in CopyOp
    /\ rts[o.m] # None /\ rts[o.copy] = None
    /\ Len(o.stack) \in 1 .. RootLevel + 1
    /\ o.stack[1].src = rts[o.m]
    /\ \A d \in 1 .. Len(o.stack) :
        /\ o.stack[d].src \in N[LevelAt(d)]
        /\ \A j \in Index : j >= o.stack[d].i => mem[o.stack[d].node][j] = None
    /\ \A d \in 1 .. Len(o.stack) - 1 :
        /\ o.stack[d].i < EntryCount
        /\ LinksTo(mem[o.stack[d].src][o.stack[d].i], o.stack[d + 1].src)

Drops(mem, rts, cur, o, N) ==
    /\ o \in DropOp
    /\ o.m # None
    /\ rts[o.m] # None
    /\ o.drop_used => o.m # Base /\ o.m # cur
    /\ Len(o.stack) \in 1 .. RootLevel + 1
    /\ o.stack[1].node = rts[o.m]
    /\ \A d \in 1 .. Len(o.stack) :
        /\ o.stack[d].node \in N[LevelAt(d)]
        /\ \A j \in Index : j < o.stack[d].i =>
              IF o.drop_used THEN ~Linked(mem[o.stack[d].node][j])
              ELSE ~o.stack[d].has_used => mem[o.stack[d].node][j] = None
    /\ \A d \in 1 .. Len(o.stack) - 1 :
        /\ o.stack[d].i < EntryCount
        /\ LinksTo(mem[o.stack[d].node][o.stack[d].i], o.stack[d + 1].node)

\* drop() of the mapping that duplicate() could not make.
DropsNothing(mem, o) ==
    /\ o \in DropOp
    /\ o.m = None /\ o.drop_used
    /\ Len(o.stack) = 1 /\ o.stack[1].node = FrameZero
    /\ mem[FrameZero] = Zeroed

OpInv(mem, rts, cur, o, N) ==
    \/ o = Idle
    \/ Holds(o)
    \/ Maps(mem, rts, o)
    \/ Copies(mem, rts, o, N)
    \/ Drops(mem, rts, cur, o, N)
    \/ DropsNothing(mem, o)

Typed(own, mem, rts, cur) ==
    /\ own \in [AllFrames -> Nat]
    /\ mem \in Contents
    /\ rts \in Roots
    /\ cur \in Mappings /\ rts[cur] # None /\ rts[Base] # None

Sound(own, mem, rts, cur, o, N) ==
    /\ Typed(own, mem, rts, cur)
    /\ AreLevels(mem, TopsOf(rts, o), N)
    /\ IsTree(own, mem, N)
    /\ Covers(own, mem, N, rts, o)
    /\ OpInv(mem, rts, cur, o, N)

TablesInv == Sound(owned, memory, roots, current, op, NodeLevels(memory, TopsOf(roots, op)))
-----------------------------------------------------------------------------
\* A set of naturals that is not empty has a least element.
LEMMA Least ==
    ASSUME NEW S, S \subseteq Nat, S # {}
    PROVE  \E x \in S : \A y \in S : x <= y
<1> DEFINE R == {ss \in Nat \X Nat : ss[1] < ss[2]}
<1>1. IsWellFoundedOn(R, Nat)
  BY NatLessThanWellFounded, Zenon DEF OpToRel
<1>2. PICK x \in S : \A y \in S : ~(<<y, x>> \in R)
  BY <1>1, WFMin, Zenon
<1>3. ASSUME NEW y \in S PROVE x <= y
  <2>2. x \in Nat /\ y \in Nat /\ <<y, x>> \notin R
    BY <1>2
  <2>3. y < x => <<y, x>> \in R
    BY <2>2
  <2> QED BY <2>2, <2>3
<1> QED BY <1>3

\* Induction from the root down to the leaves.
LEMMA Topmost ==
    ASSUME NEW S, S \subseteq Levels, S # {}
    PROVE  \E l \in S : l = RootLevel \/ (l + 1 \in Levels /\ l < RootLevel /\ l + 1 \notin S)
<1> DEFINE T == {n \in Nat : n <= RootLevel /\ RootLevel - n \in S}
<1>0. RootLevel \in Nat /\ \A l \in S : l \in 0 .. RootLevel
  BY LevelsAssumption DEF Levels, LeafLevel
<1>1. T \subseteq Nat /\ T # {}
  <2>1. PICK l \in S : TRUE
    OBVIOUS
  <2>2. l \in 0 .. RootLevel
    BY <1>0, <2>1
  <2>3. RootLevel - l \in T
    BY <1>0, <2>2
  <2> QED BY <2>3
<1>2. PICK n \in T : \A y \in T : n <= y
  BY <1>1, Least, Zenon
<1>3. n \in Nat /\ n <= RootLevel /\ RootLevel - n \in S
  BY <1>2
<1>4. ASSUME n > 0 PROVE RootLevel - n + 1 \notin S
  <2>1. SUFFICES ASSUME RootLevel - n + 1 \in S PROVE FALSE
    OBVIOUS
  <2>2. n - 1 \in Nat /\ n - 1 <= RootLevel /\ RootLevel - (n - 1) = RootLevel - n + 1
    BY <1>0, <1>3, <1>4
  <2>3. n - 1 \in T
    BY <2>1, <2>2
  <2> QED BY <2>3, <1>2, <1>3
<1>5. RootLevel - n \in 0 .. RootLevel /\ (n = 0 => RootLevel - n = RootLevel)
      /\ (n > 0 => RootLevel - n < RootLevel /\ RootLevel - n + 1 \in Levels)
  BY <1>0, <1>3 DEF Levels, LeafLevel
<1>6. n = 0 \/ n > 0
  BY <1>3
<1> QED BY <1>3, <1>4, <1>5, <1>6

\* What a frame reads as: entries that are absent or present.
LEMMA ContentsType ==
    ASSUME NEW mem \in Contents, NEW n \in AllFrames, NEW i \in Index
    PROVE  /\ mem[n] \in [Index -> Pte \cup {None}]
           /\ mem[n][i] \in Pte \cup {None}
           /\ mem[n][i] # None => mem[n][i] \in Pte /\ mem[n][i].frame \in AllFrames
                                  /\ mem[n][i].huge \in BOOLEAN /\ mem[n][i].flags \in SUBSET Flags
           /\ Linked(mem[n][i]) => mem[n][i].frame \in AllFrames
  BY DEF Contents, Pte, Linked

\* Levels are the numbers from the leaves to the root.
LEMMA LevelsFacts ==
    /\ RootLevel \in Nat /\ RootLevel \in Levels /\ LeafLevel \in Levels /\ LeafLevel = 0
    /\ \A l \in Levels : l \in Nat /\ l <= RootLevel
    /\ \A l \in Levels : l # RootLevel => l < RootLevel /\ l + 1 \in Levels
    /\ \A l \in Levels : l # LeafLevel => l > 0 /\ l - 1 \in Levels /\ l - 1 + 1 = l /\ l - 1 < RootLevel
  BY LevelsAssumption DEF Levels, LeafLevel

\* Indexes of entries are the numbers below EntryCount.
LEMMA IndexFacts ==
    /\ EntryCount \in Nat /\ IsFiniteSet(Index)
    /\ \A i : i \in Index <=> i \in Nat /\ i < EntryCount
<1>1. EntryCount \in Nat /\ EntryCount - 1 \in Int
  BY LevelsAssumption
<1>2. IsFiniteSet(0 .. EntryCount - 1)
  BY <1>1, FS_Interval
<1> QED BY <1>1, <1>2 DEF Index

\* The place of the caller in a stack of recursive calls.
LEMMA CallerBelow ==
    ASSUME NEW n \in Nat, n > 1
    PROVE  /\ n - 1 \in 1 .. n /\ n - 1 \in 1 .. n - 1 /\ n \in 1 .. n /\ (n - 1) + 1 = n /\ n - 1 # n
           /\ n - 1 \in Nat /\ n - 1 >= 1 /\ n - 1 < n
  OBVIOUS

\* The equation of the definition of NodeLevels.
LevelsEq(mem, tops, N) ==
    N = [l \in Levels |-> tops[l] \cup IF l = RootLevel THEN {} ELSE Children(mem, N[l + 1])]

\* Children() are the frames that some entry of the nodes links to.
LEMMA ChildrenAre ==
    ASSUME NEW mem \in Contents, NEW S \in SUBSET AllFrames
    PROVE  /\ Children(mem, S) \in SUBSET AllFrames
           /\ \A x : x \in Children(mem, S) <=> \E n \in S, i \in Index : LinksTo(mem[n][i], x)
<1>1. ASSUME NEW x PROVE x \in Children(mem, S) <=> \E n \in S, i \in Index : LinksTo(mem[n][i], x)
  <2> DEFINE links == {y \in S \X Index : mem[y[1]][y[2]] # None /\ ~mem[y[1]][y[2]].huge}
  <2>1. Children(mem, S) = {mem[y[1]][y[2]].frame : y \in links}
    BY DEF Children
  <2>2. ASSUME x \in Children(mem, S) PROVE \E n \in S, i \in Index : LinksTo(mem[n][i], x)
    <3>1. PICK y \in links : x = mem[y[1]][y[2]].frame
      BY <2>1, <2>2
    <3>2. y[1] \in S /\ y[2] \in Index
      OBVIOUS
    <3> QED BY <3>1, <3>2 DEF LinksTo, Linked
  <2>3. ASSUME NEW n \in S, NEW i \in Index, LinksTo(mem[n][i], x) PROVE x \in Children(mem, S)
    <3>1. <<n, i>> \in links /\ x = mem[<<n, i>>[1]][<<n, i>>[2]].frame
      BY <2>3 DEF LinksTo, Linked
    <3> QED BY <2>1, <3>1
  <2> QED BY <2>2, <2>3
<1>2. ASSUME NEW x, NEW n \in S, NEW i \in Index, LinksTo(mem[n][i], x) PROVE x \in AllFrames
  BY <1>2, ContentsType DEF LinksTo, Linked
<1> QED BY <1>1, <1>2

\* Levels satisfy the equation that defines NodeLevels().
LEMMA LevelsEquation ==
    ASSUME NEW mem \in Contents, NEW tops \in [Levels -> SUBSET AllFrames], NEW N,
           AreLevels(mem, tops, N)
    PROVE  LevelsEq(mem, tops, N)
<1> DEFINE M == [l \in Levels |-> tops[l] \cup IF l = RootLevel THEN {} ELSE Children(mem, N[l + 1])]
<1>1. N \in [Levels -> SUBSET AllFrames]
  BY DEF AreLevels
<1>2. ASSUME NEW l \in Levels PROVE N[l] = M[l]
  <2>1. tops[l] \in SUBSET AllFrames /\ N[l] \in SUBSET AllFrames
    BY <1>1
  <2>2. CASE l = RootLevel
    <3>1. \A x \in AllFrames : x \in N[l] <=> x \in tops[l]
      BY <2>2, LevelsFacts DEF AreLevels
    <3> QED BY <3>1, <2>1, <2>2
  <2>3. CASE l # RootLevel
    <3>1. l < RootLevel /\ l + 1 \in Levels
      BY <2>3, LevelsFacts
    <3>2. N[l + 1] \in SUBSET AllFrames
      BY <3>1, <1>1
    <3>3. \A x \in AllFrames : x \in N[l] <=> x \in tops[l] \/ x \in Children(mem, N[l + 1])
      BY <3>1, <3>2, ChildrenAre DEF AreLevels
    <3>4. Children(mem, N[l + 1]) \in SUBSET AllFrames
      BY <3>2, ChildrenAre
    <3>5. M[l] = tops[l] \cup Children(mem, N[l + 1])
      BY <2>3
    <3> QED BY <3>3, <3>4, <3>5, <2>1
  <2> QED BY <2>2, <2>3
<1>3. N = M
  BY <1>1, <1>2
<1> QED BY <1>3 DEF LevelsEq

\* What satisfies that equation are levels of the page tables.
LEMMA EquationLevels ==
    ASSUME NEW mem \in Contents, NEW tops \in [Levels -> SUBSET AllFrames], NEW N,
           LevelsEq(mem, tops, N)
    PROVE  AreLevels(mem, tops, N)
<1> DEFINE bad == {l \in Levels : ~(N[l] \in SUBSET AllFrames)}
<1>0. /\ N = [l \in Levels |-> N[l]]
      /\ \A l \in Levels : N[l] = tops[l] \cup IF l = RootLevel THEN {} ELSE Children(mem, N[l + 1])
  BY DEF LevelsEq
<1>1. bad = {}
  <2>1. SUFFICES ASSUME bad # {} PROVE FALSE
    OBVIOUS
  <2>2. PICK l \in bad : l = RootLevel \/ (l + 1 \in Levels /\ l < RootLevel /\ l + 1 \notin bad)
    BY <2>1, Topmost
  <2>3. tops[l] \in SUBSET AllFrames
    OBVIOUS
  <2>4. l # RootLevel
    BY <1>0, <2>2, <2>3
  <2>5. Children(mem, N[l + 1]) \in SUBSET AllFrames
    BY <2>2, <2>4, ChildrenAre
  <2> QED BY <1>0, <2>2, <2>3, <2>4, <2>5
<1>2. N \in [Levels -> SUBSET AllFrames]
  BY <1>0, <1>1
<1>3. ASSUME NEW l \in Levels, NEW x \in AllFrames
      PROVE  x \in N[l] <=> \/ x \in tops[l]
                            \/ l < RootLevel /\ \E n \in N[l + 1], i \in Index : LinksTo(mem[n][i], x)
  <2>1. CASE l = RootLevel
    BY <1>0, <2>1, LevelsFacts
  <2>2. CASE l # RootLevel
    <3>1. l < RootLevel /\ N[l + 1] \in SUBSET AllFrames
      BY <2>2, <1>2, LevelsFacts
    <3> QED BY <1>0, <2>2, <3>1, ChildrenAre
  <2> QED BY <2>1, <2>2
<1> QED BY <1>2, <1>3 DEF AreLevels

\* The equation of NodeLevels() has one solution.
LEMMA EquationUnique ==
    ASSUME NEW mem, NEW tops, NEW N, NEW M, LevelsEq(mem, tops, N), LevelsEq(mem, tops, M)
    PROVE  M = N
<1> DEFINE bad == {l \in Levels : M[l] # N[l]}
<1>1. /\ M = [l \in Levels |-> M[l]] /\ N = [l \in Levels |-> N[l]]
      /\ \A l \in Levels : N[l] = tops[l] \cup IF l = RootLevel THEN {} ELSE Children(mem, N[l + 1])
      /\ \A l \in Levels : M[l] = tops[l] \cup IF l = RootLevel THEN {} ELSE Children(mem, M[l + 1])
  BY DEF LevelsEq
<1>2. bad = {}
  <2>1. SUFFICES ASSUME bad # {} PROVE FALSE
    OBVIOUS
  <2>2. PICK l \in bad : l = RootLevel \/ (l + 1 \in Levels /\ l < RootLevel /\ l + 1 \notin bad)
    BY <2>1, Topmost
  <2>3. l \in Levels /\ M[l] # N[l] /\ (l # RootLevel => M[l + 1] = N[l + 1])
    BY <2>2
  <2> QED BY <1>1, <2>3
<1>3. \A l \in Levels : M[l] = N[l]
  BY <1>2
<1> QED BY <1>1, <1>3

\* The levels of a sound tree are those that NodeLevels finds.
LEMMA LevelsUnique ==
    ASSUME NEW mem \in Contents, NEW tops \in [Levels -> SUBSET AllFrames], NEW N,
           AreLevels(mem, tops, N)
    PROVE  NodeLevels(mem, tops) = N
<1>1. LevelsEq(mem, tops, N)
  BY LevelsEquation
<1>2. LevelsEq(mem, tops, NodeLevels(mem, tops))
  BY <1>1, Zenon DEF LevelsEq, NodeLevels
<1> QED BY <1>1, <1>2, EquationUnique
-----------------------------------------------------------------------------
LevelAtEq(mem, tops, N, l) == N[l] = tops[l] \cup IF l = RootLevel THEN {} ELSE Children(mem, N[l + 1])

\* NodeLevels() does find the levels of the page tables.
LEMMA LevelsExist ==
    ASSUME NEW mem \in Contents, NEW tops \in [Levels -> SUBSET AllFrames]
    PROVE  AreLevels(mem, tops, NodeLevels(mem, tops))
<1> DEFINE From(l) == \E N : /\ N = [k \in Levels |-> N[k]]
                             /\ \A k \in Levels : k >= l => LevelAtEq(mem, tops, N, k)
           bad == {l \in Levels : ~From(l)}
<1>1. bad = {}
  <2>1. SUFFICES ASSUME bad # {} PROVE FALSE
    OBVIOUS
  <2>2. PICK l \in bad : l = RootLevel \/ (l + 1 \in Levels /\ l < RootLevel /\ l + 1 \notin bad)
    BY <2>1, Topmost
  <2>3. l \in Levels /\ ~From(l)
    BY <2>2
  <2>4. CASE l = RootLevel
    <3>1. \A k \in Levels : k >= l => k = RootLevel
      BY <2>4, LevelsFacts
    <3>2. LevelAtEq(mem, tops, tops, RootLevel)
      BY LevelsFacts DEF LevelAtEq
    <3>3. tops = [k \in Levels |-> tops[k]]
      OBVIOUS
    <3>4. From(l)
      BY <3>1, <3>2, <3>3
    <3> QED BY <2>3, <3>4
  <2>5. CASE l # RootLevel
    <3>1. From(l + 1)
      BY <2>2, <2>5
    <3>2. PICK N : /\ N = [k \in Levels |-> N[k]]
                   /\ \A k \in Levels : k >= l + 1 => LevelAtEq(mem, tops, N, k)
      BY <3>1
    <3> DEFINE M == [k \in Levels |-> IF k = l THEN tops[l] \cup Children(mem, N[l + 1]) ELSE N[k]]
    <3>3. ASSUME NEW k \in Levels, k >= l PROVE LevelAtEq(mem, tops, M, k)
      <4>1. CASE k = l
        <5>1. M[k] = tops[l] \cup Children(mem, N[l + 1])
          BY <4>1
        <5>2. l + 1 \in Levels /\ l + 1 # l
          BY <2>3, <2>5, LevelsFacts
        <5>3. M[l + 1] = N[l + 1]
          BY <5>2
        <5> QED BY <4>1, <5>1, <5>3, <2>5 DEF LevelAtEq
      <4>2. CASE k # l
        <5>1. k >= l + 1 /\ k # l
          BY <3>3, <4>2, <2>3, LevelsFacts
        <5>2. LevelAtEq(mem, tops, N, k)
          BY <5>1, <3>2
        <5>3. M[k] = N[k]
          BY <4>2
        <5>4. CASE k = RootLevel
          BY <5>2, <5>3, <5>4 DEF LevelAtEq
        <5>5. CASE k # RootLevel
          <6>1. k + 1 \in Levels /\ k + 1 # l
            BY <5>5, <5>1, <2>3, LevelsFacts
          <6>2. M[k + 1] = N[k + 1]
            BY <6>1
          <6> QED BY <5>2, <5>3, <6>2 DEF LevelAtEq
        <5> QED BY <5>4, <5>5
      <4> QED BY <4>1, <4>2
    <3>4. M = [k \in Levels |-> M[k]]
      OBVIOUS
    <3> HIDE DEF M
    <3>5. From(l)
      BY <3>3, <3>4
    <3> QED BY <2>3, <3>5
  <2> QED BY <2>4, <2>5
<1>2. From(LeafLevel)
  BY <1>1, LevelsFacts
<1>3. PICK N : /\ N = [k \in Levels |-> N[k]]
               /\ \A k \in Levels : k >= LeafLevel => LevelAtEq(mem, tops, N, k)
  BY <1>2
<1>4. \A k \in Levels : LevelAtEq(mem, tops, N, k)
  BY <1>3, LevelsFacts
<1>5. LevelsEq(mem, tops, N)
  BY <1>3, <1>4 DEF LevelsEq, LevelAtEq
<1>6. LevelsEq(mem, tops, NodeLevels(mem, tops))
  BY <1>5, Zenon DEF LevelsEq, NodeLevels
<1> QED BY <1>6, EquationLevels

\* With fewer nodes on top there are fewer below.
LEMMA LevelsShrink ==
    ASSUME NEW mem \in Contents, NEW tops, NEW N, NEW tops2, NEW N2,
           AreLevels(mem, tops, N), AreLevels(mem, tops2, N2),
           \A l \in Levels : tops2[l] \subseteq tops[l]
    PROVE  \A l \in Levels : N2[l] \subseteq N[l]
<1> DEFINE bad == {l \in Levels : ~(N2[l] \subseteq N[l])}
<1>1. SUFFICES ASSUME bad # {} PROVE FALSE
  OBVIOUS
<1>2. PICK l \in bad : l = RootLevel \/ (l + 1 \in Levels /\ l < RootLevel /\ l + 1 \notin bad)
  BY <1>1, Topmost
<1>3. PICK x \in N2[l] : x \notin N[l]
  OBVIOUS
<1>4. l \in Levels /\ x \in AllFrames
  BY <1>3 DEF AreLevels
<1>5. PICK n \in N2[l + 1], i \in Index : l < RootLevel /\ LinksTo(mem[n][i], x)
  BY <1>3, <1>4 DEF AreLevels
<1>6. n \in N[l + 1]
  BY <1>2, <1>5, LevelsFacts
<1> QED BY <1>3, <1>4, <1>5, <1>6 DEF AreLevels
-----------------------------------------------------------------------------
\* One step of Mapping::path() finds a frame or nothing.
LEMMA BelowType ==
    ASSUME NEW mem \in Contents, NEW n \in AllFrames \cup {None}, NEW i \in Index
    PROVE  Below(mem, n, i) \in AllFrames \cup {None}
<1>1. CASE n = None
  BY <1>1 DEF Below
<1>2. CASE n # None
  BY <1>2, ContentsType DEF Below
<1> QED BY <1>1, <1>2

\* A virtual page has an index of each level.
LEMMA PageType ==
    ASSUME NEW page \in Pages, NEW l \in Levels
    PROVE  page[l] \in Index
  BY PagesAssumption

PathEq(mem, root, page, P) ==
    P = [l \in Levels |-> IF l = RootLevel THEN root ELSE Below(mem, P[l + 1], page[l + 1])]

\* What satisfies the equation of Mapping::path() is a path.
LEMMA PathEqIs ==
    ASSUME NEW mem \in Contents, NEW root \in AllFrames \cup {None}, NEW page \in Pages, NEW P,
           PathEq(mem, root, page, P)
    PROVE  IsPath(mem, root, page, P)
<1> DEFINE bad == {l \in Levels : ~(P[l] \in AllFrames \cup {None})}
<1>0. /\ P = [l \in Levels |-> P[l]]
      /\ \A l \in Levels : P[l] = IF l = RootLevel THEN root ELSE Below(mem, P[l + 1], page[l + 1])
  BY DEF PathEq
<1>1. bad = {}
  <2>1. SUFFICES ASSUME bad # {} PROVE FALSE
    OBVIOUS
  <2>2. PICK l \in bad : l = RootLevel \/ (l + 1 \in Levels /\ l < RootLevel /\ l + 1 \notin bad)
    BY <2>1, Topmost
  <2>3. l # RootLevel /\ l + 1 \in Levels /\ P[l + 1] \in AllFrames \cup {None}
    BY <1>0, <2>2
  <2>4. Below(mem, P[l + 1], page[l + 1]) \in AllFrames \cup {None}
    BY <2>3, BelowType, PageType
  <2> QED BY <1>0, <2>2, <2>3, <2>4
<1>2. P \in [Levels -> AllFrames \cup {None}]
  BY <1>0, <1>1
<1> QED BY <1>0, <1>2, LevelsFacts DEF IsPath

\* A page has one path under a root.
LEMMA PathUnique ==
    ASSUME NEW mem, NEW root, NEW page, NEW P, NEW Q,
           IsPath(mem, root, page, P), IsPath(mem, root, page, Q)
    PROVE  P = Q
<1> DEFINE bad == {l \in Levels : P[l] # Q[l]}
<1>1. bad = {}
  <2>1. SUFFICES ASSUME bad # {} PROVE FALSE
    OBVIOUS
  <2>2. PICK l \in bad : l = RootLevel \/ (l + 1 \in Levels /\ l < RootLevel /\ l + 1 \notin bad)
    BY <2>1, Topmost
  <2> QED BY <2>2 DEF IsPath
<1> QED BY <1>1 DEF IsPath

\* Path() is the path of a page.
LEMMA PathExists ==
    ASSUME NEW mem \in Contents, NEW root \in AllFrames \cup {None}, NEW page \in Pages
    PROVE  IsPath(mem, root, page, PathIn(mem, root, page))
<1> DEFINE At(P, k) == P[k] = IF k = RootLevel THEN root ELSE Below(mem, P[k + 1], page[k + 1])
           From(l) == \E P : /\ P = [k \in Levels |-> P[k]]
                             /\ \A k \in Levels : k >= l => At(P, k)
           bad == {l \in Levels : ~From(l)}
<1>1. bad = {}
  <2>1. SUFFICES ASSUME bad # {} PROVE FALSE
    OBVIOUS
  <2>2. PICK l \in bad : l = RootLevel \/ (l + 1 \in Levels /\ l < RootLevel /\ l + 1 \notin bad)
    BY <2>1, Topmost
  <2>3. l \in Levels /\ ~From(l)
    BY <2>2
  <2>4. CASE l = RootLevel
    <3>1. \A k \in Levels : k >= l => k = RootLevel
      BY <2>4, LevelsFacts
    <3> DEFINE P == [k \in Levels |-> root]
    <3>2. At(P, RootLevel) /\ P = [k \in Levels |-> P[k]]
      BY LevelsFacts
    <3>4. From(l)
      BY <3>1, <3>2
    <3> QED BY <2>3, <3>4
  <2>5. CASE l # RootLevel
    <3>1. From(l + 1)
      BY <2>2, <2>5
    <3>2. PICK P : /\ P = [k \in Levels |-> P[k]]
                   /\ \A k \in Levels : k >= l + 1 => At(P, k)
      BY <3>1
    <3> DEFINE Q == [k \in Levels |-> IF k = l THEN Below(mem, P[l + 1], page[l + 1]) ELSE P[k]]
    <3>3. ASSUME NEW k \in Levels, k >= l PROVE At(Q, k)
      <4>1. CASE k = l
        <5>2. l + 1 \in Levels /\ l + 1 # l
          BY <2>3, <2>5, LevelsFacts
        <5>3. Q[l + 1] = P[l + 1]
          BY <5>2
        <5> QED BY <4>1, <5>3, <2>5
      <4>2. CASE k # l
        <5>1. k >= l + 1 /\ k # l
          BY <3>3, <4>2, <2>3, LevelsFacts
        <5>2. At(P, k)
          BY <5>1, <3>2
        <5>3. Q[k] = P[k]
          BY <4>2
        <5>5. CASE k # RootLevel
          <6>1. k + 1 \in Levels /\ k + 1 # l
            BY <5>5, <5>1, <2>3, LevelsFacts
          <6>2. Q[k + 1] = P[k + 1]
            BY <6>1
          <6> QED BY <5>2, <5>3, <6>2
        <5> QED BY <5>2, <5>3, <5>5
      <4> QED BY <4>1, <4>2
    <3>4. Q = [k \in Levels |-> Q[k]]
      OBVIOUS
    <3> HIDE DEF Q
    <3>5. From(l)
      BY <3>3, <3>4
    <3> QED BY <2>3, <3>5
  <2> QED BY <2>4, <2>5
<1>2. From(LeafLevel)
  BY <1>1, LevelsFacts
<1>3. PICK P : /\ P = [k \in Levels |-> P[k]]
               /\ \A k \in Levels : k >= LeafLevel => At(P, k)
  BY <1>2
<1>4. \A k \in Levels : At(P, k)
  <2>1. \A k \in Levels : k >= LeafLevel
    BY LevelsFacts
  <2> QED BY <1>3, <2>1
<1> DEFINE Step(Q, l) ==
              IF l = RootLevel THEN root
              ELSE LET pte == IF Q[l + 1] = None THEN None ELSE mem[Q[l + 1]][page[l + 1]]
                   IN  IF pte = None \/ pte.huge THEN None ELSE pte.frame
<1>5. ASSUME NEW Q, NEW l
      PROVE  Step(Q, l) = IF l = RootLevel THEN root ELSE Below(mem, Q[l + 1], page[l + 1])
  BY DEF Below, Linked
<1>6. P = [l \in Levels |-> Step(P, l)]
  BY <1>3, <1>4, <1>5
<1>7. PathIn(mem, root, page) = [l \in Levels |-> Step(PathIn(mem, root, page), l)]
  BY <1>6, Zenon DEF PathIn
<1> HIDE DEF Step
<1>8. PathEq(mem, root, page, PathIn(mem, root, page))
  BY <1>5, <1>7 DEF PathEq
<1> QED BY <1>8, PathEqIs

\* The path of a page under a live root goes through live nodes.
LEMMA PathLive ==
    ASSUME NEW mem, NEW tops, NEW N, AreLevels(mem, tops, N),
           NEW root \in N[RootLevel], NEW page \in Pages, NEW P, IsPath(mem, root, page, P)
    PROVE  \A l \in Levels : P[l] # None => P[l] \in N[l]
<1> DEFINE bad == {l \in Levels : P[l] # None /\ P[l] \notin N[l]}
<1>1. SUFFICES ASSUME bad # {} PROVE FALSE
  OBVIOUS
<1>2. PICK l \in bad : l = RootLevel \/ (l + 1 \in Levels /\ l < RootLevel /\ l + 1 \notin bad)
  BY <1>1, Topmost
<1>3. l \in Levels /\ P[l] \in AllFrames /\ P[l] # None /\ P[l] \notin N[l]
  BY <1>2 DEF IsPath
<1>4. l # RootLevel
  BY <1>3 DEF IsPath
<1>5. l + 1 \in Levels /\ l < RootLevel /\ P[l] = Below(mem, P[l + 1], page[l + 1]) /\ page[l + 1] \in Index
  BY <1>2, <1>4, PageType DEF IsPath
<1>6. P[l + 1] # None /\ LinksTo(mem[P[l + 1]][page[l + 1]], P[l])
  BY <1>3, <1>5 DEF Below, LinksTo
<1>7. P[l + 1] \in N[l + 1]
  BY <1>2, <1>4, <1>6
<1> QED BY <1>3, <1>5, <1>6, <1>7 DEF AreLevels
-----------------------------------------------------------------------------
One(b) == IF b THEN 1 ELSE 0

\* One() is a number.
LEMMA OneType == \A b : One(b) \in Nat
  BY DEF One

\* Two sets that differ at one element differ by one in size.
LEMMA SetsDifferAt ==
    ASSUME NEW S, NEW T, NEW x, IsFiniteSet(S), S \ {x} = T \ {x}
    PROVE  /\ IsFiniteSet(T) /\ Cardinality(S) \in Nat /\ Cardinality(T) \in Nat
           /\ Cardinality(T) + One(x \in S) = Cardinality(S) + One(x \in T)
<1>1. IsFiniteSet(S \ {x}) /\ Cardinality(S) \in Nat /\ Cardinality(S \ {x}) \in Nat
      /\ Cardinality(S) = Cardinality(S \ {x}) + One(x \in S)
  <2>1. /\ IsFiniteSet(S \ {x})
        /\ Cardinality(S \ {x}) = IF x \in S THEN Cardinality(S) - 1 ELSE Cardinality(S)
    BY FS_RemoveElement
  <2>2. Cardinality(S) \in Nat /\ Cardinality(S \ {x}) \in Nat
    BY <2>1, FS_CardinalityType
  <2> QED BY <2>1, <2>2 DEF One
<1>2. CASE x \in T
  <2>1. T = (T \ {x}) \cup {x}
    BY <1>2
  <2> QED BY <1>1, <1>2, <2>1, FS_AddElement, FS_CardinalityType DEF One
<1>3. CASE x \notin T
  <2>1. T = T \ {x}
    BY <1>3
  <2>2. T = S \ {x}
    BY <2>1
  <2>3. Cardinality(T) = Cardinality(S \ {x}) /\ IsFiniteSet(T) /\ One(x \in T) = 0
    BY <1>1, <1>3, <2>2 DEF One
  <2> QED BY <1>1, <2>3, OneType
<1> QED BY <1>2, <1>3

\* The entries that link to a frame can be counted.
LEMMA EntriesType ==
    ASSUME NEW mem, NEW U \in SUBSET AllFrames, NEW f
    PROVE  IsFiniteSet(EntriesTo(mem, U, f)) /\ Entries(mem, U, f) \in Nat
<1>1. IsFiniteSet(U)
  BY FiniteAssumption, FS_Subset
<1>2. IsFiniteSet(U \X Index)
  BY <1>1, IndexFacts, FS_Product
<1>3. EntriesTo(mem, U, f) \in SUBSET (U \X Index)
  BY DEF EntriesTo
<1> QED BY <1>2, <1>3, FS_Subset, FS_CardinalityType DEF Entries

Edited(mem, mem2, n, i, pte) == mem2 = [mem EXCEPT ![n][i] = pte]

\* A store to an entry changes this entry and no other.
LEMMA EditedFacts ==
    ASSUME NEW mem \in Contents, NEW mem2, NEW n \in AllFrames, NEW i \in Index, NEW pte \in Pte \cup {None},
           Edited(mem, mem2, n, i, pte)
    PROVE  /\ mem2 \in Contents
           /\ mem2[n][i] = pte
           /\ \A k \in AllFrames, j \in Index : k # n \/ j # i => mem2[k][j] = mem[k][j]
           /\ \A k \in AllFrames : k # n => mem2[k] = mem[k]
  BY DEF Edited, Contents

DiffersAt(mem, mem2, n, i, pte) ==
    /\ mem2 \in Contents /\ mem2[n][i] = pte
    /\ \A k \in AllFrames, j \in Index : k # n \/ j # i => mem2[k][j] = mem[k][j]
    /\ \A k \in AllFrames : k # n => mem2[k] = mem[k]

\* The same as one predicate.
LEMMA EditedDiffers ==
    ASSUME NEW mem \in Contents, NEW mem2, NEW n \in AllFrames, NEW i \in Index, NEW pte \in Pte \cup {None},
           Edited(mem, mem2, n, i, pte)
    PROVE  DiffersAt(mem, mem2, n, i, pte)
  BY DEF DiffersAt, Edited, Contents

\* How a store to an entry changes the number of the links to a frame.
LEMMA EntriesEdited ==
    ASSUME NEW mem \in Contents, NEW mem2, NEW U \in SUBSET AllFrames, NEW n \in U, NEW i \in Index,
           NEW pte \in Pte \cup {None}, NEW f, Edited(mem, mem2, n, i, pte)
    PROVE  Entries(mem2, U, f) + One(LinksTo(mem[n][i], f)) = Entries(mem, U, f) + One(LinksTo(pte, f))
<1> DEFINE S == EntriesTo(mem, U, f)
           T == EntriesTo(mem2, U, f)
           x == <<n, i>>
<1>0. /\ mem2[n][i] = pte
      /\ \A k \in AllFrames, j \in Index : k # n \/ j # i => mem2[k][j] = mem[k][j]
  BY EditedFacts
<1>1. \A k \in U, j \in Index : <<k, j>> \in S <=> LinksTo(mem[k][j], f)
  BY DEF EntriesTo
<1>2. \A k \in U, j \in Index : <<k, j>> \in T <=> LinksTo(mem2[k][j], f)
  BY DEF EntriesTo
<1>3. S \subseteq U \X Index /\ T \subseteq U \X Index
  BY DEF EntriesTo
<1>4. (x \in S <=> LinksTo(mem[n][i], f)) /\ (x \in T <=> LinksTo(pte, f))
  BY <1>0, <1>1, <1>2
<1> HIDE DEF S, T
<1>5. ASSUME NEW y \in U \X Index, y # x PROVE y \in S <=> y \in T
  <2>1. y = <<y[1], y[2]>> /\ y[1] \in U /\ y[2] \in Index /\ (y[1] # n \/ y[2] # i)
    BY <1>5
  <2>2. mem2[y[1]][y[2]] = mem[y[1]][y[2]]
    BY <2>1, <1>0
  <2> QED BY <2>1, <2>2, <1>1, <1>2
<1>6. S \ {x} = T \ {x}
  BY <1>3, <1>5
<1>7. IsFiniteSet(S)
  BY EntriesType DEF S
<1>8. Cardinality(T) + One(x \in S) = Cardinality(S) + One(x \in T)
  BY <1>6, <1>7, SetsDifferAt
<1>9. One(x \in S) = One(LinksTo(mem[n][i], f)) /\ One(x \in T) = One(LinksTo(pte, f))
  BY <1>4 DEF One
<1> QED BY <1>8, <1>9 DEF Entries, S, T

\* Two memories have the same links to f from their nodes.
SameLinks(mem, U, mem2, U2, f) ==
    \A n \in AllFrames, i \in Index :
        n \in U /\ LinksTo(mem[n][i], f) <=> n \in U2 /\ LinksTo(mem2[n][i], f)

\* The same links are the same number of links.
LEMMA EntriesSame ==
    ASSUME NEW mem, NEW mem2, NEW U \in SUBSET AllFrames, NEW U2 \in SUBSET AllFrames, NEW f,
           SameLinks(mem, U, mem2, U2, f)
    PROVE  Entries(mem2, U2, f) = Entries(mem, U, f)
<1> DEFINE S == EntriesTo(mem, U, f)
           T == EntriesTo(mem2, U2, f)
<1>1. \A n, i : <<n, i>> \in S <=> n \in U /\ i \in Index /\ LinksTo(mem[n][i], f)
  BY DEF EntriesTo
<1>2. \A n, i : <<n, i>> \in T <=> n \in U2 /\ i \in Index /\ LinksTo(mem2[n][i], f)
  BY DEF EntriesTo
<1>3. S \subseteq U \X Index /\ T \subseteq U2 \X Index
  BY DEF EntriesTo
<1>4. ASSUME NEW y PROVE y \in S <=> y \in T
  <2>1. y \in S \/ y \in T => y = <<y[1], y[2]>> /\ y[1] \in AllFrames /\ y[2] \in Index
    BY <1>3
  <2> HIDE DEF S, T
  <2> QED BY <1>1, <1>2, <2>1 DEF SameLinks
<1>5. S = T
  BY <1>4
<1> QED BY <1>5 DEF Entries

\* Fewer nodes have no more links to a frame.
LEMMA EntriesFewer ==
    ASSUME NEW mem, NEW U \in SUBSET AllFrames, NEW U2 \in SUBSET U, NEW f
    PROVE  Entries(mem, U2, f) <= Entries(mem, U, f)
<1>1. EntriesTo(mem, U2, f) \in SUBSET EntriesTo(mem, U, f)
  BY DEF EntriesTo
<1> QED BY <1>1, EntriesType, FS_Subset DEF Entries

\* The mappings with a given root can be counted.
LEMMA LiveType ==
    ASSUME NEW rts, NEW f
    PROVE  IsFiniteSet(MappingsOf(rts, f)) /\ Live(rts, f) \in Nat
<1>1. MappingsOf(rts, f) \in SUBSET Mappings
  BY DEF MappingsOf
<1> QED BY <1>1, FiniteAssumption, FS_Subset, FS_CardinalityType DEF Live

Rerooted(rts, rts2, m, r) == rts2 = [rts EXCEPT ![m] = r]

\* How a new root of a mapping changes the number of the mappings with a given root.
LEMMA LiveRerooted ==
    ASSUME NEW rts \in Roots, NEW rts2, NEW m \in Mappings, NEW r \in AllFrames \cup {None}, NEW f \in AllFrames,
           Rerooted(rts, rts2, m, r)
    PROVE  /\ rts2 \in Roots
           /\ Live(rts2, f) + One(rts[m] = f) = Live(rts, f) + One(r = f)
<1> DEFINE S == MappingsOf(rts, f)
           T == MappingsOf(rts2, f)
<1>0. rts2 \in Roots /\ rts2[m] = r /\ \A k \in Mappings : k # m => rts2[k] = rts[k]
  BY DEF Roots, Rerooted
<1>1. f # None
  BY NoneAssumption
<1>2. (m \in S <=> rts[m] = f) /\ (m \in T <=> r = f)
  BY <1>0, <1>1 DEF MappingsOf
<1>3. S \ {m} = T \ {m}
  BY <1>0 DEF MappingsOf
<1>4. Cardinality(T) + One(m \in S) = Cardinality(S) + One(m \in T)
  BY <1>3, LiveType, SetsDifferAt
<1>5. One(m \in S) = One(rts[m] = f) /\ One(m \in T) = One(r = f)
  BY <1>2 DEF One
<1> QED BY <1>0, <1>4, <1>5 DEF Live

\* The guards of a frame can be counted.
LEMMA HeldType ==
    ASSUME NEW A, NEW g \in Seq(A), NEW f
    PROVE  /\ IsFiniteSet(Places(g, f)) /\ Held(g, f) \in Nat
           /\ Held(g, f) = 0 <=> \A k \in 1 .. Len(g) : g[k] # f
<1>1. Len(g) \in Nat
  OBVIOUS
<1>2. IsFiniteSet(1 .. Len(g))
  BY <1>1, FS_Interval
<1>3. Places(g, f) \in SUBSET (1 .. Len(g))
  BY DEF Places
<1>4. IsFiniteSet(Places(g, f)) /\ Held(g, f) \in Nat
  BY <1>2, <1>3, FS_Subset, FS_CardinalityType DEF Held
<1>5. Held(g, f) = 0 <=> Places(g, f) = {}
  BY <1>4, FS_EmptySet DEF Held
<1> QED BY <1>4, <1>5 DEF Places

\* Dropping the first guard.
LEMMA HeldTail ==
    ASSUME NEW A, NEW g \in Seq(A), g # <<>>, NEW f
    PROVE  Tail(g) \in Seq(A) /\ Head(g) \in A /\ Held(g, f) = Held(Tail(g), f) + One(Head(g) = f)
<1> DEFINE S == Places(g, f)
           T == Places(Tail(g), f)
           shift == [k \in T |-> k + 1]
<1>1. /\ Tail(g) \in Seq(A) /\ Len(g) \in Nat /\ Len(g) > 0 /\ Len(Tail(g)) = Len(g) - 1
      /\ Head(g) = g[1] /\ g[1] \in A
      /\ \A k \in 1 .. Len(g) - 1 : Tail(g)[k] = g[k + 1]
  OBVIOUS
<1>2. \A k : k \in S <=> k \in 1 .. Len(g) /\ g[k] = f
  BY DEF Places
<1>3. \A k : k \in T <=> k \in 1 .. Len(g) - 1 /\ g[k + 1] = f
  BY <1>1 DEF Places
<1>f. IsFiniteSet(S) /\ IsFiniteSet(T)
  BY <1>1, HeldType
<1> HIDE DEF S, T
<1>4. shift \in Bijection(T, S \ {1})
  <2>1. \A k \in T : k + 1 \in S \ {1}
    BY <1>1, <1>2, <1>3
  <2>2. \A j, k \in T : j + 1 = k + 1 => j = k
    BY <1>3
  <2>3. ASSUME NEW j \in S \ {1} PROVE j - 1 \in T /\ j - 1 + 1 = j
    <3>1. j \in 1 .. Len(g) /\ g[j] = f /\ j # 1
      BY <1>2
    <3>2. j - 1 \in 1 .. Len(g) - 1 /\ j - 1 + 1 = j
      BY <1>1, <3>1
    <3> QED BY <1>3, <3>1, <3>2
  <2>4. shift \in [T -> S \ {1}]
    BY <2>1
  <2>5. \A j, k \in T : shift[j] = shift[k] => j = k
    BY <2>2
  <2>6. \A j \in S \ {1} : \E k \in T : shift[k] = j
    BY <2>3
  <2> HIDE DEF shift
  <2>7. shift \in Injection(T, S \ {1})
    BY <2>4, <2>5 DEF Injection, IsInjective
  <2>8. shift \in Surjection(T, S \ {1})
    BY <2>4, <2>6 DEF Surjection
  <2> QED BY <2>7, <2>8 DEF Bijection
<1>5. ExistsBijection(T, S \ {1})
  BY <1>4, Zenon DEF ExistsBijection
<1>6. Cardinality(S \ {1}) = Cardinality(T)
  BY <1>5, <1>f, FS_Bijection
<1>7. Cardinality(S) \in Nat /\ Cardinality(T) \in Nat /\ Cardinality(S) = Cardinality(S \ {1}) + One(1 \in S)
  <2>1. Cardinality(S \ {1}) = IF 1 \in S THEN Cardinality(S) - 1 ELSE Cardinality(S)
    BY <1>f, FS_RemoveElement
  <2>2. Cardinality(S) \in Nat /\ Cardinality(T) \in Nat
    BY <1>f, FS_CardinalityType
  <2> QED BY <2>1, <2>2 DEF One
<1>8. One(1 \in S) = One(Head(g) = f)
  BY <1>1, <1>2 DEF One
<1> QED BY <1>1, <1>6, <1>7, <1>8 DEF Held, S, T

\* Adding a guard in front.
LEMMA HeldCons ==
    ASSUME NEW A, NEW g \in Seq(A), NEW x \in A, NEW f
    PROVE  <<x>> \o g \in Seq(A) /\ <<x>> \o g # <<>> /\ Held(<<x>> \o g, f) = Held(g, f) + One(x = f)
<1> DEFINE h == <<x>> \o g
<1>1. h \in Seq(A) /\ h # <<>> /\ Tail(h) = g /\ Head(h) = x
  OBVIOUS
<1> HIDE DEF h
<1>2. Held(h, f) = Held(Tail(h), f) + One(Head(h) = f)
  BY <1>1, HeldTail
<1>3. Held(h, f) = Held(g, f) + One(x = f)
  BY <1>1, <1>2
<1> QED BY <1>1, <1>3 DEF h

\* No guards hold no frame.
LEMMA HeldNone ==
    ASSUME NEW f
    PROVE  Held(<<>>, f) = 0
<1>1. Places(<<>>, f) = {}
  BY DEF Places
<1> QED BY <1>1, FS_EmptySet DEF Held
-----------------------------------------------------------------------------
NodesOn(stk) == [d \in 1 .. Len(stk) |-> stk[d].node]

\* The nodes that duplicate_subtree() holds are a sequence of frames.
LEMMA NodesOnType ==
    ASSUME NEW stk \in Seq(CopyFrame)
    PROVE  /\ NodesOn(stk) \in Seq(AllFrames) /\ Len(NodesOn(stk)) = Len(stk)
           /\ \A d \in 1 .. Len(stk) : NodesOn(stk)[d] = stk[d].node
<1>1. \A d \in 1 .. Len(stk) : stk[d].node \in AllFrames
  <2>1. \A d \in 1 .. Len(stk) : stk[d] \in CopyFrame
    OBVIOUS
  <2> QED BY <2>1 DEF CopyFrame
<1>2. NodesOn(stk) \in [1 .. Len(stk) -> AllFrames] /\ Len(stk) \in Nat
  BY <1>1 DEF NodesOn
<1>3. NodesOn(stk) \in Seq(AllFrames) /\ Len(NodesOn(stk)) = Len(stk)
  BY <1>2
<1> QED BY <1>3 DEF NodesOn

\* The operation holds the guards of its kind.
LEMMA GuardsFacts ==
    ASSUME NEW o
    PROVE  /\ o = Idle => GuardsOf(o) = <<>>
           /\ o \in HoldOp => GuardsOf(o) = o.frames
           /\ o \in MapOp => GuardsOf(o) = IF o.kind = "map" THEN <<o.frame>> \o o.held ELSE o.held
           /\ o \in CopyOp => GuardsOf(o) = NodesOn(o.stack)
           /\ o \in DropOp => GuardsOf(o) = <<>>
<1>1. o = Idle => GuardsOf(o) = <<>>
  BY DEF GuardsOf, Idle
<1>2. o \in HoldOp => GuardsOf(o) = o.frames
  BY DEF GuardsOf, HoldOp
<1>3. o \in MapOp => GuardsOf(o) = IF o.kind = "map" THEN <<o.frame>> \o o.held ELSE o.held
  BY DEF GuardsOf, MapOp
<1>4. o \in CopyOp => GuardsOf(o) = NodesOn(o.stack)
  BY DEF GuardsOf, CopyOp, NodesOn
<1>5. o \in DropOp => GuardsOf(o) = <<>>
  BY DEF GuardsOf, DropOp
<1> QED BY <1>1, <1>2, <1>3, <1>4, <1>5

IsOp(o) == o = Idle \/ o \in HoldOp \/ o \in MapOp \/ o \in CopyOp \/ o \in DropOp

\* The invariant of an operation includes its type.
LEMMA OpIsOp ==
    ASSUME NEW mem, NEW rts, NEW cur, NEW o, NEW N, OpInv(mem, rts, cur, o, N)
    PROVE  IsOp(o)
  BY DEF OpInv, IsOp, Holds, Maps, Copies, Drops, DropsNothing

\* The guards of an operation are a sequence of frames.
LEMMA GuardsType ==
    ASSUME NEW o, IsOp(o)
    PROVE  GuardsOf(o) \in Seq(AllFrames)
<1>1. CASE o = Idle
  <2>1. GuardsOf(o) = <<>>
    BY <1>1, GuardsFacts
  <2> QED BY <2>1
<1>2. CASE o \in HoldOp
  BY <1>2, GuardsFacts DEF HoldOp
<1>3. CASE o \in MapOp
  <2>1. o.held \in Seq(AllFrames) /\ o.frame \in AllFrames
    BY <1>3 DEF MapOp
  <2>2. <<o.frame>> \o o.held \in Seq(AllFrames)
    BY <2>1, HeldCons
  <2> QED BY <1>3, <2>1, <2>2, GuardsFacts
<1>4. CASE o \in CopyOp
  <2>1. o.stack \in Seq(CopyFrame)
    BY <1>4 DEF CopyOp
  <2> QED BY <1>4, <2>1, NodesOnType, GuardsFacts
<1>5. CASE o \in DropOp
  <2>1. GuardsOf(o) = <<>>
    BY <1>5, GuardsFacts
  <2> QED BY <2>1
<1> QED BY <1>1, <1>2, <1>3, <1>4, <1>5 DEF IsOp

\* The kind of an operation tells its type.
LEMMA KindFacts ==
    ASSUME NEW o, IsOp(o)
    PROVE  /\ o.kind = "duplicate" <=> o \in CopyOp
           /\ o.kind = "drop_subtree" <=> o \in DropOp
           /\ (o.kind = "map" \/ o.kind = "reference") <=> o \in MapOp
           /\ (o.kind = "drop" \/ o.kind = "unwind") <=> o \in HoldOp
           /\ o = Idle <=> o.kind = "idle"
<1>1. CASE o = Idle
  BY <1>1 DEF Idle, CopyOp, DropOp, MapOp, HoldOp
<1>2. CASE o \in HoldOp
  BY <1>2 DEF Idle, CopyOp, DropOp, MapOp, HoldOp
<1>3. CASE o \in MapOp
  BY <1>3 DEF Idle, CopyOp, DropOp, MapOp, HoldOp
<1>4. CASE o \in CopyOp
  BY <1>4 DEF Idle, CopyOp, DropOp, MapOp, HoldOp
<1>5. CASE o \in DropOp
  BY <1>5 DEF Idle, CopyOp, DropOp, MapOp, HoldOp
<1> QED BY <1>1, <1>2, <1>3, <1>4, <1>5 DEF IsOp
-----------------------------------------------------------------------------
\* The top nodes are the roots of the live mappings and the nodes that a copy holds.
LEMMA TopsType ==
    ASSUME NEW rts \in Roots, NEW o, IsOp(o)
    PROVE  /\ TopsOf(rts, o) \in [Levels -> SUBSET AllFrames]
           /\ \A l \in Levels : \A x : x \in TopsOf(rts, o)[l] <=>
                 \/ l = RootLevel /\ x # None /\ \E m \in Mappings : rts[m] = x
                 \/ o \in CopyOp /\ \E d \in 1 .. Len(o.stack) : LevelAt(d) = l /\ o.stack[d].node = x
<1>1. ASSUME NEW l \in Levels, NEW x
      PROVE  x \in TopsOf(rts, o)[l] <=>
                 \/ l = RootLevel /\ x # None /\ \E m \in Mappings : rts[m] = x
                 \/ o \in CopyOp /\ \E d \in 1 .. Len(o.stack) : LevelAt(d) = l /\ o.stack[d].node = x
  <2>1. x \in RootsOf(rts) <=> x # None /\ \E m \in Mappings : rts[m] = x
    BY DEF RootsOf
  <2>2. x \in CopiesOf(o, l) <=> o \in CopyOp /\ \E d \in 1 .. Len(o.stack) : LevelAt(d) = l /\ o.stack[d].node = x
    <3>1. CASE o \in CopyOp
      <4>1. o.kind = "duplicate"
        BY <3>1 DEF CopyOp
      <4>2. CopiesOf(o, l) = {o.stack[d].node : d \in {k \in 1 .. Len(o.stack) : RootLevel - k + 1 = l}}
        BY <4>1 DEF CopiesOf
      <4> QED BY <3>1, <4>2 DEF LevelAt
    <3>2. CASE o \notin CopyOp
      <4>1. o.kind # "duplicate"
        BY <3>2, KindFacts
      <4> QED BY <3>2, <4>1 DEF CopiesOf
    <3> QED BY <3>1, <3>2
  <2>3. TopsOf(rts, o)[l] = (IF l = RootLevel THEN RootsOf(rts) ELSE {}) \cup CopiesOf(o, l)
    BY DEF TopsOf
  <2> QED BY <2>1, <2>2, <2>3
<1>2. ASSUME NEW l \in Levels PROVE TopsOf(rts, o)[l] \in SUBSET AllFrames
  <2>1. ASSUME NEW x \in TopsOf(rts, o)[l] PROVE x \in AllFrames
    <3>1. CASE l = RootLevel /\ x # None /\ \E m \in Mappings : rts[m] = x
      BY <3>1 DEF Roots
    <3>2. CASE o \in CopyOp /\ \E d \in 1 .. Len(o.stack) : LevelAt(d) = l /\ o.stack[d].node = x
      <4>1. o.stack \in Seq(CopyFrame)
        BY <3>2 DEF CopyOp
      <4>2. PICK d \in 1 .. Len(o.stack) : o.stack[d].node = x
        BY <3>2
      <4>3. o.stack[d] \in CopyFrame
        BY <4>1
      <4> QED BY <4>2, <4>3 DEF CopyFrame
    <3> QED BY <1>1, <2>1, <3>1, <3>2
  <2> QED BY <2>1
<1>3. TopsOf(rts, o) \in [Levels -> SUBSET AllFrames]
  <2>1. TopsOf(rts, o) = [l \in Levels |-> TopsOf(rts, o)[l]]
    BY DEF TopsOf
  <2> HIDE DEF TopsOf
  <2> QED BY <2>1, <1>2
<1> QED BY <1>1, <1>3

\* A node is on some level.
LEMMA AllOfType ==
    ASSUME NEW N \in [Levels -> SUBSET AllFrames]
    PROVE  /\ AllOf(N) \in SUBSET AllFrames
           /\ \A x : x \in AllOf(N) <=> \E l \in Levels : x \in N[l]
<1>1. \A x : x \in AllOf(N) <=> \E l \in Levels : x \in N[l]
  BY DEF AllOf
<1> QED BY <1>1

\* Sets with no element, with one, and with more.
LEMMA Singles ==
    ASSUME NEW S, IsFiniteSet(S)
    PROVE  /\ Cardinality(S) \in Nat
           /\ S # {} <=> Cardinality(S) >= 1
           /\ \A x, y \in S : x # y => Cardinality(S) >= 2
<1>1. Cardinality(S) \in Nat
  BY FS_CardinalityType
<1>2. S # {} <=> Cardinality(S) >= 1
  BY <1>1, FS_EmptySet
<1>3. ASSUME NEW x \in S, NEW y \in S, x # y PROVE Cardinality(S) >= 2
  <2>1. IsFiniteSet(S \ {x}) /\ Cardinality(S \ {x}) = Cardinality(S) - 1
    BY FS_RemoveElement
  <2>2. S \ {x} # {}
    BY <1>3
  <2>3. Cardinality(S \ {x}) \in Nat /\ Cardinality(S \ {x}) # 0
    BY <2>1, <2>2, FS_CardinalityType, FS_EmptySet
  <2> QED BY <1>1, <2>1, <2>3
<1> QED BY <1>1, <1>2, <1>3

\* A frame has one reference at most.
Unique(mem, N, rts, g, f) ==
    /\ \A n, k \in AllOf(N), i, j \in Index : LinksTo(mem[n][i], f) /\ LinksTo(mem[k][j], f) => n = k /\ i = j
    /\ \A m, q \in Mappings : rts[m] = f /\ rts[q] = f => m = q
    /\ \A k, q \in 1 .. Len(g) : g[k] = f /\ g[q] = f => k = q
    /\ \A n \in AllOf(N), i \in Index, m \in Mappings : ~(LinksTo(mem[n][i], f) /\ rts[m] = f)
    /\ \A n \in AllOf(N), i \in Index, k \in 1 .. Len(g) : ~(LinksTo(mem[n][i], f) /\ g[k] = f)
    /\ \A m \in Mappings, k \in 1 .. Len(g) : ~(rts[m] = f /\ g[k] = f)

\* The only owner of a node is its only user: one entry, one mapping or one guard.
LEMMA NodesHaveOneUser ==
    ASSUME NEW mem, NEW N \in [Levels -> SUBSET AllFrames], NEW rts, NEW o, IsOp(o), NEW own \in [AllFrames -> Nat],
           IsTree(own, mem, N), Covers(own, mem, N, rts, o), NEW f \in AllOf(N)
    PROVE  f \in AllFrames /\ f \in Ram /\ own[f] = 1 /\ Unique(mem, N, rts, GuardsOf(o), f)
<1> DEFINE g == GuardsOf(o)
           E == EntriesTo(mem, AllOf(N), f)
           M == MappingsOf(rts, f)
           G == Places(g, f)
<1>0. AllOf(N) \in SUBSET AllFrames /\ g \in Seq(AllFrames)
  BY AllOfType, GuardsType
<1>1. f \in AllFrames /\ f \in Ram /\ own[f] = 1
  BY <1>0, AllOfType DEF IsTree
<1>2. Entries(mem, AllOf(N), f) + Live(rts, f) + Held(g, f) <= 1
  <2>1. own[f] >= Users(mem, N, rts, o, f)
    BY <1>1 DEF Covers
  <2>2. Users(mem, N, rts, o, f) \in Nat
    BY <1>0, EntriesType, LiveType, HeldType DEF Users
  <2> QED BY <1>1, <2>1, <2>2 DEF Users
<1>3. IsFiniteSet(E) /\ IsFiniteSet(M) /\ IsFiniteSet(G)
  BY <1>0, EntriesType, LiveType, HeldType
<1>4. Cardinality(E) + Cardinality(M) + Cardinality(G) <= 1
  BY <1>2 DEF Entries, Live, Held
<1>5. Cardinality(E) \in Nat /\ Cardinality(M) \in Nat /\ Cardinality(G) \in Nat
  BY <1>3, Singles
<1>6. f # None
  BY <1>1, NoneAssumption
<1>7. \A n \in AllOf(N), i \in Index : LinksTo(mem[n][i], f) => <<n, i>> \in E
  BY DEF EntriesTo
<1>8. \A m \in Mappings : rts[m] = f => m \in M
  BY <1>6 DEF MappingsOf
<1>9. \A k \in 1 .. Len(g) : g[k] = f => k \in G
  BY DEF Places
<1> HIDE DEF E, M, G, g
<1>10. /\ \A x, y \in E : x = y
       /\ \A x, y \in M : x = y
       /\ \A x, y \in G : x = y
  <2>1. \A x, y \in E : x # y => Cardinality(E) >= 2
    BY <1>3, Singles
  <2>2. \A x, y \in M : x # y => Cardinality(M) >= 2
    BY <1>3, Singles
  <2>3. \A x, y \in G : x # y => Cardinality(G) >= 2
    BY <1>3, Singles
  <2> QED BY <1>4, <1>5, <2>1, <2>2, <2>3
<1>11. (E = {} \/ M = {}) /\ (E = {} \/ G = {}) /\ (M = {} \/ G = {})
  <2>1. (E # {} => Cardinality(E) >= 1) /\ (M # {} => Cardinality(M) >= 1) /\ (G # {} => Cardinality(G) >= 1)
    BY <1>3, Singles
  <2> QED BY <1>4, <1>5, <2>1
<1>12. ASSUME NEW n \in AllOf(N), NEW k \in AllOf(N), NEW i \in Index, NEW j \in Index,
              LinksTo(mem[n][i], f), LinksTo(mem[k][j], f)
       PROVE  n = k /\ i = j
  <2>1. <<n, i>> = <<k, j>>
    BY <1>7, <1>10, <1>12
  <2> QED BY <2>1
<1>13. Unique(mem, N, rts, g, f)
  BY <1>7, <1>8, <1>9, <1>10, <1>11, <1>12 DEF Unique
<1> QED BY <1>1, <1>13 DEF g

\* Where a node is referred to.
LEMMA NodesAreReferred ==
    ASSUME NEW mem, NEW N, NEW rts \in Roots, NEW o, IsOp(o), AreLevels(mem, TopsOf(rts, o), N),
           NEW l \in Levels, NEW f \in N[l]
    PROVE  \/ l = RootLevel /\ \E m \in Mappings : rts[m] = f
           \/ o \in CopyOp /\ \E d \in 1 .. Len(o.stack) : LevelAt(d) = l /\ o.stack[d].node = f
           \/ l < RootLevel /\ \E n \in N[l + 1], i \in Index : LinksTo(mem[n][i], f)
<1>1. f \in AllFrames
  BY DEF AreLevels
<1>2. f \in TopsOf(rts, o)[l] \/ (l < RootLevel /\ \E n \in N[l + 1], i \in Index : LinksTo(mem[n][i], f))
  BY <1>1 DEF AreLevels
<1> QED BY <1>2, TopsType

\* A frame that a guard holds is not a node, unless duplicate() is making it.
LEMMA HeldIsNotNode ==
    ASSUME NEW mem, NEW N, NEW rts \in Roots, NEW o, IsOp(o), NEW own \in [AllFrames -> Nat],
           AreLevels(mem, TopsOf(rts, o), N), IsTree(own, mem, N), Covers(own, mem, N, rts, o),
           o \notin CopyOp, NEW k \in 1 .. Len(GuardsOf(o))
    PROVE  GuardsOf(o)[k] \notin AllOf(N)
<1> DEFINE f == GuardsOf(o)[k]
<1>0. N \in [Levels -> SUBSET AllFrames]
  BY DEF AreLevels
<1> SUFFICES ASSUME f \in AllOf(N) PROVE FALSE
  OBVIOUS
<1>1. Unique(mem, N, rts, GuardsOf(o), f)
  BY <1>0, NodesHaveOneUser
<1>2. PICK l \in Levels : f \in N[l]
  BY <1>0, AllOfType
<1> HIDE DEF f
<1>3. \/ \E m \in Mappings : rts[m] = f
      \/ l < RootLevel /\ \E n \in N[l + 1], i \in Index : LinksTo(mem[n][i], f)
  BY <1>2, NodesAreReferred
<1>4. l < RootLevel => \A n \in N[l + 1] : n \in AllOf(N)
  BY <1>0, <1>2, LevelsFacts, AllOfType
<1>5. GuardsOf(o)[k] = f
  BY DEF f
<1> QED BY <1>1, <1>3, <1>4, <1>5 DEF Unique

\* A frame that is mapped as a page is not a node.
LEMMA PageIsNotNode ==
    ASSUME NEW mem, NEW N, NEW rts \in Roots, NEW o, IsOp(o), NEW own \in [AllFrames -> Nat],
           AreLevels(mem, TopsOf(rts, o), N), IsTree(own, mem, N), Covers(own, mem, N, rts, o),
           NEW n \in N[LeafLevel], NEW i \in Index, NEW f, LinksTo(mem[n][i], f)
    PROVE  f \notin AllOf(N)
<1>0. N \in [Levels -> SUBSET AllFrames]
  BY DEF AreLevels
<1> SUFFICES ASSUME f \in AllOf(N) PROVE FALSE
  OBVIOUS
<1>1. Unique(mem, N, rts, GuardsOf(o), f)
  BY <1>0, NodesHaveOneUser
<1>2. PICK l \in Levels : f \in N[l]
  BY <1>0, AllOfType
<1>3. n \in AllOf(N)
  BY <1>0, LevelsFacts, AllOfType
<1>4. CASE l = RootLevel /\ \E m \in Mappings : rts[m] = f
  BY <1>1, <1>3, <1>4 DEF Unique
<1>5. CASE o \in CopyOp /\ \E d \in 1 .. Len(o.stack) : LevelAt(d) = l /\ o.stack[d].node = f
  <2>1. o.stack \in Seq(CopyFrame) /\ GuardsOf(o) = NodesOn(o.stack)
    BY <1>5, GuardsFacts DEF CopyOp
  <2>2. \E k \in 1 .. Len(GuardsOf(o)) : GuardsOf(o)[k] = f
    BY <1>5, <2>1, NodesOnType
  <2> QED BY <1>1, <1>3, <2>2 DEF Unique
<1>6. CASE l < RootLevel /\ \E k \in N[l + 1], j \in Index : LinksTo(mem[k][j], f)
  <2>1. PICK k \in N[l + 1], j \in Index : LinksTo(mem[k][j], f)
    BY <1>6
  <2>2. l + 1 \in Levels /\ l + 1 # LeafLevel
    BY <1>2, <1>6, LevelsFacts
  <2>3. k \in AllOf(N)
    BY <1>0, <2>2, AllOfType
  <2>4. k = n
    BY <1>1, <1>3, <2>1, <2>3 DEF Unique
  <2>5. l + 1 = LeafLevel
    BY <2>1, <2>2, <2>4, LevelsFacts DEF IsTree
  <2> QED BY <2>2, <2>5
<1>7. \/ l = RootLevel /\ \E m \in Mappings : rts[m] = f
      \/ o \in CopyOp /\ \E d \in 1 .. Len(o.stack) : LevelAt(d) = l /\ o.stack[d].node = f
      \/ l < RootLevel /\ \E k \in N[l + 1], j \in Index : LinksTo(mem[k][j], f)
  BY <1>2, NodesAreReferred
<1> QED BY <1>4, <1>5, <1>6, <1>7, Zenon
-----------------------------------------------------------------------------
SameLink(pte, pte2) == \A x : LinksTo(pte, x) <=> LinksTo(pte2, x)

\* A leaf entry, or an edit that keeps the links, leaves the nodes as they are.
LEMMA EditKeepsLevels ==
    ASSUME NEW own, NEW mem \in Contents, NEW mem2, NEW tops, NEW N, AreLevels(mem, tops, N), IsTree(own, mem, N),
           NEW h \in Levels, NEW n \in N[h], NEW i \in Index, NEW pte \in Pte \cup {None},
           Edited(mem, mem2, n, i, pte), h = LeafLevel \/ SameLink(mem[n][i], pte)
    PROVE  AreLevels(mem2, tops, N)
<1>0. N \in [Levels -> SUBSET AllFrames] /\ n \in AllFrames
  BY DEF AreLevels
<1>1. /\ mem2[n][i] = pte
      /\ \A k \in AllFrames, j \in Index : k # n \/ j # i => mem2[k][j] = mem[k][j]
  BY <1>0, EditedFacts
<1>2. ASSUME NEW l \in Levels, l < RootLevel, NEW k \in N[l + 1], NEW j \in Index, NEW x
      PROVE  LinksTo(mem[k][j], x) <=> LinksTo(mem2[k][j], x)
  <2>1. l + 1 \in Levels /\ l + 1 # LeafLevel
    BY <1>2, LevelsFacts
  <2>2. k \in AllFrames
    BY <1>0, <2>1
  <2>3. CASE k = n /\ j = i
    <3>1. h = l + 1
      BY <2>1, <2>3 DEF IsTree
    <3> QED BY <2>1, <2>3, <3>1, <1>1 DEF SameLink
  <2>4. CASE k # n \/ j # i
    BY <2>2, <2>4, <1>1
  <2> QED BY <2>3, <2>4
<1>3. ASSUME NEW l \in Levels, NEW x \in AllFrames
      PROVE  x \in N[l] <=> \/ x \in tops[l]
                            \/ l < RootLevel /\ \E k \in N[l + 1], j \in Index : LinksTo(mem2[k][j], x)
  <2>1. x \in N[l] <=> \/ x \in tops[l]
                       \/ l < RootLevel /\ \E k \in N[l + 1], j \in Index : LinksTo(mem[k][j], x)
    BY DEF AreLevels
  <2> QED BY <2>1, <1>2
<1> QED BY <1>0, <1>3 DEF AreLevels

\* What else a step may have to do with a frame that is a node afterwards.
LinksAgree(mem, mem2, N, but) ==
    \A k \in AllOf(N), j \in Index, x \in AllFrames :
        k # but /\ x # but => (LinksTo(mem[k][j], x) <=> LinksTo(mem2[k][j], x))
TopsAgree(tops, tops2, but) == \A l \in Levels, x \in AllFrames : x # but => (x \in tops[l] <=> x \in tops2[l])

Grown(N, N2, h, new) == N2 = [N EXCEPT ![h] = @ \cup {new}]
Pruned(N, N2, h, old) == N2 = [N EXCEPT ![h] = @ \ {old}]

HangsAt(mem, tops, N, h, new) ==
    \A l \in Levels : (\/ new \in tops[l]
                       \/ l < RootLevel /\ \E k \in N[l + 1], j \in Index : LinksTo(mem[k][j], new))
                      <=> l = h

\* An empty node that is linked to or held as a node at one level.
LEMMA NodeAdded ==
    ASSUME NEW mem \in Contents, NEW mem2 \in Contents, NEW tops, NEW tops2, NEW N, AreLevels(mem, tops, N),
           NEW h \in Levels, NEW new \in AllFrames, new \notin AllOf(N), NEW N2, Grown(N, N2, h, new),
           mem2[new] = Zeroed, LinksAgree(mem, mem2, N, new), TopsAgree(tops, tops2, new),
           HangsAt(mem2, tops2, N, h, new)
    PROVE  AreLevels(mem2, tops2, N2)
<1>0. N \in [Levels -> SUBSET AllFrames]
  BY DEF AreLevels
<1>1. /\ N2 \in [Levels -> SUBSET AllFrames]
      /\ \A l \in Levels : \A x : x \in N2[l] <=> x \in N[l] \/ (l = h /\ x = new)
  BY <1>0 DEF Grown
<1>2. ASSUME NEW j \in Index, NEW x PROVE ~LinksTo(mem2[new][j], x)
  BY DEF Zeroed, LinksTo, Linked
<1>3. ASSUME NEW l \in Levels, NEW x \in AllFrames
      PROVE  x \in N2[l] <=> \/ x \in tops2[l]
                             \/ l < RootLevel /\ \E k \in N2[l + 1], j \in Index : LinksTo(mem2[k][j], x)
  <2>1. l < RootLevel => l + 1 \in Levels /\ \A k \in N[l + 1] : k \in AllOf(N) /\ k # new
    BY <1>0, LevelsFacts, AllOfType
  <2>2. l < RootLevel => ((\E k \in N2[l + 1], j \in Index : LinksTo(mem2[k][j], x))
                          <=> (\E k \in N[l + 1], j \in Index : LinksTo(mem2[k][j], x)))
    BY <1>1, <1>2, <2>1
  <2>3. CASE x = new
    <3>1. x \notin N[l]
      BY <2>3, <1>0, AllOfType
    <3> QED BY <1>1, <2>2, <2>3, <3>1 DEF HangsAt
  <2>4. CASE x # new
    <3>1. x \in N[l] <=> \/ x \in tops[l]
                         \/ l < RootLevel /\ \E k \in N[l + 1], j \in Index : LinksTo(mem[k][j], x)
      BY DEF AreLevels
    <3>2. x \in tops[l] <=> x \in tops2[l]
      BY <2>4 DEF TopsAgree
    <3>3. l < RootLevel => \A k \in N[l + 1], j \in Index : LinksTo(mem[k][j], x) <=> LinksTo(mem2[k][j], x)
      BY <2>1, <2>4 DEF LinksAgree
    <3> QED BY <1>1, <2>2, <2>4, <3>1, <3>2, <3>3
  <2> QED BY <2>3, <2>4
<1> QED BY <1>1, <1>3 DEF AreLevels

\* A node without links that nothing refers to any more.
LEMMA NodeRemoved ==
    ASSUME NEW own, NEW mem \in Contents, NEW mem2, NEW tops, NEW tops2, NEW N, AreLevels(mem, tops, N),
           IsTree(own, mem, N), NEW h \in Levels, NEW old \in N[h], NEW N2, Pruned(N, N2, h, old),
           \A j \in Index : ~Linked(mem[old][j]),
           LinksAgree(mem, mem2, N, old), TopsAgree(tops, tops2, old),
           \A l \in Levels : old \notin tops2[l],
           \A k \in AllOf(N), j \in Index : k # old => ~LinksTo(mem2[k][j], old)
    PROVE  AreLevels(mem2, tops2, N2)
<1>0. N \in [Levels -> SUBSET AllFrames]
  BY DEF AreLevels
<1>1. /\ N2 \in [Levels -> SUBSET AllFrames]
      /\ \A l \in Levels : \A x : x \in N2[l] <=> x \in N[l] /\ ~(l = h /\ x = old)
  BY <1>0 DEF Pruned
<1>2. \A l \in Levels : old \in N[l] => l = h
  BY DEF IsTree
<1>4. \A l \in Levels : \A x : x \in N2[l] <=> x \in N[l] /\ x # old
  BY <1>1, <1>2
<1>3. ASSUME NEW l \in Levels, NEW x \in AllFrames
      PROVE  x \in N2[l] <=> \/ x \in tops2[l]
                             \/ l < RootLevel /\ \E k \in N2[l + 1], j \in Index : LinksTo(mem2[k][j], x)
  <2>1. l < RootLevel => l + 1 \in Levels /\ \A k \in N[l + 1] : k \in AllOf(N)
    BY <1>0, LevelsFacts, AllOfType
  <2>2. CASE x = old
    BY <2>1, <2>2, <1>4
  <2>3. CASE x # old
    <3>1. x \in N[l] <=> \/ x \in tops[l]
                         \/ l < RootLevel /\ \E k \in N[l + 1], j \in Index : LinksTo(mem[k][j], x)
      BY DEF AreLevels
    <3>2. x \in tops[l] <=> x \in tops2[l]
      BY <2>3 DEF TopsAgree
    <3>3. l < RootLevel => \A k \in N[l + 1], j \in Index :
              LinksTo(mem[k][j], x) <=> k # old /\ LinksTo(mem2[k][j], x)
      BY <2>1, <2>3 DEF LinksAgree, LinksTo
    <3> QED BY <1>4, <2>1, <2>3, <3>1, <3>2, <3>3
  <2> QED BY <2>2, <2>3
<1> QED BY <1>1, <1>3 DEF AreLevels
-----------------------------------------------------------------------------
\* The difference between owners and users of every frame stays.
Balanced(own, mem, N, rts, o, own2, mem2, N2, rts2, o2) ==
    \A f \in Ram : own2[f] + Users(mem, N, rts, o, f) = own[f] + Users(mem2, N2, rts2, o2, f)

\* The number of users of a frame is a number.
LEMMA UsersType ==
    ASSUME NEW mem, NEW N \in [Levels -> SUBSET AllFrames], NEW rts, NEW o, IsOp(o), NEW f
    PROVE  /\ Entries(mem, AllOf(N), f) \in Nat /\ Live(rts, f) \in Nat /\ Held(GuardsOf(o), f) \in Nat
           /\ Users(mem, N, rts, o, f) \in Nat
<1>1. AllOf(N) \in SUBSET AllFrames /\ GuardsOf(o) \in Seq(AllFrames)
  BY AllOfType, GuardsType
<1> QED BY <1>1, EntriesType, LiveType, HeldType DEF Users

\* A balanced step keeps every use covered by an owner.
LEMMA BalancedCovers ==
    ASSUME NEW own \in [AllFrames -> Nat], NEW mem, NEW N \in [Levels -> SUBSET AllFrames], NEW rts, NEW o, IsOp(o),
           NEW own2 \in [AllFrames -> Nat], NEW mem2, NEW N2 \in [Levels -> SUBSET AllFrames], NEW rts2, NEW o2, IsOp(o2),
           Covers(own, mem, N, rts, o), Balanced(own, mem, N, rts, o, own2, mem2, N2, rts2, o2)
    PROVE  Covers(own2, mem2, N2, rts2, o2)
<1>1. SUFFICES ASSUME NEW f \in Ram PROVE own2[f] >= Users(mem2, N2, rts2, o2, f)
  BY DEF Covers
<1>2. f \in AllFrames
  BY BootAssumption
<1>3. Users(mem, N, rts, o, f) \in Nat /\ Users(mem2, N2, rts2, o2, f) \in Nat /\ own[f] \in Nat /\ own2[f] \in Nat
  BY <1>2, UsersType
<1>4. own[f] >= Users(mem, N, rts, o, f)
  BY DEF Covers
<1>5. own2[f] + Users(mem, N, rts, o, f) = own[f] + Users(mem2, N2, rts2, o2, f)
  BY DEF Balanced
<1> QED BY <1>3, <1>4, <1>5

\* A step that changes neither the tables nor the live mappings.
LEMMA TablesStay ==
    ASSUME NEW own, NEW mem, NEW rts, NEW cur, NEW o, NEW N, Sound(own, mem, rts, cur, o, N),
           NEW own2 \in [AllFrames -> Nat], NEW cur2 \in Mappings, rts[cur2] # None, NEW o2,
           o \notin CopyOp, o2 \notin CopyOp,
           \A f \in AllOf(N) : own2[f] = own[f],
           \A f \in Ram : own2[f] + Held(GuardsOf(o), f) = own[f] + Held(GuardsOf(o2), f),
           OpInv(mem, rts, cur2, o2, N)
    PROVE  Sound(own2, mem, rts, cur2, o2, N) /\ Balanced(own, mem, N, rts, o, own2, mem, N, rts, o2)
<1>0. IsOp(o) /\ IsOp(o2) /\ N \in [Levels -> SUBSET AllFrames] /\ rts \in Roots
  BY OpIsOp DEF Sound, AreLevels, Typed
<1>1. Typed(own2, mem, rts, cur2) /\ own \in [AllFrames -> Nat]
  BY DEF Sound, Typed
<1>2. TopsOf(rts, o2) = TopsOf(rts, o)
  <2>1. o.kind # "duplicate" /\ o2.kind # "duplicate"
    BY <1>0, KindFacts
  <2> QED BY <2>1 DEF TopsOf, CopiesOf
<1>3. AreLevels(mem, TopsOf(rts, o2), N)
  BY <1>2 DEF Sound
<1>4. IsTree(own2, mem, N)
  <2>1. \A l \in Levels : \A f \in N[l] : own2[f] = own[f]
    BY <1>0, AllOfType
  <2> QED BY <2>1 DEF Sound, IsTree
<1>5. Balanced(own, mem, N, rts, o, own2, mem, N, rts, o2)
  <2>1. ASSUME NEW f \in Ram
        PROVE  own2[f] + Users(mem, N, rts, o, f) = own[f] + Users(mem, N, rts, o2, f)
    <3> DEFINE e == Entries(mem, AllOf(N), f)
               v == Live(rts, f)
               g == Held(GuardsOf(o), f)
               g2 == Held(GuardsOf(o2), f)
    <3>1. f \in AllFrames
      BY BootAssumption
    <3>2. e \in Nat /\ v \in Nat /\ g \in Nat /\ g2 \in Nat /\ own[f] \in Nat /\ own2[f] \in Nat
      BY <1>0, <1>1, <3>1, UsersType
    <3>3. own2[f] + g = own[f] + g2
      OBVIOUS
    <3>4. Users(mem, N, rts, o, f) = e + v + g /\ Users(mem, N, rts, o2, f) = e + v + g2
      BY DEF Users
    <3> HIDE DEF e, v, g, g2
    <3> QED BY <3>2, <3>3, <3>4
  <2> QED BY <2>1 DEF Balanced
<1>6. Covers(own2, mem, N, rts, o2)
  BY <1>0, <1>1, <1>5, BalancedCovers DEF Sound
<1> QED BY <1>1, <1>3, <1>4, <1>5, <1>6 DEF Sound

\* A step that edits an entry of a node, and no more.
LEMMA EntryChanges ==
    ASSUME NEW own, NEW mem, NEW rts, NEW cur, NEW o, NEW N, Sound(own, mem, rts, cur, o, N),
           NEW own2 \in [AllFrames -> Nat], NEW mem2, NEW o2,
           NEW h \in Levels, NEW n \in N[h], NEW i \in Index, NEW pte \in Pte \cup {None}, Edited(mem, mem2, n, i, pte),
           h = LeafLevel => pte = None \/ Linked(pte),
           AreLevels(mem2, TopsOf(rts, o2), N),
           \A f \in AllOf(N) : own2[f] = own[f],
           \A f \in Ram : own2[f] + One(LinksTo(mem[n][i], f)) + Held(GuardsOf(o), f)
                          = own[f] + One(LinksTo(pte, f)) + Held(GuardsOf(o2), f),
           OpInv(mem2, rts, cur, o2, N)
    PROVE  Sound(own2, mem2, rts, cur, o2, N) /\ Balanced(own, mem, N, rts, o, own2, mem2, N, rts, o2)
<1>0. /\ IsOp(o) /\ IsOp(o2) /\ N \in [Levels -> SUBSET AllFrames] /\ rts \in Roots
      /\ mem \in Contents /\ own \in [AllFrames -> Nat]
  BY OpIsOp DEF Sound, AreLevels, Typed
<1>1. n \in AllFrames /\ n \in AllOf(N) /\ AllOf(N) \in SUBSET AllFrames
  BY <1>0, AllOfType
<1>2. /\ mem2 \in Contents /\ mem2[n][i] = pte
      /\ \A k \in AllFrames, j \in Index : k # n \/ j # i => mem2[k][j] = mem[k][j]
  <2>1. mem \in Contents /\ n \in AllFrames /\ Edited(mem, mem2, n, i, pte)
    BY <1>0, <1>1
  <2> QED BY ONLY <2>1, i \in Index, pte \in Pte \cup {None}, EditedFacts, SMTT(30)
<1>3. Typed(own2, mem2, rts, cur)
  BY <1>2 DEF Sound, Typed
<1>4. IsTree(own2, mem2, N)
  <2>0. IsTree(own, mem, N)
    BY DEF Sound
  <2>1. \A l \in Levels : \A f \in N[l] : own2[f] = own[f]
    BY <1>0, AllOfType
  <2>2. ASSUME NEW k \in N[LeafLevel], NEW j \in Index, mem2[k][j] # None PROVE Linked(mem2[k][j])
    <3>1. CASE k = n /\ j = i
      <4>1. h = LeafLevel
        BY <2>0, <3>1, LevelsFacts DEF IsTree
      <4> QED BY <1>2, <2>2, <3>1, <4>1
    <3>2. CASE k # n \/ j # i
      <4>1. mem2[k][j] = mem[k][j]
        BY <1>0, <1>2, <3>2, LevelsFacts
      <4> QED BY <2>0, <2>2, <4>1 DEF IsTree
    <3> QED BY <3>1, <3>2
  <2>3. \A l \in Levels : \A f \in N[l] : f \in Ram /\ own2[f] = 1
    BY <2>0, <2>1 DEF IsTree
  <2>4. \A k, l \in Levels : \A f \in N[k] : f \in N[l] => k = l
    BY <2>0 DEF IsTree
  <2> QED BY <2>2, <2>3, <2>4 DEF IsTree
<1>5. Balanced(own, mem, N, rts, o, own2, mem2, N, rts, o2)
  <2>1. ASSUME NEW f \in Ram
        PROVE  own2[f] + Users(mem, N, rts, o, f) = own[f] + Users(mem2, N, rts, o2, f)
    <3> DEFINE e == Entries(mem, AllOf(N), f)
               e2 == Entries(mem2, AllOf(N), f)
               v == Live(rts, f)
               g == Held(GuardsOf(o), f)
               g2 == Held(GuardsOf(o2), f)
               a == One(LinksTo(mem[n][i], f))
               b == One(LinksTo(pte, f))
    <3>1. f \in AllFrames
      BY BootAssumption
    <3>2. /\ e \in Nat /\ e2 \in Nat /\ v \in Nat /\ g \in Nat /\ g2 \in Nat /\ own[f] \in Nat /\ own2[f] \in Nat
          /\ a \in Nat /\ b \in Nat
      BY <1>0, <3>1, UsersType, OneType
    <3>3. own2[f] + a + g = own[f] + b + g2
      OBVIOUS
    <3>4. e2 + a = e + b
      BY <1>0, <1>1, EntriesEdited
    <3>5. Users(mem, N, rts, o, f) = e + v + g /\ Users(mem2, N, rts, o2, f) = e2 + v + g2
      BY DEF Users
    <3> HIDE DEF e, e2, v, g, g2, a, b
    <3> QED BY <3>2, <3>3, <3>4, <3>5
  <2> QED BY <2>1 DEF Balanced
<1>6. Covers(own2, mem2, N, rts, o2)
  BY <1>0, <1>5, BalancedCovers DEF Sound
<1> QED BY <1>3, <1>4, <1>5, <1>6 DEF Sound
-----------------------------------------------------------------------------
\* deallocate() takes one owner away.
LEMMA ReleaseFacts ==
    ASSUME owned \in [AllFrames -> Nat], NEW f \in AllFrames, Release(f)
    PROVE  owned' \in [AllFrames -> Nat] /\ \A x \in AllFrames : owned'[x] + One(f = x) = owned[x]
  BY DEF Release, One

\* reference() adds an owner.
LEMMA ShareFacts ==
    ASSUME owned \in [AllFrames -> Nat], NEW f \in AllFrames, Share(f)
    PROVE  owned' \in [AllFrames -> Nat] /\ \A x \in AllFrames : owned'[x] = owned[x] + One(f = x)
  BY DEF Share, One

\* allocate() returns a frame without owners and makes it owned.
LEMMA AcquireFacts ==
    ASSUME owned \in [AllFrames -> Nat], NEW f, Acquire(f)
    PROVE  /\ f \in Ram /\ f \in AllFrames /\ owned[f] = 0
           /\ owned' \in [AllFrames -> Nat] /\ \A x \in AllFrames : owned'[x] = owned[x] + One(f = x)
<1>1. f \in AllFrames
  BY BootAssumption DEF Acquire
<1> QED BY <1>1 DEF Acquire, One

\* Frames of main memory are frames, frame 0 is not among them, None is not a frame.
LEMMA FramesFacts ==
    /\ Ram \subseteq AllFrames /\ FrameZero \in AllFrames /\ FrameZero \notin Ram
    /\ None \notin AllFrames /\ None \notin Mappings /\ None \notin Pte
  BY BootAssumption, NoneAssumption

\* The facts of Sound that are needed everywhere.
LEMMA SoundFacts ==
    ASSUME NEW own, NEW mem, NEW rts, NEW cur, NEW o, NEW N, Sound(own, mem, rts, cur, o, N)
    PROVE  /\ own \in [AllFrames -> Nat] /\ mem \in Contents /\ rts \in Roots
           /\ cur \in Mappings /\ rts[cur] # None /\ rts[Base] # None
           /\ N \in [Levels -> SUBSET AllFrames] /\ AllOf(N) \in SUBSET AllFrames
           /\ \A x : x \in AllOf(N) <=> \E l \in Levels : x \in N[l]
           /\ IsOp(o) /\ OpInv(mem, rts, cur, o, N)
           /\ AreLevels(mem, TopsOf(rts, o), N) /\ IsTree(own, mem, N) /\ Covers(own, mem, N, rts, o)
           /\ \A f \in AllOf(N) : f \in Ram /\ own[f] = 1
<1>1. /\ own \in [AllFrames -> Nat] /\ mem \in Contents /\ rts \in Roots
      /\ cur \in Mappings /\ rts[cur] # None /\ rts[Base] # None
      /\ OpInv(mem, rts, cur, o, N)
      /\ AreLevels(mem, TopsOf(rts, o), N) /\ IsTree(own, mem, N) /\ Covers(own, mem, N, rts, o)
  BY DEF Sound, Typed
<1>2. N \in [Levels -> SUBSET AllFrames]
  BY <1>1 DEF AreLevels
<1>3. AllOf(N) \in SUBSET AllFrames /\ \A x : x \in AllOf(N) <=> \E l \in Levels : x \in N[l]
  BY <1>2, AllOfType
<1>4. IsOp(o)
  BY <1>1, OpIsOp
<1>5. \A f \in AllOf(N) : f \in Ram /\ own[f] = 1
  BY <1>1, <1>3 DEF IsTree
<1> QED BY <1>1, <1>2, <1>3, <1>4, <1>5

\* What the invariant says of an operation of a given kind.
LEMMA OpCases ==
    ASSUME NEW mem, NEW rts, NEW cur, NEW o, NEW N, OpInv(mem, rts, cur, o, N)
    PROVE  /\ o.kind = "drop" \/ o.kind = "unwind" => Holds(o)
           /\ o.kind = "map" \/ o.kind = "reference" => Maps(mem, rts, o)
           /\ o.kind = "duplicate" => Copies(mem, rts, o, N)
           /\ o.kind = "drop_subtree" => Drops(mem, rts, cur, o, N) \/ DropsNothing(mem, o)
<1>1. IsOp(o)
  BY OpIsOp
<1>2. /\ o.kind = "duplicate" <=> o \in CopyOp
      /\ o.kind = "drop_subtree" <=> o \in DropOp
      /\ (o.kind = "map" \/ o.kind = "reference") <=> o \in MapOp
      /\ (o.kind = "drop" \/ o.kind = "unwind") <=> o \in HoldOp
      /\ o = Idle <=> o.kind = "idle"
  BY <1>1, KindFacts
<1>3. CASE o = Idle
  BY <1>2, <1>3
<1>4. CASE Holds(o)
  <2>1. o.kind = "drop" \/ o.kind = "unwind"
    BY <1>2, <1>4 DEF Holds
  <2> QED BY <2>1, <1>4
<1>5. CASE Maps(mem, rts, o)
  <2>1. o.kind = "map" \/ o.kind = "reference"
    BY <1>2, <1>5 DEF Maps
  <2> QED BY <2>1, <1>5
<1>6. CASE Copies(mem, rts, o, N)
  <2>1. o.kind = "duplicate"
    BY <1>2, <1>6 DEF Copies
  <2> QED BY <2>1, <1>6
<1>7. CASE Drops(mem, rts, cur, o, N)
  <2>1. o.kind = "drop_subtree"
    BY <1>2, <1>7 DEF Drops
  <2> QED BY <2>1, <1>7
<1>8. CASE DropsNothing(mem, o)
  <2>1. o.kind = "drop_subtree"
    BY <1>2, <1>8 DEF DropsNothing
  <2> QED BY <2>1, <1>8
<1> QED BY <1>3, <1>4, <1>5, <1>6, <1>7, <1>8 DEF OpInv

\* The operation that only drops guards holds exactly these guards.
LEMMA DroppingFacts ==
    ASSUME NEW g \in Seq(AllFrames), NEW o, o = Dropping(g)
    PROVE  /\ o = Idle \/ Holds(o)
           /\ o \notin CopyOp /\ GuardsOf(o) = g
           /\ \A mem, rts, cur, N : OpInv(mem, rts, cur, o, N)
<1>1. CASE g = <<>>
  <2>1. o = Idle
    BY <1>1 DEF Dropping
  <2>2. o \notin CopyOp
    BY <2>1 DEF Idle, CopyOp
  <2> QED BY <1>1, <2>1, <2>2, GuardsFacts DEF OpInv
<1>2. CASE g # <<>>
  <2>1. o = [kind |-> "drop", frames |-> g]
    BY <1>2 DEF Dropping
  <2>2. o \in HoldOp /\ o.frames = g
    BY <2>1 DEF HoldOp
  <2>3. o \notin CopyOp
    BY <2>1 DEF CopyOp
  <2> QED BY <1>2, <2>2, <2>3, GuardsFacts DEF OpInv, Holds
<1> QED BY <1>1, <1>2

LeafIn(mem, root, page) ==
    IF PathIn(mem, root, page)[LeafLevel] = None THEN None
    ELSE mem[PathIn(mem, root, page)[LeafLevel]][page[LeafLevel]]

\* Path() is PathIn() of the current tables.
LEMMA PathIs ==
    /\ \A root, page : Path(root, page) = PathIn(memory, root, page)
    /\ \A root, page : Path(root, page)' = PathIn(memory', root, page)
  BY DEF Path, PathIn, Entry

\* Leaf() is LeafIn() of the current tables.
LEMMA LeafIs ==
    /\ \A m, page : Leaf(m, page) = LeafIn(memory, roots[m], page)
    /\ \A m, page : Leaf(m, page)' = LeafIn(memory', roots'[m], page)
<1>1. ASSUME NEW m, NEW page PROVE Leaf(m, page) = LeafIn(memory, roots[m], page)
  BY PathIs DEF Leaf, LeafIn, Entry
<1>2. ASSUME NEW m, NEW page PROVE Leaf(m, page)' = LeafIn(memory', roots'[m], page)
  BY DEF Leaf, LeafIn, Path, PathIn, Entry
<1> QED BY <1>1, <1>2

\* The path of a page of a live mapping.
LEMMA LivePath ==
    ASSUME NEW own, NEW mem, NEW rts, NEW cur, NEW o, NEW N, Sound(own, mem, rts, cur, o, N),
           NEW m \in Mappings, rts[m] # None, NEW page \in Pages
    PROVE  /\ rts[m] \in N[RootLevel] /\ rts[m] \in AllFrames
           /\ IsPath(mem, rts[m], page, PathIn(mem, rts[m], page))
           /\ PathIn(mem, rts[m], page)[RootLevel] = rts[m]
           /\ \A l \in Levels : PathIn(mem, rts[m], page)[l] # None => PathIn(mem, rts[m], page)[l] \in N[l]
<1>1. rts \in Roots /\ mem \in Contents /\ AreLevels(mem, TopsOf(rts, o), N) /\ IsOp(o)
  BY SoundFacts
<1>2. rts[m] \in AllFrames
  BY <1>1 DEF Roots
<1>3. rts[m] \in TopsOf(rts, o)[RootLevel]
  BY <1>1, TopsType, LevelsFacts
<1>4. rts[m] \in N[RootLevel]
  BY <1>1, <1>2, <1>3, LevelsFacts DEF AreLevels
<1>5. IsPath(mem, rts[m], page, PathIn(mem, rts[m], page))
  BY <1>1, <1>2, PathExists
<1>6. PathIn(mem, rts[m], page)[RootLevel] = rts[m]
  BY <1>5 DEF IsPath
<1>7. \A l \in Levels : PathIn(mem, rts[m], page)[l] # None => PathIn(mem, rts[m], page)[l] \in N[l]
  BY <1>1, <1>4, <1>5, PathLive
<1> QED BY <1>2, <1>4, <1>5, <1>6, <1>7

\* A page that is mapped has a leaf entry in a live node, and it is a link.
LEMMA LiveLeaf ==
    ASSUME NEW own, NEW mem, NEW rts, NEW cur, NEW o, NEW N, Sound(own, mem, rts, cur, o, N),
           NEW m \in Mappings, rts[m] # None, NEW page \in Pages, LeafIn(mem, rts[m], page) # None
    PROVE  /\ PathIn(mem, rts[m], page)[LeafLevel] \in N[LeafLevel]
           /\ page[LeafLevel] \in Index
           /\ LeafIn(mem, rts[m], page) = mem[PathIn(mem, rts[m], page)[LeafLevel]][page[LeafLevel]]
           /\ LeafIn(mem, rts[m], page) \in Pte /\ LeafIn(mem, rts[m], page).frame \in AllFrames
           /\ LeafIn(mem, rts[m], page).flags \in SUBSET Flags
           /\ Linked(LeafIn(mem, rts[m], page))
           /\ LinksTo(LeafIn(mem, rts[m], page), LeafIn(mem, rts[m], page).frame)
           /\ LeafIn(mem, rts[m], page).frame \notin AllOf(N)
<1> DEFINE n == PathIn(mem, rts[m], page)[LeafLevel]
           i == page[LeafLevel]
           e == LeafIn(mem, rts[m], page)
<1>1. n # None /\ e = mem[n][i]
  BY DEF LeafIn
<1>2. n \in N[LeafLevel] /\ i \in Index
  BY <1>1, LivePath, LevelsFacts, PageType
<1>3. mem \in Contents /\ n \in AllFrames /\ IsTree(own, mem, N)
  BY <1>2, SoundFacts, LevelsFacts
<1>4. e \in Pte /\ e.frame \in AllFrames /\ e.flags \in SUBSET Flags
  BY <1>1, <1>2, <1>3, ContentsType
<1>5. Linked(e) /\ LinksTo(e, e.frame)
  BY <1>1, <1>2, <1>3 DEF IsTree, LinksTo
<1> HIDE DEF n, i, e
<1>7. /\ rts \in Roots /\ IsOp(o) /\ own \in [AllFrames -> Nat] /\ AreLevels(mem, TopsOf(rts, o), N)
      /\ IsTree(own, mem, N) /\ Covers(own, mem, N, rts, o)
  BY SoundFacts
<1>8. LinksTo(mem[n][i], e.frame)
  BY <1>1, <1>5
<1>6. e.frame \notin AllOf(N)
  BY <1>2, <1>7, <1>8, PageIsNotNode
<1> QED BY <1>1, <1>2, <1>4, <1>5, <1>6 DEF n, i, e
-----------------------------------------------------------------------------
Now(N) == Sound(owned, memory, roots, current, op, N)

\* The step keeps the invariant and the balance of owners and users.
Kept(N) ==
    \E N2 : /\ Sound(owned', memory', roots', current', op', N2)
            /\ Balanced(owned, memory, N, roots, op, owned', memory', N2, roots', op')

\* A step that changes owners and guards, and nothing in the tables.
LEMMA GuardsChange ==
    ASSUME NEW N, Now(N), memory' = memory, roots' = roots, owned' \in [AllFrames -> Nat],
           current' \in Mappings, roots[current'] # None, op \notin CopyOp, op' \notin CopyOp,
           \A f \in AllOf(N) : owned'[f] = owned[f],
           \A f \in Ram : owned'[f] + Held(GuardsOf(op), f) = owned[f] + Held(GuardsOf(op'), f),
           OpInv(memory, roots, current', op', N)
    PROVE  Kept(N)
<1>1. /\ Sound(owned', memory, roots, current', op', N)
      /\ Balanced(owned, memory, N, roots, op, owned', memory, N, roots, op')
  BY TablesStay DEF Now
<1> QED BY <1>1 DEF Kept

\* Dropping a FrameGuard keeps the invariant.
LEMMA DropGuardKept ==
    ASSUME NEW N, Now(N), DropGuard
    PROVE  Kept(N)
<1> DEFINE g == op.frames
           f0 == Head(op.frames)
<1>0. /\ op.kind = "drop" /\ Release(f0) /\ op' = Dropping(Tail(g))
      /\ memory' = memory /\ roots' = roots /\ current' = current
  BY DEF DropGuard
<1>1. Holds(op)
  BY <1>0, OpCases, SoundFacts DEF Now
<1>2. op \in HoldOp /\ g \in Seq(AllFrames) /\ g # <<>> /\ op \notin CopyOp
  BY <1>1 DEF Holds, HoldOp, CopyOp
<1>3. GuardsOf(op) = g
  BY <1>2, GuardsFacts
<1>4. /\ owned \in [AllFrames -> Nat] /\ current \in Mappings /\ roots[current] # None /\ IsOp(op)
      /\ AllOf(N) \in SUBSET AllFrames
  BY SoundFacts DEF Now
<1>5. Tail(g) \in Seq(AllFrames) /\ f0 \in AllFrames /\ \A f : Held(g, f) = Held(Tail(g), f) + One(f0 = f)
  BY <1>2, HeldTail
<1>6. owned' \in [AllFrames -> Nat] /\ \A x \in AllFrames : owned'[x] + One(f0 = x) = owned[x]
  BY <1>0, <1>4, <1>5, ReleaseFacts
<1>7. op' \notin CopyOp /\ GuardsOf(op') = Tail(g) /\ OpInv(memory, roots, current, op', N)
  BY <1>0, <1>5, DroppingFacts
<1>8. f0 \notin AllOf(N)
  <2>1. 1 \in 1 .. Len(g) /\ f0 = g[1]
    BY <1>2
  <2>2. /\ roots \in Roots /\ AreLevels(memory, TopsOf(roots, op), N) /\ IsTree(owned, memory, N)
        /\ Covers(owned, memory, N, roots, op)
    BY SoundFacts DEF Now
  <2> QED BY <1>2, <1>3, <1>4, <2>1, <2>2, HeldIsNotNode
<1>9. \A f \in AllOf(N) : owned'[f] = owned[f]
  BY <1>4, <1>6, <1>8 DEF One
<1>10. ASSUME NEW f \in Ram PROVE owned'[f] + Held(GuardsOf(op), f) = owned[f] + Held(GuardsOf(op'), f)
  <2>1. f \in AllFrames
    BY FramesFacts
  <2>2. owned'[f] \in Nat /\ owned[f] \in Nat /\ One(f0 = f) \in Nat /\ Held(Tail(g), f) \in Nat
    BY <2>1, <1>4, <1>5, <1>6, OneType, HeldType
  <2>3. owned'[f] + One(f0 = f) = owned[f] /\ Held(g, f) = Held(Tail(g), f) + One(f0 = f)
    BY <1>5, <1>6, <2>1
  <2> HIDE DEF f0, g
  <2> QED BY <2>2, <2>3, <1>3, <1>7
<1> QED BY <1>0, <1>2, <1>4, <1>6, <1>7, <1>9, <1>10, GuardsChange

\* A frame with a new owner is no node, and one guard more holds it.
LEMMA OneMoreGuard ==
    ASSUME NEW N, Now(N), memory' = memory, roots' = roots, current' = current,
           op \notin CopyOp, op' \notin CopyOp, NEW f0 \in AllFrames, f0 \notin AllOf(N),
           owned' \in [AllFrames -> Nat], \A x \in AllFrames : owned'[x] = owned[x] + One(f0 = x),
           GuardsOf(op) \in Seq(AllFrames), GuardsOf(op') = <<f0>> \o GuardsOf(op),
           OpInv(memory, roots, current, op', N)
    PROVE  Kept(N)
<1> DEFINE g == GuardsOf(op)
           h == GuardsOf(op')
<1>1. owned \in [AllFrames -> Nat] /\ AllOf(N) \in SUBSET AllFrames /\ current \in Mappings /\ roots[current] # None
  BY SoundFacts DEF Now
<1>2. ASSUME NEW f \in AllOf(N) PROVE owned'[f] = owned[f]
  <2>1. f \in AllFrames /\ f # f0 /\ owned[f] \in Nat
    BY <1>1
  <2>2. owned'[f] = owned[f] + One(f0 = f) /\ One(f0 = f) = 0
    BY <2>1 DEF One
  <2> QED BY <2>1, <2>2
<1>3. ASSUME NEW f \in Ram PROVE owned'[f] + Held(g, f) = owned[f] + Held(h, f)
  <2>1. f \in AllFrames
    BY FramesFacts
  <2>2. owned'[f] = owned[f] + One(f0 = f) /\ Held(h, f) = Held(g, f) + One(f0 = f)
    BY <2>1, HeldCons
  <2>3. owned[f] \in Nat /\ One(f0 = f) \in Nat /\ Held(g, f) \in Nat
    BY <1>1, <2>1, OneType, HeldType
  <2> HIDE DEF g, h
  <2> QED BY <2>2, <2>3
<1> QED BY <1>1, <1>2, <1>3, GuardsChange

HeldFor(held, frame) == held \in Seq(AllFrames) /\ held \in {<<>>, <<frame>>}
IsMapping(o, m, page, flags, frame, held) ==
    \/ o = Mapping(m, page, flags, frame, held)
    \/ o = [Mapping(m, page, flags, frame, held) EXCEPT !.kind = "reference"] /\ held = <<frame>>

\* Path::map() starts at the root of its mapping.
LEMMA MappingFacts ==
    ASSUME NEW N, Now(N), NEW m \in Mappings, NEW page \in Pages, NEW flags \in Rights, roots[m] # None,
           NEW frame \in AllFrames, NEW held, HeldFor(held, frame), NEW o,
           IsMapping(o, m, page, flags, frame, held)
    PROVE  Maps(memory, roots, o) /\ o.frame = frame /\ o.held = held
<1>1. roots[m] \in AllFrames /\ PathIn(memory, roots[m], page)[RootLevel] = roots[m]
  BY LivePath DEF Now
<1>2. flags \in SUBSET Flags /\ RootLevel \in Levels
  BY RightsAssumption, LevelsFacts
<1>3. o.kind = "map" \/ (o.kind = "reference" /\ held = <<frame>>)
  BY DEF IsMapping, Mapping
<1>4. /\ o \in MapOp /\ o.m = m /\ o.page = page /\ o.frame = frame /\ o.held = held
      /\ o.level = RootLevel /\ o.node = roots[m]
  BY <1>1, <1>2 DEF IsMapping, Mapping, MapOp, HeldFor
<1> QED BY <1>1, <1>3, <1>4 DEF Maps, HeldFor

\* Path::map() is not a copy of a mapping.
LEMMA MapIsNotCopy ==
    ASSUME NEW o \in MapOp
    PROVE  o \notin CopyOp
  BY DEF MapOp, CopyOp

\* map_page() with a new frame keeps the invariant.
LEMMA MapPageKept ==
    ASSUME NEW N, Now(N), NEW m \in Mappings, NEW page \in Pages, NEW flags \in Rights, NEW new \in Ram,
           MapPage(m, page, flags, new)
    PROVE  Kept(N)
<1>0. /\ op = Idle /\ roots[m] # None /\ Acquire(new)
      /\ op' = [Mapping(m, page, flags, new, <<new>>) EXCEPT !.kind = "reference"]
      /\ memory' = memory /\ roots' = roots /\ current' = current
  BY DEF MapPage
<1>1. owned \in [AllFrames -> Nat] /\ \A f \in AllOf(N) : owned[f] = 1
  BY SoundFacts DEF Now
<1>2. /\ new \in AllFrames /\ owned[new] = 0
      /\ owned' \in [AllFrames -> Nat] /\ \A x \in AllFrames : owned'[x] = owned[x] + One(new = x)
  BY <1>0, <1>1, AcquireFacts
<1>3. new \notin AllOf(N)
  BY <1>1, <1>2
<1>4. Maps(memory, roots, op') /\ op'.frame = new /\ op'.held = <<new>>
  <2>1. <<new>> \in Seq(AllFrames)
    BY <1>2
  <2>2. IsMapping(op', m, page, flags, new, <<new>>)
    BY <1>0 DEF IsMapping
  <2>3. HeldFor(<<new>>, new)
    BY <2>1 DEF HeldFor
  <2>4. roots[m] # None /\ new \in AllFrames
    BY <1>0, <1>2
  <2> QED BY <2>2, <2>3, <2>4, MappingFacts
<1>5. GuardsOf(op) = <<>> /\ op \notin CopyOp /\ <<>> \in Seq(AllFrames)
  <2>1. op \notin CopyOp
    BY <1>0 DEF Idle, CopyOp
  <2>2. GuardsOf(op) = <<>>
    BY <1>0, GuardsFacts
  <2> QED BY <2>1, <2>2
<1>6. op' \in MapOp /\ op'.kind = "reference"
  BY <1>0, <1>4 DEF Maps, Mapping
<1>7. GuardsOf(op') = <<new>>
  BY <1>4, <1>6, GuardsFacts
<1>8. op' \notin CopyOp /\ OpInv(memory, roots, current, op', N)
  BY <1>4, <1>6, MapIsNotCopy DEF OpInv
<1>9. <<new>> = <<new>> \o GuardsOf(op)
  BY <1>5
<1> QED BY <1>0, <1>2, <1>3, <1>5, <1>7, <1>8, <1>9, OneMoreGuard, SMTT(30)

\* map_page_to_frame() of a shared page or of a device keeps the invariant.
LEMMA MapPageToFrameKept ==
    ASSUME NEW N, Now(N), NEW m \in Mappings, NEW page \in Pages, NEW flags \in Rights, NEW frame \in AllFrames,
           MapPageToFrame(m, page, flags, frame)
    PROVE  Kept(N)
<1>0. /\ op = Idle /\ roots[m] # None /\ Share(frame)
      /\ op' = Mapping(m, page, flags, frame, <<>>)
      /\ memory' = memory /\ roots' = roots /\ current' = current
  BY DEF MapPageToFrame
<1>1. owned \in [AllFrames -> Nat] /\ \A f \in AllOf(N) : f \in Ram
  BY SoundFacts DEF Now
<1>2. owned' \in [AllFrames -> Nat] /\ \A x \in AllFrames : owned'[x] = owned[x] + One(frame = x)
  BY <1>0, <1>1, ShareFacts
<1>3. frame \notin AllOf(N)
  <2>1. CASE frame \notin Ram
    BY <2>1, <1>1
  <2>2. CASE \E q \in Mappings, p \in Pages : roots[q] # None /\ Leaf(q, p) # None /\ Leaf(q, p).frame = frame
    <3>1. PICK q \in Mappings, p \in Pages : roots[q] # None /\ Leaf(q, p) # None /\ Leaf(q, p).frame = frame
      BY <2>2
    <3>2. Leaf(q, p) = LeafIn(memory, roots[q], p)
      BY LeafIs
    <3>3. LeafIn(memory, roots[q], p) # None
      BY <3>1, <3>2
    <3>4. LeafIn(memory, roots[q], p).frame \notin AllOf(N)
      BY <3>1, <3>3, LiveLeaf DEF Now
    <3> QED BY <3>1, <3>2, <3>4
  <2> QED BY <2>1, <2>2 DEF MapPageToFrame
<1>5. GuardsOf(op) = <<>> /\ op \notin CopyOp /\ <<>> \in Seq(AllFrames)
  <2>1. op \notin CopyOp
    BY <1>0 DEF Idle, CopyOp
  <2>2. GuardsOf(op) = <<>>
    BY <1>0, GuardsFacts
  <2> QED BY <2>1, <2>2
<1>4. Maps(memory, roots, op') /\ op'.frame = frame /\ op'.held = <<>>
  <2>1. IsMapping(op', m, page, flags, frame, <<>>)
    BY <1>0 DEF IsMapping
  <2>2. HeldFor(<<>>, frame)
    BY <1>5 DEF HeldFor
  <2> QED BY <1>0, <2>1, <2>2, MappingFacts
<1>6. op' \in MapOp /\ op'.kind = "map"
  BY <1>0, <1>4 DEF Maps, Mapping
<1>7. GuardsOf(op') = <<frame>> \o GuardsOf(op)
  BY <1>4, <1>5, <1>6, GuardsFacts
<1>8. op' \notin CopyOp /\ OpInv(memory, roots, current, op', N)
  BY <1>4, <1>6, MapIsNotCopy DEF OpInv
<1> QED BY <1>0, <1>2, <1>3, <1>5, <1>7, <1>8, OneMoreGuard

\* The second reference that map_page() takes keeps the invariant.
LEMMA MapPageReferencesKept ==
    ASSUME NEW N, Now(N), MapPageReferences
    PROVE  Kept(N)
<1>0. /\ op.kind = "reference" /\ Share(op.frame) /\ op' = [op EXCEPT !.kind = "map"]
      /\ memory' = memory /\ roots' = roots /\ current' = current
  BY DEF MapPageReferences
<1>1. Maps(memory, roots, op)
  BY <1>0, OpCases, SoundFacts DEF Now
<1>2. /\ op \in MapOp /\ op.frame \in AllFrames /\ op.held = <<op.frame>> /\ op \notin CopyOp
      /\ op.held \in Seq(AllFrames)
  BY <1>0, <1>1, MapIsNotCopy DEF Maps, MapOp
<1>3. GuardsOf(op) = op.held
  BY <1>0, <1>2, GuardsFacts
<1>4. /\ owned \in [AllFrames -> Nat] /\ IsOp(op) /\ roots \in Roots /\ AreLevels(memory, TopsOf(roots, op), N)
      /\ IsTree(owned, memory, N) /\ Covers(owned, memory, N, roots, op)
  BY SoundFacts DEF Now
<1>5. op.frame \notin AllOf(N)
  <2>1. 1 \in 1 .. Len(GuardsOf(op)) /\ op.frame = GuardsOf(op)[1]
    BY <1>2, <1>3
  <2> QED BY <1>2, <1>4, <2>1, HeldIsNotNode
<1>6. owned' \in [AllFrames -> Nat] /\ \A x \in AllFrames : owned'[x] = owned[x] + One(op.frame = x)
  BY <1>0, <1>2, <1>4, ShareFacts
<1>7. /\ op' \in MapOp /\ op'.kind = "map" /\ op'.frame = op.frame /\ op'.held = op.held /\ op'.m = op.m
      /\ op'.page = op.page /\ op'.level = op.level /\ op'.node = op.node
  BY <1>0, <1>2 DEF MapOp
<1>8. Maps(memory, roots, op') /\ op' \notin CopyOp
  BY <1>1, <1>7, MapIsNotCopy DEF Maps
<1>9. GuardsOf(op') = <<op.frame>> \o GuardsOf(op)
  BY <1>3, <1>7, GuardsFacts
<1>10. OpInv(memory, roots, current, op', N) /\ GuardsOf(op) \in Seq(AllFrames)
  BY <1>2, <1>3, <1>8 DEF OpInv
<1> QED BY <1>0, <1>2, <1>5, <1>6, <1>8, <1>9, <1>10, OneMoreGuard

\* A step that changes neither owners nor guards nor tables.
LEMMA OnlyOpChanges ==
    ASSUME NEW N, Now(N), owned' = owned, memory' = memory, roots' = roots,
           current' \in Mappings, roots[current'] # None, op \notin CopyOp, op' \notin CopyOp,
           GuardsOf(op') = GuardsOf(op), OpInv(memory, roots, current', op', N)
    PROVE  Kept(N)
<1>1. owned \in [AllFrames -> Nat]
  BY SoundFacts DEF Now
<1>2. \A f \in Ram : owned'[f] + Held(GuardsOf(op), f) = owned[f] + Held(GuardsOf(op'), f)
  OBVIOUS
<1> QED BY <1>1, <1>2, GuardsChange

\* An error of Path::map() keeps the invariant.
LEMMA MapFailsKept ==
    ASSUME NEW N, Now(N), MapFails
    PROVE  Kept(N)
<1>0. /\ op.kind = "map" /\ op' = Dropping(<<op.frame>> \o op.held)
      /\ owned' = owned /\ memory' = memory /\ roots' = roots /\ current' = current
  BY DEF MapFails
<1>1. Maps(memory, roots, op)
  BY <1>0, OpCases, SoundFacts DEF Now
<1>2. op \in MapOp /\ op.frame \in AllFrames /\ op.held \in Seq(AllFrames) /\ op \notin CopyOp
  BY <1>1, MapIsNotCopy DEF Maps, MapOp
<1>3. GuardsOf(op) = <<op.frame>> \o op.held /\ <<op.frame>> \o op.held \in Seq(AllFrames)
  BY <1>0, <1>2, GuardsFacts, HeldCons
<1>4. op' \notin CopyOp /\ GuardsOf(op') = GuardsOf(op) /\ OpInv(memory, roots, current, op', N)
  BY <1>0, <1>3, DroppingFacts
<1>5. current \in Mappings /\ roots[current] # None
  BY SoundFacts DEF Now
<1> QED BY <1>0, <1>2, <1>4, <1>5, OnlyOpChanges
-----------------------------------------------------------------------------
\* A path stays as long as the links on it do.
LEMMA PathKept ==
    ASSUME NEW mem \in Contents, NEW mem2 \in Contents, NEW root \in AllFrames \cup {None}, NEW page \in Pages,
           NEW h \in Levels,
           \A l \in Levels : l > h => Below(mem2, PathIn(mem, root, page)[l], page[l])
                                      = Below(mem, PathIn(mem, root, page)[l], page[l])
    PROVE  \A l \in Levels : l >= h => PathIn(mem2, root, page)[l] = PathIn(mem, root, page)[l]
<1> DEFINE P == PathIn(mem, root, page)
           Q == PathIn(mem2, root, page)
           bad == {l \in Levels : l >= h /\ Q[l] # P[l]}
<1>0. IsPath(mem, root, page, P) /\ IsPath(mem2, root, page, Q)
  BY PathExists
<1>1. SUFFICES ASSUME bad # {} PROVE FALSE
  OBVIOUS
<1> HIDE DEF P, Q
<1>2. PICK l \in bad : l = RootLevel \/ (l + 1 \in Levels /\ l < RootLevel /\ l + 1 \notin bad)
  BY <1>1, Topmost
<1>3. l \in Levels /\ l >= h /\ Q[l] # P[l]
  BY <1>2
<1>4. l # RootLevel
  BY <1>0, <1>3 DEF IsPath
<1>5. l < RootLevel /\ l + 1 \in Levels /\ l + 1 > h /\ l + 1 >= h
  BY <1>3, <1>4, LevelsFacts
<1>6. Q[l + 1] = P[l + 1]
  BY <1>2, <1>4, <1>5
<1>7. Q[l] = Below(mem2, Q[l + 1], page[l + 1]) /\ P[l] = Below(mem, P[l + 1], page[l + 1])
  BY <1>0, <1>3, <1>5 DEF IsPath
<1>8. Below(mem2, P[l + 1], page[l + 1]) = Below(mem, P[l + 1], page[l + 1])
  BY <1>5 DEF P
<1> QED BY <1>3, <1>6, <1>7, <1>8

\* The same link leads to the same node.
LEMMA BelowLinks ==
    ASSUME NEW mem, NEW n, NEW i, NEW mem2, n # None => SameLink(mem[n][i], mem2[n][i])
    PROVE  Below(mem2, n, i) = Below(mem, n, i)
  BY DEF Below, SameLink, LinksTo

\* Only duplicate() has top nodes of its own.
LEMMA TopsSame ==
    ASSUME NEW rts, NEW o, NEW o2, IsOp(o), IsOp(o2), o \notin CopyOp, o2 \notin CopyOp
    PROVE  TopsOf(rts, o2) = TopsOf(rts, o)
<1>1. o.kind # "duplicate" /\ o2.kind # "duplicate"
  BY KindFacts
<1> QED BY <1>1 DEF TopsOf, CopiesOf

\* The entry that Path::map() is at.
LEMMA MapsFacts ==
    ASSUME NEW N, Now(N), op.kind = "map"
    PROVE  /\ Maps(memory, roots, op) /\ op \in MapOp /\ op \notin CopyOp /\ IsOp(op)
           /\ op.m \in Mappings /\ op.page \in Pages /\ op.level \in Levels /\ op.node \in AllFrames
           /\ op.frame \in AllFrames /\ op.held \in Seq(AllFrames) /\ op.flags \in SUBSET Flags
           /\ op.node \in N[op.level] /\ op.node \in AllOf(N)
           /\ op.page[op.level] \in Index
           /\ roots[op.m] # None /\ roots[op.m] \in AllFrames
           /\ op.node = PathIn(memory, roots[op.m], op.page)[op.level]
           /\ MapEntry \in Pte \cup {None}
           /\ GuardsOf(op) = <<op.frame>> \o op.held
<1>1. Maps(memory, roots, op) /\ IsOp(op) /\ memory \in Contents
  BY OpCases, SoundFacts DEF Now
<1>2. /\ op \in MapOp /\ op.m \in Mappings /\ op.page \in Pages /\ op.level \in Levels /\ op.node \in AllFrames
      /\ op.frame \in AllFrames /\ op.held \in Seq(AllFrames) /\ op.flags \in SUBSET Flags
  BY <1>1 DEF Maps, MapOp
<1>3. roots[op.m] # None /\ op.node = PathIn(memory, roots[op.m], op.page)[op.level]
  BY <1>1 DEF Maps
<1>4. op.node # None
  BY <1>2, FramesFacts
<1>5. op.node \in N[op.level] /\ roots[op.m] \in AllFrames
  BY <1>2, <1>3, <1>4, LivePath DEF Now
<1>6. op.node \in AllOf(N)
  BY <1>2, <1>5, SoundFacts DEF Now
<1>7. op.page[op.level] \in Index
  BY <1>2, PageType
<1>8. MapEntry \in Pte \cup {None}
  BY <1>1, <1>2, <1>7, ContentsType DEF MapEntry
<1>9. GuardsOf(op) = <<op.frame>> \o op.held /\ op \notin CopyOp
  BY <1>2, GuardsFacts, MapIsNotCopy
<1> QED BY <1>1, <1>2, <1>3, <1>5, <1>6, <1>7, <1>8, <1>9

\* Path::map() goes through nodes, not through huge pages.
LEMMA InnerEntryIsLinked ==
    ASSUME NEW N, Now(N), MapsInnerNode, MapEntry # None
    PROVE  Linked(MapEntry)
<1>1. op.kind = "map" /\ ~HugeOnPath(op.m, op.page)
  BY DEF MapsInnerNode
<1>2. op.level \in Levels /\ op.node = PathIn(memory, roots[op.m], op.page)[op.level] /\ op.node \in AllFrames
  BY <1>1, MapsFacts
<1>3. op.node # None
  BY <1>2, FramesFacts
<1>4. op.node = Path(roots[op.m], op.page)[op.level]
  BY <1>2, PathIs
<1>5. Entry(Path(roots[op.m], op.page)[op.level], op.page[op.level]) = MapEntry
  BY <1>3, <1>4 DEF Entry, MapEntry
<1> QED BY <1>1, <1>2, <1>5 DEF HugeOnPath, Linked

\* Path::map() going through a node and widening its flags keeps the invariant.
LEMMA MapDescendsKept ==
    ASSUME NEW N, Now(N), MapDescends
    PROVE  Kept(N)
<1> DEFINE n == op.node
           i == op.page[op.level]
           pte == [MapEntry EXCEPT !.flags = @ \cup op.flags]
           P == PathIn(memory, roots[op.m], op.page)
<1>0. /\ MapsInnerNode /\ MapEntry # None /\ op.kind = "map" /\ op.level > LeafLevel
      /\ Edited(memory, memory', n, i, pte)
      /\ op' = [op EXCEPT !.level = @ - 1, !.node = MapEntry.frame]
      /\ owned' = owned /\ roots' = roots /\ current' = current
  BY DEF MapDescends, MapsInnerNode, SetEntry, Edited
<1>1. /\ Maps(memory, roots, op) /\ op \in MapOp /\ op \notin CopyOp /\ IsOp(op)
      /\ op.m \in Mappings /\ op.page \in Pages /\ op.level \in Levels /\ n \in AllFrames
      /\ n \in N[op.level] /\ i \in Index /\ roots[op.m] # None /\ roots[op.m] \in AllFrames
      /\ n = P[op.level] /\ op.flags \in SUBSET Flags
  BY <1>0, MapsFacts
<1>2. Linked(MapEntry) /\ MapEntry \in Pte /\ MapEntry = memory[n][i] /\ MapEntry.frame \in AllFrames
  <2>1. MapEntry \in Pte
    BY <1>0, MapsFacts
  <2> QED BY <1>0, <2>1, InnerEntryIsLinked DEF MapEntry, Pte
<1>3. /\ pte \in Pte \cup {None} /\ SameLink(memory[n][i], pte)
      /\ \A f : One(LinksTo(memory[n][i], f)) = One(LinksTo(pte, f))
  <2>1. pte \in Pte /\ pte.frame = MapEntry.frame /\ pte.huge = MapEntry.huge
    BY <1>1, <1>2 DEF Pte
  <2>2. pte # None /\ MapEntry # None
    BY <1>0, <2>1, FramesFacts
  <2>3. SameLink(MapEntry, pte)
    BY <2>1, <2>2 DEF SameLink, LinksTo, Linked
  <2>4. \A f : One(LinksTo(MapEntry, f)) = One(LinksTo(pte, f))
    BY <2>3 DEF SameLink, One
  <2> QED BY <1>2, <2>1, <2>3, <2>4
<1> HIDE DEF pte
<1>4. /\ owned \in [AllFrames -> Nat] /\ memory \in Contents /\ roots \in Roots
      /\ AreLevels(memory, TopsOf(roots, op), N) /\ IsTree(owned, memory, N)
  BY SoundFacts DEF Now
<1>5. op.level - 1 \in Levels /\ op.level - 1 < RootLevel /\ op.level - 1 + 1 = op.level /\ op.level # LeafLevel
  BY <1>0, <1>1, LevelsFacts
<1>6. /\ op' \in MapOp /\ op'.kind = "map" /\ op'.frame = op.frame /\ op'.held = op.held /\ op'.m = op.m
      /\ op'.page = op.page /\ op'.level = op.level - 1 /\ op'.node = MapEntry.frame
  BY <1>0, <1>1, <1>2, <1>5 DEF MapOp
<1>7. op' \notin CopyOp /\ IsOp(op') /\ TopsOf(roots, op') = TopsOf(roots, op)
  BY <1>1, <1>6, MapIsNotCopy, TopsSame DEF IsOp
<1>8. AreLevels(memory', TopsOf(roots, op'), N)
  BY <1>0, <1>1, <1>3, <1>4, <1>7, EditKeepsLevels
<1>9. memory' \in Contents /\ memory'[n][i] = pte
      /\ \A k \in AllFrames, j \in Index : k # n \/ j # i => memory'[k][j] = memory[k][j]
  <2>1. memory \in Contents /\ n \in AllFrames /\ i \in Index /\ pte \in Pte \cup {None}
        /\ Edited(memory, memory', n, i, pte)
    BY <1>0, <1>1, <1>3, <1>4
  <2> QED BY ONLY <2>1, EditedFacts, SMTT(30)
<1>10. \A k \in AllFrames, j \in Index : SameLink(memory[k][j], memory'[k][j])
  BY <1>3, <1>9 DEF SameLink
<1>11. PathIn(memory', roots[op.m], op.page)[op.level - 1] = MapEntry.frame
  <2>1. IsPath(memory, roots[op.m], op.page, P)
    BY <1>1, LivePath DEF Now
  <2>2. \A l \in Levels : Below(memory', P[l], op.page[l]) = Below(memory, P[l], op.page[l])
    <3>1. ASSUME NEW l \in Levels PROVE Below(memory', P[l], op.page[l]) = Below(memory, P[l], op.page[l])
      <4>1. P[l] # None => P[l] \in AllFrames
        BY <2>1 DEF IsPath
      <4>2. op.page[l] \in Index
        BY <1>1, PageType
      <4>3. P[l] # None => SameLink(memory[P[l]][op.page[l]], memory'[P[l]][op.page[l]])
        BY <1>10, <4>1, <4>2
      <4> QED BY <4>3, BelowLinks
    <3> QED BY <3>1
  <2>3. \A l \in Levels : l >= LeafLevel => PathIn(memory', roots[op.m], op.page)[l] = P[l]
    BY <1>1, <1>4, <1>9, <2>2, PathKept, LevelsFacts
  <2>4. PathIn(memory', roots[op.m], op.page)[op.level - 1] = P[op.level - 1]
    <3>1. \A l \in Levels : l >= LeafLevel
      BY LevelsFacts
    <3>2. \A l \in Levels : PathIn(memory', roots[op.m], op.page)[l] = P[l]
      BY <2>3, <3>1
    <3> QED BY <1>5, <3>2
  <2>5. P[op.level - 1] = Below(memory, P[op.level], op.page[op.level])
    BY <1>5, <2>1 DEF IsPath
  <2>6. Below(memory, n, i) = MapEntry.frame
    BY <1>1, <1>2, FramesFacts DEF Below
  <2> QED BY <1>1, <2>4, <2>5, <2>6
<1>12. Maps(memory', roots, op')
  BY <1>1, <1>6, <1>11 DEF Maps
<1>13. GuardsOf(op') = GuardsOf(op)
  BY <1>0, <1>1, <1>6, GuardsFacts
<1>14. OpInv(memory', roots, current, op', N)
  BY <1>12 DEF OpInv
<1>15. \A f \in Ram : owned'[f] + One(LinksTo(memory[n][i], f)) + Held(GuardsOf(op), f)
                      = owned[f] + One(LinksTo(pte, f)) + Held(GuardsOf(op'), f)
  BY <1>0, <1>3, <1>13
<1>16. /\ Sound(owned', memory', roots, current, op', N)
       /\ Balanced(owned, memory, N, roots, op, owned', memory', N, roots, op')
  <2>1. owned' \in [AllFrames -> Nat] /\ \A f \in AllOf(N) : owned'[f] = owned[f]
    BY <1>0, <1>4
  <2>2. Edited(memory, memory', n, i, pte) /\ op.level \in Levels /\ n \in N[op.level] /\ i \in Index /\ op.level # LeafLevel
    BY <1>0, <1>1, <1>5
  <2> QED BY <1>3, <1>8, <1>14, <1>15, <2>1, <2>2, EntryChanges DEF Now
<1> QED BY <1>0, <1>16 DEF Kept
-----------------------------------------------------------------------------
\* A store to a leaf entry, with the guards that pay for it, keeps the invariant.
LEMMA LeafChanges ==
    ASSUME NEW N, Now(N), NEW n \in N[LeafLevel], NEW i \in Index, NEW pte \in Pte \cup {None},
           pte = None \/ Linked(pte), Edited(memory, memory', n, i, pte),
           op \notin CopyOp, op' \notin CopyOp, roots' = roots, current' = current,
           owned' \in [AllFrames -> Nat], \A f \in AllOf(N) : owned'[f] = owned[f],
           \A f \in Ram : owned'[f] + One(LinksTo(memory[n][i], f)) + Held(GuardsOf(op), f)
                          = owned[f] + One(LinksTo(pte, f)) + Held(GuardsOf(op'), f),
           OpInv(memory', roots, current, op', N)
    PROVE  Kept(N)
<1>1. /\ IsOp(op) /\ IsOp(op') /\ memory \in Contents
      /\ AreLevels(memory, TopsOf(roots, op), N) /\ IsTree(owned, memory, N)
  BY SoundFacts, OpIsOp DEF Now
<1>2. TopsOf(roots, op') = TopsOf(roots, op)
  BY <1>1, TopsSame
<1>3. AreLevels(memory', TopsOf(roots, op'), N)
  BY <1>1, <1>2, LevelsFacts, EditKeepsLevels
<1>4. /\ Sound(owned', memory', roots, current, op', N)
      /\ Balanced(owned, memory, N, roots, op, owned', memory', N, roots, op')
  BY <1>3, LevelsFacts, EntryChanges DEF Now
<1> QED BY <1>4 DEF Kept

\* One guard holds one frame.
LEMMA HeldOne ==
    ASSUME NEW x, NEW f
    PROVE  Held(<<x>>, f) = One(x = f)
<1>1. Len(<<x>>) = 1 /\ <<x>>[1] = x
  OBVIOUS
<1>2. CASE x = f
  <2>1. Places(<<x>>, f) = {1}
    BY <1>1, <1>2 DEF Places
  <2> QED BY <1>2, <2>1, FS_Singleton DEF Held, One
<1>3. CASE x # f
  <2>1. Places(<<x>>, f) = {}
    BY <1>1, <1>3 DEF Places
  <2> QED BY <1>3, <2>1, FS_EmptySet DEF Held, One
<1> QED BY <1>2, <1>3

\* A link is to one frame.
LEMMA LinkedOne ==
    ASSUME NEW pte, Linked(pte), NEW f
    PROVE  One(LinksTo(pte, f)) = One(pte.frame = f)
  BY DEF One, LinksTo

\* An absent or a huge entry links to nothing.
LEMMA NoLink ==
    ASSUME NEW pte, ~Linked(pte), NEW f
    PROVE  One(LinksTo(pte, f)) = 0 /\ ~LinksTo(pte, f)
  BY DEF One, LinksTo

\* An absent entry is not a link.
LEMMA NoneIsNotLinked == ~Linked(None)
  BY DEF Linked

\* Path::map() storing the leaf entry keeps the invariant.
LEMMA MapStoresLeafKept ==
    ASSUME NEW N, Now(N), MapStoresLeaf
    PROVE  Kept(N)
<1> DEFINE n == op.node
           i == op.page[LeafLevel]
           pte == [frame |-> op.frame, flags |-> op.flags, huge |-> FALSE]
           old == IF MapEntry = None THEN <<>> ELSE <<MapEntry.frame>>
           g == old \o op.held
<1>0. /\ op.kind = "map" /\ op.level = LeafLevel
      /\ Edited(memory, memory', n, i, pte)
      /\ op' = Dropping(g)
      /\ owned' = owned /\ roots' = roots /\ current' = current
  BY DEF MapStoresLeaf, SetEntry, Edited
<1>1. /\ op \in MapOp /\ op \notin CopyOp /\ op.frame \in AllFrames /\ op.held \in Seq(AllFrames)
      /\ n \in N[LeafLevel] /\ i \in Index /\ op.flags \in SUBSET Flags /\ MapEntry \in Pte \cup {None}
      /\ GuardsOf(op) = <<op.frame>> \o op.held
  BY <1>0, MapsFacts
<1>2. pte \in Pte \cup {None} /\ Linked(pte) /\ pte.frame = op.frame
  <2>1. pte \in Pte
    BY <1>1 DEF Pte
  <2> QED BY <2>1, FramesFacts DEF Linked
<1> HIDE DEF pte
<1>3. owned \in [AllFrames -> Nat] /\ IsTree(owned, memory, N)
  BY SoundFacts DEF Now
<1>4. MapEntry = memory[n][i] /\ (MapEntry # None => Linked(MapEntry))
  BY <1>0, <1>1, <1>3 DEF MapEntry, IsTree
<1>5. g \in Seq(AllFrames) /\ \A f : Held(g, f) = Held(op.held, f) + One(LinksTo(MapEntry, f))
  <2>1. CASE MapEntry = None
    <3>1. g = op.held
      BY <1>1, <2>1
    <3>2. \A f : One(LinksTo(MapEntry, f)) = 0
      BY <2>1, NoneIsNotLinked, NoLink
    <3>3. \A f : Held(op.held, f) \in Nat
      BY <1>1, HeldType
    <3>4. ASSUME NEW f PROVE Held(op.held, f) = Held(op.held, f) + One(LinksTo(MapEntry, f))
      <4>1. Held(op.held, f) \in Nat /\ One(LinksTo(MapEntry, f)) = 0
        BY <3>2, <3>3
      <4> QED BY <4>1
    <3> QED BY <1>1, <3>1, <3>4
  <2>2. CASE MapEntry # None
    <3>1. MapEntry \in Pte /\ MapEntry.frame \in AllFrames /\ old = <<MapEntry.frame>>
      BY <1>1, <2>2 DEF Pte
    <3>2. g \in Seq(AllFrames) /\ \A f : Held(g, f) = Held(op.held, f) + One(MapEntry.frame = f)
      BY <1>1, <3>1, HeldCons
    <3>3. \A f : One(LinksTo(MapEntry, f)) = One(MapEntry.frame = f)
      BY <1>4, <2>2, LinkedOne
    <3> QED BY <3>2, <3>3
  <2> QED BY <2>1, <2>2
<1> HIDE DEF g
<1>6. op' \notin CopyOp /\ GuardsOf(op') = g /\ OpInv(memory', roots, current, op', N)
  BY <1>0, <1>5, DroppingFacts
<1>7. ASSUME NEW f \in Ram
      PROVE  owned'[f] + One(LinksTo(memory[n][i], f)) + Held(GuardsOf(op), f)
             = owned[f] + One(LinksTo(pte, f)) + Held(GuardsOf(op'), f)
  <2> DEFINE a == One(LinksTo(MapEntry, f))
             b == One(op.frame = f)
             c == Held(op.held, f)
  <2>1. a \in Nat /\ b \in Nat /\ c \in Nat /\ owned[f] \in Nat
    BY <1>1, <1>3, OneType, HeldType, FramesFacts
  <2>2. Held(GuardsOf(op), f) = c + b
    BY <1>1, HeldCons
  <2>3. Held(GuardsOf(op'), f) = c + a
    BY <1>5, <1>6
  <2>4. One(LinksTo(pte, f)) = b
    BY <1>2, LinkedOne
  <2>5. One(LinksTo(memory[n][i], f)) = a /\ owned'[f] = owned[f]
    BY <1>0, <1>4
  <2> HIDE DEF a, b, c
  <2> QED BY <2>1, <2>2, <2>3, <2>4, <2>5
<1>8. owned' \in [AllFrames -> Nat] /\ \A f \in AllOf(N) : owned'[f] = owned[f]
  BY <1>0, <1>3
<1> QED BY <1>0, <1>1, <1>2, <1>6, <1>7, <1>8, LeafChanges

\* No operation holds no guards.
LEMMA IdleFacts == Idle \notin CopyOp /\ IsOp(Idle) /\ GuardsOf(Idle) = <<>> /\ <<>> \in Seq(AllFrames)
<1>1. Idle \notin CopyOp
  BY DEF Idle, CopyOp
<1>2. GuardsOf(Idle) = <<>>
  BY GuardsFacts
<1> QED BY <1>1, <1>2 DEF IsOp

\* Path::unmap() keeps the invariant.
LEMMA UnmapKept ==
    ASSUME NEW N, Now(N), NEW m \in Mappings, NEW page \in Pages, Unmap(m, page)
    PROVE  Kept(N)
<1> DEFINE n == PathIn(memory, roots[m], page)[LeafLevel]
           i == page[LeafLevel]
           e == LeafIn(memory, roots[m], page)
           g == <<e.frame>>
<1>0. /\ op = Idle /\ roots[m] # None /\ e # None
      /\ Edited(memory, memory', n, i, None)
      /\ op' = Dropping(g)
      /\ owned' = owned /\ roots' = roots /\ current' = current
  BY LeafIs, PathIs DEF Unmap, SetEntry, Edited
<1>1. n \in N[LeafLevel] /\ i \in Index /\ e = memory[n][i] /\ e.frame \in AllFrames /\ Linked(e)
  BY <1>0, LiveLeaf DEF Now
<1> HIDE DEF n, e
<1>2. op \notin CopyOp /\ GuardsOf(op) = <<>> /\ <<>> \in Seq(AllFrames)
  BY <1>0, IdleFacts
<1>3. owned \in [AllFrames -> Nat]
  BY SoundFacts DEF Now
<1>5. g \in Seq(AllFrames) /\ \A f : Held(g, f) = One(LinksTo(e, f))
  <2>2. ASSUME NEW f PROVE Held(g, f) = One(LinksTo(e, f))
    <3>1. Held(<<e.frame>>, f) = One(e.frame = f)
      BY HeldOne
    <3>2. One(LinksTo(e, f)) = One(e.frame = f)
      BY <1>1, LinkedOne
    <3> QED BY <3>1, <3>2
  <2>3. g \in Seq(AllFrames)
    BY <1>1
  <2> QED BY <2>2, <2>3
<1> HIDE DEF g
<1>6. op' \notin CopyOp /\ GuardsOf(op') = g /\ OpInv(memory', roots, current, op', N)
  BY <1>0, <1>5, DroppingFacts
<1>7. ASSUME NEW f \in Ram
      PROVE  owned'[f] + One(LinksTo(memory[n][i], f)) + Held(GuardsOf(op), f)
             = owned[f] + One(LinksTo(None, f)) + Held(GuardsOf(op'), f)
  <2> DEFINE a == One(LinksTo(e, f))
  <2>1. a \in Nat /\ owned[f] \in Nat
    BY <1>3, OneType, FramesFacts
  <2>2. Held(GuardsOf(op), f) = 0 /\ Held(GuardsOf(op'), f) = a
    BY <1>2, <1>5, <1>6, HeldNone
  <2>4. One(LinksTo(None, f)) = 0
    BY NoLink, NoneIsNotLinked
  <2>5. One(LinksTo(memory[n][i], f)) = a /\ owned'[f] = owned[f]
    BY <1>0, <1>1
  <2> HIDE DEF a
  <2> QED BY <2>1, <2>2, <2>4, <2>5
<1>8. owned' \in [AllFrames -> Nat] /\ \A f \in AllOf(N) : owned'[f] = owned[f]
  BY <1>0, <1>3
<1>9. None \in Pte \cup {None}
  OBVIOUS
<1> QED BY <1>0, <1>1, <1>2, <1>6, <1>7, <1>8, <1>9, LeafChanges

\* remap_block() of a page keeps the invariant.
LEMMA RemapKept ==
    ASSUME NEW N, Now(N), NEW m \in Mappings, NEW page \in Pages, NEW flags \in Rights, Remap(m, page, flags)
    PROVE  Kept(N)
<1> DEFINE n == PathIn(memory, roots[m], page)[LeafLevel]
           i == page[LeafLevel]
           e == LeafIn(memory, roots[m], page)
           pte == [e EXCEPT !.flags = flags]
<1>0. /\ op = Idle /\ op' = op /\ roots[m] # None /\ e # None
      /\ Edited(memory, memory', n, i, pte)
      /\ owned' = owned /\ roots' = roots /\ current' = current
  BY LeafIs, PathIs DEF Remap, SetEntry, Edited
<1>1. n \in N[LeafLevel] /\ i \in Index /\ e = memory[n][i] /\ e \in Pte /\ Linked(e)
  BY <1>0, LiveLeaf DEF Now
<1> HIDE DEF n, e
<1>2. pte \in Pte \cup {None} /\ Linked(pte) /\ pte.frame = e.frame
  <2>1. pte \in Pte /\ pte.frame = e.frame /\ pte.huge = e.huge
    BY <1>1, RightsAssumption DEF Pte
  <2> QED BY <1>1, <2>1, FramesFacts DEF Linked
<1> HIDE DEF pte
<1>3. ASSUME NEW f PROVE One(LinksTo(pte, f)) = One(LinksTo(e, f))
  <2>1. One(LinksTo(pte, f)) = One(pte.frame = f) /\ One(LinksTo(e, f)) = One(e.frame = f)
    BY <1>1, <1>2, LinkedOne
  <2> QED BY <1>2, <2>1
<1>4. op \notin CopyOp /\ op' \notin CopyOp
  BY <1>0, IdleFacts
<1>5. owned \in [AllFrames -> Nat]
  BY SoundFacts DEF Now
<1>6. OpInv(memory', roots, current, op', N)
  BY <1>0 DEF OpInv
<1>7. \A f \in Ram : owned'[f] + One(LinksTo(memory[n][i], f)) + Held(GuardsOf(op), f)
                      = owned[f] + One(LinksTo(pte, f)) + Held(GuardsOf(op'), f)
  BY <1>0, <1>1, <1>3
<1>8. owned' \in [AllFrames -> Nat] /\ \A f \in AllOf(N) : owned'[f] = owned[f]
  BY <1>0, <1>5
<1> QED BY <1>0, <1>1, <1>2, <1>4, <1>6, <1>7, <1>8, LeafChanges
-----------------------------------------------------------------------------
Cleared(mem, mem2, new) == mem2 = [mem EXCEPT ![new] = Zeroed]

\* A cleared frame is a node without links.
LEMMA ClearedFacts ==
    ASSUME NEW mem \in Contents, NEW mem2, NEW new \in AllFrames, Cleared(mem, mem2, new)
    PROVE  /\ mem2 \in Contents /\ mem2[new] = Zeroed
           /\ \A k \in AllFrames : k # new => mem2[k] = mem[k]
           /\ \A j \in Index : \A x : mem2[new][j] = None /\ ~LinksTo(mem2[new][j], x)
<1>1. Zeroed \in [Index -> Pte \cup {None}]
  BY DEF Zeroed
<1>2. /\ mem2 \in Contents /\ mem2[new] = Zeroed
      /\ \A k \in AllFrames : k # new => mem2[k] = mem[k]
  BY <1>1 DEF Cleared, Contents
<1>3. \A j \in Index : mem2[new][j] = None
  BY <1>2 DEF Zeroed
<1> QED BY <1>2, <1>3, NoLink, NoneIsNotLinked

\* A new node adds no links.
LEMMA EntriesCleared ==
    ASSUME NEW mem \in Contents, NEW mem2, NEW new \in AllFrames, Cleared(mem, mem2, new),
           NEW U \in SUBSET AllFrames, new \notin U, NEW f
    PROVE  Entries(mem2, U \cup {new}, f) = Entries(mem, U, f)
<1>1. /\ \A k \in AllFrames : k # new => mem2[k] = mem[k]
      /\ \A j \in Index : \A x : ~LinksTo(mem2[new][j], x)
  BY ClearedFacts
<1>2. SameLinks(mem, U, mem2, U \cup {new}, f)
  BY <1>1 DEF SameLinks
<1>3. U \cup {new} \in SUBSET AllFrames
  OBVIOUS
<1> QED BY <1>2, <1>3, EntriesSame

HasGrown(N, N2, h, new) ==
    /\ N2 \in [Levels -> SUBSET AllFrames]
    /\ \A l \in Levels : \A x : x \in N2[l] <=> x \in N[l] \/ (l = h /\ x = new)
    /\ AllOf(N2) = AllOf(N) \cup {new}

\* What the levels are when a node was added.
LEMMA GrownFacts ==
    ASSUME NEW N \in [Levels -> SUBSET AllFrames], NEW N2, NEW h \in Levels, NEW new \in AllFrames, Grown(N, N2, h, new)
    PROVE  HasGrown(N, N2, h, new)
<1>1. /\ N2 \in [Levels -> SUBSET AllFrames]
      /\ \A l \in Levels : \A x : x \in N2[l] <=> x \in N[l] \/ (l = h /\ x = new)
  BY DEF Grown
<1>2. \A x : x \in AllOf(N2) <=> x \in AllOf(N) \/ x = new
  BY <1>1, AllOfType
<1> QED BY <1>1, <1>2 DEF HasGrown

\* A new node makes the tree larger and leaves it a tree.
LEMMA TreeGrows ==
    ASSUME NEW own, NEW mem, NEW N \in [Levels -> SUBSET AllFrames], IsTree(own, mem, N),
           NEW N2, NEW h \in Levels, NEW new \in Ram, Grown(N, N2, h, new), new \notin AllOf(N),
           NEW own2, NEW mem2, own2[new] = 1, \A f \in AllOf(N) : own2[f] = own[f],
           mem2[new] = Zeroed, \A k \in N[LeafLevel] : mem2[k] = mem[k]
    PROVE  IsTree(own2, mem2, N2)
<1>0. new \in AllFrames
  BY FramesFacts
<1>1. \A l \in Levels : \A x : x \in N2[l] <=> x \in N[l] \/ (l = h /\ x = new)
  <2>1. HasGrown(N, N2, h, new)
    BY <1>0, GrownFacts
  <2> QED BY <2>1 DEF HasGrown
<1>2. \A l \in Levels : \A x : x \in N[l] => x # new /\ own2[x] = own[x]
  BY AllOfType
<1>3. \A l \in Levels : \A f \in N2[l] : f \in Ram /\ own2[f] = 1
  BY <1>1, <1>2 DEF IsTree
<1>4. \A k, l \in Levels : \A f \in N2[k] : f \in N2[l] => k = l
  <2>1. \A k, l \in Levels : \A f \in N[k] : f \in N[l] => k = l
    BY DEF IsTree
  <2> QED BY <1>1, <1>2, <2>1
<1>5. ASSUME NEW n \in N2[LeafLevel], NEW i \in Index, mem2[n][i] # None PROVE Linked(mem2[n][i])
  <2>1. n = new => mem2[n][i] = None
    BY DEF Zeroed
  <2>2. n \in N[LeafLevel]
    BY <1>1, <1>5, <2>1, LevelsFacts
  <2>3. mem2[n][i] = mem[n][i]
    BY <2>2
  <2> QED BY <1>5, <2>2, <2>3 DEF IsTree
<1> QED BY <1>3, <1>4, <1>5 DEF IsTree

\* A new frame that becomes a node.
LEMMA NewNodeFacts ==
    ASSUME NEW N, Now(N), NEW new, Acquire(new)
    PROVE  /\ new \in Ram /\ new \in AllFrames /\ new \notin AllOf(N)
           /\ owned' \in [AllFrames -> Nat] /\ \A x \in AllFrames : owned'[x] = owned[x] + One(new = x)
           /\ owned'[new] = 1 /\ \A f \in AllOf(N) : owned'[f] = owned[f]
           /\ \A l \in Levels : new \notin TopsOf(roots, op)[l] /\ new \notin N[l]
           /\ \A l \in Levels : l < RootLevel => \A k \in N[l + 1], j \in Index : ~LinksTo(memory[k][j], new)
<1>1. /\ owned \in [AllFrames -> Nat] /\ \A f \in AllOf(N) : owned[f] = 1 /\ f \in AllFrames
      /\ \A x : x \in AllOf(N) <=> \E l \in Levels : x \in N[l]
      /\ AreLevels(memory, TopsOf(roots, op), N)
  BY SoundFacts DEF Now
<1>2. /\ new \in Ram /\ new \in AllFrames /\ owned[new] = 0
      /\ owned' \in [AllFrames -> Nat] /\ \A x \in AllFrames : owned'[x] = owned[x] + One(new = x)
  BY <1>1, AcquireFacts
<1>3. new \notin AllOf(N)
  BY <1>1, <1>2
<1>4. owned'[new] = 1
  BY <1>2 DEF One
<1>5. ASSUME NEW f \in AllOf(N) PROVE owned'[f] = owned[f]
  <2>1. f \in AllFrames /\ f # new /\ owned[f] = 1
    BY <1>1, <1>3
  <2>2. owned'[f] = owned[f] + 0
    BY <1>2, <2>1 DEF One
  <2> QED BY <2>1, <2>2
<1>6. \A l \in Levels : new \notin N[l]
  BY <1>1, <1>3
<1>7. \A l \in Levels : new \notin TopsOf(roots, op)[l]
  BY <1>1, <1>2, <1>6 DEF AreLevels
<1>8. \A l \in Levels : l < RootLevel => \A k \in N[l + 1], j \in Index : ~LinksTo(memory[k][j], new)
  BY <1>1, <1>2, <1>6 DEF AreLevels
<1> QED BY <1>2, <1>3, <1>4, <1>5, <1>6, <1>7, <1>8

\* Path::map() adding a node keeps the invariant.
LEMMA MapAllocatesNodeKept ==
    ASSUME NEW N, Now(N), NEW new \in Ram, MapAllocatesNode(new)
    PROVE  Kept(N)
<1> DEFINE n == op.node
           i == op.page[op.level]
           pte == [frame |-> new, flags |-> op.flags, huge |-> FALSE]
           P == PathIn(memory, roots[op.m], op.page)
           mem1 == [memory EXCEPT ![new] = Zeroed]
           h == op.level - 1
           N2 == [N EXCEPT ![h] = @ \cup {new}]
<1>0. /\ op.kind = "map" /\ op.level > LeafLevel /\ MapEntry = None
      /\ Acquire(new)
      /\ Edited(mem1, memory', n, i, pte)
      /\ op' = [op EXCEPT !.level = @ - 1, !.node = new]
      /\ roots' = roots /\ current' = current
  BY DEF MapAllocatesNode, MapsInnerNode, SetEntry, Edited
<1>1. /\ Maps(memory, roots, op) /\ op \in MapOp /\ op \notin CopyOp /\ IsOp(op)
      /\ op.m \in Mappings /\ op.page \in Pages /\ op.level \in Levels /\ n \in AllFrames
      /\ n \in N[op.level] /\ n \in AllOf(N) /\ i \in Index /\ roots[op.m] # None /\ roots[op.m] \in AllFrames
      /\ n = P[op.level] /\ op.flags \in SUBSET Flags
  BY <1>0, MapsFacts
<1>2. memory[n][i] = None
  BY <1>0 DEF MapEntry
<1>3. /\ owned \in [AllFrames -> Nat] /\ memory \in Contents /\ roots \in Roots /\ N \in [Levels -> SUBSET AllFrames]
      /\ AllOf(N) \in SUBSET AllFrames /\ \A x : x \in AllOf(N) <=> \E l \in Levels : x \in N[l]
      /\ AreLevels(memory, TopsOf(roots, op), N) /\ IsTree(owned, memory, N)
      /\ Typed(owned, memory, roots, current) /\ Covers(owned, memory, N, roots, op)
  BY SoundFacts DEF Now, Sound
<1>4. /\ new \in AllFrames /\ new \notin AllOf(N) /\ new # n
      /\ owned' \in [AllFrames -> Nat] /\ \A x \in AllFrames : owned'[x] = owned[x] + One(new = x)
      /\ owned'[new] = 1 /\ \A f \in AllOf(N) : owned'[f] = owned[f]
      /\ \A l \in Levels : new \notin TopsOf(roots, op)[l] /\ new \notin N[l]
      /\ \A l \in Levels : l < RootLevel => \A k \in N[l + 1], j \in Index : ~LinksTo(memory[k][j], new)
  BY <1>0, <1>1, NewNodeFacts
<1>5. pte \in Pte \cup {None} /\ Linked(pte) /\ pte.frame = new
  <2>1. pte \in Pte
    BY <1>1, <1>4 DEF Pte
  <2> QED BY <2>1, FramesFacts DEF Linked
<1>6. /\ Cleared(memory, mem1, new) /\ mem1 \in Contents /\ mem1[new] = Zeroed
      /\ \A k \in AllFrames : k # new => mem1[k] = memory[k]
      /\ \A j \in Index : \A x : ~LinksTo(mem1[new][j], x)
  <2>1. memory \in Contents /\ new \in AllFrames /\ Cleared(memory, mem1, new)
    BY <1>3, <1>4 DEF Cleared
  <2> HIDE DEF mem1
  <2> QED BY ONLY <2>1, ClearedFacts, ZenonT(30)
<1> HIDE DEF pte, mem1
<1>7. /\ memory' \in Contents /\ memory'[n][i] = pte
      /\ \A k \in AllFrames, j \in Index : k # n \/ j # i => memory'[k][j] = mem1[k][j]
      /\ \A k \in AllFrames : k # n => memory'[k] = mem1[k]
  <2>1. n \in AllFrames /\ i \in Index /\ Edited(mem1, memory', n, i, pte) /\ mem1 \in Contents /\ pte \in Pte \cup {None}
    BY <1>0, <1>1, <1>5, <1>6
  <2>2. DiffersAt(mem1, memory', n, i, pte)
    BY <2>1, EditedDiffers
  <2> QED BY <2>2 DEF DiffersAt
<1>8. memory'[new] = Zeroed /\ \A k \in AllFrames, j \in Index : k # new /\ (k # n \/ j # i) => memory'[k][j] = memory[k][j]
  BY <1>4, <1>6, <1>7
<1>9. h \in Levels /\ h < RootLevel /\ h + 1 = op.level /\ op.level # LeafLevel
  BY <1>0, <1>1, LevelsFacts
<1>10. Grown(N, N2, h, new)
  BY DEF Grown
<1> HIDE DEF N2
<1>11. AllOf(N2) = AllOf(N) \cup {new} /\ N2 \in [Levels -> SUBSET AllFrames]
  <2>1. HasGrown(N, N2, h, new)
    BY <1>3, <1>4, <1>9, <1>10, GrownFacts
  <2> QED BY <2>1 DEF HasGrown
<1>12. /\ op' \in MapOp /\ op'.kind = "map" /\ op'.frame = op.frame /\ op'.held = op.held /\ op'.m = op.m
      /\ op'.page = op.page /\ op'.level = h /\ op'.node = new
  BY <1>0, <1>1, <1>4, <1>9 DEF MapOp
<1>13. op' \notin CopyOp /\ IsOp(op') /\ TopsOf(roots, op') = TopsOf(roots, op) /\ GuardsOf(op') = GuardsOf(op)
  <2>1. op' \notin CopyOp /\ IsOp(op')
    BY <1>12, MapIsNotCopy DEF IsOp
  <2> QED BY <1>0, <1>1, <1>12, <2>1, TopsSame, GuardsFacts, ZenonT(30)
<1> HIDE DEF h, P, i, n
<1>14. AreLevels(memory', TopsOf(roots, op'), N2)
  <2>1. LinksAgree(memory, memory', N, new)
    <3>1. ASSUME NEW k \in AllOf(N), NEW j \in Index, NEW x \in AllFrames, x # new
          PROVE  LinksTo(memory[k][j], x) <=> LinksTo(memory'[k][j], x)
      <4>1. CASE k = n /\ j = i
        BY <3>1, <4>1, <1>2, <1>5, <1>7, NoLink, NoneIsNotLinked DEF LinksTo
      <4>2. CASE k # n \/ j # i
        BY <1>3, <1>4, <1>8, <4>2
      <4> QED BY <4>1, <4>2
    <3> QED BY <3>1 DEF LinksAgree
  <2>2. TopsAgree(TopsOf(roots, op), TopsOf(roots, op'), new)
    BY <1>13 DEF TopsAgree
  <2>3. ASSUME NEW l \in Levels
        PROVE  (\/ new \in TopsOf(roots, op')[l]
                \/ l < RootLevel /\ \E k \in N[l + 1], j \in Index : LinksTo(memory'[k][j], new)) <=> l = h
    <3>1. new \notin TopsOf(roots, op')[l]
      BY <1>4, <1>13
    <3>2. l = h => l < RootLevel /\ n \in N[l + 1] /\ LinksTo(memory'[n][i], new)
      BY <1>1, <1>5, <1>7, <1>9 DEF LinksTo
    <3>3. ASSUME l < RootLevel, NEW k \in N[l + 1], NEW j \in Index, LinksTo(memory'[k][j], new) PROVE l = h
      <4>1. l + 1 \in Levels /\ k \in AllFrames /\ k \in AllOf(N) /\ k # new
        BY <3>3, <1>3, <1>4, LevelsFacts
      <4>2. k = n
        BY <4>1, <3>3, <1>4, <1>8
      <4>3. l + 1 = op.level
        BY <4>1, <4>2, <3>3, <1>1, <1>3 DEF IsTree
      <4> QED BY <4>3, <1>9, <1>1, LevelsFacts
    <3> QED BY <1>1, <3>1, <3>2, <3>3
  <2>4. HangsAt(memory', TopsOf(roots, op'), N, h, new)
    BY <2>3 DEF HangsAt
  <2> QED BY <1>3, <1>4, <1>7, <1>8, <1>9, <1>10, <2>1, <2>2, <2>4, NodeAdded
<1>15. IsTree(owned', memory', N2)
  <2>1. ASSUME NEW k \in N[LeafLevel] PROVE memory'[k] = memory[k]
    <3>1. k \in AllFrames /\ k # new /\ k # n
      BY <1>1, <1>3, <1>4, <1>9, LevelsFacts DEF IsTree
    <3> QED BY <3>1, <1>6, <1>7
  <2> QED BY <1>3, <1>4, <1>8, <1>9, <1>10, <2>1, TreeGrows
<1>16. Balanced(owned, memory, N, roots, op, owned', memory', N2, roots, op')
  <2>1. ASSUME NEW f \in Ram
        PROVE  owned'[f] + Users(memory, N, roots, op, f) = owned[f] + Users(memory', N2, roots, op', f)
    <3> DEFINE e == Entries(memory, AllOf(N), f)
               e2 == Entries(memory', AllOf(N2), f)
               v == Live(roots, f)
               g == Held(GuardsOf(op), f)
               b == One(new = f)
    <3>1. e \in Nat /\ e2 \in Nat /\ v \in Nat /\ g \in Nat /\ b \in Nat /\ owned[f] \in Nat
      BY <1>1, <1>3, <1>11, FramesFacts, UsersType, OneType
    <3>2. Entries(mem1, AllOf(N) \cup {new}, f) = e
      BY <1>3, <1>4, <1>6, EntriesCleared
    <3>3. Entries(memory', AllOf(N) \cup {new}, f) + One(LinksTo(mem1[n][i], f))
             = Entries(mem1, AllOf(N) \cup {new}, f) + One(LinksTo(pte, f))
      <4>1. AllOf(N) \cup {new} \in SUBSET AllFrames /\ n \in AllOf(N) \cup {new}
        BY <1>1, <1>3, <1>4
      <4> QED BY <4>1, <1>0, <1>1, <1>5, <1>6, EntriesEdited DEF i, n
    <3>4. One(LinksTo(mem1[n][i], f)) = 0
      BY <1>1, <1>2, <1>4, <1>6, NoLink, NoneIsNotLinked
    <3>5. One(LinksTo(pte, f)) = b
      BY <1>5, LinkedOne
    <3>6. e2 = e + b
      <4>1. Entries(memory', AllOf(N) \cup {new}, f) = e2
        BY <1>11
      <4> HIDE DEF e, e2, b
      <4> QED BY <4>1, <3>1, <3>2, <3>3, <3>4, <3>5
    <3>7. owned'[f] = owned[f] + b
      BY <1>4, FramesFacts
    <3>8. Users(memory, N, roots, op, f) = e + v + g /\ Users(memory', N2, roots, op', f) = e2 + v + g
      BY <1>13 DEF Users
    <3> HIDE DEF e, e2, v, g, b
    <3> QED BY <3>1, <3>6, <3>7, <3>8
  <2> QED BY <2>1 DEF Balanced
<1>17. Covers(owned', memory', N2, roots, op')
  BY <1>1, <1>3, <1>4, <1>11, <1>13, <1>16, BalancedCovers
<1>18. PathIn(memory', roots[op.m], op.page)[h] = new
  <2> DEFINE Q == PathIn(memory', roots[op.m], op.page)
  <2>1. /\ IsPath(memory, roots[op.m], op.page, P)
        /\ \A l \in Levels : P[l] # None => P[l] \in N[l]
    BY <1>1, LivePath DEF Now, P
  <2>2. IsPath(memory', roots[op.m], op.page, Q)
    BY <1>1, <1>7, PathExists
  <2>3. ASSUME NEW l \in Levels, l > op.level
        PROVE  Below(memory', P[l], op.page[l]) = Below(memory, P[l], op.page[l])
    <3>1. CASE P[l] = None
      BY <3>1 DEF Below
    <3>2. CASE P[l] # None
      <4>1. P[l] \in AllFrames /\ P[l] # new /\ P[l] \in N[l]
        BY <2>1, <3>2, <1>3, <1>4
      <4>2. P[l] # n
        <5>1. l # op.level
          BY <2>3, <1>1, LevelsFacts
        <5> QED BY <5>1, <4>1, <1>1, <1>3 DEF IsTree
      <4>3. op.page[l] \in Index
        BY <1>1, PageType
      <4>4. memory'[P[l]][op.page[l]] = memory[P[l]][op.page[l]]
        BY <4>1, <4>2, <4>3, <1>8
      <4> QED BY <4>4 DEF Below
    <3> QED BY <3>1, <3>2
  <2>4. \A l \in Levels : l >= op.level => Q[l] = P[l]
    BY <1>1, <1>3, <1>7, <2>3, PathKept DEF P
  <2>5. Q[op.level] = n
    BY <1>1, <2>4, LevelsFacts
  <2>6. Q[h] = Below(memory', Q[h + 1], op.page[h + 1])
    BY <1>9, <2>2 DEF IsPath
  <2>7. Q[h] = Below(memory', n, i)
    BY <2>5, <2>6, <1>9 DEF i
  <2> QED BY <2>7, <1>1, <1>5, <1>7, FramesFacts DEF Below
<1>19. Maps(memory', roots, op')
  BY <1>1, <1>12, <1>18 DEF Maps
<1>20. Sound(owned', memory', roots, current, op', N2)
  BY <1>3, <1>4, <1>7, <1>14, <1>15, <1>17, <1>19 DEF Sound, Typed, OpInv
<1> QED BY <1>0, <1>16, <1>20 DEF Kept
-----------------------------------------------------------------------------
\* Frame d of the stack of duplicate_subtree().
CopyAt(mem, N, stk, d) ==
    /\ stk[d] \in CopyFrame /\ stk[d].src \in AllFrames /\ stk[d].node \in AllFrames /\ stk[d].i \in 0 .. EntryCount
    /\ LevelAt(d) \in Levels
    /\ stk[d].src \in N[LevelAt(d)] /\ stk[d].node \in N[LevelAt(d)]
    /\ stk[d].src \in AllOf(N) /\ stk[d].node \in AllOf(N)
    /\ \A j \in Index : j >= stk[d].i => mem[stk[d].node][j] = None

\* duplicate_subtree() and drop_subtree() are one level down for each call.
LEMMA LevelAtType ==
    ASSUME NEW n \in 1 .. RootLevel + 1, NEW d \in 1 .. n
    PROVE  LevelAt(d) \in Levels /\ (d < n => LevelAt(d) = LevelAt(d + 1) + 1 /\ LevelAt(d) # LeafLevel)
  BY LevelsFacts, LevelsAssumption DEF LevelAt, Levels, LeafLevel

\* What the invariant says while duplicate() runs.
LEMMA CopyFacts ==
    ASSUME NEW N, Now(N), op.kind = "duplicate"
    PROVE  /\ Copies(memory, roots, op, N) /\ op \in CopyOp /\ IsOp(op)
           /\ op.m \in Mappings /\ op.copy \in Mappings /\ roots[op.m] # None /\ roots[op.copy] = None
           /\ op.stack \in Seq(CopyFrame) /\ Len(op.stack) \in 1 .. RootLevel + 1 /\ Len(op.stack) \in Nat
           /\ GuardsOf(op) = NodesOn(op.stack)
           /\ \A d \in 1 .. Len(op.stack) : CopyAt(memory, N, op.stack, d)
<1>1. Copies(memory, roots, op, N)
  BY OpCases, SoundFacts DEF Now
<1>2. /\ op \in CopyOp /\ IsOp(op) /\ op.m \in Mappings /\ op.copy \in Mappings
      /\ roots[op.m] # None /\ roots[op.copy] = None
      /\ op.stack \in Seq(CopyFrame) /\ Len(op.stack) \in 1 .. RootLevel + 1 /\ Len(op.stack) \in Nat
  BY <1>1 DEF Copies, CopyOp, IsOp
<1>3. GuardsOf(op) = NodesOn(op.stack)
  BY <1>2, GuardsFacts
<1>4. /\ AreLevels(memory, TopsOf(roots, op), N) /\ roots \in Roots /\ N \in [Levels -> SUBSET AllFrames]
      /\ \A x : x \in AllOf(N) <=> \E l \in Levels : x \in N[l]
  BY SoundFacts DEF Now
<1>5. ASSUME NEW d \in 1 .. Len(op.stack) PROVE CopyAt(memory, N, op.stack, d)
  <2>1. op.stack[d] \in CopyFrame
    BY <1>2
  <2>2. op.stack[d].src \in AllFrames /\ op.stack[d].node \in AllFrames /\ op.stack[d].i \in 0 .. EntryCount
    BY <2>1 DEF CopyFrame
  <2>3. LevelAt(d) \in Levels
    BY <1>2, LevelAtType
  <2>4. op.stack[d].src \in N[LevelAt(d)] /\ \A j \in Index : j >= op.stack[d].i => memory[op.stack[d].node][j] = None
    BY <1>1 DEF Copies
  <2>5. op.stack[d].node \in TopsOf(roots, op)[LevelAt(d)]
    BY <1>2, <1>4, <2>3, TopsType
  <2>6. op.stack[d].node \in N[LevelAt(d)]
    BY <1>4, <2>2, <2>3, <2>5 DEF AreLevels
  <2> QED BY <1>4, <2>1, <2>2, <2>3, <2>4, <2>6 DEF CopyAt
<1> QED BY <1>1, <1>2, <1>3, <1>5

\* What duplicate() copies is not what it makes, and it makes every node once.
LEMMA CopiesAreApart ==
    ASSUME NEW N, Now(N), op.kind = "duplicate", NEW d \in 1 .. Len(op.stack), NEW e \in 1 .. Len(op.stack)
    PROVE  /\ op.stack[d].src # op.stack[e].node
           /\ op.stack[d].node = op.stack[e].node => d = e
           /\ \A k \in AllOf(N), j \in Index : ~LinksTo(memory[k][j], op.stack[e].node)
           /\ \A m \in Mappings : roots[m] # op.stack[e].node
<1>1. /\ Copies(memory, roots, op, N) /\ op \in CopyOp /\ IsOp(op) /\ op.m \in Mappings
      /\ op.stack \in Seq(CopyFrame) /\ Len(op.stack) \in Nat
      /\ GuardsOf(op) = NodesOn(op.stack)
      /\ \A x \in 1 .. Len(op.stack) : CopyAt(memory, N, op.stack, x)
  BY CopyFacts
<1> DEFINE f == op.stack[e].node
<1>2. f \in AllOf(N)
  BY <1>1 DEF CopyAt
<1>3. Unique(memory, N, roots, NodesOn(op.stack), f)
  BY <1>1, <1>2, SoundFacts, NodesHaveOneUser DEF Now
<1>4. /\ Len(NodesOn(op.stack)) = Len(op.stack)
      /\ \A x \in 1 .. Len(op.stack) : NodesOn(op.stack)[x] = op.stack[x].node
  BY <1>1, NodesOnType
<1>5. op.stack[d].node = op.stack[e].node => d = e
  BY <1>3, <1>4 DEF Unique
<1>6. \A k \in AllOf(N), j \in Index : ~LinksTo(memory[k][j], f)
  BY <1>3, <1>4 DEF Unique
<1>7. \A m \in Mappings : roots[m] # f
  BY <1>3, <1>4 DEF Unique
<1>8. op.stack[d].src # f
  <2>1. CASE d = 1
    <3>1. op.stack[d].src = roots[op.m]
      BY <1>1, <2>1 DEF Copies
    <3> QED BY <1>1, <1>7, <3>1
  <2>2. CASE d # 1
    <3>1. d - 1 \in 1 .. Len(op.stack) - 1 /\ d - 1 \in 1 .. Len(op.stack) /\ d - 1 + 1 = d
      BY <1>1, <2>2
    <3> DEFINE c == d - 1
    <3>2. /\ op.stack[c].i < EntryCount
          /\ LinksTo(memory[op.stack[c].src][op.stack[c].i], op.stack[c + 1].src)
      BY <1>1, <3>1 DEF Copies
    <3>3. op.stack[c].src \in AllOf(N) /\ op.stack[c].i \in 0 .. EntryCount
      BY <1>1, <3>1 DEF CopyAt
    <3>4. op.stack[c].i \in Index
      BY <3>2, <3>3, IndexFacts
    <3> QED BY <1>6, <3>1, <3>2, <3>3, <3>4
  <2> QED BY <2>1, <2>2
<1> QED BY <1>5, <1>6, <1>7, <1>8

Advanced(stk, stk2) == stk2 = [stk EXCEPT ![Len(stk)].i = @ + 1]

AdvancedIs(stk, stk2) ==
    /\ stk2 \in Seq(CopyFrame) /\ Len(stk2) = Len(stk)
    /\ \A d \in 1 .. Len(stk) : stk2[d].src = stk[d].src /\ stk2[d].node = stk[d].node
    /\ \A d \in 1 .. Len(stk) : d # Len(stk) => stk2[d].i = stk[d].i
    /\ stk2[Len(stk)].i = stk[Len(stk)].i + 1

\* duplicate_subtree() going on to the next entry.
LEMMA AdvancedFacts ==
    ASSUME NEW stk \in Seq(CopyFrame), Len(stk) >= 1, stk[Len(stk)].i < EntryCount, NEW stk2, Advanced(stk, stk2)
    PROVE  AdvancedIs(stk, stk2)
<1> DEFINE n == Len(stk)
           top == stk[n]
           new == [top EXCEPT !.i = @ + 1]
<1>1. n \in Nat /\ n \in 1 .. n /\ top \in CopyFrame /\ DOMAIN stk = 1 .. n
  OBVIOUS
<1>2. top.i \in 0 .. EntryCount /\ top.i + 1 \in 0 .. EntryCount
  BY <1>1, IndexFacts DEF CopyFrame
<1>3. new \in CopyFrame /\ new.src = top.src /\ new.node = top.node /\ new.i = top.i + 1
  BY <1>1, <1>2 DEF CopyFrame
<1>4. stk2 = [stk EXCEPT ![n] = new]
  BY DEF Advanced
<1> HIDE DEF new
<1>5. stk2 \in Seq(CopyFrame) /\ Len(stk2) = n /\ stk2[n] = new /\ \A d \in 1 .. n : d # n => stk2[d] = stk[d]
  BY <1>1, <1>3, <1>4
<1> QED BY <1>1, <1>3, <1>5 DEF AdvancedIs

\* It holds the same nodes then.
LEMMA SameNodesHeld ==
    ASSUME NEW stk \in Seq(CopyFrame), NEW stk2 \in Seq(CopyFrame), Len(stk2) = Len(stk),
           \A d \in 1 .. Len(stk) : stk2[d].node = stk[d].node
    PROVE  NodesOn(stk2) = NodesOn(stk)
  BY DEF NodesOn

\* The step writes the entry that duplicate_subtree() is at and goes on to the next one.
CopySteps(pte) ==
    /\ Duplicating
    /\ Edited(memory, memory', Top.node, Top.i, pte)
    /\ op' = [op EXCEPT !.stack = Next1(@)]
    /\ roots' = roots /\ current' = current

\* duplicate_subtree() having copied an entry is at the next one.
LEMMA CopyAdvances ==
    ASSUME NEW N, Now(N), NEW pte \in Pte \cup {None}, CopySteps(pte)
    PROVE  /\ op' \in CopyOp /\ op'.m = op.m /\ op'.copy = op.copy /\ AdvancedIs(op.stack, op'.stack)
           /\ Copies(memory', roots, op', N)
           /\ TopsOf(roots, op') = TopsOf(roots, op) /\ GuardsOf(op') = GuardsOf(op)
           /\ Level \in Levels /\ Top.node \in N[Level] /\ Top.src \in N[Level] /\ Top.i \in Index
           /\ Top.src \in AllFrames /\ Top.node \in AllFrames
           /\ memory[Top.node][Top.i] = None
<1> DEFINE stk == op.stack
           n == Len(op.stack)
<1>0. op.kind = "duplicate" /\ Top.i < EntryCount /\ Top = stk[n]
  BY DEF CopySteps, Duplicating, Top
<1>1. /\ Copies(memory, roots, op, N) /\ op \in CopyOp /\ IsOp(op)
      /\ stk \in Seq(CopyFrame) /\ n \in 1 .. RootLevel + 1 /\ n \in Nat /\ n \in 1 .. n /\ n >= 1
      /\ \A d \in 1 .. n : CopyAt(memory, N, stk, d)
  BY <1>0, CopyFacts
<1>2. Advanced(stk, Next1(stk))
  BY DEF Advanced, Next1
<1>3. AdvancedIs(stk, Next1(stk))
  BY <1>0, <1>1, <1>2, AdvancedFacts
<1>4. op' = [op EXCEPT !.stack = Next1(stk)]
  BY DEF CopySteps
<1>5. Next1(stk) \in Seq(CopyFrame)
  BY <1>3 DEF AdvancedIs
<1>6. op' \in CopyOp /\ op'.m = op.m /\ op'.copy = op.copy /\ op'.stack = Next1(stk)
  BY <1>1, <1>4, <1>5 DEF CopyOp
<1>7. AdvancedIs(stk, op'.stack)
  BY <1>3, <1>6
<1> DEFINE stk2 == op'.stack
<1>8. /\ stk2 \in Seq(CopyFrame) /\ Len(stk2) = n
      /\ \A d \in 1 .. n : stk2[d].src = stk[d].src /\ stk2[d].node = stk[d].node
      /\ \A d \in 1 .. n : d # n => stk2[d].i = stk[d].i
      /\ stk2[n].i = stk[n].i + 1
  BY <1>7 DEF AdvancedIs
<1>9. /\ Level \in Levels /\ Top.node \in N[Level] /\ Top.src \in N[Level]
      /\ Top.src \in AllFrames /\ Top.node \in AllFrames /\ Top.i \in 0 .. EntryCount
      /\ \A j \in Index : j >= Top.i => memory[Top.node][j] = None
  <2>1. CopyAt(memory, N, stk, n) /\ Level = LevelAt(n)
    BY <1>1 DEF Level, Depth, LevelAt
  <2> QED BY <1>0, <2>1 DEF CopyAt
<1>10. Top.i \in Index /\ memory[Top.node][Top.i] = None
  BY <1>0, <1>9, IndexFacts
<1>11. DiffersAt(memory, memory', Top.node, Top.i, pte)
  <2>1. memory \in Contents /\ Edited(memory, memory', Top.node, Top.i, pte)
    BY SoundFacts DEF Now, CopySteps
  <2> QED BY <1>9, <1>10, <2>1, EditedDiffers
<1>12. /\ \A k \in AllFrames, j \in Index : k # Top.node \/ j # Top.i => memory'[k][j] = memory[k][j]
       /\ \A k \in AllFrames : k # Top.node => memory'[k] = memory[k]
  BY <1>11 DEF DiffersAt
<1> HIDE DEF stk, stk2, n
<1>13. ASSUME NEW d \in 1 .. n
       PROVE  /\ stk2[d].src \in N[LevelAt(d)]
              /\ \A j \in Index : j >= stk2[d].i => memory'[stk2[d].node][j] = None
  <2>1. stk2[d].src \in N[LevelAt(d)]
    BY <1>1, <1>8 DEF CopyAt
  <2>2. stk2[d].node = stk[d].node /\ stk[d].node \in AllFrames
    BY <1>1, <1>8 DEF CopyAt
  <2>3. ASSUME NEW j \in Index, j >= stk2[d].i PROVE memory'[stk2[d].node][j] = None
    <3>1. CASE d = n
      <4>1. stk2[d].i = Top.i + 1 /\ stk[d].node = Top.node
        BY <1>0, <1>8, <3>1 DEF stk, n
      <4>2. j > Top.i /\ j # Top.i
        BY <2>3, <4>1, <1>10, IndexFacts
      <4>3. memory[Top.node][j] = None
        BY <1>9, <1>10, <4>2, IndexFacts
      <4> QED BY <2>2, <4>1, <4>2, <4>3, <1>9, <1>12
    <3>2. CASE d # n
      <4>1. stk[d].node # Top.node
        BY <1>0, <1>1, <3>2, CopiesAreApart DEF stk, n
      <4>2. stk2[d].i = stk[d].i
        BY <1>8, <3>2
      <4>3. memory[stk[d].node][j] = None
        BY <1>1, <2>3, <4>2 DEF CopyAt
      <4>4. memory'[stk[d].node] = memory[stk[d].node]
        BY <2>2, <4>1, <1>12
      <4> QED BY <2>2, <4>3, <4>4
    <3> QED BY <3>1, <3>2
  <2> QED BY <2>1, <2>3
<1>14. ASSUME NEW d \in 1 .. n - 1
       PROVE  /\ stk2[d].i < EntryCount
              /\ LinksTo(memory'[stk2[d].src][stk2[d].i], stk2[d + 1].src)
  <2>1. d \in 1 .. n /\ d + 1 \in 1 .. n /\ d # n
    BY <1>1
  <2>2. stk2[d].i = stk[d].i /\ stk2[d].src = stk[d].src /\ stk2[d + 1].src = stk[d + 1].src
    BY <1>8, <2>1
  <2>3. stk[d].i < EntryCount /\ LinksTo(memory[stk[d].src][stk[d].i], stk[d + 1].src)
    BY <1>1 DEF Copies, stk, n
  <2>4. stk[d].src # Top.node /\ stk[d].src \in AllFrames
    BY <1>0, <1>1, <2>1, CopiesAreApart DEF stk, n, CopyAt
  <2>5. memory'[stk[d].src] = memory[stk[d].src]
    BY <2>4, <1>12
  <2> QED BY <2>2, <2>3, <2>5
<1>15. Copies(memory', roots, op', N)
  <2>1. roots[op'.m] # None /\ roots[op'.copy] = None /\ stk2[1].src = roots[op'.m]
    <3>1. roots[op.m] # None /\ roots[op.copy] = None /\ stk[1].src = roots[op.m] /\ 1 \in 1 .. n
      BY <1>1 DEF Copies, stk
    <3> QED BY <1>6, <1>8, <3>1
  <2>2. Len(stk2) = n /\ Len(stk2) \in 1 .. RootLevel + 1
    BY <1>1, <1>8
  <2> QED BY <1>6, <1>13, <1>14, <2>1, <2>2 DEF Copies, stk2
<1>16. GuardsOf(op') = GuardsOf(op)
  <2>0. /\ stk \in Seq(CopyFrame) /\ stk2 \in Seq(CopyFrame) /\ Len(stk2) = Len(stk)
        /\ \A d \in 1 .. Len(stk) : stk2[d].node = stk[d].node
    BY <1>1, <1>8 DEF stk, n
  <2>1. NodesOn(stk2) = NodesOn(stk)
    BY ONLY <2>0, SameNodesHeld
  <2> QED BY <1>1, <1>6, <2>1, GuardsFacts DEF stk, stk2
<1>17. TopsOf(roots, op') = TopsOf(roots, op)
  <2>1. op.kind = "duplicate" /\ op'.kind = "duplicate"
    BY <1>1, <1>6 DEF CopyOp
  <2>2. ASSUME NEW l PROVE CopiesOf(op', l) = CopiesOf(op, l)
    <3>1. Len(op'.stack) = Len(op.stack) /\ \A d \in 1 .. Len(op.stack) : op'.stack[d].node = op.stack[d].node
      BY <1>8 DEF stk, stk2, n
    <3> QED BY <2>1, <3>1 DEF CopiesOf
  <2> QED BY <2>2 DEF TopsOf
<1> QED BY <1>6, <1>7, <1>9, <1>10, <1>15, <1>16, <1>17 DEF stk
-----------------------------------------------------------------------------
\* duplicate_subtree() stores an entry that is no node, and its frame has one owner more.
LEMMA CopyEdit ==
    ASSUME NEW N, Now(N), NEW pte \in Pte \cup {None}, CopySteps(pte),
           Level = LeafLevel => pte = None \/ Linked(pte),
           Level = LeafLevel \/ ~Linked(pte),
           owned' \in [AllFrames -> Nat], \A f \in AllOf(N) : owned'[f] = owned[f],
           \A f \in Ram : owned'[f] = owned[f] + One(LinksTo(pte, f))
    PROVE  Kept(N)
<1> DEFINE n == Top.node
           i == Top.i
<1>1. /\ Copies(memory', roots, op', N)
      /\ TopsOf(roots, op') = TopsOf(roots, op) /\ GuardsOf(op') = GuardsOf(op)
      /\ Level \in Levels /\ n \in N[Level] /\ i \in Index /\ n \in AllFrames
      /\ memory[n][i] = None
  BY CopyAdvances
<1>2. /\ Edited(memory, memory', n, i, pte) /\ roots' = roots /\ current' = current
  BY DEF CopySteps
<1>3. /\ memory \in Contents /\ IsOp(op) /\ owned \in [AllFrames -> Nat]
      /\ AreLevels(memory, TopsOf(roots, op), N) /\ IsTree(owned, memory, N)
  BY SoundFacts DEF Now
<1> HIDE DEF n, i
<1>4. Level = LeafLevel \/ SameLink(memory[n][i], pte)
  BY <1>1, NoLink, NoneIsNotLinked DEF SameLink
<1>5. AreLevels(memory', TopsOf(roots, op'), N)
  BY <1>1, <1>2, <1>3, <1>4, EditKeepsLevels
<1>6. ASSUME NEW f \in Ram
      PROVE  owned'[f] + One(LinksTo(memory[n][i], f)) + Held(GuardsOf(op), f)
             = owned[f] + One(LinksTo(pte, f)) + Held(GuardsOf(op'), f)
  <2> DEFINE a == One(LinksTo(pte, f))
             g == Held(GuardsOf(op), f)
  <2>1. a \in Nat /\ g \in Nat /\ owned[f] \in Nat
    BY <1>3, OneType, FramesFacts, UsersType, SoundFacts DEF Now
  <2>2. One(LinksTo(memory[n][i], f)) = 0
    BY <1>1, NoLink, NoneIsNotLinked
  <2>3. Held(GuardsOf(op'), f) = g /\ Held(GuardsOf(op), f) = g
    BY <1>1
  <2>4. owned'[f] = owned[f] + a /\ One(LinksTo(pte, f)) = a
    OBVIOUS
  <2> HIDE DEF a, g
  <2> QED BY <2>1, <2>2, <2>3, <2>4
<1>7. OpInv(memory', roots, current, op', N)
  BY <1>1 DEF OpInv
<1>8. Sound(owned, memory, roots, current, op, N)
  BY DEF Now
<1>9. /\ Sound(owned', memory', roots, current, op', N)
      /\ Balanced(owned, memory, N, roots, op, owned', memory', N, roots, op')
  BY <1>1, <1>2, <1>5, <1>6, <1>7, <1>8, EntryChanges
<1> QED BY <1>2, <1>9 DEF Kept

\* The entry that duplicate_subtree() reads.
LEMMA SourceFacts ==
    ASSUME NEW N, Now(N), Duplicating
    PROVE  /\ SourceEntry \in Pte \cup {None} /\ Level \in Levels /\ Top.src \in N[Level] /\ Top.i \in Index
           /\ Top.src \in AllFrames /\ Top.src \in AllOf(N)
           /\ SourceEntry # None => SourceEntry \in Pte /\ SourceEntry.frame \in AllFrames
           /\ Level = LeafLevel /\ SourceEntry # None => Linked(SourceEntry)
<1>1. op.kind = "duplicate" /\ Top.i < EntryCount /\ Top = op.stack[Len(op.stack)]
  BY DEF Duplicating, Top
<1>2. Len(op.stack) \in 1 .. RootLevel + 1 /\ \A d \in 1 .. Len(op.stack) : CopyAt(memory, N, op.stack, d)
  BY <1>1, CopyFacts
<1>3. CopyAt(memory, N, op.stack, Len(op.stack)) /\ Level = LevelAt(Len(op.stack))
  BY <1>2 DEF Level, Depth, LevelAt
<1>4. /\ Level \in Levels /\ Top.src \in N[Level] /\ Top.src \in AllFrames /\ Top.src \in AllOf(N)
      /\ Top.i \in 0 .. EntryCount
  BY <1>1, <1>3 DEF CopyAt
<1>5. Top.i \in Index
  BY <1>1, <1>4, IndexFacts
<1>6. memory \in Contents /\ IsTree(owned, memory, N)
  BY SoundFacts DEF Now
<1>7. /\ SourceEntry \in Pte \cup {None}
      /\ SourceEntry # None => SourceEntry \in Pte /\ SourceEntry.frame \in AllFrames
  BY <1>4, <1>5, <1>6, ContentsType DEF SourceEntry
<1>8. Level = LeafLevel /\ SourceEntry # None => Linked(SourceEntry)
  BY <1>4, <1>5, <1>6 DEF SourceEntry, IsTree
<1> QED BY <1>4, <1>5, <1>7, <1>8

\* duplicate_subtree() skipping an entry keeps the invariant.
LEMMA DuplicateSkipsKept ==
    ASSUME NEW N, Now(N), DuplicateSkips
    PROVE  Kept(N)
<1>1. CopySteps(None) /\ owned' = owned
  BY DEF DuplicateSkips, CopySteps, SetEntry, Edited
<1>2. owned \in [AllFrames -> Nat]
  BY SoundFacts DEF Now
<1>3. ASSUME NEW f \in Ram PROVE owned'[f] = owned[f] + One(LinksTo(None, f))
  BY <1>1, <1>2, NoLink, NoneIsNotLinked, FramesFacts
<1>4. None \in Pte \cup {None}
  OBVIOUS
<1> QED BY <1>1, <1>2, <1>3, <1>4, NoneIsNotLinked, CopyEdit

\* duplicate_subtree() copying a huge page keeps the invariant.
LEMMA DuplicateCopiesHugeKept ==
    ASSUME NEW N, Now(N), DuplicateCopiesHuge
    PROVE  Kept(N)
<1> DEFINE pte == SourceEntry
<1>1. CopySteps(pte) /\ owned' = owned /\ pte # None /\ pte.huge /\ Duplicating
  BY DEF DuplicateCopiesHuge, CopySteps, SetEntry, Edited
<1>2. owned \in [AllFrames -> Nat]
  BY SoundFacts DEF Now
<1>3. pte \in Pte \cup {None} /\ ~Linked(pte) /\ (Level = LeafLevel => Linked(pte))
  BY <1>1, SourceFacts DEF Linked
<1> HIDE DEF pte
<1>4. ASSUME NEW f \in Ram PROVE owned'[f] = owned[f] + One(LinksTo(pte, f))
  BY <1>1, <1>2, <1>3, NoLink, FramesFacts
<1> QED BY <1>1, <1>2, <1>3, <1>4, CopyEdit

\* duplicate_subtree() sharing a page keeps the invariant.
LEMMA DuplicateSharesPageKept ==
    ASSUME NEW N, Now(N), DuplicateSharesPage
    PROVE  Kept(N)
<1> DEFINE pte == SourceEntry
<1>1. /\ CopySteps(pte) /\ Share(pte.frame) /\ pte # None /\ ~pte.huge /\ Level = LeafLevel /\ Duplicating
  BY DEF DuplicateSharesPage, IsKernelLeaf, CopySteps, SetEntry, Edited
<1>2. /\ pte \in Pte \cup {None} /\ Linked(pte) /\ pte.frame \in AllFrames
      /\ Top.src \in N[LeafLevel] /\ Top.i \in Index /\ LinksTo(memory[Top.src][Top.i], pte.frame)
  BY <1>1, SourceFacts DEF Linked, LinksTo, SourceEntry
<1> HIDE DEF pte
<1>3. /\ owned \in [AllFrames -> Nat] /\ roots \in Roots /\ IsOp(op) /\ AreLevels(memory, TopsOf(roots, op), N)
      /\ IsTree(owned, memory, N) /\ Covers(owned, memory, N, roots, op) /\ AllOf(N) \in SUBSET AllFrames
  BY SoundFacts DEF Now
<1>4. pte.frame \notin AllOf(N)
  BY <1>2, <1>3, PageIsNotNode
<1>5. owned' \in [AllFrames -> Nat] /\ \A x \in AllFrames : owned'[x] = owned[x] + One(pte.frame = x)
  BY <1>1, <1>2, <1>3, ShareFacts
<1>6. ASSUME NEW f \in AllOf(N) PROVE owned'[f] = owned[f]
  <2>1. f \in AllFrames /\ owned[f] \in Nat /\ One(pte.frame = f) = 0
    BY <1>3, <1>4 DEF One
  <2> QED BY <1>5, <2>1
<1>7. \A f \in Ram : owned'[f] = owned[f] + One(LinksTo(pte, f))
  BY <1>2, <1>5, LinkedOne, FramesFacts
<1> QED BY <1>1, <1>2, <1>5, <1>6, <1>7, CopyEdit
-----------------------------------------------------------------------------
TopsGrow(rts, o, o2, h, new) ==
    \A l \in Levels : \A x : x \in TopsOf(rts, o2)[l] <=> x \in TopsOf(rts, o)[l] \/ (l = h /\ x = new)
GuardsGrow(o, o2, new) == \A f : Held(GuardsOf(o2), f) = Held(GuardsOf(o), f) + One(new = f)

\* duplicate() takes a new frame for a node of the copy and holds it in a guard.
LEMMA NodeHeld ==
    ASSUME NEW N, Now(N), NEW new, Acquire(new), Cleared(memory, memory', new), roots' = roots, current' = current,
           NEW h \in Levels, IsOp(op'), TopsGrow(roots, op, op', h, new), GuardsGrow(op, op', new),
           NEW N2, Grown(N, N2, h, new), OpInv(memory', roots, current, op', N2)
    PROVE  Kept(N)
<1>1. /\ owned \in [AllFrames -> Nat] /\ memory \in Contents /\ roots \in Roots /\ N \in [Levels -> SUBSET AllFrames]
      /\ AllOf(N) \in SUBSET AllFrames /\ \A x : x \in AllOf(N) <=> \E l \in Levels : x \in N[l]
      /\ AreLevels(memory, TopsOf(roots, op), N) /\ IsTree(owned, memory, N) /\ IsOp(op)
      /\ Typed(owned, memory, roots, current) /\ Covers(owned, memory, N, roots, op)
  BY SoundFacts DEF Now, Sound
<1>2. /\ new \in Ram /\ new \in AllFrames /\ new \notin AllOf(N)
      /\ owned' \in [AllFrames -> Nat] /\ \A x \in AllFrames : owned'[x] = owned[x] + One(new = x)
      /\ owned'[new] = 1 /\ \A f \in AllOf(N) : owned'[f] = owned[f]
      /\ \A l \in Levels : new \notin TopsOf(roots, op)[l] /\ new \notin N[l]
      /\ \A l \in Levels : l < RootLevel => \A k \in N[l + 1], j \in Index : ~LinksTo(memory[k][j], new)
  BY NewNodeFacts
<1>3. /\ memory' \in Contents /\ memory'[new] = Zeroed
      /\ \A k \in AllFrames : k # new => memory'[k] = memory[k]
  BY <1>1, <1>2, ClearedFacts
<1>4. AllOf(N2) = AllOf(N) \cup {new} /\ N2 \in [Levels -> SUBSET AllFrames]
  <2>1. HasGrown(N, N2, h, new)
    BY <1>1, <1>2, GrownFacts
  <2> QED BY <2>1 DEF HasGrown
<1>5. \A k \in AllOf(N) : memory'[k] = memory[k]
  BY <1>1, <1>2, <1>3
<1>6. LinksAgree(memory, memory', N, new)
  BY <1>5 DEF LinksAgree
<1>7. TopsAgree(TopsOf(roots, op), TopsOf(roots, op'), new)
  BY DEF TopsAgree, TopsGrow
<1>8. HangsAt(memory', TopsOf(roots, op'), N, h, new)
  <2>1. ASSUME NEW l \in Levels
        PROVE  (\/ new \in TopsOf(roots, op')[l]
                \/ l < RootLevel /\ \E k \in N[l + 1], j \in Index : LinksTo(memory'[k][j], new)) <=> l = h
    <3>1. new \in TopsOf(roots, op')[l] <=> l = h
      BY <1>2 DEF TopsGrow
    <3>2. ASSUME l < RootLevel, NEW k \in N[l + 1], NEW j \in Index PROVE ~LinksTo(memory'[k][j], new)
      <4>1. l + 1 \in Levels
        BY ONLY l \in Levels, l < RootLevel, LevelsFacts
      <4>2. memory'[k] = memory[k]
        BY <1>1, <1>5, <4>1
      <4> QED BY <1>2, <3>2, <4>2
    <3> QED BY <3>1, <3>2
  <2> QED BY <2>1 DEF HangsAt
<1>9. AreLevels(memory', TopsOf(roots, op'), N2)
  BY <1>1, <1>2, <1>3, <1>6, <1>7, <1>8, NodeAdded
<1>10. IsTree(owned', memory', N2)
  <2>1. \A k \in N[LeafLevel] : memory'[k] = memory[k]
    BY <1>1, <1>5, LevelsFacts
  <2> QED BY <1>1, <1>2, <1>3, <2>1, TreeGrows
<1>11. Balanced(owned, memory, N, roots, op, owned', memory', N2, roots, op')
  <2>1. ASSUME NEW f \in Ram
        PROVE  owned'[f] + Users(memory, N, roots, op, f) = owned[f] + Users(memory', N2, roots, op', f)
    <3> DEFINE e == Entries(memory, AllOf(N), f)
               v == Live(roots, f)
               g == Held(GuardsOf(op), f)
               b == One(new = f)
    <3>1. e \in Nat /\ v \in Nat /\ g \in Nat /\ b \in Nat /\ owned[f] \in Nat
      BY <1>1, FramesFacts, UsersType, OneType
    <3>2. Entries(memory', AllOf(N2), f) = e
      BY <1>1, <1>2, <1>4, EntriesCleared
    <3>3. Held(GuardsOf(op'), f) = g + b
      BY DEF GuardsGrow
    <3>4. owned'[f] = owned[f] + b
      BY <1>2, FramesFacts
    <3>5. Users(memory, N, roots, op, f) = e + v + g /\ Users(memory', N2, roots, op', f) = e + v + (g + b)
      BY <3>2, <3>3 DEF Users
    <3> HIDE DEF e, v, g, b
    <3> QED BY <3>1, <3>4, <3>5
  <2> QED BY <2>1 DEF Balanced
<1>12. Covers(owned', memory', N2, roots, op')
  BY <1>1, <1>2, <1>4, <1>11, BalancedCovers
<1>13. Sound(owned', memory', roots, current, op', N2)
  BY <1>1, <1>2, <1>3, <1>9, <1>10, <1>12 DEF Sound, Typed
<1> QED BY <1>11, <1>13 DEF Kept

\* duplicate() allocating its root keeps the invariant.
LEMMA DuplicateKept ==
    ASSUME NEW N, Now(N), NEW m \in Mappings, NEW copy \in Mappings, NEW new \in Ram, Duplicate(m, copy, new)
    PROVE  Kept(N)
<1> DEFINE fr == [src |-> roots[m], node |-> new, i |-> 0]
           stk == <<fr>>
           N2 == [N EXCEPT ![RootLevel] = @ \cup {new}]
<1>0. /\ op = Idle /\ roots[m] # None /\ roots[copy] = None /\ Acquire(new) /\ Cleared(memory, memory', new)
      /\ op' = [kind |-> "duplicate", m |-> m, copy |-> copy, stack |-> stk]
      /\ roots' = roots /\ current' = current
  BY DEF Duplicate, Cleared
<1>1. /\ memory \in Contents /\ roots \in Roots /\ N \in [Levels -> SUBSET AllFrames] /\ IsOp(op)
      /\ AreLevels(memory, TopsOf(roots, op), N)
  BY SoundFacts DEF Now
<1>2. new \in AllFrames
  BY FramesFacts
<1>3. roots[m] \in AllFrames /\ roots[m] \in N[RootLevel]
  <2>1. roots[m] \in AllFrames
    BY <1>0, <1>1 DEF Roots
  <2>2. roots[m] \in TopsOf(roots, op)[RootLevel]
    BY <1>0, <1>1, TopsType, LevelsFacts
  <2> QED BY <1>1, <2>1, <2>2, LevelsFacts DEF AreLevels
<1>4. fr \in CopyFrame /\ fr.src = roots[m] /\ fr.node = new /\ fr.i = 0
  BY <1>2, <1>3, IndexFacts DEF CopyFrame
<1> HIDE DEF fr
<1>5. stk \in Seq(CopyFrame) /\ Len(stk) = 1 /\ stk[1] = fr
  BY <1>4
<1>6. op' \in CopyOp /\ IsOp(op') /\ op'.m = m /\ op'.copy = copy /\ op'.stack = stk
  BY <1>0, <1>5 DEF CopyOp, IsOp
<1> HIDE DEF stk
<1>7. TopsGrow(roots, op, op', RootLevel, new)
  <2>1. ASSUME NEW l \in Levels, NEW x
        PROVE  x \in TopsOf(roots, op')[l] <=> x \in TopsOf(roots, op)[l] \/ (l = RootLevel /\ x = new)
    <3>1. op \notin CopyOp
      BY <1>0, IdleFacts
    <3>2. (\E d \in 1 .. Len(stk) : LevelAt(d) = l /\ stk[d].node = x) <=> l = RootLevel /\ x = new
      BY <1>4, <1>5, LevelsFacts, LevelsAssumption DEF LevelAt
    <3> QED BY <1>1, <1>6, <3>1, <3>2, TopsType
  <2> QED BY <2>1 DEF TopsGrow
<1>8. GuardsGrow(op, op', new)
  <2>1. ASSUME NEW f PROVE Held(GuardsOf(op'), f) = Held(GuardsOf(op), f) + One(new = f)
    <3>1. Held(GuardsOf(op), f) = 0
      BY <1>0, IdleFacts, HeldNone
    <3>2. GuardsOf(op') = NodesOn(stk)
      BY <1>6, GuardsFacts
    <3>3. NodesOn(stk) = <<new>>
      BY <1>4, <1>5 DEF NodesOn
    <3>4. Held(<<new>>, f) = One(new = f)
      BY HeldOne
    <3> QED BY <3>1, <3>2, <3>3, <3>4, OneType
  <2> QED BY <2>1 DEF GuardsGrow
<1>9. Grown(N, N2, RootLevel, new) /\ RootLevel \in Levels
  BY LevelsFacts DEF Grown
<1> HIDE DEF N2
<1>10. roots[m] \in N2[RootLevel]
  <2>1. HasGrown(N, N2, RootLevel, new)
    BY <1>1, <1>2, <1>9, GrownFacts
  <2> QED BY <1>3, <1>9, <2>1 DEF HasGrown
<1>11. \A j \in Index : memory'[new][j] = None
  BY <1>0, <1>1, <1>2, ClearedFacts
<1>12. Copies(memory', roots, op', N2)
  <2>1. Len(stk) \in 1 .. RootLevel + 1 /\ LevelAt(1) = RootLevel
    BY <1>5, LevelsAssumption DEF LevelAt
  <2>2. \A d \in 1 .. Len(stk) : d = 1
    BY <1>5
  <2>3. \A d \in 1 .. Len(stk) - 1 : FALSE
    BY <1>5
  <2> QED BY <1>0, <1>4, <1>5, <1>6, <1>10, <1>11, <2>1, <2>2, <2>3, ZenonT(30) DEF Copies
<1>13. OpInv(memory', roots, current, op', N2)
  BY <1>12 DEF OpInv
<1> QED BY <1>0, <1>6, <1>7, <1>8, <1>9, <1>13, NodeHeld

\* One frame more on the stack of duplicate_subtree().
IsPushed(stk, fr, stk2) == stk2 = Append(stk, fr)

\* A stack with one more frame.
LEMMA PushedFacts ==
    ASSUME NEW A, NEW stk \in Seq(A), NEW fr \in A, NEW stk2, IsPushed(stk, fr, stk2)
    PROVE  /\ stk2 \in Seq(A) /\ Len(stk2) = Len(stk) + 1 /\ stk2[Len(stk) + 1] = fr
           /\ \A d \in 1 .. Len(stk) : stk2[d] = stk[d]
  BY DEF IsPushed

\* The guard of the new frame is one more guard.
LEMMA HeldPushed ==
    ASSUME NEW stk \in Seq(CopyFrame), NEW fr \in CopyFrame, NEW stk2, IsPushed(stk, fr, stk2), NEW f
    PROVE  Held(NodesOn(stk2), f) = Held(NodesOn(stk), f) + One(fr.node = f)
<1> DEFINE n == Len(stk)
           S == Places(NodesOn(stk), f)
           T == Places(NodesOn(stk2), f)
<1>1. /\ stk2 \in Seq(CopyFrame) /\ Len(stk2) = n + 1 /\ stk2[n + 1] = fr /\ n \in Nat
      /\ \A d \in 1 .. n : stk2[d] = stk[d]
  BY DEF IsPushed
<1>2. /\ NodesOn(stk) \in Seq(AllFrames) /\ Len(NodesOn(stk)) = n /\ \A d \in 1 .. n : NodesOn(stk)[d] = stk[d].node
      /\ NodesOn(stk2) \in Seq(AllFrames) /\ Len(NodesOn(stk2)) = n + 1
      /\ \A d \in 1 .. n + 1 : NodesOn(stk2)[d] = stk2[d].node
  BY <1>1, NodesOnType
<1>3. /\ \A d : d \in S <=> d \in 1 .. n /\ stk[d].node = f
      /\ \A d : d \in T <=> d \in 1 .. n + 1 /\ stk2[d].node = f
  BY <1>2 DEF Places
<1>4. IsFiniteSet(S) /\ Cardinality(S) \in Nat
  BY <1>2, HeldType DEF Held
<1>5. n + 1 \notin S /\ (n + 1 \in T <=> fr.node = f)
  BY <1>1, <1>3
<1>6. S \ {n + 1} = T \ {n + 1}
  BY <1>1, <1>3
<1> HIDE DEF S, T
<1>7. Cardinality(T) + One(n + 1 \in S) = Cardinality(S) + One(n + 1 \in T) /\ Cardinality(T) \in Nat
  BY <1>4, <1>6, SetsDifferAt
<1>8. One(n + 1 \in S) = 0 /\ One(n + 1 \in T) = One(fr.node = f)
  BY <1>5 DEF One
<1>9. Cardinality(T) = Cardinality(S) + One(fr.node = f)
  BY <1>4, <1>7, <1>8, OneType
<1> QED BY <1>1, <1>9 DEF S, T, Held
-----------------------------------------------------------------------------
\* duplicate_subtree() going into a child keeps the invariant.
LEMMA DuplicateDescendsKept ==
    ASSUME NEW N, Now(N), NEW new \in Ram, DuplicateDescends(new)
    PROVE  Kept(N)
<1> DEFINE stk == op.stack
           n == Len(op.stack)
           fr == [src |-> SourceEntry.frame, node |-> new, i |-> 0]
           stk2 == Append(stk, fr)
           h == Level - 1
           N2 == [N EXCEPT ![h] = @ \cup {new}]
<1>0. /\ Duplicating /\ op.kind = "duplicate" /\ Acquire(new) /\ Cleared(memory, memory', new)
      /\ Level > LeafLevel /\ Linked(SourceEntry) /\ SourceEntry # None
      /\ op' = [op EXCEPT !.stack = stk2]
      /\ roots' = roots /\ current' = current
  BY DEF DuplicateDescends, Duplicating, Cleared, AtInnerEntry, Linked, Pushed
<1>1. /\ Copies(memory, roots, op, N) /\ op \in CopyOp /\ IsOp(op)
      /\ op.m \in Mappings /\ op.copy \in Mappings /\ roots[op.m] # None /\ roots[op.copy] = None
      /\ stk \in Seq(CopyFrame) /\ n \in 1 .. RootLevel + 1 /\ n \in Nat
      /\ GuardsOf(op) = NodesOn(stk)
      /\ \A d \in 1 .. n : CopyAt(memory, N, stk, d)
  BY <1>0, CopyFacts
<1>2. /\ memory \in Contents /\ roots \in Roots /\ N \in [Levels -> SUBSET AllFrames]
      /\ AreLevels(memory, TopsOf(roots, op), N)
  BY SoundFacts DEF Now
<1>3. /\ new \in AllFrames /\ new \notin AllOf(N)
  BY <1>0, NewNodeFacts
<1>4. /\ Level \in Levels /\ Top.src \in N[Level] /\ Top.i \in Index /\ Top.src \in AllFrames
      /\ SourceEntry.frame \in AllFrames /\ Top.i < EntryCount /\ Top = stk[n]
      /\ LinksTo(memory[Top.src][Top.i], SourceEntry.frame)
  BY <1>0, SourceFacts DEF Duplicating, Top, SourceEntry, LinksTo
<1>5. h \in Levels /\ h < RootLevel /\ h + 1 = Level /\ h = LevelAt(n + 1) /\ n \in 1 .. RootLevel
  BY <1>0, <1>1, <1>4, LevelsFacts, LevelsAssumption DEF LevelAt, Level, Depth, LeafLevel
<1>6. SourceEntry.frame \in N[h]
  BY <1>2, <1>4, <1>5 DEF AreLevels
<1>7. fr \in CopyFrame /\ fr.src = SourceEntry.frame /\ fr.node = new /\ fr.i = 0
  BY <1>3, <1>4, IndexFacts DEF CopyFrame
<1> HIDE DEF fr
<1>20. IsPushed(stk, fr, stk2)
  BY DEF IsPushed
<1> HIDE DEF stk2
<1>8. /\ stk2 \in Seq(CopyFrame) /\ Len(stk2) = n + 1 /\ stk2[n + 1] = fr /\ \A d \in 1 .. n : stk2[d] = stk[d]
      /\ \A f : Held(NodesOn(stk2), f) = Held(NodesOn(stk), f) + One(fr.node = f)
  <2>1. fr \in CopyFrame /\ stk \in Seq(CopyFrame) /\ IsPushed(stk, fr, stk2)
    BY <1>1, <1>7, <1>20
  <2>2. /\ stk2 \in Seq(CopyFrame) /\ Len(stk2) = Len(stk) + 1 /\ stk2[Len(stk) + 1] = fr
        /\ \A d \in 1 .. Len(stk) : stk2[d] = stk[d]
    BY ONLY <2>1, PushedFacts
  <2>3. ASSUME NEW f PROVE Held(NodesOn(stk2), f) = Held(NodesOn(stk), f) + One(fr.node = f)
    BY ONLY <2>1, HeldPushed
  <2> QED BY <2>2, <2>3
<1>9. op' \in CopyOp /\ IsOp(op') /\ op'.m = op.m /\ op'.copy = op.copy /\ op'.stack = stk2
  BY <1>0, <1>1, <1>8 DEF CopyOp, IsOp
<1> HIDE DEF n, stk, h
<1>10. \A d : d \in 1 .. n + 1 <=> d \in 1 .. n \/ d = n + 1
  BY <1>1
<1>11. TopsGrow(roots, op, op', h, new)
  <2>1. ASSUME NEW l \in Levels, NEW x
        PROVE  x \in TopsOf(roots, op')[l] <=> x \in TopsOf(roots, op)[l] \/ (l = h /\ x = new)
    <3>1. (\E d \in 1 .. n + 1 : LevelAt(d) = l /\ stk2[d].node = x) <=>
              (\E d \in 1 .. n : LevelAt(d) = l /\ stk[d].node = x) \/ (l = h /\ x = new)
      BY <1>5, <1>7, <1>8, <1>10
    <3>2. x \in TopsOf(roots, op)[l] <=>
                 \/ l = RootLevel /\ x # None /\ \E m \in Mappings : roots[m] = x
                 \/ \E d \in 1 .. n : LevelAt(d) = l /\ stk[d].node = x
      BY <1>1, <1>2, TopsType DEF n, stk
    <3>3. x \in TopsOf(roots, op')[l] <=>
                 \/ l = RootLevel /\ x # None /\ \E m \in Mappings : roots[m] = x
                 \/ \E d \in 1 .. n + 1 : LevelAt(d) = l /\ stk2[d].node = x
      BY <1>2, <1>8, <1>9, TopsType
    <3> QED BY <3>1, <3>2, <3>3
  <2> QED BY <2>1 DEF TopsGrow
<1>12. GuardsGrow(op, op', new)
  <2>1. GuardsOf(op') = NodesOn(stk2)
    BY <1>9, GuardsFacts
  <2> QED BY <1>1, <1>7, <1>8, <2>1 DEF GuardsGrow
<1>13. Grown(N, N2, h, new)
  BY DEF Grown
<1> HIDE DEF N2
<1>14. \A l \in Levels : \A x : x \in N[l] => x \in N2[l]
  <2>1. HasGrown(N, N2, h, new)
    BY <1>2, <1>3, <1>5, <1>13, GrownFacts
  <2> QED BY <2>1 DEF HasGrown
<1>15. /\ \A j \in Index : memory'[new][j] = None
       /\ \A k \in AllFrames : k # new => memory'[k] = memory[k]
  BY <1>0, <1>2, <1>3, ClearedFacts
<1>16. ASSUME NEW d \in 1 .. n + 1
       PROVE  /\ stk2[d].src \in N2[LevelAt(d)]
              /\ \A j \in Index : j >= stk2[d].i => memory'[stk2[d].node][j] = None
  <2>1. CASE d = n + 1
    BY <2>1, <1>5, <1>6, <1>7, <1>8, <1>14, <1>15
  <2>2. CASE d \in 1 .. n
    <3>1. CopyAt(memory, N, stk, d) /\ stk2[d] = stk[d]
      BY <2>2, <1>1, <1>8
    <3>2. stk[d].node \in AllFrames /\ stk[d].node # new
      BY <3>1, <1>3 DEF CopyAt
    <3>3. memory'[stk[d].node] = memory[stk[d].node]
      BY <3>2, <1>15
    <3>4. stk[d].src \in N2[LevelAt(d)]
      BY <3>1, <1>14 DEF CopyAt
    <3> QED BY <3>1, <3>3, <3>4 DEF CopyAt
  <2> QED BY <2>1, <2>2, <1>10
<1>17. ASSUME NEW d \in 1 .. n
       PROVE  stk2[d].i < EntryCount /\ LinksTo(memory'[stk2[d].src][stk2[d].i], stk2[d + 1].src)
  <2>0. CopyAt(memory, N, stk, d) /\ stk2[d] = stk[d]
    BY <1>1, <1>8
  <2>1. stk[d].src \in AllFrames /\ stk[d].src # new
    BY <2>0, <1>3 DEF CopyAt
  <2>2. memory'[stk[d].src] = memory[stk[d].src]
    BY <2>1, <1>15
  <2>3. CASE d = n
    BY <2>0, <2>2, <2>3, <1>4, <1>7, <1>8
  <2>4. CASE d # n
    <3>1. d \in 1 .. n - 1 /\ d + 1 \in 1 .. n
      BY <2>4, <1>1
    <3>2. stk[d].i < EntryCount /\ LinksTo(memory[stk[d].src][stk[d].i], stk[d + 1].src)
      BY <3>1, <1>1 DEF Copies, n, stk
    <3> QED BY <3>1, <3>2, <2>0, <2>2, <1>8
  <2> QED BY <2>3, <2>4
<1>18. Copies(memory', roots, op', N2)
  <2>1. Len(stk2) = n + 1 /\ Len(stk2) \in 1 .. RootLevel + 1 /\ 1 \in 1 .. n /\ Len(stk2) - 1 = n
    <3>1. Len(stk2) = n + 1 /\ n \in Nat /\ n >= 1 /\ n <= RootLevel /\ RootLevel \in Nat
      BY <1>1, <1>5, <1>8, LevelsFacts
    <3> QED BY ONLY <3>1
  <2>2. stk2[1].src = roots[op.m]
    BY <2>1, <1>1, <1>8 DEF Copies, stk
  <2> QED BY <2>1, <2>2, <1>1, <1>9, <1>16, <1>17 DEF Copies
<1>19. OpInv(memory', roots, current, op', N2)
  BY <1>18 DEF OpInv
<1> QED BY <1>0, <1>5, <1>9, <1>11, <1>12, <1>13, <1>19, NodeHeld
-----------------------------------------------------------------------------
\* The stack without its top.
LEMMA PoppedFacts ==
    ASSUME NEW A, NEW stk \in Seq(A), NEW n, n = Len(stk), n > 1, NEW stkp, stkp = SubSeq(stk, 1, n - 1)
    PROVE  /\ stkp \in Seq(A) /\ Len(stkp) = n - 1 /\ \A d \in 1 .. n - 1 : stkp[d] = stk[d]
           /\ stk[n] \in A /\ IsPushed(stkp, stk[n], stk)
<1>1. n \in Nat /\ n - 1 \in Nat /\ n - 1 >= 1 /\ n \in 1 .. n /\ DOMAIN stk = 1 .. n
  OBVIOUS
<1>2. stkp \in Seq(A) /\ Len(stkp) = n - 1 /\ \A d \in 1 .. n - 1 : stkp[d] = stk[d]
  BY <1>1
<1>3. stk[n] \in A
  BY <1>1
<1>4. Append(stkp, stk[n]) = stk
  <2> DEFINE s == Append(stkp, stk[n])
  <2>1. s \in Seq(A) /\ Len(s) = n /\ s[n] = stk[n] /\ \A d \in 1 .. n - 1 : s[d] = stk[d]
    BY <1>1, <1>2, <1>3
  <2>2. \A d \in 1 .. n : s[d] = stk[d]
    BY <2>1, <1>1
  <2> HIDE DEF s
  <2>3. s = stk
    BY <2>1, <2>2, <1>1
  <2> QED BY <2>3 DEF s
<1> QED BY <1>2, <1>3, <1>4 DEF IsPushed

\* duplicate_subtree() linking a finished child keeps the invariant.
LEMMA DuplicateReturnsKept ==
    ASSUME NEW N, Now(N), DuplicateReturns
    PROVE  Kept(N)
<1> DEFINE stk == op.stack
           n == Len(op.stack)
           c == n - 1
           p == stk[c].node
           i == stk[c].i
           t == stk[n].node
           e0 == memory[stk[c].src][i]
           pte == [e0 EXCEPT !.frame = t]
           stkp == SubSeq(stk, 1, n - 1)
           stk2 == Next1(stkp)
           h == LevelAt(c)
<1>0. /\ op.kind = "duplicate" /\ n > 1 /\ Edited(memory, memory', p, i, pte)
      /\ op' = [op EXCEPT !.stack = stk2] /\ owned' = owned /\ roots' = roots /\ current' = current
  BY DEF DuplicateReturns, SetEntry, Edited, Popped, Depth, Top
<1>1. /\ Copies(memory, roots, op, N) /\ op \in CopyOp /\ IsOp(op)
      /\ op.m \in Mappings /\ op.copy \in Mappings /\ roots[op.m] # None /\ roots[op.copy] = None
      /\ stk \in Seq(CopyFrame) /\ n \in 1 .. RootLevel + 1 /\ n \in Nat
      /\ GuardsOf(op) = NodesOn(stk)
      /\ \A d \in 1 .. n : CopyAt(memory, N, stk, d)
  BY <1>0, CopyFacts
<1>2. c \in 1 .. n /\ c \in 1 .. n - 1 /\ n \in 1 .. n /\ c + 1 = n /\ c # n /\ c \in Nat /\ c >= 1 /\ 1 \in 1 .. c
  BY <1>0, <1>1, SMTT(30)
<1>3. /\ memory \in Contents /\ roots \in Roots /\ N \in [Levels -> SUBSET AllFrames] /\ owned \in [AllFrames -> Nat]
      /\ AreLevels(memory, TopsOf(roots, op), N) /\ IsTree(owned, memory, N)
      /\ \A x : x \in AllOf(N) <=> \E l \in Levels : x \in N[l]
  BY SoundFacts DEF Now
<1>4. /\ p \in AllFrames /\ p \in N[h] /\ h \in Levels /\ i \in 0 .. EntryCount /\ stk[c].src \in AllFrames /\ p \in AllOf(N)
      /\ \A j \in Index : j >= i => memory[p][j] = None
  BY <1>1, <1>2 DEF CopyAt
<1>5. t \in AllFrames /\ t \in N[LevelAt(n)] /\ LevelAt(n) \in Levels /\ t \in AllOf(N)
  BY <1>1, <1>2 DEF CopyAt
<1>6. h = LevelAt(n) + 1 /\ h # LeafLevel
  <2>1. n \in 1 .. RootLevel + 1 /\ c \in 1 .. n /\ c < n /\ c + 1 = n
    BY <1>0, <1>1, <1>2, SMTT(30)
  <2>2. LevelAt(c) = LevelAt(c + 1) + 1 /\ LevelAt(c) # LeafLevel
    <3> HIDE DEF c, n
    <3> QED BY ONLY <2>1, LevelAtType
  <2> QED BY <2>1, <2>2
<1>7. i < EntryCount /\ LinksTo(e0, stk[n].src)
  BY <1>1, <1>2 DEF Copies
<1>8. i \in Index /\ memory[p][i] = None
  BY <1>4, <1>7, IndexFacts
<1>9. pte \in Pte \cup {None} /\ Linked(pte) /\ pte.frame = t
  <2>1. e0 \in Pte /\ ~e0.huge
    BY <1>3, <1>4, <1>7, <1>8, ContentsType DEF LinksTo, Linked
  <2>2. pte \in Pte /\ pte.frame = t /\ ~pte.huge
    BY <2>1, <1>5 DEF Pte
  <2> QED BY <2>2, FramesFacts DEF Linked
<1> HIDE DEF pte
<1>10. /\ stkp \in Seq(CopyFrame) /\ Len(stkp) = c /\ \A d \in 1 .. c : stkp[d] = stk[d]
       /\ stk[n] \in CopyFrame /\ IsPushed(stkp, stk[n], stk)
  BY <1>0, <1>1, PoppedFacts
<1> HIDE DEF stkp
<1>11. AdvancedIs(stkp, stk2)
  <2>1. Advanced(stkp, stk2)
    BY DEF Advanced, Next1
  <2>2. Len(stkp) >= 1 /\ stkp[Len(stkp)].i < EntryCount
    BY <1>2, <1>7, <1>10
  <2> QED BY <1>10, <2>1, <2>2, AdvancedFacts
<1> HIDE DEF stk2
<1>12. /\ stk2 \in Seq(CopyFrame) /\ Len(stk2) = c
       /\ \A d \in 1 .. c : stk2[d].src = stk[d].src /\ stk2[d].node = stk[d].node
       /\ \A d \in 1 .. c : d # c => stk2[d].i = stk[d].i
       /\ stk2[c].i = i + 1
  BY <1>2, <1>10, <1>11 DEF AdvancedIs
<1>13. op' \in CopyOp /\ IsOp(op') /\ op'.m = op.m /\ op'.copy = op.copy /\ op'.stack = stk2
  BY <1>0, <1>1, <1>12 DEF CopyOp, IsOp
<1>14. \A d \in 1 .. n : /\ stk[d].src # t /\ stk[d].src # p
                         /\ stk[d].node = t => d = n
                         /\ stk[d].node = p => d = c
  BY <1>0, <1>2, CopiesAreApart
<1>15. /\ \A k \in AllOf(N), j \in Index : ~LinksTo(memory[k][j], t)
       /\ \A m \in Mappings : roots[m] # t
  BY <1>0, <1>2, CopiesAreApart
<1>16. /\ memory' \in Contents /\ memory'[p][i] = pte
       /\ \A k \in AllFrames, j \in Index : k # p \/ j # i => memory'[k][j] = memory[k][j]
       /\ \A k \in AllFrames : k # p => memory'[k] = memory[k]
  <2>1. DiffersAt(memory, memory', p, i, pte)
    BY <1>0, <1>3, <1>4, <1>8, <1>9, EditedDiffers
  <2> QED BY <2>1 DEF DiffersAt
<1>17. \A d : d \in 1 .. n <=> d \in 1 .. c \/ d = n
  BY <1>0, <1>1
<1> HIDE DEF stk, n, c, p, i, t, e0, h
<1>18. \A l \in Levels : \A x : x \in TopsOf(roots, op')[l] <=> x \in TopsOf(roots, op)[l] /\ x # t
  <2>1. ASSUME NEW l \in Levels, NEW x
        PROVE  x \in TopsOf(roots, op')[l] <=> x \in TopsOf(roots, op)[l] /\ x # t
    <3>0. \A d \in 1 .. c : d \in 1 .. n /\ d # n
      BY <1>0, <1>1 DEF c, n
    <3>1. (\E d \in 1 .. c : LevelAt(d) = l /\ stk2[d].node = x) <=>
              (\E d \in 1 .. n : LevelAt(d) = l /\ stk[d].node = x) /\ x # t
      <4>1. stk[n].node = t
        BY DEF stk, n, t
      <4> QED BY <1>12, <1>14, <1>17, <3>0, <4>1
    <3>2. x \in TopsOf(roots, op)[l] <=>
                 \/ l = RootLevel /\ x # None /\ \E m \in Mappings : roots[m] = x
                 \/ \E d \in 1 .. n : LevelAt(d) = l /\ stk[d].node = x
      BY <1>1, <1>3, TopsType DEF n, stk
    <3>3. x \in TopsOf(roots, op')[l] <=>
                 \/ l = RootLevel /\ x # None /\ \E m \in Mappings : roots[m] = x
                 \/ \E d \in 1 .. c : LevelAt(d) = l /\ stk2[d].node = x
      BY <1>3, <1>12, <1>13, TopsType
    <3> QED BY <1>15, <3>1, <3>2, <3>3
  <2> QED BY <2>1
<1>19. AreLevels(memory', TopsOf(roots, op'), N)
  <2>1. ASSUME NEW l \in Levels, NEW x \in AllFrames
        PROVE  x \in N[l] <=> \/ x \in TopsOf(roots, op')[l]
                              \/ l < RootLevel /\ \E k \in N[l + 1], j \in Index : LinksTo(memory'[k][j], x)
    <3>0. l < RootLevel => l + 1 \in Levels /\ \A k \in N[l + 1] : k \in AllOf(N) /\ k \in AllFrames
      <4>1. l < RootLevel => l + 1 \in Levels
        BY ONLY l \in Levels, LevelsFacts
      <4> QED BY <1>3, <4>1
    <3>1. CASE x = t
      <4>1. x \in N[l] <=> l = LevelAt(n)
        BY <3>1, <1>3, <1>5 DEF IsTree
      <4>2. x \notin TopsOf(roots, op')[l]
        BY <3>1, <1>18
      <4>3. l = LevelAt(n) => l < RootLevel /\ p \in N[l + 1] /\ LinksTo(memory'[p][i], x)
        <5>1. l = LevelAt(n) => l + 1 = h /\ l < RootLevel
          BY <1>4, <1>5, <1>6, LevelsFacts
        <5> QED BY <5>1, <3>1, <1>4, <1>9, <1>16 DEF LinksTo
      <4>4. ASSUME l < RootLevel, NEW k \in N[l + 1], NEW j \in Index, LinksTo(memory'[k][j], x) PROVE l = LevelAt(n)
        <5>1. k = p
          BY <4>4, <3>0, <3>1, <1>15, <1>16
        <5>2. l + 1 = h
          BY <5>1, <4>4, <3>0, <1>3, <1>4 DEF IsTree
        <5>3. l \in Nat /\ LevelAt(n) \in Nat /\ h = LevelAt(n) + 1
          BY <1>5, <1>6, LevelsFacts
        <5> QED BY ONLY <5>2, <5>3
      <4> QED BY <4>1, <4>2, <4>3, <4>4, <1>8
    <3>2. CASE x # t
      <4>1. x \in N[l] <=> \/ x \in TopsOf(roots, op)[l]
                           \/ l < RootLevel /\ \E k \in N[l + 1], j \in Index : LinksTo(memory[k][j], x)
        BY <1>3 DEF AreLevels
      <4>2. ASSUME l < RootLevel, NEW k \in N[l + 1], NEW j \in Index
            PROVE  LinksTo(memory[k][j], x) <=> LinksTo(memory'[k][j], x)
        <5>1. CASE k = p /\ j = i
          BY <5>1, <3>2, <1>8, <1>9, <1>16, NoLink, NoneIsNotLinked DEF LinksTo
        <5>2. CASE k # p \/ j # i
          BY <5>2, <4>2, <3>0, <1>16
        <5> QED BY <5>1, <5>2
      <4> QED BY <4>1, <4>2, <3>2, <1>18
    <3> QED BY <3>1, <3>2
  <2> QED BY <2>1, <1>3 DEF AreLevels
<1>20. ASSUME NEW f PROVE Held(GuardsOf(op), f) = Held(GuardsOf(op'), f) + One(t = f)
  <2>1. GuardsOf(op') = NodesOn(stk2)
    BY <1>13, GuardsFacts
  <2>2. NodesOn(stk2) = NodesOn(stkp)
    <3>1. /\ stkp \in Seq(CopyFrame) /\ stk2 \in Seq(CopyFrame) /\ Len(stk2) = Len(stkp)
          /\ \A d \in 1 .. Len(stkp) : stk2[d].node = stkp[d].node
      BY <1>10, <1>12
    <3> QED BY ONLY <3>1, SameNodesHeld
  <2>3. Held(NodesOn(stk), f) = Held(NodesOn(stkp), f) + One(stk[n].node = f)
    BY <1>1, <1>10, HeldPushed
  <2> QED BY <2>1, <2>2, <2>3, <1>1 DEF t, stk, n
<1>21. ASSUME NEW f \in Ram
       PROVE  owned'[f] + One(LinksTo(memory[p][i], f)) + Held(GuardsOf(op), f)
              = owned[f] + One(LinksTo(pte, f)) + Held(GuardsOf(op'), f)
  <2> DEFINE a == One(t = f)
             g == Held(GuardsOf(op'), f)
  <2>1. a \in Nat /\ g \in Nat /\ owned[f] \in Nat
    BY <1>3, <1>13, OneType, FramesFacts, UsersType
  <2>2. One(LinksTo(memory[p][i], f)) = 0
    BY <1>8, NoLink, NoneIsNotLinked
  <2>3. Held(GuardsOf(op), f) = g + a /\ Held(GuardsOf(op'), f) = g
    BY <1>20
  <2>4. owned'[f] = owned[f] /\ One(LinksTo(pte, f)) = a
    BY <1>0, <1>9, LinkedOne
  <2> HIDE DEF a, g
  <2> QED BY <2>1, <2>2, <2>3, <2>4
<1>22. ASSUME NEW d \in 1 .. c
       PROVE  /\ stk2[d].src \in N[LevelAt(d)]
              /\ \A j \in Index : j >= stk2[d].i => memory'[stk2[d].node][j] = None
  <2>0. d \in 1 .. n /\ CopyAt(memory, N, stk, d)
    BY <1>1, <1>17
  <2>1. stk2[d].src \in N[LevelAt(d)] /\ stk2[d].node = stk[d].node /\ stk[d].node \in AllFrames
    BY <2>0, <1>12 DEF CopyAt
  <2>2. ASSUME NEW j \in Index, j >= stk2[d].i PROVE memory'[stk[d].node][j] = None
    <3>1. CASE d = c
      <4>1. stk2[d].i = i + 1 /\ stk[d].node = p
        BY <3>1, <1>12 DEF p
      <4>2. j > i /\ j # i /\ j >= i
        BY <2>2, <4>1, <1>8, IndexFacts
      <4> QED BY <4>1, <4>2, <1>4, <1>16
    <3>2. CASE d # c
      <4>1. stk[d].node # p /\ stk2[d].i = stk[d].i
        BY <2>0, <3>2, <1>12, <1>14
      <4>2. memory'[stk[d].node] = memory[stk[d].node]
        BY <4>1, <2>1, <1>16
      <4> QED BY <4>1, <4>2, <2>0, <2>2 DEF CopyAt
    <3> QED BY <3>1, <3>2
  <2> QED BY <2>1, <2>2
<1>23. ASSUME NEW d \in 1 .. c - 1
       PROVE  stk2[d].i < EntryCount /\ LinksTo(memory'[stk2[d].src][stk2[d].i], stk2[d + 1].src)
  <2>1. d \in 1 .. c /\ d + 1 \in 1 .. c /\ d # c /\ d \in 1 .. n - 1 /\ d \in 1 .. n
    BY <1>0, <1>1 DEF c, n
  <2>2. stk2[d].i = stk[d].i /\ stk2[d].src = stk[d].src /\ stk2[d + 1].src = stk[d + 1].src
    BY <1>12, <2>1
  <2>3. stk[d].i < EntryCount /\ LinksTo(memory[stk[d].src][stk[d].i], stk[d + 1].src)
    BY <1>1, <2>1 DEF Copies, stk, n
  <2>4. stk[d].src # p /\ stk[d].src \in AllFrames
    BY <1>1, <1>14, <2>1 DEF CopyAt
  <2>5. memory'[stk[d].src] = memory[stk[d].src]
    BY <2>4, <1>16
  <2> QED BY <2>2, <2>3, <2>5
<1>24. Copies(memory', roots, op', N)
  <2>1. Len(stk2) = c /\ Len(stk2) \in 1 .. RootLevel + 1
    <3>1. n \in 1 .. RootLevel + 1 /\ c = n - 1 /\ c >= 1 /\ RootLevel \in Nat /\ Len(stk2) = c
      BY <1>1, <1>2, <1>12, LevelsFacts DEF c
    <3> QED BY ONLY <3>1
  <2>2. stk2[1].src = roots[op.m]
    BY <1>1, <1>2, <1>12 DEF Copies, stk
  <2> QED BY <2>1, <2>2, <1>1, <1>13, <1>22, <1>23 DEF Copies
<1>25. OpInv(memory', roots, current, op', N) /\ Sound(owned, memory, roots, current, op, N)
  BY <1>24 DEF OpInv, Now
<1>26. /\ Sound(owned', memory', roots, current, op', N)
       /\ Balanced(owned, memory, N, roots, op, owned', memory', N, roots, op')
  <2>1. owned' \in [AllFrames -> Nat] /\ \A f \in AllOf(N) : owned'[f] = owned[f]
    BY <1>0, <1>3
  <2>2. Edited(memory, memory', p, i, pte)
    BY <1>0 DEF p, i, stk, c
  <2> QED BY <1>4, <1>6, <1>8, <1>9, <1>19, <1>21, <1>25, <2>1, <2>2, EntryChanges
<1> QED BY <1>0, <1>26 DEF Kept
-----------------------------------------------------------------------------
LiveMoves(rts, rts2, m, r) ==
    \A f \in AllFrames : Live(rts2, f) + One(rts[m] = f) = Live(rts, f) + One(r = f)

\* The number of the mappings with any given root, when one mapping gets another root.
LEMMA LiveMoved ==
    ASSUME NEW rts \in Roots, NEW rts2, NEW m \in Mappings, NEW r \in AllFrames \cup {None}, Rerooted(rts, rts2, m, r)
    PROVE  rts2 \in Roots /\ LiveMoves(rts, rts2, m, r)
<1>1. rts2 \in Roots
  BY DEF Rerooted, Roots
<1>2. ASSUME NEW f \in AllFrames PROVE Live(rts2, f) + One(rts[m] = f) = Live(rts, f) + One(r = f)
  BY LiveRerooted
<1> QED BY <1>1, <1>2 DEF LiveMoves

\* duplicate() that succeeds keeps the invariant.
LEMMA DuplicateEndsKept ==
    ASSUME NEW N, Now(N), DuplicateEnds
    PROVE  Kept(N)
<1> DEFINE t == op.stack[1].node
<1>0. /\ op.kind = "duplicate" /\ Len(op.stack) = 1 /\ Rerooted(roots, roots', op.copy, t)
      /\ op' = Idle /\ owned' = owned /\ memory' = memory /\ current' = current
  BY DEF DuplicateEnds, Rerooted, Top, Depth
<1>1. /\ op \in CopyOp /\ op.copy \in Mappings /\ roots[op.copy] = None
      /\ op.stack \in Seq(CopyFrame) /\ GuardsOf(op) = NodesOn(op.stack)
      /\ \A d \in 1 .. Len(op.stack) : CopyAt(memory, N, op.stack, d)
  BY <1>0, CopyFacts
<1>2. CopyAt(memory, N, op.stack, 1)
  BY <1>0, <1>1
<1>3. t \in AllFrames /\ t # None
  BY <1>2, FramesFacts DEF CopyAt
<1>4. /\ owned \in [AllFrames -> Nat] /\ memory \in Contents /\ roots \in Roots /\ N \in [Levels -> SUBSET AllFrames]
      /\ AllOf(N) \in SUBSET AllFrames /\ current \in Mappings /\ roots[current] # None /\ roots[Base] # None
      /\ AreLevels(memory, TopsOf(roots, op), N) /\ IsTree(owned, memory, N) /\ IsOp(op)
      /\ Covers(owned, memory, N, roots, op)
  BY SoundFacts DEF Now, Sound
<1>5. roots' \in Roots /\ \A f \in AllFrames : Live(roots', f) + One(roots[op.copy] = f) = Live(roots, f) + One(t = f)
  <2>1. roots \in Roots /\ op.copy \in Mappings /\ t \in AllFrames \cup {None} /\ Rerooted(roots, roots', op.copy, t)
    BY <1>0, <1>1, <1>3, <1>4
  <2> HIDE DEF t
  <2>2. roots' \in Roots /\ LiveMoves(roots, roots', op.copy, t)
    BY ONLY <2>1, LiveMoved
  <2> QED BY <2>2 DEF LiveMoves
<1>6. \A m \in Mappings : roots'[m] = IF m = op.copy THEN t ELSE roots[m]
  BY <1>0, <1>1, <1>4 DEF Rerooted, Roots
<1>7. IsOp(op') /\ op' \notin CopyOp /\ GuardsOf(op') = <<>>
  BY <1>0, IdleFacts
<1>8. \A l \in Levels : \A x : x \in TopsOf(roots', op')[l] <=> x \in TopsOf(roots, op)[l]
  <2>1. ASSUME NEW l \in Levels, NEW x PROVE x \in TopsOf(roots', op')[l] <=> x \in TopsOf(roots, op)[l]
    <3>1. x \in TopsOf(roots', op')[l] <=> l = RootLevel /\ x # None /\ \E m \in Mappings : roots'[m] = x
      BY <1>5, <1>7, TopsType
    <3>2. x \in TopsOf(roots, op)[l] <=>
                 \/ l = RootLevel /\ x # None /\ \E m \in Mappings : roots[m] = x
                 \/ \E d \in 1 .. Len(op.stack) : LevelAt(d) = l /\ op.stack[d].node = x
      BY <1>1, <1>4, TopsType
    <3>3. (\E d \in 1 .. Len(op.stack) : LevelAt(d) = l /\ op.stack[d].node = x) <=> l = RootLevel /\ x = t
      BY <1>0, LevelsFacts, LevelsAssumption DEF LevelAt
    <3>4. x # None => ((\E m \in Mappings : roots'[m] = x) <=> (\E m \in Mappings : roots[m] = x) \/ x = t)
      BY <1>1, <1>6
    <3> HIDE DEF t
    <3> QED BY <1>3, <3>1, <3>2, <3>3, <3>4
  <2> QED BY <2>1
<1>9. AreLevels(memory', TopsOf(roots', op'), N)
  BY <1>0, <1>4, <1>8 DEF AreLevels
<1>10. Typed(owned', memory', roots', current')
  BY <1>0, <1>1, <1>3, <1>4, <1>5, <1>6, MappingsAssumption DEF Typed
<1>11. IsTree(owned', memory', N)
  BY <1>0, <1>4
<1>12. Balanced(owned, memory, N, roots, op, owned', memory', N, roots', op')
  <2>1. ASSUME NEW f \in Ram
        PROVE  owned'[f] + Users(memory, N, roots, op, f) = owned[f] + Users(memory', N, roots', op', f)
    <3> DEFINE e == Entries(memory, AllOf(N), f)
               v == Live(roots, f)
               v2 == Live(roots', f)
               b == One(t = f)
    <3>1. e \in Nat /\ v \in Nat /\ v2 \in Nat /\ b \in Nat /\ owned[f] \in Nat /\ f \in AllFrames
      BY <1>4, FramesFacts, UsersType, LiveType, OneType
    <3>2. One(roots[op.copy] = f) = 0
      BY <1>1, <3>1, FramesFacts DEF One
    <3>3. v2 = v + b
      <4>1. v2 + One(roots[op.copy] = f) = v + b
        BY <1>5, <3>1
      <4> HIDE DEF v, v2, b
      <4> QED BY <3>1, <3>2, <4>1
    <3>4. Held(GuardsOf(op'), f) = 0
      BY <1>7, HeldNone
    <3>5. Held(GuardsOf(op), f) = b
      <4>1. NodesOn(op.stack) = <<t>>
        BY <1>0, <1>1 DEF NodesOn
      <4>2. Held(<<t>>, f) = One(t = f)
        BY HeldOne
      <4> QED BY <1>1, <4>1, <4>2
    <3>6. Users(memory, N, roots, op, f) = e + v + b /\ Users(memory', N, roots', op', f) = e + v2 + 0
      BY <1>0, <3>4, <3>5 DEF Users
    <3>7. owned'[f] = owned[f]
      BY <1>0
    <3> HIDE DEF e, v, v2, b
    <3> QED BY <3>1, <3>3, <3>6, <3>7
  <2> QED BY <2>1 DEF Balanced
<1>13. owned' \in [AllFrames -> Nat]
  BY <1>0, <1>4
<1>14. Covers(owned', memory', N, roots', op')
  BY <1>4, <1>7, <1>12, <1>13, BalancedCovers
<1>15. OpInv(memory', roots', current', op', N)
  BY <1>0 DEF OpInv
<1>16. Sound(owned', memory', roots', current', op', N)
  BY <1>9, <1>10, <1>11, <1>14, <1>15 DEF Sound
<1> QED BY <1>12, <1>16 DEF Kept

\* The same guards in the opposite order.
LEMMA HeldReversed ==
    ASSUME NEW g \in Seq(AllFrames), NEW r \in Seq(AllFrames), Len(r) = Len(g),
           \A d \in 1 .. Len(g) : r[d] = g[Len(g) - d + 1], NEW f
    PROVE  Held(r, f) = Held(g, f)
<1> DEFINE S == Places(g, f)
           T == Places(r, f)
           turn == [k \in T |-> Len(g) - k + 1]
<1>1. /\ Len(g) \in Nat
      /\ \A k : k \in S <=> k \in 1 .. Len(g) /\ g[k] = f
      /\ \A k : k \in T <=> k \in 1 .. Len(g) /\ r[k] = f
  BY DEF Places
<1>2. IsFiniteSet(S) /\ IsFiniteSet(T)
  BY HeldType
<1> HIDE DEF S, T
<1>3. ASSUME NEW k \in T PROVE Len(g) - k + 1 \in S
  <2>1. k \in 1 .. Len(g) /\ r[k] = f
    BY <1>1
  <2>2. Len(g) - k + 1 \in 1 .. Len(g)
    BY <1>1, <2>1
  <2> QED BY <1>1, <2>1, <2>2
<1>4. ASSUME NEW k \in S PROVE Len(g) - k + 1 \in T /\ k = Len(g) - (Len(g) - k + 1) + 1
  <2>1. k \in 1 .. Len(g) /\ g[k] = f
    BY <1>1
  <2>2. Len(g) - k + 1 \in 1 .. Len(g) /\ k = Len(g) - (Len(g) - k + 1) + 1
    BY <1>1, <2>1
  <2>3. r[Len(g) - k + 1] = g[Len(g) - (Len(g) - k + 1) + 1]
    BY <2>2
  <2> QED BY <1>1, <2>1, <2>2, <2>3
<1>5. turn \in Bijection(T, S)
  <2>1. turn \in [T -> S]
    BY <1>3
  <2>2. \A a, b \in T : turn[a] = turn[b] => a = b
    BY <1>1
  <2>3. \A k \in S : \E j \in T : turn[j] = k
    BY <1>4
  <2> QED BY <2>1, <2>2, <2>3 DEF Bijection, Injection, Surjection, IsInjective
<1>6. Cardinality(T) = Cardinality(S)
  BY <1>2, <1>5, FS_Bijection DEF ExistsBijection
<1> QED BY <1>6 DEF Held, S, T
-----------------------------------------------------------------------------
\* The step keeps the invariant, and may leave owners without users.
KeptSound == \E N2 : Sound(owned', memory', roots', current', op', N2)

\* A balanced step is a sound one.
LEMMA KeptIsSound ==
    ASSUME NEW N, Kept(N)
    PROVE  KeptSound
  BY DEF Kept, KeptSound

\* duplicate() that fails leaves a sound state: the children it had linked leak.
LEMMA DuplicateFailsKept ==
    ASSUME NEW N, Now(N), DuplicateFails
    PROVE  KeptSound
<1> DEFINE n == Len(op.stack)
           r == [d \in 1 .. n |-> op.stack[n - d + 1].node]
           g == NodesOn(op.stack)
           N2 == NodeLevels(memory, TopsOf(roots, op'))
<1>0. /\ op.kind = "duplicate" /\ op' = [kind |-> "unwind", frames |-> r]
      /\ owned' = owned /\ memory' = memory /\ roots' = roots /\ current' = current
  BY DEF DuplicateFails, Duplicating, Depth
<1>1. /\ op \in CopyOp /\ IsOp(op) /\ op.stack \in Seq(CopyFrame) /\ n \in 1 .. RootLevel + 1 /\ n \in Nat
      /\ GuardsOf(op) = g
      /\ \A d \in 1 .. n : CopyAt(memory, N, op.stack, d)
  BY <1>0, CopyFacts
<1>2. /\ owned \in [AllFrames -> Nat] /\ memory \in Contents /\ roots \in Roots /\ N \in [Levels -> SUBSET AllFrames]
      /\ AllOf(N) \in SUBSET AllFrames /\ Typed(owned, memory, roots, current)
      /\ AreLevels(memory, TopsOf(roots, op), N) /\ IsTree(owned, memory, N)
      /\ Covers(owned, memory, N, roots, op)
  BY SoundFacts DEF Now, Sound
<1>3. g \in Seq(AllFrames) /\ Len(g) = n /\ \A d \in 1 .. n : g[d] = op.stack[d].node
  BY <1>1, NodesOnType
<1>4. /\ r \in Seq(AllFrames) /\ Len(r) = Len(g) /\ \A d \in 1 .. Len(g) : r[d] = g[Len(g) - d + 1]
      /\ r # <<>>
  <2>1. ASSUME NEW d \in 1 .. n PROVE n - d + 1 \in 1 .. n /\ op.stack[n - d + 1].node \in AllFrames
    <3>1. n - d + 1 \in 1 .. n
      BY <1>1
    <3> QED BY <3>1, <1>1 DEF CopyAt
  <2>2. r \in [1 .. n -> AllFrames]
    BY <2>1
  <2>3. r \in Seq(AllFrames) /\ Len(r) = n
    BY <1>1, <2>2, SMTT(30)
  <2>4. r # <<>>
    BY <1>1, <2>3
  <2>5. \A d \in 1 .. n : r[d] = g[n - d + 1]
    BY <2>1, <1>3
  <2> HIDE DEF r, g
  <2> QED BY <2>3, <2>4, <2>5, <1>3
<1> HIDE DEF r, g
<1>5. Holds(op') /\ IsOp(op') /\ op' \in HoldOp /\ GuardsOf(op') = r /\ op' \notin CopyOp
  <2>1. op' \in HoldOp /\ op'.frames = r
    BY <1>0, <1>4 DEF HoldOp
  <2>2. op' \notin CopyOp
    BY <1>0 DEF CopyOp
  <2> QED BY <2>1, <2>2, <1>4, GuardsFacts DEF Holds, IsOp
<1>6. \A l \in Levels : TopsOf(roots, op')[l] \subseteq TopsOf(roots, op)[l]
  <2>1. \A l \in Levels : \A x : x \in TopsOf(roots, op')[l] => x \in TopsOf(roots, op)[l]
    BY <1>1, <1>2, <1>5, TopsType
  <2> QED BY <2>1
<1>7. AreLevels(memory, TopsOf(roots, op'), N2)
  BY <1>2, <1>5, TopsType, LevelsExist
<1>8. \A l \in Levels : N2[l] \subseteq N[l]
  BY <1>2, <1>6, <1>7, LevelsShrink
<1> HIDE DEF N2
<1>9. N2 \in [Levels -> SUBSET AllFrames]
  BY <1>7 DEF AreLevels
<1>10. AllOf(N2) \in SUBSET AllOf(N)
  <2>1. \A x : x \in AllOf(N2) => x \in AllOf(N)
    BY <1>2, <1>8, <1>9, AllOfType
  <2> QED BY <2>1
<1>11. IsTree(owned, memory, N2)
  <2>1. \A l \in Levels : \A x : x \in N2[l] => x \in N[l]
    BY <1>8
  <2> QED BY <1>2, <2>1, LevelsFacts DEF IsTree
<1>12. Covers(owned, memory, N2, roots, op')
  <2>1. ASSUME NEW f \in Ram PROVE owned[f] >= Users(memory, N2, roots, op', f)
    <3> DEFINE e == Entries(memory, AllOf(N), f)
               e2 == Entries(memory, AllOf(N2), f)
               v == Live(roots, f)
               w == Held(g, f)
    <3>1. e \in Nat /\ e2 \in Nat /\ v \in Nat /\ w \in Nat /\ owned[f] \in Nat
      BY <1>1, <1>2, <1>5, <1>9, FramesFacts, UsersType
    <3>2. e2 <= e
      BY <1>2, <1>10, EntriesFewer
    <3>3. Held(r, f) = w
      BY <1>3, <1>4, HeldReversed
    <3>4. owned[f] >= Users(memory, N, roots, op, f)
      BY <1>2 DEF Covers
    <3>5. Users(memory, N, roots, op, f) = e + v + w /\ Users(memory, N2, roots, op', f) = e2 + v + w
      BY <1>1, <1>5, <3>3 DEF Users
    <3> HIDE DEF e, e2, v, w
    <3> QED BY <3>1, <3>2, <3>4, <3>5
  <2> QED BY <2>1 DEF Covers
<1>13. Sound(owned, memory, roots, current, op', N2)
  BY <1>2, <1>5, <1>7, <1>11, <1>12 DEF Sound, OpInv
<1> QED BY <1>0, <1>13 DEF KeptSound

\* The root that Mapping::drop() finds in a mapping that was not made.
LEMMA NothingFacts ==
    ASSUME NEW o, o = DroppingFrameZero, NEW mem, mem[FrameZero] = Zeroed
    PROVE  DropsNothing(mem, o) /\ o \in DropOp
<1> DEFINE fr == [node |-> FrameZero, i |-> 0, has_used |-> FALSE]
           stk == <<fr>>
<1>1. fr \in DropFrame /\ fr.node = FrameZero
  BY FramesFacts, IndexFacts DEF DropFrame
<1> HIDE DEF fr
<1>2. stk \in Seq(DropFrame) /\ Len(stk) = 1 /\ stk[1] = fr
  BY <1>1
<1>3. o = [kind |-> "drop_subtree", m |-> None, drop_used |-> TRUE, stack |-> stk]
  BY DEF fr, DroppingFrameZero
<1> HIDE DEF stk
<1>4. o \in DropOp /\ o.m = None /\ o.drop_used /\ o.stack = stk
  BY ONLY <1>2, <1>3 DEF DropOp
<1> QED BY <1>1, <1>2, <1>4 DEF DropsNothing

\* drop_subtree() holds no guards.
LEMMA DropIsNotCopy ==
    ASSUME NEW o \in DropOp
    PROVE  o \notin CopyOp /\ GuardsOf(o) = <<>> /\ IsOp(o)
<1>1. o \notin CopyOp
  BY DEF DropOp, CopyOp
<1> QED BY <1>1, GuardsFacts DEF IsOp

\* A failed duplicate() goes on to drop the mapping whose root is frame 0; frame 0 reads as an empty node.
DropsFrameZero == op.kind # "drop_subtree" /\ op' = DroppingFrameZero
ZeroIsZero == memory[FrameZero] = Zeroed

\* A guard of duplicate() is dropped after an error.
LEMMA DuplicateUnwindsKept ==
    ASSUME NEW N, Now(N), DropsFrameZero => ZeroIsZero, DuplicateUnwinds
    PROVE  Kept(N)
<1> DEFINE g == op.frames
           f0 == Head(op.frames)
<1>0. /\ op.kind = "unwind" /\ Release(f0)
      /\ memory' = memory /\ roots' = roots /\ current' = current
  BY DEF DuplicateUnwinds
<1>1. Holds(op)
  BY <1>0, OpCases, SoundFacts DEF Now
<1>2. op \in HoldOp /\ g \in Seq(AllFrames) /\ g # <<>> /\ op \notin CopyOp
  BY <1>1 DEF Holds, HoldOp, CopyOp
<1>3. GuardsOf(op) = g
  BY <1>2, GuardsFacts
<1>4. /\ owned \in [AllFrames -> Nat] /\ current \in Mappings /\ roots[current] # None /\ IsOp(op)
      /\ AllOf(N) \in SUBSET AllFrames
  BY SoundFacts DEF Now
<1>5. Tail(g) \in Seq(AllFrames) /\ f0 \in AllFrames /\ \A f : Held(g, f) = Held(Tail(g), f) + One(f0 = f)
  BY <1>2, HeldTail
<1>6. owned' \in [AllFrames -> Nat] /\ \A x \in AllFrames : owned'[x] + One(f0 = x) = owned[x]
  BY <1>0, <1>4, <1>5, ReleaseFacts
<1>7. op' \notin CopyOp /\ GuardsOf(op') = Tail(g) /\ OpInv(memory, roots, current, op', N)
  <2>1. CASE Tail(g) # <<>>
    <3>1. op' = [op EXCEPT !.frames = Tail(g)]
      BY <2>1 DEF DuplicateUnwinds
    <3>2. op' \in HoldOp /\ op'.frames = Tail(g)
      BY <1>2, <1>5, <3>1 DEF HoldOp
    <3>3. op' \notin CopyOp
      BY <3>2 DEF HoldOp, CopyOp
    <3> QED BY <2>1, <3>2, <3>3, GuardsFacts DEF OpInv, Holds
  <2>2. CASE Tail(g) = <<>>
    <3>1. op' = DroppingFrameZero
      BY <2>2 DEF DuplicateUnwinds
    <3>2. memory[FrameZero] = Zeroed
      BY <1>0, <3>1 DEF DropsFrameZero, ZeroIsZero
    <3>4. DropsNothing(memory, op') /\ op' \in DropOp
      BY <3>1, <3>2, NothingFacts
    <3>3. op' \notin CopyOp /\ GuardsOf(op') = <<>>
      BY <3>4, DropIsNotCopy
    <3> QED BY <2>2, <3>4, <3>3 DEF OpInv
  <2> QED BY <2>1, <2>2
<1>8. f0 \notin AllOf(N)
  <2>1. 1 \in 1 .. Len(g) /\ f0 = g[1]
    BY <1>2
  <2>2. /\ roots \in Roots /\ AreLevels(memory, TopsOf(roots, op), N) /\ IsTree(owned, memory, N)
        /\ Covers(owned, memory, N, roots, op)
    BY SoundFacts DEF Now
  <2> QED BY <1>2, <1>3, <1>4, <2>1, <2>2, HeldIsNotNode
<1>9. \A f \in AllOf(N) : owned'[f] = owned[f]
  BY <1>4, <1>6, <1>8 DEF One
<1>10. ASSUME NEW f \in Ram PROVE owned'[f] + Held(GuardsOf(op), f) = owned[f] + Held(GuardsOf(op'), f)
  <2>1. f \in AllFrames
    BY FramesFacts
  <2>2. owned'[f] \in Nat /\ owned[f] \in Nat /\ One(f0 = f) \in Nat /\ Held(Tail(g), f) \in Nat
    BY <2>1, <1>4, <1>5, <1>6, OneType, HeldType
  <2>3. owned'[f] + One(f0 = f) = owned[f] /\ Held(g, f) = Held(Tail(g), f) + One(f0 = f)
    BY <1>5, <1>6, <2>1
  <2> HIDE DEF f0, g
  <2> QED BY <2>2, <2>3, <1>3, <1>7
<1> QED BY <1>0, <1>2, <1>4, <1>6, <1>7, <1>9, <1>10, GuardsChange

\* A duplicate() that fails at once keeps the invariant.
LEMMA DuplicateFailsAtOnceKept ==
    ASSUME NEW N, Now(N), DropsFrameZero => ZeroIsZero, NEW m, NEW copy, DuplicateFailsAtOnce(m, copy)
    PROVE  Kept(N)
<1>0. /\ op = Idle /\ op' = DroppingFrameZero
      /\ owned' = owned /\ memory' = memory /\ roots' = roots /\ current' = current
  BY DEF DuplicateFailsAtOnce
<1>1. memory[FrameZero] = Zeroed
  BY <1>0 DEF DropsFrameZero, ZeroIsZero, Idle
<1>2. DropsNothing(memory, op') /\ op' \in DropOp
  BY <1>0, <1>1, NothingFacts
<1>3. op' \notin CopyOp /\ op \notin CopyOp /\ GuardsOf(op') = GuardsOf(op)
  BY <1>0, <1>2, DropIsNotCopy, IdleFacts
<1>4. current \in Mappings /\ roots[current] # None
  BY SoundFacts DEF Now
<1>5. OpInv(memory, roots, current', op', N)
  BY <1>2 DEF OpInv
<1> QED BY <1>0, <1>3, <1>4, <1>5, OnlyOpChanges
-----------------------------------------------------------------------------
\* Mapping::drop() and unmap_unused_intermediate() start at the root.
DropStarts(o, m, du) ==
    o = [kind |-> "drop_subtree", m |-> m, drop_used |-> du,
         stack |-> <<[node |-> roots[m], i |-> 0, has_used |-> FALSE]>>]

\* drop_subtree() starts at the root of its mapping.
LEMMA DropBegins ==
    ASSUME NEW N, Now(N), op = Idle, NEW m \in Mappings, roots[m] # None, NEW du \in BOOLEAN, NEW cur,
           du => m # Base /\ m # cur, NEW o, DropStarts(o, m, du)
    PROVE  Drops(memory, roots, cur, o, N) /\ o \in DropOp
<1> DEFINE fr == [node |-> roots[m], i |-> 0, has_used |-> FALSE]
           stk == <<fr>>
<1>1. roots[m] \in AllFrames /\ roots[m] \in N[RootLevel]
  <2>1. /\ roots \in Roots /\ IsOp(op) /\ AreLevels(memory, TopsOf(roots, op), N)
    BY SoundFacts DEF Now
  <2>2. roots[m] \in AllFrames
    BY <2>1 DEF Roots
  <2>3. roots[m] \in TopsOf(roots, op)[RootLevel]
    BY <2>1, TopsType, LevelsFacts
  <2> QED BY <2>1, <2>2, <2>3, LevelsFacts DEF AreLevels
<1>2. fr \in DropFrame /\ fr.node = roots[m] /\ fr.i = 0
  BY <1>1, IndexFacts DEF DropFrame
<1>3. o = [kind |-> "drop_subtree", m |-> m, drop_used |-> du, stack |-> stk]
  BY DEF DropStarts
<1> HIDE DEF fr
<1>4. stk \in Seq(DropFrame) /\ Len(stk) = 1 /\ stk[1] = fr
  BY <1>2
<1> HIDE DEF stk
<1>5. o \in DropOp /\ o.m = m /\ o.drop_used = du /\ o.stack = stk
  BY ONLY <1>3, <1>4, m \in Mappings, du \in BOOLEAN DEF DropOp
<1>6. LevelAt(1) = RootLevel /\ 1 \in 1 .. RootLevel + 1 /\ \A j \in Index : ~(j < 0)
  BY LevelsAssumption, IndexFacts DEF LevelAt
<1>7. /\ \A d \in 1 .. Len(stk) : d = 1
      /\ \A d \in 1 .. Len(stk) - 1 : FALSE
  BY <1>4
<1>8. m # None
  BY FramesFacts
<1> QED BY <1>1, <1>2, <1>4, <1>5, <1>6, <1>7, <1>8 DEF Drops

\* Mapping::drop() starting keeps the invariant.
LEMMA DropKept ==
    ASSUME NEW N, Now(N), NEW m \in Mappings, Drop(m)
    PROVE  Kept(N)
<1>0. /\ op = Idle /\ m # Base /\ roots[m] # None /\ DropStarts(op', m, TRUE)
      /\ current' = (IF current = m THEN Base ELSE current)
      /\ owned' = owned /\ memory' = memory /\ roots' = roots
  BY DEF Drop, DropStarts
<1>1. current \in Mappings /\ roots[current] # None /\ roots[Base] # None
  BY SoundFacts DEF Now
<1>2. current' \in Mappings /\ roots[current'] # None /\ m # current'
  BY <1>0, <1>1, MappingsAssumption
<1>3. Drops(memory, roots, current', op', N) /\ op' \in DropOp
  <2>1. /\ Now(N) /\ op = Idle /\ m \in Mappings /\ roots[m] # None /\ TRUE \in BOOLEAN
        /\ m # Base /\ m # current' /\ DropStarts(op', m, TRUE)
    BY <1>0, <1>2
  <2> QED BY ONLY <2>1, DropBegins
<1>4. op' \notin CopyOp /\ op \notin CopyOp /\ GuardsOf(op') = GuardsOf(op)
  BY <1>0, <1>3, DropIsNotCopy, IdleFacts
<1>5. OpInv(memory, roots, current', op', N)
  BY <1>3 DEF OpInv
<1> QED BY <1>0, <1>2, <1>4, <1>5, OnlyOpChanges

\* unmap_unused_intermediate() starting keeps the invariant.
LEMMA UnmapUnusedIntermediateKept ==
    ASSUME NEW N, Now(N), NEW m \in Mappings, UnmapUnusedIntermediate(m)
    PROVE  Kept(N)
<1>0. /\ op = Idle /\ roots[m] # None /\ DropStarts(op', m, FALSE)
      /\ current' = current /\ owned' = owned /\ memory' = memory /\ roots' = roots
  BY DEF UnmapUnusedIntermediate, DropStarts
<1>2. current \in Mappings /\ roots[current] # None
  BY SoundFacts DEF Now
<1>3. Drops(memory, roots, current', op', N) /\ op' \in DropOp
  BY <1>0, DropBegins
<1>4. op' \notin CopyOp /\ op \notin CopyOp /\ GuardsOf(op') = GuardsOf(op)
  BY <1>0, <1>3, DropIsNotCopy, IdleFacts
<1>5. OpInv(memory, roots, current', op', N)
  BY <1>3 DEF OpInv
<1> QED BY <1>0, <1>2, <1>4, <1>5, OnlyOpChanges

\* switch_to() keeps the invariant.
LEMMA SwitchToKept ==
    ASSUME NEW N, Now(N), NEW m \in Mappings, SwitchTo(m)
    PROVE  Kept(N)
<1>0. /\ op = Idle /\ op' = op /\ current' = m /\ roots[m] # None
      /\ owned' = owned /\ memory' = memory /\ roots' = roots
  BY DEF SwitchTo
<1>1. op \notin CopyOp /\ OpInv(memory, roots, current', op', N)
  BY <1>0, IdleFacts DEF OpInv
<1> QED BY <1>0, <1>1, OnlyOpChanges

\* Nothing but the TLB changes.
LEMMA NothingChanges ==
    ASSUME NEW N, Now(N), owned' = owned, memory' = memory, roots' = roots, current' = current, op' = op
    PROVE  Kept(N)
<1>1. Sound(owned', memory', roots', current', op', N)
  BY DEF Now
<1>2. Balanced(owned, memory, N, roots, op, owned', memory', N, roots', op')
  BY DEF Balanced
<1> QED BY <1>1, <1>2 DEF Kept
-----------------------------------------------------------------------------
\* Frame d of the stack of drop_subtree().
DropAt(mem, N, o, d) ==
    /\ o.stack[d] \in DropFrame /\ o.stack[d].node \in AllFrames /\ o.stack[d].i \in 0 .. EntryCount
    /\ o.stack[d].has_used \in BOOLEAN
    /\ LevelAt(d) \in Levels /\ o.stack[d].node \in N[LevelAt(d)] /\ o.stack[d].node \in AllOf(N)
    /\ \A j \in Index : j < o.stack[d].i =>
          IF o.drop_used THEN ~Linked(mem[o.stack[d].node][j])
          ELSE ~o.stack[d].has_used => mem[o.stack[d].node][j] = None

\* What the invariant says while drop_subtree() runs.
LEMMA DropFacts ==
    ASSUME NEW N, Now(N), op.kind = "drop_subtree", ~DropsNothing(memory, op)
    PROVE  /\ Drops(memory, roots, current, op, N) /\ op \in DropOp /\ IsOp(op) /\ op \notin CopyOp
           /\ GuardsOf(op) = <<>>
           /\ op.m \in Mappings /\ op.m # None /\ roots[op.m] # None /\ op.drop_used \in BOOLEAN
           /\ op.stack \in Seq(DropFrame) /\ Len(op.stack) \in 1 .. RootLevel + 1 /\ Len(op.stack) \in Nat
           /\ op.stack[1].node = roots[op.m]
           /\ \A d \in 1 .. Len(op.stack) : DropAt(memory, N, op, d)
<1>1. Drops(memory, roots, current, op, N)
  BY OpCases, SoundFacts DEF Now
<1>2. /\ op \in DropOp /\ IsOp(op) /\ op \notin CopyOp /\ GuardsOf(op) = <<>>
  BY <1>1, DropIsNotCopy DEF Drops
<1>3. /\ op.m \in Mappings /\ op.m # None /\ roots[op.m] # None /\ op.drop_used \in BOOLEAN
      /\ op.stack \in Seq(DropFrame) /\ Len(op.stack) \in 1 .. RootLevel + 1 /\ Len(op.stack) \in Nat
      /\ op.stack[1].node = roots[op.m]
  BY <1>1, <1>2 DEF Drops, DropOp
<1>4. N \in [Levels -> SUBSET AllFrames] /\ \A x : x \in AllOf(N) <=> \E l \in Levels : x \in N[l]
  BY SoundFacts DEF Now
<1>5. ASSUME NEW d \in 1 .. Len(op.stack) PROVE DropAt(memory, N, op, d)
  <2>1. op.stack[d] \in DropFrame
    BY <1>3
  <2>2. op.stack[d].node \in AllFrames /\ op.stack[d].i \in 0 .. EntryCount /\ op.stack[d].has_used \in BOOLEAN
    BY <2>1 DEF DropFrame
  <2>3. LevelAt(d) \in Levels
    BY <1>3, LevelAtType
  <2>4. /\ op.stack[d].node \in N[LevelAt(d)]
        /\ \A j \in Index : j < op.stack[d].i =>
              IF op.drop_used THEN ~Linked(memory[op.stack[d].node][j])
              ELSE ~op.stack[d].has_used => memory[op.stack[d].node][j] = None
    BY <1>1 DEF Drops
  <2> QED BY <1>4, <2>1, <2>2, <2>3, <2>4 DEF DropAt
<1> QED BY <1>1, <1>2, <1>3, <1>5

\* Nodes on the stack are on different levels.
LEMMA DropsAreApart ==
    ASSUME NEW N, Now(N), op.kind = "drop_subtree", ~DropsNothing(memory, op),
           NEW d \in 1 .. Len(op.stack), NEW e \in 1 .. Len(op.stack), op.stack[d].node = op.stack[e].node
    PROVE  d = e
<1>1. Len(op.stack) \in Nat /\ DropAt(memory, N, op, d) /\ DropAt(memory, N, op, e)
  BY DropFacts
<1>2. IsTree(owned, memory, N)
  BY SoundFacts DEF Now
<1>3. LevelAt(d) = LevelAt(e)
  BY <1>1, <1>2 DEF DropAt, IsTree
<1>4. d \in Nat /\ e \in Nat /\ RootLevel \in Nat
  BY <1>1, LevelsFacts
<1> QED BY <1>3, <1>4 DEF LevelAt

\* The top of the stack goes on to the next entry.
StepsTo(stk, stk2, u) ==
    /\ stk2 \in Seq(DropFrame) /\ Len(stk2) = Len(stk)
    /\ \A d \in 1 .. Len(stk) : stk2[d].node = stk[d].node
    /\ \A d \in 1 .. Len(stk) : d # Len(stk) => stk2[d] = stk[d]
    /\ stk2[Len(stk)].i = stk[Len(stk)].i + 1 /\ stk2[Len(stk)].has_used = u

IsUsed(stk, stk2, u) == stk2 = Next1(Marked(stk, u))

\* drop_subtree() going on to the next entry.
LEMMA StepsFacts ==
    ASSUME NEW stk \in Seq(DropFrame), Len(stk) >= 1, stk[Len(stk)].i < EntryCount, NEW u \in BOOLEAN,
           NEW stk2, IsUsed(stk, stk2, u)
    PROVE  StepsTo(stk, stk2, u)
<1> DEFINE n == Len(stk)
           top == stk[n]
           mid == [top EXCEPT !.has_used = u]
           stk1 == [stk EXCEPT ![n] = mid]
           new == [mid EXCEPT !.i = @ + 1]
<1>1. n \in Nat /\ n \in 1 .. n /\ top \in DropFrame /\ DOMAIN stk = 1 .. n
  OBVIOUS
<1>2. top.i \in 0 .. EntryCount /\ top.i + 1 \in 0 .. EntryCount
  BY <1>1, IndexFacts DEF DropFrame
<1>3. mid \in DropFrame /\ mid.node = top.node /\ mid.i = top.i /\ mid.has_used = u
  BY <1>1 DEF DropFrame
<1>4. stk2 = Next1(stk1)
  BY DEF IsUsed, Marked
<1> HIDE DEF mid
<1>5. new \in DropFrame /\ new.node = top.node /\ new.i = top.i + 1 /\ new.has_used = u
  BY <1>2, <1>3 DEF DropFrame
<1>6. stk1 \in Seq(DropFrame) /\ Len(stk1) = n /\ stk1[n] = mid /\ \A d \in 1 .. n : d # n => stk1[d] = stk[d]
  BY <1>1, <1>3
<1> HIDE DEF stk1
<1>7. stk2 = [stk1 EXCEPT ![n] = new]
  BY <1>4, <1>6 DEF Next1
<1> HIDE DEF new
<1>8. stk2 \in Seq(DropFrame) /\ Len(stk2) = n /\ stk2[n] = new /\ \A d \in 1 .. n : d # n => stk2[d] = stk1[d]
  <2>1. n \in 1 .. n /\ new \in DropFrame /\ stk1 \in Seq(DropFrame) /\ Len(stk1) = n /\ stk2 = [stk1 EXCEPT ![n] = new]
    BY <1>1, <1>5, <1>6, <1>7
  <2> HIDE DEF n
  <2> QED BY ONLY <2>1
<1> QED BY <1>1, <1>5, <1>6, <1>8 DEF StepsTo
-----------------------------------------------------------------------------
\* The first c frames of the stack.
IsPart(stk, stkp, c) == stkp \in Seq(DropFrame) /\ Len(stkp) = c /\ \A d \in 1 .. c : stkp[d] = stk[d]
\* The nodes of these frames stay nodes, and their entries stay except for the current one.
StayNodes(stk, c, N2) == \A d \in 1 .. c : stk[d].node \in N2[LevelAt(d)]
StayEntries(stk, c, mem, mem2) ==
    \A d \in 1 .. c, j \in Index : d # c \/ j # stk[c].i => mem2[stk[d].node][j] = mem[stk[d].node][j]
\* What the step leaves in the current entry, and whether the node is in use.
EntryIsDone(o, c, mem2, u) ==
    /\ o.drop_used => ~Linked(mem2[o.stack[c].node][o.stack[c].i])
    /\ ~o.drop_used /\ ~u => mem2[o.stack[c].node][o.stack[c].i] = None /\ ~o.stack[c].has_used
WithStack(o, o2, stk2) == o2 \in DropOp /\ o2.m = o.m /\ o2.drop_used = o.drop_used /\ o2.stack = stk2

\* drop_subtree() having dealt with an entry is at the next one.
LEMMA DropAdvances ==
    ASSUME NEW N, Now(N), op.kind = "drop_subtree", ~DropsNothing(memory, op), NEW c \in 1 .. Len(op.stack),
           NEW stkp, IsPart(op.stack, stkp, c), op.stack[c].i < EntryCount,
           NEW u \in BOOLEAN, NEW stk2, StepsTo(stkp, stk2, u), NEW o2, WithStack(op, o2, stk2),
           NEW mem2, NEW N2, StayNodes(op.stack, c, N2), StayEntries(op.stack, c, memory, mem2),
           EntryIsDone(op, c, mem2, u)
    PROVE  Drops(mem2, roots, current, o2, N2)
<1> DEFINE stk == op.stack
           n == Len(op.stack)
           du == op.drop_used
<1>1. /\ Drops(memory, roots, current, op, N) /\ op.m # None /\ roots[op.m] # None /\ du \in BOOLEAN
      /\ n \in 1 .. RootLevel + 1 /\ n \in Nat /\ stk[1].node = roots[op.m]
      /\ \A d \in 1 .. n : DropAt(memory, N, op, d)
  BY DropFacts
<1>2. /\ stk2 \in Seq(DropFrame) /\ Len(stk2) = c
      /\ \A d \in 1 .. c : stk2[d].node = stk[d].node
      /\ \A d \in 1 .. c : d # c => stk2[d] = stk[d]
      /\ stk2[c].i = stk[c].i + 1 /\ stk2[c].has_used = u
  <2>1. Len(stkp) = c /\ \A d \in 1 .. c : stkp[d] = stk[d]
    BY DEF IsPart
  <2>2. c \in 1 .. c
    BY <1>1
  <2> QED BY <2>1, <2>2 DEF StepsTo
<1>3. c \in Nat /\ c >= 1 /\ 1 \in 1 .. c /\ c \in 1 .. RootLevel + 1 /\ \A d \in 1 .. c : d \in 1 .. n
  <2>1. c \in 1 .. n /\ n \in Nat /\ n <= RootLevel + 1 /\ RootLevel \in Nat
    BY <1>1, LevelsFacts
  <2> HIDE DEF n
  <2> QED BY ONLY <2>1
<1>4. o2 \in DropOp /\ o2.m = op.m /\ o2.drop_used = du /\ o2.stack = stk2
  BY DEF WithStack
<1>5. du => op.m # Base /\ op.m # current
  BY <1>1 DEF Drops
<1>6. ASSUME NEW d \in 1 .. c
      PROVE  /\ stk2[d].node \in N2[LevelAt(d)]
             /\ \A j \in Index : j < stk2[d].i =>
                  IF du THEN ~Linked(mem2[stk2[d].node][j])
                  ELSE ~stk2[d].has_used => mem2[stk2[d].node][j] = None
  <2>0. DropAt(memory, N, op, d) /\ d \in 1 .. n
    BY <1>1, <1>3
  <2>1. stk2[d].node = stk[d].node /\ stk[d].node \in N2[LevelAt(d)]
    BY <1>2 DEF StayNodes
  <2>2. ASSUME NEW j \in Index, j < stk2[d].i
        PROVE  IF du THEN ~Linked(mem2[stk[d].node][j])
               ELSE ~stk2[d].has_used => mem2[stk[d].node][j] = None
    <3>1. CASE d = c /\ j = stk[c].i
      <4>1. stk2[d].has_used = u
        BY <3>1, <1>2
      <4> QED BY <3>1, <4>1 DEF EntryIsDone
    <3>2. CASE d # c \/ j # stk[c].i
      <4>1. mem2[stk[d].node][j] = memory[stk[d].node][j]
        BY <3>2 DEF StayEntries
      <4>2. j < stk[d].i
        <5>1. CASE d # c
          BY <5>1, <1>2, <2>2
        <5>2. CASE d = c
          <6>1. stk2[d].i = stk[d].i + 1 /\ j # stk[d].i /\ stk[d].i \in 0 .. EntryCount /\ j \in Nat
            BY <5>2, <3>2, <2>0, <1>2, IndexFacts DEF DropAt
          <6> QED BY <6>1, <2>2
        <5> QED BY <5>1, <5>2
      <4>3. ~du /\ ~stk2[d].has_used => ~stk[d].has_used
        <5>1. CASE d # c
          BY <5>1, <1>2
        <5>2. CASE d = c
          BY <5>2, <1>2 DEF EntryIsDone
        <5> QED BY <5>1, <5>2
      <4>4. IF du THEN ~Linked(memory[stk[d].node][j]) ELSE ~stk[d].has_used => memory[stk[d].node][j] = None
        BY <2>0, <4>2 DEF DropAt
      <4> QED BY <4>1, <4>3, <4>4, <1>1
    <3> QED BY <3>1, <3>2
  <2> QED BY <2>1, <2>2
<1>7. ASSUME NEW d \in 1 .. c - 1
      PROVE  stk2[d].i < EntryCount /\ LinksTo(mem2[stk2[d].node][stk2[d].i], stk2[d + 1].node)
  <2>1. d \in 1 .. c /\ d + 1 \in 1 .. c /\ d # c /\ d \in 1 .. n - 1 /\ d \in 1 .. n
    <3>1. c \in 1 .. n /\ n \in Nat /\ d \in 1 .. c - 1
      BY <1>1
    <3> HIDE DEF n
    <3> QED BY ONLY <3>1
  <2>2. stk2[d] = stk[d] /\ stk2[d + 1].node = stk[d + 1].node
    BY <1>2, <2>1
  <2>3. stk[d].i < EntryCount /\ LinksTo(memory[stk[d].node][stk[d].i], stk[d + 1].node)
    BY <1>1, <2>1 DEF Drops
  <2>4. stk[d].i \in Index
    BY <1>1, <2>1, <2>3, IndexFacts DEF DropAt
  <2>5. mem2[stk[d].node][stk[d].i] = memory[stk[d].node][stk[d].i]
    BY <2>1, <2>4 DEF StayEntries
  <2> QED BY <2>2, <2>3, <2>5
<1>8. stk2[1].node = roots[op.m]
  BY <1>1, <1>2, <1>3
<1> HIDE DEF stk, n, du
<1> QED BY <1>1, <1>2, <1>3, <1>4, <1>5, <1>6, <1>7, <1>8 DEF Drops

\* drop_subtree() changes only its stack.
LEMMA DropOpStack ==
    ASSUME op \in DropOp, NEW stk2 \in Seq(DropFrame), op' = [op EXCEPT !.stack = stk2]
    PROVE  WithStack(op, op', stk2)
  BY DEF DropOp, WithStack

\* The drop of what was not made has nothing to do.
LEMMA NothingIsEmpty ==
    ASSUME NEW N, Now(N), DropsNothing(memory, op), op.kind = "drop_subtree"
    PROVE  /\ op \in DropOp /\ Len(op.stack) = 1 /\ op.m = None /\ op.drop_used /\ Top = op.stack[1]
           /\ op.stack \in Seq(DropFrame) /\ op.stack[1] \in DropFrame
           /\ Top.i < EntryCount => NodeEntry = None
<1>1. /\ op \in DropOp /\ Len(op.stack) = 1 /\ op.m = None /\ op.drop_used
      /\ op.stack[1].node = FrameZero /\ memory[FrameZero] = Zeroed
  BY DEF DropsNothing
<1>2. op.stack \in Seq(DropFrame) /\ op.stack[1] \in DropFrame
  <2>1. op.stack \in Seq(DropFrame)
    BY <1>1 DEF DropOp
  <2> QED BY <1>1, <2>1
<1>3. Top = op.stack[1] /\ Top.i \in 0 .. EntryCount
  BY <1>1, <1>2 DEF Top, DropFrame
<1>4. Top.i < EntryCount => Top.i \in Index
  BY <1>3, IndexFacts
<1>5. Top.i < EntryCount => NodeEntry = None
  BY <1>1, <1>3, <1>4 DEF NodeEntry, Zeroed
<1> QED BY <1>1, <1>2, <1>3, <1>5

\* The entry that drop_subtree() is at.
LEMMA InSubtreeFacts ==
    ASSUME NEW N, Now(N), InSubtree, ~DropsNothing(memory, op)
    PROVE  /\ op.kind = "drop_subtree" /\ Len(op.stack) \in 1 .. Len(op.stack) /\ Top = op.stack[Len(op.stack)]
           /\ Top.i < EntryCount /\ Top.i \in Index /\ Level = LevelAt(Len(op.stack)) /\ Level \in Levels
           /\ Top.node \in N[Level] /\ Top.node \in AllFrames /\ Top.node \in AllOf(N)
           /\ Top.has_used \in BOOLEAN
           /\ NodeEntry \in Pte \cup {None} /\ NodeEntry = memory[Top.node][Top.i]
           /\ NodeEntry # None => NodeEntry \in Pte /\ NodeEntry.frame \in AllFrames
           /\ Level = LeafLevel /\ NodeEntry # None => Linked(NodeEntry)
<1>1. op.kind = "drop_subtree" /\ Top.i < EntryCount /\ Top = op.stack[Len(op.stack)]
  BY DEF InSubtree, Top
<1>2. /\ Len(op.stack) \in Nat /\ Len(op.stack) \in 1 .. RootLevel + 1
      /\ \A d \in 1 .. Len(op.stack) : DropAt(memory, N, op, d)
  BY <1>1, DropFacts
<1>3. Len(op.stack) \in 1 .. Len(op.stack) /\ Level = LevelAt(Len(op.stack))
  BY <1>2 DEF Level, Depth, LevelAt
<1>4. /\ Level \in Levels /\ Top.node \in N[Level] /\ Top.node \in AllFrames /\ Top.node \in AllOf(N)
      /\ Top.has_used \in BOOLEAN /\ Top.i \in 0 .. EntryCount
  BY <1>1, <1>2, <1>3 DEF DropAt
<1>5. Top.i \in Index
  BY <1>1, <1>4, IndexFacts
<1>6. memory \in Contents /\ IsTree(owned, memory, N)
  BY SoundFacts DEF Now
<1>7. /\ NodeEntry = memory[Top.node][Top.i] /\ NodeEntry \in Pte \cup {None}
      /\ NodeEntry # None => NodeEntry \in Pte /\ NodeEntry.frame \in AllFrames
  BY <1>4, <1>5, <1>6, ContentsType DEF NodeEntry
<1>8. Level = LeafLevel /\ NodeEntry # None => Linked(NodeEntry)
  BY <1>4, <1>5, <1>6 DEF NodeEntry, IsTree
<1> QED BY <1>1, <1>3, <1>4, <1>5, <1>7, <1>8

\* drop_subtree() leaving an entry keeps the invariant.
LEMMA DropSkipsKept ==
    ASSUME NEW N, Now(N), DropSkips
    PROVE  Kept(N)
<1> DEFINE stk == op.stack
           n == Len(op.stack)
           u == Top.has_used \/ (NodeEntry # None /\ ~op.drop_used)
           stk2 == Next1(Marked(stk, u))
<1>0. /\ InSubtree /\ op.kind = "drop_subtree" /\ Top.i < EntryCount /\ Top = stk[n]
      /\ NodeEntry # None => NodeEntry.huge \/ ~op.drop_used
      /\ op' = [op EXCEPT !.stack = stk2]
      /\ owned' = owned /\ memory' = memory /\ roots' = roots /\ current' = current
  <2>1. /\ InSubtree /\ op.kind = "drop_subtree" /\ Top.i < EntryCount /\ Top = stk[n]
        /\ NodeEntry # None => NodeEntry.huge \/ ~op.drop_used
        /\ owned' = owned /\ memory' = memory /\ roots' = roots /\ current' = current
    BY DEF DropSkips, InSubtree, Top
  <2>2. op' = [op EXCEPT !.stack = stk2]
    BY DEF DropSkips
  <2> QED BY <2>1, <2>2
<1>1. op \in DropOp /\ stk \in Seq(DropFrame) /\ n >= 1 /\ n \in Nat /\ u \in BOOLEAN /\ op.drop_used \in BOOLEAN
  <2>1. CASE DropsNothing(memory, op)
    <3>1. op \in DropOp /\ n = 1 /\ stk \in Seq(DropFrame) /\ stk[1] \in DropFrame
      BY <2>1, <1>0, NothingIsEmpty
    <3>2. Top.has_used \in BOOLEAN
      BY <1>0, <3>1 DEF DropFrame
    <3> QED BY <3>1, <3>2 DEF DropOp
  <2>2. CASE ~DropsNothing(memory, op)
    BY <2>2, <1>0, DropFacts, InSubtreeFacts
  <2> QED BY <2>1, <2>2
<1>2. StepsTo(stk, stk2, u)
  <2>1. IsUsed(stk, stk2, u)
    BY DEF IsUsed
  <2> QED BY <1>0, <1>1, <2>1, StepsFacts
<1> HIDE DEF stk2, u
<1>3. stk2 \in Seq(DropFrame) /\ Len(stk2) = n
  BY <1>2 DEF StepsTo
<1>4. WithStack(op, op', stk2)
  BY <1>0, <1>1, <1>3, DropOpStack
<1>5. op' \in DropOp /\ op' \notin CopyOp /\ op \notin CopyOp /\ GuardsOf(op') = GuardsOf(op)
  BY <1>1, <1>4, DropIsNotCopy DEF WithStack
<1>6. OpInv(memory, roots, current, op', N)
  <2>1. CASE DropsNothing(memory, op)
    <3>1. n = 1 /\ op.m = None /\ op.drop_used /\ stk[1].node = FrameZero /\ memory[FrameZero] = Zeroed
      BY <2>1 DEF DropsNothing
    <3>2. stk2[1].node = stk[1].node
      BY <1>2, <3>1 DEF StepsTo
    <3>3. DropsNothing(memory, op')
      BY <3>1, <3>2, <1>3, <1>4 DEF DropsNothing, WithStack
    <3> QED BY <3>3 DEF OpInv
  <2>2. CASE ~DropsNothing(memory, op)
    <3>0. /\ n \in 1 .. n /\ Top.i \in Index /\ NodeEntry = memory[Top.node][Top.i] /\ Top.has_used \in BOOLEAN
          /\ \A d \in 1 .. n : DropAt(memory, N, op, d)
      BY <2>2, <1>0, InSubtreeFacts, DropFacts
    <3>1. IsPart(stk, stk, n)
      BY <1>1 DEF IsPart
    <3>2. StayNodes(stk, n, N)
      BY <3>0 DEF StayNodes, DropAt
    <3>3. StayEntries(stk, n, memory, memory)
      BY DEF StayEntries
    <3>4. EntryIsDone(op, n, memory, u)
      <4>1. op.drop_used => ~Linked(NodeEntry)
        BY <1>0 DEF Linked
      <4>2. ~op.drop_used /\ ~u => NodeEntry = None /\ ~Top.has_used
        BY DEF u
      <4> QED BY <1>0, <3>0, <4>1, <4>2 DEF EntryIsDone
    <3>5. stk[n].i < EntryCount /\ u \in BOOLEAN
      BY <1>0, <1>1
    <3>6. Drops(memory, roots, current, op', N)
      <4> HIDE DEF n, stk
      <4>1. /\ Now(N) /\ op.kind = "drop_subtree" /\ ~DropsNothing(memory, op) /\ n \in 1 .. Len(op.stack)
            /\ IsPart(op.stack, stk, n) /\ op.stack[n].i < EntryCount /\ u \in BOOLEAN /\ StepsTo(stk, stk2, u)
            /\ WithStack(op, op', stk2) /\ StayNodes(op.stack, n, N) /\ StayEntries(op.stack, n, memory, memory)
            /\ EntryIsDone(op, n, memory, u)
        BY <1>0, <1>2, <1>4, <2>2, <3>0, <3>1, <3>2, <3>3, <3>4, <3>5 DEF n, stk
      <4> QED BY ONLY <4>1, DropAdvances
    <3> QED BY <3>6 DEF OpInv
  <2> QED BY <2>1, <2>2
<1>7. current \in Mappings /\ roots[current] # None
  BY SoundFacts DEF Now
<1> QED BY <1>0, <1>5, <1>6, <1>7, OnlyOpChanges
-----------------------------------------------------------------------------
\* drop_subtree() going into a child keeps the invariant.
LEMMA DropDescendsKept ==
    ASSUME NEW N, Now(N), DropDescends
    PROVE  Kept(N)
<1> DEFINE stk == op.stack
           n == Len(op.stack)
           fr == [node |-> NodeEntry.frame, i |-> 0, has_used |-> FALSE]
           stk2 == Append(stk, fr)
<1>0. /\ InSubtree /\ op.kind = "drop_subtree" /\ Linked(NodeEntry) /\ NodeEntry # None /\ Level > LeafLevel
      /\ op' = [op EXCEPT !.stack = stk2] /\ Top.i < EntryCount
      /\ owned' = owned /\ memory' = memory /\ roots' = roots /\ current' = current
  BY DEF DropDescends, InSubtree, Linked, Pushed
<1>1. ~DropsNothing(memory, op)
  BY <1>0, NothingIsEmpty
<1>2. /\ Drops(memory, roots, current, op, N) /\ op \in DropOp /\ op \notin CopyOp
      /\ op.m # None /\ roots[op.m] # None
      /\ stk \in Seq(DropFrame) /\ n \in 1 .. RootLevel + 1 /\ n \in Nat /\ stk[1].node = roots[op.m]
      /\ \A d \in 1 .. n : DropAt(memory, N, op, d)
  BY <1>0, <1>1, DropFacts
<1>3. /\ n \in 1 .. n /\ Top = stk[n] /\ Top.i \in Index /\ Level = LevelAt(n) /\ Level \in Levels
      /\ Top.node \in N[Level] /\ Top.node \in AllFrames
      /\ NodeEntry.frame \in AllFrames /\ NodeEntry = memory[Top.node][Top.i]
  BY <1>0, <1>1, InSubtreeFacts
<1>4. fr \in DropFrame /\ fr.node = NodeEntry.frame /\ fr.i = 0
  BY <1>3, IndexFacts DEF DropFrame
<1>5. IsPushed(stk, fr, stk2)
  BY DEF IsPushed
<1> HIDE DEF fr, stk2
<1>6. stk2 \in Seq(DropFrame) /\ Len(stk2) = n + 1 /\ stk2[n + 1] = fr /\ \A d \in 1 .. n : stk2[d] = stk[d]
  <2>1. stk \in Seq(DropFrame) /\ fr \in DropFrame /\ IsPushed(stk, fr, stk2)
    BY <1>2, <1>4, <1>5
  <2> QED BY ONLY <2>1, PushedFacts
<1>7. WithStack(op, op', stk2)
  BY <1>0, <1>2, <1>6, DropOpStack
<1>8. /\ op' \in DropOp /\ op' \notin CopyOp /\ GuardsOf(op') = GuardsOf(op)
      /\ op'.m = op.m /\ op'.drop_used = op.drop_used /\ op'.stack = stk2
  BY <1>2, <1>7, DropIsNotCopy DEF WithStack
<1>9. LevelAt(n + 1) \in Levels /\ LevelAt(n + 1) + 1 = Level /\ LevelAt(n + 1) < RootLevel /\ n + 1 \in 1 .. RootLevel + 1
  <2>1. n \in 1 .. RootLevel + 1 /\ LevelAt(n) > 0 /\ Level = LevelAt(n) /\ RootLevel \in Nat
    BY <1>0, <1>2, <1>3, LevelsFacts DEF LeafLevel
  <2> HIDE DEF n
  <2> QED BY ONLY <2>1 DEF LevelAt, LeafLevel, Levels
<1>10. NodeEntry.frame \in N[LevelAt(n + 1)] /\ LinksTo(memory[Top.node][Top.i], NodeEntry.frame)
  <2>1. AreLevels(memory, TopsOf(roots, op), N)
    BY SoundFacts DEF Now
  <2>2. LinksTo(memory[Top.node][Top.i], NodeEntry.frame)
    BY <1>0, <1>3 DEF LinksTo
  <2> QED BY <2>1, <2>2, <1>3, <1>9 DEF AreLevels
<1>11. ASSUME NEW d \in 1 .. n + 1
       PROVE  /\ stk2[d].node \in N[LevelAt(d)]
              /\ \A j \in Index : j < stk2[d].i =>
                   IF op.drop_used THEN ~Linked(memory[stk2[d].node][j])
                   ELSE ~stk2[d].has_used => memory[stk2[d].node][j] = None
  <2>1. CASE d = n + 1
    BY <2>1, <1>4, <1>6, <1>10, IndexFacts
  <2>2. CASE d # n + 1
    <3>1. d \in 1 .. n
      BY <1>2, <2>2
    <3>2. stk2[d] = stk[d] /\ DropAt(memory, N, op, d)
      BY <3>1, <1>2, <1>6
    <3> QED BY <3>2 DEF DropAt
  <2> QED BY <2>1, <2>2
<1>12. ASSUME NEW d \in 1 .. n
       PROVE  stk2[d].i < EntryCount /\ LinksTo(memory[stk2[d].node][stk2[d].i], stk2[d + 1].node)
  <2>0. stk2[d] = stk[d]
    BY <1>6
  <2>1. CASE d = n
    BY <2>0, <2>1, <1>0, <1>3, <1>4, <1>6, <1>10
  <2>2. CASE d # n
    <3>1. d \in 1 .. n - 1 /\ d + 1 \in 1 .. n
      BY <1>2, <2>2
    <3>2. stk[d].i < EntryCount /\ LinksTo(memory[stk[d].node][stk[d].i], stk[d + 1].node)
      BY <1>2, <3>1 DEF Drops
    <3> QED BY <2>0, <3>1, <3>2, <1>6
  <2> QED BY <2>1, <2>2
<1>13. Drops(memory, roots, current, op', N)
  <2>1. op.drop_used => op.m # Base /\ op.m # current
    BY <1>2 DEF Drops
  <2>2. Len(stk2) \in 1 .. RootLevel + 1 /\ Len(stk2) - 1 = n /\ Len(stk2) = n + 1
    BY <1>2, <1>6, <1>9
  <2>3. stk2[1].node = roots[op.m]
    <3>1. 1 \in 1 .. n
      BY <1>2
    <3> QED BY <1>2, <1>6, <3>1
  <2> HIDE DEF n, stk
  <2> QED BY <2>1, <2>2, <2>3, <1>2, <1>8, <1>11, <1>12 DEF Drops
<1>14. OpInv(memory, roots, current, op', N)
  BY <1>13 DEF OpInv
<1>15. current \in Mappings /\ roots[current] # None
  BY SoundFacts DEF Now
<1> QED BY <1>0, <1>2, <1>8, <1>14, <1>15, OnlyOpChanges

\* The frame under the top of the stack.
LEMMA ReturnFacts ==
    ASSUME NEW N, Now(N), AtSubtreeEnd, Depth > 1
    PROVE  LET n == Len(op.stack)
               c == n - 1
           IN  /\ op.kind = "drop_subtree" /\ ~DropsNothing(memory, op)
               /\ op \in DropOp /\ op.stack \in Seq(DropFrame) /\ n > 1 /\ n \in Nat /\ op.drop_used \in BOOLEAN
               /\ c \in 1 .. n /\ n \in 1 .. n /\ c + 1 = n /\ c # n
               /\ IsPart(op.stack, Popped, c) /\ Len(Popped) >= 1 /\ Popped[Len(Popped)].i < EntryCount
               /\ op.stack[c].i < EntryCount /\ op.stack[c].i \in Index
               /\ LinksTo(memory[op.stack[c].node][op.stack[c].i], op.stack[n].node)
               /\ DropAt(memory, N, op, c) /\ DropAt(memory, N, op, n)
               /\ Top = op.stack[n] /\ Top.i = EntryCount
               /\ LevelAt(c) = LevelAt(n) + 1 /\ LevelAt(c) # LeafLevel
<1> DEFINE n == Len(op.stack)
           c == n - 1
<1>1. op.kind = "drop_subtree" /\ n > 1 /\ Top = op.stack[n] /\ Top.i = EntryCount
  BY DEF AtSubtreeEnd, Depth, Top
<1>2. ~DropsNothing(memory, op)
  BY <1>1 DEF DropsNothing
<1>3. /\ Drops(memory, roots, current, op, N) /\ op \in DropOp /\ op.stack \in Seq(DropFrame) /\ op.drop_used \in BOOLEAN
      /\ n \in Nat /\ n \in 1 .. RootLevel + 1 /\ \A d \in 1 .. n : DropAt(memory, N, op, d)
  BY <1>1, <1>2, DropFacts
<1>4. c \in 1 .. n /\ n \in 1 .. n /\ c + 1 = n /\ c # n /\ c \in 1 .. n - 1 /\ c >= 1 /\ c < n
  BY <1>1, <1>3
<1>5. op.stack[c].i < EntryCount /\ LinksTo(memory[op.stack[c].node][op.stack[c].i], op.stack[n].node)
  BY <1>3, <1>4 DEF Drops
<1>6. DropAt(memory, N, op, c) /\ DropAt(memory, N, op, n)
  BY <1>3, <1>4
<1>7. op.stack[c].i \in Index
  <2> DEFINE x == op.stack[c].i
  <2>1. x \in 0 .. EntryCount /\ x < EntryCount
    BY <1>5, <1>6 DEF DropAt
  <2> HIDE DEF x
  <2>2. x \in Index
    BY <2>1, IndexFacts
  <2> QED BY <2>2 DEF x
<1>8. LevelAt(c) = LevelAt(n) + 1 /\ LevelAt(c) # LeafLevel
  BY <1>3, <1>4, LevelAtType
<1>9. Popped \in Seq(DropFrame) /\ Len(Popped) = c /\ \A d \in 1 .. c : Popped[d] = op.stack[d]
  <2>1. Popped = SubSeq(op.stack, 1, n - 1)
    BY DEF Popped, Depth
  <2> QED BY <1>1, <1>3, <2>1, PoppedFacts
<1>10. Popped[Len(Popped)] = op.stack[c]
  BY <1>4, <1>9
<1> QED BY <1>1, <1>2, <1>3, <1>4, <1>5, <1>6, <1>7, <1>8, <1>9, <1>10 DEF IsPart

\* drop_subtree() leaving a node that is in use keeps the invariant.
LEMMA DropKeepsNodeKept ==
    ASSUME NEW N, Now(N), DropKeepsNode
    PROVE  Kept(N)
<1> DEFINE n == Len(op.stack)
           c == n - 1
           stk2 == Next1(Marked(Popped, TRUE))
<1>0. /\ AtSubtreeEnd /\ Depth > 1 /\ ~op.drop_used /\ op' = [op EXCEPT !.stack = stk2]
      /\ owned' = owned /\ memory' = memory /\ roots' = roots /\ current' = current
  BY DEF DropKeepsNode, Deleted
<1>1. /\ op.kind = "drop_subtree" /\ ~DropsNothing(memory, op)
      /\ op \in DropOp /\ op.stack \in Seq(DropFrame) /\ n > 1 /\ n \in Nat
      /\ c \in 1 .. n /\ IsPart(op.stack, Popped, c) /\ Len(Popped) >= 1 /\ Popped[Len(Popped)].i < EntryCount
      /\ op.stack[c].i < EntryCount
  BY <1>0, ReturnFacts
<1>2. StepsTo(Popped, stk2, TRUE)
  <2>1. IsUsed(Popped, stk2, TRUE)
    BY DEF IsUsed
  <2>2. Popped \in Seq(DropFrame)
    BY <1>1 DEF IsPart
  <2>3. TRUE \in BOOLEAN
    OBVIOUS
  <2> HIDE DEF stk2
  <2> QED BY <1>1, <2>1, <2>2, <2>3, StepsFacts
<1> HIDE DEF stk2
<1>3. stk2 \in Seq(DropFrame)
  BY <1>2 DEF StepsTo
<1>4. WithStack(op, op', stk2)
  BY <1>0, <1>1, <1>3, DropOpStack
<1>5. op' \in DropOp /\ op' \notin CopyOp /\ op \notin CopyOp /\ GuardsOf(op') = GuardsOf(op)
  BY <1>1, <1>4, DropIsNotCopy DEF WithStack
<1>6. Drops(memory, roots, current, op', N)
  <2>1. StayNodes(op.stack, c, N)
    <3>1. \A d \in 1 .. c : d \in 1 .. n
      BY <1>1
    <3>2. \A d \in 1 .. n : DropAt(memory, N, op, d)
      BY <1>1, DropFacts
    <3> QED BY <3>1, <3>2 DEF StayNodes, DropAt
  <2>2. StayEntries(op.stack, c, memory, memory)
    BY DEF StayEntries
  <2>3. EntryIsDone(op, c, memory, TRUE)
    BY <1>0 DEF EntryIsDone
  <2>4. /\ Now(N) /\ op.kind = "drop_subtree" /\ ~DropsNothing(memory, op) /\ c \in 1 .. Len(op.stack)
        /\ IsPart(op.stack, Popped, c) /\ op.stack[c].i < EntryCount /\ TRUE \in BOOLEAN /\ StepsTo(Popped, stk2, TRUE)
        /\ WithStack(op, op', stk2)
    BY <1>1, <1>2, <1>4
  <2> HIDE DEF c
  <2> QED BY ONLY <2>1, <2>2, <2>3, <2>4, DropAdvances
<1>7. OpInv(memory, roots, current, op', N)
  BY <1>6 DEF OpInv
<1>8. current \in Mappings /\ roots[current] # None
  BY SoundFacts DEF Now
<1> QED BY <1>0, <1>5, <1>7, <1>8, OnlyOpChanges

\* unmap_unused_intermediate() ending keeps the invariant.
LEMMA UnmapUnusedEndsKept ==
    ASSUME NEW N, Now(N), UnmapUnusedEnds
    PROVE  Kept(N)
<1>0. /\ op.kind = "drop_subtree" /\ ~op.drop_used /\ op' = Idle
      /\ owned' = owned /\ memory' = memory /\ roots' = roots /\ current' = current
  BY DEF UnmapUnusedEnds, AtSubtreeEnd
<1>1. ~DropsNothing(memory, op)
  BY <1>0 DEF DropsNothing
<1>2. op \notin CopyOp /\ GuardsOf(op) = <<>>
  BY <1>0, <1>1, DropFacts
<1>3. op' \notin CopyOp /\ GuardsOf(op') = <<>> /\ OpInv(memory, roots, current, op', N)
  BY <1>0, IdleFacts DEF OpInv
<1>4. current \in Mappings /\ roots[current] # None
  BY SoundFacts DEF Now
<1> QED BY <1>0, <1>2, <1>3, <1>4, OnlyOpChanges
-----------------------------------------------------------------------------
\* drop_subtree() releasing a page keeps the invariant.
LEMMA DropPageKept ==
    ASSUME NEW N, Now(N), DropPage
    PROVE  Kept(N)
<1> DEFINE stk == op.stack
           n == Len(op.stack)
           t == Top.node
           i == Top.i
           e == NodeEntry
           stk2 == Next1(stk)
<1>0. /\ InSubtree /\ op.kind = "drop_subtree" /\ Linked(e) /\ e # None /\ Level = LeafLevel /\ op.drop_used
      /\ Release(e.frame) /\ Edited(memory, memory', t, i, None)
      /\ op' = [op EXCEPT !.stack = stk2]
      /\ roots' = roots /\ current' = current
  BY DEF DropPage, InSubtree, AtLeaf, Linked, SetEntry, Edited
<1>1. ~DropsNothing(memory, op)
  BY <1>0, NothingIsEmpty DEF InSubtree
<1>2. /\ op \in DropOp /\ op \notin CopyOp /\ GuardsOf(op) = <<>>
      /\ stk \in Seq(DropFrame) /\ n \in Nat
      /\ \A d \in 1 .. n : DropAt(memory, N, op, d)
  BY <1>0, <1>1, DropFacts
<1>3. /\ n \in 1 .. n /\ Top = stk[n] /\ i \in Index /\ i < EntryCount /\ t \in N[LeafLevel] /\ t \in AllFrames
      /\ e.frame \in AllFrames /\ e = memory[t][i] /\ Top.has_used \in BOOLEAN
  BY <1>0, <1>1, InSubtreeFacts
<1>4. /\ owned \in [AllFrames -> Nat] /\ roots \in Roots /\ IsOp(op) /\ AreLevels(memory, TopsOf(roots, op), N)
      /\ IsTree(owned, memory, N) /\ Covers(owned, memory, N, roots, op) /\ AllOf(N) \in SUBSET AllFrames
      /\ memory \in Contents
  BY SoundFacts DEF Now
<1>5. e.frame \notin AllOf(N)
  <2>1. LinksTo(memory[t][i], e.frame)
    BY <1>0, <1>3 DEF LinksTo
  <2> QED BY <1>3, <1>4, <2>1, PageIsNotNode
<1>6. owned' \in [AllFrames -> Nat] /\ \A x \in AllFrames : owned'[x] + One(e.frame = x) = owned[x]
  BY <1>0, <1>3, <1>4, ReleaseFacts
<1>7. ASSUME NEW f \in AllOf(N) PROVE owned'[f] = owned[f]
  <2>1. f \in AllFrames /\ owned'[f] \in Nat /\ owned[f] \in Nat /\ One(e.frame = f) = 0
    BY <1>4, <1>5, <1>6 DEF One
  <2> QED BY <1>6, <2>1
<1>8. StepsTo(stk, stk2, Top.has_used)
  <2>1. IsUsed(stk, stk2, Top.has_used)
    <3>1. Marked(stk, Top.has_used) = stk
      <4>1. /\ n \in 1 .. n /\ n \in Nat /\ Top = stk[n] /\ stk \in Seq(DropFrame) /\ stk[n] \in DropFrame
        BY <1>2, <1>3
      <4>2. [stk[n] EXCEPT !.has_used = stk[n].has_used] = stk[n]
        BY <4>1 DEF DropFrame
      <4>3. [stk EXCEPT ![n] = stk[n]] = stk
        BY <4>1
      <4> QED BY <4>1, <4>2, <4>3 DEF Marked
    <3> QED BY <3>1 DEF IsUsed
  <2>2. n >= 1 /\ stk[n].i < EntryCount
    BY <1>2, <1>3
  <2> QED BY <1>2, <1>3, <2>1, <2>2, StepsFacts
<1> HIDE DEF stk2
<1>9. stk2 \in Seq(DropFrame)
  BY <1>8 DEF StepsTo
<1>10. WithStack(op, op', stk2)
  BY <1>0, <1>2, <1>9, DropOpStack
<1>11. op' \in DropOp /\ op' \notin CopyOp /\ GuardsOf(op') = <<>>
  BY <1>10, DropIsNotCopy DEF WithStack
<1>12. /\ memory'[t][i] = None
       /\ \A k \in AllFrames, j \in Index : k # t \/ j # i => memory'[k][j] = memory[k][j]
  <2>1. None \in Pte \cup {None} /\ t \in AllFrames /\ i \in Index /\ memory \in Contents /\ Edited(memory, memory', t, i, None)
    BY <1>0, <1>3, <1>4
  <2>2. DiffersAt(memory, memory', t, i, None)
    BY <2>1, EditedDiffers
  <2> QED BY <2>2 DEF DiffersAt
<1>13. Drops(memory', roots, current, op', N)
  <2>1. StayNodes(op.stack, n, N)
    BY <1>2 DEF StayNodes, DropAt
  <2>2. StayEntries(op.stack, n, memory, memory')
    <3>1. ASSUME NEW d \in 1 .. n, NEW j \in Index, d # n \/ j # op.stack[n].i
          PROVE  memory'[op.stack[d].node][j] = memory[op.stack[d].node][j]
      <4>1. op.stack[d].node \in AllFrames
        BY <1>2 DEF DropAt
      <4>2. op.stack[d].node = t => d = n
        BY <1>0, <1>1, <1>3, DropsAreApart
      <4> QED BY <3>1, <4>1, <4>2, <1>3, <1>12
    <3> QED BY <3>1 DEF StayEntries
  <2>3. EntryIsDone(op, n, memory', Top.has_used)
    BY <1>0, <1>3, <1>12, NoneIsNotLinked DEF EntryIsDone
  <2>4. IsPart(op.stack, stk, n)
    BY <1>2 DEF IsPart
  <2>5. /\ Now(N) /\ op.kind = "drop_subtree" /\ ~DropsNothing(memory, op) /\ n \in 1 .. Len(op.stack)
        /\ op.stack[n].i < EntryCount /\ Top.has_used \in BOOLEAN /\ StepsTo(stk, stk2, Top.has_used)
        /\ WithStack(op, op', stk2)
    BY <1>0, <1>1, <1>3, <1>8, <1>10
  <2> HIDE DEF n, stk
  <2> QED BY ONLY <2>1, <2>2, <2>3, <2>4, <2>5, DropAdvances
<1>14. OpInv(memory', roots, current, op', N)
  BY <1>13 DEF OpInv
<1>15. ASSUME NEW f \in Ram
      PROVE  owned'[f] + One(LinksTo(memory[t][i], f)) + Held(GuardsOf(op), f)
             = owned[f] + One(LinksTo(None, f)) + Held(GuardsOf(op'), f)
  <2> DEFINE a == One(e.frame = f)
  <2>1. a \in Nat /\ owned[f] \in Nat /\ owned'[f] \in Nat /\ owned'[f] + a = owned[f]
    BY <1>4, <1>6, OneType, FramesFacts
  <2>2. Held(GuardsOf(op), f) = 0 /\ Held(GuardsOf(op'), f) = 0
    BY <1>2, <1>11, HeldNone
  <2>3. One(LinksTo(None, f)) = 0
    BY NoLink, NoneIsNotLinked
  <2>4. One(LinksTo(memory[t][i], f)) = a
    <3>1. Linked(e) /\ memory[t][i] = e
      BY <1>0, <1>3
    <3> HIDE DEF e, t, i
    <3>2. One(LinksTo(e, f)) = One(e.frame = f)
      BY ONLY <3>1, LinkedOne
    <3> QED BY <3>1, <3>2
  <2> HIDE DEF a
  <2> QED BY <2>1, <2>2, <2>3, <2>4
<1>16. None \in Pte \cup {None}
  OBVIOUS
<1> HIDE DEF t, i
<1>17. Edited(memory, memory', t, i, None) /\ t \in N[LeafLevel] /\ i \in Index
  BY <1>0, <1>3
<1> QED BY <1>0, <1>2, <1>6, <1>7, <1>11, <1>14, <1>15, <1>16, <1>17, LeafChanges
-----------------------------------------------------------------------------
PrunedTo(N, N2, old) ==
    /\ N2 \in [Levels -> SUBSET AllFrames]
    /\ \A l \in Levels : \A x : x \in N2[l] <=> x \in N[l] /\ x # old
    /\ \A x : x \in AllOf(N2) <=> x \in AllOf(N) /\ x # old

\* What the levels are when a node was removed.
LEMMA PrunedFacts ==
    ASSUME NEW own, NEW mem, NEW N \in [Levels -> SUBSET AllFrames], IsTree(own, mem, N),
           NEW h \in Levels, NEW old \in N[h], NEW N2, Pruned(N, N2, h, old)
    PROVE  PrunedTo(N, N2, old)
<1>1. /\ N2 \in [Levels -> SUBSET AllFrames]
      /\ \A l \in Levels : \A x : x \in N2[l] <=> x \in N[l] /\ ~(l = h /\ x = old)
  BY DEF Pruned
<1>2. \A l \in Levels : old \in N[l] => l = h
  BY DEF IsTree
<1>3. \A l \in Levels : \A x : x \in N2[l] <=> x \in N[l] /\ x # old
  BY <1>1, <1>2
<1>4. \A x : x \in AllOf(N2) <=> x \in AllOf(N) /\ x # old
  BY <1>1, <1>3, AllOfType
<1> QED BY <1>1, <1>3, <1>4 DEF PrunedTo

NoLinks(mem, n) == \A j \in Index : ~Linked(mem[n][j])
Unlinked(mem, N, old) == \A k \in AllOf(N), j \in Index : k # old => ~LinksTo(mem[k][j], old)
NoTop(tops, old) == \A l \in Levels : old \notin tops[l]
\* The frame has one user less, everything else is used as before.
UsersLeave(mem, N, rts, mem2, N2, rts2, old) ==
    \A f \in Ram : Entries(mem2, AllOf(N2), f) + Live(rts2, f) + One(old = f) = Entries(mem, AllOf(N), f) + Live(rts, f)
LeavesStay(mem, mem2, N) ==
    \A k \in N[LeafLevel], j \in Index : mem2[k][j] = mem[k][j]

\* drop_subtree() releases a node that is empty.
LEMMA NodeDropped ==
    ASSUME NEW N, Now(N), NEW h \in Levels, NEW t \in N[h], NoLinks(memory, t), NEW N2, Pruned(N, N2, h, t), Release(t),
           LinksAgree(memory, memory', N, t), TopsAgree(TopsOf(roots, op), TopsOf(roots', op'), t),
           NoTop(TopsOf(roots', op'), t), Unlinked(memory', N, t),
           LeavesStay(memory, memory', N2), UsersLeave(memory, N, roots, memory', N2, roots', t),
           memory' \in Contents, roots' \in Roots, current' \in Mappings, roots'[current'] # None, roots'[Base] # None,
           GuardsOf(op) = <<>>, GuardsOf(op') = <<>>, OpInv(memory', roots', current', op', N2)
    PROVE  Kept(N)
<1>1. /\ owned \in [AllFrames -> Nat] /\ memory \in Contents /\ roots \in Roots /\ N \in [Levels -> SUBSET AllFrames]
      /\ IsOp(op) /\ AreLevels(memory, TopsOf(roots, op), N)
      /\ IsTree(owned, memory, N) /\ Covers(owned, memory, N, roots, op) /\ AllOf(N) \in SUBSET AllFrames
  BY SoundFacts DEF Now
<1>2. t \in AllFrames /\ IsOp(op')
  BY <1>1, OpIsOp
<1>3. PrunedTo(N, N2, t)
  BY <1>1, PrunedFacts
<1>4. /\ N2 \in [Levels -> SUBSET AllFrames]
      /\ \A l \in Levels : \A x : x \in N2[l] <=> x \in N[l] /\ x # t
  BY <1>3 DEF PrunedTo
<1>5. owned' \in [AllFrames -> Nat] /\ \A x \in AllFrames : owned'[x] + One(t = x) = owned[x]
  BY <1>1, <1>2, ReleaseFacts
<1>6. AreLevels(memory', TopsOf(roots', op'), N2)
  BY <1>1, NodeRemoved DEF NoLinks, Unlinked, NoTop
<1>7. IsTree(owned', memory', N2)
  <2>1. ASSUME NEW l \in Levels, NEW f \in N2[l] PROVE f \in Ram /\ owned'[f] = 1
    <3>1. f \in N[l] /\ f # t /\ f \in AllFrames
      BY <1>1, <1>4
    <3>2. f \in Ram /\ owned[f] = 1
      BY <1>1, <3>1 DEF IsTree
    <3>3. One(t = f) = 0 /\ owned'[f] \in Nat
      BY <3>1, <1>5 DEF One
    <3> QED BY <3>1, <3>2, <3>3, <1>5
  <2>2. \A k, l \in Levels : \A f \in N2[k] : f \in N2[l] => k = l
    BY <1>1, <1>4 DEF IsTree
  <2>3. \A k \in N2[LeafLevel], j \in Index : memory'[k][j] # None => Linked(memory'[k][j])
    BY <1>1, <1>4, LevelsFacts DEF IsTree, LeavesStay
  <2> QED BY <2>1, <2>2, <2>3 DEF IsTree
<1>8. Balanced(owned, memory, N, roots, op, owned', memory', N2, roots', op')
  <2>1. ASSUME NEW f \in Ram
        PROVE  owned'[f] + Users(memory, N, roots, op, f) = owned[f] + Users(memory', N2, roots', op', f)
    <3> DEFINE e == Entries(memory, AllOf(N), f)
               e2 == Entries(memory', AllOf(N2), f)
               v == Live(roots, f)
               v2 == Live(roots', f)
               a == One(t = f)
    <3>1. /\ e \in Nat /\ e2 \in Nat /\ v \in Nat /\ v2 \in Nat /\ a \in Nat
          /\ owned[f] \in Nat /\ owned'[f] \in Nat /\ owned'[f] + a = owned[f]
      BY <1>1, <1>2, <1>4, <1>5, UsersType, LiveType, OneType, FramesFacts
    <3>2. e2 + v2 + a = e + v
      BY DEF UsersLeave
    <3>3. Held(GuardsOf(op), f) = 0 /\ Held(GuardsOf(op'), f) = 0
      BY HeldNone
    <3>4. Users(memory, N, roots, op, f) = e + v + 0 /\ Users(memory', N2, roots', op', f) = e2 + v2 + 0
      BY <3>3 DEF Users
    <3> HIDE DEF e, e2, v, v2, a
    <3> QED BY <3>1, <3>2, <3>4
  <2> QED BY <2>1 DEF Balanced
<1>9. Covers(owned', memory', N2, roots', op')
  <2>1. /\ owned \in [AllFrames -> Nat] /\ N \in [Levels -> SUBSET AllFrames] /\ IsOp(op)
        /\ owned' \in [AllFrames -> Nat] /\ N2 \in [Levels -> SUBSET AllFrames] /\ IsOp(op')
        /\ Covers(owned, memory, N, roots, op)
    BY <1>1, <1>2, <1>4, <1>5
  <2> QED BY ONLY <2>1, <1>8, BalancedCovers
<1>10. Sound(owned', memory', roots', current', op', N2)
  BY <1>5, <1>6, <1>7, <1>9 DEF Sound, Typed
<1> QED BY <1>8, <1>10 DEF Kept
-----------------------------------------------------------------------------
\* All the entries of a node that drop_subtree() has gone through are absent or huge.
LEMMA DeletedIsEmpty ==
    ASSUME NEW N, NEW d, DropAt(memory, N, op, d), op.stack[d].i = EntryCount,
           op.drop_used \/ ~op.stack[d].has_used, op.drop_used \in BOOLEAN
    PROVE  NoLinks(memory, op.stack[d].node)
<1>1. ASSUME NEW j \in Index PROVE ~Linked(memory[op.stack[d].node][j])
  <2>1. j < op.stack[d].i
    BY IndexFacts
  <2>2. IF op.drop_used THEN ~Linked(memory[op.stack[d].node][j])
        ELSE ~op.stack[d].has_used => memory[op.stack[d].node][j] = None
    BY <2>1 DEF DropAt
  <2> QED BY <2>2, NoneIsNotLinked
<1> QED BY <1>1 DEF NoLinks

\* Entries of a node without links do not count.
LEMMA EntriesPruned ==
    ASSUME NEW mem, NEW N \in [Levels -> SUBSET AllFrames], NEW N2, NEW t, PrunedTo(N, N2, t), NoLinks(mem, t), NEW f
    PROVE  Entries(mem, AllOf(N2), f) = Entries(mem, AllOf(N), f)
<1>1. AllOf(N) \in SUBSET AllFrames /\ AllOf(N2) \in SUBSET AllFrames
  <2>1. N2 \in [Levels -> SUBSET AllFrames]
    BY DEF PrunedTo
  <2> QED BY <2>1, AllOfType
<1>2. SameLinks(mem, AllOf(N), mem, AllOf(N2), f)
  BY DEF SameLinks, PrunedTo, NoLinks, LinksTo
<1> QED BY <1>1, <1>2, EntriesSame

\* drop_subtree() releasing an empty node keeps the invariant.
LEMMA DropNodeKept ==
    ASSUME NEW N, Now(N), DropNode
    PROVE  Kept(N)
<1> DEFINE stk == op.stack
           n == Len(op.stack)
           c == n - 1
           p == stk[c].node
           i == stk[c].i
           t == stk[n].node
           u == stk[c].has_used
           h == LevelAt(n)
           stk2 == Next1(Popped)
           N2 == [N EXCEPT ![h] = @ \ {t}]
<1>0. /\ AtSubtreeEnd /\ Depth > 1 /\ Deleted
      /\ Release(t) /\ Edited(memory, memory', p, i, None)
      /\ op' = [op EXCEPT !.stack = stk2]
      /\ roots' = roots /\ current' = current
  BY DEF DropNode, SetEntry, Edited, Top, Depth
<1>1. /\ op.kind = "drop_subtree" /\ ~DropsNothing(memory, op)
      /\ op \in DropOp /\ stk \in Seq(DropFrame) /\ n > 1 /\ n \in Nat /\ op.drop_used \in BOOLEAN
      /\ c \in 1 .. n /\ n \in 1 .. n /\ c + 1 = n /\ c # n
      /\ IsPart(stk, Popped, c) /\ Len(Popped) >= 1 /\ Popped[Len(Popped)].i < EntryCount
      /\ i < EntryCount /\ i \in Index
      /\ LinksTo(memory[p][i], t)
      /\ DropAt(memory, N, op, c) /\ DropAt(memory, N, op, n)
      /\ Top = stk[n] /\ Top.i = EntryCount
      /\ LevelAt(c) = LevelAt(n) + 1 /\ LevelAt(c) # LeafLevel
  BY <1>0, ReturnFacts
<1>2. /\ op \notin CopyOp /\ GuardsOf(op) = <<>> /\ \A d \in 1 .. n : DropAt(memory, N, op, d)
  BY <1>1, DropFacts
<1>3. /\ p \in AllFrames /\ p \in N[LevelAt(c)] /\ p \in AllOf(N) /\ LevelAt(c) \in Levels
      /\ t \in AllFrames /\ t \in N[h] /\ t \in AllOf(N) /\ h \in Levels /\ u \in BOOLEAN
  BY <1>1 DEF DropAt
<1>4. /\ owned \in [AllFrames -> Nat] /\ memory \in Contents /\ roots \in Roots /\ N \in [Levels -> SUBSET AllFrames]
      /\ IsOp(op) /\ AreLevels(memory, TopsOf(roots, op), N)
      /\ IsTree(owned, memory, N) /\ Covers(owned, memory, N, roots, op) /\ AllOf(N) \in SUBSET AllFrames
      /\ current \in Mappings /\ roots[current] # None /\ roots[Base] # None
  BY SoundFacts DEF Now
<1>5. NoLinks(memory, t)
  <2>1. op.drop_used \/ ~stk[n].has_used
    BY <1>0, <1>1 DEF Deleted
  <2> QED BY <1>1, <2>1, DeletedIsEmpty
<1>6. p # t
  BY <1>1, DropsAreApart
<1>7. Pruned(N, N2, h, t)
  BY DEF Pruned
<1> HIDE DEF N2
<1>8. PrunedTo(N, N2, t)
  BY <1>3, <1>4, <1>7, PrunedFacts
<1>9. /\ memory' \in Contents /\ memory'[p][i] = None
      /\ \A k \in AllFrames, j \in Index : k # p \/ j # i => memory'[k][j] = memory[k][j]
      /\ \A k \in AllFrames : k # p => memory'[k] = memory[k]
  <2>1. None \in Pte \cup {None} /\ p \in AllFrames /\ i \in Index /\ memory \in Contents /\ Edited(memory, memory', p, i, None)
    BY <1>0, <1>1, <1>3, <1>4
  <2>2. DiffersAt(memory, memory', p, i, None)
    BY <2>1, EditedDiffers
  <2> QED BY <2>2 DEF DiffersAt
<1>10. Unique(memory, N, roots, GuardsOf(op), t)
  BY <1>3, <1>4, NodesHaveOneUser
<1>11. StepsTo(Popped, stk2, u)
  <2>1. /\ Popped \in Seq(DropFrame) /\ Len(Popped) = c /\ \A d \in 1 .. c : Popped[d] = stk[d]
    BY <1>1 DEF IsPart
  <2>2. c \in 1 .. c /\ c \in Nat
    BY <1>1
  <2>3. Popped[c] = stk[c] /\ stk[c] \in DropFrame
    BY <1>1, <2>1, <2>2
  <2>4. Marked(Popped, u) = Popped
    <3>1. [Popped[c] EXCEPT !.has_used = u] = Popped[c]
      BY <2>3 DEF DropFrame
    <3>2. [Popped EXCEPT ![c] = Popped[c]] = Popped
      BY <2>1, <2>2
    <3> QED BY <2>1, <3>1, <3>2 DEF Marked
  <2>5. IsUsed(Popped, stk2, u)
    BY <2>4 DEF IsUsed
  <2> HIDE DEF u, stk2
  <2> QED BY <1>1, <1>3, <2>1, <2>5, StepsFacts
<1> HIDE DEF stk2
<1>12. stk2 \in Seq(DropFrame)
  BY <1>11 DEF StepsTo
<1>13. WithStack(op, op', stk2)
  BY <1>0, <1>1, <1>12, DropOpStack
<1>14. op' \in DropOp /\ op' \notin CopyOp /\ GuardsOf(op') = <<>> /\ IsOp(op')
  BY <1>13, DropIsNotCopy DEF WithStack
<1>15. TopsOf(roots', op') = TopsOf(roots, op)
  BY <1>0, <1>2, <1>4, <1>14, TopsSame
<1>16. Drops(memory', roots, current, op', N2)
  <2>0. \A d \in 1 .. c : d \in 1 .. n /\ d # n
    BY <1>1
  <2>1. StayNodes(stk, c, N2)
    <3>1. ASSUME NEW d \in 1 .. c PROVE stk[d].node \in N2[LevelAt(d)]
      <4>1. DropAt(memory, N, op, d) /\ stk[d].node # t
        BY <1>1, <1>2, <2>0, DropsAreApart
      <4> QED BY <4>1, <1>8 DEF DropAt, PrunedTo
    <3> QED BY <3>1 DEF StayNodes
  <2>2. StayEntries(stk, c, memory, memory')
    <3>1. ASSUME NEW d \in 1 .. c, NEW j \in Index, d # c \/ j # stk[c].i
          PROVE  memory'[stk[d].node][j] = memory[stk[d].node][j]
      <4>1. stk[d].node \in AllFrames
        BY <1>2, <2>0 DEF DropAt
      <4>2. stk[d].node = p => d = c
        BY <1>1, <2>0, DropsAreApart
      <4> QED BY <3>1, <4>1, <4>2, <1>9
    <3> QED BY <3>1 DEF StayEntries
  <2>3. EntryIsDone(op, c, memory', u)
    BY <1>9, NoneIsNotLinked DEF EntryIsDone
  <2>4. /\ Now(N) /\ op.kind = "drop_subtree" /\ ~DropsNothing(memory, op) /\ c \in 1 .. Len(op.stack)
        /\ IsPart(op.stack, Popped, c) /\ op.stack[c].i < EntryCount /\ u \in BOOLEAN /\ StepsTo(Popped, stk2, u)
        /\ WithStack(op, op', stk2)
    BY <1>1, <1>3, <1>11, <1>13
  <2>5. StayNodes(op.stack, c, N2) /\ StayEntries(op.stack, c, memory, memory')
    BY <2>1, <2>2
  <2> HIDE DEF c, u
  <2> QED BY ONLY <2>3, <2>4, <2>5, DropAdvances
<1> HIDE DEF stk, n, c, p, i, t, u, h
<1>17. LinksAgree(memory, memory', N, t)
  <2>1. ASSUME NEW k \in AllOf(N), NEW j \in Index, NEW x \in AllFrames, k # t, x # t
        PROVE  LinksTo(memory[k][j], x) <=> LinksTo(memory'[k][j], x)
    <3>1. CASE k = p /\ j = i
      <4>1. ~LinksTo(memory[p][i], x)
        BY <1>1, <2>1 DEF LinksTo
      <4>2. ~LinksTo(memory'[p][i], x)
        BY <1>9, NoLink, NoneIsNotLinked
      <4> QED BY <3>1, <4>1, <4>2
    <3>2. CASE k # p \/ j # i
      BY <3>2, <1>4, <1>9
    <3> QED BY <3>1, <3>2
  <2> QED BY <2>1 DEF LinksAgree
<1>18. TopsAgree(TopsOf(roots, op), TopsOf(roots', op'), t)
  BY <1>15 DEF TopsAgree
<1>19. NoTop(TopsOf(roots', op'), t)
  <2>1. ASSUME NEW l \in Levels PROVE t \notin TopsOf(roots, op)[l]
    <3>1. \A m \in Mappings : roots[m] # t
      BY <1>1, <1>3, <1>10 DEF Unique
    <3> QED BY <3>1, <1>2, <1>4, TopsType
  <2> QED BY <2>1, <1>15 DEF NoTop
<1>20. Unlinked(memory', N, t)
  <2>1. ASSUME NEW k \in AllOf(N), NEW j \in Index, k # t PROVE ~LinksTo(memory'[k][j], t)
    <3>1. CASE k = p /\ j = i
      BY <3>1, <1>9, NoLink, NoneIsNotLinked
    <3>2. CASE k # p \/ j # i
      <4>1. ~LinksTo(memory[k][j], t)
        BY <3>2, <1>1, <1>3, <1>10 DEF Unique
      <4> QED BY <3>2, <4>1, <1>4, <1>9
    <3> QED BY <3>1, <3>2
  <2> QED BY <2>1 DEF Unlinked
<1>21. LeavesStay(memory, memory', N2)
  <2>1. ASSUME NEW k \in N2[LeafLevel], NEW j \in Index PROVE memory'[k][j] = memory[k][j]
    <3>1. k \in N[LeafLevel] /\ k \in AllFrames
      BY <1>4, <1>8, LevelsFacts DEF PrunedTo
    <3>2. k # p
      BY <3>1, <1>1, <1>3, <1>4, LevelsFacts DEF IsTree
    <3> QED BY <3>1, <3>2, <1>9
  <2> QED BY <2>1 DEF LeavesStay
<1>22. UsersLeave(memory, N, roots, memory', N2, roots', t)
  <2>0. NoLinks(memory', t)
    BY <1>3, <1>5, <1>6, <1>9 DEF NoLinks
  <2>1. ASSUME NEW f \in Ram
        PROVE  Entries(memory', AllOf(N2), f) + Live(roots', f) + One(t = f) = Entries(memory, AllOf(N), f) + Live(roots, f)
    <3> DEFINE e == Entries(memory, AllOf(N), f)
               e1 == Entries(memory', AllOf(N), f)
               e2 == Entries(memory', AllOf(N2), f)
               v == Live(roots, f)
               a == One(t = f)
    <3>1. e \in Nat /\ e1 \in Nat /\ v \in Nat /\ a \in Nat /\ Live(roots', f) = v
      BY <1>0, <1>4, EntriesType, LiveType, OneType
    <3>2. e2 = e1
      BY <1>4, <1>8, <2>0, EntriesPruned
    <3>3. e1 + One(LinksTo(memory[p][i], f)) = e + One(LinksTo(None, f))
      <4>1. /\ memory \in Contents /\ AllOf(N) \in SUBSET AllFrames /\ p \in AllOf(N) /\ i \in Index
            /\ None \in Pte \cup {None} /\ Edited(memory, memory', p, i, None)
        BY <1>0, <1>1, <1>3, <1>4 DEF p, i, stk, c, n
      <4> QED BY ONLY <4>1, EntriesEdited
    <3>4. One(LinksTo(None, f)) = 0
      BY NoLink, NoneIsNotLinked
    <3>5. One(LinksTo(memory[p][i], f)) = a
      BY <1>1 DEF LinksTo, One
    <3> HIDE DEF e, e1, e2, v, a
    <3> QED BY <3>1, <3>2, <3>3, <3>4, <3>5 DEF e, e1, e2, v, a
  <2> QED BY <2>1 DEF UsersLeave
<1>23. OpInv(memory', roots', current', op', N2)
  BY <1>0, <1>16 DEF OpInv
<1>24. /\ roots' \in Roots /\ current' \in Mappings /\ roots'[current'] # None /\ roots'[Base] # None
  BY <1>0, <1>4
<1>25. Release(t)
  BY <1>0 DEF t, stk, n
<1> QED BY <1>2, <1>3, <1>5, <1>7, <1>9, <1>14, <1>17, <1>18, <1>19, <1>20, <1>21, <1>22, <1>23, <1>24, <1>25, NodeDropped
-----------------------------------------------------------------------------
\* Mapping::drop() of the mapping that duplicate() could not make ends.
LEMMA DropsNothingEnds ==
    ASSUME NEW N, Now(N), DropEnds, DropsNothing(memory, op)
    PROVE  Kept(N)
<1>0. /\ op.kind = "drop_subtree" /\ op' = Idle /\ memory' = memory /\ current' = current
      /\ op.m = None => owned' = owned /\ roots' = roots
  BY DEF DropEnds, AtSubtreeEnd
<1>1. op \in DropOp /\ op.m = None
  BY DEF DropsNothing
<1>2. op \notin CopyOp /\ GuardsOf(op) = <<>>
  BY <1>1, DropIsNotCopy
<1>3. op' \notin CopyOp /\ GuardsOf(op') = <<>> /\ OpInv(memory, roots, current, op', N)
  BY <1>0, IdleFacts DEF OpInv
<1>4. current \in Mappings /\ roots[current] # None
  BY SoundFacts DEF Now
<1> QED BY <1>0, <1>1, <1>2, <1>3, <1>4, OnlyOpChanges

\* Mapping::drop() releases the root, which is empty and is the root of no other mapping.
LEMMA DropsRootEnds ==
    ASSUME NEW N, Now(N), DropEnds, ~DropsNothing(memory, op)
    PROVE  Kept(N)
<1> DEFINE m == op.m
           t == op.stack[1].node
           N2 == [N EXCEPT ![RootLevel] = @ \ {t}]
<1>0. /\ op.kind = "drop_subtree" /\ Len(op.stack) = 1 /\ op.drop_used /\ op.stack[1].i = EntryCount
      /\ op' = Idle /\ memory' = memory /\ current' = current
      /\ m # None => Release(t) /\ Rerooted(roots, roots', m, None)
  BY DEF DropEnds, AtSubtreeEnd, Depth, Top, Rerooted
<1>1. /\ m \in Mappings /\ m # None /\ roots[m] # None /\ t = roots[m] /\ GuardsOf(op) = <<>> /\ op \notin CopyOp
      /\ \A d \in 1 .. Len(op.stack) : DropAt(memory, N, op, d)
      /\ Drops(memory, roots, current, op, N)
  BY <1>0, DropFacts
<1>2. m # Base /\ m # current
  BY <1>0, <1>1 DEF Drops
<1>3. DropAt(memory, N, op, 1)
  BY <1>0, <1>1
<1>4. LevelAt(1) = RootLevel /\ RootLevel \in Levels
  BY LevelsFacts DEF LevelAt
<1>5. t \in AllFrames /\ t \in N[RootLevel] /\ t \in AllOf(N)
  BY <1>3, <1>4 DEF DropAt
<1>6. /\ owned \in [AllFrames -> Nat] /\ memory \in Contents /\ roots \in Roots /\ N \in [Levels -> SUBSET AllFrames]
      /\ IsOp(op) /\ AreLevels(memory, TopsOf(roots, op), N)
      /\ IsTree(owned, memory, N) /\ Covers(owned, memory, N, roots, op) /\ AllOf(N) \in SUBSET AllFrames
      /\ current \in Mappings /\ roots[current] # None /\ roots[Base] # None
  BY SoundFacts DEF Now
<1>7. NoLinks(memory, t)
  BY <1>0, <1>3, DeletedIsEmpty
<1>8. Pruned(N, N2, RootLevel, t)
  BY DEF Pruned
<1> HIDE DEF N2
<1>9. PrunedTo(N, N2, t)
  BY <1>4, <1>5, <1>6, <1>8, PrunedFacts
<1>10. Unique(memory, N, roots, GuardsOf(op), t)
  BY <1>5, <1>6, NodesHaveOneUser
<1>11. roots' \in Roots /\ LiveMoves(roots, roots', m, None)
  <2>1. roots \in Roots /\ m \in Mappings /\ None \in AllFrames \cup {None} /\ Rerooted(roots, roots', m, None)
    BY <1>0, <1>1, <1>6
  <2> HIDE DEF m
  <2> QED BY ONLY <2>1, LiveMoved
<1>12. \A k \in Mappings : roots'[k] = IF k = m THEN None ELSE roots[k]
  BY <1>0, <1>1, <1>6 DEF Rerooted, Roots
<1>13. IsOp(op') /\ op' \notin CopyOp /\ GuardsOf(op') = <<>> /\ OpInv(memory', roots', current', op', N2)
  BY <1>0, IdleFacts DEF OpInv
<1>14. \A k \in Mappings : roots[k] = t => k = m
  BY <1>1, <1>10 DEF Unique
<1>15. \A l \in Levels : \A x : x \in TopsOf(roots', op')[l] <=> x \in TopsOf(roots, op)[l] /\ x # t
  <2>1. ASSUME NEW l \in Levels, NEW x PROVE x \in TopsOf(roots', op')[l] <=> x \in TopsOf(roots, op)[l] /\ x # t
    <3>1. x \in TopsOf(roots', op')[l] <=> l = RootLevel /\ x # None /\ \E k \in Mappings : roots'[k] = x
      BY <1>11, <1>13, TopsType
    <3>2. x \in TopsOf(roots, op)[l] <=> l = RootLevel /\ x # None /\ \E k \in Mappings : roots[k] = x
      BY <1>1, <1>6, TopsType
    <3>3. x # None => ((\E k \in Mappings : roots'[k] = x) <=> (\E k \in Mappings : roots[k] = x) /\ x # t)
      BY <1>1, <1>12, <1>14
    <3> HIDE DEF t, m
    <3> QED BY <3>1, <3>2, <3>3
  <2> QED BY <2>1
<1>16. TopsAgree(TopsOf(roots, op), TopsOf(roots', op'), t) /\ NoTop(TopsOf(roots', op'), t)
  BY <1>15 DEF TopsAgree, NoTop
<1>17. LinksAgree(memory, memory', N, t) /\ LeavesStay(memory, memory', N2)
  BY <1>0 DEF LinksAgree, LeavesStay
<1>18. Unlinked(memory', N, t)
  BY <1>0, <1>1, <1>10 DEF Unlinked, Unique
<1>19. UsersLeave(memory, N, roots, memory', N2, roots', t)
  <2>1. ASSUME NEW f \in Ram
        PROVE  Entries(memory', AllOf(N2), f) + Live(roots', f) + One(t = f) = Entries(memory, AllOf(N), f) + Live(roots, f)
    <3> DEFINE e == Entries(memory, AllOf(N), f)
               v == Live(roots, f)
               v2 == Live(roots', f)
               a == One(t = f)
    <3>1. e \in Nat /\ v \in Nat /\ v2 \in Nat /\ a \in Nat /\ f \in AllFrames
      BY <1>6, EntriesType, LiveType, OneType, FramesFacts
    <3>2. Entries(memory', AllOf(N2), f) = e
      BY <1>0, <1>6, <1>7, <1>9, EntriesPruned
    <3>3. v2 + a = v + 0
      <4>1. Live(roots', f) + One(roots[m] = f) = Live(roots, f) + One(None = f)
        BY <1>11, <3>1 DEF LiveMoves
      <4>2. One(None = f) = 0
        BY <3>1, FramesFacts DEF One
      <4>3. roots[m] = t
        BY <1>1
      <4> HIDE DEF t, m
      <4> QED BY <4>1, <4>2, <4>3 DEF a, v, v2
    <3> HIDE DEF e, v, v2, a
    <3>4. e + v2 + a = e + v
      BY <3>1, <3>3
    <3> QED BY <3>2, <3>4 DEF e, v, v2, a
  <2> QED BY <2>1 DEF UsersLeave
<1>20. memory' \in Contents /\ current' \in Mappings /\ roots'[current'] # None /\ roots'[Base] # None
  BY <1>0, <1>2, <1>6, <1>12, MappingsAssumption
<1>21. Release(t)
  BY <1>0, <1>1
<1> HIDE DEF t, m
<1> QED BY <1>1, <1>4, <1>5, <1>7, <1>8, <1>11, <1>13, <1>16, <1>17, <1>18, <1>19, <1>20, <1>21, NodeDropped

\* Mapping::drop() ending keeps the invariant.
LEMMA DropEndsKept ==
    ASSUME NEW N, Now(N), DropEnds
    PROVE  Kept(N)
  BY DropsNothingEnds, DropsRootEnds
-----------------------------------------------------------------------------
\* The step writes to frames of main memory only.
OutsideStays == \A x \in AllFrames : x \notin Ram => memory'[x] = memory[x]

\* A store to a live node is a store to main memory.
LEMMA EditStays ==
    ASSUME NEW N, Now(N), NEW n \in AllOf(N), NEW i, NEW pte, Edited(memory, memory', n, i, pte)
    PROVE  OutsideStays
<1>1. memory \in Contents /\ n \in Ram
  BY SoundFacts DEF Now
<1> QED BY <1>1 DEF OutsideStays, Edited, Contents

\* A new node is in main memory.
LEMMA ClearStays ==
    ASSUME NEW N, Now(N), NEW n \in Ram, Cleared(memory, memory', n)
    PROVE  OutsideStays
<1>1. memory \in Contents
  BY SoundFacts DEF Now
<1> QED BY <1>1 DEF OutsideStays, Cleared, Contents

\* No store at all.
LEMMA SameStays ==
    ASSUME memory' = memory
    PROVE  OutsideStays
  BY DEF OutsideStays

\* Path::map() writes to main memory only.
LEMMA MapStays ==
    ASSUME NEW N, Now(N), MapSteps
    PROVE  OutsideStays
<1>1. CASE MapDescends
  <2>1. op.kind = "map" /\ Edited(memory, memory', op.node, op.page[op.level], [MapEntry EXCEPT !.flags = @ \cup op.flags])
    BY <1>1 DEF MapDescends, MapsInnerNode, SetEntry, Edited
  <2>2. op.node \in AllOf(N)
    BY <2>1, MapsFacts
  <2> QED BY <2>1, <2>2, EditStays
<1>2. CASE MapStoresLeaf
  <2>1. op.kind = "map" /\ Edited(memory, memory', op.node, op.page[LeafLevel], [frame |-> op.frame, flags |-> op.flags, huge |-> FALSE])
    BY <1>2 DEF MapStoresLeaf, SetEntry, Edited
  <2>2. op.node \in AllOf(N)
    BY <2>1, MapsFacts
  <2> QED BY <2>1, <2>2, EditStays
<1>3. ASSUME NEW new \in Ram, MapAllocatesNode(new) PROVE OutsideStays
  <2> DEFINE mem1 == [memory EXCEPT ![new] = Zeroed]
             pte == [frame |-> new, flags |-> op.flags, huge |-> FALSE]
  <2>1. op.kind = "map" /\ Edited(mem1, memory', op.node, op.page[op.level], pte)
    BY <1>3 DEF MapAllocatesNode, MapsInnerNode, Edited
  <2>2. op.node \in AllOf(N)
    BY <2>1, MapsFacts
  <2>3. op.node \in Ram /\ memory \in Contents
    BY <2>2, SoundFacts DEF Now
  <2>4. \A x \in AllFrames : x \notin Ram => mem1[x] = memory[x]
    BY <2>3 DEF Contents
  <2>5. DOMAIN mem1 = AllFrames
    BY <2>3 DEF Contents
  <2> HIDE DEF mem1, pte
  <2>6. \A x \in AllFrames : x # op.node => memory'[x] = mem1[x]
    BY <2>1, <2>5 DEF Edited
  <2> QED BY <2>3, <2>4, <2>6 DEF OutsideStays
<1>4. CASE MapPageReferences \/ MapFails
  BY <1>4, SameStays DEF MapPageReferences, MapFails
<1> QED BY <1>1, <1>2, <1>3, <1>4 DEF MapSteps

\* duplicate() writes to main memory only.
LEMMA DuplicateStays ==
    ASSUME NEW N, Now(N), DuplicateSteps
    PROVE  OutsideStays
<1>1. ASSUME op.kind = "duplicate", NEW d \in 1 .. Len(op.stack) PROVE op.stack[d].node \in AllOf(N)
  BY <1>1, CopyFacts DEF CopyAt
<1>2. ASSUME op.kind = "duplicate" PROVE Len(op.stack) \in 1 .. Len(op.stack) /\ Len(op.stack) \in Nat
  <2>1. Len(op.stack) \in Nat /\ Len(op.stack) >= 1
    BY <1>2, CopyFacts
  <2> QED BY <2>1
<1>3. ASSUME op.kind = "duplicate" PROVE Top.node \in AllOf(N)
  BY <1>1, <1>2, <1>3 DEF Top
<1>4. CASE DuplicateSkips
  <2>1. op.kind = "duplicate" /\ Edited(memory, memory', Top.node, Top.i, None)
    BY <1>4 DEF DuplicateSkips, Duplicating, SetEntry, Edited
  <2> QED BY <1>3, <2>1, EditStays
<1>5. CASE DuplicateCopiesHuge \/ DuplicateSharesPage
  <2>1. op.kind = "duplicate" /\ Edited(memory, memory', Top.node, Top.i, SourceEntry)
    BY <1>5 DEF DuplicateCopiesHuge, DuplicateSharesPage, Duplicating, SetEntry, Edited
  <2> QED BY <1>3, <2>1, EditStays
<1>6. ASSUME NEW new \in Ram, DuplicateDescends(new) PROVE OutsideStays
  BY <1>6, ClearStays DEF DuplicateDescends, Cleared
<1>7. CASE DuplicateReturns
  <2> DEFINE c == Len(op.stack) - 1
             pte == [memory[op.stack[c].src][op.stack[c].i] EXCEPT !.frame = Top.node]
  <2>1. op.kind = "duplicate" /\ Len(op.stack) > 1 /\ Edited(memory, memory', op.stack[c].node, op.stack[c].i, pte)
    BY <1>7 DEF DuplicateReturns, SetEntry, Edited, Depth
  <2>2. c \in 1 .. Len(op.stack)
    BY <1>2, <2>1, CallerBelow
  <2> HIDE DEF pte, c
  <2>3. op.stack[c].node \in AllOf(N)
    BY <1>1, <2>1, <2>2
  <2> QED BY <2>1, <2>3, EditStays
<1>8. CASE DuplicateEnds \/ DuplicateFails \/ DuplicateUnwinds
  BY <1>8, SameStays DEF DuplicateEnds, DuplicateFails, DuplicateUnwinds
<1> QED BY <1>4, <1>5, <1>6, <1>7, <1>8 DEF DuplicateSteps

\* drop_subtree() writes to main memory only.
LEMMA DropStays ==
    ASSUME NEW N, Now(N), DropSteps
    PROVE  OutsideStays
<1>1. CASE DropPage
  <2>1. InSubtree /\ NodeEntry # None /\ op.kind = "drop_subtree" /\ Top.i < EntryCount
        /\ Edited(memory, memory', Top.node, Top.i, None)
    BY <1>1 DEF DropPage, AtLeaf, SetEntry, Edited, InSubtree
  <2>2. ~DropsNothing(memory, op)
    BY <2>1, NothingIsEmpty
  <2>3. Top.node \in AllOf(N)
    BY <2>1, <2>2, InSubtreeFacts
  <2> QED BY <2>1, <2>3, EditStays
<1>2. CASE DropNode
  <2> DEFINE c == Len(op.stack) - 1
  <2>1. AtSubtreeEnd /\ Depth > 1 /\ Edited(memory, memory', op.stack[c].node, op.stack[c].i, None)
    BY <1>2 DEF DropNode, SetEntry, Edited, Depth
  <2>2. op.stack[c].node \in AllOf(N)
    BY <2>1, ReturnFacts DEF DropAt
  <2> QED BY <2>1, <2>2, EditStays
<1>3. CASE DropSkips \/ DropDescends \/ DropKeepsNode \/ DropEnds \/ UnmapUnusedEnds
  BY <1>3, SameStays DEF DropSkips, DropDescends, DropKeepsNode, DropEnds, UnmapUnusedEnds
<1> QED BY <1>1, <1>2, <1>3 DEF DropSteps

\* The steps that start an operation or are one, by the disjuncts of Next.
PageSteps ==
    \E m \in Mappings, page \in Pages :
          \/ \E flags \in Rights :
                \/ \E new \in Ram : MapPage(m, page, flags, new)
                \/ \E frame \in AllFrames : MapPageToFrame(m, page, flags, frame)
                \/ Remap(m, page, flags)
          \/ Unmap(m, page)
MappingSteps ==
    \E m \in Mappings :
          \/ \E copy \in Mappings, new \in Ram : Duplicate(m, copy, new)
          \/ \E copy \in Mappings : DuplicateFailsAtOnce(m, copy)
          \/ Drop(m) \/ UnmapUnusedIntermediate(m) \/ SwitchTo(m)
LoadSteps == \E page \in CachedPages : LoadTlb(page)

\* The steps, by their kinds.
LEMMA NextIs ==
    ASSUME Next
    PROVE  PageSteps \/ MappingSteps \/ LoadSteps \/ DropGuard \/ MapSteps \/ DuplicateSteps \/ DropSteps
  BY DEF Next, PageSteps, MappingSteps, LoadSteps

\* Operations on pages write to main memory only.
LEMMA PageStays ==
    ASSUME NEW N, Now(N), PageSteps
    PROVE  OutsideStays
<1>0. PICK m \in Mappings, page \in Pages :
          \/ \E flags \in Rights :
                \/ \E new \in Ram : MapPage(m, page, flags, new)
                \/ \E frame \in AllFrames : MapPageToFrame(m, page, flags, frame)
                \/ Remap(m, page, flags)
          \/ Unmap(m, page)
  BY DEF PageSteps
<1> DEFINE n == PathIn(memory, roots[m], page)[LeafLevel]
           i == page[LeafLevel]
<1>1. ASSUME roots[m] # None, Leaf(m, page) # None PROVE n \in AllOf(N)
  <2>1. LeafIn(memory, roots[m], page) # None
    BY <1>1, LeafIs
  <2>2. n \in N[LeafLevel]
    BY <1>1, <2>1, LiveLeaf DEF Now
  <2>3. N \in [Levels -> SUBSET AllFrames]
    BY SoundFacts DEF Now
  <2> QED BY <2>2, <2>3, AllOfType, LevelsFacts
<1>2. CASE Unmap(m, page)
  <2>1. roots[m] # None /\ Leaf(m, page) # None /\ Edited(memory, memory', n, i, None)
    BY <1>2, PathIs DEF Unmap, SetEntry, Edited
  <2> QED BY <1>1, <2>1, EditStays
<1>3. ASSUME NEW flags \in Rights, Remap(m, page, flags) PROVE OutsideStays
  <2>1. roots[m] # None /\ Leaf(m, page) # None /\ Edited(memory, memory', n, i, [Leaf(m, page) EXCEPT !.flags = flags])
    BY <1>3, PathIs DEF Remap, SetEntry, Edited
  <2> QED BY <1>1, <2>1, EditStays
<1>4. ASSUME NEW flags, NEW new, MapPage(m, page, flags, new) PROVE OutsideStays
  BY <1>4, SameStays DEF MapPage
<1>5. ASSUME NEW flags, NEW frame, MapPageToFrame(m, page, flags, frame) PROVE OutsideStays
  BY <1>5, SameStays DEF MapPageToFrame
<1> QED BY <1>0, <1>2, <1>3, <1>4, <1>5

\* Operations on mappings write to main memory only.
LEMMA MappingStays ==
    ASSUME NEW N, Now(N), MappingSteps
    PROVE  OutsideStays
<1>1. ASSUME NEW m, NEW copy, NEW new \in Ram, Duplicate(m, copy, new) PROVE OutsideStays
  BY <1>1, ClearStays DEF Duplicate, Cleared
<1>2. ASSUME NEW m, Drop(m) \/ UnmapUnusedIntermediate(m) \/ SwitchTo(m) PROVE OutsideStays
  BY <1>2, SameStays DEF Drop, UnmapUnusedIntermediate, SwitchTo
<1>3. ASSUME NEW m, NEW copy, DuplicateFailsAtOnce(m, copy) PROVE OutsideStays
  BY <1>3, SameStays DEF DuplicateFailsAtOnce
<1> QED BY <1>1, <1>2, <1>3 DEF MappingSteps

\* Path and Mapping write to frames of main memory only, and never to frame 0.
LEMMA StepStays ==
    ASSUME NEW N, Now(N), [Next]_vars
    PROVE  OutsideStays
<1>1. CASE Next
  <2>1. CASE LoadSteps \/ DropGuard
    BY <2>1, SameStays DEF LoadSteps, LoadTlb, DropGuard
  <2> QED BY <1>1, <2>1, NextIs, PageStays, MappingStays, MapStays, DuplicateStays, DropStays
<1>2. CASE UNCHANGED vars
  BY <1>2, SameStays DEF vars, tableVars
<1> QED BY <1>1, <1>2
-----------------------------------------------------------------------------
\* Every step keeps the invariant.
LEMMA StepKeeps ==
    ASSUME NEW N, Now(N), DropsFrameZero => ZeroIsZero, [Next]_vars
    PROVE  IF DuplicateFails THEN KeptSound ELSE Kept(N)
<1>1. CASE DuplicateFails
  BY <1>1, DuplicateFailsKept
<1>2. CASE ~DuplicateFails
  <2> SUFFICES Kept(N)
    BY <1>2
  <2>1. CASE PageSteps
    BY <2>1, MapPageKept, MapPageToFrameKept, RemapKept, UnmapKept DEF PageSteps
  <2>2. CASE MappingSteps
    BY <2>2, DuplicateKept, DuplicateFailsAtOnceKept, DropKept, UnmapUnusedIntermediateKept, SwitchToKept DEF MappingSteps
  <2>3. CASE LoadSteps
    BY <2>3, NothingChanges DEF LoadSteps, LoadTlb
  <2>4. CASE DropGuard
    BY <2>4, DropGuardKept
  <2>5. CASE MapSteps
    BY <2>5, MapPageReferencesKept, MapDescendsKept, MapFailsKept, MapStoresLeafKept, MapAllocatesNodeKept DEF MapSteps
  <2>6. CASE DuplicateSteps
    BY <1>2, <2>6, DuplicateSkipsKept, DuplicateCopiesHugeKept, DuplicateSharesPageKept, DuplicateDescendsKept,
       DuplicateReturnsKept, DuplicateEndsKept, DuplicateUnwindsKept DEF DuplicateSteps
  <2>7. CASE DropSteps
    BY <2>7, DropSkipsKept, DropPageKept, DropDescendsKept, DropNodeKept, DropKeepsNodeKept, DropEndsKept,
       UnmapUnusedEndsKept DEF DropSteps
  <2>8. CASE UNCHANGED vars
    BY <2>8, NothingChanges DEF vars, tableVars
  <2> QED BY <2>1, <2>2, <2>3, <2>4, <2>5, <2>6, <2>7, <2>8, NextIs
<1> QED BY <1>1, <1>2
-----------------------------------------------------------------------------
\* The levels of a sound tree are the ones of TablesInv.
LEMMA SoundLevels ==
    ASSUME NEW own, NEW mem, NEW rts, NEW cur, NEW o, NEW N, Sound(own, mem, rts, cur, o, N)
    PROVE  N = NodeLevels(mem, TopsOf(rts, o))
<1>1. mem \in Contents /\ rts \in Roots /\ IsOp(o) /\ AreLevels(mem, TopsOf(rts, o), N)
  BY SoundFacts
<1>2. TopsOf(rts, o) \in [Levels -> SUBSET AllFrames]
  BY <1>1, TopsType
<1> QED BY <1>1, <1>2, LevelsUnique

NowLevels == NodeLevels(memory, TopsOf(roots, op))

\* The invariant, with its levels named or not.
LEMMA InvIsNow ==
    /\ TablesInv <=> Now(NowLevels)
    /\ (\E N : Now(N)) => TablesInv
    /\ KeptSound => TablesInv'
<1>1. TablesInv <=> Now(NowLevels)
  BY DEF TablesInv, Now, NowLevels
<1>2. ASSUME NEW N, Now(N) PROVE TablesInv
  <2>1. N = NodeLevels(memory, TopsOf(roots, op))
    BY <1>2, SoundLevels DEF Now
  <2> QED BY <1>2, <2>1 DEF TablesInv, Now
<1>3. ASSUME KeptSound PROVE TablesInv'
  <2>1. PICK N2 : Sound(owned', memory', roots', current', op', N2)
    BY <1>3 DEF KeptSound
  <2>2. N2 = NodeLevels(memory', TopsOf(roots', op'))
    BY <2>1, SoundLevels
  <2>3. TablesInv' <=> Sound(owned', memory', roots', current', op', NodeLevels(memory', TopsOf(roots', op')))
    BY DEF TablesInv
  <2> QED BY <2>1, <2>2, <2>3
<1> QED BY <1>1, <1>2, <1>3
-----------------------------------------------------------------------------
BootTops == [l \in Levels |-> IF l = RootLevel THEN {BootRoot} ELSE {}]
BootMappings == [m \in Mappings |-> IF m = Base THEN BootRoot ELSE None]

\* What the boot loader leaves is well formed.
LEMMA BootFacts ==
    /\ BootRoot \in AllFrames /\ BootRoot # None /\ BootTables \in Contents /\ BootMappings \in Roots
    /\ TopsOf(BootMappings, Idle) = BootTops
    /\ BootTops \in [Levels -> SUBSET AllFrames]
    /\ AreLevels(BootTables, BootTops, BootLevels)
<1>1. BootRoot \in AllFrames /\ BootTables \in Contents
  BY BootAssumption DEF Contents
<1>2. BootRoot # None
  BY <1>1, FramesFacts
<1>3. BootMappings \in Roots
  BY <1>1 DEF BootMappings, Roots
<1>4. ASSUME NEW l \in Levels PROVE TopsOf(BootMappings, Idle)[l] = BootTops[l]
  <2>1. \A x : x \in TopsOf(BootMappings, Idle)[l] <=> l = RootLevel /\ x # None /\ \E m \in Mappings : BootMappings[m] = x
    BY <1>3, TopsType, IdleFacts
  <2>2. \A x : x # None => ((\E m \in Mappings : BootMappings[m] = x) <=> x = BootRoot)
    BY MappingsAssumption DEF BootMappings
  <2>3. \A x : x \in TopsOf(BootMappings, Idle)[l] <=> x \in BootTops[l]
    BY <2>1, <2>2, <1>2 DEF BootTops
  <2>4. TopsOf(BootMappings, Idle)[l] \in SUBSET AllFrames
    BY <1>3, TopsType, IdleFacts
  <2> QED BY <2>3
<1>5. BootTops \in [Levels -> SUBSET AllFrames]
  BY <1>1 DEF BootTops
<1>6. TopsOf(BootMappings, Idle) = BootTops
  <2>1. TopsOf(BootMappings, Idle) \in [Levels -> SUBSET AllFrames]
    BY <1>3, TopsType, IdleFacts
  <2> QED BY <1>4, <1>5, <2>1
<1>7. AreLevels(BootTables, BootTops, BootLevels)
  <2>1. BootLevels = NodeLevels(BootTables, BootTops)
    BY DEF BootLevels, BootTops
  <2> QED BY <1>1, <1>5, <2>1, LevelsExist
<1> QED BY <1>1, <1>2, <1>3, <1>5, <1>6, <1>7

\* The boot loader leaves a tree: the invariant holds at the start.
LEMMA InitTables ==
    ASSUME Init
    PROVE  TablesInv
<1>0. /\ owned = [f \in AllFrames |-> IF f \in BootFrames THEN 1 ELSE 0]
      /\ memory = BootTables /\ roots = BootMappings /\ current = Base /\ op = Idle
  BY DEF Init, OwnershipInit, BootMappings
<1>1. owned \in [AllFrames -> Nat] /\ BootFrames \subseteq Ram /\ Ram \subseteq AllFrames
  BY <1>0, BootAssumption
<1>2. Typed(owned, memory, roots, current)
  <2>1. roots[Base] # None
    BY <1>0, BootFacts, MappingsAssumption DEF BootMappings
  <2> QED BY <1>0, <1>1, <2>1, BootFacts, MappingsAssumption DEF Typed
<1>3. AreLevels(memory, TopsOf(roots, op), BootLevels)
  BY <1>0, BootFacts
<1>4. BootLevels \in [Levels -> SUBSET AllFrames]
  BY <1>3 DEF AreLevels
<1>5. IsTree(owned, memory, BootLevels)
  <2>1. ASSUME NEW l \in Levels, NEW f \in BootLevels[l] PROVE f \in Ram /\ owned[f] = 1
    BY <1>0, <1>1, BootTreeAssumption
  <2>2. ASSUME NEW k \in Levels, NEW l \in Levels, NEW f \in BootLevels[k], f \in BootLevels[l] PROVE k = l
    BY <2>2, BootTreeAssumption
  <2>3. ASSUME NEW n \in BootLevels[LeafLevel], NEW i \in Index, memory[n][i] # None PROVE Linked(memory[n][i])
    BY <1>0, <2>3, BootTreeAssumption DEF Linked
  <2> QED BY <2>1, <2>2, <2>3 DEF IsTree
<1>6. Covers(owned, memory, BootLevels, roots, op)
  <2>1. ASSUME NEW f \in Ram PROVE owned[f] >= Users(memory, BootLevels, roots, op, f)
    <3> DEFINE e == Entries(BootTables, AllOf(BootLevels), f)
               v == Live(BootMappings, f)
    <3>1. f \in AllFrames /\ e \in Nat /\ v \in Nat
      BY <1>1, <1>4, AllOfType, EntriesType, LiveType
    <3>2. e <= IF f \in BootFrames \ {BootRoot} THEN 1 ELSE 0
      <4>1. BootEntries(f) = EntriesTo(BootTables, AllOf(BootLevels), f)
        BY DEF BootEntries, EntriesTo, AllOf, LinksTo, Linked
      <4>2. e = Cardinality(BootEntries(f))
        BY <4>1 DEF Entries
      <4> QED BY <4>2, BootTreeAssumption
    <3>3. v = IF f = BootRoot THEN 1 ELSE 0
      <4>1. CASE f = BootRoot
        <5>1. MappingsOf(BootMappings, f) = {Base}
          BY <4>1, BootFacts, MappingsAssumption DEF MappingsOf, BootMappings
        <5>2. Cardinality({Base}) = 1
          BY FS_Singleton
        <5> QED BY <4>1, <5>1, <5>2 DEF Live
      <4>2. CASE f # BootRoot
        <5>1. MappingsOf(BootMappings, f) = {}
          BY <4>2, <3>1, FramesFacts DEF MappingsOf, BootMappings
        <5>2. Cardinality({}) = 0
          BY FS_EmptySet
        <5> QED BY <4>2, <5>1, <5>2 DEF Live
      <4> QED BY <4>1, <4>2
    <3>4. Held(GuardsOf(op), f) = 0
      BY <1>0, IdleFacts, HeldNone
    <3>5. Users(memory, BootLevels, roots, op, f) = e + v + 0
      BY <1>0, <3>4 DEF Users
    <3>6. owned[f] = IF f \in BootFrames THEN 1 ELSE 0
      BY <1>0, <3>1
    <3>7. BootRoot \in BootFrames
      BY BootAssumption
    <3> HIDE DEF e, v
    <3>8. CASE f = BootRoot
      BY <3>1, <3>2, <3>3, <3>5, <3>6, <3>7, <3>8
    <3>9. CASE f # BootRoot /\ f \in BootFrames
      BY <3>1, <3>2, <3>3, <3>5, <3>6, <3>7, <3>9
    <3>10. CASE f \notin BootFrames
      BY <3>1, <3>2, <3>3, <3>5, <3>6, <3>7, <3>10
    <3> QED BY <3>8, <3>9, <3>10
  <2> QED BY <2>1 DEF Covers
<1>7. OpInv(memory, roots, current, op, BootLevels)
  BY <1>0 DEF OpInv
<1>8. Now(BootLevels)
  BY <1>2, <1>3, <1>5, <1>6, <1>7 DEF Now, Sound
<1> QED BY <1>8, InvIsNow
-----------------------------------------------------------------------------
\* LiveNodes, Guards and References() are the nodes, guards and users of the invariant.
LEMMA LiveNodesAre ==
    ASSUME NEW N, Now(N)
    PROVE  LiveNodes = AllOf(N) /\ Guards = GuardsOf(op) /\ \A f : References(f) = Users(memory, N, roots, op, f)
<1>1. N = NodeLevels(memory, TopsOf(roots, op))
  BY SoundLevels DEF Now
<1>2. LiveNodes = NodesBelow(TopsOf(roots, op))
  BY DEF LiveNodes, TopsOf, RootsOf, CopiesOf, LiveMappings, Depth
<1>3. NodesBelow(TopsOf(roots, op)) = AllOf(N)
  BY <1>1 DEF NodesBelow, AllOf
<1>4. Guards = GuardsOf(op)
  BY DEF Guards, GuardsOf, Depth
<1>5. ASSUME NEW f PROVE References(f) = Users(memory, N, roots, op, f)
  <2>1. Entries(memory, AllOf(N), f)
        = Cardinality({x \in LiveNodes \X Index :
              LET pte == memory[x[1]][x[2]] IN pte # None /\ ~pte.huge /\ pte.frame = f})
    BY <1>2, <1>3, Zenon DEF Entries, EntriesTo, LinksTo, Linked
  <2>2. Live(roots, f) = Cardinality({m \in LiveMappings : roots[m] = f})
    BY DEF Live, MappingsOf, LiveMappings
  <2>3. Held(GuardsOf(op), f) = Cardinality({k \in 1 .. Len(Guards) : Guards[k] = f})
    BY <1>4 DEF Held, Places
  <2> QED BY <2>1, <2>2, <2>3 DEF References, Users
<1> QED BY <1>2, <1>3, <1>4, <1>5

\* The invariant implies that memory is safe.
LEMMA InvIsSafe ==
    ASSUME TablesInv
    PROVE  MemoryIsSafe
<1>0. PICK N : Now(N)
  BY InvIsNow
<1>1. PageTablesTypeOK
  BY <1>0, SoundFacts DEF PageTablesTypeOK, Now, Contents, Roots
<1>2. ReferencesAreCovered
  BY <1>0, LiveNodesAre, SoundFacts DEF ReferencesAreCovered, Covers, Now
<1>3. NodesAreNotMapped
  <2>1. ASSUME NEW m \in Mappings, roots[m] # None, NEW page \in Pages, Leaf(m, page) # None
        PROVE  Leaf(m, page).frame \notin AllOf(N)
    <3>1. Leaf(m, page) = LeafIn(memory, roots[m], page)
      BY LeafIs
    <3>2. LeafIn(memory, roots[m], page).frame \notin AllOf(N)
      BY <1>0, <2>1, <3>1, LiveLeaf DEF Now
    <3> QED BY <3>1, <3>2
  <2> QED BY <1>0, <2>1, LiveNodesAre DEF NodesAreNotMapped, LiveMappings
<1> QED BY <1>1, <1>2, <1>3 DEF MemoryIsSafe

\* Whenever a failed duplicate() drops frame 0, frame 0 holds no page table entries.  This holds in particular when no
\* duplicate() runs out of memory.
FrameZeroIsUnharmed == [][DropsFrameZero => ZeroIsZero]_vars

\* Stuttering steps drop nothing.
LEMMA UnharmedStep ==
    ASSUME [DropsFrameZero => ZeroIsZero]_vars
    PROVE  DropsFrameZero => ZeroIsZero
<1>1. ASSUME UNCHANGED vars, DropsFrameZero PROVE FALSE
  BY <1>1 DEF vars, tableVars, DropsFrameZero, DroppingFrameZero
<1> QED BY <1>1

\* For any mappings, pages and depth of the tables, and through map() running out of memory: no frame
\* is released while it is in use, and no node of the page tables is mapped as a page.  The claim is about
\* behaviours in which no failed duplicate() drops a frame 0 that holds data; what such a drop does is not
\* claimed, it is the violation that DropsOnlyMappings finds.
THEOREM MemoryStaysSafe ==
    Spec /\ FrameZeroIsUnharmed => []MemoryIsSafe
<1>1. Init => TablesInv
  BY InitTables
<1>2. TablesInv /\ [Next]_vars /\ [DropsFrameZero => ZeroIsZero]_vars => TablesInv'
  <2> SUFFICES ASSUME TablesInv, [Next]_vars, [DropsFrameZero => ZeroIsZero]_vars PROVE TablesInv'
    OBVIOUS
  <2>1. Now(NowLevels) /\ (DropsFrameZero => ZeroIsZero)
    BY InvIsNow, UnharmedStep
  <2>2. KeptSound
    BY <2>1, StepKeeps, KeptIsSound
  <2> QED BY <2>2, InvIsNow
<1>3. TablesInv => MemoryIsSafe
  BY InvIsSafe
<1> QED BY <1>1, <1>2, <1>3, PTL DEF Spec, FrameZeroIsUnharmed

\* mapping.rs writes to nodes of page tables only: frame 0 stays empty if the boot loader leaves it empty, and then a
\* failed duplicate() does no harm.  (On a PC it holds data of the BIOS: see DropsOnlyMappings.)
THEOREM EmptyFrameZeroIsUnharmed ==
    ASSUME BootTables[FrameZero] = Zeroed
    PROVE  Spec => FrameZeroIsUnharmed
<1> DEFINE I == TablesInv /\ ZeroIsZero
<1>1. Init => I
  BY InitTables DEF Init, ZeroIsZero
<1>2. I /\ [Next]_vars => I'
  <2> SUFFICES ASSUME I, [Next]_vars PROVE I'
    OBVIOUS
  <2>1. Now(NowLevels)
    BY InvIsNow
  <2>2. KeptSound
    BY <2>1, StepKeeps, KeptIsSound
  <2>3. memory'[FrameZero] = memory[FrameZero]
    BY <2>1, StepStays, FramesFacts DEF OutsideStays
  <2> QED BY <2>2, <2>3, InvIsNow DEF ZeroIsZero
<1>3. I => (DropsFrameZero => ZeroIsZero)
  OBVIOUS
<1> QED BY <1>1, <1>2, <1>3, PTL DEF Spec, FrameZeroIsUnharmed
-----------------------------------------------------------------------------
\* An operation goes on as itself.
LEMMA KindStays ==
    ASSUME IsOp(op), NEW v, \/ op \in CopyOp /\ op' = [op EXCEPT !.stack = v]
                            \/ op \in DropOp /\ op' = [op EXCEPT !.stack = v]
    PROVE  op'.kind = op.kind
  BY DEF CopyOp, DropOp

\* A balanced step keeps the references exact.
LEMMA ExactStays ==
    ASSUME NEW N, Now(N), Kept(N), ReferencesAreExact
    PROVE  ReferencesAreExact'
<1>1. PICK N2 : /\ Sound(owned', memory', roots', current', op', N2)
                /\ Balanced(owned, memory, N, roots, op, owned', memory', N2, roots', op')
  BY DEF Kept
<1>2. \A f : References(f) = Users(memory, N, roots, op, f)
  BY LiveNodesAre
<1>3. \A f : References(f)' = Users(memory', N2, roots', op', f)
  <2>1. N2 = NodeLevels(memory', TopsOf(roots', op'))
    BY <1>1, SoundLevels
  <2>2. LiveNodes' = NodesBelow(TopsOf(roots, op))'
    BY DEF LiveNodes, TopsOf, RootsOf, CopiesOf, LiveMappings, Depth
  <2>3. NodesBelow(TopsOf(roots, op))' = AllOf(N2)
    BY <2>1 DEF NodesBelow, AllOf
  <2>4. Guards' = GuardsOf(op')
    BY DEF Guards, GuardsOf, Depth
  <2>5. ASSUME NEW f PROVE References(f)' = Users(memory', N2, roots', op', f)
    <3>1. Entries(memory', AllOf(N2), f)
          = Cardinality({x \in LiveNodes' \X Index :
                LET pte == memory'[x[1]][x[2]] IN pte # None /\ ~pte.huge /\ pte.frame = f})
      BY <2>2, <2>3, Zenon DEF Entries, EntriesTo, LinksTo, Linked
    <3>2. Live(roots', f) = Cardinality({m \in LiveMappings' : roots'[m] = f})
      BY DEF Live, MappingsOf, LiveMappings
    <3>3. Held(GuardsOf(op'), f) = Cardinality({k \in 1 .. Len(Guards') : Guards'[k] = f})
      BY <2>4 DEF Held, Places
    <3> QED BY <3>1, <3>2, <3>3 DEF References, Users
  <2> QED BY <2>5
<1>4. ASSUME NEW f \in Ram PROVE owned'[f] = Users(memory', N2, roots', op', f)
  <2> DEFINE u == Users(memory, N, roots, op, f)
             u2 == Users(memory', N2, roots', op', f)
  <2>1. owned \in [AllFrames -> Nat] /\ owned' \in [AllFrames -> Nat] /\ N \in [Levels -> SUBSET AllFrames]
        /\ N2 \in [Levels -> SUBSET AllFrames] /\ IsOp(op) /\ IsOp(op')
    BY <1>1, SoundFacts DEF Now
  <2>2. u \in Nat /\ u2 \in Nat /\ owned[f] \in Nat /\ owned'[f] \in Nat
    BY <2>1, UsersType, FramesFacts
  <2>3. owned[f] = u
    BY <1>2 DEF ReferencesAreExact
  <2>4. owned'[f] + u = owned[f] + u2
    BY <1>1 DEF Balanced
  <2> HIDE DEF u, u2
  <2>5. owned'[f] = u2
    BY <2>2, <2>3, <2>4
  <2> QED BY <2>5 DEF u2
<1> QED BY <1>3, <1>4 DEF ReferencesAreExact

\* No operation leaks a frame or releases one twice, as long as duplicate() does not run out of
\* memory half way (it leaks the finished nodes then) and no failed duplicate() drops a frame 0 that holds
\* data: the owners of each frame are exactly the entries, mappings and guards that refer to it.
THEOREM ReferencesStayExact ==
    Spec /\ ReferencesAreExact /\ [][~DuplicateFails]_vars /\ FrameZeroIsUnharmed
      => [](ReferencesAreExact /\ MemoryIsSafe)
<1> DEFINE I == TablesInv /\ ReferencesAreExact
<1>1. Init /\ ReferencesAreExact => I
  BY InitTables
<1>2. I /\ [Next]_vars /\ [~DuplicateFails]_vars /\ [DropsFrameZero => ZeroIsZero]_vars => I'
  <2> SUFFICES ASSUME I, [Next]_vars, [~DuplicateFails]_vars, [DropsFrameZero => ZeroIsZero]_vars PROVE I'
    OBVIOUS
  <2>1. Now(NowLevels) /\ (DropsFrameZero => ZeroIsZero)
    BY InvIsNow, UnharmedStep
  <2>2. ~DuplicateFails
    <3>1. ASSUME DuplicateFails, UNCHANGED vars PROVE FALSE
      <4>1. op' = op /\ op'.kind = "unwind" /\ op.kind = "duplicate"
        BY <3>1 DEF DuplicateFails, Duplicating, vars, tableVars
      <4> QED BY <4>1
    <3> QED BY <3>1
  <2>3. Kept(NowLevels)
    BY <2>1, <2>2, StepKeeps
  <2>4. TablesInv'
    BY <2>3, KeptIsSound, InvIsNow
  <2>5. ReferencesAreExact'
    BY <2>1, <2>3, ExactStays
  <2> QED BY <2>4, <2>5
<1>3. I => ReferencesAreExact /\ MemoryIsSafe
  BY InvIsSafe
<1> QED BY <1>1, <1>2, <1>3, PTL DEF Spec, FrameZeroIsUnharmed
=============================================================================
