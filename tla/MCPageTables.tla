---------------------------- MODULE MCPageTables ----------------------------
(* Model checking of the page tables: two levels with three entries in a     *)
(* node.  The boot loader gives the kernel a root with one leaf table, which *)
(* maps one page, and a huge page.  The frames that are free at the start    *)
(* are interchangeable.                                                      *)
EXTENDS PageTables, TLC

CONSTANTS KernelRoot, KernelTable, KernelPage, Zero, Devices, FreeAtBoot

MCBootFrames == {KernelRoot, KernelTable, KernelPage}
MCRam == MCBootFrames \cup FreeAtBoot
MCFrames == MCRam \cup {Zero} \cup Devices

Table(frame) == [frame |-> frame, flags |-> {"WRITABLE"}, huge |-> FALSE]
Huge == [frame |-> Zero, flags |-> {"WRITABLE"}, huge |-> TRUE]

MCBootTables == [f \in MCFrames |-> [i \in 0 .. 2 |->
    CASE f = KernelRoot /\ i = 1 -> Table(KernelTable)
      [] f = KernelRoot /\ i = 2 -> Huge
      [] f = KernelTable /\ i = 0 -> Table(KernelPage)
      [] OTHER -> None]]

VirtualPage(root, leaf) == [l \in 0 .. 1 |-> IF l = 1 THEN root ELSE leaf]
MCPages == {VirtualPage(0, 0), VirtualPage(1, 0)}
MCPageCached == {VirtualPage(0, 0)}
MCPagesHuge == MCPages \cup {VirtualPage(2, 0)}

\* What frames hold besides the nodes of page tables is never read.
MCView == <<owned, roots, current, tlb, op, [f \in LiveNodes |-> memory[f]]>>
MCSymmetry == Permutations(FreeAtBoot)
=============================================================================
