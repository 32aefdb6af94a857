-------------------------------- MODULE Pci --------------------------------
(***************************************************************************)
(* pci/src/{bar, device, config_space}.rs: how the Base Address Registers  *)
(* of a PCI device are read.  The size of a region is found by writing     *)
(* ones into its register, which must not happen while the device decodes  *)
(* the addresses it holds.                                                 *)
(*                                                                         *)
(* A register has RegisterValues values, of which 2 or 4 low bits tell the *)
(* kind of the region.  The device itself is external: a sequence of       *)
(* regions [kind, size, address, prefetchable], one or two registers each. *)
(***************************************************************************)
EXTENDS Integers, Sequences, SequencesExt

CONSTANTS RegisterValues   \* 2^32
ASSUME RegisterAssumption == RegisterValues % 16 = 0

Ones == RegisterValues - 1
Rounded(v, size) == v - (v % size)

-----------------------------------------------------------------------------
(* The device *)

KindBits(r) ==
    CASE r.kind = "none" -> 0
      [] r.kind = "port" -> 1
      [] OTHER -> (IF r.kind = "memory64" THEN 4 ELSE 0) + (IF r.prefetchable THEN 8 ELSE 0)

\* Which region a register belongs to, and whether it is the upper half of it.
RegisterOwners(regions) ==
    FoldLeft(LAMBDA owners, r : owners \o (IF r.kind = "memory64"
                 THEN <<[region |-> r, upper |-> FALSE], [region |-> r, upper |-> TRUE]>>
                 ELSE <<[region |-> r, upper |-> FALSE]>>), <<>>, regions)

\* What a register holds after v was written into it: the bits below the size are fixed.
Stored(owner, v) ==
    LET r == owner.region
        low == IF r.size >= RegisterValues THEN 0 ELSE Rounded(v, r.size) IN
    CASE r.kind = "none" -> 0
      [] owner.upper -> IF r.size <= RegisterValues THEN v ELSE Rounded(v, r.size \div RegisterValues)
      [] OTHER -> low + KindBits(r)

\* A device with its regions at their addresses.
PoweredOn(regions, command) ==
    LET owners == RegisterOwners(regions) IN
    [owners |-> owners, command |-> command, exposed |-> FALSE,
     bars |-> [i \in DOMAIN owners |->
        Stored(owners[i], IF owners[i].upper THEN owners[i].region.address \div RegisterValues
                          ELSE owners[i].region.address % RegisterValues)]]

\* ConfigSpace::write() to these Base Address Registers.
WriteBars(d, values) ==
    [d EXCEPT !.bars = [i \in DOMAIN @ |->
                            IF i \in DOMAIN values THEN Stored(d.owners[i], values[i]) ELSE @[i]],
              !.exposed = @ \/ d.command % 4 # 0]
-----------------------------------------------------------------------------
(* Bar *)

IsPort(v) == v % 2 = 1
IsWide(v) == ~IsPort(v) /\ (v \div 2) % 4 = 2

BarRegisters(v, i) == IF IsWide(v) THEN {i, i + 1} ELSE {i}

\* Bar::address_size() turns decoding off and writes ones into the registers of a region, reads
\* them, then restores the registers and the command.
ProbedDecoding(device, registers) == WriteBars(device, [i \in registers |-> Ones])
Probed(device, registers) ==
    WriteBars([device EXCEPT !.command = Rounded(@, 4)], [i \in registers |-> Ones])
Restored(probed, device, registers) ==
    [WriteBars(probed, [i \in registers |-> device.bars[i]]) EXCEPT !.command = device.command]

\* What registers with the flags of v hold apart from the flags.
BarAddress(v, bars, i) ==
    Rounded(bars[i], IF IsPort(v) THEN 4 ELSE 16)
        + (IF IsWide(v) THEN bars[i + 1] * RegisterValues ELSE 0)

\* The result of Bar::address_size(); !mask + 1 of a mask of zeros overflows.
AddressSize(device, i, probed) ==
    LET v == device.bars[i]
        mask == BarAddress(v, probed.bars, i) IN
    [device |-> Restored(probed, device, BarRegisters(v, i)),
     panic |-> mask = 0,
     size |-> (IF IsWide(v) THEN RegisterValues * RegisterValues ELSE RegisterValues) - mask,
     address |-> BarAddress(v, device.bars, i)]

NoBar == [kind |-> "none", size |-> 0, address |-> 0, prefetchable |-> FALSE]

BarOf(v, found) ==
    [bar |-> [kind |-> IF IsPort(v) THEN "port" ELSE IF IsWide(v) THEN "memory64" ELSE "memory32",
              size |-> found.size, address |-> found.address,
              prefetchable |-> ~IsPort(v) /\ (v \div 8) % 2 = 1],
     device |-> found.device, panic |-> found.panic]

\* Bar::new(): a register of zeros is no region at all.
NewBar(device, i) ==
    LET v == device.bars[i] IN
    IF v = 0 THEN [bar |-> NoBar, device |-> device, panic |-> FALSE]
    ELSE BarOf(v, AddressSize(device, i, Probed(device, BarRegisters(v, i))))

\* Bar::size(): how many registers the region occupies.
BarSize(bar) == IF bar.kind = "memory64" THEN 2 ELSE 1

\* Device::read_bars::<N>() of a device whose registers end at `last'.
BarRead(s, new) ==
    [device |-> new.device, panic |-> new.panic, bars |-> Append(s.bars, new.bar),
     offset |-> s.offset + BarSize(new.bar)]
ReadBars(device, n, last) ==
    LET step(s, i) ==
            IF s.offset > last \/ s.panic THEN s ELSE BarRead(s, NewBar(s.device, s.offset))
    IN FoldLeft(step, [device |-> device, panic |-> FALSE, bars |-> <<>>, offset |-> 1],
                [i \in 1 .. n |-> i])
=============================================================================
