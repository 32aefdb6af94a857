-------------------------------- MODULE Disk --------------------------------
(***************************************************************************)
(* The driver of ATA disks, kernel/src/fs/disk.rs, over a channel with two *)
(* drives (external).  One client calls the driver, under the lock of the  *)
(* block cache.  The drives share the registers of the channel: the status *)
(* that wait_ready() reads is the one of the drive selected last.          *)
(***************************************************************************)
EXTENDS Integers, Sequences, FiniteSets

CONSTANTS DriveSectors, \* per drive: how many sectors it has
          DiskValues,   \* what is written to a sector; 0 is its first content
          MaxCalls      \* bound on the calls of a behaviour

Drives == {0, 1}
ASSUME DiskConstants ==
    DriveSectors \in [Drives -> Nat \ {0}] /\ DiskValues \subseteq Nat \ {0} /\ MaxCalls \in Nat

VARIABLES drive,    \* per drive: [busy, error, command, at, left, cache, media]
          selected, \* drive of the last write to the device register
          call,     \* the driver's call: [pc, op, disk, first, len, left, value, got, result]
          calls,    \* how many calls there were
          possible  \* per drive and sector: what it may hold, given the results of the calls

diskVars == <<drive, selected, call, calls, possible>>

Sectors(d) == 0 .. DriveSectors[d] - 1
Garbage == -1
AtaMaxCount == 256 \* what a sector count of 0 means
NoCall == [pc |-> "idle", op |-> "none", disk |-> 0, first |-> 0, len |-> 0, left |-> 0,
           value |-> 0, got |-> <<>>, result |-> "none"]

\* Disk::new() of both disks of the channel, which the firmware left idle.
DiskInit ==
    /\ drive = [d \in Drives |-> [busy |-> FALSE, error |-> FALSE, command |-> "none", at |-> 0, left |-> 0,
                                  cache |-> [s \in Sectors(d) |-> 0], media |-> [s \in Sectors(d) |-> 0]]]
    /\ selected \in Drives
    /\ call = NoCall
    /\ calls = 0
    /\ possible = [d \in Drives |-> [s \in Sectors(d) |-> {0}]]

-----------------------------------------------------------------------------
(* The drive *)

\* Writing the command register aborts what the drive was doing and clears its error.
Commanded(d, command, at, count) ==
    [drive EXCEPT ![d] = [drive[d] EXCEPT !.busy = TRUE, !.error = FALSE, !.command = command,
                                          !.at = at, !.left = count]]

\* A busy drive gets ready: with the data of the next sector, or for it, or with an error that
\* stays until the next command.
DriveReady(d) ==
    /\ drive[d].busy
    /\ LET media == IF drive[d].command = "flush" THEN drive[d].cache ELSE drive[d].media
       IN drive' = [drive EXCEPT ![d] = [drive[d] EXCEPT !.busy = FALSE, !.media = media]]
    /\ UNCHANGED <<selected, call, calls, possible>>

DriveFails(d) ==
    /\ drive[d].busy
    /\ drive' = [drive EXCEPT ![d] = [drive[d] EXCEPT !.busy = FALSE, !.error = TRUE, !.command = "none",
                                                      !.left = 0, !.cache = drive[d].media]]
    /\ UNCHANGED <<selected, call, calls, possible>>

\* A sector goes through the data register.
HasData(command) ==
    drive[selected].command = command /\ ~drive[selected].busy /\ drive[selected].left > 0
Transferred(cache) ==
    LET d == drive[selected]
    IN [drive EXCEPT ![selected] = [d EXCEPT !.cache = cache, !.at = d.at + 1, !.left = d.left - 1,
                                             !.busy = call.op = "write" \/ d.left > 1]]

-----------------------------------------------------------------------------
(* The driver *)

GoOn(pc) == call' = [call EXCEPT !.pc = pc]
Finish(result) == call' = [call EXCEPT !.pc = "done", !.result = result]

\* pio_read(), pio_write(), flush() and block_count() begin; all of them wait first.
CallDisk(op, d, first, len, v) ==
    /\ call.pc = "idle" /\ calls < MaxCalls
    /\ first + len <= DriveSectors[d] /\ len < AtaMaxCount
    /\ calls' = calls + 1
    /\ call' = [NoCall EXCEPT !.pc = "wait", !.op = op, !.disk = d, !.first = first, !.len = len, !.left = len, !.value = v]
    /\ possible' = IF op # "write" THEN possible
                   ELSE [possible EXCEPT ![d] = [s \in Sectors(d) |->
                            @[s] \cup (IF s \in first .. first + len - 1 THEN {v} ELSE {})]]
    /\ UNCHANGED <<drive, selected>>

\* wait_ready(): the status of the selected drive, whichever that is, until the timeout.
WaitReadyIgnoringErrors(next) ==
    \/ ~drive[selected].busy /\ GoOn(next)
    \/ drive[selected].busy /\ Finish("Timeout")
WaitReady(next) ==
    \/ /\ ~drive[selected].busy
       /\ IF drive[selected].error THEN Finish("Medium") ELSE GoOn(next)
    \/ drive[selected].busy /\ Finish("Timeout")

DriverWaits(pc, next) ==
    /\ call.pc = pc
    /\ WaitReady(next)
    /\ UNCHANGED <<drive, selected, calls, possible>>

\* send_rw_command() after its wait: write_sector_number() also selects the drive.
SendRwCommand ==
    /\ call.pc = "send" /\ call.op \in {"read", "write"}
    /\ selected' = call.disk
    /\ drive' = Commanded(selected', call.op, call.first, IF call.len = 0 THEN AtaMaxCount ELSE call.len)
    /\ IF call.len = 0 THEN Finish("Ok") ELSE GoOn("wait sector")
    /\ UNCHANGED <<calls, possible>>

\* send_command() after its first wait: FLUSH_CACHE and READ_NATIVE_MAX_ADDRESS.
SendCommand ==
    /\ call.pc = "send" /\ call.op \in {"flush", "count"}
    /\ selected' = call.disk
    /\ drive' = Commanded(selected', call.op, DriveSectors[selected'] - 1, 0)
    /\ GoOn("wait command")
    /\ UNCHANGED <<calls, possible>>

\* The loops of pio_read() and pio_write(): after the wait, one sector; nobody asks for DRQ.
NextSector(got) ==
    call' = [call EXCEPT !.pc = IF call.left = 1 THEN "done" ELSE "wait sector", !.left = @ - 1,
                         !.got = got, !.result = IF call.left = 1 THEN "Ok" ELSE @]

PioRead ==
    /\ call.pc = "transfer" /\ call.op = "read"
    /\ IF HasData("read")
       THEN /\ NextSector(Append(call.got, drive[selected].cache[drive[selected].at]))
            /\ drive' = Transferred(drive[selected].cache)
       ELSE NextSector(Append(call.got, Garbage)) /\ UNCHANGED drive
    /\ UNCHANGED <<selected, calls, possible>>

PioWrite ==
    /\ call.pc = "transfer" /\ call.op = "write"
    /\ NextSector(<<>>)
    /\ drive' = IF HasData("write")
                THEN Transferred([drive[selected].cache EXCEPT ![drive[selected].at] = call.value]) ELSE drive
    /\ UNCHANGED <<selected, calls, possible>>

\* The end of flush() and block_count().
CommandDone ==
    /\ call.pc = "command done"
    /\ call' = [call EXCEPT !.pc = "done", !.result = "Ok",
                            !.got = IF call.op = "count" THEN <<drive[selected].at + 1>> ELSE <<>>]
    /\ UNCHANGED <<drive, selected, calls, possible>>

\* The client gets the result: after Ok the written sectors hold the value.
CallReturns ==
    /\ call.pc = "done"
    /\ call' = NoCall
    /\ possible' = IF call.op = "write" /\ call.result = "Ok"
                   THEN [possible EXCEPT ![call.disk] = [s \in Sectors(call.disk) |->
                            IF s \in call.first .. call.first + call.len - 1 THEN {call.value} ELSE @[s]]]
                   ELSE possible
    /\ UNCHANGED <<drive, selected, calls>>

DiskNext ==
    \/ \E d \in Drives : DriveReady(d) \/ DriveFails(d)
    \/ \E d \in Drives : \E first, len \in 0 .. DriveSectors[d] :
         \/ CallDisk("read", d, first, len, 0)
         \/ \E v \in DiskValues : CallDisk("write", d, first, len, v)
    \/ \E d \in Drives, op \in {"flush", "count"} : CallDisk(op, d, 0, 0, 0)
    \/ DriverWaits("wait", "send") \/ DriverWaits("wait sector", "transfer") \/ DriverWaits("wait command", "command done")
    \/ SendRwCommand \/ SendCommand \/ PioRead \/ PioWrite \/ CommandDone \/ CallReturns

DiskSpec == DiskInit /\ [][DiskNext]_diskVars

-----------------------------------------------------------------------------
(* Properties *)

\* What a successful call says is so, whatever failed or timed out before it and whichever drive
\* was used last: pio_read() returns what its sectors hold, after flush() every written sector is
\* on the medium, and block_count() has the size of its own disk.
SuccessIsHonest ==
    call.pc = "done" /\ call.result = "Ok" =>
        LET d == call.disk IN
        /\ call.op = "read" => /\ Len(call.got) = call.len
                               /\ \A i \in 1 .. call.len : call.got[i] \in possible[d][call.first + i - 1]
        /\ call.op = "flush" => \A s \in Sectors(d) : drive[d].media[s] \in possible[d][s]
        /\ call.op = "count" => call.got = <<DriveSectors[d]>>

\* A drive works on a command only while it is the selected one, so that the status that
\* wait_ready() reads is never of a drive that does something else.
OnlySelectedDriveWorks == \A d \in Drives : drive[d].busy => d = selected

\* A call of Disk that returns Ok has done what it says, on the drive that it was asked for.
DiskIsHonest == SuccessIsHonest /\ OnlySelectedDriveWorks
=============================================================================
