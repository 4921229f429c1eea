# Verification of the CXL device firmware

This directory holds TLA+ models of the firmware in `src/`, the TLC
configurations that check them, and proofs about them for TLAPS. The firmware
runs on one soft core beside a CXL memory device. It answers two kinds of
mailbox commands (from the host driver and from the fabric manager, FM), keeps
an event log that an error interrupt writes to, and configures the address
translation of the logical devices (LDs) the memory is split into.

1. [The system](#1-the-system)
2. [The modules](#2-the-modules)
3. [The runs](#3-the-runs)
4. [Fairness](#4-fairness)
5. [The proofs](#5-the-proofs)
6. [What the code does otherwise than it says](#6-what-the-code-does-otherwise-than-it-says)
7. [What is not modelled](#7-what-is-not-modelled)
8. [Plan](#8-plan)

How to run: `tlc -config X.cfg M` for the rows of section 3, `tlapm M.tla` for
the modules of section 5.

## 1. The system

### Inventory

| Component | Source | State | Operations | Modules |
|---|---|---|---|---|
| Main loop and dispatch | `main.c`, `common_tool.c` | none of its own | polls the doorbell, hands FM opcodes to the FM handler and all others to the host handler, then sets a bit of the device status register | in `EventLog`, `HostMailbox`, `FmMailbox` |
| Host mailbox | `common_mbox_function.c` | doorbell, command, status and payload registers | read command and payload, execute, write status, command, payload, clear doorbell | `HostMailbox`, `HostCalls` |
| FM mailbox | `mbox_function.c` | as above, with the background operation in both status halves | get and set allocation, set granularity, set LD id, enable and disable | `FmMailbox` |
| Resource manager | `resource_manager_config.c`, `node_list.c` | block lists per LD, free list, two BRAM banks, LD registers, granularity | `resour_mgt_exec_set_cmd`, `set_register_all`, `init_after_change_granularity` | `ResourceManager` |
| Dynamic capacity extents | `cxl_dcd.c` | offers, accepted extents, free extents | Add Dynamic Capacity Response, Release Dynamic Capacity | `DcdExtents`, `CapacityLedger` |
| Dynamic capacity tags and additions | `cxl_dcd.c` | tag reference table, extent lists by host | initiate add, add and remove reference | `DcdTags`, `SharedCapacity` |
| Dynamic capacity reports | `cxl_dcd.c` | none of their own | Get Extent List, Get Host Region Configuration, Get Region Extent Lists, List Tags, all in pages | `DcdReports` |
| Dynamic capacity configurations | `cxl_dcd.c` | `g_dcd_info`, host configurations | Get Configuration, Get Info, Set Region Configuration, Initiate Release | none (section 7) |
| Event log | `cxl_events.c` | one ring per severity, read cursor, overflow count, status bits | enqueue, get records, clear records | `EventLog`, `EventQueue` |
| Interrupts | `cxl_interrupt.c` | error registers | the error handler enqueues a failure event | `EventLog` |
| Command and debug logs | `cxl_log.c` | two rings | append, get supported logs, get log | `CommandLog`, `HostMailbox` |
| Timestamp | `cxl_timestamp.c` | `time_stamp` | get, set | `HostMailbox` |
| Firmware transfer | `cxl_fw.c` | transfer offset, slots | Transfer FW, with its actions initiate, continue, end, full and abort; not dispatched by `mailbox_execute_cmd` yet | `FwTransfer` |
| Identify, configuration, register and BRAM access | `cxl_identify.c`, `config_manager.c`, `config_pl.c`, `ipc_driver.c`, `resource_manager_io.c` | memory-mapped words | single reads and writes | as parts of actions |
| Demonstrations and tests | `example.c`, `test_mbox_cmd.c`, `platform.c` | none | not part of the firmware's logic | none |

### Who touches what at the same time

* The main loop runs one mailbox command to its end before it looks at the
  doorbell again, so two commands never interleave with each other. What
  becomes visible of a command before its end does: the registers and the
  block map are read by others at every moment.
* The error interrupt (`err_report_intr_handler`) can run between any two
  instructions of the main loop; nothing disables it. It writes the ring of
  the failure severity and the device status register, which the main loop
  also writes.
* The address translation hardware reads LD registers and block map while the
  resource manager rewrites them one word at a time; hosts write to the memory
  they are mapped to meanwhile.
* A block that is taken from an LD is zeroed by the CDMA. The handler polls the
  CDMA's status without a bound (`cdma_trans_exe`), the only place where the
  firmware waits for something; the main loop stands still as long.
* Host and FM write their mailbox registers as soon as they see the doorbell
  clear.
* All state is volatile. Nothing is persisted, so there is no crash recovery
  to get right; the initial states are those of `global_init`.

### What makes each component correct

* *Extents.* Every address that was offered is either held by the host or free,
  never both; no address is accepted twice; the counters agree with the
  entries; an offer that is closed stays closed; nothing is written behind
  the two arrays. The hard part: partially refused responses that stay
  recorded, answers spread over several responses, and full lists half way
  through a command.
* *Tags.* Capacity exists exactly as long as a host or the FM uses it; the table
  of references stays within its bounds and counts what was added and not
  removed. The hard part: the last host and the last reference may leave in
  either order, through different commands, and a refused request leaves an
  entry behind.
* *Reports.* A list is read in pages and may change between two of them; a
  reader that follows the generation number gets a list that existed, and gets
  to its end.
* *Firmware transfer.* A slot whose transfer is reported as complete holds the
  package, although one offset is the only memory of all transfers.
* *Resource manager.* No two LDs reach the same memory, not even during a
  command; the map says what the lists say; a block is zeroed before it goes to
  another LD, and only what a host writes after that comes through; the map in
  use is not written by a command whose map fits into a bank. The hard part: `remove_list`
  and `insert` leave stale pointers that only some sequences of commands run into.
* *FM mailbox.* A clear doorbell means a whole answer to the question asked,
  with the background operation over; what GET says is what the lists hold.
* *Event log.* A queue: nothing is overwritten, lost without being counted,
  sent out of order or never served, with an interrupt between any two accesses.
  Section 6 lists the two accesses where the code does not achieve this.
* *Host mailbox and logs.* To a host that looks at the registers only when the
  doorbell is clear a command is a call, carried out once; the log is the
  sequence of the last commands; a read of it returns the bytes asked for.

`PROJECT.json` lists the hazards line by line with the properties that would
catch each one.

## 2. The modules

Common conventions: a definition marked "mutant" is a faulty variant of the one
that follows it, kept to show that a property notices the fault. The constant
`Liberties` is the set of ways in which the environment (host or FM) departs
from an orderly one. The empty set is an environment that stays within what
the firmware is made for; each element opens one kind of behaviour the code accepts too,
and the runs say which properties survive it.
An `MC` module gives the constants of its component their values for TLC.

### DcdExtents, CapacityLedger

`accepted` is how many entries of `g_accepted_extents` hold an extent and
`acceptedCount` is `g_accepted_extent_count`, two variables since the counter
is what the code's loops run up to. `free`, `freeCount`, `processed` and
`expected` are the other globals of `cxl_dcd.h`. The arrays are modelled by
their contents because no decision depends on the order of the entries; the
order of the host's *list* is kept, the gaps depend on it.

| Action | Code |
|---|---|
| `AddResponse(list, more)` | `mailbox_add_dynamic_capacity_response`: check and record entry by entry; the first entry refused ends the command with the earlier ones recorded; without `more`, reclaim and close |
| `ReclaimUnusedCapacity` | `reclaim_unused_capacity`: the gaps before, between and behind the entries of the closing list, as far as the free list has room |
| `Release(list)` | `mailbox_release_dynamic_capacity`: validate all, then remove and free one by one until the free list is full |

Addresses are numbers modulo `DpaSpace` (2^64): `End` wraps as the code's sum
does. An extent of which the end wraps (`Wraps`) passes the check against its offer
whatever else it covers; `AcceptedDisjoint` and `AcceptedWithinOffer` speak of the others. Offers are a constant: `init_pending_events`, which would make them, is
called a placeholder and never called.

`CapacityLedger` is the abstract specification: settling an offer splits it
between `held` and `pool`, giving back moves from `held` to `pool`. The
refinement maps `held` to the addresses of the accepted extents and `pool` to
those of the free list.

### ResourceManager

Blocks are indices of `pbpools`; `next`, `used`, `head`, `tail`, `count` are
the fields of nodes and headers with their stale values kept (`Move` is
`remove_list` followed by `insert`). `bram` is the block map of two banks, `reg` the LD registers, `data` who wrote each 256 MB unit last, `bg` the background bit, `zeroing`
the unit the CDMA is at work on. The rest (`pc`, `req`, `ld`, `left`, `src`, `dst`) are
locals of the command. `late` is not in the code: the units that a host wrote to when their
block had already left its LD's list.

| Action | Code |
|---|---|
| `SetAllocation(r)`, `Begin` | entry of `resour_mgt_exec_set_cmd` |
| `AllocateLd`, `CopyMap` | head of the loop over LDs and `cp_config_to_standby`, which also runs on behind the end of a bank |
| `AddBlock`, `RemoveBlock` | one turn of `add_pb_into_ldlist`, `remove_pb_from_ldlist`; the latter sets the CDMA to work |
| `ZeroBlock` | the CDMA ends its transfer and the handler's polling sees it (`samt_clean_mld_block`, `cdma_trans_exe`) |
| `FinishLd`, `UpdateBackground` | end of a turn, `mbox_update_bg_status` with its division by `logic_device_number` |
| `WriteRegister`, `DropLd`, `ClearRegister` | `set_register_all`, one register per step |
| `Finish` | `pingpong_para` and `logic_device_number` |
| `SetGranularity(g)` | `init_after_change_granularity`: all lists anew, then the rescaled allocation |
| `HostWrite(l)` | environment: the host of an LD writes, at any time, to all memory it reaches |

No step checks the sum of a request, as no line of the code does: a map that is longer than a
bank (256 entries) is written on into what follows. `BramSize` bounds the BRAM of the
model; requests that leave it are not in the runs.

### FmMailbox

Extends `ResourceManager` with `samt_fm_mailbox_handler`. `stage` is the
handler's position: `ReadCall`, `Convert` (the switch of
`fm_mailbox_cmd_conversion`: `Get`, `Set`, `SetGran`, `SetDisable`, `SetId`),
`Work` (a step of the resource manager, with the status register's upper half
following the background bit), then `SetStatus`, `SendCommand`, `SendPayload`,
`ClearDoorbell` in the order of the code. `Ask` is the FM, with any of `Calls`. `Engine` is
the CDMA, which works while the handler polls it. Two variables are
not in the code: `call`, what the FM asked last, and `short`, whether
`add_pb_into_ldlist` has returned -1 since the last allocation (its caller ignores it).

### EventLog, EventQueue

One severity, FAILURE, the only one that is generated outside of tests. A step of the main loop is
one access to what it shares with the interrupt: `BeginGet`/`SizeOfGet`/
`Transfer` are `mailbox_get_event_records`, `BeginClear`/`SizeOfClear`/`StartClear`/
`Dequeue`/`Reset`/`UnsetStatus` are `mailbox_clear_event_records` with
`dequeue` (clear-all passes the same test of the number against the size first), `ReadStatus`/`WriteStatus` the loop in `main`. `queueSize` compares
`front` with `rear` and reads `rear` again, so it is two steps. `Reset(s)`
stores -1 to one of the three pointers; the order is open, since the stores are plain
and nothing in C fixes their order for an observer in an interrupt.
`ErrorReport` is the whole interrupt. `InterruptAt` is the set of places where
it may come: `AnyPlace` is the code, `SafePlaces` is the code if it disabled
the interrupt for the three stores of the reset. The accesses to the status
register are not excepted anywhere.

`EventQueue` is the abstract specification: a bounded queue with a read cursor.

### CommandLog, HostMailbox, HostCalls

`CommandLog` is the ring of `cxl_log.c` (`AppendEntry` is `cxl_gen_vdl`) and
the copying from it (`GetLogData`), which treats bytes and entries as the code
does. Offset and length are signed: a negative offset is refused, a negative length is not, and
goes to `memcpy`; what is copied then is undefined (`Undefined`). Sums of the two are taken not to
overflow. Comments of `cxl_log.h` and `cxl_log.c` speak of CEL entries where the code appends to
the other log, the VDL; the model follows the code. Both logs are written by the same code; the one of supported commands
is filled with nine entries at start-up (36 bytes of 128 entries' room, so that
reading it whole is in the regime that works) and then never changes, so the
debug log is the one that is modelled.

`HostMailbox` is `samt_mailbox_handler`: `ReadCommand`, `Execute`, `SetStatus`,
`SendCommand`, `SendPayload`, `ClearDoorbell`, one action per write that the
host can see. `Execute` is `mailbox_execute_cmd` for the commands of the
timestamp and the logs and for all opcodes that are not in its switch; the
commands of the other components have modules of their own, in which posting
and replying are part of their actions.

`HostCalls` is the abstract specification: `Post`, `Perform`, `Respond`, and a
log that is a plain sequence. The refinement maps a command to `call` until it
is carried out, to `result` until the doorbell is cleared, and to `answer` then.

### DcdTags, SharedCapacity

`table` is `g_referenced_tags` up to `g_referenced_tag_count`, in order, since
removing an entry moves the ones behind it. `held` and `size` stand for
`g_host_extent_lists` and the regions, which the code uses and the repository
does not declare; `adds` are additions that no host has answered yet. `owed` is not in
the code: how many references the FM has added and not removed. `MaxPending` is a bound of the model.

| Action | Code |
|---|---|
| `InitiateAdd`, `InitiateShare` | `mailbox_initiate_dynamic_capacity_add` with the policies FREE or CONTIGUOUS, which look at the room only, and ENABLE_SHARED_ACCESS, which checks nothing (`cxl_dcd.c:734` is an empty branch); any tag, any host |
| `AddReference(t)` | `mailbox_dynamic_capacity_add_reference`: find the entry or make one, refuse what is not sharable (the entry stays), count up |
| `RemoveReference(t)` | `mailbox_dynamic_capacity_remove_reference`: count down, and free the capacity and the entry when nobody is left |
| `Accept`, `Refuse`, `GiveBack` | the hosts (environment) |

`SharedCapacity` is the abstract specification: a set of users for each tag, who
bring capacity into being, join and leave; the last one takes it away. The
refinement maps `users` to the holders and, while `owed` is positive, the FM.

### DcdReports

The four commands that report a list in pages are operators that return an
answer (`GetExtentList`, `GetRegionExtentLists`, `GetHostRegions`, `ListTags`, with
what they have in common in `PageLength`, `Items` and `Page`). `Change` changes the
list and its generation number, `Read` is one command of a reader that asks for
the header, then for pages, halves its request when the device answers that it
is too large, and starts again when the list has changed. The differences
between the four handlers are kept: which start index is refused, whether
there is a generation number, what the header alone returns.

### FwTransfer

`mailbox_transfer_fw` with `transfer_offset` and the memory of the slots. The
handler's actions are `TransferPart` (initiate, continue, end), `TransferFull` and
`TransferAbort`; the host's actions `SendFull`, `SendFirst`, `SendPiece`, `StartAgain`,
`GiveUp` call them, so that pieces come late, twice, out of order, or not at all.
`installed` is not in the code: what the host has been told is in a slot.

### MCDevice

Composes `DcdExtents`, `DcdTags`, `DcdReports`, `FwTransfer` and `EventLog` for TLC. The
mailbox runs one command at a time and the five groups share no variable, so
that the steps of one group are stuttering steps of the others; a property of
one group holds of all interleavings if it holds of the group alone. `subject` is
the group a behaviour exercises, which keeps the number of states the sum and not
the product of the five.

### Counting, and the proof modules

`Counting` holds lemmas about ranks in finite sets of numbers and about sums of
functions over finite sets (section 5). `ResourceManager_proofs`, `FmMailbox_proofs`,
`DcdExtents_proofs`, `DcdTags_proofs`, `Transfers_proofs` (of `DcdReports` and `FwTransfer`),
`EventLog_proofs` and `HostMailbox_proofs` hold the theorems.

## 3. The runs

State counts are of distinct states.

| Run | Module, config | Environment | Properties | Result |
|---|---|---|---|---|
| `dcd_any_host` | `MCDcdExtents`, `DcdAnyHost` | any host: partial, refused, unordered lists, an extent that wraps | `TypeOK`, `AcceptedDisjoint`, `AcceptedWithinOffer`, `CountMatchesEntries`, `LostOnlyWhenFull`, `ClosedOfferGainsNothing` | hold, 30 581 |
| `device_orderly` | `MCDevice`, `DeviceOrderly` | one complete, ordered answer per offer; an orderly FM; readers and firmware updates of any kind; interrupts anywhere but in the reset of the ring, a host that reads and clears, or clears all | `CapacityConserved`, `SharedAllOrNothing`, `LedgerImplemented`; `TagsTypeOK`, `CountsMatchReferences`, `KeptWhileUsed`, `SharingImplemented`; `ReadWhole`, `EveryReaderEnds`; `SlotsHoldPackages`, `TransferEnds`; `LogTypeOK`, `SeenIsFront`, `NothingVanishes`, `QueueImplemented`, `EventsAreServed` | hold, 74 487 |
| `dcd_more` | `MCDcdExtents`, `DcdMore` | orderly, but with the More flag | `ReclaimOnlyUnused` | violated |
| `pool_orderly` | `MCResourceManager`, `PoolOrderly` | FM grows and deletes LDs; the host of one LD writes at any time | `ListsPartition`, `Isolation`, `MapMatchesLists`, `NoForeignData`, `BackgroundEnds`, `RemovesOwnBlocks` | hold, 1 385 716 |
| `fm_commands` | `MCFmMailbox`, `FmCommands` | FM shrinks, exhausts, asks for more than a bank maps, changes granularity | `FmTypeOK`, `AnswerIsFinal`, `GetTellsLists`, `ActiveMapStable`, `FmAnswered` | hold, 715 342 |
| `pool_shrink` | `MCResourceManager`, `PoolShrink` | FM shrinks LDs | `MappedBlocksUsed` | violated |
| `pool_exhaust` | `MCResourceManager`, `PoolExhaust` | FM takes the last free block | `Isolation` | violated |
| `events_interrupt` | `MCEventLog`, `EventsInterrupt` | interrupts anywhere | `NothingVanishes` | violated |
| `events_status` | `MCEventLog`, `EventsStatus` | interrupts anywhere but in the reset of the ring | `StatusTellsHost` | violated |
| `events_full` | `MCEventLog`, `EventsFull` | host reads on without clearing | `SentOnce` | violated |
| `mailbox_calls` | `MCHostMailbox`, `MailboxCalls` | host reads the log as a whole, or out of its range | `TypeOK`, `RingConsistent`, `CallsImplemented`, `CallsAnswered` | hold, 475 614 |
| `log_parts` | `MCHostMailbox`, `LogParts` | host reads any range | `ReadIsExact` | violated |

Each property is stated in prose above its definition. Five of the properties that hold are
conditional, because the code does not keep them without the condition: `AcceptedDisjoint` and
`AcceptedWithinOffer` except extents that wrap, `NoForeignData` excepts what a host wrote to a block
after it was taken away, `ActiveMapStable` speaks of maps that fit into a bank, `EventsAreServed` of
behaviours in which the host is told. In all of these runs the excepted case happens, too.

### Bounds, and why they are enough

* **Extents.** Addresses count half blocks (`BlockSize` 2), so misaligned
  extents exist. Two neighbouring offers of three and two blocks make every
  relation between an extent and an offer possible: inside, at either edge,
  across both, whole, and one extent is so long that it wraps around to the addresses
  before the offer. `device_orderly` adds a shared offer and lists of three
  extents, which gives gaps before, between and behind. `MaxExtents` and
  `MaxFreeExtents` of 3 fill up in `dcd_any_host`; in `device_orderly` they are
  large enough never to. `DpaSpace` is 32. Deadlock is not checked: once all offers are answered and the host
  has nothing to give back, no command can change anything.
* **Tags.** Two hosts, of which one shares; three tags and a table of two
  entries, so that the table is full and an entry is removed in front of another
  one; two references to a tag; a region of two blocks and additions of one and
  two, so that an addition may not fit. `MaxPending` is 1: one addition waits for an
  answer. `FmLiberties` is empty: an orderly FM adds references to capacity that exists.
* **Reports.** Lists of every length from none to four entries, of which two
  hold the same entries in another order, and payloads of one entry, so that a list
  of four takes two halvings and four pages; two changes (`MaxVersions` 3) are enough to
  go away from a list and come back to one of the same length.
* **Firmware transfer.** Two slots of four units, pieces of one or two units,
  packages of one to four, the last one as large as its slot; three transfers
  (`MaxTransfers`): one that is given up, one that meets what it left, one to the
  other slot.
* **Resource manager.** Three blocks, three LDs: enough for an LD to grow
  beside another one that is deleted, with a block left free, and for a
  block to pass from one LD to another. The host of the second LD writes, at any time, so that a
  block comes to it and goes from it with its data. The banks hold as many entries as there are
  blocks, and an orderly FM asks for no more. `pool_shrink` has
  four blocks and two LDs, `pool_exhaust` four of each. `Grans` is {1}: a change of
  granularity is part of `fm_commands` only.
* **FM mailbox.** Two units, granularities of one and two units, and requests for
  no LD, for an empty first LD, and for three units, which is more than there
  is and more than a bank of two entries maps: the new map runs on into the other bank, or behind
  both, where `BramSize` leaves room for it. `Isolation` and `MapMatchesLists` are not claimed here: with these liberties
  they do not hold (section 6).
* **Event log.** A ring of three (`EVENT_OVERFLOW_CAP` is 2048) and replies of
  two records (`PAYLOAD_EVENT_RECORD_CAP` is 7): a full ring takes two replies, as
  it takes more than one in the code, and six reports (`MaxEvents`) go around
  the ring twice. Three or four reports are enough for the violations. In `device_orderly` deadlock is
  not checked because the other groups come to an end.
* **Host mailbox.** Rings of four entries go around and are read at every
  size. Requests of the wrong length are one per command that checks it. Reads out of range begin behind
  the log, before it, or have a negative length; the last kind is asked for while the log is
  empty, since its answer is undefined otherwise.

What bounds behaviours are the constants `MaxEvents`, `MaxRefs`, `MaxPending`, `MaxVersions` and `MaxTransfers`, and
the sets of inputs (requests, granularities, lists); all runs that pass explore their state space to the end.

### Variants worth repeating

* `dcd_any_host` with `AcceptedWithinOffer` without its exception (`~Wraps`): violated by one
  response with the extent that wraps.
* `pool_orderly` with `NoForeignData` without its exception (`late`): violated by a host
  that writes between the zeroing of its block and the clearing of its register.
* `device_orderly` with `MaxPending = 2`: what the hosts have accepted can be more than `Total`,
  since the room is checked when an addition is initiated and taken when a host
  accepts (`cxl_dcd.c:728`). What the region counts as used on acceptance is not in the repository, so
  this is no property.
* `device_orderly` with `FmLiberties = {"stale"}`: `KeptWhileUsed` is violated by a
  reference that is added to an entry whose capacity is gone
  (`cxl_dcd.c:852`).
* `device_orderly`, as it is, with `\A t \in Tags : owed[t] > 0 => Holders(t) \subseteq SharedHosts`:
  violated. `is_sharable` is looked up when an entry is made and not again, so that
  an old entry admits references to capacity of a host that does not share.
* `pool_orderly` with `Liberties = {"regrow"}`: giving blocks to an LD that was
  emptied before runs into its stale `tail`.

## 4. Fairness

* `EventLog`: `WF(MainLoop)` and `SF(Service)`. `main` loops for ever and nothing in the commands
  for events waits, so the main loop always goes on;
  interrupts are finite in number (`MaxEvents`) and cannot starve it for ever.
  `Service` is the host driver: when the status bit is set it reads, and it
  clears what it has read. Without such a host nothing in the firmware removes an
  event. It is strong fairness because the mailbox is busy in between: a host that asks for
  other things, such as clear-all, over and over gets to reading, too. `EventsAreServed` is conditional on
  `[]StatusTellsHost`: in a behaviour in which the interrupt loses the bit to the main loop (section
  6), a host that waits for the bit waits for ever. Nothing is assumed of `ErrorReport` or `PostClearAll`.
* `FmMailbox`: `WF(Handler)` and `WF(Engine)`. The main loop goes on, except while the
  handler polls the CDMA for a block that is zeroed, which it does without a bound
  (`node_list.c:131-146`). That the CDMA ends every transfer is an assumption about the hardware, stated
  as the fairness of `Engine`: nothing in the code justifies it, and without it the handler, the
  doorbell and with them both mailboxes stand still for ever.
* `HostMailbox`: `WF(Handler)`. The same loop; no handler of these commands waits. Neither
  mailbox assumes fairness of the FM or of the host.
* `DcdReports`: `WF(Read)`, a reader that goes on until it has ended. `FwTransfer`:
  `WF(GoOn)`, a host that goes on with the package it has begun (it may also give up). The
  device answers each command at once. Nothing is assumed of what changes the
  lists; a reader ends because they change a bounded number of times
  (`MaxVersions`), and would not have to otherwise.
* The safety runs use specifications without fairness. So do all violation
  runs: each of their counterexamples is finite.

## 5. The proofs

| Theorem | Module | States |
|---|---|---|
| `MapStable` | `ResourceManager_proofs` | a command whose map fits into a bank writes to no entry of the map in use, if that one fits, too; whatever the FM has asked for before |
| `PartitionHolds` | `ResourceManager_proofs` | every block is in one list |
| `IsolationHolds` | `ResourceManager_proofs` | no block is mapped by two LDs, not even while a command is half done |
| `MapIsRight` | `ResourceManager_proofs` | between commands the map is what the lists say |
| `RemovalIsSafe` | `ResourceManager_proofs` | a block that is taken away is mapped by no other LD |
| `BackgroundIsOver` | `ResourceManager_proofs` | the background bit is not left behind |
| `DataIsOwn` | `ResourceManager_proofs` | no LD reads what another one has written, but for what a host wrote to a block that was already taken from its LD |
| `TypesHold` | `ResourceManager_proofs` | `Spec => []TypeOK` |
| `FmCallsAreCommands` | `FmMailbox_proofs` | without changes of granularity, `FmSpec => Spec` |
| `MapStableForCalls` | `FmMailbox_proofs` | as `MapStable`, also with changes of granularity |
| `AnswersAreFinal` | `FmMailbox_proofs` | when the doorbell is clear the answer is whole and nothing goes on behind it |
| `GetIsTrue` | `FmMailbox_proofs` | what GET tells is what the lists hold |
| `FmTypesHold` | `FmMailbox_proofs` | `FmSpec => []FmTypeOK` |
| `TypeInvariant` | `DcdExtents_proofs` | `Spec => []TypeOK`: no command writes behind `g_accepted_extents` or `g_free_extents` |
| `AcceptedStayDisjoint` | `DcdExtents_proofs` | no address is accepted twice, but by an extent that wraps |
| `AcceptedStaysWithinOffer` | `DcdExtents_proofs` | every accepted extent that does not wrap lies inside an offer |
| `SharedIsTakenWhole` | `DcdExtents_proofs` | a shared offer is accepted whole or not at all |
| `ClosedOffersGainNothing` | `DcdExtents_proofs` | no response adds to an offer that is closed |
| `CapacityLostOnlyWhenFull` | `DcdExtents_proofs` | what a closed offer held is accepted or free, unless the free list has been full |
| `TagsTypesHold` | `DcdTags_proofs` | the table of references and the additions keep their types and bounds |
| `TableCountsReferences` | `DcdTags_proofs` | the table keeps its bounds and its counts, whatever the FM does |
| `CapacityKeptWhileUsed` | `DcdTags_proofs` | tagged capacity is there exactly as long as it is used |
| `TagsImplementSharing` | `DcdTags_proofs` | `DcdTags` implements `SharedCapacity` |
| `CounterIsRight` | `DcdExtents_proofs` | the counter of accepted extents is the number of entries, whatever the host sends |
| `LedgerIsImplemented` | `DcdExtents_proofs` | `DcdExtents` implements `CapacityLedger` while the free list has room |
| `CapacityIsConserved` | `DcdExtents_proofs` | the closed offers are what is held and what is free, each address once |
| `ReadersGetWholeLists` | `Transfers_proofs` | a reader ends with a list that existed |
| `SlotsKeepPackages` | `Transfers_proofs` | a slot holds the package it is said to hold |
| `LogTypeInvariant` | `EventLog_proofs` | no pointer, slot or counter of the event log leaves its range |
| `HostAndRingAgree` | `EventLog_proofs` | what the host has read and not cleared is the front of the ring |
| `EventsStay` | `EventLog_proofs` | an event stays in the log until the host has read it or clears everything |
| `LogIsAQueue` | `EventLog_proofs` | `EventLog` implements `EventQueue` |
| `RingStaysConsistent` | `HostMailbox_proofs` | the log's three counters always fit together |
| `CommandsAreCalls` | `HostMailbox_proofs` | `Liberties = {}` implies that `HostMailbox` implements `HostCalls` |
| `MailboxTypesHold` | `HostMailbox_proofs` | registers, log and clock keep their types, for a host of any kind |

They hold for every value of the constants that satisfies the named
assumptions of the modules: `PoolAssumption`, `RequestAssumption`, `IdsAssumption`, `SizesAssumption`, `OffersAssumption` (offers do not wrap around 2^64, extents may), `HostAssumption` (what an extent and a list are),
`TagsAssumption`, `ReportsAssumption`, `FwAssumption` (a package fits into its slot),
`EventLogAssumption` (a reply holds less than the ring), `CommandLogAssumption`, `HostMailboxAssumption`. TLC evaluates all of them on every run.

* **What is meant by an orderly FM.** The theorems about lists, map and answers assume `Orderly`: the FM
  does not shrink an LD to some of its blocks, does not give blocks to an LD that had some
  before, and leaves a free block over. `pool_shrink`, `pool_exhaust` and a variant of section 3 are the
  counterexamples without it. The LDs, the requests, the blocks, the granularity, the size of a bank and the hosts that write are
  arbitrary.
* **`MapStable`.** For every FM. `CommandInv` says where a command is and what its loop variables are
  there (`Control`), and that each register points into the bank in use, or, when it has been
  written already, into the new one at the sum of the requests before it (`Registers`). That each of the
  two maps is no longer than a bank is a condition of the property and not of the theorem: the state in
  which it is looked at may come after requests that ran over. What a command
  writes then lies in the other bank: the place of the next entry is less than the sum of the requests, and that is
  bounded by the bank (`OffsetStep`, and the lemmas of `Counting` about sums). The condition cannot be
  dropped: nothing in the code bounds the sum, and a request of more than 256 blocks runs from one
  bank into the other (`resource_manager_config.c:177`).
* **`PartitionHolds`.** `ListsPartition` says nothing of pointers; `ListInv` does: every list is a
  chain of distinct used or free blocks from `head` to `tail` of the counted length, no two chains meet, and the counts
  add up to the number of blocks (`Listed`); the counts of the LDs are the old ones, the requested ones, or on
  the way from one to the other by what is left to do (`Sizes`); and the free list holds more blocks than the LDs
  still want (`Supply`), which keeps `head` and `tail` of the free list from going stale. The lemma
  of the move of a block from one list's head to another one's tail serves growth, shrinking and removal alike.
* **`IsolationHolds`, `MapIsRight`, `RemovalIsSafe`.** `MapInv`: the entries built so far are the nodes of the
  lists (`NewMap`); an old entry of an LD names a block that is still the LD's, is free, or
  has gone to an LD whose register is written later (`OldMap`, `Traced`): since the registers are written
  in the order of the LDs, no two registers reach one block at any of the writes; `src` follows the
  maps of the LDs, which lie one after the other (`Source`), so that the copied entries are the LD's own.
* **`BackgroundIsOver`.** The bit is set when a removal starts and cleared for the last LD;
  `Background` says that a set bit means that this LD is still to come.
* **`DataIsOwn`.** No hypothesis about the hosts: any of them writes at any moment. `DataInv`: free memory
  is clean, that of an LD clean or its own, and a block that an old register still reaches although
  it has left the list is clean, all but the block that the CDMA is at work on and those that a host
  wrote to too late (`late`). A block leaves `late` when it is zeroed again or written by its new owner.
* **`FmCallsAreCommands` and its module.** `HandlerInv` says that from the setting of the doorbell to the
  conversion, command and payload are the call and the conditions under which it was sent still
  hold, so that `Convert` is a step of `ResourceManager`. With it everything proved there
  is true of the mailbox. `AnswerInv` says what of the answer has been written at each place of the
  handler; `GetInv`, that a told length is that of the register. `GetIsTrue` needs that the registers `FoundLds` counts
  have blocks (`FoundBlocks`), and at most 256 blocks: the answer has a byte for the number, and there are 128
  (`MAX_PHYSICAL_BLOCK_NUM`). The hypotheses `Orderly` and no change of granularity are those of the theorems
  about lists; the run `fm_commands` checks the same properties without them.
* **`TypeInvariant`.** `TypeOK` is inductive as it stands. The work is in the
  capacity of the lists: `ReclaimedGaps` are those gaps whose rank among all
  gaps does not exceed the room left, and `Found` are those releases of an
  extent whose rank does not exceed its copies. `Counting!RankBound` says that at
  most `b` members of a set have a rank of at most `b` (the rank is an
  injection into `1 .. b`). From it follow `ReclaimBound` (no write behind
  `g_free_extents`) and `GoneBound` (no entry count below zero). The bound on
  `acceptedCount` is the check of the last entry recorded.
* **`CounterIsRight`.** `TypeOK` and `CountMatchesEntries` together are inductive. The entries are a sum
  over the extents of their copies; a response adds as many as it counts (`SumOfCounts`), a release
  takes away one for every entry found. No hypothesis: also for a response that is refused half-way.
* **`LedgerIsImplemented`, `CapacityIsConserved`.** Hypotheses: `OrderlyHost` (`Liberties = {}`: complete
  lists in address order that are accepted), `ExtentsDoNotWrap`, `OffersApart`, and `[]RoomLeft`: the free list is never
  full. The last one is a condition on the behaviour and not on the constants: a gap that
  finds no room is in no record, as `CapacityLostOnlyWhenFull` allows and the code does; a free
  list in which every gap that can come up has room satisfies it, as in `device_orderly`. `SettledInv`: the accepted extents are disjoint and
  each lies in a closed offer, in one piece. `GapsAreTheRest` carries the step: for a list in order
  the gaps are the offer without the entries, all of it and nothing else, so that a response settles
  the offer (`ResponseSettles`); a release gives back what the entries it finds held
  (`ReleaseGivesBack`). That the ledger conserves capacity is then a matter of sets (`LedgerConserves`).
* **`AcceptedStayDisjoint`.** One hypothesis: all offers are exclusive
  (`ExclusiveOffers`). It cannot be dropped: a shared offer is checked against its offer only, so that it may be
  taken twice with the More flag. Extents that wrap may come and be accepted; the property is about the
  others. The inductive invariant `DisjointInv` adds that
  no accepted extent is empty, since an empty one overlaps nothing, not even
  a copy of itself. One lemma per action: what a response records overlaps neither the entries recorded
  before nor its own earlier ones (`DisjointAddResponse`), and a release only
  takes away (`DisjointRelease`).
* **`AcceptedStaysWithinOffer`, `SharedIsTakenWhole`, `ClosedOffersGainNothing`.**
  The first has no hypothesis: an extent is checked against the offer that is answered, whole as long as its
  end does not wrap. The second needs `ExtentsDoNotWrap` and `OffersApart` (different offers have
  no address in common), without which an extent of one offer is one of another, too: the extent checked
  against a shared offer is the offer. The third needs `OffersApart` only: what is
  recorded by a response begins in the offer it answers, which is not a closed one, whether it wraps or not.
* **`CapacityLostOnlyWhenFull`.** No hypothesis. The question is whether
  the gaps of a list, together with the extents of the list, are the whole offer.
  `ListCovers`: for an address of the offer take the first entry of the list that
  begins behind it (there is one, or the address lies in the gap behind the last);
  the entry before it covers the address or leaves it in the gap between the two. Then, if
  the free list has room for all gaps, `RankFills` says that all of them are
  taken (`AllGapsReclaimed`); if it does not, it is full afterwards.
* **`TagsTypesHold`, `TableCountsReferences`.** Have no hypothesis about the FM. The two properties together,
  `TableOK`, are inductive; the work is in the removal of an entry, which moves the
  ones behind it.
* **`CapacityKeptWhileUsed`, `TagsImplementSharing`.** Hypothesis `"stale" \notin FmLiberties`,
  which cannot be dropped (section 3). `KeptWhileUsed` is inductive together with
  `TableOK`: `Referenced`, which is what `GiveBack` looks at, is `owed[t] > 0`. Each action is then a step of
  `SharedCapacity` or a stuttering step.
* **`ReadersGetWholeLists`.** `ReaderInv`: what has been received is the beginning of the list
  with the generation number seen, and all of it when the reader has ended. Lists are only ever appended to `versions`, so an old one stays what
  it was. `HandlerAnswers` says once what the four handlers return.
* **`SlotsKeepPackages`.** `FwInv` adds what is known of a transfer under way: while the host is
  sending, the device's offset is inside the package and the slot
  holds the package up to the offset (`FrontArrived`). `SlotsApart` is the arithmetic that keeps
  a piece inside its slot.
* **`LogTypeInvariant`, `HostAndRingAgree`, `EventsStay`, `LogIsAQueue`.** Two
  hypotheses: no interrupt while the pointers of the ring are reset (`SafeInterrupts`), and a host that clears
  what it has read before it reads on (`OrderlyHost`). Neither can be dropped: `events_interrupt` and
  `events_full` are the counterexamples. Everywhere else the interrupt may come, in
  particular between the two reads of `queueSize` and around the accesses to the status register, where
  the code does lose the bit (`events_status`): that the host is told is not proved because it is not true. The inductive invariant `LogInv` says what the pointers can
  be (`Pointers`), that every slot in use holds a report (`Filled`), that `handle_index` stands
  behind the records read and not yet taken out, which are the first ones (`Cursor`), what a
  command knows when it gets to a place (`Commands`), and what a reset under way leaves (`Resetting`).
  Two facts carry it. A size taken in two reads may come out too small but never too large
  (`SizeIsEnough`), since `rear` only moves towards `front`; so nothing is sent or
  cleared that is not in the ring. And an index goes around the ring once at most (`GoAround`), so that
  `At(f, i)` is injective (`SlotsDiffer`): a report does not overwrite a record in use. For
  `LogIsAQueue` the cursor of the queue is `Kept`, the number of records read and still in the ring
  (`ReadIsKept`); sizes, single dequeues and status writes are then stuttering steps or `Drop`.
* **`MailboxTypesHold`.** Hypothesis `TimesAreAsked`: the timestamps that requests set are in `Times`. Holds
  for every host, also one that reads the log in parts: `HandlerInv` says what a payload is made of, which are
  integers (offset and length are signed), entries, and undefined bytes.
* **`RingStaysConsistent`.** `RingConsistent` is not inductive: a ring that is
  not full has to begin at index 0, or the entry that fills it up would
  leave a hole. `RingInv` says so.
* **`CommandsAreCalls`.** A step simulation under `CallsInv`, which is
  `RingInv`, the type of the entries (`AreaOK`) and `MailInv`: what command, payload and
  status registers hold at each position of the handler. `ReadCommand` and the
  three writes of the answer are stuttering steps, `Execute` is `Perform`,
  `ClearDoorbell` is `Respond`. The two long lemmas are `LoggedAppend`
  (appending to the ring, also when it overwrites, is appending to the
  sequence) and `WholeLogRead`: although `get_log_data` adds bytes to entries, the
  bytes it copies are the right ones for a read from offset 0 of a log that is
  full or at most a quarter full. That condition is `WholeLog`, and why
  `Liberties` has to be empty.

**Only model-checked:**

* Liveness: `EveryReaderEnds`, `TransferEnds`, `FmAnswered`, `EventsAreServed`, `CallsAnswered`. Liveness under
  fairness and `ENABLED` are beyond the prover.
* `FmTypeOK`, `AnswerIsFinal` and `GetTellsLists` for an FM that shrinks, exhausts or changes the granularity. With these
  liberties `ListInv` does not hold, and what does hold of the lists then (pointers into stale
  nodes, counts that still add up) is left to the run.
* `LedgerImplemented` and `CapacityConserved` are proved for behaviours in which the free list keeps
  room; that a list of a given size always does, given the offers, is for the run.

The provers cannot apply an induction theorem to a predicate. Where a statement about a list or a sum needs induction, it is
proved by a smallest counterexample, which the finite set or the list has as a set of numbers
(`Counting!LeastMember`, `SmallestSet`): the rank lemmas, the existence of sums (`SumsExist`), and the walks along the lists of
blocks are all of this form. No module has a `RECURSIVE` operator.

## 6. What the code does otherwise than it says

| Run | Where | What |
|---|---|---|
| `dcd_more` | `cxl_dcd.c:324` | the closing response reclaims what earlier responses with the More flag have accepted |
| `dcd_any_host` | `cxl_dcd.c:294` | an extent of which the end wraps around 2^64 passes for one inside the offer and is accepted |
| `device_orderly` | `cxl_dcd.c:864` | a second reference to a tag is counted; the comment says it has no effect |
| `pool_shrink` | `resource_manager_config.c:188` | a shrunk LD keeps its first map entries but loses its first blocks: it stays mapped to blocks that are free |
| `pool_exhaust` | `node_list.c:96` | after the last free block is handed out the free list's stale pointers lead into an LD's list, and a later allocation gives a used block away |
| `pool_orderly` | `resource_manager_config.c:285` | what a host writes to its block between the zeroing and the change of its register stays there for the next LD |
| `events_interrupt` | `cxl_events.c:327` | an event that arrives while `dequeue` resets the ring is dropped without being counted |
| `events_status` | `main.c:84` | the status bit that an interrupt sets is overwritten by the main loop: the log has an event and the host is not told |
| `events_full` | `cxl_events.c:158` | a full ring that was read to its end is sent again |
| `log_parts` | `cxl_log.c:212` | bytes and entries are mixed up: a read that does not begin at 0 returns other bytes |

The text of the code or comment each one disagrees with is quoted in `PROJECT.json`. None
of these is repaired in the models. A passing run is kept clear of a violation in one of three ways:
its environment does not go there (`Liberties`, `ReaderLiberties`: no More flag after a partial answer, no
shrinking, no last block, no reading on, no reading in parts; `dcd_any_host` and `fm_commands`
go there and check what survives), `InterruptAt` leaves out one place
(the reset of the ring), or the property has a condition, named in section 3, for what happens in
the run too (extents that wrap, late writes, the lost status bit). `CountsMatchReferences` counts as the code does.

## 7. What is not modelled

* **Dynamic capacity commands that can only refuse.** Get Configuration (4800h) reads a
  static configuration that nothing fills, so that it answers "invalid input" for ever.
  Get Info (5600h), Set Region Configuration (5602h) and Initiate Release (5605h) read
  `g_dcd_info`, which nothing fills either: the first answers constants, the
  others refuse every request.
* **What the dynamic capacity commands use and the repository does not declare**: the
  extent lists, the regions, and the procedures that change them. They are the
  actions of the environment in `DcdTags` and `DcdReports`, modelled from their use.
* **The event log's check in Initiate Add** (`cxl_dcd.c:721`). It looks at the log of
  severity INFORMATION, which only tests write to, so it never refuses.
* **Get FW Info and the identify commands.** They copy constants.
* **Interrupt policy commands.** The policy is stored and read back; nothing
  uses it.
* **The severities INFORMATION, WARNING and FATAL.** Each has a ring of its own, with
  no state shared but the status register; only tests generate such events.
* **Lengths out of range.** A payload length or a number of LDs above its limit
  is noticed but used all the same, and a firmware payload shorter than its header gives
  a negative length (`cxl_fw.c:37`); what an access behind a local buffer does depends on
  the build.
* **Maps that leave the BRAM.** A request that does not even fit into what follows its bank is not
  asked for; what lies behind the BRAM depends on the hardware.
* **What a change of granularity leaves unzeroed.** `CleanBlock` zeroes one unit of 256 MB whatever the
  granularity, as the code does, since `g_granulariy` is never updated; but `NoForeignData` is checked with blocks
  of one unit only, and would not hold with larger ones.
* **Whether the region holds what the hosts accept** (`cxl_dcd.c:728`): the counting on acceptance is not
  in the repository (variants, section 3).
* **A CDMA that does not end its transfer.** The handler then polls for ever (section 4).
* **Granularities that assert**, and the translation between the write of the
  granularity register and the new map.
* **Pure I/O and start-up**: register and BRAM access, the vendor's
  interrupt controller, version registers. Start-up is the initial state.
* **Contents**: time stamps, record data, command effects, the layout of
  payloads.

## 8. Plan

The order is that of importance: first the components whose state several
parties change (resource manager, event log, extents), then the mailboxes in
front of them, then the commands that only a single party uses (tags, reports,
firmware). Done: all modules of section 2.

Next, to model:

1. Granularity: a run that shows which LDs survive a change (`FoundLds` stops at
   the first register of value zero) and what `g_granulariy`, which is never
   updated, leaves unzeroed.
2. Two severities in `EventLog`, sharing the status register.
3. The event interrupt policy in `HostMailbox`; lengths out of range.

Next, to prove:

1. `ResourceManager`: that a change of granularity between commands keeps the lists, the map and the types,
   so that the theorems of `FmMailbox_proofs` hold with it; then what is left of `ListInv` when the
   FM shrinks LDs.
2. `DcdExtents`: a bound on the size of the free list, from the offers and the length of a list, that
   makes `RoomLeft` a matter of the constants; `ReclaimOnlyUnused` for an orderly host.
3. `EventLog`: which of the theorems are left when the host is not orderly but the interrupt is safe.
