----------------------------- MODULE FwTransfer -----------------------------
(***************************************************************************)
(* Firmware transfer (mailbox_transfer_fw): a host sends a package to a    *)
(* slot at once or piece by piece, and the device keeps how much of it has *)
(* come (transfer_offset).  The handler runs to its end before the next    *)
(* command, so that transfer_tag, which is only set within it, never       *)
(* refuses anything.  The main loop does not dispatch the command yet; it  *)
(* is modelled as its header and its opcode offer it.  What it adds to the *)
(* command log is the matter of CommandLog.                                *)
(*                                                                         *)
(* The host sends pieces late, twice and out of order, and counts on being *)
(* refused then; if its first piece is refused it aborts and starts again. *)
(* A package fits into its slot, as the code demands.  A definition marked *)
(* "mutant" is a faulty variant of the one after it.                       *)
(***************************************************************************)
EXTENDS Integers, Sequences

CONSTANTS NumSlots,     \* fw_slots_supported
          SlotSize,     \* SLOT_SIZE, in units of 128 bytes
          MaxPiece,     \* units that a payload has room for
          Packages,     \* sequences of units
          MaxTransfers  \* bound on the packages that are sent

ASSUME FwAssumption ==
    /\ SlotSize \in Nat /\ MaxPiece \in Nat \ {0} /\ MaxTransfers \in Nat
    /\ NumSlots \in Nat \ {0}
    /\ \A p \in Packages : p \in Seq(Nat) /\ Len(p) \in 1 .. SlotSize

Slots == 1 .. NumSlots

VARIABLES memory,           \* behind SLOT_BASE_ADDR, by units
          transfer_offset,  \* units that have come
          sender,           \* where the host is: "idle", "start", "sending", "refused"
          slot, package,    \* what it sends, and where to
          installed,        \* by slot, the last package whose transfer ended
          transfers         \* packages so far

fwVars == <<memory, transfer_offset, sender, slot, package, installed, transfers>>
hostVars == <<sender, slot, package, installed, transfers>>

NoPackage == << >>

FwInit ==
    /\ memory = [a \in 0 .. NumSlots * SlotSize - 1 |-> 0]
    /\ transfer_offset = 0
    /\ sender = "idle" /\ slot \in Slots /\ package = NoPackage
    /\ installed = [s \in Slots |-> NoPackage]
    /\ transfers = 0

-----------------------------------------------------------------------------
(* mailbox_transfer_fw.                                                    *)

SlotBase(s) == (s - 1) * SlotSize

\* The units are copied to the slot, at and behind the offset.
CopyToFront(offset, units) ==  \* mutant
    memory' = [a \in DOMAIN memory |->
        IF a - SlotBase(slot) \in 0 .. Len(units) - 1
        THEN units[a - SlotBase(slot) + 1] ELSE memory[a]]

Copy(offset, units) ==
    memory' = [a \in DOMAIN memory |->
        LET i == a - SlotBase(slot) - offset + 1
        IN IF i \in DOMAIN units THEN units[i] ELSE memory[a]]

InOrderAny(offset) == offset <= transfer_offset  \* mutant: a piece may come again

InOrder(offset) == transfer_offset = offset

\* Initiate, Continue and End: the first has no other effect than the second,
\* and the last does not reset the offset.
TransferPart(offset, units) ==
    /\ InOrder(offset)
    /\ Copy(transfer_offset, units)
    /\ transfer_offset' = transfer_offset + Len(units)

TransferFull(units) == Copy(0, units) /\ transfer_offset' = 0

TransferAbortKeeps == UNCHANGED <<memory, transfer_offset>>  \* mutant

TransferAbort == transfer_offset' = 0 /\ UNCHANGED memory

-----------------------------------------------------------------------------
(* The host.                                                               *)

Choose(p, s) ==
    /\ sender = "idle" /\ transfers < MaxTransfers
    /\ package' = p /\ slot' = s /\ sender' = "start"
    /\ transfers' = transfers + 1
    /\ UNCHANGED <<memory, transfer_offset, installed>>

Piece(first, n) == SubSeq(package, first + 1, first + n)

Finish ==
    /\ sender' = "idle"
    /\ installed' = [installed EXCEPT ![slot] = package]
    /\ UNCHANGED <<slot, package, transfers>>

SendFull ==
    /\ sender = "start" /\ Len(package) <= MaxPiece
    /\ TransferFull(package)
    /\ Finish

Pieces(first) == 1 .. (IF Len(package) - first < MaxPiece THEN Len(package) - first ELSE MaxPiece)

SendFirst ==
    /\ sender = "start" /\ Len(package) > 1
    /\ IF InOrder(0)
       THEN /\ \E n \in Pieces(0) \ {Len(package)} : TransferPart(0, Piece(0, n))
            /\ sender' = "sending"
       ELSE sender' = "refused" /\ UNCHANGED <<memory, transfer_offset>>
    /\ UNCHANGED <<slot, package, installed, transfers>>

\* Any piece, also one that was sent before.  The last one ends the transfer.
SendPiece(first) ==
    /\ sender = "sending"
    /\ \E n \in Pieces(first) :
        /\ TransferPart(first, Piece(first, n))
        /\ IF first + n = Len(package) THEN Finish ELSE UNCHANGED hostVars

StartAgain ==
    /\ sender = "refused" /\ TransferAbort
    /\ sender' = "start"
    /\ UNCHANGED <<slot, package, installed, transfers>>

\* A host that gives up may say so or not.  The slot does not hold what it held
\* before.
GiveUp ==
    /\ sender = "sending"
    /\ TransferAbort \/ UNCHANGED <<memory, transfer_offset>>
    /\ sender' = "idle"
    /\ installed' = [installed EXCEPT ![slot] = NoPackage]
    /\ UNCHANGED <<slot, package, transfers>>

FwNext ==
    \/ \E p \in Packages, s \in Slots : Choose(p, s)
    \/ SendFull \/ SendFirst \/ StartAgain \/ GiveUp
    \/ \E first \in 0 .. SlotSize - 1 : SendPiece(first)

\* The host goes on with the package it has begun.
GoOn == SendFull \/ SendFirst \/ StartAgain \/ SendPiece(transfer_offset)

FwSpec == FwInit /\ [][FwNext]_fwVars /\ WF_fwVars(GoOn)

-----------------------------------------------------------------------------
(* Correctness properties.                                                 *)

\* A slot that no transfer is under way to holds, from its beginning, the last
\* package that was transferred to it completely: every piece of it is in its
\* place, however often and in whatever order pieces were sent, whatever
\* earlier transfers were given up, and whatever went to the other slots.
SlotsHoldPackages ==
    \A s \in Slots : sender = "idle" \/ s # slot =>
        \A i \in DOMAIN installed[s] : memory[SlotBase(s) + i - 1] = installed[s][i]

\* A transfer that was begun ends, also when what an earlier one has left
\* behind makes the device refuse its first piece.
TransferEnds == sender = "start" ~> sender = "idle"
=============================================================================
