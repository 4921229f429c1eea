----------------------------- MODULE CommandLog -----------------------------
(***************************************************************************)
(* A command log (cxl_log.c): a ring of the last commands carried out, that *)
(* every handler appends to (cxl_gen_vdl) and that the host reads by byte  *)
(* offset and length (get_log_data).  The firmware has two, written by the *)
(* same code; the one of supported commands is filled at start-up and then *)
(* stays as it is.  A definition marked "mutant" is a faulty variant of    *)
(* the one after it.                                                       *)
(***************************************************************************)
EXTENDS Integers, Sequences

CONSTANTS MaxNum,   \* CXL_MAX_VDL_NUM (128)
          Opcodes   \* of the commands

EntrySize == 4      \* CXL_VDL_ENTRY_SIZE, in bytes
Index == 0 .. MaxNum - 1
NoEntry == "none"

ASSUME CommandLogAssumption == MaxNum \in Nat /\ MaxNum > 0 /\ NoEntry \notin Opcodes

VARIABLES physic_start, write_index, entry_num,
          area    \* the entries, by index

ring == <<physic_start, write_index, entry_num, area>>

InitLog ==
    /\ physic_start = 0 /\ write_index = 0 /\ entry_num = 0
    /\ area = [i \in Index |-> NoEntry]

NextIndexNoWrap(i) == i + 1  \* mutant

NextIndex(i) == (i + 1) % MaxNum

\* mutant: the start stays where it is when an old entry is overwritten
AppendKeepsStart(op) ==
    /\ area' = [area EXCEPT ![write_index] = op]
    /\ write_index' = NextIndex(write_index)
    /\ entry_num' = IF entry_num # MaxNum THEN entry_num + 1 ELSE entry_num
    /\ UNCHANGED physic_start

\* cxl_gen_vdl
AppendEntry(op) ==
    /\ area' = [area EXCEPT ![write_index] = op]
    /\ write_index' = NextIndex(write_index)
    /\ IF entry_num # MaxNum
       THEN entry_num' = entry_num + 1 /\ UNCHANGED physic_start
       ELSE physic_start' = NextIndex(physic_start) /\ UNCHANGED entry_num

LogSize == entry_num * EntrySize

\* mailbox_get_log refuses what is not in the log.
InLog(offset, length) == offset < LogSize /\ offset + length <= LogSize

-----------------------------------------------------------------------------
(* get_log_data.  A byte is an entry and a place in it.                    *)

Undefined == << "undefined" >>

\* Bytes from an address of the area on; behind it lies other data.
Copy(address, length) ==
    [i \in 1 .. length |->
        LET a == address + i - 1
        IN IF a < MaxNum * EntrySize
           THEN <<area[a \div EntrySize], a % EntrySize>>
           ELSE <<"behind", 0>>]

\* Indices of entries and counts of bytes are added and compared as they are.
\* A length that is negative, or a second segment of negative length, is an
\* enormous one to memcpy: the answer is undefined.
GetLogData(offset, length) ==
    LET first == physic_start + offset
        temp  == (MaxNum - first) * EntrySize
    IN IF length < 0 THEN Undefined
       ELSE IF first >= MaxNum THEN Copy((first % MaxNum) * EntrySize, length)
       ELSE IF first + length <= MaxNum THEN Copy(first * EntrySize, length)
       ELSE IF temp > length THEN Undefined
       ELSE Copy(first * EntrySize, temp) \o Copy(0, length - temp)

-----------------------------------------------------------------------------
\* The entries of the log, oldest first.
Logged == [i \in 1 .. entry_num |-> area[(physic_start + i - 1) % MaxNum]]

TypeOKLog ==
    /\ physic_start \in Index /\ write_index \in Index
    /\ entry_num \in 0 .. MaxNum
    /\ area \in [Index -> Opcodes \cup {NoEntry}]
=============================================================================
