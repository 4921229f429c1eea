-------------------------- MODULE ResourceManager --------------------------
(***************************************************************************)
(* The resource manager (resource_manager_config.c, node_list.c): it hands *)
(* physical memory blocks to logical devices (LDs) on command of the       *)
(* fabric manager (FM), and tells the address translation hardware through *)
(* a block map in BRAM (two banks, used in turn) and one register per LD.  *)
(*                                                                         *)
(* The main loop runs one FM command at a time, but the hardware reads map *)
(* and registers at every moment, so a command is a sequence of steps: one *)
(* per LD, per block moved and per register written.                       *)
(*                                                                         *)
(* Addresses count 256MB units.  A block is named by its index in pbpools; *)
(* LD n of the model is ldlist_headers[n - 1].  A definition marked        *)
(* "mutant" is a faulty variant of the one after it.                       *)
(***************************************************************************)
EXTENDS Integers, Sequences, FiniteSets, Functions

CONSTANTS Units,      \* MAX_PHYSICAL_BLOCK_NUM, the memory in 256MB units
          MaxLd,      \* MAX_LOGICAL_ID_NUM
          BankSize,   \* entries of one BRAM bank (256)
          BramSize,   \* entries of the BRAM, in which the banks come first
          Requests,   \* the allocations an FM may ask for, LD by LD
          Grans,      \* the granularities an FM may set, in units
          Liberties,  \* how the FM departs from an orderly one, see FMMaySet
          Writers     \* LDs whose host writes to its memory

Block == 0 .. Units - 1
LD    == 1 .. MaxLd
Free  == 0                   \* gfreelist; the LD lists are 1..MaxLd
Lists == {Free} \cup LD
Null  == -1                  \* NULL, and a BRAM entry never written
Clean == 0                   \* content of zeroed memory
Entry == 0 .. BramSize - 1

ASSUME PoolAssumption ==
    /\ Units \in Nat \ {0} /\ MaxLd \in Nat \ {0}
    /\ BankSize \in Nat /\ Units <= BankSize   \* 128 blocks, 256 entries
    /\ BramSize \in Nat /\ 2 * BankSize <= BramSize
    /\ Grans \subseteq {1, 2, 4}
    /\ Liberties \subseteq {"shrink", "regrow", "exhaust", "granularity"}
    /\ Writers \subseteq LD

ASSUME RequestAssumption ==
    \A r \in Requests : r \in Seq(Nat) /\ Len(r) <= MaxLd

VARIABLES next,    \* pbpools[b].next
          used,    \* pbpools[b].is_used
          head, tail, count,  \* the list headers
          gran,    \* physical_dram_block_granularity, in units
          ldn,     \* logic_device_number
          bank,    \* the bank the registers point into: pingpong_para % 2
          bram,    \* the block map
          reg,     \* the LD registers: number of blocks and first map entry
          data,    \* per unit: the LD whose data it holds, or Clean
          bg,      \* background operation bit of the mailbox status
          zeroing, \* the unit that the CDMA is zeroing, or Null
          late,    \* history: units that a host wrote to when the block had
                   \* already been taken from its LD
          pc, req, ld, left, src, dst  \* the command being executed

lists   == <<next, used, head, tail, count>>
memory  == <<data, zeroing, late>>
control == <<pc, req, ld, left, src, dst>>
vars    == <<next, used, head, tail, count, gran, ldn, bank, bram, reg, data, bg,
             zeroing, late, pc, req, ld, left, src, dst>>

NoMap == [blocks |-> 0, base |-> 0]   \* register value 0

-----------------------------------------------------------------------------
(* Lists.                                                                  *)

Blocks == 0 .. (Units \div gran) - 1

\* init_freelist_ldlist for granularity g: all blocks free, in address order.
\* (It leaves alone the nodes beyond the last block; nothing reads them.)
InitialLists(g) ==
    LET last == (Units \div g) - 1 IN
    [next  |-> [b \in Block |-> IF b < last THEN b + 1 ELSE Null],
     used  |-> [b \in Block |-> FALSE],
     head  |-> [l \in Lists |-> IF l = Free THEN 0 ELSE Null],
     tail  |-> [l \in Lists |-> IF l = Free THEN last ELSE Null],
     count |-> [l \in Lists |-> IF l = Free THEN last + 1 ELSE 0]]

ListEmpty(l) == head[l] = Null

\* The n-th node of a list.
Node(l, n) ==
    LET node[i \in 1 .. count[l]] ==
            IF i = 1 THEN head[l]
            ELSE IF node[i - 1] = Null THEN Null ELSE next[node[i - 1]]
    IN node[n]

Nodes(l) == {Node(l, n) : n \in 1 .. count[l]}

\* remove_list finds nothing: the pointers are cleared.
RemoveFails(l) ==
    /\ tail' = [tail EXCEPT ![l] = Null]
    /\ UNCHANGED <<next, used, head, count>>

\* mutant: insert forgets the tail pointer
MoveNoTail(from, to, inUse) ==
    LET b == head[from] IN
    /\ next' = IF tail[to] = Null THEN next ELSE [next EXCEPT ![tail[to]] = b]
    /\ head' = [head EXCEPT ![from] = next[b], ![to] = IF @ = Null THEN b ELSE @]
    /\ tail' = [tail EXCEPT ![to] = IF @ = Null THEN b ELSE @]
    /\ count' = [count EXCEPT ![from] = @ - 1, ![to] = @ + 1]
    /\ used' = [used EXCEPT ![b] = inUse]

\* mutant: remove_list leaves the removed node at the head of its list
MoveKeepsHead(from, to, inUse) ==
    LET b == head[from] IN
    /\ next' = IF tail[to] = Null THEN next ELSE [next EXCEPT ![tail[to]] = b]
    /\ head' = [head EXCEPT ![to] = IF @ = Null THEN b ELSE @]
    /\ tail' = [tail EXCEPT ![to] = b]
    /\ count' = [count EXCEPT ![from] = @ - 1, ![to] = @ + 1]
    /\ used' = [used EXCEPT ![b] = inUse]

\* remove_list(from) and insert(to) of the node b = from->head.  A removed
\* node keeps its next pointer and the list its tail pointer.
Move(from, to, inUse) ==
    LET b == head[from] IN
    /\ next' = IF tail[to] = Null THEN next ELSE [next EXCEPT ![tail[to]] = b]
    /\ head' = [head EXCEPT ![from] = next[b],
                            ![to]   = IF @ = Null THEN b ELSE @]
    /\ tail' = [tail EXCEPT ![to] = b]
    /\ count' = [count EXCEPT ![from] = @ - 1, ![to] = @ + 1]
    /\ used' = [used EXCEPT ![b] = inUse]

\* mutant: blocks are handed on as they are
CleanBlockNot(u) == UNCHANGED data

\* What samt_clean_mld_block leaves behind: one unit of 256MB is zero, whatever
\* the granularity, because g_granulariy stays at its initial value.
CleanBlock(u) == data' = [data EXCEPT ![u] = Clean]

-----------------------------------------------------------------------------
(* What the hardware makes of registers and map.                           *)

MapEntries(l) == reg[l].base .. reg[l].base + reg[l].blocks - 1

\* The units of memory an LD's addresses are translated to.
Mapped(l) == UNION {bram[e] .. bram[e] + gran - 1 :
                        e \in {f \in MapEntries(l) : bram[f] # Null}}

-----------------------------------------------------------------------------
(* Set allocation: resour_mgt_exec_set_cmd.                                *)

\* init_bram writes every block to the first entry of each bank.
InitialMap == [e \in Entry |-> IF e \in {0, BankSize} THEN Units - 1 ELSE Null]

Init ==
    /\ next = InitialLists(1).next
    /\ used = InitialLists(1).used
    /\ head = InitialLists(1).head
    /\ tail = InitialLists(1).tail
    /\ count = InitialLists(1).count
    /\ gran = 1 /\ ldn = 0 /\ bank = 0
    /\ bram = InitialMap
    /\ reg = [l \in LD |-> NoMap]
    /\ data = [u \in Block |-> Clean]
    /\ bg = FALSE /\ zeroing = Null /\ late = {}
    /\ pc = "idle" /\ req = << >> /\ ld = 0 /\ left = 0 /\ src = 0 /\ dst = 0

Growth(r) == SumFunction([i \in DOMAIN r |-> IF r[i] > count[i] THEN r[i] - count[i] ELSE 0])

\* An orderly FM grows LDs or deletes them, never gives blocks to an LD that
\* has had blocks before, and always leaves a block free.  One that takes the
\* liberty "exhaust" asks for any number, also for more than a bank can map.
FMMaySet(r) ==
    /\ "shrink" \notin Liberties => \A i \in DOMAIN r : r[i] >= count[i] \/ r[i] = 0
    /\ "regrow" \notin Liberties =>
          \A i \in DOMAIN r : r[i] > 0 /\ count[i] = 0 => tail[i] = Null
    /\ "exhaust" \notin Liberties => Growth(r) < count[Free]

Begin(r) ==
    /\ req' = r
    /\ pc' = IF r = << >> THEN "drop" ELSE "ld"
    /\ ld' = 1
    /\ left' = 0
    /\ src' = bank * BankSize
    /\ dst' = (1 - bank) * BankSize

SetAllocation(r) ==
    /\ pc = "idle"
    /\ FMMaySet(r)
    /\ Begin(r)
    /\ UNCHANGED <<lists, gran, ldn, bank, bram, reg, memory, bg>>

\* cp_config_to_standby: the first n entries of the LD go to the other bank,
\* and beyond its end when the requested map is longer than a bank.
\* Bound: no run asks for so much that it leaves the BRAM.
CopyMap(n) ==
    bram' = [e \in Entry |-> IF e \in dst .. dst + n - 1 THEN bram[src + e - dst] ELSE bram[e]]

\* mutant: the source moves by the new size of the LD, not the old one
AllocateLdNewSize ==
    /\ pc = "ld"
    /\ src' = src + req[ld]
    /\ IF req[ld] >= count[ld]
       THEN /\ CopyMap(count[ld])
            /\ left' = req[ld] - count[ld]
            /\ pc' = "grow"
            /\ UNCHANGED bg
       ELSE /\ CopyMap(req[ld])
            /\ left' = count[ld] - req[ld]
            /\ pc' = "shrink"
            /\ bg' = TRUE
    /\ UNCHANGED <<lists, gran, ldn, bank, reg, memory, req, ld, dst>>

\* One turn of the loop over the LDs, up to the blocks it has to move.
AllocateLd ==
    /\ pc = "ld"
    /\ src' = src + count[ld]
    /\ IF req[ld] >= count[ld]
       THEN /\ CopyMap(count[ld])
            /\ left' = req[ld] - count[ld]
            /\ pc' = "grow"
            /\ UNCHANGED bg
       ELSE /\ CopyMap(req[ld])
            /\ left' = count[ld] - req[ld]
            /\ pc' = "shrink"
            /\ bg' = TRUE
    /\ UNCHANGED <<lists, gran, ldn, bank, reg, memory, req, ld, dst>>

\* add_pb_into_ldlist, one block.
AddBlock ==
    /\ pc = "grow" /\ left > 0
    /\ IF ListEmpty(Free)
       THEN /\ RemoveFails(Free)
            /\ left' = 0
            /\ UNCHANGED bram
       ELSE /\ Move(Free, ld, TRUE)
            /\ bram' = [bram EXCEPT ![dst + count[ld]] = head[Free] * gran]
            /\ left' = left - 1
    /\ UNCHANGED <<gran, ldn, bank, reg, memory, bg, pc, req, ld, src, dst>>

\* remove_pb_from_ldlist, one block: the CDMA is set to work on it.  The
\* handler does nothing more until it has finished.
RemoveBlock ==
    /\ pc \in {"shrink", "dropping"} /\ left > 0 /\ zeroing = Null
    /\ IF ListEmpty(ld)
       THEN /\ RemoveFails(ld)
            /\ left' = 0
            /\ UNCHANGED zeroing
       ELSE /\ Move(ld, Free, FALSE)
            /\ zeroing' = head[ld] * gran
            /\ left' = left - 1
    /\ UNCHANGED <<gran, ldn, bank, bram, reg, bg, data, late, pc, req, ld, src, dst>>

\* mutant: the handler polls a bit that does not come
ZeroBlockBusy ==
    /\ zeroing # Null
    /\ CleanBlock(zeroing)
    /\ late' = late \ {zeroing}
    /\ UNCHANGED <<lists, gran, ldn, bank, bram, reg, bg, zeroing, control>>

\* The CDMA has zeroed the block and says so in its status register, which the
\* handler polls without a bound (cdma_trans_exe).  A word that a host writes
\* is zeroed or not: it writes before or after this step.
ZeroBlock ==
    /\ zeroing # Null
    /\ CleanBlock(zeroing)
    /\ late' = late \ {zeroing}
    /\ zeroing' = Null
    /\ UNCHANGED <<lists, gran, ldn, bank, bram, reg, bg, control>>

\* mutant: counts LDs from zero
UpdateBackgroundFromZero ==
    IF bg /\ ldn = 0 THEN bg' \in BOOLEAN
                     ELSE bg' = (bg /\ ((ld - 1) * 100) \div ldn # 100)

\* mbox_update_bg_status: the operation ends when 100 percent are reached.  A
\* division by zero leaves any percentage.
UpdateBackground ==
    IF bg /\ ldn = 0 THEN bg' \in BOOLEAN
                     ELSE bg' = (bg /\ (ld * 100) \div ldn # 100)

\* The end of the turn for one LD.
FinishLd ==
    /\ pc \in {"grow", "shrink"} /\ left = 0 /\ zeroing = Null
    /\ UpdateBackground
    /\ IF ld = Len(req)
       THEN pc' = "register" /\ ld' = 1 /\ dst' = (1 - bank) * BankSize
       ELSE pc' = "ld" /\ ld' = ld + 1 /\ dst' = dst + req[ld]
    /\ UNCHANGED <<lists, gran, ldn, bank, bram, reg, memory, req, left, src>>

-----------------------------------------------------------------------------
(* set_register_all.                                                       *)

\* mutant: all registers get the start of the map
WriteRegisterSameBase ==
    /\ pc = "register"
    /\ reg' = [reg EXCEPT ![ld] = [blocks |-> req[ld], base |-> dst]]
    /\ ld' = ld + 1
    /\ pc' = IF ld = Len(req) THEN "drop" ELSE pc
    /\ UNCHANGED <<lists, gran, ldn, bank, bram, memory, bg, req, left, src, dst>>

WriteRegister ==
    /\ pc = "register"
    /\ reg' = [reg EXCEPT ![ld] = [blocks |-> req[ld], base |-> dst]]
    /\ dst' = dst + req[ld]
    /\ ld' = ld + 1
    /\ pc' = IF ld = Len(req) THEN "drop" ELSE pc
    /\ UNCHANGED <<lists, gran, ldn, bank, bram, memory, bg, req, left, src>>

\* LDs beyond the new number of LDs lose their blocks, then their register.
DropLd ==
    /\ pc = "drop" /\ ld <= ldn
    /\ bg' = TRUE
    /\ left' = count[ld]
    /\ pc' = "dropping"
    /\ UNCHANGED <<lists, gran, ldn, bank, bram, reg, memory, req, ld, src, dst>>

ClearRegister ==
    /\ pc = "dropping" /\ left = 0 /\ zeroing = Null
    /\ reg' = [reg EXCEPT ![ld] = NoMap]
    /\ UpdateBackground
    /\ ld' = ld + 1
    /\ pc' = "drop"
    /\ UNCHANGED <<lists, gran, ldn, bank, bram, memory, req, left, src, dst>>

\* mutant: pingpong_para is not counted
FinishSameBank ==
    /\ pc = "drop" /\ ld > ldn
    /\ ldn' = Len(req)
    /\ pc' = "idle" /\ req' = << >> /\ ld' = 0 /\ left' = 0 /\ src' = 0 /\ dst' = 0
    /\ UNCHANGED <<lists, gran, bank, bram, reg, memory, bg>>

\* mutant: pingpong_para is used without % 2
FinishNoModulo ==
    /\ pc = "drop" /\ ld > ldn
    /\ ldn' = Len(req)
    /\ bank' = bank + 1
    /\ pc' = "idle" /\ req' = << >> /\ ld' = 0 /\ left' = 0 /\ src' = 0 /\ dst' = 0
    /\ UNCHANGED <<lists, gran, bram, reg, memory, bg>>

Finish ==
    /\ pc = "drop" /\ ld > ldn
    /\ ldn' = Len(req)
    /\ bank' = 1 - bank
    /\ pc' = "idle" /\ req' = << >> /\ ld' = 0 /\ left' = 0 /\ src' = 0 /\ dst' = 0
    /\ UNCHANGED <<lists, gran, bram, reg, memory, bg>>

-----------------------------------------------------------------------------
(* Set granularity: resour_mgt_set_physical_block_granularity and          *)
(* init_after_change_granularity.                                          *)

\* resour_mgt_exec_get_cmd counts LDs up to the first register of value 0.
FoundLds == CHOOSE n \in 0 .. ldn :
                /\ \A i \in 1 .. n : reg[i] # NoMap
                /\ n < ldn => reg[n + 1] = NoMap

\* The rescaled numbers of blocks are kept in bytes.
SetGranularity(g) ==
    /\ pc = "idle"
    /\ "granularity" \in Liberties
    /\ g # gran
    /\ gran' = g
    /\ next' = InitialLists(g).next
    /\ used' = InitialLists(g).used
    /\ head' = InitialLists(g).head
    /\ tail' = InitialLists(g).tail
    /\ count' = InitialLists(g).count
    /\ IF FoundLds = 0
       THEN UNCHANGED control
       ELSE Begin([i \in 1 .. FoundLds |-> ((reg[i].blocks * gran) \div g) % 256])
    /\ UNCHANGED <<ldn, bank, bram, reg, memory, bg>>

\* The host of an LD writes, at any time, to all of the memory its addresses
\* reach: also to a block that the LD has lost, until its register changes.
HostWrite(l) ==
    /\ data' = [u \in Block |-> IF u \in Mapped(l) THEN l ELSE data[u]]
    /\ late' = (late \ Mapped(l)) \cup {u \in Mapped(l) : u \div gran \notin Nodes(l)}
    /\ UNCHANGED <<lists, gran, ldn, bank, bram, reg, bg, zeroing, control>>

Step == \/ AllocateLd \/ AddBlock \/ RemoveBlock \/ FinishLd
        \/ WriteRegister \/ DropLd \/ ClearRegister \/ Finish

\* Without changes of granularity, which come in FmMailbox.
Next ==
    \/ \E r \in Requests : SetAllocation(r)
    \/ Step
    \/ ZeroBlock
    \/ \E l \in Writers : HostWrite(l)

Spec == Init /\ [][Next]_vars
-----------------------------------------------------------------------------
(* Properties.                                                             *)

\* Every variable has its type; the counts of the LD lists never fall below
\* zero (the one of the free list may, see "exhaust").
TypeOK ==
    /\ next \in [Block -> Block \cup {Null}] /\ used \in [Block -> BOOLEAN]
    /\ head \in [Lists -> Block \cup {Null}] /\ tail \in [Lists -> Block \cup {Null}]
    /\ count \in [Lists -> Int] /\ \A l \in LD : count[l] >= 0
    /\ gran \in {1, 2, 4} /\ ldn \in 0 .. MaxLd /\ bank \in {0, 1}
    /\ bram \in [Entry -> Block \cup {Null}]
    /\ reg \in [LD -> [blocks : Nat, base : Nat]]
    /\ data \in [Block -> LD \cup {Clean}] /\ bg \in BOOLEAN
    /\ zeroing \in Block \cup {Null} /\ late \subseteq Block
    /\ pc \in {"idle", "ld", "grow", "shrink", "register", "drop", "dropping"}
    /\ req \in Seq(Nat) /\ Len(req) <= MaxLd
    /\ ld \in Nat /\ left \in Nat /\ src \in Nat /\ dst \in Nat

\* As long as the FM is orderly no block is lost and none is in two lists:
\* the first count nodes of the lists make up all blocks, each one once, and
\* is_used says whether a block is in the list of an LD (remove_list, insert;
\* the last node's next pointer is stale and so are head and tail of an
\* emptied list).
ListsPartition ==
    /\ UNION {Nodes(l) : l \in Lists} = Blocks
    /\ SumFunction(count) = Cardinality(Blocks)
    /\ \A b \in Blocks : used[b] <=> b \notin Nodes(Free)

\* No unit of memory is reachable from two LDs, not even while a command is
\* half done and some registers point into the new map and others into the
\* old one (set_register_all writes one register at a time).
Isolation ==
    \A l, m \in LD : l # m => Mapped(l) \cap Mapped(m) = {}

\* Between commands the map the hardware reads is what the lists say: the
\* entries of an LD are its blocks, in the order of its list
\* (cp_config_to_standby and add_pb_into_ldlist together rebuild the map).
MapMatchesLists ==
    pc = "idle" =>
        \A l \in LD :
            /\ reg[l].blocks = count[l]
            /\ \A n \in 1 .. count[l] : bram[reg[l].base + n - 1] = Node(l, n) * gran

\* What an LD can read is zero or its own, because a block is zeroed before
\* another LD gets it (remove_pb_from_ldlist), whatever the hosts write while
\* commands run.  Only what the host of a former owner writes between the
\* zeroing and the change of its register stays: the code does not stop it.
NoForeignData ==
    \A l \in LD : \A u \in Mapped(l) : data[u] \in {Clean, l} \/ u \in late

\* A block the map gives to an LD is marked used: the firmware does not count
\* it as free (node_list.h: "0: idle 1:used").
MappedBlocksUsed ==
    pc = "idle" => \A l \in LD : \A u \in Mapped(l) : used[u \div gran]

\* A block that leaves the list of an LD for the free list is one that the LD
\* had: no other LD is mapped to it ("remove count pbnode from ldlist").
RemovesOwnBlocks ==
    [][\A b \in Block : used[b] /\ ~used'[b] /\ pc \in {"shrink", "dropping"} =>
          \A l \in LD \ {ld} : b * gran \notin Mapped(l)]_vars

MapSize == SumFunction([l \in LD |-> reg[l].blocks])

\* A command never changes map entries that a register points to: it builds
\* the new map in the bank that is not in use (the ping-pong of
\* resour_mgt_exec_set_cmd), whatever the FM asked for before, as long as both
\* maps are no longer than a bank.  Nothing in the code sees to that: a longer
\* one runs into the other bank (resource_manager_config.c:177).
ActiveMapStable ==
    [][SumFunction(req) <= BankSize /\ MapSize <= BankSize =>
          \A l \in LD : \A e \in MapEntries(l) : bram'[e] = bram[e]]_vars

\* The background operation that a removal starts has ended when the command
\* is done, and the percentage is never computed from zero LDs
\* (mbox_update_bg_status divides by logic_device_number).
BackgroundEnds ==
    /\ pc = "idle" => ~bg
    /\ bg => ldn # 0
=============================================================================
