----------------------- MODULE ResourceManager_proofs -----------------------
(***************************************************************************)
(* Theorems about ResourceManager, for any memory, any number of LDs, any  *)
(* bank size and any requests.                                             *)
(***************************************************************************)
EXTENDS ResourceManager, Counting, TLAPS

-----------------------------------------------------------------------------
(* Where the map of an LD begins.                                          *)

Offset(r, l) == SumFunctionOnSet(r, 1 .. l - 1)

LEMMA OffsetStep ==
    ASSUME NEW r \in Seq(Nat), NEW l \in 1 .. Len(r)
    PROVE  /\ Offset(r, 1) = 0
           /\ Offset(r, l) \in Nat /\ r[l] \in Nat
           /\ Offset(r, l + 1) = Offset(r, l) + r[l]
           /\ Offset(r, l) + r[l] <= SumFunction(r)
           /\ SumFunction(r) \in Nat
<1>. DEFINE S == 1 .. Len(r)
            T == 1 .. l
<1>1. /\ IsFiniteSet(S) /\ IsFiniteSet(T) /\ T \in SUBSET S /\ l \in T
      /\ \A x \in S : r[x] \in Nat /\ r[x] \in Int
      /\ \A x \in T : r[x] \in Nat /\ r[x] \in Int
      /\ DOMAIN r = S
  <2>1. IsFiniteSet(S) /\ IsFiniteSet(T)
    BY FS_Interval
  <2>. QED
    BY <2>1
<1>2. T \ {l} = 1 .. l - 1 /\ T \ {l} \in SUBSET S /\ 1 .. (1 - 1) = {}
  OBVIOUS
<1>3. T = 1 .. (l + 1) - 1
  OBVIOUS
<1>. HIDE DEF S, T
<1>4. SumFunctionOnSet(r, T) = r[l] + SumFunctionOnSet(r, T \ {l})
  BY <1>1, SumRemove
<1>5. /\ SumFunctionOnSet(r, T) <= SumFunctionOnSet(r, S)
      /\ SumFunctionOnSet(r, S) \in Nat
  BY <1>1, SumPart
<1>6. SumFunctionOnSet(r, T \ {l}) \in Nat
  BY <1>1, <1>2, SumPart
<1>7. SumFunctionOnSet(r, {}) = 0
  BY SumEmpty
<1>8. Offset(r, l) = SumFunctionOnSet(r, T \ {l})
  BY <1>2 DEF Offset
<1>9. Offset(r, l + 1) = SumFunctionOnSet(r, T)
  BY <1>3 DEF Offset
<1>10. Offset(r, 1) = 0
  BY <1>2, <1>7 DEF Offset
<1>11. SumFunction(r) = SumFunctionOnSet(r, S)
  BY <1>1 DEF SumFunction
<1>12. r[l] \in Nat
  BY <1>1 DEF S
<1>. QED
  BY <1>4, <1>5, <1>6, <1>8, <1>9, <1>10, <1>11, <1>12

\* The maps of two LDs do not overlap.
LEMMA OffsetsApart ==
    ASSUME NEW r \in Seq(Nat), NEW l \in 1 .. Len(r), NEW m \in 1 .. Len(r), l < m
    PROVE  Offset(r, l) + r[l] <= Offset(r, m)
<1>. DEFINE S == 1 .. m - 1
            T == 1 .. l
<1>1. /\ IsFiniteSet(S) /\ T \in SUBSET S
      /\ \A x \in S : r[x] \in Nat
      /\ T = 1 .. (l + 1) - 1
  <2>1. IsFiniteSet(S)
    BY FS_Interval
  <2>. QED
    BY <2>1
<1>2. SumFunctionOnSet(r, T) <= SumFunctionOnSet(r, S)
  BY <1>1, SumPart
<1>3. Offset(r, l + 1) = SumFunctionOnSet(r, T)
  BY <1>1 DEF Offset
<1>. QED
  BY <1>2, <1>3, OffsetStep DEF Offset

-----------------------------------------------------------------------------
(* The command and the registers.  They do not depend on what the lists    *)
(* hold, and so these facts are true of any FM and of any granularity.     *)

\* The banks that the registers point into, and that the map is built in.
Active  == bank * BankSize
Standby == (1 - bank) * BankSize

\* The register of LD l has been written by this command.
Built(l) == \/ pc = "register" /\ l < ld
            \/ pc \in {"drop", "dropping"} /\ l <= Len(req)

\* No register has been written yet by this command.
Waiting == pc \in {"idle", "ld", "grow", "shrink"}

RegBlocks == [l \in LD |-> reg[l].blocks]

CommandType ==
    /\ bank \in {0, 1} /\ ldn \in 0 .. MaxLd /\ gran \in {1, 2, 4}
    /\ req \in Seq(Nat) /\ Len(req) <= MaxLd
    /\ pc \in {"idle", "ld", "grow", "shrink", "register", "drop", "dropping"}
    /\ ld \in Nat /\ left \in Nat /\ src \in Nat /\ dst \in Nat
    /\ count \in [Lists -> Int] /\ \A l \in LD : count[l] >= 0
    /\ reg \in [LD -> [blocks : Nat, base : Nat]]
    /\ DOMAIN bram = Entry

\* What ld and dst are in each phase.
Place ==
    /\ pc = "idle" => req = << >>
    /\ pc \in {"ld", "grow", "shrink", "register"} =>
          ld \in 1 .. Len(req) /\ dst = Standby + Offset(req, ld)
    /\ pc = "drop" => ld \in Len(req) + 1 .. MaxLd + 1
    /\ pc = "dropping" => ld \in Len(req) + 1 .. ldn

\* The blocks still to be moved are no more than the LD lacks or has.
Remaining ==
    /\ pc = "grow" => count[ld] + left <= req[ld]
    /\ pc \in {"shrink", "dropping"} => left <= count[ld]

Control == CommandType /\ Place /\ Remaining

\* The registers written so far point into the new map; before the first one
\* is written, the maps they point to follow each other in the bank in use.
\* LDs that are not configured have no blocks.
Registers ==
    \A l \in LD :
        IF Built(l) THEN reg[l] = [blocks |-> req[l], base |-> Standby + Offset(req, l)]
        ELSE /\ Waiting /\ reg[l].blocks # 0 => reg[l].base = Active + Offset(RegBlocks, l)
             /\ l > ldn \/ (pc \in {"drop", "dropping"} /\ l < ld) => reg[l].blocks = 0

CommandInv == Control /\ Registers

LEMMA Constants ==
    /\ Units \in Nat /\ Units > 0 /\ MaxLd \in Nat /\ MaxLd > 0
    /\ BankSize \in Nat /\ BankSize > 0 /\ Units <= BankSize
    /\ BramSize \in Nat /\ 2 * BankSize <= BramSize /\ Grans \subseteq {1, 2, 4}
BY PoolAssumption

LEMMA Banks ==
    ASSUME bank \in {0, 1}
    PROVE  /\ Active = IF bank = 0 THEN 0 ELSE BankSize
           /\ Standby = IF bank = 0 THEN BankSize ELSE 0
<1>1. CASE bank = 0
  BY <1>1, Constants DEF Active, Standby
<1>2. CASE bank = 1
  BY <1>2, Constants DEF Active, Standby
<1>. QED
  BY <1>1, <1>2

LEMMA FoundLdsType ==
    ldn \in Nat => /\ FoundLds \in 0 .. ldn
                   /\ \A i \in 1 .. FoundLds : reg[i] # NoMap
                   /\ FoundLds < ldn => reg[FoundLds + 1] = NoMap
<1>. DEFINE Found(n) == /\ \A i \in 1 .. n : reg[i] # NoMap
                        /\ n < ldn => reg[n + 1] = NoMap
<1>. SUFFICES ASSUME ldn \in Nat PROVE FoundLds \in 0 .. ldn /\ Found(FoundLds)
  OBVIOUS
<1>. DEFINE Empty == {n \in 0 .. ldn : n < ldn => reg[n + 1] = NoMap}
<1>1. ldn \in Empty /\ Empty \in SUBSET Nat
  OBVIOUS
<1>2. PICK n \in Empty : \A m \in Empty : n <= m
  <2>. HIDE DEF Empty
  <2>. QED
    BY <1>1, LeastMember
<1>3. n \in 0 .. ldn /\ (n < ldn => reg[n + 1] = NoMap)
  OBVIOUS
<1>4. ASSUME NEW i \in 1 .. n PROVE reg[i] # NoMap
  <2>1. i - 1 \in 0 .. ldn /\ i - 1 < n /\ (i - 1) + 1 = i /\ i - 1 < ldn
    BY <1>3
  <2>2. i - 1 \notin Empty
    BY <1>2, <2>1
  <2>. QED
    BY <2>1, <2>2
<1>5. n \in 0 .. ldn /\ Found(n)
  BY <1>3, <1>4
<1>6. FoundLds = CHOOSE m \in 0 .. ldn : Found(m)
  BY DEF FoundLds
<1>. HIDE DEF Found
<1>. QED
  BY <1>5, <1>6

LEMMA BeginCommand ==
    ASSUME CommandInv, pc = "idle",
           NEW r \in Seq(Nat), Len(r) <= MaxLd, NEW g \in {1, 2, 4}, gran' = g,
           Begin(r), UNCHANGED <<ldn, bank, bram, reg>>,
           count' \in [Lists -> Int], \A l \in LD : count'[l] >= 0
    PROVE  CommandInv'
<1>. USE DEF CommandInv, Control, CommandType, Place, Remaining
<1>1. pc' \in {"ld", "drop"} /\ (pc' = "drop" <=> r = << >>) /\ ld' = 1 /\ req' = r /\ left' = 0
  BY DEF Begin
<1>2. src' \in Nat /\ dst' \in Nat /\ dst' = Standby'
  BY Constants DEF Begin, Standby
<1>3. r # << >> => 1 \in 1 .. Len(r) /\ Offset(r, 1) = 0
  <2>1. r # << >> => 1 \in 1 .. Len(r)
    OBVIOUS
  <2>. QED
    BY <2>1, OffsetStep
<1>4. Control'
  <2>1. pc' = "ld" => ld' \in 1 .. Len(req') /\ dst' = Standby' + Offset(req', ld')
    BY <1>1, <1>2, <1>3, Constants, Banks DEF Standby
  <2>2. pc' = "drop" => ld' \in Len(req') + 1 .. MaxLd + 1
    BY <1>1, Constants
  <2>. QED
    BY <1>1, <1>2, <2>1, <2>2
<1>5. Registers'
  <2>1. \A l \in LD : ~Built(l)
    BY DEF Built
  <2>2. \A l \in LD : ~Built(l)'
    BY <1>1 DEF Built, LD
  <2>3. Active' = Active /\ \A l \in LD : Offset(RegBlocks, l)' = Offset(RegBlocks, l)
    BY DEF Active, RegBlocks, Offset
  <2>4. Waiting /\ \A l \in LD : ~(pc' = "drop" /\ l < ld')
    BY <1>1 DEF Waiting, LD
  <2>. QED
    BY <1>1, <2>1, <2>2, <2>3, <2>4 DEF Registers
<1>. QED
  BY <1>4, <1>5

LEMMA SetAllocationCommand ==
    ASSUME CommandInv, NEW r \in Requests, SetAllocation(r)
    PROVE  CommandInv'
<1>1. r \in Seq(Nat) /\ Len(r) <= MaxLd
  BY RequestAssumption
<1>2. gran \in {1, 2, 4} /\ count' = count /\ pc = "idle" /\ gran' = gran
  BY DEF CommandInv, Control, CommandType, SetAllocation, lists
<1>3. Begin(r) /\ UNCHANGED <<ldn, bank, bram, reg>>
  BY DEF SetAllocation
<1>4. count' \in [Lists -> Int] /\ \A l \in LD : count'[l] >= 0
  BY <1>2 DEF CommandInv, Control, CommandType
<1>. QED
  BY <1>1, <1>2, <1>3, <1>4, BeginCommand

LEMMA InitialCounts ==
    ASSUME NEW g \in {1, 2, 4}
    PROVE  /\ InitialLists(g).count \in [Lists -> Int]
           /\ \A l \in LD : InitialLists(g).count[l] = 0
<1>1. (Units \div g) - 1 + 1 \in Int
  BY Constants
<1>2. InitialLists(g).count = [l \in Lists |-> IF l = Free THEN (Units \div g) - 1 + 1 ELSE 0]
  BY DEF InitialLists
<1>. QED
  BY <1>1, <1>2 DEF Lists, LD, Free

LEMMA SetGranularityCommand ==
    ASSUME CommandInv, NEW g \in Grans, SetGranularity(g)
    PROVE  CommandInv'
<1>. USE DEF CommandInv, Control, CommandType, Place, Remaining
<1>0. g \in {1, 2, 4} /\ gran \in {1, 2, 4}
  BY Constants
<1>1. count' = InitialLists(g).count /\ pc = "idle" /\ gran' = g
      /\ UNCHANGED <<ldn, bank, bram, reg>>
  BY DEF SetGranularity
<1>2. count' \in [Lists -> Int] /\ \A l \in LD : count'[l] >= 0
  BY <1>0, <1>1, InitialCounts
<1>3. FoundLds \in 0 .. ldn /\ FoundLds' = FoundLds
  BY <1>1, FoundLdsType DEF FoundLds
<1>4. CASE FoundLds = 0
  <2>1. UNCHANGED <<pc, req, ld, left, src, dst>>
    BY <1>4 DEF SetGranularity, control
  <2>2. Control'
    BY <1>0, <1>1, <1>2, <2>1, Constants DEF Standby
  <2>3. Registers'
    <3>1. \A l \in LD : /\ Built(l)' = Built(l)
                        /\ Offset(req, l)' = Offset(req, l)
                        /\ Offset(RegBlocks, l)' = Offset(RegBlocks, l)
      BY <1>1, <2>1 DEF Built, Offset, RegBlocks
    <3>. QED
      BY <1>1, <2>1, <3>1 DEF Registers, Standby, Active, Waiting
  <2>. QED
    BY <2>2, <2>3
<1>5. CASE FoundLds # 0
  <2>. DEFINE n == FoundLds
              r == [i \in 1 .. n |-> ((reg[i].blocks * gran) \div g) % 256]
  <2>1. Begin(r)
    BY <1>5 DEF SetGranularity
  <2>2. n \in Nat /\ n <= MaxLd /\ \A i \in 1 .. n : i \in LD
    BY <1>3, Constants DEF LD
  <2>3. r \in Seq(Nat) /\ Len(r) <= MaxLd
    <3>1. \A i \in 1 .. n : ((reg[i].blocks * gran) \div g) % 256 \in Nat
      <4>. SUFFICES ASSUME NEW i \in 1 .. n
                    PROVE  ((reg[i].blocks * gran) \div g) % 256 \in Nat
        OBVIOUS
      <4>1. reg[i].blocks \in Nat
        BY <2>2
      <4>2. reg[i].blocks * gran \in Nat
        BY <1>0, <4>1
      <4>3. (reg[i].blocks * gran) \div g \in Nat
        <5>1. \A b \in Nat : b \div g \in Nat
          BY <1>0
        <5>. QED
          BY <4>2, <5>1
      <4>. QED
        <5>1. \A b \in Nat : b % 256 \in Nat
          OBVIOUS
        <5>. QED
          BY <4>3, <5>1
    <3>2. r \in [1 .. n -> Nat]
      BY <3>1
    <3>. HIDE DEF r, n
    <3>. QED
      BY <2>2, <3>2
  <2>. HIDE DEF r, n
  <2>. QED
    BY <1>0, <1>1, <1>2, <2>1, <2>3, BeginCommand
<1>. QED
  BY <1>4, <1>5

LEMMA InitCommand == Init => CommandInv
<1>. SUFFICES ASSUME Init PROVE CommandInv
  OBVIOUS
<1>1. Control
  <2>1. count \in [Lists -> Int] /\ \A l \in LD : count[l] = 0
    BY InitialCounts DEF Init
  <2>2. req \in Seq(Nat) /\ Len(req) = 0
    BY DEF Init
  <2>3. reg \in [LD -> [blocks : Nat, base : Nat]]
    BY DEF Init, NoMap
  <2>. QED
    BY <2>1, <2>2, <2>3, Constants DEF Control, CommandType, Place, Remaining, Init, InitialMap
<1>2. Registers
  BY DEF Registers, Built, NoMap, Init
<1>. QED
  BY <1>1, <1>2 DEF CommandInv

LEMMA LdLists == Free \in Lists /\ \A l \in LD : l \in Lists /\ l # Free /\ l \in Nat
BY Constants DEF LD, Lists, Free

\* The LD that a phase works on.
LEMMA PresentLd ==
    ASSUME Control
    PROVE  /\ \A l \in LD : count[l] \in Nat
           /\ pc \in {"ld", "grow", "shrink", "register"} =>
                 ld \in LD /\ ld \in 1 .. Len(req) /\ req[ld] \in Nat
           /\ pc = "dropping" => ld \in LD
<1>1. ASSUME NEW l \in LD PROVE count[l] \in Nat
  <2>1. count[l] \in Int /\ count[l] >= 0
    BY LdLists DEF Control, CommandType
  <2>. QED
    BY <2>1
<1>2. ASSUME pc \in {"ld", "grow", "shrink", "register"}
      PROVE  ld \in LD /\ ld \in 1 .. Len(req) /\ req[ld] \in Nat
  <2>1. ld \in 1 .. Len(req)
    BY <1>2 DEF Control, Place
  <2>2. req \in Seq(Nat) /\ Len(req) \in Nat /\ Len(req) <= MaxLd
    BY DEF Control, CommandType
  <2>3. req[ld] \in Nat
    BY <2>1, <2>2
  <2>. QED
    BY <2>1, <2>2, <2>3, Constants DEF LD
<1>3. ASSUME pc = "dropping" PROVE ld \in LD
  BY <1>3, Constants DEF Control, CommandType, Place, LD
<1>. QED
  BY <1>1, <1>2, <1>3

\* A step that leaves request, registers, phase and LD as they are.
LEMMA RegistersKept ==
    ASSUME Registers,
           UNCHANGED <<ldn, bank, reg, req, ld, pc>>
    PROVE  Registers'
<1>1. \A l \in LD : /\ Built(l)' = Built(l)
                    /\ (Standby + Offset(req, l))' = Standby + Offset(req, l)
                    /\ (Active + Offset(RegBlocks, l))' = Active + Offset(RegBlocks, l)
  BY DEF Built, Active, Standby, Offset, RegBlocks
<1>. QED
  BY <1>1 DEF Registers, Waiting

LEMMA AllocateLdCommand ==
    ASSUME CommandInv, AllocateLd
    PROVE  CommandInv'
<1>. USE DEF CommandInv, Control
<1>1. /\ pc = "ld" /\ src' = src + count[ld]
      /\ UNCHANGED <<count, gran, ldn, bank, reg, req, ld, dst>>
  BY DEF AllocateLd, lists
<1>2. ld \in LD /\ ld \in 1 .. Len(req) /\ count[ld] \in Nat /\ req[ld] \in Nat
  BY <1>1, PresentLd
<1>3. \/ pc' = "grow" /\ left' = req[ld] - count[ld] /\ req[ld] >= count[ld]
      \/ pc' = "shrink" /\ left' = count[ld] - req[ld] /\ ~(req[ld] >= count[ld])
  BY DEF AllocateLd
<1>4. DOMAIN bram' = Entry
  BY DEF AllocateLd, CopyMap
<1>5. left' \in Nat /\ src' \in Nat
  <2>1. src \in Nat
    BY DEF CommandType
  <2>2. left' \in Nat
    BY ONLY <1>2, <1>3
  <2>. QED
    BY ONLY <1>1, <1>2, <2>1, <2>2
<1>6. CommandType'
  BY <1>1, <1>3, <1>4, <1>5 DEF CommandType
<1>7. Place'
  <2>1. Standby' = Standby /\ dst = Standby + Offset(req, ld)
    BY <1>1 DEF Standby, Place
  <2>. QED
    BY <1>1, <1>2, <1>3, <2>1 DEF Place
<1>8. Remaining'
  BY <1>1, <1>2, <1>3 DEF Remaining
<1>9. Registers'
  BY <1>1, <1>3 DEF Registers, Built, Waiting, Active, RegBlocks, Offset
<1>. QED
  BY <1>6, <1>7, <1>8, <1>9

\* What a moved block does to the counts.
LEMMA MoveCounts ==
    ASSUME count \in [Lists -> Int], NEW from \in Lists, NEW to \in Lists, from # to,
           NEW inUse, Move(from, to, inUse)
    PROVE  /\ count' \in [Lists -> Int]
           /\ count'[from] = count[from] - 1 /\ count'[to] = count[to] + 1
           /\ \A l \in Lists \ {from, to} : count'[l] = count[l]
BY DEF Move

LEMMA AddBlockCommand ==
    ASSUME CommandInv, AddBlock
    PROVE  CommandInv'
<1>. USE DEF CommandInv, Control
<1>1. /\ pc = "grow" /\ left > 0
      /\ UNCHANGED <<gran, ldn, bank, reg, req, ld, pc, src, dst>>
  BY DEF AddBlock
<1>2. /\ ld \in LD /\ ld \in 1 .. Len(req) /\ req[ld] \in Nat
      /\ \A l \in LD : count[l] \in Nat
  BY <1>1, PresentLd
<1>3. count[ld] + left <= req[ld] /\ left \in Nat /\ count \in [Lists -> Int]
  BY <1>1 DEF Remaining, CommandType
<1>4. Registers'
  BY <1>1, RegistersKept
<1>5. Place'
  BY <1>1 DEF Place, Standby
<1>6. CASE ListEmpty(Free)
  <2>1. count' = count /\ left' = 0 /\ bram' = bram
    BY <1>6 DEF AddBlock, RemoveFails
  <2>2. CommandType'
    BY <1>1, <2>1 DEF CommandType
  <2>3. Remaining'
    BY <1>1, <1>2, <1>3, <2>1 DEF Remaining
  <2>. QED
    BY <1>4, <1>5, <2>2, <2>3
<1>7. CASE ~ListEmpty(Free)
  <2>1. Move(Free, ld, TRUE) /\ left' = left - 1 /\ DOMAIN bram' = DOMAIN bram
    BY <1>7 DEF AddBlock
  <2>2. /\ count' \in [Lists -> Int]
        /\ count'[ld] = count[ld] + 1
        /\ \A l \in LD : l # ld => count'[l] = count[l]
    <3>1. /\ Free \in Lists /\ ld \in Lists /\ Free # ld
          /\ \A l \in LD : l # ld => l \in Lists \ {Free, ld}
      BY <1>2, LdLists
    <3>2. /\ count' \in [Lists -> Int] /\ count'[ld] = count[ld] + 1
          /\ \A l \in Lists \ {Free, ld} : count'[l] = count[l]
      BY <1>3, <2>1, <3>1, MoveCounts
    <3>. QED
      BY <3>1, <3>2
  <2>3. left' \in Nat /\ count'[ld] + left' <= req[ld] /\ \A l \in LD : count'[l] >= 0
    BY <1>1, <1>2, <1>3, <2>1, <2>2
  <2>4. CommandType'
    BY <1>1, <2>1, <2>2, <2>3 DEF CommandType
  <2>5. Remaining'
    BY <1>1, <2>3 DEF Remaining
  <2>. QED
    BY <1>4, <1>5, <2>4, <2>5
<1>. QED
  BY <1>6, <1>7

LEMMA RemoveBlockCommand ==
    ASSUME CommandInv, RemoveBlock
    PROVE  CommandInv'
<1>. USE DEF CommandInv, Control
<1>1. /\ pc \in {"shrink", "dropping"} /\ left > 0
      /\ UNCHANGED <<gran, ldn, bank, bram, reg, req, ld, pc, src, dst>>
  BY DEF RemoveBlock
<1>2. ld \in LD /\ \A l \in LD : count[l] \in Nat
  BY <1>1, PresentLd
<1>3. left <= count[ld] /\ left \in Nat /\ count \in [Lists -> Int]
  BY <1>1 DEF Remaining, CommandType
<1>4. Registers'
  BY <1>1, RegistersKept
<1>5. Place'
  BY <1>1 DEF Place, Standby
<1>6. CASE ListEmpty(ld)
  <2>1. count' = count /\ left' = 0
    BY <1>6 DEF RemoveBlock, RemoveFails
  <2>2. CommandType'
    BY <1>1, <2>1 DEF CommandType
  <2>3. Remaining'
    BY <1>1, <1>2, <2>1 DEF Remaining
  <2>. QED
    BY <1>4, <1>5, <2>2, <2>3
<1>7. CASE ~ListEmpty(ld)
  <2>1. Move(ld, Free, FALSE) /\ left' = left - 1
    BY <1>7 DEF RemoveBlock
  <2>2. /\ count' \in [Lists -> Int]
        /\ count'[ld] = count[ld] - 1
        /\ \A l \in LD : l # ld => count'[l] = count[l]
    <3>1. ld \in Lists /\ Free \in Lists /\ ld # Free /\ \A l \in LD : l \in Lists \ {Free}
      BY <1>2, LdLists
    <3>. QED
      BY <1>3, <2>1, <3>1 DEF Move
  <2>3. left' \in Nat /\ left' <= count'[ld] /\ \A l \in LD : count'[l] >= 0
    BY <1>1, <1>2, <1>3, <2>1, <2>2
  <2>4. CommandType'
    BY <1>1, <2>1, <2>2, <2>3 DEF CommandType
  <2>5. Remaining'
    BY <1>1, <2>3 DEF Remaining
  <2>. QED
    BY <1>4, <1>5, <2>4, <2>5
<1>. QED
  BY <1>6, <1>7

LEMMA FinishLdCommand ==
    ASSUME CommandInv, FinishLd
    PROVE  CommandInv'
<1>. USE DEF CommandInv, Control
<1>1. /\ pc \in {"grow", "shrink"} /\ left = 0
      /\ UNCHANGED <<count, gran, ldn, bank, bram, reg, req, left, src>>
  BY DEF FinishLd, lists
<1>2. /\ ld \in LD /\ ld \in 1 .. Len(req) /\ req[ld] \in Nat
      /\ dst = Standby + Offset(req, ld) /\ req \in Seq(Nat) /\ Len(req) \in Nat
      /\ ld \in Nat
  BY <1>1, PresentLd DEF Place, CommandType
<1>3. Standby' = Standby /\ Standby \in Nat
  <2>1. bank \in {0, 1}
    BY DEF CommandType
  <2>. QED
    BY <1>1, <2>1, Banks, Constants DEF Standby
<1>4. /\ Offset(req, 1) = 0 /\ Offset(req, ld) \in Nat
      /\ Offset(req, ld + 1) = Offset(req, ld) + req[ld]
  BY <1>2, OffsetStep
<1>5. CASE ld = Len(req)
  <2>1. pc' = "register" /\ ld' = 1 /\ dst' = Standby
    BY <1>5 DEF FinishLd, Standby
  <2>2. CommandType'
    BY <1>1, <1>3, <2>1 DEF CommandType
  <2>3. ld' \in 1 .. Len(req') /\ dst' = Standby' + Offset(req', ld')
    BY <1>1, <1>2, <1>3, <1>4, <2>1
  <2>4. Place'
    BY <2>1, <2>3 DEF Place
  <2>5. Registers'
    <3>1. \A l \in LD : ~(l < 1)
      BY DEF LD
    <3>2. \A l \in LD : ~Built(l) /\ ~Built(l)'
      BY <1>1, <2>1, <3>1 DEF Built
    <3>. QED
      BY <1>1, <2>1, <3>2 DEF Registers, Waiting
  <2>. QED
    BY <2>1, <2>2, <2>4, <2>5 DEF Remaining
<1>6. CASE ld # Len(req)
  <2>1. pc' = "ld" /\ ld' = ld + 1 /\ dst' = dst + req[ld]
    BY <1>6 DEF FinishLd
  <2>2. dst' \in Nat /\ ld' \in Nat
    <3>1. dst \in Nat /\ ld \in Nat /\ req[ld] \in Nat
      BY <1>2 DEF CommandType
    <3>. QED
      BY ONLY <2>1, <3>1
  <2>3. CommandType'
    BY <1>1, <2>1, <2>2 DEF CommandType
  <2>4. ld' \in 1 .. Len(req') /\ dst' = Standby' + Offset(req', ld')
    <3>1. ld' \in 1 .. Len(req') /\ req' = req /\ Standby' = Standby
      BY <1>1, <1>2, <1>3, <1>6, <2>1
    <3>2. ld \in 1 .. Len(req) /\ Offset(req', ld') = Offset(req, ld) + req[ld]
      BY ONLY <1>2, <1>4, <2>1, <3>1
    <3>3. dst = Standby + Offset(req, ld) /\ dst' = dst + req[ld]
      BY ONLY <1>2, <2>1
    <3>4. Offset(req, ld) \in Nat /\ req[ld] \in Nat /\ Standby \in Nat
      BY ONLY <1>2, <1>3, <1>4
    <3>. QED
      BY ONLY <3>1, <3>2, <3>3, <3>4
  <2>5. Place'
    BY <2>1, <2>4 DEF Place
  <2>6. Registers'
    BY <1>1, <2>1 DEF Registers, Built, Waiting, Active, RegBlocks, Offset, LD
  <2>. QED
    BY <2>1, <2>3, <2>5, <2>6 DEF Remaining
<1>. QED
  BY <1>5, <1>6

LEMMA WriteRegisterCommand ==
    ASSUME CommandInv, WriteRegister
    PROVE  CommandInv'
<1>. USE DEF CommandInv, Control
<1>1. /\ pc = "register" /\ ld' = ld + 1 /\ dst' = dst + req[ld]
      /\ reg' = [reg EXCEPT ![ld] = [blocks |-> req[ld], base |-> dst]]
      /\ pc' = IF ld = Len(req) THEN "drop" ELSE "register"
      /\ UNCHANGED <<count, gran, ldn, bank, bram, req, left, src>>
  BY DEF WriteRegister, lists
<1>2. /\ ld \in LD /\ ld \in 1 .. Len(req) /\ req[ld] \in Nat
      /\ dst = Standby + Offset(req, ld) /\ req \in Seq(Nat) /\ Len(req) \in Nat
      /\ ld \in Nat /\ dst \in Nat /\ Len(req) <= MaxLd
  BY <1>1, PresentLd DEF Place, CommandType
<1>3. Standby' = Standby /\ Standby \in Nat
  <2>1. bank \in {0, 1}
    BY DEF CommandType
  <2>. QED
    BY <1>1, <2>1, Banks, Constants DEF Standby
<1>4. /\ Offset(req, ld) \in Nat
      /\ Offset(req, ld + 1) = Offset(req, ld) + req[ld]
  BY <1>2, OffsetStep
<1>5. CommandType'
  <2>1. reg' \in [LD -> [blocks : Nat, base : Nat]]
    BY <1>1, <1>2 DEF CommandType
  <2>2. dst' \in Nat /\ ld' \in Nat
    BY <1>1, <1>2
  <2>. QED
    BY <1>1, <2>1, <2>2 DEF CommandType
<1>6. Place'
  <2>1. CASE ld = Len(req)
    BY <1>1, <1>2, <2>1, Constants DEF Place
  <2>2. CASE ld # Len(req)
    <3>1. ld' \in 1 .. Len(req') /\ req' = req /\ Standby' = Standby
      BY <1>1, <1>2, <1>3, <2>2
    <3>2. dst' = Standby' + Offset(req', ld')
      <4>1. ld' = ld + 1 /\ dst' = dst + req[ld] /\ Offset(req', ld') = Offset(req, ld + 1)
        BY <1>1, <3>1
      <4>2. /\ dst = Standby + Offset(req, ld) /\ Offset(req, ld) \in Nat
            /\ req[ld] \in Nat /\ Standby \in Nat
        BY <1>2, <1>3, <1>4
      <4>. QED
        BY <1>4, <3>1, <4>1, <4>2
    <3>. QED
      BY <1>1, <2>2, <3>1, <3>2 DEF Place
  <2>. QED
    BY <2>1, <2>2
<1>7. Remaining'
  BY <1>1 DEF Remaining
<1>8. Registers'
  <2>. SUFFICES ASSUME NEW l \in LD
                PROVE  IF Built(l)' THEN reg'[l] = [blocks |-> req[l], base |-> Standby + Offset(req, l)]
                       ELSE l > ldn \/ (pc' \in {"drop", "dropping"} /\ l < ld') => reg'[l].blocks = 0
    BY <1>1, <1>3 DEF Registers, Waiting, Offset
  <2>0. l \in Nat
    BY LdLists
  <2>1. CASE l = ld
    <3>1. Built(l)'
      BY <1>1, <1>2, <2>1 DEF Built
    <3>2. reg'[l] = [blocks |-> req[ld], base |-> dst]
      BY <1>1, <2>1 DEF CommandType
    <3>. QED
      BY <1>2, <2>1, <3>1, <3>2
  <2>2. CASE l # ld
    <3>1. reg'[l] = reg[l]
      BY <1>1, <2>2 DEF CommandType
    <3>2. Built(l)' = Built(l)
      <4>1. Built(l)' <=> Built(l)
        BY <1>1, <1>2, <2>0, <2>2 DEF Built
      <4>. QED
        BY <4>1 DEF Built
    <3>3. pc' = "drop" /\ l < ld' => Built(l)'
      BY <1>1, <1>2, <2>0, <2>2 DEF Built
    <3>. QED
      BY <1>1, <3>1, <3>2, <3>3 DEF Registers
  <2>. QED
    BY <2>1, <2>2
<1>. QED
  BY <1>5, <1>6, <1>7, <1>8

LEMMA DropLdCommand ==
    ASSUME CommandInv, DropLd
    PROVE  CommandInv'
<1>. USE DEF CommandInv, Control
<1>1. /\ pc = "drop" /\ pc' = "dropping" /\ ld <= ldn /\ left' = count[ld]
      /\ UNCHANGED <<count, gran, ldn, bank, bram, reg, req, ld, src, dst>>
  BY DEF DropLd, lists
<1>2. /\ ld \in Len(req) + 1 .. MaxLd + 1 /\ ldn \in 0 .. MaxLd /\ ld \in Nat
      /\ Len(req) \in Nat
  BY <1>1 DEF Place, CommandType
<1>3. ld \in LD /\ ld \in Len(req) + 1 .. ldn /\ count[ld] \in Nat
  <2>1. ld \in LD /\ ld \in Len(req) + 1 .. ldn
    BY <1>1, <1>2, Constants DEF LD
  <2>. QED
    BY <2>1, PresentLd
<1>4. CommandType'
  BY <1>1, <1>3 DEF CommandType
<1>5. Place' /\ Remaining'
  BY <1>1, <1>3 DEF Place, Remaining
<1>6. Registers'
  BY <1>1 DEF Registers, Built, Waiting, Standby
<1>. QED
  BY <1>4, <1>5, <1>6

LEMMA ClearRegisterCommand ==
    ASSUME CommandInv, ClearRegister
    PROVE  CommandInv'
<1>. USE DEF CommandInv, Control
<1>1. /\ pc = "dropping" /\ pc' = "drop" /\ ld' = ld + 1
      /\ reg' = [reg EXCEPT ![ld] = NoMap]
      /\ UNCHANGED <<count, gran, ldn, bank, bram, req, left, src, dst>>
  BY DEF ClearRegister, lists
<1>2. /\ ld \in Len(req) + 1 .. ldn /\ ldn \in 0 .. MaxLd /\ ld \in Nat /\ ld \in LD
      /\ Len(req) \in Nat
  BY <1>1, PresentLd DEF Place, CommandType
<1>3. CommandType'
  <2>1. reg' \in [LD -> [blocks : Nat, base : Nat]]
    BY <1>1, <1>2 DEF CommandType, NoMap
  <2>. QED
    BY <1>1, <1>2, <2>1 DEF CommandType
<1>4. Place' /\ Remaining'
  BY <1>1, <1>2, Constants DEF Place, Remaining
<1>5. Registers'
  <2>. SUFFICES ASSUME NEW l \in LD
                PROVE  IF Built(l)' THEN reg'[l] = [blocks |-> req[l], base |-> Standby + Offset(req, l)]
                       ELSE l > ldn \/ (pc' \in {"drop", "dropping"} /\ l < ld') => reg'[l].blocks = 0
    BY <1>1 DEF Registers, Waiting, Standby, Offset
  <2>0. l \in Nat
    BY LdLists
  <2>1. CASE l = ld
    <3>1. ~Built(l)'
      BY <1>1, <1>2, <2>1 DEF Built
    <3>2. reg'[l].blocks = 0
      BY <1>1, <2>1 DEF CommandType, NoMap
    <3>. QED
      BY <3>1, <3>2
  <2>2. CASE l # ld
    <3>1. reg'[l] = reg[l]
      BY <1>1, <2>2 DEF CommandType
    <3>2. Built(l)' <=> Built(l)
      BY <1>1 DEF Built
    <3>3. l < ld' => l < ld
      BY <1>1, <1>2, <2>0, <2>2
    <3>. QED
      BY <1>1, <3>1, <3>2, <3>3 DEF Registers
  <2>. QED
    BY <2>1, <2>2
<1>. QED
  BY <1>3, <1>4, <1>5

LEMMA FinishCommand ==
    ASSUME CommandInv, Finish
    PROVE  CommandInv'
<1>. USE DEF CommandInv, Control
<1>1. /\ pc = "drop" /\ ld > ldn /\ ldn' = Len(req) /\ bank' = 1 - bank
      /\ pc' = "idle" /\ req' = << >> /\ ld' = 0 /\ left' = 0 /\ src' = 0 /\ dst' = 0
      /\ UNCHANGED <<count, gran, bram, reg>>
  BY DEF Finish, lists
<1>2. /\ bank \in {0, 1} /\ ldn \in 0 .. MaxLd /\ req \in Seq(Nat) /\ Len(req) <= MaxLd
      /\ Len(req) \in Nat /\ ld \in Nat /\ gran \in {1, 2, 4}
      /\ reg \in [LD -> [blocks : Nat, base : Nat]]
  BY <1>1 DEF CommandType
<1>3. Active' = Standby /\ Standby \in Nat
  <2>1. Active' = bank' * BankSize
    BY DEF Active
  <2>. QED
    BY <1>1, <1>2, <2>1, Banks, Constants DEF Standby
<1>4. CommandType'
  <2>1. req' \in Seq(Nat) /\ Len(req') = 0
    BY <1>1
  <2>2. bank' \in {0, 1} /\ ldn' \in 0 .. MaxLd
    BY <1>1, <1>2, Constants
  <2>. QED
    BY <1>1, <2>1, <2>2, Constants DEF CommandType
<1>5. Place' /\ Remaining'
  BY <1>1 DEF Place, Remaining
<1>6. \A l \in LD : l <= Len(req) =>
          /\ reg[l] = [blocks |-> req[l], base |-> Standby + Offset(req, l)]
          /\ l \in 1 .. Len(req)
  BY <1>1, LdLists DEF Registers, Built, LD
<1>7. Registers'
  <2>. SUFFICES ASSUME NEW l \in LD
                PROVE  /\ reg[l].blocks # 0 => reg[l].base = Active' + Offset(RegBlocks', l)
                       /\ l > Len(req) => reg[l].blocks = 0
    BY <1>1 DEF Registers, Built, Offset
  <2>0. l \in Nat
    BY LdLists
  <2>1. CASE l <= Len(req)
    <3>1. reg[l] = [blocks |-> req[l], base |-> Standby + Offset(req, l)]
      BY <1>6, <2>1
    <3>2. reg[l].base = Standby + Offset(req, l)
      BY ONLY <3>1
    <3>3. ASSUME NEW i \in 1 .. l - 1 PROVE RegBlocks'[i] \in Int /\ RegBlocks'[i] = req[i]
      <4>1. i \in LD /\ i <= Len(req)
        BY <1>2, <2>0, <2>1, Constants DEF LD
      <4>2. reg[i] = [blocks |-> req[i], base |-> Standby + Offset(req, i)]
        BY <1>6, <4>1
      <4>3. reg[i].blocks = req[i]
        BY ONLY <4>2
      <4>. QED
        BY <1>1, <1>2, <4>1, <4>3 DEF RegBlocks
    <3>4. IsFiniteSet(1 .. l - 1)
      BY <2>0, FS_Interval
    <3>5. Offset(RegBlocks', l) = Offset(req, l)
      <4>. DEFINE S == 1 .. l - 1
      <4>1. IsFiniteSet(S) /\ \A i \in S : RegBlocks'[i] \in Int /\ RegBlocks'[i] = req[i]
        BY <3>3, <3>4
      <4>. HIDE DEF S
      <4>2. SumFunctionOnSet(RegBlocks', S) = SumFunctionOnSet(req, S)
        BY <4>1, SumSame
      <4>. QED
        BY <4>2 DEF S, Offset
    <3>6. ~(l > Len(req))
      BY <1>2, <2>0, <2>1
    <3>. QED
      BY <1>3, <3>2, <3>5, <3>6
  <2>2. CASE ~(l <= Len(req))
    BY <1>1, <1>2, <2>0, <2>2 DEF Registers, Built
  <2>. QED
    BY <2>1, <2>2
<1>. QED
  BY <1>4, <1>5, <1>7

LEMMA UnchangedCommand ==
    ASSUME CommandInv, UNCHANGED <<count, gran, ldn, bank, bram, reg, control>>
    PROVE  CommandInv'
<1>. USE DEF CommandInv, Control
<1>1. UNCHANGED <<count, gran, ldn, bank, bram, reg, pc, req, ld, left, src, dst>>
  BY DEF control
<1>2. CommandType'
  BY <1>1 DEF CommandType
<1>3. Place' /\ Remaining'
  BY <1>1 DEF Place, Remaining, Standby
<1>4. Registers'
  BY <1>1, RegistersKept
<1>. QED
  BY <1>2, <1>3, <1>4

\* With changes of granularity, which FmMailbox makes.
Change == Next \/ \E g \in Grans : SetGranularity(g)

LEMMA CommandStep == CommandInv /\ [Change]_vars => CommandInv'
<1>. SUFFICES ASSUME CommandInv, [Change]_vars PROVE CommandInv'
  OBVIOUS
<1>1. ASSUME NEW r \in Requests, SetAllocation(r) PROVE CommandInv'
  BY <1>1, SetAllocationCommand
<1>2. CASE AllocateLd
  BY <1>2, AllocateLdCommand
<1>3. CASE AddBlock
  BY <1>3, AddBlockCommand
<1>4. CASE RemoveBlock
  BY <1>4, RemoveBlockCommand
<1>5. CASE FinishLd
  BY <1>5, FinishLdCommand
<1>6. CASE WriteRegister
  BY <1>6, WriteRegisterCommand
<1>7. CASE DropLd
  BY <1>7, DropLdCommand
<1>8. CASE ClearRegister
  BY <1>8, ClearRegisterCommand
<1>9. CASE Finish
  BY <1>9, FinishCommand
<1>10. ASSUME ZeroBlock \/ \E l \in Writers : HostWrite(l) PROVE CommandInv'
  BY <1>10, UnchangedCommand DEF ZeroBlock, HostWrite, lists
<1>11. ASSUME NEW g \in Grans, SetGranularity(g) PROVE CommandInv'
  BY <1>11, SetGranularityCommand
<1>12. CASE UNCHANGED vars
  BY <1>12, UnchangedCommand DEF vars, control
<1>. QED
  BY <1>1, <1>2, <1>3, <1>4, <1>5, <1>6, <1>7, <1>8, <1>9, <1>10, <1>11, <1>12
     DEF Change, Next, Step

\* The maps of the LDs lie in the bank in use if they are no longer than it.
LEMMA MapsInBank ==
    ASSUME CommandInv, Waiting, MapSize <= BankSize, NEW l \in LD, NEW e \in MapEntries(l)
    PROVE  e \in Int /\ Active <= e /\ e < Active + BankSize
<1>. DEFINE r == RegBlocks
<1>1. /\ bank \in {0, 1} /\ reg[l].blocks \in Nat /\ reg[l].base \in Nat
      /\ reg \in [LD -> [blocks : Nat, base : Nat]]
  BY DEF CommandInv, Control, CommandType
<1>2. r \in Seq(Nat) /\ Len(r) = MaxLd /\ r[l] = reg[l].blocks /\ l \in 1 .. Len(r)
  <2>1. r \in [1 .. MaxLd -> Nat] /\ r[l] = reg[l].blocks
    BY <1>1 DEF RegBlocks, LD
  <2>. HIDE DEF r
  <2>. QED
    BY <2>1, Constants DEF LD
<1>3. SumFunction(r) <= BankSize
  BY DEF MapSize, RegBlocks
<1>4. e \in Int /\ reg[l].base <= e /\ e < reg[l].base + reg[l].blocks
  BY <1>1 DEF MapEntries
<1>5. reg[l].base = Active + Offset(r, l)
  <2>1. reg[l].blocks # 0 /\ ~Built(l)
    BY <1>1, <1>4 DEF Waiting, Built
  <2>. QED
    BY <2>1 DEF CommandInv, Registers
<1>. HIDE DEF r
<1>6. /\ Offset(r, l) \in Nat /\ Offset(r, l) + r[l] <= SumFunction(r)
      /\ SumFunction(r) \in Nat /\ r[l] \in Nat
  BY <1>2, OffsetStep
<1>7. Active \in Nat /\ BankSize \in Nat
  BY <1>1, Banks, Constants
<1>8. Active <= reg[l].base
  BY ONLY <1>5, <1>6, <1>7
<1>9. reg[l].base + reg[l].blocks <= Active + SumFunction(r)
  <2>1. reg[l].base + reg[l].blocks = Active + (Offset(r, l) + r[l])
    BY ONLY <1>2, <1>5, <1>6, <1>7
  <2>2. \A n \in Int : n <= SumFunction(r) => Active + n <= Active + SumFunction(r)
    BY ONLY <1>6, <1>7
  <2>. QED
    BY ONLY <1>6, <2>1, <2>2
<1>10. Active + SumFunction(r) <= Active + BankSize
  BY ONLY <1>3, <1>6, <1>7
<1>. HIDE DEF MapEntries
<1>. QED
  BY ONLY <1>1, <1>4, <1>6, <1>7, <1>8, <1>9, <1>10

\* While a map is built no register points to where it is written.
LEMMA WrittenApart ==
    ASSUME CommandInv, pc \in {"ld", "grow"}, SumFunction(req) <= BankSize,
           MapSize <= BankSize, NEW l \in LD, NEW e \in MapEntries(l)
    PROVE  /\ e \in Entry
           /\ \A i \in Nat : i < req[ld] => e # dst + i
<1>1. bank \in {0, 1} /\ req \in Seq(Nat)
  BY DEF CommandInv, Control, CommandType
<1>2. ld \in 1 .. Len(req) /\ req[ld] \in Nat /\ dst = Standby + Offset(req, ld)
  BY PresentLd DEF CommandInv, Control, Place
<1>3. /\ Offset(req, ld) \in Nat /\ Offset(req, ld) + req[ld] <= SumFunction(req)
      /\ SumFunction(req) \in Nat
  BY <1>1, <1>2, OffsetStep
<1>4. e \in Int /\ Active <= e /\ e < Active + BankSize
  BY MapsInBank DEF Waiting
<1>5. CASE bank = 0
  <2>1. Active = 0 /\ Standby = BankSize
    BY <1>1, <1>5, Banks
  <2>. QED
    BY <1>2, <1>3, <1>4, <2>1, Constants DEF Entry
<1>6. CASE bank = 1
  <2>1. Active = BankSize /\ Standby = 0
    BY <1>1, <1>6, Banks
  <2>. QED
    BY <1>2, <1>3, <1>4, <2>1, Constants DEF Entry
<1>. QED
  BY <1>1, <1>5, <1>6

MapKept == \A l \in LD : \A e \in MapEntries(l) : bram'[e] = bram[e]

\* Neither the new map nor the one in use is longer than a bank.
Fitting == SumFunction(req) <= BankSize /\ MapSize <= BankSize

LEMMA MapKeptStep == CommandInv /\ [Change]_vars => [Fitting => MapKept]_vars
<1>. SUFFICES ASSUME CommandInv, Change, SumFunction(req) <= BankSize, MapSize <= BankSize,
                     NEW l \in LD, NEW e \in MapEntries(l)
              PROVE  bram'[e] = bram[e]
  BY DEF MapKept, Fitting
<1>1. CASE AllocateLd
  <2>1. ld \in LD /\ count[ld] \in Nat /\ req[ld] \in Nat /\ dst \in Nat
    BY <1>1, PresentLd DEF CommandInv, Control, CommandType, AllocateLd
  <2>2. PICK n \in Nat : n <= req[ld] /\ CopyMap(n)
    <3>1. CASE req[ld] >= count[ld]
      BY <1>1, <2>1, <3>1 DEF AllocateLd
    <3>2. CASE ~(req[ld] >= count[ld])
      BY <1>1, <2>1, <3>2 DEF AllocateLd
    <3>. QED
      BY <3>1, <3>2
  <2>3. e \in Entry /\ \A i \in Nat : i < req[ld] => e # dst + i
    BY <1>1, WrittenApart DEF AllocateLd
  <2>4. e \notin dst .. dst + n - 1
    <3>. SUFFICES ASSUME e \in dst .. dst + n - 1 PROVE FALSE
      OBVIOUS
    <3>1. e - dst \in Nat /\ e - dst < req[ld] /\ e = dst + (e - dst)
      BY <2>1, <2>2
    <3>. QED
      BY <2>3, <3>1
  <2>. QED
    BY <2>2, <2>3, <2>4 DEF CopyMap
<1>2. CASE AddBlock
  <2>1. pc = "grow" /\ left > 0
    BY <1>2 DEF AddBlock
  <2>2. /\ ld \in LD /\ count[ld] \in Nat /\ req[ld] \in Nat /\ left \in Nat
        /\ count[ld] + left <= req[ld] /\ DOMAIN bram = Entry
    BY <2>1, PresentLd DEF CommandInv, Control, CommandType, Remaining
  <2>3. count[ld] < req[ld]
    BY <2>1, <2>2
  <2>4. e \in Entry /\ e # dst + count[ld]
    BY <2>1, <2>2, <2>3, WrittenApart
  <2>5. \/ bram' = bram
        \/ bram' = [bram EXCEPT ![dst + count[ld]] = head[Free] * gran]
    BY <1>2 DEF AddBlock
  <2>. QED
    BY <2>2, <2>4, <2>5
<1>3. ASSUME ~AllocateLd, ~AddBlock PROVE bram' = bram
  BY <1>3 DEF Change, Next, Step, SetAllocation, RemoveBlock, FinishLd, WriteRegister,
              DropLd, ClearRegister, Finish, SetGranularity, ZeroBlock, HostWrite
<1>. QED
  BY <1>1, <1>2, <1>3

\* Whatever an FM asks for, LDs being shrunk, memory running out and maps longer
\* than a bank included, a command for a map that fits into a bank writes to no
\* entry in use, if the map in use fits into its bank as well
\* (resour_mgt_exec_set_cmd, cp_config_to_standby, add_pb_into_ldlist).
THEOREM MapStable == Spec => ActiveMapStable
<1>1. Next => Change
  BY DEF Change
<1>. QED
  BY <1>1, InitCommand, CommandStep, MapKeptStep, PTL
     DEF Spec, ActiveMapStable, MapKept, Fitting

-----------------------------------------------------------------------------
(* The nodes of a list, from its head and the next pointers.               *)

NodeOf(h, nx, c, n) ==
    LET node[i \in 1 .. c] == IF i = 1 THEN h
                              ELSE IF node[i - 1] = Null THEN Null ELSE nx[node[i - 1]]
    IN node[n]

LEMMA NodeIsNodeOf == \A l, n : Node(l, n) = NodeOf(head[l], next, count[l], n)
BY DEF Node, NodeOf

\* g holds the nodes one to c of the list that begins with h.
Walks(g, h, nx, c) ==
    g = [i \in 1 .. c |-> IF i = 1 THEN h ELSE IF g[i - 1] = Null THEN Null ELSE nx[g[i - 1]]]

LEMMA NodeOfIs == \A h, nx, c, n : NodeOf(h, nx, c, n) = (CHOOSE g : Walks(g, h, nx, c))[n]
BY DEF NodeOf, Walks

LEMMA WalkExists ==
    ASSUME NEW h, NEW nx, NEW c \in Int
    PROVE  \E g : Walks(g, h, nx, c)
<1>. DEFINE Bad == {n \in Nat : ~ \E g : Walks(g, h, nx, n)}
<1>1. ASSUME Bad # {} PROVE FALSE
  <2>1. PICK n \in Bad : \A m \in Bad : n <= m
    BY <1>1, LeastMember
  <2>2. n \in Nat /\ ~ \E g : Walks(g, h, nx, n)
    OBVIOUS
  <2>3. CASE n = 0
    <3>. DEFINE g == [i \in 1 .. 0 |-> h]
    <3>1. Walks(g, h, nx, 0)
      BY DEF Walks
    <3>. QED
      BY <2>2, <2>3, <3>1
  <2>4. CASE n # 0
    <3>1. n - 1 \in Nat /\ n - 1 \notin Bad
      BY <2>1, <2>2, <2>4
    <3>2. PICK f : Walks(f, h, nx, n - 1)
      BY <3>1
    <3>. DEFINE last == IF n = 1 THEN h ELSE IF f[n - 1] = Null THEN Null ELSE nx[f[n - 1]]
                g == [i \in 1 .. n |-> IF i = n THEN last ELSE f[i]]
    <3>3. ASSUME NEW i \in 1 .. n
          PROVE  g[i] = IF i = 1 THEN h ELSE IF g[i - 1] = Null THEN Null ELSE nx[g[i - 1]]
      <4>1. i # 1 => i - 1 \in 1 .. n /\ i - 1 # n
        BY <2>2
      <4>2. i # 1 => g[i - 1] = f[i - 1]
        BY <4>1
      <4>3. CASE i = n
        BY <4>2, <4>3
      <4>4. CASE i # n
        <5>1. i \in 1 .. n - 1 /\ g[i] = f[i]
          BY <2>2, <4>4
        <5>2. f[i] = IF i = 1 THEN h ELSE IF f[i - 1] = Null THEN Null ELSE nx[f[i - 1]]
          BY <3>2, <5>1 DEF Walks
        <5>. HIDE DEF g
        <5>. QED
          BY <4>2, <5>1, <5>2
      <4>. QED
        BY <4>3, <4>4
    <3>4. g = [i \in 1 .. n |-> g[i]]
      OBVIOUS
    <3>. HIDE DEF g
    <3>5. Walks(g, h, nx, n)
      BY <3>3, <3>4 DEF Walks
    <3>. QED
      BY <2>2, <3>5
  <2>. QED
    BY <2>3, <2>4
<1>2. CASE c \in Nat
  BY <1>1, <1>2
<1>3. CASE c \notin Nat
  <2>. DEFINE g == [i \in 1 .. c |-> h]
  <2>1. 1 .. c = {}
    BY <1>3
  <2>2. Walks(g, h, nx, c)
    BY <2>1 DEF Walks
  <2>. QED
    BY <2>2
<1>. QED
  BY <1>2, <1>3

LEMMA NodeOfStep ==
    ASSUME NEW h, NEW nx, NEW c \in Int
    PROVE  /\ c > 0 => NodeOf(h, nx, c, 1) = h
           /\ \A i \in 1 .. c - 1 : NodeOf(h, nx, c, i) # Null =>
                 NodeOf(h, nx, c, i + 1) = nx[NodeOf(h, nx, c, i)]
<1>. DEFINE g == CHOOSE g : Walks(g, h, nx, c)
<1>1. Walks(g, h, nx, c)
  BY WalkExists
<1>2. \A i : NodeOf(h, nx, c, i) = g[i]
  BY NodeOfIs
<1>. HIDE DEF g
<1>3. \A i \in 1 .. c :
          g[i] = IF i = 1 THEN h ELSE IF g[i - 1] = Null THEN Null ELSE nx[g[i - 1]]
  BY <1>1 DEF Walks
<1>4. c > 0 => g[1] = h
  BY <1>3
<1>5. ASSUME NEW i \in 1 .. c - 1, g[i] # Null PROVE g[i + 1] = nx[g[i]]
  <2>1. i + 1 \in 1 .. c /\ i + 1 # 1 /\ (i + 1) - 1 = i
    OBVIOUS
  <2>. QED
    BY <1>3, <1>5, <2>1
<1>. QED
  BY <1>2, <1>4, <1>5

\* What begins with the head and follows the next pointers is the list.
LEMMA NodesAre ==
    ASSUME NEW h, NEW nx, NEW c \in Int, NEW f,
           c > 0 => f[1] = h,
           \A i \in 1 .. c - 1 : f[i] # Null /\ f[i + 1] = nx[f[i]]
    PROVE  \A i \in 1 .. c : NodeOf(h, nx, c, i) = f[i]
<1>0. /\ c > 0 => NodeOf(h, nx, c, 1) = h
      /\ \A i \in 1 .. c - 1 : NodeOf(h, nx, c, i) # Null =>
            NodeOf(h, nx, c, i + 1) = nx[NodeOf(h, nx, c, i)]
  BY ONLY c \in Int, NodeOfStep
<1>. DEFINE N(i) == NodeOf(h, nx, c, i)
            Bad == {i \in 1 .. c : N(i) # f[i]}
<1>1. /\ c > 0 => N(1) = h
      /\ \A i \in 1 .. c - 1 : N(i) # Null => N(i + 1) = nx[N(i)]
  BY ONLY <1>0
<1>. HIDE DEF N
<1>2. ASSUME Bad # {} PROVE FALSE
  <2>1. Bad \in SUBSET Nat
    OBVIOUS
  <2>2. PICK i \in Bad : \A j \in Bad : i <= j
    <3>. HIDE DEF Bad
    <3>. QED
      BY <1>2, <2>1, LeastMember
  <2>3. i \in 1 .. c /\ N(i) # f[i]
    OBVIOUS
  <2>4. i # 1
    BY <1>1, <2>3
  <2>5. i - 1 \in 1 .. c - 1 /\ i - 1 \in 1 .. c /\ (i - 1) + 1 = i /\ i - 1 \notin Bad
    BY <2>2, <2>3, <2>4
  <2>6. N(i - 1) = f[i - 1] /\ f[i - 1] # Null /\ f[(i - 1) + 1] = nx[f[i - 1]]
    BY <2>5
  <2>7. N((i - 1) + 1) = nx[N(i - 1)]
    BY <1>1, <2>5, <2>6
  <2>. QED
    BY <2>3, <2>5, <2>6, <2>7
<1>3. \A i \in 1 .. c : N(i) = f[i]
  BY <1>2
<1>. QED
  BY <1>3 DEF N

ListType ==
    /\ gran = 1
    /\ next \in [Block -> Block \cup {Null}] /\ used \in [Block -> BOOLEAN]
    /\ head \in [Lists -> Block \cup {Null}] /\ tail \in [Lists -> Block \cup {Null}]
    /\ count \in [Lists -> Nat]

\* A list is as long as its count says, and its blocks are marked.
Chained ==
    \A l \in Lists : \A i \in 1 .. count[l] :
        Node(l, i) \in Block /\ used[Node(l, i)] = (l # Free)

\* No block is at two places.
Apart ==
    \A l, m \in Lists : \A i \in 1 .. count[l], j \in 1 .. count[m] :
        Node(l, i) = Node(m, j) => l = m /\ i = j

Covered == \A b \in Block : \E l \in Lists : \E i \in 1 .. count[l] : Node(l, i) = b

\* Where insert finds the end of a list.
Tails ==
    /\ \A l \in Lists : count[l] > 0 => tail[l] = Node(l, count[l])
    /\ \A l \in LD : count[l] = 0 /\ tail[l] = Null => head[l] = Null

Counted == SumFunction(count) = Units

Listed == ListType /\ Chained /\ Apart /\ Covered /\ Tails /\ Counted

LEMMA NullIsNoBlock == Null \notin Block
BY DEF Null, Block

LEMMA NodeSteps ==
    ASSUME ListType, Chained, NEW l \in Lists
    PROVE  /\ count[l] \in Nat
           /\ count[l] > 0 => Node(l, 1) = head[l] /\ head[l] \in Block
           /\ \A i \in 1 .. count[l] - 1 : Node(l, i + 1) = next[Node(l, i)]
<1>1. count[l] \in Nat /\ count[l] \in Int
  BY DEF ListType
<1>2. \A i \in 1 .. count[l] : Node(l, i) \in Block /\ Node(l, i) # Null
  BY NullIsNoBlock DEF Chained
<1>3. \A i : Node(l, i) = NodeOf(head[l], next, count[l], i)
  BY NodeIsNodeOf
<1>4. /\ count[l] > 0 => Node(l, 1) = head[l]
      /\ \A i \in 1 .. count[l] - 1 : Node(l, i) # Null => Node(l, i + 1) = next[Node(l, i)]
  <2>. DEFINE c == count[l]
  <2>1. /\ c > 0 => NodeOf(head[l], next, c, 1) = head[l]
        /\ \A i \in 1 .. c - 1 : NodeOf(head[l], next, c, i) # Null =>
              NodeOf(head[l], next, c, i + 1) = next[NodeOf(head[l], next, c, i)]
    <3>1. c \in Int
      BY <1>1
    <3>. HIDE DEF c
    <3>. QED
      BY <3>1, NodeOfStep
  <2>. QED
    BY <1>3, <2>1
<1>5. count[l] > 0 => Node(l, 1) \in Block
  BY <1>1, <1>2
<1>6. \A i \in 1 .. count[l] - 1 : i \in 1 .. count[l]
  BY <1>1
<1>. QED
  BY <1>1, <1>2, <1>4, <1>5, <1>6

\* What Move does to the nodes: the head of one list becomes the last node of
\* the other.
MoveNodes(from, to) ==
    /\ \A i \in 1 .. count[from] - 1 : Node(from, i)' = Node(from, i + 1)
    /\ \A i \in 1 .. count[to] + 1 :
          Node(to, i)' = IF i = count[to] + 1 THEN Node(from, 1) ELSE Node(to, i)
    /\ \A l \in Lists \ {from, to} : \A i \in 1 .. count[l] : Node(l, i)' = Node(l, i)

LEMMA MovedNodes ==
    ASSUME Listed, NEW from \in Lists, NEW to \in Lists, from # to, count[from] > 0,
           count[to] > 0 \/ (tail[to] = Null /\ head[to] = Null),
           NEW inUse, Move(from, to, inUse)
    PROVE  MoveNodes(from, to)
<1>. USE DEF Listed
<1>. DEFINE b == head[from]
<1>1. /\ next \in [Block -> Block \cup {Null}]
      /\ head \in [Lists -> Block \cup {Null}] /\ tail \in [Lists -> Block \cup {Null}]
      /\ count \in [Lists -> Nat]
  BY DEF ListType
<1>2. /\ next' = IF tail[to] = Null THEN next ELSE [next EXCEPT ![tail[to]] = b]
      /\ head' = [head EXCEPT ![from] = next[b], ![to] = IF @ = Null THEN b ELSE @]
      /\ count' = [count EXCEPT ![from] = @ - 1, ![to] = @ + 1]
  BY DEF Move
<1>3. /\ \A l \in Lists : /\ count[l] \in Nat
                          /\ count[l] > 0 => Node(l, 1) = head[l] /\ head[l] \in Block
                          /\ \A i \in 1 .. count[l] - 1 : Node(l, i + 1) = next[Node(l, i)]
      /\ \A l \in Lists : \A i \in 1 .. count[l] : Node(l, i) \in Block /\ Node(l, i) # Null
  BY NodeSteps, NullIsNoBlock DEF Chained
<1>4. \A l, n : Node(l, n)' = NodeOf(head'[l], next', count'[l], n)
  BY DEF Node, NodeOf
<1>5. count[to] > 0 => tail[to] = Node(to, count[to]) /\ tail[to] \in Block /\ tail[to] # Null
  BY <1>3 DEF Tails
<1>6. b \in Block /\ b = Node(from, 1)
  BY <1>3
\* The only next pointer that changes is the one of the last node of to.
<1>7. ASSUME NEW l \in Lists, NEW i \in 1 .. count[l] - 1
      PROVE  next'[Node(l, i)] = next[Node(l, i)]
  <2>1. i \in 1 .. count[l] /\ count[l] \in Nat
    BY <1>3
  <2>2. CASE count[to] = 0
    BY <1>2, <2>2
  <2>3. CASE count[to] > 0
    <3>1. count[to] \in 1 .. count[to] /\ i # count[l]
      BY <1>3, <2>1, <2>3
    <3>2. Node(l, i) # Node(to, count[to])
      BY <2>1, <3>1 DEF Apart
    <3>3. Node(l, i) \in Block
      BY <1>3, <2>1
    <3>. QED
      BY <1>1, <1>2, <1>5, <2>3, <3>2, <3>3
  <2>. QED
    BY <1>3, <2>2, <2>3
<1>8. \A i \in 1 .. count[from] - 1 : Node(from, i)' = Node(from, i + 1)
  <2>. DEFINE c == count[from] - 1
              f == [i \in 1 .. c |-> Node(from, i + 1)]
  <2>1. count'[from] = c /\ c \in Int /\ head'[from] = next[b]
    BY <1>1, <1>2, <1>3
  <2>2. c > 0 => f[1] = next[b]
    <3>1. c > 0 => 1 \in 1 .. count[from] - 1 /\ f[1] = Node(from, 1 + 1)
      BY <2>1
    <3>. QED
      BY <1>3, <1>6, <3>1
  <2>3. ASSUME NEW i \in 1 .. c - 1
        PROVE  f[i] # Null /\ f[i + 1] = next'[f[i]]
    <3>1. /\ i \in 1 .. c /\ i + 1 \in 1 .. c /\ i + 1 \in 1 .. count[from]
          /\ i + 1 \in 1 .. count[from] - 1
      BY <1>3, <2>1
    <3>2. f[i] = Node(from, i + 1) /\ f[i + 1] = Node(from, (i + 1) + 1)
      BY <3>1
    <3>. HIDE DEF f
    <3>3. Node(from, i + 1) # Null /\ Node(from, (i + 1) + 1) = next[Node(from, i + 1)]
      BY <1>3, <3>1
    <3>4. next'[Node(from, i + 1)] = next[Node(from, i + 1)]
      BY <1>7, <3>1
    <3>. QED
      BY <3>2, <3>3, <3>4
  <2>4. \A i \in 1 .. c : f[i] = Node(from, i + 1)
    OBVIOUS
  <2>. HIDE DEF f, c
  <2>5. \A i \in 1 .. c : NodeOf(next[b], next', c, i) = f[i]
    BY <2>1, <2>2, <2>3, NodesAre
  <2>6. \A i \in 1 .. c : Node(from, i)' = Node(from, i + 1)
    BY <1>4, <2>1, <2>4, <2>5
  <2>. QED
    BY <2>6 DEF c
<1>9. \A i \in 1 .. count[to] + 1 :
          Node(to, i)' = IF i = count[to] + 1 THEN b ELSE Node(to, i)
  <2>. DEFINE c == count[to] + 1
              f == [i \in 1 .. c |-> IF i = c THEN b ELSE Node(to, i)]
  <2>1. count'[to] = c /\ c \in Nat /\ c \in Int /\ c > 0 /\ count[to] = c - 1
    BY <1>1, <1>2, <1>3
  <2>2. f[1] = head'[to]
    <3>1. CASE count[to] = 0
      <4>1. head[to] = Null
        BY <3>1
      <4>. QED
        BY <1>1, <1>2, <3>1, <4>1
    <3>2. CASE count[to] > 0
      <4>1. f[1] = Node(to, 1) /\ head[to] \in Block /\ Node(to, 1) = head[to]
        BY <1>3, <3>2, <2>1
      <4>2. head'[to] = head[to]
        BY <1>1, <1>2, <4>1, NullIsNoBlock
      <4>. QED
        BY <4>1, <4>2
    <3>. QED
      BY <1>3, <3>1, <3>2
  <2>3. ASSUME NEW i \in 1 .. c - 1
        PROVE  f[i] # Null /\ f[i + 1] = next'[f[i]]
    <3>1. i \in 1 .. c /\ i + 1 \in 1 .. c /\ i \in 1 .. count[to] /\ i # c /\ count[to] > 0
      BY <2>1
    <3>2. f[i] = Node(to, i) /\ f[i + 1] = IF i + 1 = c THEN b ELSE Node(to, i + 1)
      BY <3>1
    <3>. HIDE DEF f
    <3>3. Node(to, i) # Null
      BY <1>3, <3>1
    <3>4. CASE i + 1 = c
      <4>1. i = count[to]
        BY <2>1, <3>4
      <4>2. next'[tail[to]] = b
        BY <1>1, <1>2, <1>5, <3>1
      <4>. QED
        BY <1>5, <3>1, <3>2, <3>3, <3>4, <4>1, <4>2
    <3>5. CASE i + 1 # c
      <4>1. i \in 1 .. count[to] - 1
        BY <2>1, <3>5
      <4>2. next'[Node(to, i)] = next[Node(to, i)] /\ Node(to, i + 1) = next[Node(to, i)]
        BY <1>3, <1>7, <4>1
      <4>. QED
        BY <3>2, <3>3, <3>5, <4>2
    <3>. QED
      BY <3>4, <3>5
  <2>4. \A i \in 1 .. c : f[i] = IF i = c THEN b ELSE Node(to, i)
    OBVIOUS
  <2>. HIDE DEF f, c
  <2>5. \A i \in 1 .. c : NodeOf(f[1], next', c, i) = f[i]
    BY <2>1, <2>3, NodesAre
  <2>6. \A i \in 1 .. c : Node(to, i)' = f[i]
    BY <1>4, <2>1, <2>2, <2>5
  <2>7. \A i \in 1 .. c : Node(to, i)' = IF i = c THEN b ELSE Node(to, i)
    BY <2>4, <2>6
  <2>. QED
    BY <2>7 DEF c
<1>10. ASSUME NEW l \in Lists \ {from, to}, NEW i \in 1 .. count[l]
       PROVE  Node(l, i)' = Node(l, i)
  <2>. DEFINE c == count[l]
              f == [j \in 1 .. c |-> Node(l, j)]
  <2>1. count'[l] = c /\ c \in Int /\ head'[l] = head[l]
    BY <1>1, <1>2, <1>3
  <2>2. c > 0 => f[1] = head[l]
    BY <1>3, <2>1
  <2>3. ASSUME NEW j \in 1 .. c - 1
        PROVE  f[j] # Null /\ f[j + 1] = next'[f[j]]
    <3>1. j \in 1 .. c /\ j + 1 \in 1 .. c
      BY <2>1
    <3>2. f[j] = Node(l, j) /\ f[j + 1] = Node(l, j + 1)
      BY <3>1
    <3>. HIDE DEF f
    <3>. QED
      BY <1>3, <1>7, <3>1, <3>2
  <2>4. i \in 1 .. c /\ f[i] = Node(l, i)
    OBVIOUS
  <2>. HIDE DEF f, c
  <2>5. \A j \in 1 .. c : NodeOf(head[l], next', c, j) = f[j]
    BY <2>1, <2>2, <2>3, NodesAre
  <2>. QED
    BY <1>4, <2>1, <2>4, <2>5
<1>. QED
  BY <1>6, <1>8, <1>9, <1>10 DEF MoveNodes

LEMMA ListsFinite == IsFiniteSet(Lists) /\ IsFiniteSet(LD)
<1>1. IsFiniteSet(LD)
  BY FS_Interval, Constants DEF LD
<1>2. IsFiniteSet({Free})
  BY FS_Singleton
<1>. QED
  BY <1>1, <1>2, FS_Union DEF Lists

\* Moving a block keeps the lists in order.
LEMMA MovedListed ==
    ASSUME Listed, NEW from \in Lists, NEW to \in Lists, from # to, count[from] > 0,
           count[to] > 0 \/ (tail[to] = Null /\ head[to] = Null),
           Move(from, to, to # Free), gran' = gran
    PROVE  Listed'
<1>. USE DEF Listed
<1>. DEFINE b == head[from]
<1>1. /\ next \in [Block -> Block \cup {Null}] /\ used \in [Block -> BOOLEAN]
      /\ head \in [Lists -> Block \cup {Null}] /\ tail \in [Lists -> Block \cup {Null}]
      /\ count \in [Lists -> Nat] /\ gran = 1
  BY DEF ListType
<1>2. /\ next' = IF tail[to] = Null THEN next ELSE [next EXCEPT ![tail[to]] = b]
      /\ head' = [head EXCEPT ![from] = next[b], ![to] = IF @ = Null THEN b ELSE @]
      /\ tail' = [tail EXCEPT ![to] = b]
      /\ count' = [count EXCEPT ![from] = @ - 1, ![to] = @ + 1]
      /\ used' = [used EXCEPT ![b] = (to # Free)]
  BY DEF Move
<1>3. \A l \in Lists : /\ count[l] \in Nat
                       /\ count[l] > 0 => Node(l, 1) = head[l] /\ head[l] \in Block
  BY NodeSteps
<1>4. b \in Block /\ b = Node(from, 1) /\ 1 \in 1 .. count[from]
  BY <1>3
<1>5. MoveNodes(from, to)
  BY MovedNodes
<1>6. /\ count'[from] = count[from] - 1 /\ count'[to] = count[to] + 1
      /\ \A l \in Lists \ {from, to} : count'[l] = count[l]
      /\ count' \in [Lists -> Nat]
  <2>1. count[from] - 1 \in Nat /\ count[to] + 1 \in Nat
    BY <1>3
  <2>. QED
    BY <1>1, <1>2, <2>1
<1>7. ListType'
  <2>1. next[b] \in Block \cup {Null}
    BY <1>1, <1>4
  <2>2. next' \in [Block -> Block \cup {Null}]
    BY <1>1, <1>2, <1>4
  <2>3. head' \in [Lists -> Block \cup {Null}]
    BY <1>1, <1>2, <1>4, <2>1
  <2>4. tail' \in [Lists -> Block \cup {Null}] /\ used' \in [Block -> BOOLEAN]
    BY <1>1, <1>2, <1>4
  <2>. QED
    BY <1>1, <1>6, <2>2, <2>3, <2>4 DEF ListType
\* Where a node of the new lists was in the old ones.
<1>8. \A i \in 1 .. count'[from] :
          i + 1 \in 1 .. count[from] /\ Node(from, i)' = Node(from, i + 1)
  <2>. SUFFICES ASSUME NEW i \in 1 .. count'[from]
                PROVE  i + 1 \in 1 .. count[from] /\ Node(from, i)' = Node(from, i + 1)
    OBVIOUS
  <2>1. i \in 1 .. count[from] - 1 /\ i + 1 \in 1 .. count[from]
    BY <1>3, <1>6
  <2>. QED
    BY <1>5, <2>1 DEF MoveNodes
<1>9. \A i \in 1 .. count'[to] :
          \/ i \in 1 .. count[to] /\ Node(to, i)' = Node(to, i)
          \/ i = count[to] + 1 /\ Node(to, i)' = b
  <2>. SUFFICES ASSUME NEW i \in 1 .. count'[to]
                PROVE  \/ i \in 1 .. count[to] /\ Node(to, i)' = Node(to, i)
                       \/ i = count[to] + 1 /\ Node(to, i)' = b
    OBVIOUS
  <2>1. i \in 1 .. count[to] + 1 /\ (i # count[to] + 1 => i \in 1 .. count[to])
    BY <1>3, <1>6
  <2>. QED
    BY <1>4, <1>5, <2>1 DEF MoveNodes
<1>10. \A l \in Lists \ {from, to} : \A i \in 1 .. count'[l] :
          i \in 1 .. count[l] /\ Node(l, i)' = Node(l, i)
  BY <1>5, <1>6 DEF MoveNodes
<1>11. \A l \in Lists : \A i \in 1 .. count[l] :
          Node(l, i) = b => l = from /\ i = 1
  BY <1>4 DEF Apart
<1>12. Chained'
  <2>. SUFFICES ASSUME NEW l \in Lists, NEW i \in 1 .. count'[l]
                PROVE  Node(l, i)' \in Block /\ used'[Node(l, i)'] = (l # Free)
    BY DEF Chained
  <2>1. ASSUME NEW j \in 1 .. count[l], Node(l, j) # b, Node(l, i)' = Node(l, j)
        PROVE  Node(l, i)' \in Block /\ used'[Node(l, i)'] = (l # Free)
    <3>1. Node(l, j) \in Block /\ used[Node(l, j)] = (l # Free)
      BY DEF Chained
    <3>2. used'[Node(l, j)] = used[Node(l, j)]
      BY <1>1, <1>2, <2>1, <3>1
    <3>. QED
      BY <2>1, <3>1, <3>2
  <2>2. CASE l = from
    <3>1. i + 1 \in 1 .. count[l] /\ i + 1 # 1 /\ Node(l, i)' = Node(l, i + 1)
      BY <1>3, <1>8, <2>2
    <3>2. Node(l, i + 1) # b
      BY <1>11, <3>1
    <3>. QED
      BY <2>1, <3>1, <3>2
  <2>3. CASE l = to
    <3>1. CASE i \in 1 .. count[to] /\ Node(to, i)' = Node(to, i)
      <4>1. Node(l, i) # b
        BY <1>11, <2>3, <3>1
      <4>. QED
        BY <2>1, <2>3, <3>1, <4>1
    <3>2. CASE i = count[to] + 1 /\ Node(to, i)' = b
      BY <1>1, <1>2, <1>4, <2>3, <3>2
    <3>. QED
      BY <1>9, <2>3, <3>1, <3>2
  <2>4. CASE l \notin {from, to}
    <3>1. i \in 1 .. count[l] /\ Node(l, i)' = Node(l, i)
      BY <1>10, <2>4
    <3>2. Node(l, i) # b
      BY <1>11, <2>4, <3>1
    <3>. QED
      BY <2>1, <3>1, <3>2
  <2>. QED
    BY <2>2, <2>3, <2>4
<1>13. Apart'
  \* The place of a node before the move tells its place after it.
  <2>. DEFINE Was(l, i, m, j) ==
                  \/ l = from /\ m = from /\ j = i + 1
                  \/ l = to /\ m = to /\ j = i
                  \/ l = to /\ i = count[to] + 1 /\ m = from /\ j = 1
                  \/ l \notin {from, to} /\ m = l /\ j = i
  <2>1. ASSUME NEW l \in Lists, NEW i \in 1 .. count'[l]
        PROVE  \E m \in Lists : \E j \in 1 .. count[m] :
                   Node(l, i)' = Node(m, j) /\ Was(l, i, m, j)
    <3>1. CASE l = from
      BY <1>8, <3>1
    <3>2. CASE l = to
      BY <1>4, <1>9, <3>2
    <3>3. CASE l \notin {from, to}
      BY <1>10, <3>3
    <3>. QED
      BY <3>1, <3>2, <3>3
  <2>. SUFFICES ASSUME NEW l \in Lists, NEW m \in Lists,
                       NEW i \in 1 .. count'[l], NEW j \in 1 .. count'[m],
                       Node(l, i)' = Node(m, j)'
                PROVE  l = m /\ i = j
    BY DEF Apart
  <2>2. PICK k \in Lists : \E n \in 1 .. count[k] : Node(l, i)' = Node(k, n) /\ Was(l, i, k, n)
    BY <2>1
  <2>3. PICK n \in 1 .. count[k] : Node(l, i)' = Node(k, n) /\ Was(l, i, k, n)
    BY <2>2
  <2>4. PICK p \in Lists : \E q \in 1 .. count[p] : Node(m, j)' = Node(p, q) /\ Was(m, j, p, q)
    BY <2>1
  <2>5. PICK q \in 1 .. count[p] : Node(m, j)' = Node(p, q) /\ Was(m, j, p, q)
    BY <2>4
  <2>6. Node(k, n) = Node(p, q)
    BY <2>3, <2>5
  <2>7. k = p /\ n = q
    BY <2>6 DEF Apart
  <2>8. i \in Int /\ j \in Int /\ i > 0 /\ j > 0 /\ count[to] \in Nat
    BY <1>3
  <2>. QED
    BY <2>3, <2>5, <2>7, <2>8
<1>14. Covered'
  <2>. SUFFICES ASSUME NEW x \in Block
                PROVE  \E l \in Lists : \E i \in 1 .. count'[l] : Node(l, i)' = x
    BY DEF Covered
  <2>1. PICK m \in Lists : \E j \in 1 .. count[m] : Node(m, j) = x
    BY DEF Covered
  <2>2. PICK j \in 1 .. count[m] : Node(m, j) = x
    BY <2>1
  <2>3. CASE m = from /\ j = 1
    <3>. PICK i : i = count[to] + 1
      OBVIOUS
    <3>1. i \in 1 .. count'[to] /\ i \notin 1 .. count[to]
      BY <1>3, <1>6
    <3>2. Node(to, i)' = b
      BY <1>9, <3>1
    <3>. QED
      BY <1>4, <2>2, <2>3, <3>1, <3>2
  <2>4. CASE m = from /\ j # 1
    <3>. DEFINE i == j - 1
    <3>1. i \in 1 .. count'[from] /\ i + 1 = j
      BY <1>3, <1>6, <2>4
    <3>. HIDE DEF i
    <3>2. Node(from, i)' = Node(from, i + 1)
      BY <1>8, <3>1
    <3>. QED
      BY <2>2, <2>4, <3>1, <3>2
  <2>5. CASE m = to
    <3>1. j \in 1 .. count'[to] /\ j # count[to] + 1
      BY <1>3, <1>6, <2>5
    <3>2. Node(to, j)' = Node(to, j)
      BY <1>9, <3>1
    <3>. QED
      BY <2>2, <2>5, <3>1, <3>2
  <2>6. CASE m \notin {from, to}
    <3>1. j \in 1 .. count'[m]
      BY <1>6, <2>6
    <3>. QED
      BY <1>10, <2>2, <2>6, <3>1
  <2>. QED
    BY <2>3, <2>4, <2>5, <2>6
<1>15. Tails'
  <2>1. ASSUME NEW l \in Lists, NEW n, n = count'[l], n > 0 PROVE tail'[l] = Node(l, n)'
    <3>0. n \in 1 .. count'[l]
      BY <1>6, <2>1
    <3>1. CASE l = from
      <4>1. Node(l, n)' = Node(from, n + 1) /\ n + 1 = count[from]
        BY <1>3, <1>6, <1>8, <2>1, <3>0, <3>1
      <4>2. tail'[l] = tail[from] /\ tail[from] = Node(from, count[from])
        BY <1>1, <1>2, <3>1 DEF Tails
      <4>. QED
        BY <4>1, <4>2
    <3>2. CASE l = to
      <4>1. n \notin 1 .. count[to]
        BY <1>3, <1>6, <2>1, <3>2
      <4>2. Node(l, n)' = b
        BY <1>9, <3>0, <3>2, <4>1
      <4>. QED
        BY <1>1, <1>2, <3>2, <4>2
    <3>3. CASE l \notin {from, to}
      BY <1>1, <1>2, <1>6, <1>10, <2>1, <3>0, <3>3 DEF Tails
    <3>. QED
      BY <3>1, <3>2, <3>3
  <2>2. ASSUME NEW l \in LD, count'[l] = 0, tail'[l] = Null PROVE head'[l] = Null
    <3>1. l \in Lists /\ l # to
      BY <1>3, <1>6, <2>2, LdLists
    <3>2. l # from
      <4>1. tail[from] = Node(from, count[from]) /\ count[from] \in 1 .. count[from]
        BY <1>3 DEF Tails
      <4>2. tail[from] # Null
        BY <4>1, NullIsNoBlock DEF Chained
      <4>. QED
        BY <1>1, <1>2, <2>2, <3>1, <4>2
    <3>. QED
      BY <1>1, <1>2, <1>6, <2>2, <3>1, <3>2 DEF Tails
  <2>. QED
    BY <2>1, <2>2 DEF Tails
<1>16. Counted'
  <2>1. \A l \in Lists : count[l] \in Int /\ count'[l] \in Int
    BY <1>3, <1>6
  <2>2. \A l \in Lists \ {from, to} : count'[l] = count[l]
    BY <1>6
  <2>3. SumFunctionOnSet(count', Lists) =
            SumFunctionOnSet(count, Lists) - count[from] - count[to] + count'[from] + count'[to]
    <3>1. from \in Lists /\ to \in Lists /\ from # to /\ IsFiniteSet(Lists)
      BY ListsFinite
    <3>2. TwoChanged(count, count', Lists, from, to)
      BY <2>1, <2>2, <3>1 DEF TwoChanged
    <3>. QED
      BY <3>2, SumChangeTwo
  <2>4. SumFunctionOnSet(count, Lists) = Units /\ DOMAIN count' = Lists
    BY <1>1, <1>6 DEF Counted, SumFunction
  <2>5. SumFunctionOnSet(count', Lists) = Units
    BY <1>3, <1>6, <2>3, <2>4, Constants
  <2>. QED
    BY <2>4, <2>5 DEF Counted, SumFunction
<1>. QED
  BY <1>7, <1>12, <1>13, <1>14, <1>15, <1>16

LEMMA NodesKept ==
    ASSUME UNCHANGED <<next, head, count>>
    PROVE  \A l, i : Node(l, i)' = Node(l, i)
<1>1. \A l, i : Node(l, i)' = NodeOf(head'[l], next', count'[l], i)
  BY DEF Node, NodeOf
<1>. QED
  BY <1>1, NodeIsNodeOf

LEMMA ListedKept ==
    ASSUME Listed, UNCHANGED <<lists, gran>>
    PROVE  Listed'
<1>1. UNCHANGED <<next, used, head, tail, count, gran>>
  BY DEF lists
<1>2. \A l, i : Node(l, i)' = Node(l, i)
  BY <1>1, NodesKept
<1>3. ListType' /\ Counted'
  BY <1>1 DEF Listed, ListType, Counted
<1>4. Chained'
  BY <1>1, <1>2 DEF Listed, Chained
<1>5. Apart'
  BY <1>1, <1>2 DEF Listed, Apart
<1>6. Covered'
  BY <1>1, <1>2 DEF Listed, Covered
<1>7. Tails'
  <2>1. \A l \in Lists : count[l] > 0 => tail'[l] = Node(l, count[l])
    BY <1>1 DEF Listed, Tails
  <2>2. \A l \in Lists : \A n : n = count'[l] => Node(l, n)' = Node(l, count[l])
    BY <1>1, <1>2
  <2>3. \A l \in Lists : count'[l] > 0 => tail'[l] = Node(l, count[l])'
    BY <1>1, <2>1, <2>2
  <2>. QED
    BY <1>1, <2>3 DEF Listed, Tails
<1>. QED
  BY <1>3, <1>4, <1>5, <1>6, <1>7 DEF Listed

-----------------------------------------------------------------------------
(* The work of an orderly FM's command on the lists.                       *)

\* The FM never shrinks an LD to some of its blocks, never gives blocks to an
\* LD that has had some before, and never asks for the last free block.
Orderly == Liberties \cap {"shrink", "regrow", "exhaust"} = {}

\* The list of LD l has its new size, is being changed.
Done(l) == \/ pc \in {"ld", "grow", "shrink"} /\ l < ld
           \/ pc \in {"register", "drop", "dropping"} /\ l <= Len(req)
           \/ pc \in {"drop", "dropping"} /\ l < ld
Current(l) == l = ld /\ pc \in {"grow", "shrink", "dropping"}

NewSize(l) == IF l <= Len(req) THEN req[l] ELSE 0

Sizes ==
    /\ \A l \in LD : /\ Done(l) => count[l] = NewSize(l)
                     /\ ~Done(l) /\ ~Current(l) => count[l] = reg[l].blocks
    /\ pc = "grow" => count[ld] + left = req[ld]
    /\ pc = "shrink" => left = count[ld] /\ req[ld] = 0
    /\ pc = "dropping" => left = count[ld]

\* There are more free blocks than LDs still want.
Supply ==
    /\ count[Free] > 0
    /\ pc \in {"ld", "grow", "shrink"} =>
          /\ Growth(req) < count[Free]
          /\ \A l \in 1 .. Len(req) :
                /\ req[l] >= count[l] \/ req[l] = 0
                /\ req[l] > 0 /\ count[l] = 0 => tail[l] = Null

\* The map in use is no longer than a bank.
Room == Waiting => MapSize <= BankSize

ListInv == CommandInv /\ Listed /\ Sizes /\ Supply /\ Room

Wanted(r, c) == [i \in DOMAIN r |-> IF r[i] > c[i] THEN r[i] - c[i] ELSE 0]

LEMMA GrowthIs ==
    ASSUME NEW r \in Seq(Nat), Len(r) <= MaxLd, NEW c \in [Lists -> Nat]
    PROVE  /\ 1 .. Len(r) \subseteq LD
           /\ \A i \in 1 .. Len(r) :
                 /\ Wanted(r, c)[i] \in Nat
                 /\ Wanted(r, c)[i] = IF r[i] > c[i] THEN r[i] - c[i] ELSE 0
           /\ SumFunction(Wanted(r, c)) = SumFunctionOnSet(Wanted(r, c), 1 .. Len(r))
           /\ SumFunction(Wanted(r, c)) \in Nat
<1>1. 1 .. Len(r) \subseteq LD /\ DOMAIN r = 1 .. Len(r) /\ Len(r) \in Nat
  BY Constants DEF LD
<1>2. ASSUME NEW i \in 1 .. Len(r)
      PROVE  /\ Wanted(r, c)[i] = IF r[i] > c[i] THEN r[i] - c[i] ELSE 0
             /\ Wanted(r, c)[i] \in Nat
  <2>1. Wanted(r, c)[i] = IF r[i] > c[i] THEN r[i] - c[i] ELSE 0
    BY <1>1 DEF Wanted
  <2>2. r[i] \in Nat /\ c[i] \in Nat
    BY <1>1, LdLists
  <2>. QED
    BY <2>1, <2>2
<1>3. DOMAIN Wanted(r, c) = 1 .. Len(r)
  BY <1>1 DEF Wanted
<1>4. IsFiniteSet(1 .. Len(r))
  BY <1>1, FS_Interval
<1>5. SumFunctionOnSet(Wanted(r, c), 1 .. Len(r)) \in Nat
  BY <1>2, <1>4, SumNat
<1>. QED
  BY <1>1, <1>2, <1>3, <1>5 DEF SumFunction

\* The blocks in the lists of the LDs, and those that an orderly FM asks for,
\* are some of the memory's.
LEMMA BlocksOfLds ==
    ASSUME Listed, count[Free] > 0
    PROVE  /\ SumFunctionOnSet(count, LD) = Units - count[Free]
           /\ SumFunctionOnSet(count, LD) \in Nat
           /\ count[Free] \in Nat /\ \A l \in LD : count[l] \in Nat
<1>1. DOMAIN count = Lists /\ \A l \in Lists : count[l] \in Nat /\ count[l] \in Int
  BY DEF Listed, ListType
<1>2. IsFiniteSet(LD) /\ Lists \ {Free} = LD /\ Free \in Lists /\ LD \subseteq Lists
  BY ListsFinite, LdLists DEF Lists
<1>3. SumFunctionOnSet(count, Lists) = count[Free] + SumFunctionOnSet(count, LD)
  BY <1>1, <1>2, ListsFinite, SumRemove
<1>4. SumFunctionOnSet(count, Lists) = Units
  BY <1>1 DEF Listed, Counted, SumFunction
<1>5. SumFunctionOnSet(count, LD) \in Nat
  BY <1>1, <1>2, SumNat
<1>6. count[Free] \in Nat /\ \A l \in LD : count[l] \in Nat
  BY <1>1, <1>2
<1>. QED
  BY <1>3, <1>4, <1>5, <1>6, Constants

LEMMA IdleFits ==
    ASSUME CommandType, Listed, Sizes, count[Free] > 0, pc = "idle"
    PROVE  MapSize <= BankSize
<1>1. ASSUME NEW l \in LD PROVE RegBlocks[l] = count[l] /\ count[l] \in Int
  <2>1. ~Done(l) /\ ~Current(l)
    BY DEF Done, Current
  <2>2. count[l] = reg[l].blocks /\ count[l] \in Nat
    BY <2>1, BlocksOfLds DEF Sizes
  <2>. QED
    BY <2>2 DEF RegBlocks
<1>2. SumFunctionOnSet(count, LD) = SumFunctionOnSet(RegBlocks, LD)
  <2>. HIDE DEF RegBlocks
  <2>. QED
    BY <1>1, ListsFinite, SumSame
<1>3. MapSize = SumFunctionOnSet(RegBlocks, LD)
  BY DEF MapSize, RegBlocks, SumFunction
<1>. QED
  BY <1>2, <1>3, BlocksOfLds, Constants

LEMMA RequestFits ==
    ASSUME ListInv, pc \in {"ld", "grow", "shrink"}
    PROVE  SumFunction(req) \in Nat /\ SumFunction(req) <= Units
<1>. USE DEF ListInv
<1>1. /\ req \in Seq(Nat) /\ Len(req) <= MaxLd /\ count \in [Lists -> Nat]
      /\ count[Free] > 0 /\ Growth(req) < count[Free]
  BY DEF CommandInv, Control, CommandType, Listed, ListType, Supply
<1>. DEFINE S == 1 .. Len(req)
            f == Wanted(req, count)
            h == [i \in S |-> count[i] + f[i]]
<1>2. /\ S \subseteq LD /\ \A i \in S : f[i] \in Nat /\ f[i] = IF req[i] > count[i] THEN req[i] - count[i] ELSE 0
      /\ SumFunction(f) = SumFunctionOnSet(f, S) /\ SumFunction(f) \in Nat
  BY <1>1, GrowthIs
<1>3. Growth(req) = SumFunction(f)
  BY DEF Growth, Wanted
<1>4. /\ SumFunctionOnSet(count, LD) = Units - count[Free]
      /\ SumFunctionOnSet(count, LD) \in Nat
      /\ count[Free] \in Nat /\ \A l \in LD : count[l] \in Nat
  <2>1. Listed /\ count[Free] > 0
    BY <1>1
  <2>. HIDE DEF ListInv
  <2>. QED
    BY ONLY <2>1, BlocksOfLds
<1>5. IsFiniteSet(S) /\ S \in SUBSET LD /\ DOMAIN req = S /\ \A i \in S : req[i] \in Nat
  <2>1. IsFiniteSet(S)
    BY <1>1, FS_Interval
  <2>2. DOMAIN req = S /\ \A i \in S : req[i] \in Nat
    BY <1>1
  <2>. QED
    BY <1>2, <2>1, <2>2
<1>. HIDE DEF f, S
<1>6. /\ SumFunctionOnSet(count, S) \in Nat
      /\ SumFunctionOnSet(count, S) <= SumFunctionOnSet(count, LD)
  BY <1>4, <1>5, ListsFinite, SumPart
<1>7. \A i \in S : /\ count[i] \in Int /\ f[i] \in Int /\ h[i] = count[i] + f[i]
                   /\ req[i] \in Int /\ h[i] \in Int /\ req[i] <= h[i]
  BY <1>2, <1>4, <1>5
<1>. HIDE DEF h
<1>8. SumFunctionOnSet(h, S) = SumFunctionOnSet(count, S) + SumFunctionOnSet(f, S)
  <2>1. Added(count, f, h, S)
    BY <1>5, <1>7 DEF Added
  <2>. QED
    BY <2>1, SumAdded
<1>9. SumFunctionOnSet(req, S) <= SumFunctionOnSet(h, S)
  BY <1>5, <1>7, SumMonotonic
<1>10. SumFunction(req) = SumFunctionOnSet(req, S) /\ SumFunctionOnSet(req, S) \in Nat
  BY <1>5, SumNat DEF SumFunction
<1>. QED
  BY <1>1, <1>2, <1>3, <1>4, <1>6, <1>8, <1>9, <1>10, Constants

\* An orderly FM never asks for a map that is longer than a bank.
LEMMA ListMapKept == ListInv /\ [Next]_vars => [MapKept]_vars
<1>. SUFFICES ASSUME ListInv, Next PROVE MapKept
  OBVIOUS
<1>1. CASE pc \in {"ld", "grow"}
  <2>1. Fitting
    BY <1>1, RequestFits, Constants DEF ListInv, Room, Waiting, Fitting
  <2>2. MapKept \/ UNCHANGED vars
    BY <2>1, MapKeptStep DEF Change, ListInv
  <2>. QED
    BY <2>2 DEF MapKept, vars
<1>2. CASE pc \notin {"ld", "grow"}
  BY <1>2 DEF MapKept, Next, Step, SetAllocation, AllocateLd, AddBlock, RemoveBlock, FinishLd,
              WriteRegister, DropLd, ClearRegister, Finish, ZeroBlock, HostWrite
<1>. QED
  BY <1>1, <1>2

LEMMA AddBlockLists ==
    ASSUME ListInv, AddBlock
    PROVE  /\ Move(Free, ld, TRUE) /\ left' = left - 1
           /\ bram' = [bram EXCEPT ![dst + count[ld]] = head[Free]]
           /\ MoveNodes(Free, ld) /\ head[Free] = Node(Free, 1) /\ count[Free] > 0
           /\ Listed' /\ Sizes' /\ Supply'
<1>. USE DEF ListInv
<1>1. /\ pc = "grow" /\ left > 0
      /\ UNCHANGED <<gran, ldn, bank, reg, req, ld, pc, src, dst>>
  BY DEF AddBlock
<1>2. /\ ld \in LD /\ ld \in 1 .. Len(req) /\ req[ld] \in Nat /\ count[ld] \in Nat
      /\ ld \in Lists /\ Free \in Lists /\ Free # ld
      /\ req \in Seq(Nat) /\ Len(req) <= MaxLd /\ left \in Nat /\ gran = 1
      /\ count \in [Lists -> Nat] /\ count[Free] \in Nat
  BY <1>1, PresentLd, LdLists DEF CommandInv, Control, CommandType, Listed, ListType
<1>3. /\ count[Free] > 0 /\ count[ld] + left = req[ld] /\ Growth(req) < count[Free]
      /\ req[ld] > 0 /\ count[ld] = 0 => tail[ld] = Null
  BY <1>1, <1>2 DEF Supply, Sizes
<1>4. head[Free] \in Block /\ head[Free] = Node(Free, 1) /\ ~ListEmpty(Free)
  BY <1>2, <1>3, NodeSteps, NullIsNoBlock DEF Listed, ListEmpty
<1>5. /\ Move(Free, ld, TRUE) /\ left' = left - 1
      /\ bram' = [bram EXCEPT ![dst + count[ld]] = head[Free]]
  <2>1. head[Free] * gran = head[Free]
    BY <1>2, <1>4 DEF Block
  <2>. QED
    BY <1>4, <2>1 DEF AddBlock
<1>6. count[ld] > 0 \/ (tail[ld] = Null /\ head[ld] = Null)
  <2>1. req[ld] > 0
    BY <1>1, <1>2, <1>3
  <2>. QED
    BY <1>2, <1>3, <2>1 DEF Listed, Tails
<1>7. MoveNodes(Free, ld)
  BY <1>2, <1>3, <1>5, <1>6, MovedNodes
<1>8. Listed'
  <2>1. (ld # Free) = TRUE
    BY <1>2
  <2>2. Move(Free, ld, ld # Free)
    BY <1>5, <2>1
  <2>. QED
    BY <1>1, <1>2, <1>3, <1>6, <2>2, MovedListed
<1>9. /\ count'[Free] = count[Free] - 1 /\ count'[ld] = count[ld] + 1
      /\ \A l \in LD : l # ld => count'[l] = count[l]
      /\ count' \in [Lists -> Nat]
      /\ tail' = [tail EXCEPT ![ld] = head[Free]]
  <2>1. count' \in [Lists -> Nat]
    BY <1>8 DEF Listed, ListType
  <2>. QED
    BY <1>2, <1>5, <2>1, LdLists DEF Move
<1>10. Sizes'
  <2>1. count'[ld] + left' = req[ld]
    BY ONLY <1>2, <1>3, <1>5, <1>9
  <2>2. ASSUME NEW l \in LD
        PROVE  /\ Done(l)' => count'[l] = NewSize(l)'
               /\ ~Done(l)' /\ ~Current(l)' => count'[l] = reg'[l].blocks
    <3>1. /\ Done(l)' <=> Done(l)
          /\ Current(l)' <=> Current(l)
          /\ Done(l) => l # ld
          /\ ~Current(l) => l # ld
      BY <1>1, <1>2, LdLists DEF Done, Current
    <3>2. NewSize(l)' = NewSize(l)
      BY <1>1 DEF NewSize
    <3>. QED
      BY <1>1, <1>9, <3>1, <3>2 DEF Sizes
  <2>. QED
    BY <1>1, <2>1, <2>2 DEF Sizes
<1>11. Supply'
  <2>. DEFINE f == Wanted(req, count)
              g == Wanted(req, count')
              S == 1 .. Len(req)
  <2>1. /\ SumFunction(f) = SumFunctionOnSet(f, S) /\ SumFunction(g) = SumFunctionOnSet(g, S)
        /\ SumFunction(g) \in Nat
        /\ \A i \in S : /\ i \in LD /\ f[i] \in Nat /\ g[i] \in Nat
                        /\ f[i] = IF req[i] > count[i] THEN req[i] - count[i] ELSE 0
                        /\ g[i] = IF req[i] > count'[i] THEN req[i] - count'[i] ELSE 0
    BY <1>2, <1>9, GrowthIs
  <2>. HIDE DEF f, g
  <2>2. OneChanged(f, g, S, ld)
    <3>1. IsFiniteSet(S)
      BY <1>2, FS_Interval
    <3>2. \A i \in S : f[i] \in Int /\ g[i] \in Int
      BY <2>1
    <3>3. \A i \in S \ {ld} : g[i] = f[i]
      BY <1>9, <2>1
    <3>. QED
      BY <1>2, <3>1, <3>2, <3>3 DEF OneChanged
  <2>3. SumFunctionOnSet(g, S) = SumFunctionOnSet(f, S) - f[ld] + g[ld]
        /\ SumFunctionOnSet(f, S) \in Int
    BY <2>2, SumChange
  <2>4. f[ld] = left /\ g[ld] = left - 1
    <3>1. /\ f[ld] = IF req[ld] > count[ld] THEN req[ld] - count[ld] ELSE 0
          /\ g[ld] = IF req[ld] > count'[ld] THEN req[ld] - count'[ld] ELSE 0
      BY <1>2, <2>1
    <3>. QED
      <4>1. /\ count[ld] \in Nat /\ req[ld] \in Nat /\ left \in Nat /\ left > 0
            /\ count[ld] + left = req[ld]
        BY <1>1, <1>2, <1>3
      <4>2. count'[ld] = count[ld] + 1
        BY <1>9
      <4>. QED
        BY ONLY <3>1, <4>1, <4>2
  <2>5. Growth(req) = SumFunction(f) /\ Growth(req)' = SumFunction(g)
    BY <1>1 DEF Growth, Wanted, f, g
  <2>6. Growth(req)' < count'[Free] /\ count'[Free] > 0
    <3>. HIDE DEF S
    <3>1. SumFunction(g) = SumFunction(f) - 1 /\ SumFunction(g) \in Nat /\ SumFunction(f) \in Int
      BY <1>2, <2>1, <2>3, <2>4
    <3>2. SumFunction(f) < count[Free]
      BY <1>3, <2>5
    <3>3. SumFunction(g) < count'[Free] /\ count'[Free] > 0
      <4>1. count[Free] \in Nat /\ count'[Free] = count[Free] - 1
        BY <1>2, <1>9
      <4>. QED
        BY ONLY <3>1, <3>2, <4>1
    <3>. QED
      BY <2>5, <3>3
  <2>7. \A l \in S : /\ req[l] >= count'[l] \/ req[l] = 0
                     /\ req[l] > 0 /\ count'[l] = 0 => tail'[l] = Null
    <3>. SUFFICES ASSUME NEW l \in S
                  PROVE  /\ req[l] >= count'[l] \/ req[l] = 0
                         /\ req[l] > 0 /\ count'[l] = 0 => tail'[l] = Null
      OBVIOUS
    <3>1. CASE l = ld
      BY <1>1, <1>2, <1>3, <1>9, <3>1
    <3>2. CASE l # ld
      <4>1. l \in LD /\ l \in Lists
        BY <2>1, LdLists
      <4>2. tail'[l] = tail[l] /\ count'[l] = count[l]
        BY <1>2, <1>9, <3>2, <4>1 DEF Listed, ListType
      <4>. QED
        BY <1>1, <4>2 DEF Supply
    <3>. QED
      BY <3>1, <3>2
  <2>. QED
    BY <1>1, <2>6, <2>7 DEF Supply
<1>. QED
  BY <1>3, <1>4, <1>5, <1>7, <1>8, <1>10, <1>11

LEMMA RemoveBlockLists ==
    ASSUME ListInv, RemoveBlock
    PROVE  /\ Move(ld, Free, FALSE) /\ left' = left - 1
           /\ zeroing = Null /\ zeroing' = head[ld]
           /\ MoveNodes(ld, Free) /\ head[ld] = Node(ld, 1) /\ count[ld] > 0
           /\ Listed' /\ Sizes' /\ Supply'
<1>. USE DEF ListInv
<1>1. /\ pc \in {"shrink", "dropping"} /\ left > 0
      /\ UNCHANGED <<gran, ldn, bank, bram, reg, req, ld, pc, src, dst>>
  BY DEF RemoveBlock
<1>2. /\ ld \in LD /\ count[ld] \in Nat
      /\ ld \in Lists /\ Free \in Lists /\ Free # ld
      /\ req \in Seq(Nat) /\ Len(req) <= MaxLd /\ left \in Nat /\ gran = 1
      /\ count \in [Lists -> Nat] /\ count[Free] \in Nat
  BY <1>1, PresentLd, LdLists DEF CommandInv, Control, CommandType, Listed, ListType
<1>3. count[Free] > 0 /\ left = count[ld] /\ count[ld] > 0
  BY <1>1, <1>2 DEF Supply, Sizes
<1>4. head[ld] \in Block /\ head[ld] = Node(ld, 1) /\ ~ListEmpty(ld)
  BY <1>2, <1>3, NodeSteps, NullIsNoBlock DEF Listed, ListEmpty
<1>5. /\ Move(ld, Free, FALSE) /\ left' = left - 1
      /\ zeroing = Null /\ zeroing' = head[ld]
  <2>1. head[ld] * gran = head[ld]
    BY <1>2, <1>4 DEF Block
  <2>. QED
    BY <1>4, <2>1 DEF RemoveBlock
<1>6. MoveNodes(ld, Free)
  BY <1>2, <1>3, <1>5, MovedNodes
<1>7. Listed'
  <2>1. (Free # Free) = FALSE
    OBVIOUS
  <2>2. Move(ld, Free, Free # Free)
    BY <1>5, <2>1
  <2>. QED
    BY <1>1, <1>2, <1>3, <2>2, MovedListed
<1>8. /\ count'[Free] = count[Free] + 1 /\ count'[ld] = count[ld] - 1
      /\ \A l \in LD : l # ld => count'[l] = count[l]
      /\ count' \in [Lists -> Nat]
      /\ tail' = [tail EXCEPT ![Free] = head[ld]]
  <2>1. count' \in [Lists -> Nat]
    BY <1>7 DEF Listed, ListType
  <2>2. /\ count' = [count EXCEPT ![ld] = @ - 1, ![Free] = @ + 1]
        /\ tail' = [tail EXCEPT ![Free] = head[ld]]
    BY <1>5 DEF Move
  <2>. QED
    BY <1>2, <2>1, <2>2, LdLists
<1>9. Sizes'
  <2>1. count'[ld] = left'
    BY ONLY <1>2, <1>3, <1>5, <1>8
  <2>2. ASSUME NEW l \in LD
        PROVE  /\ Done(l)' => count'[l] = NewSize(l)'
               /\ ~Done(l)' /\ ~Current(l)' => count'[l] = reg'[l].blocks
    <3>1. /\ Done(l)' <=> Done(l)
          /\ Current(l)' <=> Current(l)
          /\ ~Current(l) => l # ld
      BY <1>1, <1>2, LdLists DEF Done, Current
    <3>2. Done(l) => l # ld
      <4>1. pc = "dropping" => ld \in Len(req) + 1 .. ldn
        BY DEF CommandInv, Control, Place
      <4>. QED
        BY <1>1, <1>2, <4>1, LdLists DEF Done
    <3>3. NewSize(l)' = NewSize(l)
      BY <1>1 DEF NewSize
    <3>. QED
      BY <1>1, <1>8, <3>1, <3>2, <3>3 DEF Sizes
  <2>3. pc = "shrink" => req[ld] = 0
    BY DEF Sizes
  <2>. QED
    BY <1>1, <2>1, <2>2, <2>3 DEF Sizes
<1>10. Supply'
  <2>1. count'[Free] > 0
    BY <1>2, <1>3, <1>8
  <2>2. CASE pc = "dropping"
    BY <1>1, <2>1, <2>2 DEF Supply
  <2>3. CASE pc = "shrink"
    <3>. DEFINE f == Wanted(req, count)
                g == Wanted(req, count')
                S == 1 .. Len(req)
    <3>0. ld \in S /\ req[ld] = 0
      BY <2>3, PresentLd DEF CommandInv, Sizes
    <3>1. /\ SumFunction(f) = SumFunctionOnSet(f, S) /\ SumFunction(g) = SumFunctionOnSet(g, S)
          /\ SumFunction(g) \in Nat
          /\ \A i \in S : /\ i \in LD /\ f[i] \in Nat /\ g[i] \in Nat
                          /\ f[i] = IF req[i] > count[i] THEN req[i] - count[i] ELSE 0
                          /\ g[i] = IF req[i] > count'[i] THEN req[i] - count'[i] ELSE 0
      BY <1>2, <1>8, GrowthIs
    <3>. HIDE DEF f, g
    <3>2. \A i \in S : f[i] \in Int /\ f[i] = g[i]
      <4>1. f[ld] = 0 /\ g[ld] = 0
        <5>1. /\ f[ld] = IF req[ld] > count[ld] THEN req[ld] - count[ld] ELSE 0
              /\ g[ld] = IF req[ld] > count'[ld] THEN req[ld] - count'[ld] ELSE 0
          BY <3>0, <3>1
        <5>. QED
          BY ONLY <1>2, <1>3, <1>8, <3>0, <5>1
      <4>2. \A i \in S : i # ld => f[i] = g[i]
        BY <1>8, <3>1
      <4>. QED
        BY <3>1, <4>1, <4>2
    <3>3. SumFunctionOnSet(f, S) = SumFunctionOnSet(g, S)
      <4>1. IsFiniteSet(S)
        BY <1>2, FS_Interval
      <4>. HIDE DEF S
      <4>. QED
        BY <3>2, <4>1, SumSame
    <3>4. Growth(req) = SumFunction(f) /\ Growth(req)' = SumFunction(g)
      BY <1>1 DEF Growth, Wanted, f, g
    <3>5. Growth(req)' < count'[Free]
      <4>1. SumFunction(f) < count[Free]
        BY <2>3, <3>4 DEF Supply
      <4>2. SumFunction(g) < count'[Free]
        BY <1>2, <1>8, <3>1, <3>3, <4>1
      <4>. QED
        BY <3>4, <4>2
    <3>6. \A l \in S : /\ req[l] >= count'[l] \/ req[l] = 0
                       /\ req[l] > 0 /\ count'[l] = 0 => tail'[l] = Null
      <4>. SUFFICES ASSUME NEW l \in S
                    PROVE  /\ req[l] >= count'[l] \/ req[l] = 0
                           /\ req[l] > 0 /\ count'[l] = 0 => tail'[l] = Null
        OBVIOUS
      <4>1. CASE l = ld
        BY <3>0, <4>1
      <4>2. CASE l # ld
        <5>1. l \in LD /\ l \in Lists /\ l # Free
          BY <3>1, LdLists
        <5>2. tail'[l] = tail[l] /\ count'[l] = count[l]
          BY <1>2, <1>8, <4>2, <5>1 DEF Listed, ListType
        <5>. QED
          BY <2>3, <5>2 DEF Supply
      <4>. QED
        BY <4>1, <4>2
    <3>. QED
      BY <1>1, <2>1, <3>5, <3>6 DEF Supply
  <2>. QED
    BY <1>1, <2>2, <2>3
<1>. QED
  BY <1>3, <1>4, <1>5, <1>6, <1>7, <1>9, <1>10

LEMMA InitialListed == Init => Listed
<1>. SUFFICES ASSUME Init PROVE Listed
  OBVIOUS
<1>. DEFINE last == (Units \div 1) - 1
<1>1. last = Units - 1 /\ Units \in Nat /\ Units > 0
  BY Constants
<1>2. /\ next = [b \in Block |-> IF b < last THEN b + 1 ELSE Null]
      /\ used = [b \in Block |-> FALSE]
      /\ head = [l \in Lists |-> IF l = Free THEN 0 ELSE Null]
      /\ tail = [l \in Lists |-> IF l = Free THEN last ELSE Null]
      /\ count = [l \in Lists |-> IF l = Free THEN last + 1 ELSE 0]
      /\ gran = 1
  BY DEF Init, InitialLists
<1>. HIDE DEF last
<1>3. ListType
  BY <1>1, <1>2 DEF ListType, Block
<1>4. /\ count[Free] = Units /\ head[Free] = 0 /\ tail[Free] = Units - 1
      /\ \A l \in Lists : l # Free => count[l] = 0
      /\ \A l \in LD : head[l] = Null
  BY <1>1, <1>2, LdLists
<1>5. \A i \in 1 .. Units : Node(Free, i) = i - 1 /\ i - 1 \in Block
  <2>. DEFINE f == [i \in 1 .. Units |-> i - 1]
  <2>1. Units > 0 => f[1] = 0
    BY <1>1
  <2>2. ASSUME NEW i \in 1 .. Units - 1 PROVE f[i] # Null /\ f[i + 1] = next[f[i]]
    <3>1. i \in 1 .. Units /\ i + 1 \in 1 .. Units /\ i - 1 \in Block /\ i - 1 < last
      BY <1>1 DEF Block
    <3>2. f[i] = i - 1 /\ f[i + 1] = i /\ next[i - 1] = i
      BY <1>2, <3>1
    <3>. QED
      BY <3>1, <3>2, NullIsNoBlock
  <2>3. \A i \in 1 .. Units : f[i] = i - 1 /\ i - 1 \in Block
    BY <1>1 DEF Block
  <2>. HIDE DEF f
  <2>4. \A i \in 1 .. Units : NodeOf(0, next, Units, i) = f[i]
    BY <1>1, <2>1, <2>2, NodesAre
  <2>. QED
    BY <1>4, <2>3, <2>4, NodeIsNodeOf
<1>6. Chained
  <2>. SUFFICES ASSUME NEW l \in Lists, NEW i \in 1 .. count[l]
                PROVE  Node(l, i) \in Block /\ used[Node(l, i)] = (l # Free)
    BY DEF Chained
  <2>1. l = Free
    BY <1>4
  <2>2. Node(l, i) \in Block
    BY <1>4, <1>5, <2>1
  <2>3. used[Node(l, i)] = FALSE
    BY <1>2, <2>2
  <2>. QED
    BY <2>1, <2>2, <2>3
<1>7. Apart
  <2>. SUFFICES ASSUME NEW l \in Lists, NEW m \in Lists, NEW i \in 1 .. count[l],
                       NEW j \in 1 .. count[m], Node(l, i) = Node(m, j)
                PROVE  l = m /\ i = j
    BY DEF Apart
  <2>1. l = Free /\ m = Free
    BY <1>4
  <2>2. i \in 1 .. Units /\ j \in 1 .. Units /\ i - 1 = j - 1
    BY <1>4, <1>5, <2>1
  <2>. QED
    BY <2>1, <2>2
<1>8. Covered
  <2>. SUFFICES ASSUME NEW b \in Block PROVE \E i \in 1 .. count[Free] : Node(Free, i) = b
    BY LdLists DEF Covered
  <2>1. b + 1 \in 1 .. Units /\ (b + 1) - 1 = b
    BY <1>1 DEF Block
  <2>. QED
    BY <1>4, <1>5, <2>1
<1>9. Tails
  <2>1. Units \in 1 .. Units
    BY <1>1
  <2>. QED
    BY <1>1, <1>4, <1>5, <2>1, LdLists DEF Tails
<1>10. Counted
  <2>1. DOMAIN count = Lists /\ \A l \in Lists : count[l] \in Int
    BY <1>3 DEF ListType
  <2>2. IsFiniteSet(LD) /\ Lists \ {Free} = LD /\ Free \in Lists
    BY ListsFinite, LdLists DEF Lists
  <2>3. SumFunctionOnSet(count, Lists) = count[Free] + SumFunctionOnSet(count, LD)
    BY <2>1, <2>2, ListsFinite, SumRemove
  <2>. DEFINE z == [l \in LD |-> 0]
  <2>4. /\ \A l \in LD : z[l] = 0 /\ count[l] = 0
        /\ \A l \in LD : z[l] \in Int /\ count[l] = 2 * z[l]
        /\ \A l \in LD : count[l] \in Int /\ count[l] = z[l]
    BY <1>4, LdLists
  <2>. HIDE DEF z
  <2>5. /\ SumFunctionOnSet(z, LD) \in Int
        /\ SumFunctionOnSet(count, LD) = 2 * SumFunctionOnSet(z, LD)
    BY <2>2, <2>4, SumScale
  <2>6. SumFunctionOnSet(count, LD) = SumFunctionOnSet(z, LD)
    BY <2>2, <2>4, SumSame
  <2>7. SumFunctionOnSet(count, LD) = 0
    BY <2>5, <2>6
  <2>. QED
    BY <1>1, <1>4, <2>1, <2>3, <2>7 DEF Counted, SumFunction
<1>. QED
  BY <1>3, <1>6, <1>7, <1>8, <1>9, <1>10 DEF Listed

LEMMA InitialListInv == Init => ListInv
<1>. SUFFICES ASSUME Init PROVE ListInv
  OBVIOUS
<1>1. CommandInv /\ Listed
  BY InitCommand, InitialListed
<1>2. Sizes
  <2>1. \A l \in LD : count[l] = 0 /\ reg[l].blocks = 0
    BY InitialCounts DEF Init, NoMap
  <2>. QED
    BY <2>1 DEF Sizes, Done, Current, Init
<1>3. Supply
  <2>1. InitialLists(1).count[Free] = (Units \div 1) - 1 + 1
    BY LdLists DEF InitialLists
  <2>. QED
    BY <2>1, Constants DEF Supply, Init
<1>4. Room
  BY <1>1, <1>2, <1>3, IdleFits DEF Room, CommandInv, Control, Supply, Init
<1>. QED
  BY <1>1, <1>2, <1>3, <1>4 DEF ListInv

\* The steps that move no block.
LEMMA OtherLists ==
    ASSUME Orderly, ListInv, CommandInv',
           \/ \E r \in Requests : SetAllocation(r)
           \/ AllocateLd \/ FinishLd \/ WriteRegister \/ DropLd \/ ClearRegister \/ Finish
           \/ ZeroBlock \/ \E l \in Writers : HostWrite(l)
           \/ UNCHANGED vars
    PROVE  Listed' /\ Sizes' /\ Supply'
<1>. USE DEF ListInv
<1>0. /\ UNCHANGED lists /\ UNCHANGED gran
      /\ UNCHANGED <<next, used, head, tail, count>>
  BY DEF SetAllocation, AllocateLd, FinishLd, WriteRegister, DropLd, ClearRegister, Finish,
         ZeroBlock, HostWrite, vars, lists
<1>1. Listed'
  BY <1>0, ListedKept
<1>2. /\ req \in Seq(Nat) /\ Len(req) \in Nat /\ Len(req) <= MaxLd /\ ld \in Nat
      /\ count[Free] > 0 /\ ldn \in 0 .. MaxLd
      /\ reg \in [LD -> [blocks : Nat, base : Nat]]
      /\ \A l \in LD : l \in Nat /\ l \in Lists /\ count[l] \in Nat
  <2>1. \A l \in LD : l \in Nat /\ l \in Lists /\ count[l] \in Nat
    BY PresentLd, LdLists DEF CommandInv
  <2>. QED
    BY <2>1 DEF CommandInv, Control, CommandType, Supply
<1>3. ASSUME pc' \in {"ld", "grow", "shrink"} => pc \in {"ld", "grow", "shrink"} /\ req' = req
      PROVE  Supply'
  <2>1. req' = req => Growth(req)' = Growth(req)
    BY <1>0 DEF Growth
  <2>. QED
    BY <1>0, <1>3, <2>1 DEF Supply
<1>4. ASSUME NEW r \in Requests, SetAllocation(r) PROVE Sizes' /\ Supply'
  <2>1. /\ pc = "idle" /\ pc' \in {"ld", "drop"} /\ (pc' = "drop" <=> r = << >>)
        /\ req' = r /\ ld' = 1 /\ UNCHANGED reg /\ FMMaySet(r)
    BY <1>4 DEF SetAllocation, Begin
  <2>2. r \in Seq(Nat) /\ Len(r) <= MaxLd /\ Len(r) \in Nat /\ (r = << >> <=> Len(r) = 0)
    BY RequestAssumption
  <2>3. Sizes'
    <3>1. \A l \in LD : ~Done(l) /\ ~Current(l) /\ ~Done(l)' /\ ~Current(l)'
      BY <2>1, <2>2 DEF Done, Current, LD
    <3>. QED
      BY <1>0, <2>1, <3>1 DEF Sizes
  <2>4. /\ Growth(r) < count[Free]
        /\ \A i \in 1 .. Len(r) : /\ r[i] >= count[i] \/ r[i] = 0
                                  /\ r[i] > 0 /\ count[i] = 0 => tail[i] = Null
    BY <2>1, <2>2 DEF FMMaySet, Orderly
  <2>5. Growth(req)' = Growth(r)
    BY <1>0, <2>1 DEF Growth
  <2>. QED
    BY <1>0, <1>2, <2>1, <2>3, <2>4, <2>5 DEF Supply
<1>5. CASE AllocateLd
  <2>1. /\ pc = "ld" /\ UNCHANGED <<reg, req, ld>>
        /\ \/ pc' = "grow" /\ left' = req[ld] - count[ld]
           \/ pc' = "shrink" /\ left' = count[ld] - req[ld] /\ ~(req[ld] >= count[ld])
    BY <1>5 DEF AllocateLd
  <2>2. ld \in LD /\ ld \in 1 .. Len(req) /\ req[ld] \in Nat
    BY <2>1, PresentLd DEF CommandInv
  <2>3. pc' = "shrink" => req[ld] = 0
    BY <2>1, <2>2 DEF Supply
  <2>4. ASSUME NEW l \in LD
        PROVE  /\ Done(l)' => count'[l] = NewSize(l)'
               /\ ~Done(l)' /\ ~Current(l)' => count'[l] = reg'[l].blocks
    <3>1. /\ Done(l)' <=> Done(l)
          /\ ~Current(l)
      BY <2>1 DEF Done, Current
    <3>2. NewSize(l)' = NewSize(l)
      BY <2>1 DEF NewSize
    <3>. QED
      BY <1>0, <2>1, <3>1, <3>2 DEF Sizes
  <2>5. /\ pc' = "grow" => count'[ld'] + left' = req'[ld']
        /\ pc' = "shrink" => left' = count'[ld'] /\ req'[ld'] = 0
    BY <1>0, <1>2, <2>1, <2>2, <2>3
  <2>6. Sizes'
    BY <2>1, <2>4, <2>5 DEF Sizes
  <2>. QED
    BY <1>1, <1>3, <2>1, <2>6
<1>6. CASE FinishLd
  <2>1. /\ pc \in {"grow", "shrink"} /\ left = 0 /\ UNCHANGED <<reg, req>>
        /\ IF ld = Len(req) THEN pc' = "register" /\ ld' = 1 ELSE pc' = "ld" /\ ld' = ld + 1
    BY <1>6 DEF FinishLd
  <2>2. ld \in LD /\ ld \in 1 .. Len(req) /\ req[ld] \in Nat
    BY <2>1, PresentLd DEF CommandInv
  <2>3. count[ld] = NewSize(ld)
    <3>1. NewSize(ld) = req[ld] /\ count[ld] \in Nat
      BY <1>2, <2>2 DEF NewSize
    <3>2. CASE pc = "grow"
      <4>1. count[ld] + 0 = req[ld]
        BY <2>1, <3>2 DEF Sizes
      <4>. QED
        BY <3>1, <4>1
    <3>3. CASE pc = "shrink"
      BY <2>1, <3>1, <3>3 DEF Sizes
    <3>. QED
      BY <2>1, <3>2, <3>3
  <2>4. ASSUME NEW l \in LD
        PROVE  /\ Done(l)' => count'[l] = NewSize(l)'
               /\ ~Done(l)' /\ ~Current(l)' => count'[l] = reg'[l].blocks
    <3>1. /\ Done(l)' <=> (Done(l) \/ l = ld)
          /\ Current(l) => l = ld
      <4>1. l \in Nat /\ ld \in Nat /\ Len(req) \in Nat /\ ld <= Len(req) /\ req' = req
        <5>1. l \in Nat /\ ld \in Nat
          BY <2>2, LdLists
        <5>2. Len(req) \in Nat
          BY DEF CommandInv, Control, CommandType
        <5>. QED
          BY <2>1, <2>2, <5>1, <5>2
      <4>2. CASE ld = Len(req)
        <5>1. pc' = "register" /\ pc \in {"grow", "shrink"}
          BY <2>1, <4>2
        <5>. QED
          BY ONLY <4>1, <4>2, <5>1 DEF Done, Current
      <4>3. CASE ld # Len(req)
        <5>1. pc' = "ld" /\ ld' = ld + 1 /\ pc \in {"grow", "shrink"}
          BY <2>1, <4>3
        <5>. QED
          BY ONLY <4>1, <4>3, <5>1 DEF Done, Current
      <4>. QED
        BY <4>2, <4>3
    <3>2. NewSize(l)' = NewSize(l)
      BY <2>1 DEF NewSize
    <3>. QED
      BY <1>0, <2>1, <2>3, <3>1, <3>2 DEF Sizes
  <2>5. Sizes'
    BY <2>1, <2>4 DEF Sizes
  <2>. QED
    BY <1>1, <1>3, <2>1, <2>5
<1>7. CASE WriteRegister
  <2>1. /\ pc = "register" /\ UNCHANGED req /\ ld' = ld + 1
        /\ reg' = [reg EXCEPT ![ld] = [blocks |-> req[ld], base |-> dst]]
        /\ pc' = IF ld = Len(req) THEN "drop" ELSE "register"
    BY <1>7 DEF WriteRegister
  <2>2. ld \in LD /\ ld \in 1 .. Len(req) /\ req[ld] \in Nat
    BY <2>1, PresentLd DEF CommandInv
  <2>3. ASSUME NEW l \in LD
        PROVE  /\ Done(l)' => count'[l] = NewSize(l)'
               /\ ~Done(l)' /\ ~Current(l)' => count'[l] = reg'[l].blocks
    <3>1. /\ Done(l)' <=> Done(l)
          /\ ~Current(l) /\ (~Done(l) => l # ld)
      BY <1>2, <2>1, <2>2 DEF Done, Current
    <3>2. NewSize(l)' = NewSize(l) /\ (l # ld => reg'[l] = reg[l])
      BY <1>2, <2>1 DEF NewSize
    <3>. QED
      BY <1>0, <3>1, <3>2 DEF Sizes
  <2>4. Sizes'
    BY <1>0, <2>1, <2>3 DEF Sizes
  <2>. QED
    BY <1>1, <1>3, <2>1, <2>4
<1>8. CASE DropLd
  <2>1. /\ pc = "drop" /\ pc' = "dropping" /\ UNCHANGED <<req, ld, reg>> /\ left' = count[ld]
    BY <1>8 DEF DropLd
  <2>2. ASSUME NEW l \in LD
        PROVE  /\ Done(l)' => count'[l] = NewSize(l)'
               /\ ~Done(l)' /\ ~Current(l)' => count'[l] = reg'[l].blocks
    <3>1. /\ Done(l)' <=> Done(l)
          /\ ~Current(l)
      BY <2>1 DEF Done, Current
    <3>2. NewSize(l)' = NewSize(l)
      BY <2>1 DEF NewSize
    <3>. QED
      BY <1>0, <2>1, <3>1, <3>2 DEF Sizes
  <2>3. Sizes'
    BY <1>0, <2>1, <2>2 DEF Sizes
  <2>. QED
    BY <1>1, <1>3, <2>1, <2>3
<1>9. CASE ClearRegister
  <2>1. /\ pc = "dropping" /\ pc' = "drop" /\ UNCHANGED req /\ ld' = ld + 1 /\ left = 0
        /\ reg' = [reg EXCEPT ![ld] = NoMap]
    BY <1>9 DEF ClearRegister
  <2>2. ld \in LD /\ ld \in Len(req) + 1 .. ldn
    BY <2>1, PresentLd DEF CommandInv, Control, Place
  <2>3. count[ld] = NewSize(ld)
    BY <1>2, <2>1, <2>2 DEF Sizes, NewSize
  <2>4. ASSUME NEW l \in LD
        PROVE  /\ Done(l)' => count'[l] = NewSize(l)'
               /\ ~Done(l)' /\ ~Current(l)' => count'[l] = reg'[l].blocks
    <3>1. /\ Done(l)' <=> (Done(l) \/ l = ld)
          /\ Current(l) => l = ld
      BY <1>2, <2>1, <2>2 DEF Done, Current
    <3>2. NewSize(l)' = NewSize(l) /\ (l # ld => reg'[l] = reg[l])
      BY <1>2, <2>1 DEF NewSize
    <3>. QED
      BY <1>0, <2>3, <3>1, <3>2 DEF Sizes
  <2>5. Sizes'
    BY <1>0, <2>1, <2>4 DEF Sizes
  <2>. QED
    BY <1>1, <1>3, <2>1, <2>5
<1>10. CASE Finish
  <2>1. pc = "drop" /\ ld > ldn /\ pc' = "idle" /\ UNCHANGED reg
    BY <1>10 DEF Finish
  <2>2. ASSUME NEW l \in LD PROVE count[l] = reg[l].blocks
    <3>1. ~Current(l)
      BY <2>1 DEF Current
    <3>2. CASE l <= Len(req)
      <4>1. Done(l) /\ Built(l) /\ NewSize(l) = req[l]
        BY <2>1, <3>2 DEF Done, Built, NewSize
      <4>2. reg[l] = [blocks |-> req[l], base |-> Standby + Offset(req, l)]
        BY <4>1 DEF CommandInv, Registers
      <4>3. reg[l].blocks = req[l]
        BY ONLY <4>2
      <4>. QED
        BY <4>1, <4>3 DEF Sizes
    <3>3. CASE ~(l <= Len(req)) /\ Done(l)
      <4>1. l < ld /\ ~Built(l) /\ NewSize(l) = 0
        BY <2>1, <3>3 DEF Done, Built, NewSize
      <4>2. reg[l].blocks = 0
        BY <2>1, <4>1 DEF CommandInv, Registers
      <4>. QED
        BY <3>3, <4>1, <4>2 DEF Sizes
    <3>4. CASE ~Done(l)
      BY <3>1, <3>4 DEF Sizes
    <3>. QED
      BY <3>2, <3>3, <3>4
  <2>3. \A l \in LD : ~Done(l)'
    BY <2>1 DEF Done
  <2>4. Sizes'
    BY <1>0, <2>1, <2>2, <2>3 DEF Sizes
  <2>. QED
    BY <1>1, <1>3, <2>1, <2>4
<1>11. ASSUME UNCHANGED <<reg, control>> PROVE Sizes' /\ Supply'
  <2>0. UNCHANGED <<reg, pc, req, ld, left>>
    BY <1>11 DEF control
  <2>1. \A l \in LD : /\ Done(l)' <=> Done(l)
                      /\ Current(l)' <=> Current(l)
                      /\ NewSize(l)' = NewSize(l)
    BY <2>0 DEF Done, Current, NewSize
  <2>2. Sizes'
    BY <1>0, <2>0, <2>1 DEF Sizes
  <2>. QED
    BY <1>3, <2>0, <2>2
<1>12. ASSUME ZeroBlock \/ \E l \in Writers : HostWrite(l) PROVE Sizes' /\ Supply'
  <2>1. UNCHANGED <<reg, control>>
    BY <1>12 DEF ZeroBlock, HostWrite
  <2>. QED
    BY <1>11, <2>1
<1>13. CASE UNCHANGED vars
  <2>1. UNCHANGED <<reg, control>>
    BY <1>13 DEF vars, control
  <2>. QED
    BY <1>1, <1>11, <2>1
<1>. QED
  BY <1>1, <1>4, <1>5, <1>6, <1>7, <1>8, <1>9, <1>10, <1>12, <1>13

LEMMA ListStep == Orderly /\ ListInv /\ [Next]_vars => ListInv'
<1>. SUFFICES ASSUME Orderly, ListInv, [Next]_vars PROVE ListInv'
  OBVIOUS
<1>1. CommandInv'
  BY CommandStep DEF Change, ListInv
<1>2. Listed' /\ Sizes' /\ Supply'
  <2>1. CASE AddBlock
    BY <2>1, AddBlockLists
  <2>2. CASE RemoveBlock
    BY <2>2, RemoveBlockLists
  <2>. QED
    BY <1>1, <2>1, <2>2, OtherLists DEF Next, Step
<1>3. Room'
  <2>1. CASE pc' = "idle"
    <3>1. (CommandType /\ Listed /\ Sizes /\ count[Free] > 0 /\ pc = "idle")'
      BY <1>1, <1>2, <2>1 DEF CommandInv, Control, Supply
    <3>2. (MapSize <= BankSize)'
      BY <3>1, IdleFits, PTL
    <3>. QED
      BY <3>2 DEF Room
  <2>2. CASE pc' \in {"ld", "grow", "shrink"}
    <3>1. pc \in {"idle", "ld", "grow", "shrink"} /\ reg' = reg
      BY <2>2 DEF Next, Step, SetAllocation, AllocateLd, AddBlock, RemoveBlock, FinishLd,
                  WriteRegister, DropLd, ClearRegister, Finish, ZeroBlock, HostWrite, vars, control
    <3>. QED
      BY <3>1 DEF ListInv, Room, Waiting, MapSize
  <2>. QED
    BY <2>1, <2>2 DEF Room, Waiting
<1>. QED
  BY <1>1, <1>2, <1>3 DEF ListInv

LEMMA ListsKept ==
    ASSUME Orderly
    PROVE  Spec => []ListInv
BY InitialListInv, ListStep, PTL DEF Spec

LEMMA ListInvPartition == ListInv => ListsPartition
<1>. SUFFICES ASSUME ListInv PROVE ListsPartition
  OBVIOUS
<1>. USE DEF ListInv, Listed
<1>1. Blocks = Block
  BY Constants DEF Blocks, Block, ListType
<1>2. UNION {Nodes(l) : l \in Lists} = Block
  BY DEF Nodes, Chained, Covered
<1>3. Cardinality(Block) = Units
  <2>1. Cardinality(0 .. Units - 1) = Units
    BY Constants, FS_Interval
  <2>. QED
    BY <2>1 DEF Block
<1>4. ASSUME NEW b \in Block PROVE used[b] <=> b \notin Nodes(Free)
  <2>1. PICK l \in Lists : \E i \in 1 .. count[l] : Node(l, i) = b
    BY DEF Covered
  <2>2. used[b] = (l # Free)
    BY <2>1 DEF Chained
  <2>3. b \in Nodes(Free) <=> l = Free
    BY <2>1, LdLists DEF Apart, Nodes
  <2>. QED
    BY <2>2, <2>3
<1>. QED
  BY <1>1, <1>2, <1>3, <1>4 DEF ListsPartition, Counted

\* As long as the FM is orderly every block is in exactly one list and counted
\* in it, and is_used is right, whatever order the commands come in
\* (remove_list and insert leave stale pointers behind: see ListsPartition).
THEOREM PartitionHolds ==
    ASSUME Orderly
    PROVE  Spec => []ListsPartition
BY ListsKept, ListInvPartition, PTL

-----------------------------------------------------------------------------
(* The map in the bank in use and the one being built.                     *)

\* The n-th block that the register of LD l stands for.
MapBlock(l, n) == bram[reg[l].base + n - 1]

\* The map that is built is right for LD l.
Renewed(l) == Done(l) \/ (pc = "grow" /\ l = ld)

NewMap ==
    \A l \in LD : Renewed(l) =>
        \A n \in 1 .. count[l] : bram[Standby + Offset(req, l) + n - 1] = Node(l, n)

\* Where a block is that LD l had before the command: what l gives up is free
\* or has gone to an LD that comes after l.
Traced(l, b) ==
    \/ b \in Nodes(l) \/ b \in Nodes(Free)
    \/ \E j \in LD : j > l /\ Renewed(j) /\ b \in Nodes(j)

\* The old map says what the lists were before the command.
OldMap ==
    \A l \in LD : ~Built(l) =>
        \A n \in 1 .. reg[l].blocks :
            IF Done(l) \/ Current(l) THEN Traced(l, MapBlock(l, n))
                                     ELSE MapBlock(l, n) = Node(l, n)

OldApart ==
    \A l, m \in LD : ~Built(l) /\ ~Built(m) /\ l # m =>
        \A n \in 1 .. reg[l].blocks, k \in 1 .. reg[m].blocks :
            MapBlock(l, n) # MapBlock(m, k)

\* src follows the maps of the LDs, which lie one after the other.
Source ==
    pc \in {"idle", "ld", "grow", "shrink"} =>
        /\ ldn > 0 => reg[1].base = Active
        /\ \A l \in 1 .. ldn - 1 : reg[l + 1].base = reg[l].base + reg[l].blocks
        /\ pc = "ld" /\ ld <= ldn => src = reg[ld].base
        /\ pc \in {"grow", "shrink"} /\ ld < ldn => src = reg[ld + 1].base

MapInv == NewMap /\ OldMap /\ OldApart /\ Source

LEMMA MapBlockKept ==
    ASSUME CommandInv, MapKept
    PROVE  \A l \in LD : reg'[l] = reg[l] =>
               \A n \in 1 .. reg[l].blocks : MapBlock(l, n)' = MapBlock(l, n)
<1>. SUFFICES ASSUME NEW l \in LD, reg'[l] = reg[l], NEW n \in 1 .. reg[l].blocks
              PROVE  bram'[reg'[l].base + n - 1] = bram[reg[l].base + n - 1]
  BY DEF MapBlock
<1>1. reg[l].blocks \in Nat /\ reg[l].base \in Nat
  BY DEF CommandInv, Control, CommandType
<1>2. reg[l].base + n - 1 \in MapEntries(l)
  BY <1>1 DEF MapEntries
<1>. QED
  BY <1>2 DEF MapKept

\* A step that moves no block.
LEMMA OldMapKept ==
    ASSUME ListInv, OldMap, OldApart, MapKept, UNCHANGED lists,
           \A l \in LD : ~Built(l)' /\ reg'[l].blocks # 0 => ~Built(l) /\ reg'[l] = reg[l],
           \A l \in LD : Renewed(l) => Renewed(l)',
           \A l \in LD : ~Built(l)' /\ (Done(l) \/ Current(l)) => Done(l)' \/ Current(l)'
    PROVE  OldMap' /\ OldApart'
<1>1. UNCHANGED <<next, head, count>>
  BY DEF lists
<1>2. \A l, i : Node(l, i)' = Node(l, i)
  BY <1>1, NodesKept
<1>3. \A l : Nodes(l)' = Nodes(l)
  BY <1>1, <1>2 DEF Nodes
<1>4. ASSUME NEW l \in LD, ~Built(l)', NEW n \in 1 .. reg'[l].blocks
      PROVE  /\ ~Built(l) /\ reg'[l] = reg[l] /\ n \in 1 .. reg[l].blocks
             /\ MapBlock(l, n)' = MapBlock(l, n)
  <2>1. reg'[l].blocks # 0
    BY <1>4
  <2>2. ~Built(l) /\ reg'[l] = reg[l]
    BY <1>4, <2>1
  <2>. QED
    BY <2>2, MapBlockKept DEF ListInv
<1>5. OldApart'
  BY <1>4 DEF OldApart
<1>6. ASSUME NEW l \in LD, ~Built(l)', NEW n \in 1 .. reg'[l].blocks
      PROVE  IF Done(l)' \/ Current(l)' THEN Traced(l, MapBlock(l, n))'
                                        ELSE MapBlock(l, n)' = Node(l, n)'
  <2>1. ~Built(l) /\ n \in 1 .. reg[l].blocks /\ MapBlock(l, n)' = MapBlock(l, n)
    BY <1>4, <1>6
  <2>2. IF Done(l) \/ Current(l) THEN Traced(l, MapBlock(l, n)) ELSE MapBlock(l, n) = Node(l, n)
    BY <2>1 DEF OldMap
  <2>3. ASSUME Traced(l, MapBlock(l, n)) PROVE Traced(l, MapBlock(l, n))'
    BY <1>3, <2>1, <2>3 DEF Traced
  <2>4. ASSUME ~(Done(l) \/ Current(l)), Done(l)' \/ Current(l)'
        PROVE  Traced(l, MapBlock(l, n))'
    <3>1. MapBlock(l, n) = Node(l, n) /\ count[l] = reg[l].blocks
      BY <2>2, <2>4 DEF ListInv, Sizes
    <3>2. MapBlock(l, n) \in Nodes(l)
      BY <2>1, <3>1 DEF Nodes
    <3>. QED
      BY <1>3, <2>1, <3>2 DEF Traced
  <2>. QED
    BY <1>2, <1>6, <2>1, <2>2, <2>3, <2>4
<1>7. OldMap'
  BY <1>6 DEF OldMap
<1>. QED
  BY <1>5, <1>7

LEMMA NewMapKept ==
    ASSUME NewMap, UNCHANGED <<lists, bram, req, bank>>,
           \A l \in LD : Renewed(l)' => Renewed(l) \/ count[l] = 0
    PROVE  NewMap'
<1>1. UNCHANGED <<next, head, count>>
  BY DEF lists
<1>2. \A l, i : Node(l, i)' = Node(l, i)
  BY <1>1, NodesKept
<1>. SUFFICES ASSUME NEW l \in LD, Renewed(l)', NEW n \in 1 .. count'[l]
              PROVE  bram'[Standby' + Offset(req', l) + n - 1] = Node(l, n)'
  BY DEF NewMap, Offset
<1>3. n \in 1 .. count[l] /\ count[l] # 0
  BY <1>1
<1>4. Standby' = Standby
  BY DEF Standby
<1>. QED
  BY <1>2, <1>3, <1>4 DEF NewMap

\* The registers that the phases before "register" leave alone.
LEMMA SourceKept ==
    ASSUME Source, UNCHANGED <<ldn, reg, bank>>,
           pc' \in {"idle", "ld", "grow", "shrink"} =>
               /\ pc \in {"idle", "ld", "grow", "shrink"}
               /\ pc' = "ld" /\ ld' <= ldn => src' = reg[ld'].base
               /\ pc' \in {"grow", "shrink"} /\ ld' < ldn => src' = reg[ld' + 1].base
    PROVE  Source'
<1>1. Active' = Active
  BY DEF Active
<1>. QED
  BY <1>1 DEF Source

LEMMA SetAllocationMap ==
    ASSUME ListInv, MapInv, MapKept, NEW r \in Requests, SetAllocation(r)
    PROVE  MapInv'
<1>. USE DEF MapInv
<1>1. /\ pc = "idle" /\ pc' \in {"ld", "drop"} /\ (pc' = "drop" <=> r = << >>)
      /\ req' = r /\ ld' = 1 /\ src' = bank * BankSize
      /\ UNCHANGED lists /\ UNCHANGED <<ldn, bank, bram, reg>>
  BY DEF SetAllocation, Begin
<1>2. r \in Seq(Nat) /\ Len(r) \in Nat /\ (r = << >> <=> Len(r) = 0)
  BY RequestAssumption
<1>3. ASSUME NEW l \in LD
      PROVE  /\ ~Done(l) /\ ~Current(l) /\ ~Built(l) /\ ~Renewed(l)
             /\ ~Done(l)' /\ ~Current(l)' /\ ~Built(l)' /\ ~Renewed(l)'
  BY <1>1, <1>2 DEF Done, Current, Built, Renewed, LD
<1>4. NewMap'
  BY <1>3 DEF NewMap
<1>5. OldMap' /\ OldApart'
  BY <1>1, <1>3, OldMapKept
<1>6. Source'
  <2>1. ldn \in Nat /\ (1 <= ldn => src' = reg[1].base)
    BY <1>1 DEF Source, Active, ListInv, CommandInv, Control, CommandType
  <2>. QED
    BY <1>1, <2>1, SourceKept
<1>. QED
  BY <1>4, <1>5, <1>6

LEMMA FinishLdMap ==
    ASSUME ListInv, MapInv, MapKept, FinishLd
    PROVE  MapInv'
<1>. USE DEF MapInv
<1>1. /\ pc \in {"grow", "shrink"} /\ left = 0
      /\ UNCHANGED lists /\ UNCHANGED <<ldn, bank, bram, reg, req, src>>
      /\ \/ ld = Len(req) /\ pc' = "register" /\ ld' = 1
         \/ ld # Len(req) /\ pc' = "ld" /\ ld' = ld + 1
  BY DEF FinishLd
<1>2. ld \in LD /\ ld \in 1 .. Len(req) /\ ld \in Nat /\ Len(req) \in Nat /\ ldn \in Nat
  BY <1>1, PresentLd DEF ListInv, CommandInv, Control, CommandType
<1>3. ASSUME NEW l \in LD
      PROVE  /\ Done(l)' <=> (Done(l) \/ l = ld)
             /\ Current(l) <=> l = ld
             /\ ~Built(l) /\ ~Built(l)'
             /\ ~Current(l)'
  BY <1>1, <1>2 DEF Done, Current, Built, LD
<1>4. \A l \in LD : Renewed(l) => Renewed(l)'
  BY <1>1, <1>3 DEF Renewed
<1>5. \A l \in LD : Renewed(l)' => Renewed(l) \/ count[l] = 0
  <2>1. pc = "shrink" => count[ld] = 0
    BY <1>1 DEF ListInv, Sizes
  <2>2. \A l \in LD : Renewed(l)' => Done(l)'
    BY <1>1 DEF Renewed
  <2>. QED
    BY <1>1, <1>3, <2>1, <2>2 DEF Renewed
<1>6. NewMap'
  BY <1>1, <1>5, NewMapKept
<1>7. OldMap' /\ OldApart'
  BY <1>1, <1>3, <1>4, OldMapKept
<1>8. Source'
  BY <1>1, <1>2, SourceKept DEF Source
<1>. QED
  BY <1>6, <1>7, <1>8

LEMMA WriteRegisterMap ==
    ASSUME ListInv, MapInv, MapKept, WriteRegister
    PROVE  MapInv'
<1>. USE DEF MapInv
<1>1. /\ pc = "register" /\ ld' = ld + 1
      /\ UNCHANGED lists /\ UNCHANGED <<ldn, bank, bram, req, src>>
      /\ reg' = [reg EXCEPT ![ld] = [blocks |-> req[ld], base |-> dst]]
      /\ pc' = IF ld = Len(req) THEN "drop" ELSE "register"
  BY DEF WriteRegister
<1>2. /\ ld \in LD /\ ld \in 1 .. Len(req) /\ ld \in Nat /\ Len(req) \in Nat
      /\ reg \in [LD -> [blocks : Nat, base : Nat]]
  BY <1>1, PresentLd DEF ListInv, CommandInv, Control, CommandType
<1>3. ASSUME NEW l \in LD
      PROVE  /\ Done(l)' <=> Done(l)
             /\ ~Current(l) /\ ~Current(l)'
             /\ ~Built(l)' => ~Built(l) /\ l # ld
             /\ Renewed(l)' <=> Renewed(l)
  BY <1>1, <1>2 DEF Done, Current, Built, Renewed, LD
<1>4. NewMap'
  BY <1>1, <1>3, NewMapKept
<1>5. OldMap' /\ OldApart'
  <2>1. \A l \in LD : l # ld => reg'[l] = reg[l]
    BY <1>1, <1>2
  <2>. QED
    BY <1>1, <1>3, <2>1, OldMapKept
<1>6. Source'
  BY <1>1 DEF Source
<1>. QED
  BY <1>4, <1>5, <1>6

LEMMA DropLdMap ==
    ASSUME ListInv, MapInv, MapKept, DropLd
    PROVE  MapInv'
<1>. USE DEF MapInv
<1>1. /\ pc = "drop" /\ pc' = "dropping"
      /\ UNCHANGED lists /\ UNCHANGED <<ldn, bank, bram, req, src, reg, ld>>
  BY DEF DropLd
<1>2. ASSUME NEW l \in LD
      PROVE  /\ Done(l)' <=> Done(l)
             /\ ~Current(l)
             /\ Built(l)' <=> Built(l)
             /\ Renewed(l)' <=> Renewed(l)
  BY <1>1 DEF Done, Current, Built, Renewed
<1>3. NewMap'
  BY <1>1, <1>2, NewMapKept
<1>4. OldMap' /\ OldApart'
  BY <1>1, <1>2, OldMapKept
<1>5. Source'
  BY <1>1 DEF Source
<1>. QED
  BY <1>3, <1>4, <1>5

LEMMA ClearRegisterMap ==
    ASSUME ListInv, MapInv, MapKept, ClearRegister
    PROVE  MapInv'
<1>. USE DEF MapInv
<1>1. /\ pc = "dropping" /\ pc' = "drop" /\ ld' = ld + 1 /\ left = 0
      /\ UNCHANGED lists /\ UNCHANGED <<ldn, bank, bram, req, src>>
      /\ reg' = [reg EXCEPT ![ld] = NoMap]
  BY DEF ClearRegister
<1>2. /\ ld \in LD /\ ld \in Nat /\ ld \in Len(req) + 1 .. ldn /\ Len(req) \in Nat
      /\ reg \in [LD -> [blocks : Nat, base : Nat]]
  BY <1>1, PresentLd DEF ListInv, CommandInv, Control, CommandType, Place
<1>3. ASSUME NEW l \in LD
      PROVE  /\ Done(l)' <=> (Done(l) \/ l = ld)
             /\ Current(l) <=> l = ld
             /\ ~Current(l)'
             /\ Built(l)' <=> Built(l)
             /\ Renewed(l) => Renewed(l)'
             /\ Renewed(l)' => Renewed(l) \/ l = ld
  BY <1>1, <1>2 DEF Done, Current, Built, Renewed, LD
<1>4. count[ld] = 0
  BY <1>1 DEF ListInv, Sizes
<1>5. NewMap'
  BY <1>1, <1>3, <1>4, NewMapKept
<1>6. OldMap' /\ OldApart'
  <2>1. \A l \in LD : l # ld => reg'[l] = reg[l]
    BY <1>1, <1>2
  <2>2. reg'[ld].blocks = 0
    BY <1>1, <1>2 DEF NoMap
  <2>. QED
    BY <1>1, <1>3, <2>1, <2>2, OldMapKept
<1>7. Source'
  BY <1>1 DEF Source
<1>. QED
  BY <1>5, <1>6, <1>7

LEMMA UnchangedMap ==
    ASSUME ListInv, MapInv, MapKept, UNCHANGED lists,
           UNCHANGED <<ldn, bank, bram, reg, pc, req, ld, src>>
    PROVE  MapInv'
<1>. USE DEF MapInv
<1>1. ASSUME NEW l \in LD
      PROVE  /\ Done(l)' <=> Done(l)
             /\ Current(l)' <=> Current(l)
             /\ Built(l)' <=> Built(l)
             /\ Renewed(l)' <=> Renewed(l)
  BY DEF Done, Current, Built, Renewed
<1>2. NewMap'
  BY <1>1, NewMapKept
<1>3. OldMap' /\ OldApart'
  BY <1>1, OldMapKept
<1>4. Source'
  BY SourceKept DEF Source
<1>. QED
  BY <1>2, <1>3, <1>4

\* The place of the n-th block of LD l in the map that is built.
LEMMA NewPlace ==
    ASSUME ListInv, SumFunction(req) <= BankSize, NEW l \in 1 .. Len(req), NEW n \in 1 .. req[l]
    PROVE  /\ Standby + Offset(req, l) + n - 1 \in Entry
           /\ \A m \in 1 .. Len(req) : l < m =>
                 Standby + Offset(req, l) + n - 1 < Standby + Offset(req, m)
<1>1. bank \in {0, 1} /\ req \in Seq(Nat)
  BY DEF ListInv, CommandInv, Control, CommandType
<1>2. /\ Offset(req, l) \in Nat /\ req[l] \in Nat
      /\ Offset(req, l) + req[l] <= SumFunction(req) /\ SumFunction(req) \in Nat
  BY <1>1, OffsetStep
<1>3. /\ Standby \in {0, BankSize} /\ Standby \in Nat
      /\ SumFunction(req) <= BankSize /\ BankSize \in Nat
  BY <1>1, <1>2, Banks, Constants
<1>4. Standby + Offset(req, l) + n - 1 \in Entry
  <2>1. n \in Nat /\ n >= 1 /\ n <= req[l]
    BY <1>2
  <2>2. Offset(req, l) + n <= BankSize
    BY ONLY <1>2, <1>3, <2>1
  <2>. QED
    BY ONLY <1>2, <1>3, <2>1, <2>2, Constants DEF Entry
<1>5. ASSUME NEW m \in 1 .. Len(req), l < m
      PROVE  Standby + Offset(req, l) + n - 1 < Standby + Offset(req, m)
  <2>1. Offset(req, l) + req[l] <= Offset(req, m) /\ Offset(req, m) \in Nat
    BY <1>1, <1>5, OffsetsApart, OffsetStep
  <2>. QED
    <3>1. n \in Nat /\ n <= req[l]
      BY <1>2
    <3>2. Offset(req, l) \in Nat /\ req[l] \in Nat /\ Standby \in Nat
      BY <1>2, <1>3
    <3>3. Offset(req, l) + n <= Offset(req, m)
      BY ONLY <2>1, <3>1, <3>2
    <3>. QED
      BY ONLY <2>1, <3>1, <3>2, <3>3
<1>. QED
  BY <1>4, <1>5

LEMMA AllocateLdMap ==
    ASSUME Orderly, ListInv, MapInv, MapKept, AllocateLd
    PROVE  MapInv'
<1>. USE DEF MapInv
<1>0. SumFunction(req) <= BankSize
  BY RequestFits, Constants DEF AllocateLd
<1>1. /\ pc = "ld" /\ src' = src + count[ld] /\ pc' \in {"grow", "shrink"}
      /\ pc' = "grow" => req[ld] >= count[ld] /\ CopyMap(count[ld])
      /\ pc' = "shrink" => ~(req[ld] >= count[ld]) /\ CopyMap(req[ld])
      /\ UNCHANGED lists /\ UNCHANGED <<ldn, bank, reg, req, ld, dst>>
  BY DEF AllocateLd
<1>2. UNCHANGED <<next, head, count>>
  BY <1>1 DEF lists
<1>3. /\ ld \in LD /\ ld \in 1 .. Len(req) /\ ld \in Nat /\ Len(req) \in Nat
      /\ req[ld] \in Nat /\ count[ld] \in Nat /\ src \in Nat /\ ldn \in 0 .. MaxLd
      /\ dst = Standby + Offset(req, ld) /\ dst \in Nat
      /\ reg \in [LD -> [blocks : Nat, base : Nat]]
  <2>1. CommandType /\ Place /\ Control
    BY DEF ListInv, CommandInv, Control
  <2>2. ld \in LD /\ ld \in 1 .. Len(req) /\ req[ld] \in Nat /\ count[ld] \in Nat
    BY <1>1, <2>1, PresentLd
  <2>3. dst = Standby + Offset(req, ld)
    BY <1>1, <2>1 DEF Place
  <2>. QED
    BY <2>1, <2>2, <2>3 DEF CommandType
<1>4. pc' = "shrink" => req[ld] = 0
  BY <1>1, <1>3 DEF ListInv, Supply
<1>5. ASSUME NEW l \in LD
      PROVE  /\ Done(l)' <=> Done(l)
             /\ ~Current(l) /\ ~Built(l) /\ ~Built(l)'
             /\ Renewed(l) => Renewed(l)' /\ l < ld /\ Done(l)
             /\ Renewed(l)' => Renewed(l) \/ (l = ld /\ pc' = "grow")
             /\ ~Done(ld)
  BY <1>1, <1>3 DEF Done, Current, Built, Renewed, LD
<1>6. OldMap' /\ OldApart'
  BY <1>1, <1>5, OldMapKept
<1>7. reg[ld].blocks = count[ld]
  BY <1>3, <1>5 DEF ListInv, Sizes
<1>8. ld <= ldn => src = reg[ld].base
  BY <1>1 DEF Source
<1>9. Source'
  <2>1. ASSUME ld < ldn PROVE src' = reg[ld + 1].base
    <3>1. src' = reg[ld].base + reg[ld].blocks
      BY <1>1, <1>3, <1>7, <1>8, <2>1
    <3>2. ld \in 1 .. ldn - 1
      BY <1>3, <2>1
    <3>. QED
      BY <1>1, <3>1, <3>2 DEF Source
  <2>. QED
    BY <1>1, <2>1, SourceKept
<1>10. \A l, i : Node(l, i)' = Node(l, i)
  BY <1>2, NodesKept
<1>11. NewMap'
  <2>. SUFFICES ASSUME NEW l \in LD, Renewed(l)', NEW n \in 1 .. count[l]
                PROVE  bram'[Standby + Offset(req, l) + n - 1] = Node(l, n)
    BY <1>1, <1>2, <1>10 DEF NewMap, Standby, Offset
  <2>. DEFINE e == Standby + Offset(req, l) + n - 1
  <2>1. CASE Renewed(l)
    <3>1. l < ld /\ l \in Nat /\ l \in 1 .. Len(req)
      BY <1>3, <1>5, <2>1 DEF LD
    <3>2. n \in 1 .. req[l]
      <4>1. count[l] = NewSize(l)
        BY <1>5, <2>1 DEF ListInv, Sizes
      <4>. QED
        BY <3>1, <4>1 DEF NewSize
    <3>3. e \in Entry /\ e < dst
      BY <1>0, <1>3, <3>1, <3>2, NewPlace
    <3>4. bram'[e] = bram[e]
      <4>1. \A k \in Nat : e \notin dst .. dst + k - 1
        BY <1>3, <3>3 DEF Entry
      <4>. HIDE DEF e
      <4>. QED
        BY <1>1, <1>3, <3>3, <4>1 DEF CopyMap
    <3>. QED
      BY <2>1, <3>4 DEF NewMap
  <2>2. CASE l = ld /\ pc' = "grow"
    <3>1. n \in 1 .. req[ld]
      BY <1>1, <1>3, <2>2
    <3>2. e \in Entry /\ e = dst + n - 1
      <4>1. e \in Entry
        BY <1>0, <1>3, <2>2, <3>1, NewPlace
      <4>2. e = Standby + Offset(req, ld) + n - 1
        BY <2>2
      <4>3. dst = Standby + Offset(req, ld)
        BY <1>3
      <4>. HIDE DEF e
      <4>. QED
        BY ONLY <4>1, <4>2, <4>3
    <3>3. e \in dst .. dst + count[ld] - 1 /\ src + e - dst = src + n - 1
      <4>1. n \in 1 .. count[ld] /\ e = dst + n - 1
        BY <2>2, <3>2
      <4>2. count[ld] \in Nat /\ src \in Nat /\ dst \in Nat
        BY <1>3
      <4>. HIDE DEF e
      <4>. QED
        BY ONLY <4>1, <4>2
    <3>4. bram'[e] = bram[src + n - 1]
      <4>. HIDE DEF e
      <4>. QED
        BY <1>1, <2>2, <3>2, <3>3 DEF CopyMap
    <3>5. ld <= ldn
      <4>1. reg[ld].blocks # 0
        BY <1>3, <1>7, <2>2
      <4>2. ~(ld > ldn)
        BY <1>3, <1>5, <4>1 DEF ListInv, CommandInv, Registers
      <4>. QED
        BY <1>3, <4>2
    <3>6. bram[reg[ld].base + n - 1] = Node(ld, n)
      BY <1>3, <1>5, <1>7, <2>2 DEF OldMap, MapBlock
    <3>. QED
      BY <1>8, <2>2, <3>4, <3>5, <3>6
  <2>. QED
    BY <1>5, <2>1, <2>2
<1>. QED
  BY <1>6, <1>9, <1>11

\* What Move does to the blocks of the lists.
LEMMA NodesMoved ==
    ASSUME Listed, NEW from \in Lists, NEW to \in Lists, from # to, count[from] > 0,
           MoveNodes(from, to),
           count' = [count EXCEPT ![from] = @ - 1, ![to] = @ + 1]
    PROVE  /\ Nodes(from)' = Nodes(from) \ {Node(from, 1)}
           /\ Nodes(to)' = Nodes(to) \cup {Node(from, 1)}
           /\ \A l \in Lists \ {from, to} : Nodes(l)' = Nodes(l)
           /\ Node(from, 1) \in Nodes(from)
<1>1. /\ count \in [Lists -> Nat] /\ count[from] \in Nat /\ count[to] \in Nat
      /\ count'[from] = count[from] - 1 /\ count'[to] = count[to] + 1
      /\ \A l \in Lists \ {from, to} : count'[l] = count[l]
  BY DEF Listed, ListType
<1>2. Nodes(from)' = Nodes(from) \ {Node(from, 1)}
  <2>1. \A i \in 1 .. count[from] - 1 : /\ i + 1 \in 1 .. count[from] /\ i + 1 # 1
                                        /\ Node(from, i)' = Node(from, i + 1)
                                        /\ Node(from, i + 1) # Node(from, 1)
    BY <1>1 DEF MoveNodes, Listed, Apart
  <2>2. \A j \in 1 .. count[from] : j # 1 => /\ j - 1 \in 1 .. count[from] - 1
                                             /\ (j - 1) + 1 = j
    BY <1>1
  <2>3. Nodes(from)' = {Node(from, i)' : i \in 1 .. count[from] - 1}
    BY <1>1 DEF Nodes
  <2>4. Nodes(from)' \subseteq Nodes(from) \ {Node(from, 1)}
    BY <2>1, <2>3 DEF Nodes
  <2>5. ASSUME NEW b \in Nodes(from) \ {Node(from, 1)} PROVE b \in Nodes(from)'
    <3>1. PICK j \in 1 .. count[from] : b = Node(from, j) /\ j # 1
      BY DEF Nodes
    <3>. DEFINE i == j - 1
    <3>2. i \in 1 .. count[from] - 1 /\ i + 1 = j
      BY <2>2, <3>1
    <3>. HIDE DEF i
    <3>3. b = Node(from, i)'
      BY <2>1, <3>1, <3>2
    <3>. QED
      BY <2>3, <3>2, <3>3
  <2>. QED
    BY <2>4, <2>5
<1>3. Nodes(to)' = Nodes(to) \cup {Node(from, 1)}
  <2>1. \A i \in 1 .. count[to] + 1 :
            Node(to, i)' = IF i = count[to] + 1 THEN Node(from, 1) ELSE Node(to, i)
    BY DEF MoveNodes
  <2>2. Nodes(to)' = {Node(to, i)' : i \in 1 .. count[to] + 1}
    BY <1>1 DEF Nodes
  <2>3. \A i \in 1 .. count[to] + 1 : i # count[to] + 1 => i \in 1 .. count[to]
    BY <1>1
  <2>4. \A i \in 1 .. count[to] : i # count[to] + 1 /\ i \in 1 .. count[to] + 1
    BY <1>1
  <2>5. count[to] + 1 \in 1 .. count[to] + 1
    BY <1>1
  <2>6. Nodes(to)' \subseteq Nodes(to) \cup {Node(from, 1)}
    BY <2>1, <2>2, <2>3 DEF Nodes
  <2>7. Node(from, 1) \in Nodes(to)'
    BY <2>1, <2>2, <2>5
  <2>8. Nodes(to) \subseteq Nodes(to)'
    BY <2>1, <2>2, <2>4 DEF Nodes
  <2>. QED
    BY <2>6, <2>7, <2>8
<1>4. ASSUME NEW l \in Lists \ {from, to} PROVE Nodes(l)' = Nodes(l)
  BY <1>1 DEF MoveNodes, Nodes
<1>5. Node(from, 1) \in Nodes(from)
  BY <1>1 DEF Nodes
<1>. QED
  BY <1>2, <1>3, <1>4, <1>5

LEMMA AddBlockMap ==
    ASSUME ListInv, MapInv, MapKept, AddBlock
    PROVE  MapInv'
<1>. USE DEF MapInv
<1>0. SumFunction(req) <= BankSize
  BY RequestFits, Constants DEF AddBlock
<1>1. /\ pc = "grow" /\ left > 0
      /\ UNCHANGED <<ldn, bank, reg, pc, req, ld, src, dst>>
  BY DEF AddBlock
<1>2. /\ ld \in LD /\ ld \in 1 .. Len(req) /\ ld \in Nat /\ Len(req) \in Nat
      /\ req[ld] \in Nat /\ count[ld] \in Nat /\ left \in Nat
      /\ dst = Standby + Offset(req, ld) /\ dst \in Nat
      /\ count \in [Lists -> Nat] /\ ld \in Lists /\ Free \in Lists /\ Free # ld
      /\ DOMAIN bram = Entry
  BY <1>1, PresentLd, LdLists
     DEF ListInv, CommandInv, Control, CommandType, Place, Listed, ListType
<1>3. /\ bram' = [bram EXCEPT ![dst + count[ld]] = Node(Free, 1)]
      /\ MoveNodes(Free, ld) /\ count[Free] > 0
      /\ count' = [count EXCEPT ![Free] = @ - 1, ![ld] = @ + 1]
  BY AddBlockLists DEF Move
<1>4. /\ Nodes(Free)' = Nodes(Free) \ {Node(Free, 1)}
      /\ Nodes(ld)' = Nodes(ld) \cup {Node(Free, 1)}
      /\ \A l \in Lists \ {Free, ld} : Nodes(l)' = Nodes(l)
  BY <1>1, <1>2, <1>3, NodesMoved DEF ListInv
<1>5. \A l \in LD : \A n \in 1 .. count[l] : Node(l, n)' = Node(l, n)
  <2>. SUFFICES ASSUME NEW l \in LD, NEW n \in 1 .. count[l] PROVE Node(l, n)' = Node(l, n)
    OBVIOUS
  <2>1. CASE l = ld
    <3>1. n \in 1 .. count[ld] + 1 /\ n # count[ld] + 1
      BY <1>2, <2>1
    <3>. QED
      BY <1>1, <1>3, <2>1, <3>1 DEF MoveNodes
  <2>2. CASE l # ld
    BY <1>3, <2>2, LdLists DEF MoveNodes
  <2>. QED
    BY <2>1, <2>2
<1>6. ASSUME NEW l \in LD
      PROVE  /\ Done(l)' <=> Done(l)
             /\ Current(l)' <=> Current(l)
             /\ ~Built(l) /\ ~Built(l)'
             /\ Renewed(l)' <=> Renewed(l)
             /\ Done(l) <=> l < ld
             /\ Renewed(l) <=> l <= ld
             /\ Current(l) <=> l = ld
  BY <1>1, <1>2 DEF Done, Current, Built, Renewed, LD
<1>7. \A l \in LD : \A n \in 1 .. reg[l].blocks : MapBlock(l, n)' = MapBlock(l, n)
  BY <1>1, MapBlockKept DEF ListInv
<1>8. OldApart'
  BY <1>1, <1>6, <1>7 DEF OldApart
<1>9. OldMap'
  <2>. SUFFICES ASSUME NEW l \in LD, NEW n \in 1 .. reg[l].blocks
                PROVE  IF Done(l) \/ Current(l) THEN Traced(l, MapBlock(l, n))'
                                                ELSE MapBlock(l, n) = Node(l, n)'
    BY <1>1, <1>6, <1>7 DEF OldMap
  <2>. DEFINE b == MapBlock(l, n)
  <2>1. CASE Done(l) \/ Current(l)
    <3>1. Traced(l, b)
      BY <1>6, <2>1 DEF OldMap
    <3>2. l <= ld /\ l \in Lists /\ l # Free
      BY <1>2, <1>6, <2>1, LdLists
    <3>3. \/ b \in Nodes(l)' \/ b \in Nodes(Free)'
          \/ \E j \in LD : j > l /\ Renewed(j)' /\ b \in Nodes(j)'
      <4>1. CASE b \in Nodes(l)
        BY <1>1, <1>4, <3>2, <4>1
      <4>2. CASE b \in Nodes(Free) /\ b # Node(Free, 1)
        BY <1>1, <1>4, <4>2
      <4>3. CASE b = Node(Free, 1)
        <5>1. b \in Nodes(ld)' /\ Renewed(ld)'
          BY <1>1, <1>2, <1>4, <1>6, <4>3
        <5>2. l = ld \/ ld > l
          BY <1>2, <3>2, LdLists
        <5>. QED
          BY <1>1, <1>2, <5>1, <5>2
      <4>4. ASSUME NEW j \in LD, j > l, Renewed(j), b \in Nodes(j)
            PROVE  Renewed(j)' /\ b \in Nodes(j)'
        BY <1>1, <1>4, <1>6, <4>4, LdLists
      <4>. QED
        BY <3>1, <4>1, <4>2, <4>3, <4>4 DEF Traced
    <3>4. b' = b
      BY <1>7
    <3>. QED
      BY <2>1, <3>3, <3>4 DEF Traced
  <2>2. CASE ~(Done(l) \/ Current(l))
    <3>1. b = Node(l, n) /\ count[l] = reg[l].blocks
      BY <1>6, <2>2 DEF OldMap, ListInv, Sizes
    <3>. QED
      BY <1>5, <2>2, <3>1
  <2>. QED
    BY <2>1, <2>2
<1>10. NewMap'
  <2>1. Standby' = Standby /\ \A l : Offset(req, l)' = Offset(req, l)
    BY <1>1 DEF Standby, Offset
  <2>. SUFFICES ASSUME NEW l \in LD, Renewed(l), NEW n \in 1 .. count'[l]
                PROVE  bram'[Standby + Offset(req, l) + n - 1] = Node(l, n)'
    BY <1>1, <1>6, <2>1 DEF NewMap, Offset
  <2>. DEFINE e == Standby + Offset(req, l) + n - 1
  <2>2. CASE l = ld /\ n = count[ld] + 1
    <3>1. n \in 1 .. req[ld] /\ count[ld] + 1 \in 1 .. count[ld] + 1
      <4>1. count[ld] + left = req[ld]
        BY <1>1 DEF ListInv, Sizes
      <4>. QED
        BY <1>1, <1>2, <2>2, <4>1
    <3>2. e \in Entry /\ e = dst + count[ld]
      <4>1. e \in Entry
        BY <1>0, <1>2, <2>2, <3>1, NewPlace
      <4>2. e = dst + n - 1
        BY <1>2, <2>2
      <4>. HIDE DEF e
      <4>. QED
        BY <1>2, <2>2, <4>1, <4>2
    <3>3. bram'[e] = Node(Free, 1)
      <4>. HIDE DEF e
      <4>. QED
        BY <1>2, <1>3, <3>2
    <3>4. Node(ld, n)' = Node(Free, 1)
      BY <1>1, <1>3, <2>2, <3>1 DEF MoveNodes
    <3>. QED
      BY <1>1, <2>2, <3>3, <3>4
  <2>3. CASE ~(l = ld /\ n = count[ld] + 1)
    <3>1. n \in 1 .. count[l]
      <4>1. l = ld => count'[l] = count[l] + 1
        BY <1>2, <1>3
      <4>2. l # ld => count'[l] = count[l]
        BY <1>2, <1>3, LdLists
      <4>. QED
        BY <1>2, <2>3, <4>1, <4>2
    <3>2. l \in 1 .. Len(req) /\ n \in 1 .. req[l] /\ l \in Nat
      <4>1. l \in 1 .. Len(req) /\ l \in Nat
        BY <1>2, <1>6 DEF LD
      <4>2. CASE l = ld
        <5>1. count[ld] + left = req[ld]
          BY <1>1 DEF ListInv, Sizes
        <5>. QED
          BY <1>2, <3>1, <4>1, <4>2, <5>1
      <4>3. CASE l # ld
        <5>1. Done(l) /\ count[l] = req[l]
          BY <1>2, <1>6, <4>1, <4>3 DEF ListInv, Sizes, NewSize
        <5>. QED
          BY <3>1, <4>1, <5>1
      <4>. QED
        BY <4>2, <4>3
    <3>3. e \in Entry /\ e # dst + count[ld]
      <4>1. e \in Entry
        BY <1>0, <3>2, NewPlace
      <4>2. CASE l = ld
        <5>1. e = dst + n - 1 /\ n \in 1 .. count[ld]
          BY <1>2, <3>1, <4>2
        <5>. HIDE DEF e
        <5>. QED
          BY <1>2, <4>1, <5>1
      <4>3. CASE l # ld
        <5>1. l < ld
          BY <1>2, <1>6, <3>2, <4>3
        <5>2. e < dst
          BY <1>0, <1>2, <3>2, <5>1, NewPlace
        <5>. HIDE DEF e
        <5>. QED
          BY <1>2, <4>1, <5>2 DEF Entry
      <4>. QED
        BY <4>1, <4>2, <4>3
    <3>4. bram'[e] = bram[e]
      <4>. HIDE DEF e
      <4>. QED
        BY <1>2, <1>3, <3>3
    <3>5. bram[e] = Node(l, n)
      BY <3>1 DEF NewMap
    <3>. QED
      BY <1>5, <3>1, <3>4, <3>5
  <2>. QED
    BY <2>2, <2>3
<1>11. Source'
  BY <1>1, SourceKept DEF Source
<1>. QED
  BY <1>8, <1>9, <1>10, <1>11

LEMMA RemoveBlockMap ==
    ASSUME ListInv, MapInv, MapKept, RemoveBlock
    PROVE  MapInv'
<1>. USE DEF MapInv
<1>1. /\ pc \in {"shrink", "dropping"}
      /\ UNCHANGED <<ldn, bank, bram, reg, pc, req, ld, src>>
  BY DEF RemoveBlock
<1>2. /\ ld \in LD /\ ld \in Lists /\ Free \in Lists /\ Free # ld /\ ld \in Nat
      /\ pc = "dropping" => ld > Len(req)
      /\ Len(req) \in Nat
  BY <1>1, PresentLd, LdLists DEF ListInv, CommandInv, Control, CommandType, Place
<1>3. /\ MoveNodes(ld, Free) /\ count[ld] > 0
      /\ count' = [count EXCEPT ![ld] = @ - 1, ![Free] = @ + 1]
  BY RemoveBlockLists DEF Move
<1>4. /\ Nodes(ld)' = Nodes(ld) \ {Node(ld, 1)}
      /\ Nodes(Free)' = Nodes(Free) \cup {Node(ld, 1)}
      /\ \A l \in Lists \ {Free, ld} : Nodes(l)' = Nodes(l)
  BY <1>1, <1>2, <1>3, NodesMoved DEF ListInv
<1>5. \A l \in LD : l # ld =>
          count'[l] = count[l] /\ \A n \in 1 .. count[l] : Node(l, n)' = Node(l, n)
  BY <1>2, <1>3, LdLists DEF MoveNodes, ListInv, Listed, ListType
<1>6. ASSUME NEW l \in LD
      PROVE  /\ Done(l)' <=> Done(l)
             /\ Current(l)' <=> Current(l)
             /\ Built(l)' <=> Built(l)
             /\ Renewed(l)' <=> Renewed(l)
             /\ Current(l) <=> l = ld
             /\ Renewed(l) => l # ld
  BY <1>1, <1>2 DEF Done, Current, Built, Renewed, LD
<1>7. \A l \in LD : \A n \in 1 .. reg[l].blocks : MapBlock(l, n)' = MapBlock(l, n)
  BY <1>1, MapBlockKept DEF ListInv
<1>8. OldApart'
  BY <1>1, <1>6, <1>7 DEF OldApart
<1>9. OldMap'
  <2>. SUFFICES ASSUME NEW l \in LD, ~Built(l), NEW n \in 1 .. reg[l].blocks
                PROVE  IF Done(l) \/ Current(l) THEN Traced(l, MapBlock(l, n))'
                                                ELSE MapBlock(l, n) = Node(l, n)'
    BY <1>1, <1>6, <1>7 DEF OldMap
  <2>. DEFINE b == MapBlock(l, n)
  <2>1. CASE Done(l) \/ Current(l)
    <3>1. Traced(l, b)
      BY <2>1 DEF OldMap
    <3>2. l \in Lists /\ l # Free
      BY LdLists
    <3>3. \/ b \in Nodes(l)' \/ b \in Nodes(Free)'
          \/ \E j \in LD : j > l /\ Renewed(j)' /\ b \in Nodes(j)'
      <4>1. CASE b \in Nodes(l)
        BY <1>1, <1>4, <3>2, <4>1
      <4>2. CASE b \in Nodes(Free)
        BY <1>1, <1>4, <4>2
      <4>3. ASSUME NEW j \in LD, j > l, Renewed(j), b \in Nodes(j)
            PROVE  Renewed(j)' /\ b \in Nodes(j)'
        BY <1>1, <1>4, <1>6, <4>3, LdLists
      <4>. QED
        BY <3>1, <4>1, <4>2, <4>3 DEF Traced
    <3>4. b' = b
      BY <1>7
    <3>. QED
      BY <2>1, <3>3, <3>4 DEF Traced
  <2>2. CASE ~(Done(l) \/ Current(l))
    <3>1. b = Node(l, n) /\ count[l] = reg[l].blocks /\ l # ld
      BY <1>6, <2>2 DEF OldMap, ListInv, Sizes
    <3>. QED
      BY <1>5, <2>2, <3>1
  <2>. QED
    BY <2>1, <2>2
<1>10. NewMap'
  <2>1. Standby' = Standby /\ \A l : Offset(req, l)' = Offset(req, l)
    BY <1>1 DEF Standby, Offset
  <2>. SUFFICES ASSUME NEW l \in LD, Renewed(l), NEW n \in 1 .. count'[l]
                PROVE  bram[Standby + Offset(req, l) + n - 1] = Node(l, n)'
    BY <1>1, <1>6, <2>1 DEF NewMap, Offset
  <2>. QED
    BY <1>5, <1>6 DEF NewMap
<1>11. Source'
  BY <1>1, SourceKept DEF Source
<1>. QED
  BY <1>8, <1>9, <1>10, <1>11

LEMMA FinishMap ==
    ASSUME ListInv, MapInv, Finish
    PROVE  MapInv'
<1>. USE DEF MapInv
<1>1. /\ pc = "drop" /\ ld > ldn /\ pc' = "idle" /\ ldn' = Len(req) /\ bank' = 1 - bank
      /\ UNCHANGED lists /\ UNCHANGED <<bram, reg>>
  BY DEF Finish
<1>2. UNCHANGED <<next, head, count>>
  BY <1>1 DEF lists
<1>3. /\ req \in Seq(Nat) /\ Len(req) <= MaxLd /\ Len(req) \in Nat /\ ld \in Nat
      /\ ldn \in 0 .. MaxLd /\ bank \in {0, 1}
      /\ reg \in [LD -> [blocks : Nat, base : Nat]]
  BY DEF ListInv, CommandInv, Control, CommandType
<1>4. ASSUME NEW l \in LD, l <= Len(req)
      PROVE  /\ reg[l].blocks = count[l] /\ reg[l].blocks = req[l]
             /\ reg[l].base = Standby + Offset(req, l)
             /\ \A n \in 1 .. reg[l].blocks : MapBlock(l, n) = Node(l, n)
  <2>1. Built(l) /\ Done(l) /\ Renewed(l) /\ NewSize(l) = req[l]
    BY <1>1, <1>4 DEF Built, Done, Renewed, NewSize
  <2>2. reg[l] = [blocks |-> req[l], base |-> Standby + Offset(req, l)]
    BY <2>1 DEF ListInv, CommandInv, Registers
  <2>3. reg[l].blocks = req[l] /\ reg[l].base = Standby + Offset(req, l)
    BY ONLY <2>2
  <2>4. count[l] = req[l]
    BY <2>1 DEF ListInv, Sizes
  <2>. QED
    BY <2>1, <2>3, <2>4 DEF NewMap, MapBlock
<1>5. ASSUME NEW l \in LD, ~(l <= Len(req)) PROVE reg[l].blocks = 0
  <2>1. ~Built(l)
    BY <1>1, <1>5 DEF Built
  <2>2. l > ldn \/ l < ld
    BY <1>1, <1>3 DEF LD
  <2>. QED
    BY <1>1, <2>1, <2>2 DEF ListInv, CommandInv, Registers
<1>6. ASSUME NEW l \in LD, NEW n \in 1 .. reg[l].blocks
      PROVE  MapBlock(l, n) = Node(l, n) /\ n \in 1 .. count[l] /\ MapBlock(l, n)' = MapBlock(l, n)
  BY <1>1, <1>4, <1>5 DEF MapBlock
<1>7. ASSUME NEW l \in LD PROVE ~Done(l)' /\ ~Current(l)' /\ ~Renewed(l)'
  BY <1>1 DEF Done, Current, Renewed
<1>8. NewMap'
  BY <1>7 DEF NewMap
<1>9. OldMap'
  <2>1. \A l, i : Node(l, i)' = Node(l, i)
    BY <1>2, NodesKept
  <2>. SUFFICES ASSUME NEW l \in LD, NEW n \in 1 .. reg[l].blocks
                PROVE  MapBlock(l, n)' = Node(l, n)'
    BY <1>1, <1>7 DEF OldMap
  <2>. QED
    BY <1>6, <2>1
<1>10. OldApart'
  <2>. SUFFICES ASSUME NEW l \in LD, NEW m \in LD, l # m,
                       NEW n \in 1 .. reg[l].blocks, NEW k \in 1 .. reg[m].blocks
                PROVE  MapBlock(l, n)' # MapBlock(m, k)'
    BY <1>1 DEF OldApart
  <2>1. Node(l, n) # Node(m, k)
    BY <1>6, LdLists DEF ListInv, Listed, Apart
  <2>. QED
    BY <1>6, <2>1
<1>11. Source'
  <2>1. Active' = Standby
    BY <1>1 DEF Active, Standby
  <2>2. ASSUME NEW l \in 1 .. Len(req)
        PROVE  /\ l \in LD /\ reg[l].base = Standby + Offset(req, l) /\ reg[l].blocks = req[l]
               /\ Offset(req, 1) = 0 /\ Offset(req, l) \in Nat /\ req[l] \in Nat
               /\ Offset(req, l + 1) = Offset(req, l) + req[l]
    <3>1. l \in LD /\ l <= Len(req)
      BY <1>3, Constants DEF LD
    <3>. QED
      BY <1>3, <1>4, <3>1, OffsetStep
  <2>3. Standby \in Nat
    BY <1>3, Banks, Constants
  <2>4. ldn' > 0 => reg'[1].base = Active'
    BY <1>1, <1>3, <2>1, <2>2, <2>3
  <2>5. ASSUME NEW l \in 1 .. Len(req) - 1
        PROVE  reg[l + 1].base = reg[l].base + reg[l].blocks
    <3>1. l \in 1 .. Len(req) /\ l + 1 \in 1 .. Len(req)
      BY <1>3
    <3>2. /\ reg[l].base = Standby + Offset(req, l) /\ reg[l].blocks = req[l]
          /\ Offset(req, l) \in Nat /\ req[l] \in Nat
          /\ Offset(req, l + 1) = Offset(req, l) + req[l]
      BY ONLY <2>2, <3>1
    <3>3. reg[l + 1].base = Standby + Offset(req, l + 1)
      BY ONLY <2>2, <3>1
    <3>. QED
      BY ONLY <2>3, <3>2, <3>3
  <2>. QED
    BY <1>1, <2>4, <2>5 DEF Source
<1>. QED
  BY <1>8, <1>9, <1>10, <1>11

LEMMA InitialMapInv == Init => MapInv
<1>. SUFFICES ASSUME Init PROVE MapInv
  OBVIOUS
<1>1. /\ pc = "idle" /\ ldn = 0 /\ ld = 0 /\ \A l \in LD : reg[l].blocks = 0
  BY DEF Init, NoMap
<1>2. \A l \in LD : ~Renewed(l)
  BY <1>1 DEF Renewed, Done
<1>3. NewMap
  BY <1>2 DEF NewMap
<1>4. OldMap /\ OldApart
  BY <1>1 DEF OldMap, OldApart
<1>5. Source
  BY <1>1 DEF Source
<1>. QED
  BY <1>3, <1>4, <1>5 DEF MapInv

LEMMA MapStep == Orderly /\ ListInv /\ MapInv /\ [Next]_vars => MapInv'
<1>. SUFFICES ASSUME Orderly, ListInv, MapInv, [Next]_vars PROVE MapInv'
  OBVIOUS
<1>1. MapKept
  <2>1. CASE UNCHANGED vars
    BY <2>1 DEF MapKept, vars
  <2>2. CASE ~UNCHANGED vars
    BY <2>2, ListMapKept
  <2>. QED
    BY <2>1, <2>2
<1>2. CASE UNCHANGED vars
  <2>1. UNCHANGED lists /\ UNCHANGED <<ldn, bank, bram, reg, pc, req, ld, src>>
    BY <1>2 DEF vars, lists
  <2>. QED
    BY <1>1, <2>1, UnchangedMap
<1>3. ASSUME ZeroBlock \/ \E l \in Writers : HostWrite(l) PROVE MapInv'
  <2>1. UNCHANGED lists /\ UNCHANGED <<ldn, bank, bram, reg, pc, req, ld, src>>
    BY <1>3 DEF ZeroBlock, HostWrite, control
  <2>. QED
    BY <1>1, <2>1, UnchangedMap
<1>. QED
  BY <1>1, <1>2, <1>3, SetAllocationMap, AllocateLdMap, AddBlockMap, RemoveBlockMap,
     FinishLdMap, WriteRegisterMap, DropLdMap, ClearRegisterMap, FinishMap DEF Next, Step

LEMMA MapsKept ==
    ASSUME Orderly
    PROVE  Spec => [](ListInv /\ MapInv)
BY InitialListInv, ListStep, InitialMapInv, MapStep, PTL DEF Spec

\* Whom the blocks in the map belong to.
LEMMA MapBlocks ==
    ASSUME ListInv, MapInv, NEW l \in LD, NEW n \in 1 .. reg[l].blocks
    PROVE  /\ Built(l) => MapBlock(l, n) \in Nodes(l)
           /\ ~Built(l) => Traced(l, MapBlock(l, n))
           /\ MapBlock(l, n) \in Block
<1>. USE DEF MapInv
<1>1. ASSUME Built(l) PROVE MapBlock(l, n) \in Nodes(l)
  <2>1. Done(l) /\ NewSize(l) = req[l]
    <3>1. pc = "register" => ld \in 1 .. Len(req) /\ Len(req) \in Nat /\ l \in Nat
      BY LdLists DEF ListInv, CommandInv, Control, CommandType, Place
    <3>. QED
      BY <1>1, <3>1 DEF Built, Done, NewSize
  <2>2. reg[l] = [blocks |-> req[l], base |-> Standby + Offset(req, l)]
    BY <1>1 DEF ListInv, CommandInv, Registers
  <2>3. reg[l].blocks = req[l] /\ reg[l].base = Standby + Offset(req, l)
    BY ONLY <2>2
  <2>4. count[l] = req[l]
    BY <2>1 DEF ListInv, Sizes
  <2>. QED
    BY <2>1, <2>3, <2>4 DEF NewMap, MapBlock, Renewed, Nodes
<1>2. ASSUME ~Built(l) PROVE Traced(l, MapBlock(l, n))
  <2>1. CASE Done(l) \/ Current(l)
    BY <1>2, <2>1 DEF OldMap
  <2>2. CASE ~(Done(l) \/ Current(l))
    <3>1. MapBlock(l, n) = Node(l, n) /\ count[l] = reg[l].blocks
      BY <1>2, <2>2 DEF OldMap, ListInv, Sizes
    <3>. QED
      BY <3>1 DEF Traced, Nodes
  <2>. QED
    BY <2>1, <2>2
<1>3. \A m \in Lists : Nodes(m) \subseteq Block
  BY DEF Nodes, ListInv, Listed, Chained
<1>4. MapBlock(l, n) \in Block
  BY <1>1, <1>2, <1>3, LdLists DEF Traced
<1>. QED
  BY <1>1, <1>2, <1>4

LEMMA MappedBlock ==
    ASSUME ListInv, MapInv, NEW l \in LD, NEW u \in Mapped(l)
    PROVE  \E n \in 1 .. reg[l].blocks : u = MapBlock(l, n)
<1>1. gran = 1 /\ reg[l].blocks \in Nat /\ reg[l].base \in Nat
  BY DEF ListInv, Listed, ListType, CommandInv, Control, CommandType
<1>2. PICK e \in MapEntries(l) : u \in bram[e] .. bram[e] + gran - 1
  BY DEF Mapped
<1>. DEFINE n == e - reg[l].base + 1
<1>3. n \in 1 .. reg[l].blocks /\ reg[l].base + n - 1 = e
  BY <1>1, <1>2 DEF MapEntries
<1>. HIDE DEF n
<1>4. MapBlock(l, n) = bram[e]
  BY <1>3 DEF MapBlock
<1>5. bram[e] \in Block
  BY <1>3, <1>4, MapBlocks
<1>6. u = bram[e]
  BY <1>1, <1>2, <1>5, Constants DEF Block
<1>. QED
  BY <1>3, <1>4, <1>6

LEMMA NodesApart ==
    ASSUME Listed, NEW l \in Lists, NEW m \in Lists, l # m
    PROVE  Nodes(l) \cap Nodes(m) = {}
BY DEF Listed, Apart, Nodes

\* An LD that has its new register and one that has its old one.
LEMMA BuiltApart ==
    ASSUME ListInv, MapInv, NEW l \in LD, NEW m \in LD, Built(l), ~Built(m)
    PROVE  Mapped(l) \cap Mapped(m) = {}
<1>. SUFFICES ASSUME NEW u \in Mapped(l), u \in Mapped(m) PROVE FALSE
  OBVIOUS
<1>1. u \in Nodes(l) /\ Traced(m, u)
  BY MappedBlock, MapBlocks
<1>2. l < m /\ l \in Lists /\ m \in Lists /\ l # Free /\ l \in Nat /\ m \in Nat
  <2>1. Len(req) \in Nat /\ ld \in Nat
    BY DEF ListInv, CommandInv, Control, CommandType
  <2>. QED
    BY <2>1, LdLists DEF Built
<1>3. u \notin Nodes(m) /\ u \notin Nodes(Free)
  BY <1>1, <1>2, NodesApart, LdLists DEF ListInv
<1>4. PICK j \in LD : j > m /\ u \in Nodes(j)
  BY <1>1, <1>3 DEF Traced
<1>5. j # l /\ j \in Lists
  BY <1>2, <1>4, LdLists
<1>. QED
  BY <1>1, <1>2, <1>4, <1>5, NodesApart DEF ListInv

LEMMA MapIsolation == ListInv /\ MapInv => Isolation
<1>. SUFFICES ASSUME ListInv, MapInv, NEW l \in LD, NEW m \in LD, l # m
              PROVE  Mapped(l) \cap Mapped(m) = {}
  BY DEF Isolation
<1>1. CASE Built(l) /\ ~Built(m)
  BY <1>1, BuiltApart
<1>2. CASE ~Built(l) /\ Built(m)
  BY <1>2, BuiltApart
<1>3. CASE Built(l) /\ Built(m)
  <2>1. Mapped(l) \subseteq Nodes(l) /\ Mapped(m) \subseteq Nodes(m)
    BY <1>3, MappedBlock, MapBlocks
  <2>. QED
    BY <2>1, NodesApart, LdLists DEF ListInv
<1>4. CASE ~Built(l) /\ ~Built(m)
  <2>. SUFFICES ASSUME NEW u \in Mapped(l), u \in Mapped(m) PROVE FALSE
    OBVIOUS
  <2>1. /\ \E n \in 1 .. reg[l].blocks : u = MapBlock(l, n)
        /\ \E k \in 1 .. reg[m].blocks : u = MapBlock(m, k)
    BY MappedBlock
  <2>. QED
    BY <1>4, <2>1 DEF MapInv, OldApart
<1>. QED
  BY <1>1, <1>2, <1>3, <1>4

LEMMA MapMatches == ListInv /\ MapInv => MapMatchesLists
<1>. SUFFICES ASSUME ListInv, MapInv, pc = "idle", NEW l \in LD
              PROVE  /\ reg[l].blocks = count[l]
                     /\ \A n \in 1 .. count[l] : bram[reg[l].base + n - 1] = Node(l, n) * gran
  BY DEF MapMatchesLists
<1>1. ~Done(l) /\ ~Current(l) /\ ~Built(l)
  BY DEF Done, Current, Built
<1>2. reg[l].blocks = count[l]
  BY <1>1 DEF ListInv, Sizes
<1>3. ASSUME NEW n \in 1 .. count[l] PROVE bram[reg[l].base + n - 1] = Node(l, n) * gran
  <2>1. MapBlock(l, n) = Node(l, n) /\ Node(l, n) \in Block /\ gran = 1
    BY <1>1, <1>2, LdLists DEF MapInv, OldMap, ListInv, Listed, Chained, ListType
  <2>2. Node(l, n) * gran = Node(l, n)
    BY <2>1 DEF Block
  <2>. QED
    BY <2>1, <2>2 DEF MapBlock
<1>. QED
  BY <1>2, <1>3

\* As long as the FM is orderly, no two LDs ever reach the same memory: not
\* while registers of the new map and of the old one are in force together
\* (resour_mgt_exec_set_cmd, set_register_all).
THEOREM IsolationHolds ==
    ASSUME Orderly
    PROVE  Spec => []Isolation
BY MapsKept, MapIsolation, PTL

\* As long as the FM is orderly, after each command the map is what the lists
\* are (cp_config_to_standby, add_pb_into_ldlist).
THEOREM MapIsRight ==
    ASSUME Orderly
    PROVE  Spec => []MapMatchesLists
BY MapsKept, MapMatches, PTL

OwnBlocks ==
    \A b \in Block : used[b] /\ ~used'[b] /\ pc \in {"shrink", "dropping"} =>
        \A l \in LD \ {ld} : b * gran \notin Mapped(l)

LEMMA OwnBlocksStep == ListInv /\ MapInv /\ [Next]_vars => [OwnBlocks]_vars
<1>. SUFFICES ASSUME ListInv, MapInv, Next, pc \in {"shrink", "dropping"},
                     NEW b \in Block, used[b], ~used'[b],
                     NEW l \in LD, l # ld, b * gran \in Mapped(l)
              PROVE  FALSE
  BY DEF OwnBlocks
<1>1. RemoveBlock
  <2>1. used' # used
    OBVIOUS
  <2>. QED
    BY <2>1 DEF Next, Step, SetAllocation, AllocateLd, AddBlock, FinishLd, WriteRegister,
                DropLd, ClearRegister, Finish, ZeroBlock, HostWrite, lists
<1>2. /\ used' = [used EXCEPT ![head[ld]] = FALSE] /\ head[ld] = Node(ld, 1)
      /\ count[ld] > 0
  BY <1>1, RemoveBlockLists DEF Move
<1>3. /\ used \in [Block -> BOOLEAN] /\ gran = 1 /\ ld \in LD /\ ld \in Lists /\ l \in Lists
      /\ l # Free /\ ld # Free /\ Free \in Lists /\ count[ld] \in Nat
  BY PresentLd, LdLists DEF ListInv, CommandInv, Listed, ListType
<1>4. b = Node(ld, 1)
  BY <1>2, <1>3
<1>5. b \in Nodes(ld)
  BY <1>2, <1>3, <1>4 DEF Nodes
<1>6. b \in Mapped(l)
  BY <1>3 DEF Block
<1>7. b \notin Nodes(l) /\ b \notin Nodes(Free)
  BY <1>3, <1>5, NodesApart DEF ListInv
<1>8. ~Built(l) /\ Traced(l, b)
  BY <1>6, <1>7, MappedBlock, MapBlocks
<1>9. PICK j \in LD : Renewed(j) /\ b \in Nodes(j)
  BY <1>7, <1>8 DEF Traced
<1>10. j = ld
  BY <1>3, <1>5, <1>9, NodesApart, LdLists DEF ListInv
<1>11. ~Renewed(ld)
  <2>1. ld \in Nat /\ Len(req) \in Nat /\ (pc = "dropping" => ld > Len(req))
    BY DEF ListInv, CommandInv, Control, CommandType, Place
  <2>. QED
    BY <2>1 DEF Renewed, Done
<1>. QED
  BY <1>9, <1>10, <1>11

\* As long as the FM is orderly, a block that is taken from an LD is reachable
\* from no other LD (remove_pb_from_ldlist, samt_clean_mld_block).
THEOREM RemovalIsSafe ==
    ASSUME Orderly
    PROVE  Spec => RemovesOwnBlocks
BY MapsKept, OwnBlocksStep, PTL DEF Spec, RemovesOwnBlocks, OwnBlocks

-----------------------------------------------------------------------------
(* The background operation.                                               *)

\* It runs only until the last LD that has blocks.
Background ==
    /\ bg \in BOOLEAN
    /\ bg => ldn > 0
    /\ pc = "idle" => ~bg
    /\ pc \in {"ld", "grow", "shrink", "drop", "dropping"} /\ bg => ld <= ldn
    /\ pc = "register" /\ bg => Len(req) < ldn

LEMMA HundredPercent == ASSUME NEW n \in Nat, n > 0 PROVE (n * 100) \div n = 100
OBVIOUS

LEMMA Updated ==
    ASSUME CommandInv, Background, UpdateBackground, ld <= ldn \/ ~bg
    PROVE  bg' \in BOOLEAN /\ (bg' => bg /\ ld < ldn)
<1>1. ldn \in Nat /\ ld \in Nat
  BY DEF CommandInv, Control, CommandType
<1>2. ld = ldn /\ ldn > 0 => (ld * 100) \div ldn = 100
  BY <1>1, HundredPercent
<1>3. CASE bg
  <2>1. ldn > 0 /\ ldn # 0
    BY <1>1, <1>3 DEF Background
  <2>2. bg' = (bg /\ (ld * 100) \div ldn # 100)
    BY <2>1 DEF UpdateBackground
  <2>3. bg' \in BOOLEAN /\ (bg' => (ld * 100) \div ldn # 100)
    BY <2>2
  <2>4. bg' => ld # ldn
    BY <1>2, <2>1, <2>3
  <2>. QED
    BY <1>1, <1>3, <2>3, <2>4
<1>4. CASE ~bg
  BY <1>4 DEF UpdateBackground, Background
<1>. QED
  BY <1>3, <1>4

LEMMA BackgroundStep == Orderly /\ ListInv /\ Background /\ [Next]_vars => Background'
<1>. SUFFICES ASSUME Orderly, ListInv, Background, [Next]_vars PROVE Background'
  OBVIOUS
<1>. USE DEF Background, ListInv
<1>1. /\ ldn \in 0 .. MaxLd /\ ldn \in Nat /\ ld \in Nat /\ Len(req) \in Nat
      /\ pc \in {"ld", "grow", "shrink", "register"} =>
            ld \in LD /\ ld \in 1 .. Len(req) /\ req[ld] \in Nat /\ count[ld] \in Nat
      /\ pc = "drop" => ld \in Len(req) + 1 .. MaxLd + 1
      /\ pc = "dropping" => ld \in Len(req) + 1 .. ldn
  BY PresentLd DEF CommandInv, Control, CommandType, Place
<1>2. CASE \E r \in Requests : SetAllocation(r)
  BY <1>2 DEF SetAllocation
<1>3. CASE AllocateLd
  <2>1. /\ pc = "ld" /\ UNCHANGED <<ldn, ld>>
        /\ \/ pc' = "grow" /\ UNCHANGED bg
           \/ pc' = "shrink" /\ bg' = TRUE /\ ~(req[ld] >= count[ld])
    BY <1>3 DEF AllocateLd
  <2>2. ASSUME pc' = "shrink" PROVE ld <= ldn /\ ldn > 0
    <3>1. ~Done(ld) /\ ~Current(ld) /\ ~Built(ld)
      BY <1>1, <2>1 DEF Done, Current, Built
    <3>2. reg[ld].blocks = count[ld] /\ count[ld] # 0
      BY <1>1, <2>1, <2>2, <3>1 DEF Sizes
    <3>3. ~(ld > ldn)
      BY <1>1, <2>1, <3>1, <3>2 DEF CommandInv, Registers
    <3>. QED
      BY <1>1, <2>1, <3>3
  <2>3. bg' \in BOOLEAN
    BY <2>1
  <2>4. bg' => ld <= ldn /\ ldn > 0
    <3>1. CASE pc' = "grow"
      BY <2>1, <3>1
    <3>2. CASE pc' = "shrink"
      BY <2>2, <3>2
    <3>. QED
      BY <2>1, <3>1, <3>2
  <2>. QED
    BY <2>1, <2>3, <2>4
<1>4. CASE FinishLd
  <2>1. /\ pc \in {"grow", "shrink"} /\ UpdateBackground /\ UNCHANGED <<ldn, req>>
        /\ \/ ld = Len(req) /\ pc' = "register"
           \/ pc' = "ld" /\ ld' = ld + 1
    BY <1>4 DEF FinishLd
  <2>2. bg' \in BOOLEAN /\ (bg' => bg /\ ld < ldn)
    BY <2>1, Updated
  <2>. QED
    BY <1>1, <2>1, <2>2
<1>5. CASE WriteRegister
  BY <1>1, <1>5 DEF WriteRegister
<1>6. CASE DropLd
  BY <1>1, <1>6 DEF DropLd
<1>7. CASE ClearRegister
  <2>1. /\ pc = "dropping" /\ pc' = "drop" /\ ld' = ld + 1
        /\ UpdateBackground /\ UNCHANGED ldn
    BY <1>7 DEF ClearRegister
  <2>2. bg' \in BOOLEAN /\ (bg' => bg /\ ld < ldn)
    BY <1>1, <2>1, Updated
  <2>. QED
    BY <1>1, <2>1, <2>2
<1>8. CASE Finish
  <2>1. pc = "drop" /\ ld > ldn /\ pc' = "idle" /\ bg' = bg
    BY <1>8 DEF Finish
  <2>2. ~(ld <= ldn)
    BY <1>1, <2>1
  <2>3. ~bg
    BY <2>1, <2>2
  <2>. QED
    BY <2>1, <2>3
<1>9. CASE AddBlock \/ RemoveBlock
  <2>1. UNCHANGED <<ldn, bg, pc, req, ld>>
    BY <1>9 DEF AddBlock, RemoveBlock
  <2>. QED
    BY <2>1
<1>10. CASE ZeroBlock \/ (\E l \in Writers : HostWrite(l)) \/ UNCHANGED vars
  BY <1>10 DEF ZeroBlock, HostWrite, control, vars
<1>. QED
  BY <1>2, <1>3, <1>4, <1>5, <1>6, <1>7, <1>8, <1>9, <1>10 DEF Next, Step

\* As long as the FM is orderly, a command has ended the background operation
\* it started, and the percentage is not computed from zero LDs
\* (mbox_update_bg_status, resour_mgt_exec_set_cmd).
THEOREM BackgroundIsOver ==
    ASSUME Orderly
    PROVE  Spec => []BackgroundEnds
<1>1. Init => Background
  BY DEF Init, Background
<1>2. ListInv /\ Background => BackgroundEnds
  BY DEF ListInv, Background, BackgroundEnds, CommandInv, Control, CommandType
<1>. QED
  BY <1>1, <1>2, InitialListInv, ListStep, BackgroundStep, PTL DEF Spec

-----------------------------------------------------------------------------
(* What the memory holds.                                                  *)

\* Free memory is clean, that of an LD is clean or its own, and so is what an
\* LD with an old register can still reach; all but what is being zeroed and
\* what a host wrote too late.
DataInv ==
    /\ DOMAIN data = Block /\ late \subseteq Block /\ zeroing \in Block \cup {Null}
    /\ zeroing # Null => pc \in {"shrink", "dropping"} /\ zeroing \in Nodes(Free)
    /\ \A b \in Nodes(Free) : data[b] = Clean \/ b \in late \/ b = zeroing
    /\ \A l \in LD : \A b \in Nodes(l) : data[b] \in {Clean, l} \/ b \in late
    /\ \A l \in LD : ~Built(l) =>
          \A n \in 1 .. reg[l].blocks :
              data[MapBlock(l, n)] \in {Clean, l} \/ MapBlock(l, n) \in late

LEMMA IdleOwn ==
    ListInv /\ MapInv /\ pc = "idle" =>
        \A l \in LD : \A n \in 1 .. reg[l].blocks : MapBlock(l, n) \in Nodes(l)
<1>. SUFFICES ASSUME ListInv, MapInv, pc = "idle", NEW l \in LD, NEW n \in 1 .. reg[l].blocks
              PROVE  MapBlock(l, n) \in Nodes(l)
  OBVIOUS
<1>1. ~Done(l) /\ ~Current(l) /\ ~Built(l)
  BY DEF Done, Current, Built
<1>2. MapBlock(l, n) = Node(l, n) /\ count[l] = reg[l].blocks
  BY <1>1 DEF MapInv, OldMap, ListInv, Sizes
<1>. QED
  BY <1>2 DEF Nodes

LEMMA NodesInBlock ==
    ASSUME Listed, NEW l \in Lists
    PROVE  Nodes(l) \subseteq Block
BY DEF Nodes, Listed, Chained

LEMMA AddBlockData ==
    ASSUME ListInv, MapInv, MapKept, DataInv, AddBlock
    PROVE  DataInv'
<1>1. /\ pc = "grow" /\ pc' = pc /\ ld' = ld /\ UNCHANGED <<reg, data, req, zeroing, late>>
  BY DEF AddBlock, memory
<1>2. /\ ld \in LD /\ ld \in Lists /\ Free \in Lists /\ Free # ld
  BY <1>1, PresentLd, LdLists DEF ListInv, CommandInv
<1>3. /\ MoveNodes(Free, ld) /\ count[Free] > 0
      /\ count' = [count EXCEPT ![Free] = @ - 1, ![ld] = @ + 1]
  BY AddBlockLists DEF Move
<1>4. /\ Nodes(Free)' = Nodes(Free) \ {Node(Free, 1)}
      /\ Nodes(ld)' = Nodes(ld) \cup {Node(Free, 1)}
      /\ \A l \in Lists \ {Free, ld} : Nodes(l)' = Nodes(l)
      /\ Node(Free, 1) \in Nodes(Free)
  BY <1>1, <1>2, <1>3, NodesMoved DEF ListInv
<1>5. zeroing = Null /\ Null \notin Block /\ Nodes(Free) \subseteq Block
  BY <1>1, <1>2, NullIsNoBlock, NodesInBlock DEF DataInv, ListInv
<1>6. \A l \in LD : \A b \in Nodes(l)' : data[b] \in {Clean, l} \/ b \in late
  BY <1>1, <1>4, <1>5, LdLists DEF DataInv
<1>7. \A l \in LD : ~Built(l)' =>
          \A n \in 1 .. reg[l].blocks :
              data[MapBlock(l, n)'] \in {Clean, l} \/ MapBlock(l, n)' \in late
  <2>1. \A l \in LD : Built(l)' <=> Built(l)
    BY <1>1 DEF Built
  <2>2. \A l \in LD : \A n \in 1 .. reg[l].blocks : MapBlock(l, n)' = MapBlock(l, n)
    BY <1>1, MapBlockKept DEF ListInv
  <2>. QED
    BY <2>1, <2>2 DEF DataInv
<1>. QED
  BY <1>1, <1>4, <1>5, <1>6, <1>7 DEF DataInv

LEMMA RemoveBlockData ==
    ASSUME ListInv, MapInv, MapKept, DataInv, RemoveBlock
    PROVE  DataInv'
<1>1. /\ pc \in {"shrink", "dropping"} /\ pc' = pc /\ ld' = ld
      /\ UNCHANGED <<reg, req, data, late>>
  BY DEF RemoveBlock
<1>2. /\ ld \in LD /\ ld \in Lists /\ Free \in Lists /\ Free # ld
  BY <1>1, PresentLd, LdLists DEF ListInv, CommandInv
<1>3. /\ MoveNodes(ld, Free) /\ count[ld] > 0
      /\ count' = [count EXCEPT ![ld] = @ - 1, ![Free] = @ + 1]
      /\ zeroing = Null /\ zeroing' = Node(ld, 1)
  BY RemoveBlockLists DEF Move
<1>4. /\ Nodes(ld)' = Nodes(ld) \ {Node(ld, 1)}
      /\ Nodes(Free)' = Nodes(Free) \cup {Node(ld, 1)}
      /\ \A l \in Lists \ {Free, ld} : Nodes(l)' = Nodes(l)
      /\ Node(ld, 1) \in Nodes(ld)
  BY <1>1, <1>2, <1>3, NodesMoved DEF ListInv
<1>5. Node(ld, 1) \in Block /\ Null \notin Block /\ Nodes(Free) \subseteq Block
  <2>1. Nodes(ld) \subseteq Block /\ Nodes(Free) \subseteq Block
    BY <1>2, NodesInBlock DEF ListInv
  <2>. QED
    BY <1>4, <2>1, NullIsNoBlock
<1>6. ASSUME NEW l \in LD PROVE Nodes(l)' \subseteq Nodes(l)
  <2>1. CASE l = ld
    BY <1>1, <1>4, <2>1
  <2>2. CASE l # ld
    BY <1>4, <2>2, LdLists
  <2>. QED
    BY <2>1, <2>2
<1>7. \A l \in LD : ~Built(l)' =>
          \A n \in 1 .. reg[l].blocks :
              data[MapBlock(l, n)'] \in {Clean, l} \/ MapBlock(l, n)' \in late
  <2>1. \A l \in LD : Built(l)' <=> Built(l)
    BY <1>1 DEF Built
  <2>2. \A l \in LD : \A n \in 1 .. reg[l].blocks : MapBlock(l, n)' = MapBlock(l, n)
    BY <1>1, MapBlockKept DEF ListInv
  <2>. QED
    BY <2>1, <2>2 DEF DataInv
<1>. QED
  BY <1>1, <1>3, <1>4, <1>5, <1>6, <1>7 DEF DataInv

\* A step that moves no block leaves the lists and the map as they are.
LEMMA SameBlocks ==
    ASSUME ListInv, MapKept, UNCHANGED lists
    PROVE  /\ \A m : Nodes(m)' = Nodes(m)
           /\ \A l \in LD : reg'[l] = reg[l] =>
                 \A n \in 1 .. reg[l].blocks : MapBlock(l, n)' = MapBlock(l, n)
<1>1. UNCHANGED <<next, head, count>>
  BY DEF lists
<1>2. \A m, i : Node(m, i)' = Node(m, i)
  BY <1>1, NodesKept
<1>3. \A m : Nodes(m)' = Nodes(m)
  BY <1>1, <1>2 DEF Nodes
<1>. QED
  BY <1>3, MapBlockKept DEF ListInv

LEMMA ZeroBlockData ==
    ASSUME ListInv, MapInv, MapKept, DataInv, ZeroBlock
    PROVE  DataInv'
<1>1. /\ UNCHANGED lists /\ UNCHANGED <<reg, pc, ld, req>> /\ zeroing' = Null
      /\ data' = [data EXCEPT ![zeroing] = Clean] /\ late' = late \ {zeroing}
  BY DEF ZeroBlock, CleanBlock, control
<1>2. ASSUME NEW u \in Block
      PROVE  /\ data'[u] = IF u = zeroing THEN Clean ELSE data[u]
             /\ u \in late /\ u # zeroing => u \in late'
  <2>1. DOMAIN data = Block
    BY DEF DataInv
  <2>. QED
    BY <1>1, <2>1
<1>3. \A m : Nodes(m)' = Nodes(m)
  BY <1>1, SameBlocks
<1>4. \A l \in Lists : Nodes(l) \subseteq Block
  BY NodesInBlock DEF ListInv
<1>5. \A l \in LD : /\ Built(l)' <=> Built(l)
                    /\ \A n \in 1 .. reg[l].blocks :
                          MapBlock(l, n)' = MapBlock(l, n) /\ MapBlock(l, n) \in Block
  <2>1. \A l \in LD : Built(l)' <=> Built(l)
    BY <1>1 DEF Built
  <2>. QED
    BY <1>1, <2>1, SameBlocks, MapBlocks
<1>6. ASSUME NEW b \in Nodes(Free) PROVE data'[b] = Clean \/ b \in late'
  <2>1. b \in Block /\ (data[b] = Clean \/ b \in late \/ b = zeroing)
    BY <1>4, LdLists DEF DataInv
  <2>. QED
    BY <1>2, <2>1
<1>7. ASSUME NEW l \in LD, NEW b \in Nodes(l) PROVE data'[b] \in {Clean, l} \/ b \in late'
  <2>1. b \in Block /\ (data[b] \in {Clean, l} \/ b \in late)
    BY <1>4, LdLists DEF DataInv
  <2>. QED
    BY <1>2, <2>1
<1>8. ASSUME NEW l \in LD, ~Built(l), NEW n \in 1 .. reg[l].blocks
      PROVE  data'[MapBlock(l, n)] \in {Clean, l} \/ MapBlock(l, n) \in late'
  <2>1. /\ MapBlock(l, n) \in Block
        /\ data[MapBlock(l, n)] \in {Clean, l} \/ MapBlock(l, n) \in late
    BY <1>5, <1>8 DEF DataInv
  <2>. QED
    BY <1>2, <2>1
<1>9. DOMAIN data' = Block /\ late' \subseteq Block
  BY <1>1 DEF DataInv
<1>. QED
  BY <1>1, <1>3, <1>5, <1>6, <1>7, <1>8, <1>9 DEF DataInv

\* The blocks behind the registers are what the hardware makes of them.
LEMMA BlockIsMapped ==
    ASSUME ListInv, MapInv, NEW l \in LD, NEW n \in 1 .. reg[l].blocks
    PROVE  MapBlock(l, n) \in Mapped(l)
<1>1. MapBlock(l, n) \in Block /\ gran = 1
  BY MapBlocks DEF ListInv, Listed, ListType
<1>2. reg[l].base + n - 1 \in MapEntries(l)
  <2>1. reg[l].blocks \in Nat /\ reg[l].base \in Nat
    BY DEF ListInv, CommandInv, Control, CommandType
  <2>. QED
    BY <2>1 DEF MapEntries
<1>3. bram[reg[l].base + n - 1] # Null
  BY <1>1, NullIsNoBlock DEF MapBlock
<1>4. MapBlock(l, n) \in bram[reg[l].base + n - 1] .. bram[reg[l].base + n - 1] + gran - 1
  BY <1>1 DEF MapBlock, Block
<1>. QED
  BY <1>2, <1>3, <1>4 DEF Mapped

LEMMA HostWriteData ==
    ASSUME ListInv, MapInv, MapKept, DataInv, NEW l \in LD, HostWrite(l)
    PROVE  DataInv'
<1>1. /\ UNCHANGED lists /\ UNCHANGED <<reg, pc, ld, req, zeroing>>
      /\ data' = [u \in Block |-> IF u \in Mapped(l) THEN l ELSE data[u]]
      /\ late' = (late \ Mapped(l)) \cup {u \in Mapped(l) : u \div gran \notin Nodes(l)}
  BY DEF HostWrite, control
<1>2. Mapped(l) \subseteq Block
  BY MappedBlock, MapBlocks
<1>3. \A u \in Block :
          /\ data'[u] = IF u \in Mapped(l) THEN l ELSE data[u]
          /\ u \in late' <=> IF u \in Mapped(l) THEN u \notin Nodes(l) ELSE u \in late
  <2>1. gran = 1 /\ \A u \in Block : u \div 1 = u
    BY DEF ListInv, Listed, ListType, Block
  <2>. QED
    BY <1>1, <2>1
<1>4. \A m : Nodes(m)' = Nodes(m)
  BY <1>1, SameBlocks
<1>5. \A m \in Lists : Nodes(m) \subseteq Block
  BY NodesInBlock DEF ListInv
<1>6. \A m \in Lists : m # l => Nodes(m) \cap Nodes(l) = {}
  BY NodesApart, LdLists DEF ListInv
<1>7. \A b \in Nodes(Free) : data'[b] = Clean \/ b \in late' \/ b = zeroing
  BY <1>3, <1>5, <1>6, LdLists DEF DataInv
<1>8. ASSUME NEW m \in LD, NEW b \in Nodes(m) PROVE data'[b] \in {Clean, m} \/ b \in late'
  <2>1. b \in Block /\ (data[b] \in {Clean, m} \/ b \in late) /\ (m # l => b \notin Nodes(l))
    BY <1>5, <1>6, LdLists DEF DataInv
  <2>. QED
    BY <1>3, <2>1
<1>9. ASSUME NEW m \in LD, ~Built(m), NEW n \in 1 .. reg[m].blocks
      PROVE  data'[MapBlock(m, n)] \in {Clean, m} \/ MapBlock(m, n) \in late'
  <2>1. MapBlock(m, n) \in Block /\ MapBlock(m, n) \in Mapped(m)
    BY BlockIsMapped, MapBlocks
  <2>2. m # l => MapBlock(m, n) \notin Mapped(l)
    BY <2>1, MapIsolation DEF Isolation
  <2>3. data[MapBlock(m, n)] \in {Clean, m} \/ MapBlock(m, n) \in late
    BY <1>9 DEF DataInv
  <2>. QED
    BY <1>3, <2>1, <2>2, <2>3
<1>10. \A m \in LD : /\ Built(m)' <=> Built(m)
                     /\ \A n \in 1 .. reg[m].blocks : MapBlock(m, n)' = MapBlock(m, n)
  <2>1. \A m \in LD : Built(m)' <=> Built(m)
    BY <1>1 DEF Built
  <2>. QED
    BY <1>1, <2>1, SameBlocks
<1>11. DOMAIN data' = Block /\ late' \subseteq Block
  BY <1>1, <1>2 DEF DataInv
<1>. QED
  BY <1>1, <1>4, <1>7, <1>8, <1>9, <1>10, <1>11 DEF DataInv

\* A step that moves no block and writes no data.
LEMMA DataKept ==
    ASSUME ListInv, MapKept, DataInv, UNCHANGED lists, UNCHANGED memory,
           zeroing = Null \/ pc' = pc,
           \/ pc' = "idle" /\ ListInv' /\ MapInv'
           \/ \A l \in LD : ~Built(l)' /\ reg'[l].blocks # 0 => ~Built(l) /\ reg'[l] = reg[l]
    PROVE  DataInv'
<1>1. UNCHANGED <<data, zeroing, late>>
  BY DEF memory
<1>2. \A m : Nodes(m)' = Nodes(m)
  BY SameBlocks
<1>3. \A l \in LD : ~Built(l)' =>
          \A n \in 1 .. reg'[l].blocks :
              data[MapBlock(l, n)'] \in {Clean, l} \/ MapBlock(l, n)' \in late
  <2>1. CASE pc' = "idle" /\ ListInv' /\ MapInv'
    <3>1. (ListInv /\ MapInv /\ pc = "idle" =>
              \A l \in LD : \A n \in 1 .. reg[l].blocks : MapBlock(l, n) \in Nodes(l))'
      BY IdleOwn, PTL
    <3>. QED
      BY <1>2, <2>1, <3>1 DEF DataInv
  <2>2. CASE \A l \in LD : ~Built(l)' /\ reg'[l].blocks # 0 => ~Built(l) /\ reg'[l] = reg[l]
    <3>. SUFFICES ASSUME NEW l \in LD, ~Built(l)', NEW n \in 1 .. reg'[l].blocks
                  PROVE  data[MapBlock(l, n)'] \in {Clean, l} \/ MapBlock(l, n)' \in late
      OBVIOUS
    <3>1. reg'[l].blocks # 0
      OBVIOUS
    <3>2. ~Built(l) /\ reg'[l] = reg[l]
      BY <2>2, <3>1
    <3>3. MapBlock(l, n)' = MapBlock(l, n) /\ n \in 1 .. reg[l].blocks
      BY <3>2, SameBlocks
    <3>. QED
      BY <3>2, <3>3 DEF DataInv
  <2>. QED
    BY <2>1, <2>2
<1>. QED
  BY <1>1, <1>2, <1>3 DEF DataInv

LEMMA DataStep == Orderly /\ ListInv /\ MapInv /\ DataInv /\ [Next]_vars => DataInv'
<1>. SUFFICES ASSUME Orderly, ListInv, MapInv, DataInv, [Next]_vars PROVE DataInv'
  OBVIOUS
<1>1. MapKept
  <2>1. CASE UNCHANGED vars
    BY <2>1 DEF MapKept, vars
  <2>2. CASE ~UNCHANGED vars
    BY <2>2, ListMapKept
  <2>. QED
    BY <2>1, <2>2
<1>2. /\ reg \in [LD -> [blocks : Nat, base : Nat]]
      /\ Len(req) \in Nat /\ ld \in Nat
      /\ pc = "register" => ld \in LD /\ ld \in 1 .. Len(req)
      /\ pc = "dropping" => ld \in LD
  BY PresentLd DEF ListInv, CommandInv, Control, CommandType
<1>. DEFINE Quiet == \A l \in LD :
                ~Built(l)' /\ reg'[l].blocks # 0 => ~Built(l) /\ reg'[l] = reg[l]
<1>3. ASSUME \/ \E r \in Requests : SetAllocation(r)
             \/ AllocateLd \/ FinishLd \/ DropLd \/ UNCHANGED vars
      PROVE  /\ Quiet /\ UNCHANGED lists /\ UNCHANGED memory
             /\ zeroing = Null \/ pc' = pc
  <2>1. UNCHANGED lists /\ UNCHANGED memory /\ UNCHANGED reg
    BY <1>3 DEF SetAllocation, AllocateLd, FinishLd, DropLd, vars, lists, memory
  <2>2. \A l \in LD : ~Built(l)' => ~Built(l)
    BY <1>3 DEF SetAllocation, AllocateLd, FinishLd, DropLd, vars, Built
  <2>3. zeroing = Null \/ pc' = pc
    BY <1>3 DEF SetAllocation, AllocateLd, FinishLd, DropLd, vars, DataInv
  <2>. QED
    BY <2>1, <2>2, <2>3
<1>4. CASE WriteRegister
  <2>1. /\ pc = "register" /\ ld' = ld + 1 /\ req' = req
        /\ UNCHANGED lists /\ UNCHANGED memory
        /\ reg' = [reg EXCEPT ![ld] = [blocks |-> req[ld], base |-> dst]]
        /\ pc' = IF ld = Len(req) THEN "drop" ELSE "register"
    BY <1>4 DEF WriteRegister
  <2>2. \A l \in LD : ~Built(l)' => ~Built(l) /\ l # ld
    BY <1>2, <2>1 DEF Built, LD
  <2>3. Quiet
    BY <1>2, <2>1, <2>2
  <2>4. zeroing = Null
    BY <2>1 DEF DataInv
  <2>. QED
    BY <1>1, <2>1, <2>3, <2>4, DataKept
<1>5. CASE ClearRegister
  <2>1. /\ pc = "dropping" /\ pc' = "drop" /\ req' = req /\ zeroing = Null
        /\ UNCHANGED lists /\ UNCHANGED memory
        /\ reg' = [reg EXCEPT ![ld] = NoMap]
    BY <1>5 DEF ClearRegister
  <2>2. \A l \in LD : Built(l)' <=> Built(l)
    BY <2>1 DEF Built
  <2>3. Quiet
    BY <1>2, <2>1, <2>2 DEF NoMap
  <2>. QED
    BY <1>1, <2>1, <2>3, DataKept
<1>6. CASE Finish
  <2>1. pc = "drop" /\ pc' = "idle" /\ UNCHANGED lists /\ UNCHANGED memory
    BY <1>6 DEF Finish
  <2>2. zeroing = Null
    BY <2>1 DEF DataInv
  <2>. QED
    BY <1>1, <2>1, <2>2, ListStep, MapStep, DataKept
<1>7. ASSUME NEW l \in Writers, HostWrite(l) PROVE DataInv'
  BY <1>1, <1>7, HostWriteData, PoolAssumption
<1>8. ASSUME Quiet, UNCHANGED lists, UNCHANGED memory, zeroing = Null \/ pc' = pc
      PROVE  DataInv'
  BY <1>1, <1>8, DataKept
<1>. HIDE DEF Quiet
<1>. QED
  BY <1>1, <1>3, <1>4, <1>5, <1>6, <1>7, <1>8, AddBlockData, RemoveBlockData, ZeroBlockData
     DEF Next, Step

LEMMA InitialDataInv == Init => DataInv
<1>. SUFFICES ASSUME Init PROVE DataInv
  OBVIOUS
<1>1. ListInv
  BY InitialListInv
<1>2. /\ data = [u \in Block |-> Clean] /\ zeroing = Null /\ late = {}
      /\ \A l \in LD : reg[l].blocks = 0
  BY DEF Init, NoMap
<1>3. \A l \in Lists : Nodes(l) \subseteq Block
  BY <1>1, NodesInBlock DEF ListInv
<1>. QED
  BY <1>2, <1>3, LdLists DEF DataInv

LEMMA OwnData == ListInv /\ MapInv /\ DataInv => NoForeignData
<1>. SUFFICES ASSUME ListInv, MapInv, DataInv, NEW l \in LD, NEW u \in Mapped(l)
              PROVE  data[u] \in {Clean, l} \/ u \in late
  BY DEF NoForeignData
<1>1. PICK n \in 1 .. reg[l].blocks : u = MapBlock(l, n)
  BY MappedBlock
<1>2. Built(l) => u \in Nodes(l)
  BY <1>1, MapBlocks
<1>. QED
  BY <1>1, <1>2 DEF DataInv

\* As long as the FM is orderly, and whenever the hosts write, what an LD reads
\* is clean or its own, but for what a host wrote to a block that its LD had
\* already lost (remove_pb_from_ldlist, samt_clean_mld_block).
THEOREM DataIsOwn ==
    ASSUME Orderly
    PROVE  Spec => []NoForeignData
BY InitialListInv, ListStep, InitialMapInv, MapStep, InitialDataInv, DataStep, OwnData, PTL
   DEF Spec

-----------------------------------------------------------------------------
(* The types of the variables.                                             *)

\* What TypeOK says beyond ListInv.
MapType ==
    /\ bram \in [Entry -> Block \cup {Null}]
    /\ data \in [Block -> LD \cup {Clean}]

LEMMA AllocateLdType ==
    ASSUME Orderly, ListInv, MapInv', ListInv', MapType, AllocateLd
    PROVE  bram' \in [Entry -> Block \cup {Null}]
<1>1. /\ pc = "ld" /\ pc' \in {"grow", "shrink"}
      /\ pc' = "grow" => req[ld] >= count[ld] /\ CopyMap(count[ld])
      /\ pc' = "shrink" => ~(req[ld] >= count[ld]) /\ CopyMap(req[ld])
      /\ UNCHANGED lists /\ UNCHANGED <<bank, req, ld, dst>>
  BY DEF AllocateLd
<1>2. UNCHANGED <<next, head, count>>
  BY <1>1 DEF lists
<1>3. /\ ld \in LD /\ ld \in 1 .. Len(req) /\ req[ld] \in Nat /\ count[ld] \in Nat
      /\ ld \in Lists /\ dst = Standby + Offset(req, ld) /\ dst \in Nat
  BY <1>1, PresentLd, LdLists DEF ListInv, CommandInv, Control, CommandType, Place
<1>4. pc' = "shrink" => req[ld] = 0
  BY <1>1, <1>3 DEF ListInv, Supply
<1>5. PICK n \in Nat : CopyMap(n) /\ (n # 0 => pc' = "grow" /\ n = count[ld])
  BY <1>1, <1>3, <1>4
<1>6. bram' = [e \in Entry |-> IF e \in dst .. dst + n - 1 THEN bram[src + e - dst] ELSE bram[e]]
  BY <1>5 DEF CopyMap
<1>7. ASSUME NEW e \in Entry, e \in dst .. dst + n - 1 PROVE bram'[e] \in Block
  <2>. DEFINE k == e - dst + 1
  <2>1. k \in 1 .. n /\ n # 0
    BY <1>3, <1>7
  <2>2. k \in 1 .. count[ld] /\ pc' = "grow"
    BY <1>5, <2>1
  <2>3. e = dst + k - 1
    BY <1>3, <1>7
  <2>. HIDE DEF k
  <2>4. \A l \in LD : l = ld =>
            \A i \in 1 .. count[l] : bram'[Standby + Offset(req, l) + i - 1] = Node(l, i)
    <3>. SUFFICES ASSUME NEW l \in LD, l = ld, NEW i \in 1 .. count[l]
                  PROVE  bram'[Standby + Offset(req, l) + i - 1] = Node(l, i)
      OBVIOUS
    <3>1. Renewed(l)'
      BY <1>1, <2>2 DEF Renewed
    <3>2. i \in 1 .. count'[l] /\ Node(l, i)' = Node(l, i)
      BY <1>2, NodesKept
    <3>3. Standby' = Standby /\ req' = req
      BY <1>1 DEF Standby
    <3>4. bram'[Standby' + Offset(req', l) + i - 1] = Node(l, i)'
      BY <3>1, <3>2 DEF MapInv, NewMap, Offset
    <3>. QED
      BY <3>2, <3>3, <3>4
  <2>5. Node(ld, k) \in Block
    BY <1>3, <2>2 DEF ListInv, Listed, Chained
  <2>. QED
    BY <1>3, <2>2, <2>3, <2>4, <2>5
<1>. QED
  BY <1>6, <1>7 DEF MapType

LEMMA TypeStep ==
    Orderly /\ ListInv /\ MapInv /\ MapType /\ [Next]_vars => MapType'
<1>. SUFFICES ASSUME Orderly, ListInv, MapInv, MapType, [Next]_vars PROVE MapType'
  OBVIOUS
<1>. USE DEF MapType
<1>1. ListInv' /\ MapInv'
  BY ListStep, MapStep
<1>2. gran = 1 /\ count \in [Lists -> Nat] /\ head \in [Lists -> Block \cup {Null}]
  BY DEF ListInv, Listed, ListType
<1>3. CASE AllocateLd
  BY <1>1, <1>3, AllocateLdType DEF AllocateLd, memory
<1>4. CASE AddBlock
  <2>1. /\ bram' = [bram EXCEPT ![dst + count[ld]] = head[Free]] /\ head[Free] = Node(Free, 1)
        /\ count[Free] > 0 /\ count[Free] \in Nat /\ UNCHANGED data
    BY <1>2, <1>4, AddBlockLists, LdLists DEF AddBlock, memory
  <2>2. head[Free] \in Block
    BY <2>1, LdLists DEF ListInv, Listed, Chained
  <2>. QED
    BY <2>1, <2>2
<1>5. CASE ZeroBlock
  BY <1>5 DEF ZeroBlock, CleanBlock
<1>6. CASE \E l \in Writers : HostWrite(l)
  BY <1>6, PoolAssumption DEF HostWrite
<1>7. ASSUME \/ \E r \in Requests : SetAllocation(r)
             \/ RemoveBlock \/ FinishLd \/ WriteRegister \/ DropLd \/ ClearRegister \/ Finish
             \/ UNCHANGED vars
      PROVE  MapType'
  BY <1>7 DEF SetAllocation, RemoveBlock, FinishLd, WriteRegister, DropLd, ClearRegister,
              Finish, vars, memory
<1>. QED
  BY <1>3, <1>4, <1>5, <1>6, <1>7 DEF Next, Step

LEMMA InitialMapType == Init => MapType
<1>. SUFFICES ASSUME Init PROVE MapType
  OBVIOUS
<1>1. bram \in [Entry -> Block \cup {Null}]
  <2>1. Units - 1 \in Block
    BY Constants DEF Block
  <2>. QED
    BY <2>1 DEF Init, InitialMap
<1>2. data \in [Block -> LD \cup {Clean}]
  BY DEF Init
<1>. QED
  BY <1>1, <1>2 DEF MapType

LEMMA TypesAre == ListInv /\ MapType /\ DataInv /\ Background => TypeOK
<1>. SUFFICES ASSUME ListInv, MapType, DataInv, Background PROVE TypeOK
  OBVIOUS
<1>1. /\ next \in [Block -> Block \cup {Null}] /\ used \in [Block -> BOOLEAN]
      /\ head \in [Lists -> Block \cup {Null}] /\ tail \in [Lists -> Block \cup {Null}]
      /\ count \in [Lists -> Int] /\ (\A l \in LD : count[l] >= 0) /\ gran = 1
  BY DEF ListInv, Listed, ListType, CommandInv, Control, CommandType
<1>2. late \subseteq Block /\ zeroing \in Block \cup {Null}
  BY DEF DataInv
<1>. QED
  BY <1>1, <1>2
     DEF TypeOK, MapType, Background, ListInv, CommandInv, Control, CommandType

\* As long as the FM is orderly every variable has its type: no list is
\* followed beyond its end, and no copy of a map leaves the BRAM
\* (cp_config_to_standby).
THEOREM TypesHold ==
    ASSUME Orderly
    PROVE  Spec => []TypeOK
<1>1. Init => Background
  BY DEF Init, Background
<1>. QED
  BY <1>1, InitialListInv, ListStep, InitialMapInv, MapStep, InitialDataInv, DataStep,
     InitialMapType, TypeStep, BackgroundStep, TypesAre, PTL DEF Spec

=============================================================================
