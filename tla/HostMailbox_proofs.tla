------------------------- MODULE HostMailbox_proofs -------------------------
(***************************************************************************)
(* The ring of the command log stays consistent for every size of it and   *)
(* everything the host asks for.                                           *)
(***************************************************************************)
EXTENDS HostMailbox, SequenceTheorems, TLAPS

\* Indices go around the ring.
LEMMA NextIndexInRing ==
    ASSUME NEW i \in Index
    PROVE  /\ NextIndex(i) \in Index
           /\ i + 1 < MaxNum => NextIndex(i) = i + 1
           /\ i + 1 = MaxNum => NextIndex(i) = 0
  BY CommandLogAssumption, SMT DEF Index, NextIndex

LEMMA ModuloInRing == \A i \in Int : i % MaxNum \in Index
  BY CommandLogAssumption, SMT DEF Index

\* A whole round leads back to where it began.
LEMMA WholeRound ==
    ASSUME NEW i \in Index
    PROVE  (i + MaxNum) % MaxNum = i /\ (0 + i) % MaxNum = i
  BY CommandLogAssumption, SMT DEF Index

-----------------------------------------------------------------------------
(* RingConsistent is not inductive: a ring that is not full has to begin   *)
(* at the first index, or the entry that fills it would leave a hole.      *)

RingInv ==
    /\ physic_start \in Index /\ write_index \in Index /\ entry_num \in 0 .. MaxNum
    /\ entry_num # MaxNum => physic_start = 0 /\ write_index = entry_num
    /\ entry_num = MaxNum => write_index = physic_start

LEMMA RingInvConsistent == RingInv => RingConsistent
<1> SUFFICES ASSUME RingInv PROVE RingConsistent
  OBVIOUS
<1>1. CASE entry_num = MaxNum
  BY <1>1, WholeRound DEF RingInv, RingConsistent
<1>2. CASE entry_num # MaxNum
  BY <1>2, WholeRound DEF RingInv, RingConsistent
<1> QED BY <1>1, <1>2

LEMMA RingInvInit == InitLog => RingInv
  BY CommandLogAssumption DEF InitLog, RingInv, Index

LEMMA RingInvAppend ==
    ASSUME RingInv, NEW op, AppendEntry(op)
    PROVE  RingInv'
<1>1. CASE entry_num = MaxNum
  BY <1>1, NextIndexInRing, CommandLogAssumption DEF RingInv, AppendEntry, Index
<1>2. CASE entry_num # MaxNum
  <2>1. entry_num' = entry_num + 1 /\ physic_start' = 0 /\ write_index = entry_num
    BY <1>2 DEF RingInv, AppendEntry
  <2>2. write_index' = NextIndex(write_index)
    BY DEF AppendEntry
  <2>3. CASE entry_num + 1 = MaxNum
    BY <2>1, <2>2, <2>3, NextIndexInRing, CommandLogAssumption DEF RingInv, Index
  <2>4. CASE entry_num + 1 < MaxNum
    BY <2>1, <2>2, <2>4, NextIndexInRing, CommandLogAssumption DEF RingInv, Index
  <2> QED
    BY <1>2, <2>3, <2>4, CommandLogAssumption DEF RingInv
<1> QED BY <1>1, <1>2

\* Only a command that succeeds touches the ring.
LEMMA RingSteps ==
    ASSUME [Next]_vars
    PROVE  UNCHANGED ring \/ AppendEntry(opcode)
<1>1. CASE Execute
  <2>1. CASE GetTimestamp   BY <2>1 DEF GetTimestamp, Succeed
  <2>2. CASE SetTimestamp   BY <2>2 DEF SetTimestamp, Succeed, Fail
  <2>3. CASE GetSupportedLogs BY <2>3 DEF GetSupportedLogs, Succeed, Fail
  <2>4. CASE GetLog         BY <2>4 DEF GetLog, Succeed, Fail
  <2>5. CASE Ignore         BY <2>5 DEF Ignore
  <2> QED BY <1>1, <2>1, <2>2, <2>3, <2>4, <2>5 DEF Execute
<1>2. CASE ReadCommand \/ SetStatus \/ SendCommand \/ SendPayload \/ ClearDoorbell
  BY <1>2 DEF ReadCommand, SetStatus, SendCommand, SendPayload, ClearDoorbell
<1>3. CASE \E r \in Requests : Post(r)
  BY <1>3 DEF Post
<1>4. CASE UNCHANGED vars
  BY <1>4 DEF vars
<1> QED BY <1>1, <1>2, <1>3, <1>4 DEF Next, Handler

\* The ring has no hole and no overlap, whatever its size and whatever the
\* host asks for (RingConsistent; cxl_gen_vdl).
THEOREM RingStaysConsistent == Spec => []RingConsistent
<1>1. Init => RingInv
  BY RingInvInit DEF Init
<1>2. RingInv /\ [Next]_vars => RingInv'
  <2> SUFFICES ASSUME RingInv, [Next]_vars PROVE RingInv'
    OBVIOUS
  <2>1. CASE UNCHANGED ring
    BY <2>1 DEF ring, RingInv
  <2>2. CASE AppendEntry(opcode)
    BY <2>2, RingInvAppend
  <2> QED BY <2>1, <2>2, RingSteps
<1> QED BY <1>1, <1>2, RingInvConsistent, PTL DEF Spec

-----------------------------------------------------------------------------
(* The ring holds the sequence of the last commands.                       *)

Entry == Opcodes \cup {NoEntry}

AreaOK == area \in [Index -> Entry]

LEMMA LoggedSeq ==
    ASSUME RingInv, AreaOK
    PROVE  /\ Logged \in Seq(Entry) /\ Len(Logged) = entry_num
           /\ \A i \in 1 .. entry_num : Logged[i] = area[(physic_start + i - 1) % MaxNum]
<1>1. \A i \in 1 .. entry_num : area[(physic_start + i - 1) % MaxNum] \in Entry
  BY CommandLogAssumption, SMT DEF RingInv, AreaOK, Index
<1>2. entry_num \in Nat
  BY CommandLogAssumption DEF RingInv
<1>3. Logged \in Seq(Entry)
  BY <1>1, <1>2, IsASeq DEF Logged
<1> QED BY <1>2, <1>3, LenProperties DEF Logged

LEMMA AreaOKAppend ==
    ASSUME RingInv, AreaOK, opcode \in Opcodes, AppendEntry(opcode)
    PROVE  AreaOK'
  BY DEF RingInv, AreaOK, AppendEntry, Entry

\* A new entry goes behind the others, and takes the place of the oldest one
\* if the ring is full.
LEMMA LoggedAppend ==
    ASSUME RingInv, AreaOK, opcode \in Opcodes, AppendEntry(opcode)
    PROVE  Logged' = Append(IF Len(Logged) < MaxNum THEN Logged ELSE Tail(Logged), opcode)
<1> DEFINE kept == IF Len(Logged) < MaxNum THEN Logged ELSE Tail(Logged)
           new  == Append(kept, opcode)
<1>1. RingInv' /\ AreaOK'
  BY RingInvAppend, AreaOKAppend
<1>2. /\ Logged' \in Seq(Entry) /\ Len(Logged') = entry_num'
      /\ \A i \in 1 .. entry_num' :
            Logged'[i] = area'[(physic_start' + i - 1) % MaxNum]
  <2>1. \A i \in 1 .. entry_num' : area'[(physic_start' + i - 1) % MaxNum] \in Entry
    <3>n. physic_start' \in Int
      BY <1>1, CommandLogAssumption DEF RingInv, Index
    <3>1. ASSUME NEW i \in Int PROVE (physic_start' + i - 1) % MaxNum \in Index
      <4>1. physic_start' + i - 1 \in Int
        BY <3>n
      <4> QED BY <4>1, ModuloInRing
    <3>2. area' \in [Index -> Entry]
      BY <1>1 DEF AreaOK
    <3> QED BY <1>1, <3>1, <3>2, CommandLogAssumption DEF RingInv
  <2>2. entry_num' \in Nat
    BY <1>1, CommandLogAssumption DEF RingInv
  <2>3. Logged' \in Seq(Entry)
    BY <2>1, <2>2, IsASeq DEF Logged
  <2> QED BY <2>2, <2>3, LenProperties DEF Logged
<1>3. /\ Logged \in Seq(Entry) /\ Len(Logged) = entry_num
      /\ \A i \in 1 .. entry_num : Logged[i] = area[(physic_start + i - 1) % MaxNum]
  BY LoggedSeq
<1>4. opcode \in Entry
  BY DEF Entry
<1>5. CASE entry_num # MaxNum
  <2>1. kept = Logged /\ entry_num' = entry_num + 1 /\ physic_start' = 0
    BY <1>3, <1>5, CommandLogAssumption DEF RingInv, AppendEntry
  <2>2. /\ new \in Seq(Entry) /\ Len(new) = entry_num + 1
        /\ new[entry_num + 1] = opcode
        /\ \A i \in 1 .. entry_num : new[i] = Logged[i]
    <3>1. new = Append(Logged, opcode)
      BY <2>1
    <3> HIDE DEF new
    <3>2. /\ Append(Logged, opcode) \in Seq(Entry)
          /\ Len(Append(Logged, opcode)) = Len(Logged) + 1
          /\ \A i \in 1 .. Len(Logged) : Append(Logged, opcode)[i] = Logged[i]
          /\ Append(Logged, opcode)[Len(Logged) + 1] = opcode
      BY <1>3, <1>4, AppendProperties
    <3> QED BY <1>3, <3>1, <3>2
  <2> HIDE DEF new
  <2>n. entry_num \in Nat
    BY CommandLogAssumption DEF RingInv
  <2>3. ASSUME NEW i \in 1 .. entry_num + 1 PROVE Logged'[i] = new[i]
    <3>1. (0 + i - 1) % MaxNum = i - 1
      BY <1>5, CommandLogAssumption, SMT DEF RingInv
    <3>2. Logged'[i] = area'[i - 1]
      BY <1>2, <2>1, <3>1
    <3>3. CASE i = entry_num + 1
      <4>1. area'[entry_num] = opcode
        BY <1>5, CommandLogAssumption DEF RingInv, AppendEntry, AreaOK, Index
      <4> QED BY <2>2, <2>n, <3>2, <3>3, <4>1
    <3>4. CASE i < entry_num + 1
      <4>1. area'[i - 1] = area[i - 1]
        BY <1>5, <3>4, CommandLogAssumption DEF RingInv, AppendEntry, AreaOK, Index
      <4>2. Logged[i] = area[i - 1]
        BY <1>3, <1>5, <3>1, <3>4, CommandLogAssumption DEF RingInv
      <4>3. new[i] = Logged[i]
        BY <2>2, <2>n, <3>4
      <4> QED BY <3>2, <4>1, <4>2, <4>3
    <3> QED BY <2>n, <3>3, <3>4
  <2>4. Logged' = new
    BY <1>2, <2>1, <2>2, <2>3, SeqEqual
  <2> QED BY <2>4 DEF new
<1>6. CASE entry_num = MaxNum
  <2>1. /\ kept = Tail(Logged) /\ entry_num' = MaxNum /\ write_index = physic_start
        /\ physic_start' = NextIndex(physic_start) /\ Logged # << >>
    BY <1>3, <1>6, CommandLogAssumption DEF RingInv, AppendEntry
  <2>2. /\ kept \in Seq(Entry) /\ Len(kept) = MaxNum - 1
        /\ \A i \in 1 .. MaxNum - 1 : kept[i] = Logged[i + 1]
    BY <1>3, <1>6, <2>1, HeadTailProperties
  <2> HIDE DEF kept
  <2>3. /\ new \in Seq(Entry) /\ Len(new) = MaxNum
        /\ new[MaxNum] = opcode
        /\ \A i \in 1 .. MaxNum - 1 : new[i] = kept[i]
    BY <1>4, <2>2, AppendProperties, CommandLogAssumption
  <2> HIDE DEF new
  <2>4. ASSUME NEW i \in 1 .. MaxNum PROVE Logged'[i] = new[i]
    <3>1. (NextIndex(physic_start) + i - 1) % MaxNum = (physic_start + i) % MaxNum
      BY CommandLogAssumption, NextIndexInRing, SMT DEF RingInv, Index, NextIndex
    <3>2. Logged'[i] = area'[(physic_start + i) % MaxNum]
      BY <1>2, <2>1, <3>1
    <3>3. CASE i = MaxNum
      <4>1. (physic_start + i) % MaxNum = physic_start
        BY <3>3, WholeRound DEF RingInv
      <4>2. area'[physic_start] = opcode
        BY <2>1 DEF RingInv, AppendEntry, AreaOK
      <4> QED BY <2>3, <3>2, <3>3, <4>1, <4>2
    <3>4. CASE i < MaxNum
      <4>1. /\ (physic_start + i) % MaxNum # physic_start
            /\ (physic_start + i) % MaxNum \in Index
        BY <3>4, CommandLogAssumption, SMT DEF RingInv, Index
      <4>2. area'[(physic_start + i) % MaxNum] = area[(physic_start + i) % MaxNum]
        BY <2>1, <4>1 DEF AppendEntry, AreaOK
      <4>3. Logged[i + 1] = area[(physic_start + i) % MaxNum]
        <5>1. i + 1 \in 1 .. entry_num /\ physic_start + (i + 1) - 1 = physic_start + i
          BY <1>6, <3>4, CommandLogAssumption DEF RingInv, Index
        <5> QED BY <1>3, <5>1
      <4>4. new[i] = Logged[i + 1]
        BY <2>2, <2>3, <3>4, CommandLogAssumption
      <4> QED BY <3>2, <4>2, <4>3, <4>4
    <3> QED BY <3>3, <3>4, CommandLogAssumption
  <2>5. Logged' = new
    BY <1>2, <2>1, <2>3, <2>4, SeqEqual
  <2> QED BY <2>5 DEF new, kept
<1> QED BY <1>5, <1>6

-----------------------------------------------------------------------------
(* Reading the whole log, as an orderly host does, gives its bytes.        *)

LEMMA EntryOfByte ==
    ASSUME NEW n \in Nat
    PROVE  /\ n \div EntrySize \in Nat /\ n % EntrySize \in 0 .. EntrySize - 1
           /\ n = EntrySize * (n \div EntrySize) + (n % EntrySize)
           /\ \A m \in Nat : n < m * EntrySize <=> n \div EntrySize < m
           /\ \A m \in Nat : (m * EntrySize + n) \div EntrySize = m + n \div EntrySize
           /\ \A m \in Nat : (m * EntrySize + n) % EntrySize = n % EntrySize
  BY SMT DEF EntrySize

Byte == Entry \X Nat

\* A segment that ends in the area holds the entries of the area.
LEMMA CopyInArea ==
    ASSUME AreaOK, NEW m \in Nat, NEW length \in Nat,
           m * EntrySize + length <= MaxNum * EntrySize
    PROVE  /\ Copy(m * EntrySize, length) \in Seq(Byte)
           /\ Len(Copy(m * EntrySize, length)) = length
           /\ \A i \in 1 .. length :
                 Copy(m * EntrySize, length)[i] =
                    <<area[m + (i - 1) \div EntrySize], (i - 1) % EntrySize>>
<1> DEFINE byte(i) == <<area[m + (i - 1) \div EntrySize], (i - 1) % EntrySize>>
           at(i) == LET a == m * EntrySize + i - 1
                    IN IF a < MaxNum * EntrySize
                       THEN <<area[a \div EntrySize], a % EntrySize>>
                       ELSE <<"behind", 0>>
<1>1. ASSUME NEW i \in 1 .. length PROVE at(i) = byte(i) /\ byte(i) \in Byte
  <2>1. /\ i - 1 \in Nat /\ m * EntrySize + i - 1 = m * EntrySize + (i - 1)
        /\ m * EntrySize + (i - 1) \in Nat
    BY SMT DEF EntrySize
  <2>2. m * EntrySize + (i - 1) < MaxNum * EntrySize
    BY CommandLogAssumption, SMT DEF EntrySize
  <2>3. /\ (m * EntrySize + (i - 1)) \div EntrySize = m + (i - 1) \div EntrySize
        /\ (m * EntrySize + (i - 1)) % EntrySize = (i - 1) % EntrySize
        /\ (m * EntrySize + (i - 1)) \div EntrySize < MaxNum
        /\ (i - 1) \div EntrySize \in Nat /\ (i - 1) % EntrySize \in Nat
    BY <2>1, <2>2, EntryOfByte, CommandLogAssumption, SMT DEF EntrySize
  <2>4. at(i) = byte(i)
    BY <2>1, <2>2, <2>3
  <2>5. m + (i - 1) \div EntrySize \in Index
    BY <2>3, CommandLogAssumption DEF Index
  <2>6. area[m + (i - 1) \div EntrySize] \in Entry
    BY <2>5 DEF AreaOK
  <2> QED BY <2>3, <2>4, <2>6 DEF Byte
<1>2. Copy(m * EntrySize, length) = [i \in 1 .. length |-> at(i)]
  BY DEF Copy
<1> HIDE DEF at
<1> HIDE DEF byte
<1>n. \A i \in 1 .. length : at(i) \in Byte
  BY <1>1
<1>3. [i \in 1 .. length |-> at(i)] \in Seq(Byte)
  BY <1>n, IsASeq
<1>4. /\ Len([i \in 1 .. length |-> at(i)]) = length
      /\ \A i \in 1 .. length : [j \in 1 .. length |-> at(j)][i] = at(i)
  BY <1>3, LenProperties
<1>5. \A i \in 1 .. length : Copy(m * EntrySize, length)[i] = byte(i)
  BY <1>1, <1>2, <1>4
<1> QED BY <1>2, <1>3, <1>4, <1>5 DEF byte

\* What is logged, by bytes.
LEMMA BytesOfLogged ==
    ASSUME RingInv, AreaOK
    PROVE  LET bytes == Calls!BytesOf(Logged, 0, LogSize)
           IN /\ bytes \in Seq(Byte) /\ Len(bytes) = LogSize
              /\ \A i \in 1 .. LogSize :
                    bytes[i] = <<area[(physic_start + (i - 1) \div EntrySize) % MaxNum],
                                 (i - 1) % EntrySize>>
<1> DEFINE byte(i) == <<area[(physic_start + (i - 1) \div EntrySize) % MaxNum],
                        (i - 1) % EntrySize>>
           at(i) == <<Logged[(0 + i - 1) \div EntrySize + 1], (0 + i - 1) % EntrySize>>
           bytes == Calls!BytesOf(Logged, 0, LogSize)
<1>1. entry_num \in Nat /\ physic_start \in Nat /\ LogSize \in Nat
  BY CommandLogAssumption DEF RingInv, Index, LogSize, EntrySize
<1>2. ASSUME NEW i \in 1 .. LogSize PROVE at(i) = byte(i) /\ byte(i) \in Byte
  <2> DEFINE k == (i - 1) \div EntrySize
  <2>1. i - 1 \in Nat /\ 0 + i - 1 = i - 1 /\ i - 1 < entry_num * EntrySize
    BY <1>1 DEF LogSize, EntrySize
  <2>2. k \in Nat /\ k < entry_num /\ (i - 1) % EntrySize \in Nat
    BY <1>1, <2>1, EntryOfByte DEF EntrySize
  <2> HIDE DEF k
  <2>3. Logged[k + 1] = area[(physic_start + k) % MaxNum]
    <3>1. k + 1 \in 1 .. entry_num /\ physic_start + (k + 1) - 1 = physic_start + k
      BY <1>1, <2>2
    <3> QED BY <3>1, LoggedSeq
  <2>4. area[(physic_start + k) % MaxNum] \in Entry
    <3>1. physic_start + k \in Int
      BY <1>1, <2>2
    <3> QED BY <3>1, ModuloInRing DEF AreaOK
  <2>5. at(i) = byte(i)
    BY <2>1, <2>3 DEF k
  <2> QED BY <2>2, <2>4, <2>5 DEF Byte, k
<1>3. bytes = [i \in 1 .. LogSize |-> at(i)]
  BY DEF Calls!BytesOf
<1> HIDE DEF at, bytes
<1> HIDE DEF byte
<1>n. \A i \in 1 .. LogSize : at(i) \in Byte
  BY <1>2
<1>4. [i \in 1 .. LogSize |-> at(i)] \in Seq(Byte)
  BY <1>1, <1>n, IsASeq
<1>5. /\ Len([i \in 1 .. LogSize |-> at(i)]) = LogSize
      /\ \A i \in 1 .. LogSize : [j \in 1 .. LogSize |-> at(j)][i] = at(i)
  BY <1>1, <1>4, LenProperties
<1>6. \A i \in 1 .. LogSize : bytes[i] = byte(i)
  BY <1>2, <1>3, <1>5
<1> QED BY <1>3, <1>4, <1>5, <1>6 DEF byte, bytes

LEMMA WholeLogRead ==
    ASSUME RingInv, AreaOK, entry_num = MaxNum \/ LogSize <= MaxNum
    PROVE  GetLogData(0, LogSize) = Calls!BytesOf(Logged, 0, LogSize)
<1> DEFINE bytes == Calls!BytesOf(Logged, 0, LogSize)
           read == GetLogData(0, LogSize)
<1>1. /\ bytes \in Seq(Byte) /\ Len(bytes) = LogSize
      /\ \A i \in 1 .. LogSize :
            bytes[i] = <<area[(physic_start + (i - 1) \div EntrySize) % MaxNum],
                         (i - 1) % EntrySize>>
  BY BytesOfLogged
<1> HIDE DEF bytes
<1>2. entry_num \in Nat /\ physic_start \in Nat /\ LogSize \in Nat /\ physic_start < MaxNum
  BY CommandLogAssumption DEF RingInv, Index, LogSize, EntrySize
<1>3. CASE entry_num # MaxNum
  <2>1. physic_start = 0 /\ LogSize <= MaxNum /\ 0 * EntrySize = 0
    BY <1>3 DEF RingInv, EntrySize
  <2>2. 0 * EntrySize + LogSize <= MaxNum * EntrySize
    BY <1>2, <2>1, CommandLogAssumption DEF EntrySize
  <2>3. read = Copy(0 * EntrySize, LogSize)
    BY <1>2, <2>1, CommandLogAssumption DEF GetLogData
  <2>4. /\ read \in Seq(Byte) /\ Len(read) = LogSize
        /\ \A i \in 1 .. LogSize :
              read[i] = <<area[0 + (i - 1) \div EntrySize], (i - 1) % EntrySize>>
    BY <1>2, <2>2, <2>3, CopyInArea
  <2>5. ASSUME NEW i \in 1 .. LogSize PROVE read[i] = bytes[i]
    <3> DEFINE k == (i - 1) \div EntrySize
    <3>1. k \in Nat /\ k < entry_num
      BY <1>2, EntryOfByte DEF LogSize, EntrySize
    <3> HIDE DEF k
    <3>2. (physic_start + k) % MaxNum = 0 + k
      BY <1>3, <2>1, <3>1, CommandLogAssumption, SMT DEF RingInv
    <3> QED BY <1>1, <2>4, <3>2 DEF k
  <2> HIDE DEF read
  <2>6. read = bytes
    BY <1>1, <2>4, <2>5, SeqEqual
  <2> QED BY <2>6 DEF read, bytes
<1>4. CASE entry_num = MaxNum
  <2> DEFINE temp == (MaxNum - physic_start) * EntrySize
  <2>1. /\ temp \in Nat /\ LogSize - temp = physic_start * EntrySize
        /\ LogSize - temp \in Nat /\ ~(temp > LogSize)
        /\ ~(physic_start + LogSize <= MaxNum) /\ ~(physic_start >= MaxNum)
        /\ ~(LogSize < 0)
        /\ 0 * EntrySize = 0 /\ physic_start + 0 = physic_start
        /\ physic_start * EntrySize + temp <= MaxNum * EntrySize
        /\ 0 * EntrySize + (LogSize - temp) <= MaxNum * EntrySize
    BY <1>2, <1>4, CommandLogAssumption DEF LogSize, EntrySize
  <2>2. read = Copy(physic_start * EntrySize, temp) \o Copy(0 * EntrySize, LogSize - temp)
    BY <2>1 DEF GetLogData
  <2> HIDE DEF temp
  <2>3. /\ Copy(physic_start * EntrySize, temp) \in Seq(Byte)
        /\ Len(Copy(physic_start * EntrySize, temp)) = temp
        /\ \A i \in 1 .. temp :
              Copy(physic_start * EntrySize, temp)[i] =
                <<area[physic_start + (i - 1) \div EntrySize], (i - 1) % EntrySize>>
    BY <1>2, <2>1, CopyInArea
  <2>4. /\ Copy(0 * EntrySize, LogSize - temp) \in Seq(Byte)
        /\ Len(Copy(0 * EntrySize, LogSize - temp)) = LogSize - temp
        /\ \A i \in 1 .. LogSize - temp :
              Copy(0 * EntrySize, LogSize - temp)[i] =
                <<area[0 + (i - 1) \div EntrySize], (i - 1) % EntrySize>>
    BY <2>1, CopyInArea
  <2>5. /\ read \in Seq(Byte) /\ Len(read) = LogSize
        /\ \A i \in 1 .. LogSize :
              read[i] = IF i <= temp THEN Copy(physic_start * EntrySize, temp)[i]
                        ELSE Copy(0 * EntrySize, LogSize - temp)[i - temp]
    <3> DEFINE high == Copy(physic_start * EntrySize, temp)
               low  == Copy(0 * EntrySize, LogSize - temp)
    <3>1. temp + (LogSize - temp) = LogSize
      BY <1>2, <2>1
    <3>2. high \in Seq(Byte) /\ low \in Seq(Byte) /\ Len(high) + Len(low) = LogSize
          /\ Len(high) = temp /\ read = high \o low
      BY <2>2, <2>3, <2>4, <3>1
    <3> HIDE DEF read, high, low
    <3>3. /\ high \o low \in Seq(Byte) /\ Len(high \o low) = Len(high) + Len(low)
          /\ \A i \in 1 .. Len(high) + Len(low) :
                (high \o low)[i] = IF i <= Len(high) THEN high[i] ELSE low[i - Len(high)]
      BY <3>2, ConcatProperties
    <3>4. /\ read \in Seq(Byte) /\ Len(read) = LogSize
          /\ \A i \in 1 .. LogSize :
                read[i] = IF i <= temp THEN high[i] ELSE low[i - temp]
      BY <3>2, <3>3
    <3> QED BY <3>4 DEF high, low
  <2>6. ASSUME NEW i \in 1 .. LogSize PROVE read[i] = bytes[i]
    <3> DEFINE k == (i - 1) \div EntrySize
    <3>1. k \in Nat /\ k < MaxNum /\ i - 1 \in Nat
      BY <1>2, <1>4, EntryOfByte DEF LogSize, EntrySize
    <3>2. CASE i <= temp
      <4>1. physic_start + k < MaxNum
        BY <1>2, <2>1, <3>1, <3>2, EntryOfByte, CommandLogAssumption DEF temp, EntrySize
      <4> HIDE DEF k
      <4>2. (physic_start + k) % MaxNum = physic_start + k
        BY <1>2, <3>1, <4>1, CommandLogAssumption, SMT
      <4>3. i \in 1 .. temp
        BY <1>2, <2>1, <3>2
      <4> QED BY <1>1, <2>3, <2>5, <3>2, <4>2, <4>3 DEF k
    <3>3. CASE ~(i <= temp)
      <4> DEFINE j == i - temp
      <4>1. j \in 1 .. LogSize - temp /\ j - 1 \in Nat
        BY <1>2, <2>1, <3>3
      <4>2. i - 1 = (MaxNum - physic_start) * EntrySize + (j - 1) /\ MaxNum - physic_start \in Nat
        BY <1>2, <2>1, <3>3, CommandLogAssumption DEF temp, EntrySize
      <4>3. /\ k = MaxNum - physic_start + (j - 1) \div EntrySize
            /\ (i - 1) % EntrySize = (j - 1) % EntrySize
            /\ (j - 1) \div EntrySize \in Nat
        BY <4>1, <4>2, EntryOfByte
      <4> HIDE DEF j, k
      <4>4. (physic_start + k) % MaxNum = 0 + (j - 1) \div EntrySize
        <5>1. physic_start + k - MaxNum = (j - 1) \div EntrySize
          BY <1>2, <4>3, CommandLogAssumption
        <5>2. physic_start + k - MaxNum \in Index
          BY <1>2, <3>1, <4>3, <5>1, CommandLogAssumption DEF Index
        <5>3. ((physic_start + k - MaxNum) + MaxNum) % MaxNum = physic_start + k - MaxNum
          BY <5>2, WholeRound
        <5>4. (physic_start + k - MaxNum) + MaxNum = physic_start + k
          BY <1>2, <3>1, CommandLogAssumption
        <5> QED BY <4>3, <5>1, <5>3, <5>4
      <4>5. read[i] = Copy(0 * EntrySize, LogSize - temp)[j]
        BY <2>5, <3>3 DEF j
      <4> QED BY <1>1, <2>4, <4>1, <4>3, <4>4, <4>5 DEF k
    <3> QED BY <3>2, <3>3
  <2> HIDE DEF read
  <2>7. read = bytes
    BY <1>1, <2>5, <2>6, SeqEqual
  <2> QED BY <2>7 DEF read, bytes
<1> QED BY <1>3, <1>4

-----------------------------------------------------------------------------
(* The commands of an orderly host are calls.  MailInv says what the main  *)
(* loop and the registers hold between two steps of the handler.           *)

Sequence == UNION {Seq(S) : S \in {Int, Byte}}

MailInv ==
    /\ pc \in {"poll", "execute", "status", "command", "payload", "doorbell"}
    /\ data \in Sequence /\ code \in Codes /\ time \in Int
    /\ pc # "poll" => doorbell
    /\ doorbell /\ ~Answering =>
          Asked \in Requests /\ (ReadsLog(Asked) => WholeLog(Asked))
    /\ pc = "execute" => opcode = Asked.op /\ data = Asked.data
    /\ pc \in {"command", "payload", "doorbell"} => status = code
    /\ pc \in {"payload", "doorbell"} => command.length = Len(data)
    /\ pc = "doorbell" => SubSeq(payload, 1, Len(data)) = data

CallsInv == RingInv /\ AreaOK /\ MailInv

\* What is written to the payload registers is read from them.
LEMMA WrittenIsRead ==
    ASSUME NEW s \in Sequence
    PROVE  SubSeq(Written(s), 1, Len(s)) = s
<1>1. CASE s = << >>
  <2>1. Len(s) = 0
    BY <1>1, EmptySeq
  <2>2. SubSeq(payload, 1, 0) = << >>
    BY SubSeqEmpty
  <2> QED BY <1>1, <2>1, <2>2 DEF Written
<1>2. CASE s # << >>
  <2>1. PICK S : s \in Seq(S)
    BY DEF Sequence
  <2> QED BY <1>2, <2>1, SubSeqFull DEF Written
<1> QED BY <1>1, <1>2

LEMMA CallsInvInit == Init => CallsInv
<1> SUFFICES ASSUME Init PROVE CallsInv
  OBVIOUS
<1>1. RingInv /\ AreaOK
  BY RingInvInit, CommandLogAssumption DEF Init, InitLog, AreaOK, Entry
<1>2. << >> \in Sequence
  BY EmptySeq DEF Sequence
<1> QED BY <1>1, <1>2 DEF Init, CallsInv, MailInv, Codes, Answering

\* A request is taken over from the registers as it was posted.
LEMMA PostedIsAsked ==
    ASSUME NEW r \in Requests, Post(r)
    PROVE  Asked' = r
<1>1. r \in [op : Opcodes, data : Seq(Int)] /\ r.data \in Sequence
  BY HostMailboxAssumption DEF Sequence
<1>2. SubSeq(payload', 1, command'.length) = r.data /\ command'.op = r.op
  BY <1>1, WrittenIsRead DEF Post
<1> QED BY <1>1, <1>2 DEF Asked

LEMMA PostKeeps ==
    ASSUME CallsInv, "readParts" \notin Liberties, NEW r \in Requests, Post(r)
    PROVE  CallsInv'
<1>1. pc = "poll" /\ pc' = "poll"
  BY DEF Post, CallsInv, MailInv
<1>2. RingInv' /\ AreaOK'
  BY DEF Post, CallsInv, RingInv, AreaOK, ring
<1>3. (ReadsLog(r) => WholeLog(r))'
  BY DEF Post, ReadsLog, WholeLog, InLog, LogSize, ring
<1>4. (Asked \in Requests /\ (ReadsLog(Asked) => WholeLog(Asked)))'
  BY <1>3, PostedIsAsked DEF ReadsLog, WholeLog
<1>5. data' \in Sequence /\ code' \in Codes /\ time' \in Int
  BY DEF Post, CallsInv, MailInv
<1> QED BY <1>1, <1>2, <1>4, <1>5 DEF CallsInv, MailInv

\* The main loop carries out what was asked for.
LEMMA ExecuteInputs ==
    ASSUME CallsInv, Execute
    PROVE  /\ doorbell /\ ~Answering /\ Answering' /\ UNCHANGED Asked
           /\ opcode \in Opcodes /\ opcode = Asked.op
           /\ data \in Seq(Int) /\ data = Asked.data
           /\ Asked # NoRequest
           /\ ReadsLog(Asked) => WholeLog(Asked)
<1>1. /\ pc = "execute" /\ pc' = "status" /\ doorbell /\ Asked \in Requests
      /\ opcode = Asked.op /\ data = Asked.data
      /\ ReadsLog(Asked) => WholeLog(Asked)
  BY DEF Execute, CallsInv, MailInv, Answering
<1>2. Asked \in [op : Opcodes, data : Seq(Int)]
  BY <1>1, HostMailboxAssumption
<1>3. UNCHANGED Asked
  BY DEF Execute, registers, Asked
<1> QED BY <1>1, <1>2, <1>3, CommandLogAssumption DEF Answering, NoRequest

\* A command that succeeds is logged, and one that fails is not.
LEMMA ExecuteSucceeds ==
    ASSUME CallsInv, Execute, NEW answer, Succeed(answer)
    PROVE  Calls!Succeed(answer)
<1>1. Logged' = Append(IF Len(Logged) < MaxNum THEN Logged ELSE Tail(Logged), opcode)
  BY ExecuteInputs, LoggedAppend DEF CallsInv, Succeed
<1> QED BY <1>1, ExecuteInputs DEF Succeed, Calls!Succeed

LEMMA FailKeepsLog ==
    ASSUME NEW error, NEW answer, Fail(error, answer)
    PROVE  UNCHANGED <<Logged, time>>
  BY DEF Fail, ring, Logged

LEMMA LogSizes ==
    ASSUME RingInv, AreaOK
    PROVE  /\ Calls!LogSize = LogSize /\ LogSize \in Nat /\ LogSize <= MaxNum * EntrySize
           /\ \A offset, length :
                 Calls!InLog(offset, length) <=> 0 <= offset /\ 0 <= length /\ InLog(offset, length)
<1>1. Calls!LogSize = LogSize /\ LogSize \in Nat /\ LogSize <= MaxNum * EntrySize
  <2>1. Len(Logged) = entry_num
    BY LoggedSeq
  <2>2. entry_num \in Nat /\ entry_num <= MaxNum
    BY CommandLogAssumption DEF RingInv
  <2> QED BY <2>1, <2>2, CommandLogAssumption DEF LogSize, Calls!LogSize, EntrySize
<1> QED BY <1>1 DEF InLog, Calls!InLog

\* Get Log gives the bytes that were asked for.
LEMMA GetLogReads ==
    ASSUME CallsInv, Execute, opcode = "GET_LOG", Len(data) = 2,
           data[1] >= 0, InLog(data[1], data[2])
    PROVE  /\ data[1] = 0 /\ data[2] = LogSize
           /\ GetLogData(data[1], data[2]) = Calls!BytesOf(Logged, data[1], data[2])
           /\ GetLogData(data[1], data[2]) \in Seq(Byte)
<1>1. WholeLog(Asked) /\ data = Asked.data
  BY ExecuteInputs DEF ReadsLog
<1>2. data[1] = 0 /\ data[2] = LogSize /\ (entry_num = MaxNum \/ LogSize <= MaxNum)
  BY <1>1 DEF WholeLog
<1>3. RingInv /\ AreaOK
  BY DEF CallsInv
<1> QED BY <1>2, <1>3, WholeLogRead, BytesOfLogged

\* Every outcome of a command is one that the calls have.
LEMMA ExecutePerforms ==
    ASSUME CallsInv, Execute
    PROVE  Calls!Perform /\ data' \in Sequence /\ code' \in Codes /\ time' \in Int
<1> DEFINE call == IF doorbell /\ ~Answering THEN Asked ELSE NoRequest
           result == IF Answering THEN [code |-> code, data |-> data] ELSE NoResult
           answer == IF doorbell THEN NoResult
                     ELSE [code |-> status, data |-> SubSeq(payload, 1, command.length)]
<1>1. /\ call = Asked /\ Asked # NoRequest /\ result = NoResult
      /\ call' = NoRequest /\ result' = [code |-> code', data |-> data']
      /\ call.op = opcode /\ call.data = data /\ data \in Seq(Int) /\ UNCHANGED answer
  BY ExecuteInputs DEF Execute, registers
<1>2. RingInv /\ AreaOK /\ time \in Int /\ data \in Sequence /\ << >> \in Sequence
  BY <1>1, EmptySeq DEF CallsInv, MailInv, Sequence
<1>3. ASSUME NEW error \in {"INVALID_PAYLOAD_LENGTH", "INVALID_INPUT"},
             NEW reply \in {data, << >>}, Fail(error, reply)
      PROVE  /\ result' \in [code : {"INVALID_PAYLOAD_LENGTH", "INVALID_INPUT"},
                              data : {call.data, << >>}]
             /\ UNCHANGED <<Logged, time>>
             /\ data' \in Sequence /\ code' \in Codes /\ time' \in Int
  BY <1>1, <1>2, <1>3, FailKeepsLog DEF Fail, Codes
<1>e. \A i \in 1 .. Len(data) : data[i] \in Int
  BY <1>1, ElementOfSeq
<1>4. CASE GetTimestamp
  <2>1. Calls!GetTimestamp
    BY <1>1, <1>4, ExecuteSucceeds DEF GetTimestamp, Calls!GetTimestamp
  <2>2. code' = "SUCCESS" /\ data' = <<time>> /\ <<time>> \in Seq(Int) /\ UNCHANGED time
    BY <1>2, <1>4 DEF GetTimestamp, Succeed
  <2> QED BY <1>1, <1>2, <2>1, <2>2 DEF Calls!Perform, Codes, Sequence
<1>5. CASE SetTimestamp
  <2>1. CASE Len(data) = 1
    <3>1. Calls!SetTimestamp
      BY <1>1, <1>5, <2>1, ExecuteSucceeds DEF SetTimestamp, Calls!SetTimestamp
    <3>2. code' = "SUCCESS" /\ data' = << >> /\ time' = data[1] /\ data[1] \in Int
      BY <1>e, <1>5, <2>1 DEF SetTimestamp, Succeed
    <3> QED BY <1>1, <1>2, <3>1, <3>2 DEF Calls!Perform, Codes
  <2>2. CASE Len(data) # 1
    <3>1. Fail("INVALID_PAYLOAD_LENGTH", data)
      BY <1>5, <2>2 DEF SetTimestamp
    <3>2. Calls!Refuse
      BY <1>1, <1>3, <1>5, <2>2, <3>1 DEF SetTimestamp, Calls!Refuse
    <3> QED BY <1>1, <1>3, <3>1, <3>2 DEF Calls!Perform
  <2> QED BY <2>1, <2>2
<1>6. CASE GetSupportedLogs
  <2>1. CASE data = << >>
    <3>1. Calls!GetSupportedLogs
      BY <1>1, <1>2, <1>6, <2>1, ExecuteSucceeds, LogSizes
         DEF GetSupportedLogs, Calls!GetSupportedLogs
    <3>2. /\ code' = "SUCCESS" /\ data' = <<LogSize>> /\ <<LogSize>> \in Seq(Int)
          /\ UNCHANGED time
      BY <1>2, <1>6, <2>1, LogSizes DEF GetSupportedLogs, Succeed
    <3> QED BY <1>1, <1>2, <3>1, <3>2 DEF Calls!Perform, Codes, Sequence
  <2>2. CASE data # << >>
    <3>1. Fail("INVALID_PAYLOAD_LENGTH", data)
      BY <1>6, <2>2 DEF GetSupportedLogs
    <3>2. Calls!Refuse
      BY <1>1, <1>3, <1>6, <2>2, <3>1 DEF GetSupportedLogs, Calls!Refuse
    <3> QED BY <1>1, <1>3, <3>1, <3>2 DEF Calls!Perform
  <2> QED BY <2>1, <2>2
<1>7. CASE GetLog
  <2>1. CASE Len(data) = 2 /\ data[1] >= 0 /\ InLog(data[1], data[2])
    <3>1. /\ data[1] = 0 /\ data[2] = LogSize
          /\ GetLogData(data[1], data[2]) = Calls!BytesOf(Logged, data[1], data[2])
          /\ GetLogData(data[1], data[2]) \in Seq(Byte)
      BY <1>7, <2>1, GetLogReads DEF GetLog
    <3>2. Calls!InLog(data[1], data[2])
      BY <1>2, <2>1, <3>1, LogSizes
    <3>3. ~(data[1] < 0 \/ data[1] >= MaxNum * EntrySize \/ data[1] + data[2] > MaxNum * EntrySize)
      BY <1>2, <2>1, <3>1, LogSizes, CommandLogAssumption DEF EntrySize
    <3>4. Succeed(GetLogData(data[1], data[2])) /\ UNCHANGED time
      BY <1>7, <2>1, <3>3 DEF GetLog
    <3>5. Calls!GetLog
      BY <1>1, <1>7, <2>1, <3>1, <3>2, <3>4, ExecuteSucceeds DEF GetLog, Calls!GetLog
    <3> QED BY <1>1, <1>2, <3>1, <3>4, <3>5 DEF Calls!Perform, Codes, Sequence, Succeed
  <2>2. CASE ~(Len(data) = 2 /\ data[1] >= 0 /\ InLog(data[1], data[2]))
    <3>1. Calls!Refuse /\ data' \in Sequence /\ code' \in Codes /\ time' \in Int
      <4>1. \/ Fail("INVALID_PAYLOAD_LENGTH", data)
            \/ Fail("INVALID_INPUT", data)
            \/ Fail("INVALID_INPUT", << >>)
        BY <1>1, <1>e, <1>7, <2>2 DEF GetLog
      <4>2. /\ call.op = "GET_LOG"
            /\ Len(call.data) = 2 => ~Calls!InLog(call.data[1], call.data[2])
        BY <1>1, <1>2, <1>e, <1>7, <2>2, LogSizes DEF GetLog
      <4>3. /\ result' \in [code : {"INVALID_PAYLOAD_LENGTH", "INVALID_INPUT"},
                             data : {call.data, << >>}]
            /\ UNCHANGED <<Logged, time>>
            /\ data' \in Sequence /\ code' \in Codes /\ time' \in Int
        BY <1>3, <4>1
      <4> QED BY <4>2, <4>3 DEF Calls!Refuse
    <3> QED BY <1>1, <3>1 DEF Calls!Perform
  <2> QED BY <2>1, <2>2
<1>8. CASE Ignore
  <2>1. Calls!Ignore
    BY <1>1, <1>8 DEF Ignore, Calls!Ignore, ring, Logged
  <2> QED BY <1>1, <1>2, <1>8, <2>1 DEF Ignore, Calls!Perform, Codes
<1> QED BY <1>4, <1>5, <1>6, <1>7, <1>8 DEF Execute

-----------------------------------------------------------------------------
(* The steps of the handler between carrying out and answering are none of *)
(* the calls.                                                              *)

LEMMA ReadCommandStep ==
    ASSUME CallsInv, ReadCommand
    PROVE  CallsInv' /\ UNCHANGED Calls!vars
<1>1. /\ pc = "poll" /\ pc' = "execute" /\ doorbell /\ UNCHANGED <<ring, registers, code, time>>
      /\ opcode' = Asked.op /\ data' = Asked.data
  BY DEF ReadCommand, Received, Asked
<1>2. UNCHANGED <<Asked, Logged, ReadsLog(Asked), WholeLog(Asked)>> /\ RingInv' /\ AreaOK'
  BY <1>1 DEF CallsInv, RingInv, AreaOK, ring, registers, Asked, Logged, ReadsLog, WholeLog,
     InLog, LogSize
<1>3. ~Answering /\ ~Answering' /\ Asked \in Requests
  BY <1>1 DEF Answering, CallsInv, MailInv
<1>4. data' \in Sequence
  <2>1. Asked.data \in Seq(Int)
    BY <1>3, HostMailboxAssumption
  <2> QED BY <1>1, <2>1 DEF Sequence
<1>5. MailInv'
  BY <1>1, <1>2, <1>3, <1>4 DEF CallsInv, MailInv, registers
<1> QED BY <1>1, <1>2, <1>3, <1>5 DEF CallsInv, Calls!vars, registers

\* From the status to the payload.
LEMMA AnswerStep ==
    ASSUME CallsInv, SetStatus \/ SendCommand \/ SendPayload
    PROVE  CallsInv' /\ UNCHANGED Calls!vars
<1>1. /\ UNCHANGED <<ring, doorbell, opcode, data, code, time>>
      /\ doorbell /\ Answering /\ Answering' /\ pc # "poll"
  BY DEF SetStatus, SendCommand, SendPayload, CallsInv, MailInv, Answering
<1>2. RingInv' /\ AreaOK' /\ UNCHANGED Logged
  BY <1>1 DEF CallsInv, RingInv, AreaOK, ring, Logged
<1>3. MailInv'
  <2>1. CASE SetStatus
    BY <1>1, <2>1 DEF SetStatus, CallsInv, MailInv
  <2>2. CASE SendCommand
    BY <1>1, <2>2 DEF SendCommand, CallsInv, MailInv
  <2>3. CASE SendPayload
    <3>1. SubSeq(payload', 1, Len(data)) = data
      BY <2>3, WrittenIsRead DEF SendPayload, CallsInv, MailInv
    <3> QED BY <1>1, <2>3, <3>1 DEF SendPayload, CallsInv, MailInv
  <2> QED BY <2>1, <2>2, <2>3
<1> QED BY <1>1, <1>2, <1>3 DEF CallsInv, Calls!vars

LEMMA ClearDoorbellResponds ==
    ASSUME CallsInv, ClearDoorbell
    PROVE  CallsInv' /\ Calls!Respond
<1>1. /\ pc = "doorbell" /\ pc' = "poll" /\ doorbell /\ ~doorbell' /\ Answering /\ ~Answering'
      /\ UNCHANGED <<ring, command, status, payload, time>>
      /\ status = code /\ SubSeq(payload, 1, command.length) = data
      /\ code \in Codes /\ code' = "SUCCESS" /\ data' = << >> /\ doorbell' = FALSE
  BY DEF ClearDoorbell, Return, CallsInv, MailInv, Answering
<1>2. RingInv' /\ AreaOK' /\ UNCHANGED Logged
  BY <1>1 DEF CallsInv, RingInv, AreaOK, ring, Logged
<1>3. MailInv'
  BY <1>1, EmptySeq DEF CallsInv, MailInv, Codes, Sequence
<1>4. [code |-> code, data |-> data] # NoResult
  BY <1>1 DEF NoResult, Codes
<1> QED BY <1>1, <1>2, <1>3, <1>4 DEF CallsInv, Calls!Respond

LEMMA ExecuteStep ==
    ASSUME CallsInv, Execute
    PROVE  CallsInv' /\ Calls!Perform
<1>1. /\ pc = "execute" /\ pc' = "status" /\ doorbell /\ doorbell' = doorbell /\ Answering'
      /\ opcode \in Opcodes
  BY ExecuteInputs DEF Execute, registers, CallsInv, MailInv
<1>2. RingInv' /\ AreaOK'
  <2>1. CASE UNCHANGED ring
    BY <2>1 DEF CallsInv, RingInv, AreaOK, ring
  <2>2. CASE AppendEntry(opcode)
    BY <1>1, <2>2, RingInvAppend, AreaOKAppend DEF CallsInv
  <2> QED BY <2>1, <2>2, RingSteps DEF Next, Handler
<1>3. MailInv'
  BY <1>1, ExecutePerforms DEF MailInv
<1> QED BY <1>2, <1>3, ExecutePerforms DEF CallsInv

LEMMA PostIsCall ==
    ASSUME CallsInv, "readParts" \notin Liberties, NEW r \in Requests, Post(r)
    PROVE  CallsInv' /\ Calls!Post(r)
<1>1. /\ ~doorbell /\ doorbell' = TRUE /\ ~Answering /\ ~Answering'
      /\ UNCHANGED <<ring, time>>
  BY DEF Post, CallsInv, MailInv, Answering
<1>2. UNCHANGED Logged
  BY <1>1 DEF ring, Logged
<1> QED BY <1>1, <1>2, PostKeeps, PostedIsAsked DEF Calls!Post

LEMMA StutterStep ==
    ASSUME CallsInv, UNCHANGED vars
    PROVE  CallsInv' /\ UNCHANGED Calls!vars
<1>1. UNCHANGED <<physic_start, write_index, entry_num, area, doorbell, command, status, payload,
                  pc, opcode, data, code, time>>
  BY DEF vars, ring, registers
<1>2. UNCHANGED <<Logged, Asked, Answering, LogSize>>
  BY <1>1 DEF Logged, Asked, Answering, LogSize
<1>3. RingInv' /\ AreaOK'
  BY <1>1 DEF CallsInv, RingInv, AreaOK
<1>4. MailInv'
  BY <1>1, <1>2 DEF CallsInv, MailInv, ReadsLog, WholeLog, InLog
<1> QED BY <1>1, <1>2, <1>3, <1>4 DEF CallsInv, Calls!vars

\* For an orderly host a command is carried out once, after it was posted and
\* before its answer shows, the answer is its own, and what it reads of the
\* log is what was carried out (CallsImplemented; samt_mailbox_handler,
\* cxl_gen_vdl, get_log_data).
THEOREM CommandsAreCalls == Liberties = {} /\ Spec => CallsImplemented
<1> SUFFICES ASSUME Liberties = {} PROVE Spec => CallsImplemented
  OBVIOUS
<1>1. Init => CallsInv
  BY CallsInvInit
<1>2. Init => Calls!Init
  <2> SUFFICES ASSUME Init PROVE Calls!Init
    OBVIOUS
  <2>1. entry_num = 0 /\ doorbell = FALSE /\ pc = "poll" /\ time = 0
    BY DEF Init, InitLog
  <2>2. Logged = << >>
    BY <2>1, LoggedSeq, CallsInvInit, EmptySeq DEF CallsInv
  <2> QED BY <2>1, <2>2 DEF Calls!Init, Answering
<1>3. CallsInv /\ [Next]_vars => CallsInv' /\ [Calls!Next]_(Calls!vars)
  <2> SUFFICES ASSUME CallsInv, [Next]_vars
               PROVE  CallsInv' /\ [Calls!Next]_(Calls!vars)
    OBVIOUS
  <2>1. ASSUME NEW r \in Requests, Post(r) PROVE CallsInv' /\ Calls!Next
    BY <2>1, PostIsCall DEF Calls!Next
  <2>2. CASE ReadCommand
    BY <2>2, ReadCommandStep
  <2>3. CASE Execute
    BY <2>3, ExecuteStep DEF Calls!Next
  <2>4. CASE SetStatus \/ SendCommand \/ SendPayload
    BY <2>4, AnswerStep
  <2>5. CASE ClearDoorbell
    BY <2>5, ClearDoorbellResponds DEF Calls!Next
  <2>6. CASE UNCHANGED vars
    BY <2>6, StutterStep
  <2> QED BY <2>1, <2>2, <2>3, <2>4, <2>5, <2>6 DEF Next, Handler
<1> QED BY <1>1, <1>2, <1>3, PTL DEF Spec, CallsImplemented, Calls!Spec

-----------------------------------------------------------------------------
(* The type invariant holds for every host, also one that reads the log in *)
(* parts and gets bytes from behind it.                                    *)

\* The times are the ones a host may set.
TimesAreAsked ==
    \A r \in Requests : r.op = "SET_TIMESTAMP" /\ Len(r.data) = 1 => r.data[1] \in Times

\* What a payload may be made of: numbers and what is read of the log.
Value == Int \cup Byte \cup {<<"behind", 0>>, "undefined"}

LEMMA CopyIsPayload ==
    ASSUME AreaOK, NEW address \in Nat, NEW length \in Nat
    PROVE  Copy(address, length) \in Seq(Value)
<1> DEFINE at(i) == LET a == address + i - 1
                    IN IF a < MaxNum * EntrySize
                       THEN <<area[a \div EntrySize], a % EntrySize>>
                       ELSE <<"behind", 0>>
<1>1. ASSUME NEW i \in 1 .. length PROVE at(i) \in Value
  <2> DEFINE a == address + i - 1
  <2>1. a \in Nat /\ a \div EntrySize \in Nat /\ a % EntrySize \in Nat
    <3>1. a \in Nat
      OBVIOUS
    <3> HIDE DEF a
    <3> QED BY <3>1, EntryOfByte DEF EntrySize
  <2> HIDE DEF a
  <2>2. CASE a < MaxNum * EntrySize
    <3>1. a \div EntrySize \in Index
      BY <2>1, <2>2, EntryOfByte, CommandLogAssumption DEF Index
    <3>2. area[a \div EntrySize] \in Entry
      BY <3>1 DEF AreaOK
    <3>3. <<area[a \div EntrySize], a % EntrySize>> \in Value
      BY <2>1, <3>2 DEF Value, Byte
    <3> QED BY <2>2, <3>3 DEF a
  <2>3. CASE ~(a < MaxNum * EntrySize)
    BY <2>3 DEF a, Value
  <2> QED BY <2>2, <2>3
<1>2. Copy(address, length) = [i \in 1 .. length |-> at(i)]
  BY DEF Copy
<1> HIDE DEF at
<1>3. [i \in 1 .. length |-> at(i)] \in Seq(Value)
  BY <1>1, IsASeq
<1> QED BY <1>2, <1>3

LEMMA LogDataIsPayload ==
    ASSUME RingInv, AreaOK, NEW offset \in Nat, NEW length \in Int
    PROVE  GetLogData(offset, length) \in Seq(Value)
<1> DEFINE first == physic_start + offset
           temp  == (MaxNum - first) * EntrySize
<1>1. first \in Nat /\ MaxNum \in Nat /\ MaxNum > 0
  BY CommandLogAssumption DEF RingInv, Index
<1>2. (first % MaxNum) * EntrySize \in Nat /\ first * EntrySize \in Nat
  <2> HIDE DEF first
  <2>1. first % MaxNum \in Nat
    BY <1>1
  <2> QED BY <1>1, <2>1 DEF EntrySize
<1>u. <<"undefined">> \in Seq(Value)
  <2>1. "undefined" \in Value
    BY DEF Value
  <2> QED BY <2>1
<1>n. CASE length < 0
  <2>1. GetLogData(offset, length) = Undefined
    BY <1>n DEF GetLogData
  <2> QED BY <1>u, <2>1 DEF Undefined
<1>3. CASE length \in Nat /\ first >= MaxNum
  <2>1. GetLogData(offset, length) = Copy((first % MaxNum) * EntrySize, length)
    BY <1>3 DEF GetLogData
  <2> QED BY <1>2, <1>3, <2>1, CopyIsPayload
<1>4. CASE length \in Nat /\ ~(first >= MaxNum) /\ first + length <= MaxNum
  <2>1. GetLogData(offset, length) = Copy(first * EntrySize, length)
    BY <1>4 DEF GetLogData
  <2> QED BY <1>2, <1>4, <2>1, CopyIsPayload
<1>5. CASE /\ length \in Nat /\ ~(first >= MaxNum)
           /\ ~(first + length <= MaxNum) /\ temp > length
  <2>1. GetLogData(offset, length) = Undefined
    BY <1>5 DEF GetLogData
  <2> QED BY <1>u, <2>1 DEF Undefined
<1>6. CASE /\ length \in Nat /\ ~(first >= MaxNum)
           /\ ~(first + length <= MaxNum) /\ ~(temp > length)
  <2>1. GetLogData(offset, length) = Copy(first * EntrySize, temp) \o Copy(0, length - temp)
    BY <1>6 DEF GetLogData
  <2>2. temp \in Nat /\ length - temp \in Nat
    <3>1. MaxNum - first \in Nat
      BY <1>1, <1>6
    <3>2. temp \in Nat
      BY <3>1 DEF EntrySize
    <3> HIDE DEF temp
    <3> QED BY <1>6, <3>2
  <2>3. Copy(first * EntrySize, temp) \in Seq(Value) /\ Copy(0, length - temp) \in Seq(Value)
    BY <1>2, <2>2, CopyIsPayload
  <2> QED BY <2>1, <2>3, ConcatProperties
<1> QED BY <1>n, <1>3, <1>4, <1>5, <1>6

\* What makes the types inductive: a command is carried out as it was posted.
HandlerInv ==
    /\ RingInv /\ AreaOK
    /\ doorbell \in BOOLEAN
    /\ command \in [op : Entry, length : Nat]
    /\ code \in Codes /\ status \in Codes
    /\ pc \in {"poll", "execute", "status", "command", "payload", "doorbell"}
    /\ opcode \in Entry
    /\ data \in Seq(Value)
    /\ time \in Times
    /\ pc # "poll" => doorbell
    /\ doorbell /\ ~Answering => Asked \in Requests
    /\ pc = "execute" => opcode = Asked.op /\ data = Asked.data

LEMMA HandlerInvTypes == HandlerInv => TypeOK
BY DEF HandlerInv, RingInv, AreaOK, Entry, TypeOK, TypeOKLog

LEMMA HandlerInvInit == Init => HandlerInv
<1> SUFFICES ASSUME Init PROVE HandlerInv
  OBVIOUS
<1>1. RingInv /\ AreaOK
  BY RingInvInit, CommandLogAssumption DEF Init, InitLog, AreaOK, Entry
<1>2. << >> \in Seq(Value)
  BY EmptySeq
<1> QED BY <1>1, <1>2, HostMailboxAssumption DEF Init, HandlerInv, Codes, Answering, Entry

LEMMA RequestIs ==
    ASSUME NEW r \in Requests
    PROVE  r.op \in Opcodes /\ r.data \in Seq(Int) /\ r.data \in Seq(Value) /\ Len(r.data) \in Nat
<1>1. r.op \in Opcodes /\ r.data \in Seq(Int)
  BY HostMailboxAssumption
<1>2. Int \subseteq Value
  BY DEF Value
<1> QED BY <1>1, <1>2

LEMMA HandlerInvPost ==
    ASSUME HandlerInv, NEW r \in Requests, Post(r)
    PROVE  HandlerInv'
<1>1. pc = "poll" /\ pc' = "poll" /\ UNCHANGED <<status, opcode, data, code, time>>
      /\ doorbell' = TRUE /\ command' = [op |-> r.op, length |-> Len(r.data)]
  BY DEF Post, HandlerInv
<1>2. RingInv' /\ AreaOK'
  BY DEF Post, HandlerInv, RingInv, AreaOK, ring
<1>3. Asked' \in Requests
  BY PostedIsAsked
<1>4. command' \in [op : Entry, length : Nat]
  BY <1>1, RequestIs DEF Entry
<1> QED BY <1>1, <1>2, <1>3, <1>4 DEF HandlerInv

LEMMA HandlerInvRead ==
    ASSUME HandlerInv, ReadCommand
    PROVE  HandlerInv'
<1>1. /\ pc = "poll" /\ pc' = "execute" /\ doorbell /\ UNCHANGED <<ring, registers, code, time>>
      /\ opcode' = Asked.op /\ data' = Asked.data
  BY DEF ReadCommand, Received, Asked
<1>2. UNCHANGED Asked /\ RingInv' /\ AreaOK'
  BY <1>1 DEF HandlerInv, RingInv, AreaOK, ring, registers, Asked
<1>3. Asked \in Requests
  BY <1>1 DEF Answering, HandlerInv
<1>4. data' \in Seq(Value) /\ opcode' \in Entry
  BY <1>1, <1>3, RequestIs DEF Entry
<1> QED BY <1>1, <1>2, <1>3, <1>4 DEF HandlerInv, registers

LEMMA HandlerInvExecute ==
    ASSUME TimesAreAsked, HandlerInv, Execute
    PROVE  HandlerInv'
<1>1. /\ pc = "execute" /\ pc' = "status" /\ doorbell /\ UNCHANGED <<registers, opcode>>
      /\ Asked \in Requests /\ opcode = Asked.op /\ data = Asked.data
  BY DEF Execute, HandlerInv, Answering
<1>2. /\ opcode \in Opcodes /\ data \in Seq(Int) /\ data \in Seq(Value)
      /\ \A i \in 1 .. Len(data) : data[i] \in Int
  <2>1. opcode \in Opcodes /\ data \in Seq(Int) /\ data \in Seq(Value)
    BY <1>1, RequestIs
  <2> QED BY <2>1, ElementOfSeq
<1>3. RingInv' /\ AreaOK'
  <2>1. CASE UNCHANGED ring
    BY <2>1 DEF HandlerInv, RingInv, AreaOK, ring
  <2>2. CASE AppendEntry(opcode)
    BY <1>2, <2>2, RingInvAppend, AreaOKAppend DEF HandlerInv
  <2> QED BY <2>1, <2>2, RingSteps DEF Next, Handler
<1>4. ASSUME NEW error \in Codes, NEW reply \in Seq(Value), Fail(error, reply)
      PROVE  data' \in Seq(Value) /\ code' \in Codes /\ time' \in Times
  BY <1>4 DEF Fail, HandlerInv
<1>5. ASSUME NEW reply \in Seq(Value), Succeed(reply)
      PROVE  data' \in Seq(Value) /\ code' \in Codes
  BY <1>5 DEF Succeed, Codes
<1>6. << >> \in Seq(Value) /\ "INVALID_PAYLOAD_LENGTH" \in Codes /\ "INVALID_INPUT" \in Codes
  BY EmptySeq DEF Codes
<1>7. \A n \in Int : <<n>> \in Seq(Value)
  BY DEF Value
<1>8. time \in Int /\ time \in Times
  BY HostMailboxAssumption DEF HandlerInv
<1>9. data' \in Seq(Value) /\ code' \in Codes /\ time' \in Times
  <2>1. CASE GetTimestamp
    BY <1>5, <1>7, <1>8, <2>1 DEF GetTimestamp
  <2>2. CASE SetTimestamp
    <3>1. CASE Len(data) # 1
      BY <1>2, <1>4, <1>6, <2>2, <3>1 DEF SetTimestamp
    <3>2. CASE Len(data) = 1
      <4>1. time' = data[1] /\ Succeed(<< >>) /\ opcode = "SET_TIMESTAMP"
        BY <2>2, <3>2 DEF SetTimestamp
      <4>2. data[1] \in Times
        BY <1>1, <3>2, <4>1 DEF TimesAreAsked
      <4> QED BY <1>5, <1>6, <4>1, <4>2
    <3> QED BY <3>1, <3>2
  <2>3. CASE GetSupportedLogs
    <3>1. LogSize \in Int
      BY CommandLogAssumption DEF HandlerInv, RingInv, LogSize, EntrySize
    <3>2. CASE data # << >>
      BY <1>2, <1>4, <1>6, <2>3, <3>2 DEF GetSupportedLogs
    <3>3. CASE data = << >>
      <4>1. Succeed(<<LogSize>>) /\ UNCHANGED time
        BY <2>3, <3>3 DEF GetSupportedLogs
      <4>2. <<LogSize>> \in Seq(Value)
        BY <1>7, <3>1
      <4> QED BY <1>5, <1>8, <4>1, <4>2
    <3> QED BY <3>2, <3>3
  <2>4. CASE GetLog
    <3>1. \/ Fail("INVALID_PAYLOAD_LENGTH", data)
          \/ Fail("INVALID_INPUT", data)
          \/ Fail("INVALID_INPUT", << >>)
          \/ /\ Len(data) = 2 /\ ~(data[1] < 0)
             /\ Succeed(GetLogData(data[1], data[2])) /\ UNCHANGED time
      BY <2>4 DEF GetLog
    <3>2. ASSUME Len(data) = 2, ~(data[1] < 0)
          PROVE  GetLogData(data[1], data[2]) \in Seq(Value)
      <4>1. data[1] \in Nat /\ data[2] \in Int
        BY <1>2, <3>2
      <4> QED BY <4>1, LogDataIsPayload DEF HandlerInv
    <3> QED BY <1>2, <1>4, <1>5, <1>6, <1>8, <3>1, <3>2
  <2>5. CASE Ignore
    BY <1>2, <1>8, <2>5 DEF Ignore, Codes
  <2> QED BY <2>1, <2>2, <2>3, <2>4, <2>5 DEF Execute
<1>10. Answering'
  BY <1>1 DEF Answering
<1> QED BY <1>1, <1>3, <1>9, <1>10 DEF HandlerInv, registers

LEMMA HandlerInvAnswer ==
    ASSUME HandlerInv, SetStatus \/ SendCommand \/ SendPayload
    PROVE  HandlerInv'
<1>1. /\ UNCHANGED <<ring, doorbell, opcode, data, code, time>>
      /\ doorbell /\ Answering' /\ pc' \in {"command", "payload", "doorbell"}
  BY DEF SetStatus, SendCommand, SendPayload, HandlerInv, Answering
<1>2. RingInv' /\ AreaOK'
  BY <1>1 DEF HandlerInv, RingInv, AreaOK, ring
<1>3. status' \in Codes
  BY DEF SetStatus, SendCommand, SendPayload, HandlerInv
<1>4. command' \in [op : Entry, length : Nat]
  <2>1. CASE SetStatus \/ SendPayload
    BY <2>1 DEF SetStatus, SendPayload, HandlerInv
  <2>2. CASE SendCommand
    <3>1. Len(data) \in Nat /\ opcode \in Entry
      BY LenProperties DEF HandlerInv
    <3> QED BY <2>2, <3>1 DEF SendCommand
  <2> QED BY <2>1, <2>2
<1> QED BY <1>1, <1>2, <1>3, <1>4 DEF HandlerInv

LEMMA HandlerInvClear ==
    ASSUME HandlerInv, ClearDoorbell
    PROVE  HandlerInv'
<1>1. /\ pc' = "poll" /\ doorbell' = FALSE /\ opcode' = NoEntry /\ data' = << >>
      /\ code' = "SUCCESS" /\ UNCHANGED <<ring, command, status, payload, time>>
  BY DEF ClearDoorbell, Return
<1>2. RingInv' /\ AreaOK'
  BY <1>1 DEF HandlerInv, RingInv, AreaOK, ring
<1>3. << >> \in Seq(Value)
  BY EmptySeq
<1> QED BY <1>1, <1>2, <1>3 DEF HandlerInv, Codes, Entry

\* Registers, log and the variables of the handler keep their types whatever
\* the host asks for and reads of the log, so that no entry is written behind
\* the log (the property TypeOK; cxl_gen_vdl, samt_mailbox_handler).
THEOREM MailboxTypesHold ==
    ASSUME TimesAreAsked
    PROVE  Spec => []TypeOK
<1>1. HandlerInv /\ [Next]_vars => HandlerInv'
  <2> SUFFICES ASSUME HandlerInv, [Next]_vars PROVE HandlerInv'
    OBVIOUS
  <2>1. ASSUME NEW r \in Requests, Post(r) PROVE HandlerInv'
    BY <2>1, HandlerInvPost
  <2>2. CASE ReadCommand
    BY <2>2, HandlerInvRead
  <2>3. CASE Execute
    BY <2>3, HandlerInvExecute
  <2>4. CASE SetStatus \/ SendCommand \/ SendPayload
    BY <2>4, HandlerInvAnswer
  <2>5. CASE ClearDoorbell
    BY <2>5, HandlerInvClear
  <2>6. CASE UNCHANGED vars
    <3>1. UNCHANGED <<physic_start, write_index, entry_num, area, doorbell, command, status,
                      payload, pc, opcode, data, code, time, Asked, Answering>>
      BY <2>6 DEF vars, ring, registers, Asked, Answering
    <3>2. RingInv' /\ AreaOK'
      BY <3>1 DEF HandlerInv, RingInv, AreaOK
    <3> QED BY <3>1, <3>2 DEF HandlerInv
  <2> QED BY <2>1, <2>2, <2>3, <2>4, <2>5, <2>6 DEF Next, Handler
<1> QED BY <1>1, HandlerInvInit, HandlerInvTypes, PTL DEF Spec

=============================================================================
