-------------------------- MODULE Transfers_proofs --------------------------
(***************************************************************************)
(* Proofs about what the host moves in several mailbox commands.           *)
(*                                                                         *)
(* A reader of a list (DcdReports) never ends with anything but a list the *)
(* device had, for lists of any length and entries, and any room in a      *)
(* payload.  A slot (FwTransfer) holds what was transferred to it, for any *)
(* number and size of slots, any packages that fit into a slot, and any    *)
(* order in which the host sends pieces.                                   *)
(***************************************************************************)
EXTENDS DcdReports, FwTransfer, SequenceTheorems, TLAPS

-----------------------------------------------------------------------------
(* Reading a list.                                                         *)

ReportsTypeOK ==
    /\ command \in Commands
    /\ versions \in Seq(Contents) /\ versions # << >>
    /\ count \in Nat
    /\ got \in Seq(Entries)
    /\ seen \in 0 .. Len(versions)
    /\ ended \in BOOLEAN

\* What the reader is in the middle of.
Source == IF command = "hostRegions" THEN list ELSE versions[seen]

\* A reader that has nothing to go on begins anew, and what it has received is
\* the front of the list it was told of, or all of it.
ReaderInv ==
    /\ command = "hostRegions" => Len(versions) = 1 /\ seen = 0
    /\ command # "hostRegions" /\ seen = 0 => count = 0 /\ ~ended
    /\ count = 0 => got = << >>
    /\ command = "hostRegions" \/ seen # 0 =>
           /\ Len(got) <= Len(Source)
           /\ \A i \in 1 .. Len(got) : got[i] = Source[i]
           /\ ended => Len(got) = Len(Source)

ReportsInv == ReportsTypeOK /\ ReaderInv

-----------------------------------------------------------------------------
(* The handlers.                                                           *)

\* What the reader relies on in the answer of any of the four commands.
LEMMA HandlerAnswers ==
    ASSUME command \in Commands, versions \in Seq(Contents), versions # << >>,
           NEW start \in Nat, NEW n \in Nat, NEW a, a = Handler(start, n)
    PROVE  /\ a.code = "SUCCESS" =>
                  /\ start <= Len(list)
                  /\ a.total = Len(list)
                  /\ a.generation = IF command = "hostRegions" THEN 0 ELSE Len(versions)
                  /\ n > 0 => /\ a.returned \in 0 .. Len(list) - start
                              /\ a.items = SubSeq(list, start + 1, start + a.returned)
           /\ a.code = "INVALID_INPUT" /\ command = "hostRegions" => start >= Len(list)
           /\ a.code = "INTERNAL_ERROR" => n > 1
<1>. USE DEF Refused, Answer, Items, generation
<1>1. list \in Seq(Entries) /\ Len(list) \in Nat
  BY ReportsAssumption DEF list
<1>. DEFINE k == PageLength(start, n)
<1>2. start <= Len(list) => k \in 0 .. Len(list) - start /\ k <= n
  BY <1>1 DEF PageLength
<1>3. start <= Len(list) => (Page(start, k).code = "INTERNAL_ERROR" => n > 1)
  BY <1>2, ReportsAssumption DEF Page
<1>4. /\ Page(start, k).code \in {"SUCCESS", "INTERNAL_ERROR"}
      /\ Page(start, k).code = "SUCCESS" =>
             Page(start, k) = Answer(k, Items(start, k))
  BY DEF Page
<1>. HIDE DEF k, list
<1>5. CASE command = "extents"
  <2>1. a = GetExtentList(start, n)
    BY <1>5 DEF Handler
  <2>. QED
    BY <1>1, <1>2, <1>3, <1>4, <1>5, <2>1 DEF GetExtentList, k
<1>6. CASE command = "hostExtents"
  <2>1. a = GetRegionExtentLists(start, n)
    BY <1>6 DEF Handler
  <2>. QED
    BY <1>1, <1>2, <1>3, <1>4, <1>6, <2>1 DEF GetRegionExtentLists, k
<1>7. CASE command = "hostRegions"
  <2>1. a = GetHostRegions(start, n)
    BY <1>7 DEF Handler
  <2>2. CASE start >= Len(list)
    BY <1>1, <1>7, <2>1, <2>2 DEF GetHostRegions
  <2>3. CASE start < Len(list)
    <3>1. a = [Page(start, k) EXCEPT !.generation = 0]
      BY <1>1, <2>1, <2>3 DEF GetHostRegions, k
    <3>2. CASE k > Room
      BY <1>1, <1>2, <1>3, <1>7, <2>3, <3>1, <3>2 DEF Page
    <3>3. CASE ~(k > Room)
      <4>1. a = [Answer(k, Items(start, k)) EXCEPT !.generation = 0]
        BY <3>1, <3>3 DEF Page
      <4>. QED
        <5>1. /\ a.code = "SUCCESS" /\ a.total = Len(list) /\ a.generation = 0
              /\ a.returned = k /\ a.items = SubSeq(list, start + 1, start + k)
          BY <4>1
        <5>2. k \in 0 .. Len(list) - start /\ start <= Len(list)
          BY <1>1, <1>2, <2>3
        <5>. HIDE DEF k
        <5>. QED
          BY <1>7, <2>3, <5>1, <5>2
    <3>. QED
      BY <3>2, <3>3
  <2>. QED
    BY <1>1, <2>2, <2>3
<1>8. CASE command = "tags"
  <2>1. a = ListTags(start, n)
    BY <1>8 DEF Handler
  <2>. QED
    BY <1>1, <1>2, <1>3, <1>4, <1>8, <2>1 DEF ListTags, k
<1>. QED
  BY <1>5, <1>6, <1>7, <1>8 DEF Commands

-----------------------------------------------------------------------------
(* The steps.                                                              *)

\* A list that changes becomes another one; those there were stay.
LEMMA KeepChange ==
    ASSUME ReportsInv, NEW c \in Contents, Change(c)
    PROVE  ReportsInv'
<1>. USE DEF ReportsInv
<1>1. /\ command # "hostRegions" /\ versions' = Append(versions, c)
      /\ UNCHANGED <<command, count, got, seen, ended>>
  BY DEF Change, readerVars
<1>2. /\ versions' \in Seq(Contents) /\ Len(versions') = Len(versions) + 1
      /\ \A i \in 1 .. Len(versions) : versions'[i] = versions[i]
  BY <1>1 DEF ReportsTypeOK
<1>3. ReportsTypeOK'
  BY <1>1, <1>2 DEF ReportsTypeOK
<1>4. seen # 0 => Source' = Source
  BY <1>1, <1>2 DEF Source, ReportsTypeOK
<1>5. ReaderInv'
  BY <1>1, <1>4 DEF ReaderInv
<1>. QED
  BY <1>3, <1>5

LEMMA KeepRead ==
    ASSUME ReportsInv, Read
    PROVE  ReportsInv'
<1>. DEFINE a == Handler(Len(got), count)
<1>1. /\ ~ended /\ command' = command /\ versions' = versions
      /\ IsRefused(a) \/ TooLarge(a) \/ Changed(a) \/ Header(a) \/ NextPage(a)
  BY DEF Read
<1>2. ReportsTypeOK /\ ReaderInv
  BY DEF ReportsInv
<1>3. list \in Seq(Entries) /\ Len(list) \in Nat /\ Len(got) \in Nat
      /\ Len(versions) \in Nat \ {0}
  BY <1>2, ReportsAssumption DEF ReportsTypeOK, list, generation
<1>4. /\ a.code = "SUCCESS" =>
             /\ Len(got) <= Len(list)
             /\ a.total = Len(list)
             /\ a.generation = IF command = "hostRegions" THEN 0 ELSE Len(versions)
             /\ count > 0 => /\ a.returned \in 0 .. Len(list) - Len(got)
                             /\ a.items = SubSeq(list, Len(got) + 1, Len(got) + a.returned)
      /\ a.code = "INVALID_INPUT" /\ command = "hostRegions" => Len(got) >= Len(list)
      /\ a.code = "INTERNAL_ERROR" => count > 1
  BY <1>2, <1>3, HandlerAnswers DEF ReportsTypeOK
<1>5. list' = list
  BY <1>1 DEF list, generation
<1>. HIDE DEF a
<1>6. ASSUME ReadAgain, command # "hostRegions" \/ Len(versions) = 1
      PROVE  ReportsInv'
  <2>1. count' = 0 /\ got' = << >> /\ seen' = 0 /\ ended' = FALSE
    BY <1>1, <1>2, <1>6 DEF ReadAgain, ReportsTypeOK
  <2>2. ended' \in BOOLEAN
    BY <2>1
  <2>3. << >> \in Seq(Entries) /\ 0 \in 0 .. Len(versions)
    BY <1>3
  <2>4. ReportsTypeOK'
    BY <1>1, <1>2, <2>1, <2>2, <2>3 DEF ReportsTypeOK
  <2>. QED
    BY <1>1, <1>3, <1>5, <1>6, <2>1, <2>4 DEF ReportsInv, ReaderInv, Source
<1>7. CASE IsRefused(a)
  <2>1. CASE command = "hostRegions"
    <3>1. /\ ended' = TRUE /\ UNCHANGED <<count, got, seen>>
          /\ Len(got) >= Len(list)
      BY <1>4, <1>7, <2>1 DEF IsRefused
    <3>2. ReportsTypeOK'
      BY <1>1, <1>2, <3>1 DEF ReportsTypeOK
    <3>. QED
      BY <1>1, <1>2, <1>3, <1>5, <2>1, <3>1, <3>2 DEF ReportsInv, ReaderInv, Source
  <2>2. CASE command # "hostRegions"
    BY <1>6, <1>7, <2>2 DEF IsRefused
  <2>. QED
    BY <2>1, <2>2
<1>8. CASE TooLarge(a)
  <2>1. count > 1 /\ count' = count \div 2 /\ UNCHANGED <<got, seen, ended>>
    BY <1>4, <1>8 DEF TooLarge
  <2>2. count' \in Nat /\ count' # 0
    BY <1>2, <2>1 DEF ReportsTypeOK
  <2>3. ReportsTypeOK'
    BY <1>1, <1>2, <2>1, <2>2 DEF ReportsTypeOK
  <2>. QED
    BY <1>1, <1>2, <1>5, <2>1, <2>2, <2>3 DEF ReportsInv, ReaderInv, Source
<1>9. CASE Changed(a)
  BY <1>2, <1>6, <1>9 DEF Changed, ReaderInv
<1>10. CASE Header(a)
  <2>1. /\ a.code = "SUCCESS" /\ count = 0 /\ got' = got /\ count' = Len(list)
        /\ seen' = (IF command = "hostRegions" THEN 0 ELSE Len(versions))
        /\ ended' \in BOOLEAN /\ (ended' <=> Len(list) = 0)
    BY <1>4, <1>10 DEF Header
  <2>2. got' = << >> /\ Len(got') = 0
    BY <1>2, <2>1 DEF ReaderInv
  <2>3. ReportsTypeOK'
    BY <1>1, <1>2, <1>3, <2>1 DEF ReportsTypeOK
  <2>4. Source' = list
    BY <1>1, <1>5, <2>1 DEF Source, list, generation
  <2>5. Len(got') <= Len(list) /\ (ended' => Len(got') = Len(list))
        /\ (\A i \in 1 .. Len(got') : FALSE)
    BY <1>3, <2>1, <2>2
  <2>6. command # "hostRegions" => seen' # 0
    BY <1>3, <2>1
  <2>7. command = "hostRegions" => Len(versions) = 1 /\ seen' = 0
    BY <1>2, <2>1 DEF ReaderInv
  <2>. QED
    BY <1>1, <2>2, <2>3, <2>4, <2>5, <2>6, <2>7 DEF ReportsInv, ReaderInv
<1>11. CASE NextPage(a)
  <2>1. /\ a.code = "SUCCESS" /\ count > 0 /\ a.generation = seen
        /\ got' = got \o a.items /\ UNCHANGED <<count, seen>>
        /\ ended' \in BOOLEAN /\ (ended' <=> Len(got) + a.returned = Len(list))
    BY <1>4, <1>11 DEF NextPage
  <2>2. Source = list /\ Source' = list
    BY <1>1, <1>4, <1>5, <2>1 DEF Source, list, generation
  <2>. DEFINE n == a.returned
  <2>3. n \in 0 .. Len(list) - Len(got) /\ a.items = SubSeq(list, Len(got) + 1, Len(got) + n)
    BY <1>4, <2>1
  <2>. HIDE DEF n
  <2>4. /\ a.items \in Seq(Entries) /\ Len(a.items) = n
        /\ \A i \in 1 .. n : a.items[i] = list[Len(got) + i]
    <3>1. n \in Nat /\ Len(got) + n <= Len(list)
      BY <1>3, <2>3
    <3>. QED
      BY <1>3, <2>3, <3>1
  <2>5. got' \in Seq(Entries) /\ Len(got') = Len(got) + n
    <3>. DEFINE items == a.items
    <3>1. got \in Seq(Entries) /\ items \in Seq(Entries) /\ Len(items) = n /\ got' = got \o items
      BY <1>2, <2>1, <2>4 DEF ReportsTypeOK
    <3>. HIDE DEF items
    <3>. QED
      BY <3>1
  <2>6. \A i \in 1 .. Len(got) : got[i] = list[i]
    <3>1. command = "hostRegions" \/ seen # 0
      BY <1>3, <1>4, <2>1
    <3>. QED
      BY <1>2, <2>2, <3>1 DEF ReaderInv
  <2>7. ASSUME NEW i \in 1 .. Len(got')
        PROVE  got'[i] = list[i]
    <3>1. CASE i <= Len(got)
      BY <1>2, <1>3, <2>1, <2>4, <2>6, <3>1 DEF ReportsTypeOK
    <3>2. CASE i > Len(got)
      <4>. DEFINE j == i - Len(got)
      <4>1. j \in 1 .. n /\ i = Len(got) + j
        BY <1>3, <2>3, <2>5, <3>2
      <4>. HIDE DEF j
      <4>2. got'[Len(got) + j] = a.items[j]
        BY <1>2, <1>3, <2>1, <2>3, <2>4, <4>1 DEF ReportsTypeOK
      <4>. QED
        BY <2>4, <4>1, <4>2
    <3>. QED
      BY <1>3, <2>5, <3>1, <3>2
  <2>8. ReportsTypeOK'
    BY <1>1, <1>2, <2>1, <2>5 DEF ReportsTypeOK
  <2>9. Len(got') <= Len(list) /\ (ended' => Len(got') = Len(list)) /\ count' # 0
    <3>1. Len(got') <= Len(list)
      BY <1>3, <2>3, <2>5
    <3>2. ended' => Len(got') = Len(list)
      BY <2>1, <2>5 DEF n
    <3>. QED
      BY <1>2, <2>1, <3>1, <3>2 DEF ReportsTypeOK
  <2>10. command' = command /\ seen' = seen /\ versions' = versions
    BY <1>1, <2>1
  <2>11. command # "hostRegions" => seen # 0
    BY <1>3, <1>4, <2>1
  <2>. QED
    BY <1>2, <2>2, <2>7, <2>8, <2>9, <2>10, <2>11 DEF ReportsInv, ReaderInv
<1>. QED
  BY <1>1, <1>7, <1>8, <1>9, <1>10, <1>11

\* However often the list changes between two commands, a reader ends with the
\* list whose generation number it was told.
THEOREM ReadersGetWholeLists == ReportsSpec => []ReadWhole
<1>1. ReportsInit => ReportsInv
  <2>. SUFFICES ASSUME ReportsInit
                PROVE  ReportsInv
    OBVIOUS
  <2>1. PICK c \in Contents : versions = <<c>>
    BY DEF ReportsInit
  <2>2. versions \in Seq(Contents) /\ Len(versions) = 1 /\ versions # << >>
    BY <2>1
  <2>3. list \in Seq(Entries)
    BY <2>2, ReportsAssumption DEF list, generation
  <2>4. /\ command \in Commands /\ count = 0 /\ got = << >> /\ seen = 0 /\ ended = FALSE
        /\ Len(got) = 0 /\ Len(list) \in Nat
    BY <2>3 DEF ReportsInit
  <2>5. ReportsTypeOK
    <3>1. ended \in BOOLEAN
      BY <2>4
    <3>2. got \in Seq(Entries) /\ seen \in 0 .. Len(versions)
      BY <2>2, <2>4
    <3>. QED
      BY <2>2, <2>4, <3>1, <3>2 DEF ReportsTypeOK
  <2>6. ReaderInv
    BY <2>2, <2>4 DEF ReaderInv, Source
  <2>. QED
    BY <2>5, <2>6 DEF ReportsInv
<1>2. ReportsInv /\ [ReportsNext]_reportVars => ReportsInv'
  <2>. SUFFICES ASSUME ReportsInv, [ReportsNext]_reportVars
                PROVE  ReportsInv'
    OBVIOUS
  <2>1. CASE UNCHANGED reportVars
    BY <2>1 DEF reportVars, ReportsInv, ReportsTypeOK, ReaderInv, Source, list, generation
  <2>. QED
    BY <2>1, KeepRead, KeepChange DEF ReportsNext
<1>3. ReportsInv => ReadWhole
  <2>. SUFFICES ASSUME ReportsInv, ended
                PROVE  got = Source
    BY DEF ReadWhole, Source
  <2>1. command = "hostRegions" \/ seen # 0
    BY DEF ReportsInv, ReaderInv
  <2>2. Source \in Seq(Entries)
    BY <2>1, ReportsAssumption DEF ReportsInv, ReportsTypeOK, Source, list, generation
  <2>. QED
    BY <2>1, <2>2 DEF ReportsInv, ReportsTypeOK, ReaderInv
<1>. QED
  BY <1>1, <1>2, <1>3, PTL DEF ReportsSpec

-----------------------------------------------------------------------------
(* Writing a firmware package.                                             *)

Area == 0 .. NumSlots * SlotSize - 1

FwTypeOK ==
    /\ memory = [a \in Area |-> memory[a]]
    /\ transfer_offset \in Nat
    /\ sender \in {"idle", "start", "sending", "refused"}
    /\ slot \in Slots
    /\ sender # "idle" => package \in Packages
    /\ installed \in [Slots -> Packages \cup {NoPackage}]

\* What has come of a package is its front, and never all of it: the piece
\* that completes it ends the transfer.
FrontArrived ==
    sender = "sending" =>
        /\ transfer_offset < Len(package)
        /\ \A i \in 1 .. transfer_offset : memory[SlotBase(slot) + i - 1] = package[i]

FwInv == FwTypeOK /\ FrontArrived /\ SlotsHoldPackages

-----------------------------------------------------------------------------
(* Addresses.                                                              *)

\* The units of a slot are in the memory behind SLOT_BASE_ADDR.
LEMMA SlotInArea ==
    ASSUME NEW s \in Slots, NEW i \in 1 .. SlotSize
    PROVE  SlotBase(s) + i - 1 \in Area
<1>1. s \in Nat /\ s - 1 >= 0 /\ s <= NumSlots /\ SlotSize \in Nat /\ NumSlots \in Nat
  BY FwAssumption DEF Slots
<1>2. (s - 1) * SlotSize \in Nat /\ NumSlots * SlotSize \in Nat
  BY <1>1
<1>3. (s - 1) * SlotSize + SlotSize = s * SlotSize
  BY <1>1
<1>4. s * SlotSize <= NumSlots * SlotSize
  BY <1>1
<1>. QED
  BY <1>1, <1>2, <1>3, <1>4 DEF SlotBase, Area

\* No unit belongs to two slots.
LEMMA SlotsApart ==
    ASSUME NEW s \in Slots, NEW t \in Slots, s # t,
           NEW i \in 1 .. SlotSize, NEW j \in 1 .. SlotSize
    PROVE  SlotBase(s) + i - 1 # SlotBase(t) + j - 1
<1>1. s \in Nat /\ t \in Nat /\ s >= 1 /\ t >= 1 /\ SlotSize \in Nat
  BY FwAssumption DEF Slots
<1>2. (s - 1) * SlotSize \in Nat /\ (t - 1) * SlotSize \in Nat
  BY <1>1
<1>3. ASSUME NEW u \in Nat, NEW v \in Nat, u >= 1, u < v
      PROVE  (u - 1) * SlotSize + SlotSize <= (v - 1) * SlotSize
  <2>1. (u - 1) * SlotSize + SlotSize = u * SlotSize
    BY <1>1, <1>3
  <2>2. u <= v - 1
    BY <1>3
  <2>. QED
    BY <1>1, <1>3, <2>1, <2>2
<1>4. CASE s < t
  BY <1>1, <1>2, <1>3, <1>4 DEF SlotBase
<1>5. CASE t < s
  BY <1>1, <1>2, <1>3, <1>5 DEF SlotBase
<1>. QED
  BY <1>1, <1>4, <1>5

\* memcpy puts the units where they belong and leaves everything else of the
\* slot, and all other slots, as they were.
LEMMA CopyWrites ==
    ASSUME FwTypeOK, NEW offset \in Nat, NEW units \in Seq(Nat),
           offset + Len(units) <= SlotSize, Copy(offset, units)
    PROVE  /\ memory' = [a \in Area |-> memory'[a]]
           /\ \A i \in 1 .. Len(units) :
                 memory'[SlotBase(slot) + offset + i - 1] = units[i]
           /\ \A s \in Slots, i \in 1 .. SlotSize :
                 s # slot \/ i <= offset \/ offset + Len(units) < i =>
                     memory'[SlotBase(s) + i - 1] = memory[SlotBase(s) + i - 1]
<1>. DEFINE at(a) == a - SlotBase(slot) - offset + 1
<1>1. DOMAIN memory = Area
  BY DEF FwTypeOK
<1>2. memory' = [a \in Area |-> IF at(a) \in DOMAIN units THEN units[at(a)] ELSE memory[a]]
  BY <1>1 DEF Copy
<1>3. memory' = [a \in Area |-> memory'[a]]
  BY <1>2
<1>4. slot \in Slots /\ SlotSize \in Nat /\ Len(units) \in Nat /\ DOMAIN units = 1 .. Len(units)
  BY FwAssumption DEF FwTypeOK
<1>5. \A s \in Slots : SlotBase(s) \in Int
  BY FwAssumption DEF SlotBase, Slots
<1>6. ASSUME NEW i \in 1 .. Len(units)
      PROVE  memory'[SlotBase(slot) + offset + i - 1] = units[i]
  <2>1. offset + i \in 1 .. SlotSize
    BY <1>4
  <2>2. SlotBase(slot) + (offset + i) - 1 \in Area
    BY <1>4, <2>1, SlotInArea
  <2>3. SlotBase(slot) + (offset + i) - 1 = SlotBase(slot) + offset + i - 1
    BY <1>4, <1>5
  <2>4. at(SlotBase(slot) + offset + i - 1) = i
    BY <1>4, <1>5
  <2>. QED
    BY <1>2, <1>4, <2>2, <2>3, <2>4
<1>7. ASSUME NEW s \in Slots, NEW i \in 1 .. SlotSize,
             s # slot \/ i <= offset \/ offset + Len(units) < i
      PROVE  memory'[SlotBase(s) + i - 1] = memory[SlotBase(s) + i - 1]
  <2>. DEFINE a == SlotBase(s) + i - 1
  <2>1. a \in Area
    BY SlotInArea
  <2>2. at(a) \notin 1 .. Len(units)
    <3>1. CASE s = slot
      <4>1. at(a) = i - offset
        BY <1>4, <1>5, <3>1
      <4>. HIDE DEF at, a
      <4>. QED
        BY <1>4, <1>7, <3>1, <4>1
    <3>2. CASE s # slot
      <4>. SUFFICES ASSUME at(a) \in 1 .. Len(units)
                    PROVE  FALSE
        OBVIOUS
      <4>. DEFINE j == at(a)
      <4>1. offset + j \in 1 .. SlotSize
        <5>. HIDE DEF at
        <5>. QED
          BY <1>4
      <4>2. SlotBase(s) + i - 1 = SlotBase(slot) + (offset + j) - 1
        <5>1. SlotBase(s) \in Int /\ SlotBase(slot) \in Int /\ i \in Int /\ offset \in Int
          BY <1>4, <1>5
        <5>. QED
          BY ONLY <5>1
      <4>. HIDE DEF j, at, a
      <4>. QED
        BY <1>4, <3>2, <4>1, <4>2, SlotsApart
    <3>. QED
      BY <3>1, <3>2
  <2>. HIDE DEF at, a
  <2>3. memory'[a] = memory[a]
    BY <1>2, <1>4, <2>1, <2>2
  <2>. QED
    BY <2>3 DEF a
<1>. QED
  BY <1>3, <1>6, <1>7

-----------------------------------------------------------------------------
(* The steps.                                                              *)

\* A piece of a package is a sequence of units.
LEMMA PieceIs ==
    ASSUME package \in Packages, NEW first \in Nat, NEW n \in Nat,
           first + n <= Len(package)
    PROVE  /\ Piece(first, n) \in Seq(Nat) /\ Len(Piece(first, n)) = n
           /\ \A i \in 1 .. n : Piece(first, n)[i] = package[first + i]
<1>1. package \in Seq(Nat) /\ Len(package) \in Nat
  BY FwAssumption
<1>2. first + 1 \in Int /\ first + n \in Int /\ n \in Nat
  OBVIOUS
<1>3. \A i \in first + 1 .. first + n : package[i] \in Nat
  <2>1. \A i \in first + 1 .. first + n : i \in 1 .. Len(package)
    BY <1>1
  <2>2. \A i \in 1 .. Len(package) : package[i] \in Nat
    BY <1>1
  <2>. QED
    BY <2>1, <2>2
<1>4. /\ SubSeq(package, first + 1, first + n) \in Seq(Nat)
      /\ Len(SubSeq(package, first + 1, first + n)) =
             IF first + 1 <= first + n THEN (first + n) - (first + 1) + 1 ELSE 0
      /\ \A i \in 1 .. (first + n) - (first + 1) + 1 :
            SubSeq(package, first + 1, first + n)[i] = package[first + 1 + i - 1]
  BY <1>2, <1>3, SubSeqProperties
<1>5. (first + n) - (first + 1) + 1 = n /\ \A i \in 1 .. n : first + 1 + i - 1 = first + i
  BY <1>2
<1>6. (IF first + 1 <= first + n THEN n ELSE 0) = n
  BY <1>2
<1>. QED
  BY <1>4, <1>5, <1>6, Zenon DEF Piece

\* The other slots hold what they held, and so does this one if nothing is
\* said to be installed in it.
LEMMA OthersKept ==
    ASSUME FwInv,
           \A s \in Slots, i \in 1 .. SlotSize : s # slot =>
               memory'[SlotBase(s) + i - 1] = memory[SlotBase(s) + i - 1],
           NEW s \in Slots, s # slot, NEW i \in DOMAIN installed[s]
    PROVE  memory'[SlotBase(s) + i - 1] = installed[s][i]
<1>1. installed[s] \in Packages \cup {NoPackage}
  BY DEF FwInv, FwTypeOK
<1>2. i \in 1 .. SlotSize
  BY <1>1, FwAssumption DEF NoPackage
<1>3. memory[SlotBase(s) + i - 1] = installed[s][i]
  BY DEF FwInv, SlotsHoldPackages
<1>. QED
  BY <1>2, <1>3
-----------------------------------------------------------------------------
(* The commands.                                                           *)

LEMMA KeepFull ==
    ASSUME FwInv, SendFull
    PROVE  FwInv'
<1>. USE DEF SendFull, TransferFull, Finish
<1>1. package \in Packages /\ FwTypeOK /\ slot \in Slots
  BY DEF FwInv, FwTypeOK
<1>2. package \in Seq(Nat) /\ Len(package) \in 1 .. SlotSize /\ DOMAIN package = 1 .. Len(package)
  BY <1>1, FwAssumption
<1>3. SlotBase(slot) \in Int
  BY <1>1, FwAssumption DEF SlotBase, Slots
<1>4. /\ memory' = [a \in Area |-> memory'[a]]
      /\ \A i \in 1 .. Len(package) : memory'[SlotBase(slot) + i - 1] = package[i]
      /\ \A s \in Slots, i \in 1 .. SlotSize : s # slot =>
             memory'[SlotBase(s) + i - 1] = memory[SlotBase(s) + i - 1]
  <2>1. Copy(0, package) /\ 0 + Len(package) <= SlotSize
    BY <1>2
  <2>2. \A i \in 1 .. Len(package) : SlotBase(slot) + 0 + i - 1 = SlotBase(slot) + i - 1
    BY <1>2, <1>3
  <2>. QED
    BY <1>1, <1>2, <2>1, <2>2, CopyWrites
<1>5. FwTypeOK'
  <2>1. installed' \in [Slots -> Packages \cup {NoPackage}]
    BY <1>1 DEF FwTypeOK
  <2>. QED
    BY <1>1, <1>4, <2>1 DEF FwTypeOK
<1>6. FrontArrived'
  BY DEF FrontArrived
<1>7. SlotsHoldPackages'
  <2>. SUFFICES ASSUME NEW s \in Slots, NEW i \in DOMAIN installed'[s]
                PROVE  memory'[SlotBase(s) + i - 1] = installed'[s][i]
    BY DEF SlotsHoldPackages, SlotBase
  <2>1. CASE s = slot
    BY <1>1, <1>2, <1>4, <2>1 DEF FwTypeOK
  <2>2. CASE s # slot
    <3>1. installed'[s] = installed[s]
      BY <1>1, <2>2 DEF FwTypeOK
    <3>. QED
      BY <1>4, <2>2, <3>1, OthersKept
  <2>. QED
    BY <2>1, <2>2
<1>. QED
  BY <1>5, <1>6, <1>7 DEF FwInv

\* What a piece that is accepted does to the memory.
LEMMA PieceArrives ==
    ASSUME FwInv, package \in Packages, NEW first \in Nat, NEW n \in Nat,
           first + n <= Len(package), first = 0 \/ sender = "sending",
           TransferPart(first, Piece(first, n))
    PROVE  /\ memory' = [a \in Area |-> memory'[a]]
           /\ transfer_offset' = first + n
           /\ \A i \in 1 .. first + n : memory'[SlotBase(slot) + i - 1] = package[i]
           /\ \A s \in Slots, i \in 1 .. SlotSize : s # slot =>
                  memory'[SlotBase(s) + i - 1] = memory[SlotBase(s) + i - 1]
<1>1. transfer_offset = first /\ Copy(first, Piece(first, n))
      /\ transfer_offset' = first + Len(Piece(first, n))
  BY DEF TransferPart, InOrder
<1>2. package \in Seq(Nat) /\ Len(package) \in 1 .. SlotSize /\ SlotSize \in Nat
  BY FwAssumption
<1>3. /\ Piece(first, n) \in Seq(Nat) /\ Len(Piece(first, n)) = n
      /\ \A i \in 1 .. n : Piece(first, n)[i] = package[first + i]
  BY PieceIs
<1>4. FwTypeOK /\ slot \in Slots /\ SlotBase(slot) \in Int
  BY FwAssumption DEF FwInv, FwTypeOK, SlotBase, Slots
<1>5. first + Len(Piece(first, n)) <= SlotSize
  BY <1>2, <1>3
<1>. DEFINE units == Piece(first, n)
<1>. HIDE DEF units
<1>6. units \in Seq(Nat) /\ Len(units) = n /\ Copy(first, units) /\ first + Len(units) <= SlotSize
  BY <1>1, <1>3, <1>5 DEF units
<1>7. /\ memory' = [a \in Area |-> memory'[a]]
      /\ \A i \in 1 .. n : memory'[SlotBase(slot) + first + i - 1] = units[i]
      /\ \A s \in Slots, i \in 1 .. SlotSize :
            s # slot \/ i <= first \/ first + n < i =>
                memory'[SlotBase(s) + i - 1] = memory[SlotBase(s) + i - 1]
  BY <1>4, <1>6, CopyWrites
<1>8. ASSUME NEW i \in 1 .. first + n
      PROVE  memory'[SlotBase(slot) + i - 1] = package[i]
  <2>1. CASE i <= first
    <3>1. sender = "sending" /\ i \in 1 .. transfer_offset /\ i \in 1 .. SlotSize
      BY <1>1, <1>2, <2>1
    <3>2. memory[SlotBase(slot) + i - 1] = package[i]
      BY <3>1 DEF FwInv, FrontArrived
    <3>. QED
      BY <1>4, <1>7, <2>1, <3>1, <3>2
  <2>2. CASE i > first
    <3>. DEFINE k == i - first
    <3>1. k \in 1 .. n /\ i = first + k
      BY <2>2
    <3>. HIDE DEF k
    <3>2. memory'[SlotBase(slot) + first + k - 1] = package[first + k]
      BY <1>3, <1>7, <3>1 DEF units
    <3>3. SlotBase(slot) + first + k - 1 = SlotBase(slot) + i - 1
      BY <1>4, <3>1
    <3>. QED
      BY <3>1, <3>2, <3>3
  <2>. QED
    BY <2>1, <2>2
<1>. QED
  BY <1>1, <1>3, <1>7, <1>8

LEMMA KeepFirst ==
    ASSUME FwInv, SendFirst
    PROVE  FwInv'
<1>1. FwTypeOK /\ package \in Packages /\ slot \in Slots
  BY DEF FwInv, FwTypeOK, SendFirst
<1>2. Len(package) \in Nat /\ MaxPiece \in Nat \ {0}
  BY <1>1, FwAssumption
<1>3. CASE InOrder(0)
  <2>1. PICK n \in Pieces(0) \ {Len(package)} : TransferPart(0, Piece(0, n))
    BY <1>3 DEF SendFirst
  <2>2. n \in Nat /\ n >= 1 /\ n < Len(package)
    BY <1>2, <2>1 DEF Pieces
  <2>3. /\ memory' = [a \in Area |-> memory'[a]]
        /\ transfer_offset' = n
        /\ \A i \in 1 .. n : memory'[SlotBase(slot) + i - 1] = package[i]
        /\ \A s \in Slots, i \in 1 .. SlotSize : s # slot =>
               memory'[SlotBase(s) + i - 1] = memory[SlotBase(s) + i - 1]
    <3>1. 0 + n = n /\ 0 + n <= Len(package)
      BY <1>2, <2>2
    <3>. HIDE DEF Piece
    <3>. QED
      BY <1>1, <2>1, <2>2, <3>1, PieceArrives
  <2>4. sender' = "sending" /\ UNCHANGED <<slot, package, installed, transfers>>
    BY <1>3 DEF SendFirst
  <2>5. FwTypeOK'
    BY <1>1, <2>2, <2>3, <2>4 DEF FwTypeOK
  <2>6. FrontArrived'
    BY <2>2, <2>3, <2>4 DEF FrontArrived, SlotBase
  <2>7. SlotsHoldPackages'
    BY <2>3, <2>4, OthersKept DEF SlotsHoldPackages, SlotBase
  <2>. QED
    BY <2>5, <2>6, <2>7 DEF FwInv
<1>4. CASE ~InOrder(0)
  <2>1. sender = "start" /\ sender' = "refused"
        /\ UNCHANGED <<memory, transfer_offset, slot, package, installed>>
    BY <1>4 DEF SendFirst
  <2>. QED
    BY <1>1, <2>1 DEF FwInv, FwTypeOK, FrontArrived, SlotsHoldPackages, SlotBase
<1>. QED
  BY <1>3, <1>4

LEMMA KeepPiece ==
    ASSUME FwInv, NEW first \in Nat, SendPiece(first)
    PROVE  FwInv'
<1>1. FwTypeOK /\ package \in Packages /\ slot \in Slots /\ sender = "sending"
  BY DEF FwInv, FwTypeOK, SendPiece
<1>2. package \in Seq(Nat) /\ Len(package) \in Nat /\ MaxPiece \in Nat \ {0}
      /\ DOMAIN package = 1 .. Len(package)
  BY <1>1, FwAssumption
<1>3. PICK n \in Pieces(first) :
        /\ TransferPart(first, Piece(first, n))
        /\ IF first + n = Len(package) THEN Finish ELSE UNCHANGED hostVars
  BY DEF SendPiece
<1>4. n \in Nat /\ first + n <= Len(package)
  <2>1. Len(package) - first \in Int /\ MaxPiece \in Int
    BY <1>2
  <2>2. n \in Int /\ n >= 1 /\ n <= Len(package) - first
    BY <1>3, <2>1 DEF Pieces
  <2>. QED
    BY <1>2, <2>2
<1>5. /\ memory' = [a \in Area |-> memory'[a]]
      /\ transfer_offset' = first + n
      /\ \A i \in 1 .. first + n : memory'[SlotBase(slot) + i - 1] = package[i]
      /\ \A s \in Slots, i \in 1 .. SlotSize : s # slot =>
             memory'[SlotBase(s) + i - 1] = memory[SlotBase(s) + i - 1]
  BY <1>1, <1>3, <1>4, PieceArrives
<1>6. CASE first + n = Len(package)
  <2>1. /\ sender' = "idle" /\ installed' = [installed EXCEPT ![slot] = package]
        /\ slot' = slot /\ package' = package
    BY <1>3, <1>6 DEF Finish
  <2>2. FwTypeOK'
    <3>1. installed' \in [Slots -> Packages \cup {NoPackage}]
      BY <1>1, <2>1 DEF FwTypeOK
    <3>. QED
      BY <1>1, <1>4, <1>5, <2>1, <3>1 DEF FwTypeOK
  <2>3. SlotsHoldPackages'
    <3>. SUFFICES ASSUME NEW s \in Slots, NEW i \in DOMAIN installed'[s]
                  PROVE  memory'[SlotBase(s) + i - 1] = installed'[s][i]
      BY DEF SlotsHoldPackages, SlotBase
    <3>1. CASE s = slot
      BY <1>1, <1>2, <1>5, <1>6, <2>1, <3>1 DEF FwTypeOK
    <3>2. CASE s # slot
      <4>1. installed'[s] = installed[s]
        BY <1>1, <2>1, <3>2 DEF FwTypeOK
      <4>. QED
        BY <1>5, <3>2, <4>1, OthersKept
    <3>. QED
      BY <3>1, <3>2
  <2>. QED
    BY <2>1, <2>2, <2>3 DEF FwInv, FrontArrived
<1>7. CASE first + n # Len(package)
  <2>1. UNCHANGED <<sender, slot, package, installed>>
    BY <1>3, <1>7 DEF hostVars
  <2>2. FwTypeOK'
    BY <1>1, <1>4, <1>5, <2>1 DEF FwTypeOK
  <2>3. FrontArrived'
    BY <1>2, <1>4, <1>5, <1>7, <2>1 DEF FrontArrived, SlotBase
  <2>4. SlotsHoldPackages'
    BY <1>1, <1>5, <2>1, OthersKept DEF SlotsHoldPackages, SlotBase
  <2>. QED
    BY <2>2, <2>3, <2>4 DEF FwInv
<1>. QED
  BY <1>6, <1>7

LEMMA KeepHost ==
    ASSUME FwInv,
           \/ \E p \in Packages, s \in Slots : Choose(p, s)
           \/ StartAgain \/ GiveUp
    PROVE  FwInv'
<1>1. ASSUME NEW p \in Packages, NEW s \in Slots, Choose(p, s)
      PROVE  FwInv'
  BY <1>1 DEF Choose, FwInv, FwTypeOK, FrontArrived, SlotsHoldPackages, SlotBase
<1>2. CASE StartAgain
  BY <1>2 DEF StartAgain, TransferAbort, FwInv, FwTypeOK, FrontArrived, SlotsHoldPackages, SlotBase
<1>3. CASE GiveUp
  <2>1. /\ memory' = memory /\ transfer_offset' \in Nat
        /\ sender' = "idle" /\ installed' = [installed EXCEPT ![slot] = NoPackage]
        /\ slot' = slot /\ package' = package /\ sender = "sending"
    BY <1>3 DEF GiveUp, TransferAbort, FwInv, FwTypeOK
  <2>2. FwTypeOK'
    BY <2>1 DEF FwInv, FwTypeOK
  <2>3. SlotsHoldPackages'
    <3>. SUFFICES ASSUME NEW s \in Slots, NEW i \in DOMAIN installed'[s]
                  PROVE  memory'[SlotBase(s) + i - 1] = installed'[s][i]
      BY DEF SlotsHoldPackages, SlotBase
    <3>1. s # slot /\ installed'[s] = installed[s]
      BY <2>1 DEF FwInv, FwTypeOK, NoPackage
    <3>. QED
      BY <2>1, <3>1 DEF FwInv, SlotsHoldPackages
  <2>. QED
    BY <2>1, <2>2, <2>3 DEF FwInv, FrontArrived
<1>. QED
  BY <1>1, <1>2, <1>3

\* Whatever hosts send, late, twice or out of order, and whatever they give up:
\* a slot that no transfer is under way to holds the package that was
\* transferred to it last.
THEOREM SlotsKeepPackages == FwSpec => []SlotsHoldPackages
<1>1. FwInit => FwInv
  BY FwAssumption DEF FwInit, FwInv, FwTypeOK, FrontArrived, SlotsHoldPackages, NoPackage, Area
<1>2. FwInv /\ [FwNext]_fwVars => FwInv'
  <2>. SUFFICES ASSUME FwInv, [FwNext]_fwVars
                PROVE  FwInv'
    OBVIOUS
  <2>1. CASE UNCHANGED fwVars
    BY <2>1 DEF fwVars, FwInv, FwTypeOK, FrontArrived, SlotsHoldPackages, SlotBase
  <2>2. ASSUME NEW first \in 0 .. SlotSize - 1, SendPiece(first)
        PROVE  FwInv'
    BY <2>2, KeepPiece, FwAssumption
  <2>. QED
    BY <2>1, <2>2, KeepFull, KeepFirst, KeepHost DEF FwNext
<1>3. FwInv => SlotsHoldPackages
  BY DEF FwInv
<1>. QED
  BY <1>1, <1>2, <1>3, PTL DEF FwSpec

=============================================================================
