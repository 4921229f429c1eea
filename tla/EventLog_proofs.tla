--------------------------- MODULE EventLog_proofs ---------------------------
(***************************************************************************)
(* Proofs about the event log for a ring, a reply and a number of events   *)
(* of any size, with interrupts between any two accesses of the main loop  *)
(* except where the pointers of the ring are reset (SafeInterrupts), and a *)
(* host that clears what it has read before it reads on (OrderlyHost).     *)
(* With an interrupt in that section, or a host that reads on, TLC finds   *)
(* the properties violated.                                                *)
(***************************************************************************)
EXTENDS EventLog, SequenceTheorems, TLAPS

SafeInterrupts == "reset" \notin InterruptAt
OrderlyHost == "readOn" \notin ReaderLiberties

-----------------------------------------------------------------------------
(* A ring whose first record is in slot f and whose last is in slot r.     *)

At(f, i) == (f + i - 1) % Cap

SizeOf(f, r) == IF r >= f THEN r - f + 1 ELSE r - f + Cap + 1

RecordsFrom(f, r, g) == [i \in 1 .. SizeOf(f, r) |-> g[At(f, i)]]

LEMMA CapFacts == Cap \in Nat /\ Cap > 1 /\ None \notin Slot /\ 0 \in Slot
BY EventLogAssumption DEF None, Slot

\* Indices go around once at most.
LEMMA GoAround ==
    \A n \in 0 .. 2 * Cap - 1 : n % Cap = IF n < Cap THEN n ELSE n - Cap
<1>. SUFFICES ASSUME NEW n \in 0 .. 2 * Cap - 1
              PROVE  n % Cap = IF n < Cap THEN n ELSE n - Cap
  OBVIOUS
<1>1. Cap \in Nat /\ Cap > 1
  BY CapFacts
<1>2. CASE n < Cap
  BY <1>1, <1>2, SMT
<1>3. CASE n >= Cap
  <2>1. n - Cap \in 0 .. Cap - 1 /\ n = 1 * Cap + (n - Cap)
    BY <1>1, <1>3
  <2>. QED
    BY <1>1, <1>3, <2>1, SMT
<1>. QED
  BY <1>1, <1>2, <1>3

LEMMA NextIs ==
    \A r \in Slot : (r + 1) % Cap = IF r + 1 < Cap THEN r + 1 ELSE r + 1 - Cap
<1>. SUFFICES ASSUME NEW r \in Slot
              PROVE  (r + 1) % Cap = IF r + 1 < Cap THEN r + 1 ELSE r + 1 - Cap
  OBVIOUS
<1>. DEFINE n == r + 1
<1>1. n \in 0 .. 2 * Cap - 1
  BY CapFacts DEF Slot
<1>2. n % Cap = IF n < Cap THEN n ELSE n - Cap
  <2>. HIDE DEF n
  <2>. QED
    BY <1>1, GoAround
<1>3. (r + 1) % Cap = n % Cap
  OBVIOUS
<1>. QED
  BY <1>1, <1>2, <1>3, CapFacts DEF Slot

LEMMA AtIs ==
    \A f \in Slot, i \in 1 .. Cap :
        /\ At(f, i) = IF f + i - 1 < Cap THEN f + i - 1 ELSE f + i - 1 - Cap
        /\ At(f, i) \in Slot
<1>. SUFFICES ASSUME NEW f \in Slot, NEW i \in 1 .. Cap
              PROVE  /\ At(f, i) = IF f + i - 1 < Cap THEN f + i - 1 ELSE f + i - 1 - Cap
                     /\ At(f, i) \in Slot
  OBVIOUS
<1>. DEFINE n == f + i - 1
<1>1. Cap \in Nat /\ Cap > 1
  BY CapFacts
<1>2. n \in 0 .. 2 * Cap - 1
  BY <1>1 DEF Slot
<1>3. At(f, i) = n % Cap
  BY DEF At
<1>4. n % Cap = IF n < Cap THEN n ELSE n - Cap
  <2>. HIDE DEF n
  <2>. QED
    BY <1>2, GoAround
<1>. QED
  BY <1>1, <1>2, <1>3, <1>4 DEF Slot

\* The size of a ring, and where its records are.
LEMMA RingShape ==
    ASSUME NEW f \in Slot, NEW r \in Slot
    PROVE  /\ SizeOf(f, r) \in 1 .. Cap
           /\ ((r - f + Cap) % Cap) + 1 = SizeOf(f, r)
           /\ r = At(f, SizeOf(f, r))
           /\ \A i \in 1 .. Cap : At(f, i) = r => i = SizeOf(f, r)
           /\ f = r <=> SizeOf(f, r) = 1
<1>1. Cap \in Nat /\ Cap > 1
  BY CapFacts
<1>2. SizeOf(f, r) \in 1 .. Cap
  BY <1>1 DEF SizeOf, Slot
<1>3. ((r - f + Cap) % Cap) + 1 = SizeOf(f, r)
  <2>. DEFINE n == r - f + Cap
  <2>1. n \in 0 .. 2 * Cap - 1
    BY <1>1 DEF Slot
  <2>2. n % Cap = IF n < Cap THEN n ELSE n - Cap
    <3>. HIDE DEF n
    <3>. QED
      BY <2>1, GoAround
  <2>. QED
    BY <1>1, <2>1, <2>2 DEF SizeOf, Slot
<1>4. \A i \in 1 .. Cap : At(f, i) = IF f + i - 1 < Cap THEN f + i - 1 ELSE f + i - 1 - Cap
  BY AtIs
<1>5. r = At(f, SizeOf(f, r))
  BY <1>1, <1>2, <1>4 DEF SizeOf, Slot
<1>6. \A i \in 1 .. Cap : At(f, i) = r => i = SizeOf(f, r)
  BY <1>1, <1>4 DEF SizeOf, Slot
<1>7. f = r <=> SizeOf(f, r) = 1
  BY <1>1 DEF SizeOf, Slot
<1>. QED
  BY <1>2, <1>3, <1>5, <1>6, <1>7

\* Different records are in different slots.
LEMMA SlotsDiffer ==
    ASSUME NEW f \in Slot, NEW i \in 1 .. Cap, NEW j \in 1 .. Cap, i # j
    PROVE  At(f, i) # At(f, j)
<1>1. Cap \in Nat /\ Cap > 1
  BY CapFacts
<1>2. /\ At(f, i) = IF f + i - 1 < Cap THEN f + i - 1 ELSE f + i - 1 - Cap
      /\ At(f, j) = IF f + j - 1 < Cap THEN f + j - 1 ELSE f + j - 1 - Cap
  BY AtIs
<1>. QED
  BY <1>1, <1>2 DEF Slot

\* What is behind the first record.
LEMMA StepOn ==
    ASSUME NEW f \in Slot
    PROVE  /\ (f + 1) % Cap = At(f, 2) /\ At(f, 2) \in Slot /\ At(f, 1) = f
           /\ \A i \in 1 .. Cap - 1 : At(At(f, 2), i) = At(f, i + 1)
<1>1. Cap \in Nat /\ Cap > 1
  BY CapFacts
<1>2. f + 2 - 1 = f + 1 /\ 2 \in 1 .. Cap /\ 1 \in 1 .. Cap
  BY <1>1 DEF Slot
<1>3. (f + 1) % Cap = At(f, 2)
  BY <1>2 DEF At
<1>4. /\ At(f, 2) = IF f + 2 - 1 < Cap THEN f + 2 - 1 ELSE f + 2 - 1 - Cap
      /\ At(f, 1) = IF f + 1 - 1 < Cap THEN f + 1 - 1 ELSE f + 1 - 1 - Cap
      /\ At(f, 2) \in Slot
  BY <1>2, AtIs
<1>5. ASSUME NEW i \in 1 .. Cap - 1
      PROVE  At(At(f, 2), i) = At(f, i + 1)
  <2>. DEFINE g == At(f, 2)
  <2>1. i \in 1 .. Cap /\ i + 1 \in 1 .. Cap
    BY <1>1
  <2>2. At(f, i + 1) = IF f + (i + 1) - 1 < Cap THEN f + (i + 1) - 1 ELSE f + (i + 1) - 1 - Cap
    BY <2>1, AtIs
  <2>3. At(g, i) = IF g + i - 1 < Cap THEN g + i - 1 ELSE g + i - 1 - Cap
    <3>. HIDE DEF g
    <3>. QED
      BY <1>4, <2>1, AtIs DEF g
  <2>. QED
    BY <1>1, <1>4, <2>2, <2>3 DEF Slot
<1>. QED
  BY <1>1, <1>3, <1>4, <1>5 DEF Slot

\* enqueue: a ring that is not full has one record more.
LEMMA Grow ==
    ASSUME NEW f \in Slot, NEW r \in Slot, (r + 1) % Cap # f
    PROVE  /\ SizeOf(f, r) \in 1 .. Cap - 1
           /\ (r + 1) % Cap = At(f, SizeOf(f, r) + 1)
           /\ (r + 1) % Cap \in Slot
           /\ SizeOf(f, (r + 1) % Cap) = SizeOf(f, r) + 1
<1>. DEFINE n == SizeOf(f, r)
            s == (r + 1) % Cap
<1>1. Cap \in Nat /\ Cap > 1 /\ f \in Int /\ r \in Int
  BY CapFacts DEF Slot
<1>2. s = IF r + 1 < Cap THEN r + 1 ELSE r + 1 - Cap
  BY NextIs
<1>3. s \in Slot
  BY <1>1, <1>2 DEF Slot
<1>4. s # f
  OBVIOUS
<1>. HIDE DEF s
<1>5. n = IF r >= f THEN r - f + 1 ELSE r - f + Cap + 1
  BY DEF SizeOf
<1>6. SizeOf(f, s) = IF s >= f THEN s - f + 1 ELSE s - f + Cap + 1
  BY DEF SizeOf
<1>. HIDE DEF n
<1>7. n \in 1 .. Cap - 1 /\ SizeOf(f, s) = n + 1
  BY <1>1, <1>2, <1>3, <1>4, <1>5, <1>6 DEF Slot
<1>8. s = At(f, n + 1)
  BY <1>3, <1>7, RingShape
<1>. QED
  BY <1>3, <1>7, <1>8 DEF s, n

LEMMA FullSize ==
    ASSUME NEW f \in Slot, NEW r \in Slot, (r + 1) % Cap = f
    PROVE  SizeOf(f, r) = Cap
<1>1. Cap \in Nat /\ Cap > 1
  BY CapFacts
<1>2. (r + 1) % Cap = IF r + 1 < Cap THEN r + 1 ELSE r + 1 - Cap
  BY NextIs
<1>. QED
  BY <1>1, <1>2 DEF Slot, SizeOf

\* dequeue: a ring of several records has one less.
LEMMA Shrink ==
    ASSUME NEW f \in Slot, NEW r \in Slot, f # r
    PROVE  /\ SizeOf(f, r) \in 2 .. Cap
           /\ SizeOf(At(f, 2), r) = SizeOf(f, r) - 1
<1>1. Cap \in Nat /\ Cap > 1
  BY CapFacts
<1>2. At(f, 2) = (IF f + 1 < Cap THEN f + 1 ELSE f + 1 - Cap) /\ At(f, 2) \in Slot
  <2>1. At(f, 2) = IF f + 2 - 1 < Cap THEN f + 2 - 1 ELSE f + 2 - 1 - Cap
    BY <1>1, AtIs
  <2>. QED
    BY <2>1, StepOn DEF Slot
<1>. QED
  BY <1>1, <1>2 DEF Slot, SizeOf

-----------------------------------------------------------------------------
(* The records of a ring, and what happens to them.                        *)

LEMMA RecordsAre ==
    /\ front \in Slot /\ rear \in Slot => Records = RecordsFrom(front, rear, ring)
    /\ front' \in Slot /\ rear' \in Slot => Records' = RecordsFrom(front', rear', ring')
<1>1. ASSUME front \in Slot, rear \in Slot
      PROVE  Records = RecordsFrom(front, rear, ring)
  BY <1>1, CapFacts, RingShape DEF Records, RecordsFrom, At
<1>2. ASSUME front' \in Slot, rear' \in Slot
      PROVE  Records' = RecordsFrom(front', rear', ring')
  BY <1>2, CapFacts, RingShape DEF Records, RecordsFrom, At
<1>. QED
  BY <1>1, <1>2

\* What a slot holds; 0 before the first report.
Report == 0 .. MaxEvents

LEMMA RecordsShape ==
    ASSUME NEW f \in Slot, NEW r \in Slot, NEW g \in [Slot -> Report]
    PROVE  /\ RecordsFrom(f, r, g) \in Seq(Report)
           /\ Len(RecordsFrom(f, r, g)) = SizeOf(f, r)
           /\ DOMAIN RecordsFrom(f, r, g) = 1 .. SizeOf(f, r)
           /\ \A i \in 1 .. SizeOf(f, r) : RecordsFrom(f, r, g)[i] = g[At(f, i)]
<1>. DEFINE n == SizeOf(f, r)
<1>1. Cap \in Nat /\ n \in 1 .. Cap
  BY CapFacts, RingShape
<1>. HIDE DEF n
<1>2. RecordsFrom(f, r, g) = [i \in 1 .. n |-> g[At(f, i)]]
  BY DEF RecordsFrom, n
<1>3. \A i \in 1 .. n : g[At(f, i)] \in Report
  <2>1. \A i \in 1 .. n : i \in 1 .. Cap
    BY <1>1
  <2>2. \A i \in 1 .. n : At(f, i) \in Slot
    BY <2>1, AtIs
  <2>. QED
    BY <2>2
<1>4. n \in Nat /\ RecordsFrom(f, r, g) \in [1 .. n -> Report]
  BY <1>1, <1>2, <1>3
<1>5. RecordsFrom(f, r, g) \in Seq(Report)
  BY <1>4
<1>6. Len(RecordsFrom(f, r, g)) = n /\ DOMAIN RecordsFrom(f, r, g) = 1 .. n
  BY <1>4
<1>7. \A i \in 1 .. n : RecordsFrom(f, r, g)[i] = g[At(f, i)]
  BY <1>2
<1>. QED
  BY <1>5, <1>6, <1>7 DEF n

LEMMA GrowRecords ==
    ASSUME front \in Slot, rear \in Slot, rear' \in Slot,
           rear' = (rear + 1) % Cap, rear' # front,
           ring \in [Slot -> Report], ring' \in [Slot -> Report], NEW e \in Report,
           ring' = [ring EXCEPT ![rear'] = e]
    PROVE  /\ \A i \in 1 .. SizeOf(front, rear) : ring'[At(front, i)] = ring[At(front, i)]
           /\ ring'[At(front, SizeOf(front, rear) + 1)] = e
           /\ RecordsFrom(front, rear', ring') = Append(RecordsFrom(front, rear, ring), e)
<1>. DEFINE n == SizeOf(front, rear)
            old == RecordsFrom(front, rear, ring)
            new == RecordsFrom(front, rear', ring')
<1>1. Cap \in Nat /\ n \in 1 .. Cap - 1 /\ rear' = At(front, n + 1) /\ SizeOf(front, rear') = n + 1
  BY CapFacts, Grow
<1>2. /\ new \in Seq(Report) /\ Len(new) = SizeOf(front, rear')
      /\ \A i \in 1 .. SizeOf(front, rear') : new[i] = ring'[At(front, i)]
  <2>1. new \in Seq(Report) /\ Len(new) = SizeOf(front, rear')
    BY RecordsShape
  <2>2. \A i \in 1 .. SizeOf(front, rear') : new[i] = ring'[At(front, i)]
    BY DEF RecordsFrom
  <2>. QED
    BY <2>1, <2>2
<1>3. /\ old \in Seq(Report) /\ Len(old) = n
      /\ \A i \in 1 .. n : old[i] = ring[At(front, i)]
  <2>1. old \in Seq(Report) /\ Len(old) = n
    BY RecordsShape
  <2>2. \A i \in 1 .. n : old[i] = ring[At(front, i)]
    BY DEF RecordsFrom
  <2>. QED
    BY <2>1, <2>2
<1>. HIDE DEF n, old, new
<1>4. \A i \in 1 .. n : ring'[At(front, i)] = ring[At(front, i)]
  <2>. SUFFICES ASSUME NEW i \in 1 .. n
                PROVE  ring'[At(front, i)] = ring[At(front, i)]
    OBVIOUS
  <2>1. i \in 1 .. Cap /\ n + 1 \in 1 .. Cap /\ i # n + 1
    BY <1>1
  <2>2. At(front, i) # rear' /\ At(front, i) \in Slot
    BY <1>1, <2>1, SlotsDiffer, AtIs
  <2>. QED
    BY <2>2
<1>5. ring'[At(front, n + 1)] = e
  BY <1>1
<1>6. /\ Append(old, e) \in Seq(Report) /\ Len(Append(old, e)) = n + 1
      /\ \A i \in 1 .. n : Append(old, e)[i] = old[i]
      /\ Append(old, e)[n + 1] = e
  BY <1>3, AppendProperties
<1>7. \A i \in 1 .. n + 1 : new[i] = Append(old, e)[i]
  <2>1. \A i \in 1 .. n + 1 : i \in 1 .. n \/ i = n + 1
    BY <1>1
  <2>. QED
    BY <1>1, <1>2, <1>3, <1>4, <1>5, <1>6, <2>1
<1>8. new = Append(old, e)
  BY <1>1, <1>2, <1>6, <1>7, SeqEqual
<1>. QED
  BY <1>4, <1>5, <1>8 DEF n, old, new

LEMMA ShrinkRecords ==
    ASSUME NEW f \in Slot, NEW k \in Slot, NEW r \in Slot, f # r, k = At(f, 2),
           NEW g \in [Slot -> Report]
    PROVE  RecordsFrom(k, r, g) = Tail(RecordsFrom(f, r, g))
<1>. DEFINE n == SizeOf(f, r)
            old == RecordsFrom(f, r, g)
            new == RecordsFrom(k, r, g)
<1>1. Cap \in Nat /\ n \in 2 .. Cap /\ SizeOf(k, r) = n - 1
  BY CapFacts, Shrink
<1>2. \A i \in 1 .. n - 1 : At(k, i) = At(f, i + 1)
  <2>1. \A i \in 1 .. n - 1 : i \in 1 .. Cap - 1
    BY <1>1
  <2>. QED
    BY <2>1, StepOn
<1>3. /\ old \in Seq(Report) /\ Len(old) = n
      /\ \A i \in 1 .. n : old[i] = g[At(f, i)]
  <2>1. old \in Seq(Report) /\ Len(old) = n
    BY RecordsShape
  <2>2. \A i \in 1 .. n : old[i] = g[At(f, i)]
    BY RecordsShape
  <2>. QED
    BY <2>1, <2>2
<1>4. /\ new \in Seq(Report) /\ Len(new) = SizeOf(k, r)
      /\ \A i \in 1 .. SizeOf(k, r) : new[i] = g[At(k, i)]
  <2>1. new \in Seq(Report) /\ Len(new) = SizeOf(k, r)
    BY RecordsShape
  <2>2. \A i \in 1 .. SizeOf(k, r) : new[i] = g[At(k, i)]
    BY RecordsShape
  <2>. QED
    BY <2>1, <2>2
<1>. HIDE DEF n, old, new
<1>5. old # << >>
  BY <1>1, <1>3
<1>6. /\ Tail(old) \in Seq(Report) /\ Len(Tail(old)) = n - 1
      /\ \A i \in 1 .. n - 1 : Tail(old)[i] = old[i + 1]
  BY <1>1, <1>3, <1>5, HeadTailProperties
<1>7. \A i \in 1 .. n - 1 : new[i] = Tail(old)[i]
  <2>1. \A i \in 1 .. n - 1 : i + 1 \in 1 .. n
    BY <1>1
  <2>. QED
    BY <1>1, <1>2, <1>3, <1>4, <1>6, <2>1
<1>8. new = Tail(old)
  BY <1>1, <1>4, <1>6, <1>7, SeqEqual
<1>. QED
  BY <1>8 DEF old, new

-----------------------------------------------------------------------------
(* The inductive invariant.                                                *)

\* How many of the records the host has read are out of the ring already.
Gone ==
    IF cmd.op = "clear" /\ pc \in {"dequeue", "reset", "unset"} THEN cmd.number - left ELSE 0

\* How many of them are still at its front.
Kept == Len(readOut) - Gone

\* Outside of a reset the ring is there or not.
Pointers ==
    \/ pc = "reset"
    \/ front = None /\ rear = None /\ handle = None
    \/ front \in Slot /\ rear \in Slot /\ handle \in Slot

Filled ==
    front \in Slot /\ rear \in Slot =>
        \A i \in 1 .. SizeOf(front, rear) : ring[At(front, i)] \in 1 .. MaxEvents

\* handle_index stands behind the records that the host has read and that are
\* still in the ring, which are its first ones.
Cursor ==
    pc # "reset" =>
        /\ front = None => Kept = 0
        /\ front # None =>
              /\ Kept \in 0 .. SizeOf(front, rear)
              /\ handle = At(front, Kept + 1)
              /\ \A i \in 1 .. Kept : ring[At(front, i)] = readOut[Gone + i]

\* What a command knows when it gets to a place.
Commands ==
    /\ Len(readOut) <= PayloadCap
    /\ cmd.op = "get" => readOut = << >>
    /\ cmd.op = "clear" => cmd.number \in 1 .. Len(readOut)
    /\ pc \in {"getSize", "transfer"} => cmd.op = "get" /\ front # None
    /\ pc = "clearSize" => cmd.op \in {"clear", "clearAll"} /\ front # None
    /\ pc \in {"dequeue", "unset"} => cmd.op = "clear"
    /\ pc \in {"getSize", "clearSize"} /\ wrapped => front > rear
    /\ pc = "transfer" => left \in 1 .. PayloadCap /\ left <= SizeOf(front, rear)
    /\ pc = "dequeue" => left \in 1 .. cmd.number
    /\ pc = "unset" => left = 0 /\ cmd.number = Len(readOut)

\* A ring is reset when its last record is taken out, which the host has read,
\* or when the host clears everything.
Resetting ==
    pc = "reset" =>
        /\ cmd.op \in {"clear", "clearAll"}
        /\ "front" \in stores \/ front = None
        /\ "rear" \in stores \/ rear = None
        /\ "handle" \in stores \/ handle = None
        /\ cmd.op = "clear" =>
              /\ left = 0 /\ cmd.number = Len(readOut)
              /\ front \in Slot /\ rear \in Slot => front = rear /\ ring[front] \in Elements(readOut)

LogInv == LogTypeOK /\ Pointers /\ Filled /\ Cursor /\ Commands /\ Resetting

-----------------------------------------------------------------------------
(* Steps that leave ring and records alone.                                *)

\* Outside of a reset, IsEmpty tells whether there is a ring.
LEMMA RingOrNot ==
    ASSUME LogInv, pc # "reset"
    PROVE  /\ IsEmpty <=> front = None
           /\ IsEmpty \/ (front \in Slot /\ rear \in Slot /\ handle \in Slot)
BY CapFacts DEF LogInv, Pointers, IsEmpty

LEMMA KeepRing ==
    ASSUME LogInv, UNCHANGED <<front, rear, handle, ring, readOut>>,
           Gone' = Gone, pc # "reset", pc' # "reset"
    PROVE  Pointers' /\ Filled' /\ Cursor' /\ Resetting'
<1>1. Kept' = Kept
  BY DEF Kept
<1>2. Pointers'
  BY DEF LogInv, Pointers
<1>3. Filled'
  BY DEF LogInv, Filled
<1>4. Cursor'
  BY <1>1 DEF LogInv, Cursor
<1>5. Resetting'
  BY DEF Resetting
<1>. QED
  BY <1>2, <1>3, <1>4, <1>5

LEMMA InitInv == LogInit => LogInv
<1>. SUFFICES ASSUME LogInit PROVE LogInv
  OBVIOUS
<1>1. LogTypeOK
  <2>1. 0 \in 0 .. MaxEvents /\ 0 \in 0 .. Cap
    BY EventLogAssumption
  <2>2. ring \in [Slot -> 0 .. MaxEvents]
    BY <2>1 DEF LogInit
  <2>3. cmd \in [op : {"none", "get", "clear", "clearAll"}, number : 0 .. Cap]
    BY <2>1 DEF LogInit, NoCmd
  <2>4. pc \in Places /\ stores \subseteq {"front", "rear", "handle"} /\ readOut \in Seq(1 .. MaxEvents)
    BY DEF LogInit, Places
  <2>. QED
    BY <2>1, <2>2, <2>3, <2>4 DEF LogInit, LogTypeOK
<1>2. front = None /\ None \notin Slot /\ pc = "idle" /\ readOut = << >> /\ cmd.op = "none"
  BY CapFacts DEF LogInit, NoCmd
<1>3. Kept = 0
  BY <1>2 DEF Kept, Gone
<1>4. Pointers /\ Filled /\ Cursor /\ Resetting
  BY <1>2, <1>3 DEF Pointers, Filled, Cursor, Resetting, LogInit
<1>5. Commands
  BY <1>2, EventLogAssumption DEF Commands
<1>. QED
  BY <1>1, <1>4, <1>5 DEF LogInv

\* The host writes a command to the mailbox.
LEMMA KeepPost ==
    ASSUME LogInv, OrderlyHost,
           PostGet \/ (\E n \in 1 .. Cap : PostClear(n)) \/ (\E n \in 0 .. Cap : PostClearAll(n))
    PROVE  LogInv'
<1>1. cmd = NoCmd /\ UNCHANGED <<log, status, reports, pc, wrapped, left, stores, value, readOut>>
  BY DEF PostGet, PostClear, PostClearAll, Post
<1>2. UNCHANGED <<front, rear, handle, ring, lost>>
  BY <1>1 DEF log
<1>3. cmd.op = "none" /\ pc \notin {"getSize", "transfer", "clearSize", "dequeue", "unset", "reset"}
  BY <1>1 DEF NoCmd, LogInv, Commands, Resetting
<1>4. /\ cmd'.op \in {"get", "clear", "clearAll"} /\ cmd'.number \in 0 .. Cap
      /\ cmd' = [op |-> cmd'.op, number |-> cmd'.number]
      /\ cmd'.op = "get" => readOut = << >>
      /\ cmd'.op = "clear" => cmd'.number \in 1 .. Len(readOut)
  <2>1. CASE PostGet
    BY <2>1, CapFacts DEF PostGet, Post, OrderlyHost
  <2>2. CASE \E n \in 1 .. Cap : PostClear(n)
    <3>1. PICK n \in 1 .. Cap : PostClear(n)
      BY <2>2
    <3>2. n \in 1 .. Len(readOut) /\ cmd' = [op |-> "clear", number |-> n] /\ n \in 0 .. Cap
      BY <3>1, CapFacts DEF PostClear, Post, LogInv, LogTypeOK
    <3>. QED
      BY <3>2
  <2>3. CASE \E n \in 0 .. Cap : PostClearAll(n)
    BY <2>3 DEF PostClearAll, Post
  <2>. QED
    BY <2>1, <2>2, <2>3
<1>5. LogTypeOK'
  BY <1>1, <1>2, <1>4 DEF LogInv, LogTypeOK
<1>6. Gone' = Gone
  BY <1>1, <1>3 DEF Gone
<1>7. Pointers' /\ Filled' /\ Cursor' /\ Resetting'
  BY <1>1, <1>2, <1>3, <1>6, KeepRing
<1>8. Commands'
  BY <1>1, <1>2, <1>3, <1>4 DEF LogInv, Commands
<1>. QED
  BY <1>5, <1>7, <1>8 DEF LogInv

\* queueSize may be too small when an interrupt has come between its two
\* reads, but never too large.
LEMMA SizeIsEnough ==
    ASSUME LogInv, pc \in {"getSize", "clearSize"}
    PROVE  QueueSize \in Int /\ QueueSize <= SizeOf(front, rear)
<1>1. front \in Slot /\ rear \in Slot
  BY RingOrNot DEF LogInv, Commands, IsEmpty
<1>2. wrapped => front > rear
  BY DEF LogInv, Commands
<1>3. Cap \in Nat /\ Cap > 1
  BY CapFacts
<1>. QED
  BY <1>1, <1>2, <1>3 DEF QueueSize, SizeOf, Slot

\* The number is good and the host wants everything cleared.
StartReset ==
    /\ pc \in {"idle", "clearSize"} /\ cmd.op = "clearAll"
    /\ pc' = "reset" /\ stores' = {"front", "rear", "handle"}
    /\ UNCHANGED <<front, rear, handle, ring, lost, status, reports, cmd, wrapped, left, value, readOut>>

\* What is left of BeginClear and SizeOfClear.
LEMMA ClearSteps ==
    ASSUME LogInv, BeginClear \/ SizeOfClear
    PROVE  \/ StartReset
           \/ /\ cmd.op \in {"clear", "clearAll"}
              /\ UNCHANGED <<front, rear, handle, ring, lost, status, reports, stores, value, readOut>>
              /\ \/ Reply /\ UNCHANGED <<wrapped, left>>
                 \/ /\ pc = "idle" /\ ~IsEmpty /\ pc' = "clearSize" /\ wrapped' = (front > rear)
                    /\ UNCHANGED <<cmd, left>>
                 \/ /\ pc = "clearSize" /\ pc' = "dequeue" /\ left' = cmd.number
                    /\ cmd.op = "clear" /\ UNCHANGED <<cmd, wrapped>>
<1>1. CASE BeginClear
  <2>1. pc = "idle" /\ cmd.op \in {"clear", "clearAll"} /\ UNCHANGED <<log, status, reports, value, readOut>>
    BY <1>1 DEF BeginClear
  <2>2. CASE ~IsEmpty /\ StartSize("clearSize") /\ UNCHANGED <<cmd, left, stores>>
    BY <2>1, <2>2 DEF StartSize, log
  <2>3. CASE IsEmpty /\ cmd.number > 0 /\ Reply /\ UNCHANGED <<wrapped, left, stores>>
    BY <2>1, <2>3 DEF log
  <2>4. CASE IsEmpty /\ cmd.number = 0 /\ StartClear /\ UNCHANGED <<cmd, wrapped>>
    <3>1. cmd.op = "clearAll"
      BY <2>1, <2>4 DEF LogInv, Commands
    <3>. QED
      BY <2>1, <2>4, <3>1 DEF StartClear, StartReset, log
  <2>. QED
    BY <1>1, <2>2, <2>3, <2>4 DEF BeginClear
<1>2. CASE SizeOfClear
  <2>1. /\ pc = "clearSize" /\ cmd.op \in {"clear", "clearAll"}
        /\ UNCHANGED <<log, status, reports, wrapped, value, readOut>>
    BY <1>2 DEF SizeOfClear, LogInv, Commands
  <2>2. CASE Reply /\ UNCHANGED <<left, stores>>
    BY <2>1, <2>2 DEF log
  <2>3. CASE StartClear /\ UNCHANGED cmd
    BY <2>1, <2>3 DEF StartClear, StartReset, log
  <2>. QED
    BY <1>2, <2>2, <2>3 DEF SizeOfClear
<1>. QED
  BY <1>1, <1>2

LEMMA KeepBegin ==
    ASSUME LogInv, BeginGet \/ BeginClear, ~StartReset
    PROVE  LogInv'
<1>1. /\ pc = "idle" /\ cmd.op \in {"get", "clear", "clearAll"}
      /\ UNCHANGED <<front, rear, handle, ring, lost, status, reports, left, stores, value, readOut>>
  <2>1. CASE BeginGet
    BY <2>1 DEF BeginGet, log
  <2>2. CASE BeginClear
    <3>1. pc = "idle"
      BY <2>2 DEF BeginClear
    <3>. QED
      BY <2>2, <3>1, ClearSteps
  <2>. QED
    BY <2>1, <2>2
<1>2. \/ Reply /\ UNCHANGED wrapped
      \/ /\ front \in Slot /\ rear \in Slot /\ UNCHANGED cmd /\ wrapped' = (front > rear)
         /\ \/ pc' = "getSize" /\ cmd.op = "get"
            \/ pc' = "clearSize" /\ cmd.op \in {"clear", "clearAll"}
  <2>1. ~IsEmpty => front \in Slot /\ rear \in Slot
    BY <1>1, RingOrNot
  <2>2. CASE BeginGet
    BY <2>1, <2>2 DEF BeginGet, StartSize
  <2>3. CASE BeginClear
    <3>1. pc = "idle"
      BY <2>3 DEF BeginClear
    <3>. QED
      BY <2>1, <2>3, <3>1, ClearSteps
  <2>. QED
    BY <2>2, <2>3
<1>3. pc' \in {"touch", "getSize", "clearSize"}
  BY <1>2 DEF Reply
<1>4. LogTypeOK'
  <2>1. wrapped' \in BOOLEAN
    <3>1. wrapped \in BOOLEAN /\ (front > rear) \in BOOLEAN
      BY DEF LogInv, LogTypeOK
    <3>2. wrapped' = wrapped \/ wrapped' = (front > rear)
      BY <1>2
    <3>. QED
      BY <3>1, <3>2, Zenon
  <2>2. cmd' \in [op : {"none", "get", "clear", "clearAll"}, number : 0 .. Cap]
    BY <1>2, CapFacts DEF Reply, NoCmd, LogInv, LogTypeOK
  <2>3. pc' \in Places
    BY <1>3 DEF Places
  <2>. QED
    BY <1>1, <2>1, <2>2, <2>3 DEF LogInv, LogTypeOK
<1>5. Gone' = Gone
  BY <1>1, <1>3 DEF Gone
<1>6. Pointers' /\ Filled' /\ Cursor' /\ Resetting'
  BY <1>1, <1>3, <1>5, KeepRing
<1>7. Commands'
  <2>1. CASE Reply
    BY <1>1, <1>3, <2>1 DEF Reply, NoCmd, LogInv, Commands
  <2>2. CASE UNCHANGED cmd /\ front \in Slot /\ wrapped' = (front > rear)
    <3>1. front # None
      BY <2>2, CapFacts
    <3>2. pc' = "getSize" => cmd.op = "get"
      BY <1>2, <1>1, <2>2 DEF Reply, NoCmd
    <3>3. pc' = "clearSize" => cmd.op \in {"clear", "clearAll"}
      BY <1>2, <1>1, <2>2 DEF Reply, NoCmd
    <3>. QED
      BY <1>1, <1>3, <2>2, <3>1, <3>2, <3>3 DEF LogInv, Commands
  <2>. QED
    BY <1>2, <2>1, <2>2
<1>. QED
  BY <1>4, <1>6, <1>7 DEF LogInv

LEMMA KeepSizeOfGet ==
    ASSUME LogInv, SizeOfGet
    PROVE  LogInv'
<1>1. /\ pc = "getSize" /\ cmd.op = "get" /\ front # None
      /\ UNCHANGED <<front, rear, handle, ring, lost, status, reports, wrapped, stores, value, readOut>>
  BY DEF SizeOfGet, log, LogInv, Commands
<1>2. QueueSize \in Int /\ QueueSize <= SizeOf(front, rear) /\ SizeOf(front, rear) \in 1 .. Cap
  BY <1>1, SizeIsEnough, RingOrNot, RingShape DEF IsEmpty
<1>3. Unsent \in Int /\ Unsent <= SizeOf(front, rear)
  <2>1. RelativeIndex \in Nat
    <3>1. handle - front + Cap \in 0 .. 2 * Cap - 1 /\ Cap \in Nat /\ Cap > 1
      BY <1>1, RingOrNot, CapFacts DEF IsEmpty, Slot
    <3>. DEFINE n == handle - front + Cap
    <3>2. n % Cap = IF n < Cap THEN n ELSE n - Cap
      <4>. HIDE DEF n
      <4>. QED
        BY <3>1, GoAround DEF n
    <3>. QED
      BY <3>1, <3>2 DEF RelativeIndex
  <2>. QED
    BY <1>2, <2>1 DEF Unsent
<1>4. \/ Reply /\ UNCHANGED left
      \/ /\ pc' = "transfer" /\ UNCHANGED cmd
         /\ left' \in 1 .. PayloadCap /\ left' <= SizeOf(front, rear)
  BY <1>2, <1>3, EventLogAssumption DEF SizeOfGet
<1>5. pc' \in {"touch", "transfer"}
  BY <1>4 DEF Reply
<1>6. LogTypeOK'
  <2>1. left' \in 0 .. Cap
    BY <1>4, EventLogAssumption DEF LogInv, LogTypeOK
  <2>2. cmd' \in [op : {"none", "get", "clear", "clearAll"}, number : 0 .. Cap]
    BY <1>4, CapFacts DEF Reply, NoCmd, LogInv, LogTypeOK
  <2>3. pc' \in Places
    BY <1>5 DEF Places
  <2>. QED
    BY <1>1, <2>1, <2>2, <2>3 DEF LogInv, LogTypeOK
<1>7. Gone' = Gone
  BY <1>1, <1>5 DEF Gone
<1>8. Pointers' /\ Filled' /\ Cursor' /\ Resetting'
  BY <1>1, <1>5, <1>7, KeepRing
<1>9. Commands'
  <2>1. CASE Reply
    BY <1>1, <2>1 DEF Reply, NoCmd, LogInv, Commands
  <2>2. CASE pc' = "transfer" /\ UNCHANGED cmd /\ left' \in 1 .. PayloadCap /\ left' <= SizeOf(front, rear)
    BY <1>1, <2>2 DEF LogInv, Commands
  <2>. QED
    BY <1>4, <2>1, <2>2
<1>. QED
  BY <1>6, <1>8, <1>9 DEF LogInv

LEMMA KeepSizeOfClear ==
    ASSUME LogInv, SizeOfClear, ~StartReset
    PROVE  LogInv'
<1>0. pc = "clearSize"
  BY DEF SizeOfClear
<1>1. /\ pc = "clearSize" /\ cmd.op \in {"clear", "clearAll"} /\ front # None
      /\ cmd.op = "clear" => cmd.number \in 1 .. Len(readOut)
      /\ cmd.number \in 0 .. Cap
      /\ UNCHANGED <<front, rear, handle, ring, lost, status, reports, wrapped, stores, value, readOut>>
  BY <1>0, ClearSteps DEF SizeOfClear, LogInv, Commands, LogTypeOK
<1>2. \/ Reply /\ UNCHANGED left
      \/ pc' = "dequeue" /\ UNCHANGED cmd /\ left' = cmd.number /\ cmd.op = "clear"
  BY <1>0, ClearSteps
<1>3. pc' \in {"touch", "dequeue"}
  BY <1>2 DEF Reply
<1>4. LogTypeOK'
  <2>1. left' \in 0 .. Cap
    BY <1>1, <1>2 DEF LogInv, LogTypeOK
  <2>2. cmd' \in [op : {"none", "get", "clear", "clearAll"}, number : 0 .. Cap]
    BY <1>2, CapFacts DEF Reply, NoCmd, LogInv, LogTypeOK
  <2>3. pc' \in Places
    BY <1>3 DEF Places
  <2>. QED
    BY <1>1, <2>1, <2>2, <2>3 DEF LogInv, LogTypeOK
<1>5. Gone' = Gone
  BY <1>1, <1>2 DEF Gone, Reply
<1>6. Pointers' /\ Filled' /\ Cursor' /\ Resetting'
  BY <1>1, <1>3, <1>5, KeepRing
<1>7. Commands'
  <2>1. CASE Reply
    BY <1>1, <2>1 DEF Reply, NoCmd, LogInv, Commands
  <2>2. CASE pc' = "dequeue" /\ UNCHANGED cmd /\ left' = cmd.number /\ cmd.op = "clear"
    BY <1>1, <2>2 DEF LogInv, Commands
  <2>. QED
    BY <1>2, <2>1, <2>2
<1>. QED
  BY <1>4, <1>6, <1>7 DEF LogInv

\* The main loop reads the status register and writes it back.
LEMMA KeepTouch ==
    ASSUME LogInv, ReadStatus \/ WriteStatus
    PROVE  LogInv'
<1>1. /\ UNCHANGED <<front, rear, handle, ring, lost, reports, cmd, wrapped, left, stores, readOut>>
      /\ pc \in {"touch", "idle", "loop"} /\ pc' \in {"loop", "idle"}
  BY DEF ReadStatus, WriteStatus, log
<1>2. \/ value' = status /\ status' = status /\ pc' = "loop"
      \/ pc = "loop" /\ status' = value /\ value' = value /\ pc' = "idle"
  BY DEF ReadStatus, WriteStatus
<1>3. LogTypeOK'
  <2>1. status \in BOOLEAN /\ value \in BOOLEAN
    BY DEF LogInv, LogTypeOK
  <2>2. status' \in BOOLEAN /\ value' \in BOOLEAN
    BY <1>2, <2>1, Zenon
  <2>3. pc' \in Places
    BY <1>1 DEF Places
  <2>. QED
    BY <1>1, <2>2, <2>3 DEF LogInv, LogTypeOK
<1>4. Gone' = Gone
  BY <1>1 DEF Gone
<1>5. Pointers' /\ Filled' /\ Cursor' /\ Resetting'
  BY <1>1, <1>4, KeepRing
<1>6. Commands'
  BY <1>1 DEF LogInv, Commands
<1>. QED
  BY <1>3, <1>5, <1>6 DEF LogInv

-----------------------------------------------------------------------------
(* Steps that reset the ring.                                              *)

LEMMA KeepStartReset ==
    ASSUME LogInv, StartReset
    PROVE  LogInv'
<1>1. /\ cmd.op = "clearAll" /\ pc' = "reset" /\ stores' = {"front", "rear", "handle"}
      /\ UNCHANGED <<front, rear, handle, ring, lost, status, reports, cmd, wrapped, left, value, readOut>>
  BY DEF StartReset
<1>2. LogTypeOK'
  BY <1>1 DEF LogInv, LogTypeOK, Places
<1>3. Pointers' /\ Cursor'
  BY <1>1 DEF Pointers, Cursor
<1>4. Filled'
  BY <1>1 DEF LogInv, Filled
<1>5. Commands'
  BY <1>1 DEF LogInv, Commands
<1>6. Resetting'
  BY <1>1 DEF Resetting
<1>. QED
  BY <1>2, <1>3, <1>4, <1>5, <1>6 DEF LogInv

LEMMA KeepReset ==
    ASSUME LogInv, NEW s, Reset(s)
    PROVE  LogInv'
<1>1. /\ pc = "reset" /\ s \in stores /\ stores' = stores \ {s}
      /\ front' = IF s = "front" THEN None ELSE front
      /\ rear' = IF s = "rear" THEN None ELSE rear
      /\ handle' = IF s = "handle" THEN None ELSE handle
      /\ UNCHANGED <<ring, lost, status, reports, wrapped, left, value>>
      /\ \/ stores' # {} /\ UNCHANGED <<pc, cmd, readOut>>
         \/ stores' = {} /\ cmd.op = "clearAll" /\ Reply /\ readOut' = << >>
         \/ stores' = {} /\ cmd.op # "clearAll" /\ pc' = "unset" /\ UNCHANGED <<cmd, readOut>>
  BY DEF Reset
<1>2. /\ cmd.op \in {"clear", "clearAll"} /\ stores \subseteq {"front", "rear", "handle"}
      /\ "front" \in stores \/ front = None
      /\ "rear" \in stores \/ rear = None
      /\ "handle" \in stores \/ handle = None
      /\ cmd.op = "clear" =>
            /\ left = 0 /\ cmd.number = Len(readOut)
            /\ front \in Slot /\ rear \in Slot => front = rear /\ ring[front] \in Elements(readOut)
  BY <1>1 DEF LogInv, Resetting, LogTypeOK
<1>3. /\ "front" \in stores' \/ front' = None
      /\ "rear" \in stores' \/ rear' = None
      /\ "handle" \in stores' \/ handle' = None
  BY <1>1, <1>2
<1>4. /\ front' = None \/ front' = front
      /\ rear' = None \/ rear' = rear
      /\ handle' = None \/ handle' = handle
  BY <1>1
<1>5. LogTypeOK'
  <2>1. front' \in Slot \cup {None} /\ rear' \in Slot \cup {None} /\ handle' \in Slot \cup {None}
    BY <1>4 DEF LogInv, LogTypeOK
  <2>2. readOut' \in Seq(1 .. MaxEvents)
    <3>1. readOut' = readOut \/ readOut' = << >>
      BY <1>1
    <3>2. readOut \in Seq(1 .. MaxEvents) /\ << >> \in Seq(1 .. MaxEvents)
      BY DEF LogInv, LogTypeOK
    <3>. QED
      BY <3>1, <3>2
  <2>3. cmd' \in [op : {"none", "get", "clear", "clearAll"}, number : 0 .. Cap]
    BY <1>1, CapFacts DEF Reply, NoCmd, LogInv, LogTypeOK
  <2>4. pc' \in Places
    BY <1>1 DEF Reply, Places
  <2>. QED
    BY <1>1, <1>2, <2>1, <2>2, <2>3, <2>4 DEF LogInv, LogTypeOK
<1>6. Filled'
  BY <1>1, <1>4, CapFacts DEF LogInv, Filled
<1>7. CASE stores' # {}
  <2>1. UNCHANGED <<pc, cmd, readOut>>
    BY <1>1, <1>7
  <2>2. Pointers' /\ Cursor'
    BY <1>1, <2>1 DEF Pointers, Cursor
  <2>3. Commands'
    BY <1>1, <2>1 DEF LogInv, Commands
  <2>4. Resetting'
    BY <1>1, <1>2, <1>3, <1>4, <2>1, CapFacts DEF Resetting
  <2>. QED
    BY <1>5, <1>6, <2>2, <2>3, <2>4 DEF LogInv
<1>8. CASE stores' = {}
  <2>1. front' = None /\ rear' = None /\ handle' = None
    BY <1>3, <1>8
  <2>2. \/ cmd' = NoCmd /\ pc' = "touch" /\ readOut' = << >>
        \/ /\ cmd.op = "clear" /\ pc' = "unset" /\ UNCHANGED <<cmd, readOut>>
           /\ left = 0 /\ cmd.number = Len(readOut)
    BY <1>1, <1>2, <1>8 DEF Reply
  <2>3. Pointers' /\ Resetting'
    BY <2>1, <2>2 DEF Pointers, Resetting
  <2>4. Kept' = 0
    BY <1>1, <2>2 DEF Kept, Gone, NoCmd
  <2>5. Cursor'
    BY <2>1, <2>4 DEF Cursor
  <2>6. Commands'
    <3>1. Len(readOut') <= PayloadCap
      BY <2>2, EventLogAssumption DEF LogInv, Commands
    <3>2. CASE cmd' = NoCmd /\ pc' = "touch" /\ readOut' = << >>
      BY <3>1, <3>2 DEF NoCmd, Commands
    <3>3. CASE /\ cmd.op = "clear" /\ pc' = "unset" /\ UNCHANGED <<cmd, readOut>>
               /\ left = 0 /\ cmd.number = Len(readOut)
      BY <1>1, <2>1, <3>1, <3>3 DEF LogInv, Commands
    <3>. QED
      BY <2>2, <3>2, <3>3
  <2>. QED
    BY <1>5, <1>6, <2>3, <2>5, <2>6 DEF LogInv
<1>. QED
  BY <1>7, <1>8

\* What is left of the records that the host has read when it has cleared some.
LEMMA ClearedSeen ==
    ASSUME LogInv, cmd.op = "clear", Cleared
    PROVE  /\ readOut' \in Seq(1 .. MaxEvents) /\ Len(readOut') = Len(readOut) - cmd.number
           /\ \A i \in 1 .. Len(readOut') : readOut'[i] = readOut[cmd.number + i]
           /\ cmd' = NoCmd /\ pc' = "touch"
<1>. DEFINE n == cmd.number
<1>1. readOut \in Seq(1 .. MaxEvents) /\ n \in 1 .. Len(readOut) /\ Len(readOut) \in Nat
  BY DEF LogInv, LogTypeOK, Commands
<1>2. readOut' = SubSeq(readOut, n + 1, Len(readOut)) /\ cmd' = NoCmd /\ pc' = "touch"
  BY DEF Cleared, Reply
<1>. HIDE DEF n
<1>3. n + 1 \in Int /\ Len(readOut) \in Int /\ \A i \in n + 1 .. Len(readOut) : readOut[i] \in 1 .. MaxEvents
  <2>1. \A i \in n + 1 .. Len(readOut) : i \in 1 .. Len(readOut)
    BY <1>1
  <2>2. \A i \in 1 .. Len(readOut) : readOut[i] \in 1 .. MaxEvents
    BY <1>1, ElementOfSeq
  <2>. QED
    BY <1>1, <2>1, <2>2
<1>4. /\ readOut' \in Seq(1 .. MaxEvents)
      /\ Len(readOut') = IF n + 1 <= Len(readOut) THEN Len(readOut) - (n + 1) + 1 ELSE 0
      /\ \A i \in 1 .. Len(readOut) - (n + 1) + 1 : readOut'[i] = readOut[n + 1 + i - 1]
  BY <1>2, <1>3, SubSeqProperties
<1>5. /\ Len(readOut) - (n + 1) + 1 = Len(readOut) - n
      /\ (IF n + 1 <= Len(readOut) THEN Len(readOut) - n ELSE 0) = Len(readOut) - n
      /\ \A i \in 1 .. Len(readOut) - n : n + 1 + i - 1 = n + i
  BY <1>1
<1>. QED
  BY <1>2, <1>4, <1>5 DEF n

LEMMA KeepUnset ==
    ASSUME LogInv, UnsetStatus
    PROVE  LogInv'
<1>1. /\ pc = "unset" /\ left = 0 /\ cmd.op = "clear" /\ cmd.number = Len(readOut)
      /\ status' = FALSE /\ Cleared
      /\ UNCHANGED <<front, rear, handle, ring, lost, reports, wrapped, left, stores, value>>
  BY CapFacts DEF UnsetStatus, LogInv, Commands, Pointers, log
<1>2. cmd' = NoCmd /\ pc' = "touch" /\ Len(readOut') = 0 /\ readOut' \in Seq(1 .. MaxEvents)
  BY <1>1, ClearedSeen DEF LogInv, LogTypeOK
<1>3. LogTypeOK'
  <2>1. cmd' \in [op : {"none", "get", "clear", "clearAll"}, number : 0 .. Cap] /\ pc' \in Places
    BY <1>2, CapFacts DEF NoCmd, Places
  <2>. QED
    BY <1>1, <1>2, <2>1 DEF LogInv, LogTypeOK
<1>4. Kept = 0 /\ Kept' = 0 /\ Gone' = 0
  BY <1>1, <1>2 DEF Kept, Gone, NoCmd, LogInv, LogTypeOK
<1>5. Pointers' /\ Filled' /\ Resetting' /\ Cursor'
  <2>1. Pointers' /\ Filled' /\ Resetting'
    BY <1>1, <1>2 DEF LogInv, Pointers, Filled, Resetting
  <2>2. \A i \in 1 .. 0 : FALSE
    OBVIOUS
  <2>3. Cursor'
    BY <1>1, <1>2, <1>4, <2>2 DEF LogInv, Cursor
  <2>. QED
    BY <2>1, <2>3
<1>6. Commands'
  BY <1>1, <1>2, EventLogAssumption DEF Commands, NoCmd
<1>. QED
  BY <1>3, <1>5, <1>6 DEF LogInv

-----------------------------------------------------------------------------
(* Steps that move the ends of the ring.                                   *)

\* What is known wherever there is a ring.
LEMMA RingFacts ==
    ASSUME LogInv, pc # "reset", front # None
    PROVE  /\ front \in Slot /\ rear \in Slot /\ handle \in Slot
           /\ SizeOf(front, rear) \in 1 .. Cap
           /\ \A i \in 1 .. SizeOf(front, rear) : ring[At(front, i)] \in 1 .. MaxEvents
           /\ Kept \in 0 .. SizeOf(front, rear) /\ handle = At(front, Kept + 1)
           /\ \A i \in 1 .. Kept : ring[At(front, i)] = readOut[Gone + i]
<1>1. front \in Slot /\ rear \in Slot /\ handle \in Slot
  BY RingOrNot DEF IsEmpty
<1>2. SizeOf(front, rear) \in 1 .. Cap
  BY <1>1, RingShape
<1>3. \A i \in 1 .. SizeOf(front, rear) : ring[At(front, i)] \in 1 .. MaxEvents
  BY <1>1 DEF LogInv, Filled
<1>. QED
  BY <1>1, <1>2, <1>3 DEF LogInv, Cursor

LEMMA TransferSends ==
    ASSUME LogInv, Transfer
    PROVE  /\ cmd.op = "get" /\ readOut = << >> /\ handle = front /\ front \in Slot /\ rear \in Slot
           /\ left \in 1 .. PayloadCap /\ left <= SizeOf(front, rear)
           /\ readOut' \in Seq(1 .. MaxEvents) /\ Len(readOut') = left
           /\ \A i \in 1 .. left : readOut'[i] = ring[At(front, i)]
           /\ handle' = At(front, left + 1) /\ handle' \in Slot
<1>1. /\ pc = "transfer" /\ cmd.op = "get" /\ readOut = << >> /\ front # None
      /\ left \in 1 .. PayloadCap /\ left <= SizeOf(front, rear)
  BY DEF Transfer, LogInv, Commands
<1>2. Kept = 0
  BY <1>1 DEF Kept, Gone
<1>3. /\ front \in Slot /\ rear \in Slot /\ handle = At(front, 0 + 1)
      /\ \A i \in 1 .. SizeOf(front, rear) : ring[At(front, i)] \in 1 .. MaxEvents
  BY <1>1, <1>2, RingFacts
<1>4. handle = front
  BY <1>3, StepOn
<1>5. left \in Nat /\ left + 1 \in 1 .. Cap
  BY <1>1, EventLogAssumption
<1>6. readOut' = << >> \o [i \in 1 .. left |-> ring[At(front, i)]]
  BY <1>1, <1>4 DEF Transfer, At
<1>. DEFINE sent == [i \in 1 .. left |-> ring[At(front, i)]]
            E == 1 .. MaxEvents
<1>7. sent \in [1 .. left -> E]
  <2>1. \A i \in 1 .. left : i \in 1 .. SizeOf(front, rear)
    BY <1>1, <1>3, RingShape
  <2>2. \A i \in 1 .. left : ring[At(front, i)] \in E
    BY <1>3, <2>1
  <2>. HIDE DEF E
  <2>. QED
    BY <2>2
<1>8. \A i \in 1 .. left : sent[i] = ring[At(front, i)]
  OBVIOUS
<1>. HIDE DEF sent, E
<1>9. sent \in Seq(E) /\ Len(sent) = left
  BY <1>5, <1>7
<1>10. readOut' = sent
  BY <1>6, <1>9 DEF sent
<1>11. handle' = At(front, left + 1) /\ handle' \in Slot
  <2>1. handle' = (front + left) % Cap /\ front \in Int
    BY <1>3, <1>4, CapFacts DEF Transfer, Slot
  <2>2. front + (left + 1) - 1 = front + left
    BY <1>5, <2>1
  <2>3. handle' = At(front, left + 1)
    BY <2>1, <2>2 DEF At
  <2>. QED
    BY <1>3, <1>5, <2>3, AtIs
<1>. QED
  BY <1>1, <1>3, <1>4, <1>8, <1>9, <1>10, <1>11 DEF E

LEMMA KeepTransfer ==
    ASSUME LogInv, Transfer
    PROVE  LogInv'
<1>1. /\ pc = "transfer" /\ left' = 0 /\ cmd' = NoCmd /\ pc' = "touch"
      /\ UNCHANGED <<front, rear, ring, lost, status, reports, wrapped, stores, value>>
  BY DEF Transfer, Reply
<1>2. /\ cmd.op = "get" /\ readOut = << >> /\ handle = front /\ front \in Slot /\ rear \in Slot
      /\ left \in 1 .. PayloadCap /\ left <= SizeOf(front, rear)
      /\ readOut' \in Seq(1 .. MaxEvents) /\ Len(readOut') = left
      /\ \A i \in 1 .. left : readOut'[i] = ring[At(front, i)]
      /\ handle' = At(front, left + 1) /\ handle' \in Slot
  BY TransferSends
<1>3. LogTypeOK'
  <2>1. cmd' \in [op : {"none", "get", "clear", "clearAll"}, number : 0 .. Cap] /\ pc' \in Places
        /\ left' \in 0 .. Cap
    BY <1>1, CapFacts DEF NoCmd, Places
  <2>. QED
    BY <1>1, <1>2, <2>1 DEF LogInv, LogTypeOK
<1>4. Pointers' /\ Resetting'
  BY <1>1, <1>2 DEF Pointers, Resetting
<1>5. Filled'
  BY <1>1 DEF LogInv, Filled
<1>6. Gone' = 0 /\ Kept' = left
  <2>1. Gone' = 0
    BY <1>1 DEF Gone, NoCmd
  <2>. QED
    BY <1>2, <2>1 DEF Kept
<1>7. Cursor'
  <2>1. front' # None /\ left \in 0 .. SizeOf(front, rear)
    BY <1>1, <1>2, CapFacts, RingShape
  <2>2. \A i \in 1 .. left : 0 + i = i
    BY <1>2
  <2>. QED
    BY <1>1, <1>2, <1>6, <2>1, <2>2 DEF Cursor
<1>8. Commands'
  BY <1>1, <1>2 DEF Commands, NoCmd
<1>. QED
  BY <1>3, <1>4, <1>5, <1>7, <1>8 DEF LogInv

LEMMA DequeueFacts ==
    ASSUME LogInv, Dequeue
    PROVE  /\ cmd.op = "clear" /\ pc = "dequeue" /\ front # None
           /\ left \in 1 .. cmd.number /\ cmd.number \in 1 .. Len(readOut) /\ Len(readOut) \in Nat
           /\ Gone = cmd.number - left /\ Gone \in Nat
           /\ Kept = Len(readOut) - Gone /\ Kept >= left /\ Kept \in 1 .. Cap - 1
<1>1. /\ pc = "dequeue" /\ cmd.op = "clear" /\ left \in 1 .. cmd.number
      /\ cmd.number \in 1 .. Len(readOut) /\ Len(readOut) \in Nat /\ Len(readOut) <= PayloadCap
  BY DEF Dequeue, LogInv, Commands, LogTypeOK
<1>2. Gone = cmd.number - left /\ Gone \in Nat /\ Kept = Len(readOut) - Gone
  BY <1>1 DEF Gone, Kept
<1>3. Kept >= left /\ Kept \in 1 .. Cap - 1
  BY <1>1, <1>2, EventLogAssumption
<1>4. front # None
  BY <1>1, <1>3 DEF LogInv, Cursor
<1>. QED
  BY <1>1, <1>2, <1>3, <1>4

\* The record that is taken out is the first one that the host has read.
LEMMA DequeueSeen ==
    ASSUME LogInv, Dequeue, front # rear
    PROVE  /\ pc' \in {"touch", "dequeue"} /\ Len(readOut') \in Nat
           /\ pc' = "touch" => cmd' = NoCmd
           /\ pc' = "dequeue" => cmd' = cmd /\ readOut' = readOut /\ left' \in 1 .. cmd.number
           /\ readOut' \in Seq(1 .. MaxEvents) /\ Len(readOut') <= Len(readOut)
           /\ Kept' = Kept - 1 /\ Gone' \in Nat
           /\ \A i \in 1 .. Kept - 1 : readOut'[Gone' + i] = readOut[Gone + (i + 1)]
<1>1. /\ left' = left - 1 /\ front' = (front + 1) % Cap
      /\ IF left = 1 THEN Cleared ELSE UNCHANGED <<pc, cmd, readOut>>
      /\ UNCHANGED <<rear, handle, ring, lost, status, reports, stores, wrapped, value>>
  BY DEF Dequeue
<1>2. /\ cmd.op = "clear" /\ pc = "dequeue" /\ front # None
      /\ left \in 1 .. cmd.number /\ cmd.number \in 1 .. Len(readOut) /\ Len(readOut) \in Nat
      /\ Gone = cmd.number - left /\ Gone \in Nat
      /\ Kept = Len(readOut) - Gone /\ Kept >= left /\ Kept \in 1 .. Cap - 1
  BY DequeueFacts
<1>0. /\ Cap \in Nat /\ left \in Nat /\ cmd.number \in Nat /\ Gone \in Nat
      /\ Kept \in Nat /\ Kept >= 1 /\ Kept <= Cap - 1
  BY <1>2, CapFacts
<1>3. CASE left = 1
  <2>1. /\ readOut' \in Seq(1 .. MaxEvents) /\ Len(readOut') = Len(readOut) - cmd.number
        /\ \A i \in 1 .. Len(readOut') : readOut'[i] = readOut[cmd.number + i]
        /\ cmd' = NoCmd /\ pc' = "touch"
    BY <1>1, <1>2, <1>3, ClearedSeen
  <2>2. Gone' = 0
    BY <2>1 DEF Gone, NoCmd
  <2>3. Kept' = Len(readOut') /\ Len(readOut') = Kept - 1 /\ Len(readOut') \in Nat
    BY <1>2, <1>3, <2>1, <2>2 DEF Kept
  <2>4. \A i \in 1 .. Kept - 1 : Gone' + i = i /\ Gone + (i + 1) = cmd.number + i
    <3>1. Gone + 1 = cmd.number
      BY <1>0, <1>2, <1>3
    <3>. QED
      BY <1>0, <2>2, <3>1
  <2>5. \A i \in 1 .. Kept - 1 : readOut'[Gone' + i] = readOut[Gone + (i + 1)]
    <3>1. \A i \in 1 .. Kept - 1 : readOut'[i] = readOut[cmd.number + i]
      BY <2>1, <2>3
    <3>. QED
      BY <2>4, <3>1
  <2>. QED
    <3>1. Kept' = Kept - 1 /\ Gone' \in Nat /\ Len(readOut') <= Len(readOut)
      <4>1. Len(readOut) \in Nat /\ Len(readOut) - cmd.number <= Len(readOut)
        BY <1>0, <1>2
      <4>. QED
        BY <2>1, <2>2, <2>3, <4>1
    <3>. QED
      BY <2>1, <2>3, <2>5, <3>1, Zenon
<1>4. CASE left # 1
  <2>1. UNCHANGED <<pc, cmd, readOut>> /\ left' \in 1 .. cmd.number
    BY <1>1, <1>2, <1>4
  <2>2. Gone' = Gone + 1 /\ Kept' = Kept - 1
    <3>1. Gone = cmd.number - left /\ left' = left - 1 /\ Gone' = cmd.number - left'
      BY <1>1, <1>2, <2>1 DEF Gone
    <3>2. Kept = Len(readOut) - Gone /\ Kept' = Len(readOut) - Gone'
      BY <2>1 DEF Kept
    <3>3. Len(readOut) \in Nat /\ cmd.number \in Nat /\ left \in Nat
      BY <1>0, <1>2
    <3>4. Gone' = Gone + 1 /\ Gone \in Int
      BY ONLY <3>1, <3>3
    <3>. QED
      BY ONLY <3>2, <3>3, <3>4
  <2>3. \A i \in 1 .. Kept - 1 : Gone' + i = Gone + (i + 1)
    BY <1>0, <2>2
  <2>4. readOut \in Seq(1 .. MaxEvents)
    BY DEF LogInv, LogTypeOK
  <2>. QED
    <3>1. \A i \in 1 .. Kept - 1 : readOut'[Gone' + i] = readOut[Gone + (i + 1)]
      BY <2>1, <2>3
    <3>. QED
      <4>1. Kept' = Kept - 1 /\ Gone' \in Nat /\ Len(readOut') <= Len(readOut) /\ Len(readOut') \in Nat
        <5>1. Len(readOut) \in Nat /\ readOut' = readOut
          BY <1>2, <2>1
        <5>2. Gone' \in Nat
          BY <1>0, <2>2
        <5>. QED
          BY <2>2, <5>1, <5>2
      <4>2. readOut' = readOut /\ cmd' = cmd /\ pc' = "dequeue"
        BY <1>2, <2>1
      <4>3. pc' # "touch"
        BY <4>2
      <4>. QED
        BY <2>1, <2>4, <3>1, <4>1, <4>2, <4>3, Zenon
<1>. QED
  BY <1>3, <1>4

\* A record is taken out and others are left.
LEMMA DequeueOne ==
    ASSUME LogInv, Dequeue, front # rear
    PROVE  LogInv'
<1>1. /\ left' = left - 1 /\ front' = (front + 1) % Cap
      /\ IF left = 1 THEN Cleared ELSE UNCHANGED <<pc, cmd, readOut>>
      /\ UNCHANGED <<rear, handle, ring, lost, status, reports, stores, wrapped, value>>
  BY DEF Dequeue
<1>2. /\ cmd.op = "clear" /\ pc = "dequeue" /\ front # None
      /\ left \in 1 .. cmd.number /\ cmd.number \in 1 .. Len(readOut) /\ Len(readOut) \in Nat
      /\ Gone = cmd.number - left /\ Gone \in Nat
      /\ Kept = Len(readOut) - Gone /\ Kept >= left /\ Kept \in 1 .. Cap - 1
  BY DequeueFacts
<1>0. /\ Cap \in Nat /\ left \in Nat /\ cmd.number \in Nat /\ Gone \in Nat
      /\ Kept \in Nat /\ Kept >= 1 /\ Kept <= Cap - 1
  BY <1>2, CapFacts
<1>3. /\ front \in Slot /\ rear \in Slot /\ handle \in Slot
      /\ \A i \in 1 .. SizeOf(front, rear) : ring[At(front, i)] \in 1 .. MaxEvents
      /\ Kept \in 0 .. SizeOf(front, rear) /\ handle = At(front, Kept + 1)
      /\ \A i \in 1 .. Kept : ring[At(front, i)] = readOut[Gone + i]
  BY <1>2, RingFacts
<1>4. /\ front' = At(front, 2) /\ front' \in Slot
      /\ \A i \in 1 .. Cap - 1 : At(front', i) = At(front, i + 1)
  BY <1>1, <1>3, StepOn
<1>5. SizeOf(front, rear) \in 2 .. Cap /\ SizeOf(front', rear) = SizeOf(front, rear) - 1
  BY <1>3, <1>4, Shrink
<1>6. /\ pc' \in {"touch", "dequeue"} /\ Len(readOut') \in Nat
      /\ pc' = "touch" => cmd' = NoCmd
      /\ pc' = "dequeue" => cmd' = cmd /\ readOut' = readOut /\ left' \in 1 .. cmd.number
      /\ readOut' \in Seq(1 .. MaxEvents) /\ Len(readOut') <= Len(readOut)
      /\ Kept' = Kept - 1 /\ Gone' \in Nat
      /\ \A i \in 1 .. Kept - 1 : readOut'[Gone' + i] = readOut[Gone + (i + 1)]
  BY DequeueSeen
<1>7. LogTypeOK'
  <2>1. cmd' \in [op : {"none", "get", "clear", "clearAll"}, number : 0 .. Cap] /\ pc' \in Places
    <3>1. cmd' = NoCmd \/ cmd' = cmd
      BY <1>6
    <3>. QED
      BY <1>6, <3>1, CapFacts DEF NoCmd, Places, LogInv, LogTypeOK
  <2>2. left' \in 0 .. Cap
    <3>1. left \in 0 .. Cap
      BY DEF LogInv, LogTypeOK
    <3>. QED
      BY <1>0, <1>1, <1>2, <3>1
  <2>. QED
    BY <1>1, <1>4, <1>6, <2>1, <2>2 DEF LogInv, LogTypeOK
<1>8. Pointers' /\ Resetting'
  BY <1>1, <1>3, <1>4, <1>6 DEF Pointers, Resetting
<1>9. Filled'
  <2>1. \A i \in 1 .. SizeOf(front, rear) - 1 :
            /\ i \in 1 .. Cap - 1 /\ i + 1 \in 1 .. SizeOf(front, rear)
    BY <1>0, <1>5
  <2>2. \A i \in 1 .. SizeOf(front, rear) - 1 : ring[At(front', i)] \in 1 .. MaxEvents
    BY <1>3, <1>4, <2>1
  <2>. QED
    BY <1>1, <1>5, <2>2 DEF Filled
<1>10. Cursor'
  <2>1. front' # None
    BY <1>4, CapFacts
  <2>2. Kept' \in 0 .. SizeOf(front', rear)
    BY <1>0, <1>3, <1>5, <1>6
  <2>3. handle' = At(front', Kept' + 1)
    <3>1. Kept' + 1 = Kept
      BY <1>2, <1>6
    <3>2. At(front', Kept) = At(front, Kept + 1)
      BY <1>2, <1>4
    <3>. QED
      BY <1>1, <1>3, <3>1, <3>2
  <2>4. \A i \in 1 .. Kept' : ring[At(front', i)] = readOut'[Gone' + i]
    <3>1. \A i \in 1 .. Kept - 1 : i \in 1 .. Cap - 1 /\ i + 1 \in 1 .. Kept
      BY <1>0
    <3>2. \A i \in 1 .. Kept - 1 : ring[At(front', i)] = readOut[Gone + (i + 1)]
      BY <1>3, <1>4, <3>1
    <3>. QED
      BY <1>6, <3>2
  <2>. QED
    BY <1>1, <2>1, <2>2, <2>3, <2>4 DEF Cursor
<1>11. Commands'
  <2>1. Len(readOut') <= PayloadCap
    BY <1>2, <1>6, EventLogAssumption DEF LogInv, Commands
  <2>2. CASE pc' = "touch"
    BY <1>6, <2>1, <2>2 DEF Commands, NoCmd
  <2>3. CASE pc' = "dequeue"
    BY <1>2, <1>6, <2>1, <2>3 DEF Commands
  <2>. QED
    BY <1>6, <2>2, <2>3
<1>. QED
  BY <1>7, <1>8, <1>9, <1>10, <1>11 DEF LogInv

\* The last record is taken out, which is the last one to clear, too.
LEMMA DequeueLast ==
    ASSUME LogInv, Dequeue, front = rear
    PROVE  LogInv'
<1>1. /\ left' = left - 1 /\ stores' = {"front", "rear", "handle"} /\ pc' = "reset"
      /\ UNCHANGED <<front, cmd, readOut, rear, handle, ring, lost, status, reports, wrapped, value>>
  BY DEF Dequeue
<1>2. /\ cmd.op = "clear" /\ pc = "dequeue" /\ front # None
      /\ left \in 1 .. cmd.number /\ cmd.number \in 1 .. Len(readOut) /\ Len(readOut) \in Nat
      /\ Gone = cmd.number - left /\ Gone \in Nat
      /\ Kept = Len(readOut) - Gone /\ Kept >= left /\ Kept \in 1 .. Cap - 1
  BY DequeueFacts
<1>3. /\ front \in Slot /\ rear \in Slot
      /\ Kept \in 0 .. SizeOf(front, rear)
      /\ \A i \in 1 .. Kept : ring[At(front, i)] = readOut[Gone + i]
  BY <1>2, RingFacts
<1>4. SizeOf(front, rear) = 1 /\ At(front, 1) = front
  BY <1>3, RingShape, StepOn
<1>5. Kept = 1 /\ left = 1 /\ cmd.number = Len(readOut)
  <2>1. Kept \in 0 .. 1
    BY <1>3, <1>4
  <2>2. /\ left \in Nat /\ left >= 1 /\ Kept >= left /\ Kept = Len(readOut) - Gone
        /\ Gone = cmd.number - left /\ cmd.number \in Nat /\ Len(readOut) \in Nat
    BY <1>2
  <2>. QED
    BY ONLY <2>1, <2>2
<1>6. ring[front] = readOut[Gone + 1] /\ Gone + 1 \in 1 .. Len(readOut)
  BY <1>2, <1>3, <1>4, <1>5
<1>7. ring[front] \in Elements(readOut)
  <2>1. DOMAIN readOut = 1 .. Len(readOut)
    BY DEF LogInv, LogTypeOK
  <2>. QED
    BY <1>6, <2>1 DEF Elements
<1>8. LogTypeOK'
  <2>1. left' \in 0 .. Cap /\ pc' \in Places
    BY <1>1, <1>5, CapFacts DEF Places
  <2>. QED
    BY <1>1, <2>1 DEF LogInv, LogTypeOK
<1>9. Pointers' /\ Cursor'
  BY <1>1 DEF Pointers, Cursor
<1>10. Filled'
  BY <1>1 DEF LogInv, Filled
<1>11. Commands'
  BY <1>1, <1>2 DEF LogInv, Commands
<1>12. Elements(readOut') = Elements(readOut)
  BY <1>1 DEF Elements
<1>13. Resetting'
  BY <1>1, <1>2, <1>5, <1>7, <1>12 DEF Resetting
<1>. QED
  BY <1>8, <1>9, <1>10, <1>11, <1>13 DEF LogInv

-----------------------------------------------------------------------------
(* The interrupt.                                                          *)

\* Every report is in the ring or counted as lost, so that neither number
\* leaves its range.
Counted == lost \in Nat /\ reports \in 0 .. MaxEvents /\ lost <= reports

LEMMA KeepCounted ==
    ASSUME Counted, [LogNext]_logVars
    PROVE  Counted'
<1>1. CASE ErrorReport
  <2>1. reports' = reports + 1 /\ reports < MaxEvents /\ (lost' = lost + 1 \/ lost' = lost)
    BY <1>1 DEF ErrorReport
  <2>. QED
    BY <2>1, EventLogAssumption DEF Counted
<1>2. CASE ~ErrorReport
  <2>1. lost' = lost /\ reports' = reports
    <3>1. CASE BeginGet \/ SizeOfGet \/ Transfer
      BY <3>1 DEF BeginGet, SizeOfGet, Transfer, log
    <3>2. CASE BeginClear \/ SizeOfClear \/ Dequeue \/ UnsetStatus
      BY <3>2 DEF BeginClear, SizeOfClear, StartClear, Dequeue, UnsetStatus, log
    <3>3. CASE (\E s \in stores : Reset(s)) \/ ReadStatus \/ WriteStatus
      BY <3>3 DEF Reset, ReadStatus, WriteStatus, log
    <3>4. CASE PostGet \/ (\E n \in 1 .. Cap : PostClear(n)) \/ (\E n \in 0 .. Cap : PostClearAll(n))
      BY <3>4 DEF PostGet, PostClear, PostClearAll, Post, log
    <3>5. CASE UNCHANGED logVars
      BY <3>5 DEF logVars
    <3>. QED
      BY <1>2, <3>1, <3>2, <3>3, <3>4, <3>5 DEF LogNext, MainLoop, Service
  <2>. QED
    BY <2>1 DEF Counted
<1>. QED
  BY <1>1, <1>2

\* The places an interrupt comes to, and what it leaves alone there.
LEMMA ReportFacts ==
    ASSUME LogInv, Counted, SafeInterrupts, ErrorReport
    PROVE  /\ pc # "reset"
           /\ reports + 1 \in 1 .. MaxEvents /\ reports' = reports + 1
           /\ UNCHANGED <<pc, cmd, wrapped, left, stores, value, readOut>>
           /\ Gone' = Gone /\ Kept' = Kept
           /\ lost' \in 0 .. MaxEvents /\ reports' \in 0 .. MaxEvents
<1>1. /\ pc \in InterruptAt /\ reports < MaxEvents /\ reports' = reports + 1
      /\ UNCHANGED <<pc, cmd, wrapped, left, stores, value, readOut>>
      /\ lost' = lost + 1 \/ lost' = lost
  BY DEF ErrorReport
<1>2. pc # "reset"
  BY <1>1 DEF SafeInterrupts
<1>3. Gone' = Gone
  BY <1>1 DEF Gone
<1>4. Kept' = Kept
  BY <1>1, <1>3 DEF Kept
<1>5. reports + 1 \in 1 .. MaxEvents /\ lost' \in 0 .. MaxEvents /\ reports' \in 0 .. MaxEvents
  BY <1>1, EventLogAssumption DEF Counted
<1>. QED
  BY <1>1, <1>2, <1>3, <1>4, <1>5

\* A ring that is full stays as it is.
LEMMA ReportLost ==
    ASSUME LogInv, Counted, SafeInterrupts, ErrorReport, IsFull
    PROVE  LogInv'
<1>1. /\ pc # "reset" /\ Gone' = Gone
      /\ UNCHANGED <<pc, cmd, wrapped, left, stores, value, readOut>>
      /\ lost' \in 0 .. MaxEvents /\ reports' \in 0 .. MaxEvents
  BY ReportFacts
<1>2. UNCHANGED <<front, rear, handle, ring, status>>
  BY DEF ErrorReport
<1>3. LogTypeOK'
  BY <1>1, <1>2 DEF LogInv, LogTypeOK
<1>4. Pointers' /\ Filled' /\ Cursor' /\ Resetting'
  BY <1>1, <1>2, KeepRing
<1>5. Commands'
  BY <1>1, <1>2 DEF LogInv, Commands
<1>. QED
  BY <1>3, <1>4, <1>5 DEF LogInv

\* The first record makes a ring of size one.
LEMMA ReportFirst ==
    ASSUME LogInv, Counted, SafeInterrupts, ErrorReport, ~IsFull, front = None
    PROVE  /\ LogInv'
           /\ front' = 0 /\ rear' = 0 /\ handle' = 0 /\ ring' = [ring EXCEPT ![0] = reports + 1]
           /\ UNCHANGED lost
<1>1. /\ pc # "reset" /\ Gone' = Gone /\ Kept' = Kept
      /\ reports + 1 \in 1 .. MaxEvents
      /\ UNCHANGED <<pc, cmd, wrapped, left, stores, value, readOut>>
      /\ lost' \in 0 .. MaxEvents /\ reports' \in 0 .. MaxEvents
  BY ReportFacts
<1>2. IsEmpty
  BY <1>1, RingOrNot
<1>3. /\ front' = 0 /\ rear' = 0 /\ handle' = 0 /\ status' = TRUE /\ UNCHANGED lost
      /\ ring' = [ring EXCEPT ![0] = reports + 1]
  BY <1>2 DEF ErrorReport, Enqueue, SetDevStatus
<1>4. Kept = 0
  BY <1>1 DEF LogInv, Cursor
<1>5. pc \notin {"getSize", "transfer", "clearSize", "dequeue"}
  <2>1. pc \notin {"getSize", "transfer", "clearSize"}
    BY DEF LogInv, Commands
  <2>2. ASSUME pc = "dequeue" PROVE FALSE
    <3>1. /\ cmd.op = "clear" /\ left \in 1 .. cmd.number
          /\ cmd.number \in 1 .. Len(readOut) /\ Len(readOut) \in Nat
      BY <2>2 DEF LogInv, Commands, LogTypeOK
    <3>2. Kept = Len(readOut) - (cmd.number - left)
      BY <2>2, <3>1 DEF Kept, Gone
    <3>. QED
      BY <1>4, <3>1, <3>2
  <2>. QED
    BY <2>1, <2>2
<1>6. ring \in [Slot -> 0 .. MaxEvents] /\ 0 \in Slot /\ 0 # None
  BY CapFacts DEF LogInv, LogTypeOK
<1>7. ring' \in [Slot -> 0 .. MaxEvents] /\ ring'[0] = reports + 1
  <2>1. reports + 1 \in 0 .. MaxEvents
    BY <1>1
  <2>. QED
    BY <1>3, <1>6, <2>1
<1>8. SizeOf(0, 0) = 1 /\ At(0, 1) = 0
  BY <1>6, RingShape, StepOn
<1>9. LogTypeOK'
  BY <1>1, <1>3, <1>6, <1>7 DEF LogInv, LogTypeOK
<1>10. Pointers' /\ Resetting'
  BY <1>1, <1>3, <1>6 DEF Pointers, Resetting
<1>11. Filled'
  <2>1. \A i \in 1 .. 1 : i = 1
    OBVIOUS
  <2>. QED
    BY <1>1, <1>3, <1>7, <1>8, <2>1 DEF Filled
<1>12. Cursor'
  <2>1. Kept' = 0 /\ Kept' + 1 = 1
    BY <1>1, <1>4
  <2>. QED
    BY <1>3, <1>6, <1>8, <2>1 DEF Cursor
<1>13. Commands'
  BY <1>1, <1>5 DEF LogInv, Commands
<1>. QED
  BY <1>3, <1>9, <1>10, <1>11, <1>12, <1>13 DEF LogInv

\* A further record goes behind the others.
LEMMA ReportNext ==
    ASSUME LogInv, Counted, SafeInterrupts, ErrorReport, ~IsFull, front # None
    PROVE  /\ LogInv'
           /\ front' = front /\ handle' = handle /\ UNCHANGED lost
           /\ rear' = (rear + 1) % Cap /\ rear' # front /\ rear' \in Slot
           /\ ring' = [ring EXCEPT ![rear'] = reports + 1]
           /\ ring \in [Slot -> 0 .. MaxEvents] /\ ring' \in [Slot -> 0 .. MaxEvents]
           /\ reports + 1 \in 0 .. MaxEvents
<1>1. /\ pc # "reset" /\ Gone' = Gone /\ Kept' = Kept
      /\ reports + 1 \in 1 .. MaxEvents
      /\ UNCHANGED <<pc, cmd, wrapped, left, stores, value, readOut>>
      /\ lost' \in 0 .. MaxEvents /\ reports' \in 0 .. MaxEvents
  BY ReportFacts
<1>2. ~IsEmpty
  BY DEF IsEmpty
<1>3. /\ rear' = (rear + 1) % Cap /\ ring' = [ring EXCEPT ![rear'] = reports + 1]
      /\ UNCHANGED <<front, handle, status, lost>> /\ rear' # front
  BY <1>2 DEF ErrorReport, Enqueue, NextSlot, IsFull
<1>4. /\ front \in Slot /\ rear \in Slot /\ handle \in Slot
      /\ \A i \in 1 .. SizeOf(front, rear) : ring[At(front, i)] \in 1 .. MaxEvents
      /\ Kept \in 0 .. SizeOf(front, rear) /\ handle = At(front, Kept + 1)
      /\ \A i \in 1 .. Kept : ring[At(front, i)] = readOut[Gone + i]
  BY <1>1, RingFacts
<1>. DEFINE n == SizeOf(front, rear)
<1>5. /\ n \in 1 .. Cap - 1 /\ rear' \in Slot /\ SizeOf(front, rear') = n + 1 /\ Cap \in Nat
  BY <1>3, <1>4, Grow, CapFacts
<1>6. ring \in [Slot -> 0 .. MaxEvents] /\ reports + 1 \in 0 .. MaxEvents
  BY <1>1 DEF LogInv, LogTypeOK
<1>7. ring' \in [Slot -> 0 .. MaxEvents]
  BY <1>3, <1>5, <1>6
<1>8. /\ \A i \in 1 .. n : ring'[At(front, i)] = ring[At(front, i)]
      /\ ring'[At(front, n + 1)] = reports + 1
  <2>1. rear' = At(front, n + 1)
    BY <1>3, <1>4, Grow
  <2>2. ring'[rear'] = reports + 1
    BY <1>3, <1>5, <1>6
  <2>3. ASSUME NEW i \in 1 .. n
        PROVE  ring'[At(front, i)] = ring[At(front, i)]
    <3>1. i \in 1 .. Cap /\ n + 1 \in 1 .. Cap /\ i # n + 1
      BY <1>5
    <3>2. At(front, i) \in Slot /\ At(front, i) # rear'
      BY <1>4, <2>1, <3>1, AtIs, SlotsDiffer
    <3>. QED
      BY <1>3, <1>6, <3>2
  <2>. QED
    BY <2>1, <2>2, <2>3
<1>. HIDE DEF n
<1>9. LogTypeOK'
  BY <1>1, <1>3, <1>5, <1>7 DEF LogInv, LogTypeOK
<1>10. Pointers' /\ Resetting'
  BY <1>1, <1>3, <1>4, <1>5 DEF Pointers, Resetting
<1>11. Filled'
  <2>1. \A i \in 1 .. n + 1 : i \in 1 .. n \/ i = n + 1
    BY <1>5
  <2>2. \A i \in 1 .. n + 1 : ring'[At(front, i)] \in 1 .. MaxEvents
    BY <1>1, <1>4, <1>8, <2>1 DEF n
  <2>. QED
    BY <1>3, <1>5, <2>2 DEF Filled
<1>12. Cursor'
  <2>1. Kept \in 0 .. n + 1 /\ \A i \in 1 .. Kept : i \in 1 .. n
    BY <1>4, <1>5 DEF n
  <2>2. \A i \in 1 .. Kept : ring'[At(front, i)] = readOut[Gone + i]
    BY <1>4, <1>8, <2>1
  <2>. QED
    BY <1>1, <1>3, <1>4, <1>5, <2>1, <2>2 DEF Cursor
<1>13. Commands'
  <2>1. pc \in {"getSize", "clearSize"} /\ wrapped => front > rear'
    <3>1. pc \in {"getSize", "clearSize"} /\ wrapped => front > rear
      BY DEF LogInv, Commands
    <3>2. rear' = IF rear + 1 < Cap THEN rear + 1 ELSE rear + 1 - Cap
      BY <1>3, <1>4, NextIs
    <3>. QED
      BY <1>3, <1>4, <1>5, <3>1, <3>2 DEF Slot
  <2>2. pc = "transfer" => left \in 1 .. PayloadCap /\ left <= n + 1
    BY <1>5 DEF LogInv, Commands, n
  <2>. QED
    BY <1>1, <1>3, <1>5, <2>1, <2>2 DEF LogInv, Commands
<1>. QED
  BY <1>3, <1>5, <1>6, <1>7, <1>9, <1>10, <1>11, <1>12, <1>13 DEF LogInv

LEMMA KeepReport ==
    ASSUME LogInv, Counted, SafeInterrupts, ErrorReport
    PROVE  LogInv'
BY ReportLost, ReportFirst, ReportNext

LEMMA KeepInv ==
    ASSUME LogInv, Counted, SafeInterrupts, OrderlyHost, [LogNext]_logVars
    PROVE  LogInv'
<1>1. CASE ErrorReport
  BY <1>1, KeepReport
<1>2. CASE (BeginGet \/ BeginClear) /\ ~StartReset
  BY <1>2, KeepBegin
<1>3. CASE SizeOfGet
  BY <1>3, KeepSizeOfGet
<1>4. CASE Transfer
  BY <1>4, KeepTransfer
<1>5. CASE SizeOfClear /\ ~StartReset
  BY <1>5, KeepSizeOfClear
<1>6. CASE Dequeue
  BY <1>6, DequeueOne, DequeueLast
<1>7. CASE UnsetStatus
  BY <1>7, KeepUnset
<1>8. CASE StartReset
  BY <1>8, KeepStartReset
<1>9. CASE \E s \in stores : Reset(s)
  BY <1>9, KeepReset
<1>10. CASE ReadStatus \/ WriteStatus
  BY <1>10, KeepTouch
<1>11. CASE PostGet \/ (\E n \in 1 .. Cap : PostClear(n)) \/ (\E n \in 0 .. Cap : PostClearAll(n))
  BY <1>11, KeepPost
<1>12. CASE UNCHANGED logVars
  <2>. USE <1>12 DEF logVars, LogInv
  <2>1. LogTypeOK'
    BY DEF LogTypeOK
  <2>2. Gone' = Gone /\ Kept' = Kept
    BY DEF Gone, Kept
  <2>3. Elements(readOut') = Elements(readOut)
    BY DEF Elements
  <2>4. Pointers' /\ Filled'
    BY DEF Pointers, Filled
  <2>5. Cursor'
    BY <2>2 DEF Cursor
  <2>6. Commands'
    BY DEF Commands
  <2>7. Resetting'
    BY <2>3 DEF Resetting
  <2>. QED
    BY <2>1, <2>4, <2>5, <2>6, <2>7
<1>. QED
  BY <1>1, <1>2, <1>3, <1>4, <1>5, <1>6, <1>7, <1>8, <1>9, <1>10, <1>11, <1>12
  DEF LogNext, MainLoop, Service

LEMMA InvHolds ==
    ASSUME SafeInterrupts, OrderlyHost
    PROVE  LogSpec => [](LogInv /\ Counted)
<1>1. LogInit => LogInv /\ Counted
  BY InitInv, EventLogAssumption DEF LogInit, Counted
<1>2. LogInv /\ Counted /\ [LogNext]_logVars => (LogInv /\ Counted)'
  BY KeepInv, KeepCounted
<1>. QED
  BY <1>1, <1>2, PTL DEF LogSpec

-----------------------------------------------------------------------------
(* Theorems.                                                               *)

\* No slot outside of the ring is written, no number leaves its range, and
\* handle_index and the two ends of the ring are positions or all -1.
THEOREM LogTypeInvariant ==
    ASSUME SafeInterrupts, OrderlyHost
    PROVE  LogSpec => []LogTypeOK
<1>1. LogInv => LogTypeOK
  BY DEF LogInv
<1>. QED
  BY <1>1, InvHolds, PTL

\* Clearing by number takes out what the host has read: when no command is
\* under way, the records read and not cleared are the first ones of the ring,
\* and handle_index stands behind them.
THEOREM HostAndRingAgree ==
    ASSUME SafeInterrupts, OrderlyHost
    PROVE  LogSpec => []SeenIsFront
<1>1. ASSUME LogInv
      PROVE  SeenIsFront
  <2>. SUFFICES ASSUME pc = "idle"
                PROVE  /\ Len(readOut) <= Len(Records)
                       /\ \A i \in DOMAIN readOut : readOut[i] = Records[i]
                       /\ Records # << >> => handle = (front + Len(readOut)) % Cap
    BY DEF SeenIsFront
  <2>1. Gone = 0 /\ readOut \in Seq(1 .. MaxEvents) /\ Len(readOut) \in Nat /\ DOMAIN readOut = 1 .. Len(readOut)
    BY <1>1 DEF Gone, LogInv, LogTypeOK
  <2>2. Kept = Len(readOut)
    BY <2>1 DEF Kept
  <2>3. CASE front = None
    <3>1. Records = << >> /\ Len(readOut) = 0
      BY <1>1, <2>2, <2>3 DEF Records, LogInv, Cursor
    <3>. QED
      BY <2>1, <3>1
  <2>4. CASE front # None
    <3>1. /\ front \in Slot /\ rear \in Slot
          /\ Kept \in 0 .. SizeOf(front, rear) /\ handle = At(front, Kept + 1)
          /\ \A i \in 1 .. Kept : ring[At(front, i)] = readOut[Gone + i]
          /\ SizeOf(front, rear) \in 1 .. Cap
      BY <1>1, <2>4, RingFacts
    <3>2. Records = RecordsFrom(front, rear, ring)
      BY <3>1, RecordsAre
    <3>3. ring \in [Slot -> 0 .. MaxEvents]
      BY <1>1 DEF LogInv, LogTypeOK
    <3>4. Len(Records) = SizeOf(front, rear)
      BY <3>1, <3>2, <3>3, RecordsShape DEF Report
    <3>5. \A i \in 1 .. SizeOf(front, rear) : Records[i] = ring[At(front, i)]
      BY <3>1, <3>2, <3>3, RecordsShape DEF Report
    <3>6. \A i \in 1 .. Len(readOut) : Gone + i = i /\ i \in 1 .. SizeOf(front, rear)
      BY <2>1, <2>2, <3>1
    <3>7. handle = (front + Len(readOut)) % Cap
      <4>1. front + (Len(readOut) + 1) - 1 = front + Len(readOut)
        BY <2>1, <3>1, CapFacts DEF Slot
      <4>. QED
        BY <2>2, <3>1, <4>1 DEF At
    <3>. QED
      BY <2>1, <2>2, <3>1, <3>4, <3>5, <3>6, <3>7
  <2>. QED
    BY <2>3, <2>4
<1>. QED
  BY <1>1, InvHolds, PTL

-----------------------------------------------------------------------------
(* What a step does to the records.                                        *)

\* Steps that leave the ring alone.
Quiet == BeginGet \/ SizeOfGet \/ ((BeginClear \/ SizeOfClear) /\ ~StartReset) \/ UnsetStatus
             \/ ReadStatus \/ WriteStatus \/ Service \/ (\E n \in 0 .. Cap : PostClearAll(n)) \/ UNCHANGED logVars

LEMMA KindsOfSteps ==
    ASSUME [LogNext]_logVars
    PROVE  \/ Quiet \/ Transfer \/ Dequeue \/ StartReset \/ ErrorReport
           \/ \E s \in stores : Reset(s)
BY DEF LogNext, MainLoop, Quiet

LEMMA QuietKeeps ==
    ASSUME LogInv, Quiet
    PROVE  /\ UNCHANGED <<front, rear, handle, ring, lost>> /\ UNCHANGED Records
           /\ (pc # "reset" /\ pc' # "reset") \/ UNCHANGED pc
<1>1. CASE BeginGet \/ SizeOfGet
  BY <1>1 DEF BeginGet, SizeOfGet, StartSize, Reply, log, Records
<1>2. CASE (BeginClear \/ SizeOfClear) /\ ~StartReset
  <2>1. pc \in {"idle", "clearSize"}
    BY <1>2 DEF BeginClear, SizeOfClear
  <2>. QED
    BY <1>2, <2>1, ClearSteps DEF Reply, Records
<1>3. CASE UnsetStatus
  BY <1>3 DEF UnsetStatus, Cleared, Reply, log, Records
<1>4. CASE ReadStatus \/ WriteStatus
  BY <1>4 DEF ReadStatus, WriteStatus, log, Records
<1>5. CASE Service \/ (\E n \in 0 .. Cap : PostClearAll(n))
  BY <1>5 DEF Service, PostGet, PostClear, PostClearAll, Post, log, Records
<1>6. CASE UNCHANGED logVars
  BY <1>6 DEF logVars, Records
<1>. QED
  BY <1>1, <1>2, <1>3, <1>4, <1>5, <1>6 DEF Quiet

\* The records of a ring that is there.
LEMMA RecordsFacts ==
    ASSUME LogInv, front \in Slot, rear \in Slot
    PROVE  /\ Records = RecordsFrom(front, rear, ring) /\ ring \in [Slot -> 0 .. MaxEvents]
           /\ Records \in Seq(0 .. MaxEvents) /\ Len(Records) = SizeOf(front, rear)
           /\ DOMAIN Records = 1 .. SizeOf(front, rear)
           /\ \A i \in 1 .. SizeOf(front, rear) : Records[i] = ring[At(front, i)]
<1>1. Records = RecordsFrom(front, rear, ring)
  BY RecordsAre
<1>2. ring \in [Slot -> 0 .. MaxEvents]
  BY DEF LogInv, LogTypeOK
<1>3. /\ Records \in Seq(0 .. MaxEvents) /\ Len(Records) = SizeOf(front, rear)
      /\ DOMAIN Records = 1 .. SizeOf(front, rear)
  BY <1>1, <1>2, RecordsShape DEF Report
<1>4. \A i \in 1 .. SizeOf(front, rear) : Records[i] = ring[At(front, i)]
  BY <1>1, <1>2, RecordsShape DEF Report
<1>. QED
  BY <1>1, <1>2, <1>3, <1>4

\* A report is the last record afterwards, unless the ring is full.
LEMMA ReportAppends ==
    ASSUME LogInv, Counted, SafeInterrupts, ErrorReport, ~IsFull
    PROVE  /\ Records \in Seq(0 .. MaxEvents) /\ Len(Records) < Cap
           /\ reports + 1 \in 0 .. MaxEvents
           /\ Records' = Append(Records, reports + 1)
<1>1. Cap \in Nat /\ Cap > 1 /\ None \notin Slot /\ 0 \in Slot
  BY CapFacts
<1>2. CASE front = None
  <2>1. /\ front' = 0 /\ rear' = 0 /\ ring' = [ring EXCEPT ![0] = reports + 1]
    BY <1>2, ReportFirst
  <2>2. Records = << >>
    BY <1>2 DEF Records
  <2>3. reports + 1 \in 1 .. MaxEvents
    BY ReportFacts
  <2>4. ring \in [Slot -> 0 .. MaxEvents]
    BY DEF LogInv, LogTypeOK
  <2>5. Records' = RecordsFrom(0, 0, ring')
    BY <1>1, <2>1, RecordsAre
  <2>6. SizeOf(0, 0) = 1 /\ At(0, 1) = 0 /\ ring'[0] = reports + 1
    BY <1>1, <2>1, <2>4, RingShape, StepOn
  <2>7. Records' = [i \in 1 .. 1 |-> ring'[At(0, i)]]
    BY <2>5, <2>6 DEF RecordsFrom
  <2>8. Records' = <<reports + 1>>
    BY <2>6, <2>7
  <2>. QED
    BY <1>1, <2>2, <2>3, <2>8
<1>3. CASE front # None
  <2>1. /\ front' = front /\ rear' = (rear + 1) % Cap /\ rear' # front /\ rear' \in Slot
        /\ ring' = [ring EXCEPT ![rear'] = reports + 1]
        /\ ring \in [Slot -> 0 .. MaxEvents] /\ ring' \in [Slot -> 0 .. MaxEvents]
        /\ reports + 1 \in 0 .. MaxEvents
    BY <1>3, ReportNext
  <2>2. front \in Slot /\ rear \in Slot
    BY <1>3, ReportFacts, RingFacts
  <2>3. Records = RecordsFrom(front, rear, ring) /\ Records' = RecordsFrom(front, rear', ring')
    BY <2>1, <2>2, RecordsAre
  <2>4. Records' = Append(Records, reports + 1)
    <3>1. ring \in [Slot -> Report] /\ ring' \in [Slot -> Report] /\ reports + 1 \in Report
      BY <2>1 DEF Report
    <3>2. RecordsFrom(front, rear', ring') = Append(RecordsFrom(front, rear, ring), reports + 1)
      BY <2>1, <2>2, <3>1, GrowRecords
    <3>. QED
      BY <2>3, <3>2
  <2>5. Records \in Seq(0 .. MaxEvents) /\ Len(Records) = SizeOf(front, rear)
    BY <2>2, RecordsFacts
  <2>6. SizeOf(front, rear) \in 1 .. Cap - 1
    BY <2>1, <2>2, Grow
  <2>. QED
    BY <1>1, <2>1, <2>4, <2>5, <2>6
<1>. QED
  BY <1>2, <1>3

\* dequeue takes the first record out, and if it is the last one too, leaves
\* that to the reset.
LEMMA DequeueTakes ==
    ASSUME LogInv, Dequeue
    PROVE  /\ front \in Slot /\ rear \in Slot
           /\ ring[front] \in Elements(readOut) /\ Records[1] = ring[front]
           /\ front # rear => Records' = Tail(Records)
           /\ front = rear => Records' = Records
<1>1. /\ pc = "dequeue" /\ front # None /\ Gone \in Nat /\ Kept = Len(readOut) - Gone
      /\ Kept \in 1 .. Cap - 1 /\ Len(readOut) \in Nat
  BY DequeueFacts
<1>2. /\ front \in Slot /\ rear \in Slot /\ SizeOf(front, rear) \in 1 .. Cap
      /\ \A i \in 1 .. Kept : ring[At(front, i)] = readOut[Gone + i]
  BY <1>1, RingFacts
<1>3. At(front, 1) = front /\ 1 \in 1 .. SizeOf(front, rear) /\ 1 \in 1 .. Kept
  BY <1>1, <1>2, StepOn, CapFacts
<1>4. Records[1] = ring[front]
  BY <1>2, <1>3, RecordsFacts
<1>5. ring[front] = readOut[Gone + 1]
  BY <1>2, <1>3
<1>6. Gone + 1 \in DOMAIN readOut
  <2>1. DOMAIN readOut = 1 .. Len(readOut)
    BY DEF LogInv, LogTypeOK
  <2>. QED
    BY <1>1, <2>1, CapFacts
<1>7. ring[front] \in Elements(readOut)
  BY <1>5, <1>6 DEF Elements
<1>8. ASSUME front # rear PROVE Records' = Tail(Records)
  <2>1. rear' = rear /\ ring' = ring /\ front' = (front + 1) % Cap
    BY <1>8 DEF Dequeue
  <2>2. front' = At(front, 2) /\ front' \in Slot
    BY <1>2, <2>1, StepOn
  <2>3. Records = RecordsFrom(front, rear, ring) /\ Records' = RecordsFrom(front', rear, ring)
    BY <1>2, <2>1, <2>2, RecordsAre
  <2>4. ring \in [Slot -> 0 .. MaxEvents]
    BY DEF LogInv, LogTypeOK
  <2>. QED
    <3>1. ring \in [Slot -> Report]
      BY <2>4 DEF Report
    <3>2. RecordsFrom(front', rear, ring) = Tail(RecordsFrom(front, rear, ring))
      BY <1>2, <1>8, <2>2, <3>1, ShrinkRecords
    <3>. QED
      BY <2>3, <3>2
<1>9. ASSUME front = rear PROVE Records' = Records
  BY <1>9 DEF Dequeue, Records
<1>. QED
  BY <1>2, <1>4, <1>7, <1>8, <1>9

\* While the ring is being reset, only the record that is taken out may still
\* be in it.
LEMMA ResetLeaves ==
    ASSUME LogInv, pc = "reset", cmd.op = "clear"
    PROVE  Elements(Records) \subseteq Elements(readOut)
<1>1. CASE front \in Slot /\ rear \in Slot
  <2>1. front = rear /\ ring[front] \in Elements(readOut)
    BY <1>1 DEF LogInv, Resetting
  <2>2. SizeOf(front, rear) = 1 /\ At(front, 1) = front
    BY <1>1, <2>1, RingShape, StepOn
  <2>3. \A i \in DOMAIN Records : i = 1
    BY <1>1, <2>2, RecordsFacts
  <2>4. DOMAIN Records = 1 .. 1 /\ Records[1] = ring[front]
    BY <1>1, <2>2, RecordsFacts
  <2>. QED
    BY <2>1, <2>3, <2>4 DEF Elements
<1>2. CASE front = None \/ rear = None
  <2>1. Records = << >>
    BY <1>2 DEF Records
  <2>2. \A i : i \notin DOMAIN Records
    BY <2>1
  <2>. QED
    BY <2>2 DEF Elements
<1>. QED
  BY <1>1, <1>2 DEF LogInv, LogTypeOK

LEMMA StepKeepsRecords ==
    ASSUME LogInv, Counted, SafeInterrupts, [LogNext]_logVars
    PROVE  cmd.op = "clearAll" \/ Elements(Records) \ Elements(Records') \subseteq Elements(readOut)
<1>1. ASSUME Records' = Records
      PROVE  Elements(Records) \ Elements(Records') \subseteq Elements(readOut)
  BY <1>1 DEF Elements
<1>2. CASE Quiet
  BY <1>1, <1>2, QuietKeeps
<1>3. CASE Transfer \/ StartReset
  BY <1>1, <1>3 DEF Transfer, StartReset, log, Records
<1>4. CASE Dequeue
  <2>1. CASE front = rear
    BY <1>1, <1>4, <2>1, DequeueTakes
  <2>2. CASE front # rear
    <3>1. /\ front \in Slot /\ rear \in Slot /\ Records' = Tail(Records)
          /\ Records[1] \in Elements(readOut)
      BY <1>4, <2>2, DequeueTakes
    <3>2. /\ Records \in Seq(0 .. MaxEvents) /\ Len(Records) = SizeOf(front, rear)
          /\ DOMAIN Records = 1 .. SizeOf(front, rear)
      BY <3>1, RecordsFacts
    <3>3. Len(Records) \in 1 .. Cap /\ Cap \in Nat
      BY <3>1, <3>2, RingShape, CapFacts
    <3>4. Records # << >>
      BY <3>2, <3>3
    <3>5. /\ Tail(Records) \in Seq(0 .. MaxEvents) /\ Len(Tail(Records)) = Len(Records) - 1
          /\ \A i \in 1 .. Len(Tail(Records)) : Tail(Records)[i] = Records[i + 1]
      BY <3>2, <3>4, HeadTailProperties
    <3>6. ASSUME NEW i \in DOMAIN Records, i # 1
          PROVE  Records[i] \in Elements(Records')
      <4>1. i - 1 \in 1 .. Len(Tail(Records)) /\ (i - 1) + 1 = i
        BY <3>2, <3>3, <3>5, <3>6
      <4>2. i - 1 \in DOMAIN Tail(Records) /\ Tail(Records)[i - 1] = Records[i]
        BY <3>5, <4>1
      <4>. QED
        BY <3>1, <4>2 DEF Elements
    <3>. QED
      BY <3>1, <3>6 DEF Elements
  <2>. QED
    BY <2>1, <2>2
<1>5. CASE ErrorReport
  <2>1. CASE IsFull
    BY <1>1, <1>5, <2>1 DEF ErrorReport, Records
  <2>2. CASE ~IsFull
    <3>1. /\ Records \in Seq(0 .. MaxEvents) /\ reports + 1 \in 0 .. MaxEvents
          /\ Records' = Append(Records, reports + 1)
      BY <1>5, <2>2, ReportAppends
    <3>2. /\ Append(Records, reports + 1) \in Seq(0 .. MaxEvents)
          /\ Len(Append(Records, reports + 1)) = Len(Records) + 1
          /\ \A i \in 1 .. Len(Records) : Append(Records, reports + 1)[i] = Records[i]
      BY <3>1, AppendProperties
    <3>3. \A i \in DOMAIN Records : i \in DOMAIN Records' /\ Records'[i] = Records[i]
      BY <3>1, <3>2
    <3>. QED
      BY <3>3 DEF Elements
  <2>. QED
    BY <2>1, <2>2
<1>6. CASE \E s \in stores : Reset(s)
  <2>1. pc = "reset"
    BY <1>6 DEF Reset
  <2>2. cmd.op \in {"clear", "clearAll"}
    BY <2>1 DEF LogInv, Resetting
  <2>. QED
    BY <2>1, <2>2, ResetLeaves
<1>. QED
  BY <1>2, <1>3, <1>4, <1>5, <1>6, KindsOfSteps

\* An event that is in the log stays there until the host has read and cleared
\* it or clears everything, whatever interrupts come in between.
THEOREM EventsStay ==
    ASSUME SafeInterrupts, OrderlyHost
    PROVE  LogSpec => NothingVanishes
<1>1. LogInv /\ Counted /\ [LogNext]_logVars =>
          [cmd.op = "clearAll" \/ Elements(Records) \ Elements(Records') \subseteq Elements(readOut)]_logVars
  BY StepKeepsRecords
<1>. QED
  BY <1>1, InvHolds, PTL DEF LogSpec, NothingVanishes

-----------------------------------------------------------------------------
(* The log is a bounded queue.                                             *)

Pending == IF pc = "reset" THEN << >> ELSE Records
ReadCount == IF pc = "reset" \/ IsEmpty THEN 0 ELSE RelativeIndex

LEMMA Distance ==
    ASSUME NEW f \in Slot, NEW k \in 0 .. Cap - 1
    PROVE  (At(f, k + 1) - f + Cap) % Cap = k
<1>1. Cap \in Nat /\ Cap > 1 /\ f \in 0 .. Cap - 1
  BY CapFacts DEF Slot
<1>2. k + 1 \in 1 .. Cap
  BY <1>1
<1>3. At(f, k + 1) = IF f + (k + 1) - 1 < Cap THEN f + (k + 1) - 1 ELSE f + (k + 1) - 1 - Cap
  BY <1>2, AtIs
<1>. DEFINE n == At(f, k + 1) - f + Cap
<1>4. n \in 0 .. 2 * Cap - 1 /\ n = IF f + k < Cap THEN k + Cap ELSE k
  BY <1>1, <1>3
<1>5. n % Cap = IF n < Cap THEN n ELSE n - Cap
  <2>. HIDE DEF n
  <2>. QED
    BY <1>4, GoAround
<1>6. (IF n < Cap THEN n ELSE n - Cap) = k
  <2>. HIDE DEF n
  <2>. QED
    BY <1>1, <1>4
<1>. QED
  BY <1>5, <1>6

\* The read cursor of the queue is what the host has read and is still there.
LEMMA ReadIsKept ==
    LogInv => /\ ReadCount = IF pc = "reset" THEN 0 ELSE Kept
              /\ pc # "reset" => Kept \in Nat
<1>. SUFFICES ASSUME LogInv
              PROVE  /\ ReadCount = IF pc = "reset" THEN 0 ELSE Kept
                     /\ pc # "reset" => Kept \in Nat
  OBVIOUS
<1>1. CASE pc = "reset"
  BY <1>1 DEF ReadCount
<1>2. CASE pc # "reset" /\ front = None
  <2>1. IsEmpty /\ Kept = 0
    BY <1>2, RingOrNot DEF LogInv, Cursor
  <2>. QED
    BY <1>2, <2>1 DEF ReadCount
<1>3. CASE pc # "reset" /\ front # None
  <2>1. front \in Slot /\ Kept \in 0 .. SizeOf(front, rear) /\ handle = At(front, Kept + 1)
    BY <1>3, RingFacts
  <2>2. Kept \in 0 .. Cap - 1
    <3>1. Len(readOut) <= PayloadCap /\ Len(readOut) \in Nat
      BY DEF LogInv, Commands, LogTypeOK
    <3>2. Gone \in Nat
      <4>1. CASE cmd.op = "clear" /\ pc \in {"dequeue", "unset"}
        <5>1. cmd.number \in 1 .. Len(readOut)
          BY <4>1 DEF LogInv, Commands
        <5>2. left = 0 \/ left \in 1 .. cmd.number
          BY <4>1 DEF LogInv, Commands
        <5>3. cmd.number - left \in Nat
          BY <3>1, <5>1, <5>2
        <5>. QED
          BY <4>1, <5>3 DEF Gone
      <4>2. CASE ~(cmd.op = "clear" /\ pc \in {"dequeue", "unset"})
        BY <1>3, <4>2 DEF Gone
      <4>. QED
        BY <4>1, <4>2
    <3>3. Kept = Len(readOut) - Gone /\ Kept >= 0
      <4>1. SizeOf(front, rear) \in 1 .. Cap /\ Cap \in Nat
        BY <1>3, RingFacts, CapFacts
      <4>. QED
        BY <2>1, <4>1 DEF Kept
    <3>. QED
      BY <3>1, <3>2, <3>3, EventLogAssumption
  <2>3. RelativeIndex = Kept
    BY <2>1, <2>2, Distance DEF RelativeIndex
  <2>4. ~IsEmpty
    BY <1>3 DEF IsEmpty
  <2>5. Kept \in Nat
    BY <2>2, CapFacts
  <2>. QED
    BY <1>3, <2>3, <2>4, <2>5 DEF ReadCount
<1>. QED
  BY <1>1, <1>2, <1>3

LEMMA ReadIsKeptNext ==
    LogInv' => /\ ReadCount' = IF pc' = "reset" THEN 0 ELSE Kept'
               /\ pc' # "reset" => Kept' \in Nat
<1>1. (LogInv => /\ ReadCount = IF pc = "reset" THEN 0 ELSE Kept
                 /\ pc # "reset" => Kept \in Nat)'
  BY ReadIsKept, PTL
<1>. QED
  BY <1>1

LEMMA QuietIsStutter ==
    ASSUME LogInv, LogInv', Quiet
    PROVE  UNCHANGED Queue!vars
<1>1. /\ UNCHANGED <<front, rear, handle, lost>> /\ UNCHANGED Records
      /\ (pc # "reset" /\ pc' # "reset") \/ UNCHANGED pc
  BY QuietKeeps
<1>2. UNCHANGED Pending
  BY <1>1 DEF Pending
<1>3. UNCHANGED RelativeIndex /\ UNCHANGED IsEmpty
  BY <1>1 DEF RelativeIndex, IsEmpty
<1>4. UNCHANGED ReadCount
  BY <1>1, <1>3 DEF ReadCount
<1>. QED
  BY <1>1, <1>2, <1>4 DEF Queue!vars, Pending, ReadCount

LEMMA ReportIsGenerate ==
    ASSUME LogInv, LogInv', Counted, SafeInterrupts, ErrorReport
    PROVE  Queue!Generate(reports + 1) /\ reports + 1 \in 1 .. MaxEvents
<1>1. /\ pc # "reset" /\ pc' = pc /\ Kept' = Kept /\ reports + 1 \in 1 .. MaxEvents
  BY ReportFacts
<1>2. ReadCount' = ReadCount
  BY <1>1, ReadIsKept, ReadIsKeptNext
<1>3. Pending = Records /\ Pending' = Records'
  BY <1>1 DEF Pending
<1>4. CASE IsFull
  <2>1. lost' = lost + 1 /\ UNCHANGED <<front, rear, ring>>
    BY <1>4 DEF ErrorReport
  <2>2. Records' = Records
    BY <2>1 DEF Records
  <2>3. front \in Slot /\ rear \in Slot
    <3>1. front # None
      <4>1. ASSUME front = None PROVE FALSE
        <5>1. rear = None
          BY <1>1, <4>1, CapFacts DEF LogInv, Pointers
        <5>2. (rear + 1) % Cap = None
          BY <1>4, <4>1 DEF IsFull
        <5>3. 0 % Cap = 0
          BY CapFacts, GoAround
        <5>. QED
          BY <5>1, <5>2, <5>3 DEF None
      <4>. QED
        BY <4>1
    <3>. QED
      BY <1>1, <3>1, RingFacts
  <2>4. Len(Records) = Cap
    BY <1>4, <2>3, FullSize, RecordsFacts DEF IsFull
  <2>5. ~(Len(Pending) < Cap)
    BY <1>3, <2>4, CapFacts
  <2>. QED
    BY <1>1, <1>2, <1>3, <2>1, <2>2, <2>5 DEF Queue!Generate, Pending, ReadCount
<1>5. CASE ~IsFull
  <2>1. lost' = lost
    BY <1>5 DEF ErrorReport
  <2>2. Len(Records) < Cap /\ Records' = Append(Records, reports + 1)
    BY <1>5, ReportAppends
  <2>. QED
    BY <1>1, <1>2, <1>3, <2>1, <2>2 DEF Queue!Generate, Pending, ReadCount
<1>. QED
  BY <1>4, <1>5

LEMMA TransferIsRead ==
    ASSUME LogInv, LogInv', Transfer
    PROVE  Queue!Read(left) /\ left \in 1 .. PayloadCap
<1>1. /\ readOut = << >> /\ front \in Slot /\ rear \in Slot
      /\ left \in 1 .. PayloadCap /\ left <= SizeOf(front, rear) /\ Len(readOut') = left
  BY TransferSends
<1>2. /\ pc = "transfer" /\ pc' = "touch" /\ cmd' = NoCmd
      /\ UNCHANGED <<front, rear, ring, lost>>
  BY DEF Transfer, Reply
<1>3. Kept = 0 /\ Kept' = left
  <2>1. Gone = 0 /\ Gone' = 0
    BY <1>2 DEF Gone, NoCmd
  <2>. QED
    BY <1>1, <2>1 DEF Kept
<1>4. ReadCount = 0 /\ ReadCount' = left
  BY <1>2, <1>3, ReadIsKept, ReadIsKeptNext
<1>5. Pending = Records /\ Pending' = Records /\ Len(Records) = SizeOf(front, rear)
  <2>1. Records' = Records
    BY <1>2 DEF Records
  <2>. QED
    BY <1>1, <1>2, <2>1, RecordsFacts DEF Pending
<1>6. ReadCount + left <= Len(Pending) /\ ReadCount' = ReadCount + left
  BY <1>1, <1>4, <1>5
<1>. QED
  BY <1>1, <1>2, <1>5, <1>6 DEF Queue!Read, Pending, ReadCount

LEMMA DequeueIsDrop ==
    ASSUME LogInv, LogInv', Dequeue
    PROVE  Queue!Drop \/ Queue!DropAll
<1>1. pc = "dequeue" /\ Kept \in 1 .. Cap - 1
  BY DequeueFacts
<1>2. lost' = lost
  BY DEF Dequeue
<1>3. CASE front = rear
  <2>1. pc' = "reset"
    BY <1>3 DEF Dequeue
  <2>. QED
    BY <1>2, <2>1 DEF Queue!DropAll
<1>4. CASE front # rear
  <2>1. pc' # "reset" /\ Kept' = Kept - 1
    BY <1>4, DequeueSeen
  <2>2. ReadCount = Kept /\ ReadCount' = Kept - 1
    BY <1>1, <2>1, ReadIsKept, ReadIsKeptNext
  <2>3. Pending = Records /\ Pending' = Tail(Records)
    BY <1>1, <1>4, <2>1, DequeueTakes DEF Pending
  <2>4. ReadCount > 0 /\ ReadCount' = ReadCount - 1 /\ Pending' = Tail(Pending)
    BY <1>1, <2>2, <2>3, CapFacts
  <2>. QED
    BY <1>2, <2>4 DEF Queue!Drop, Pending, ReadCount
<1>. QED
  BY <1>3, <1>4

LEMMA ResetIsStutter ==
    ASSUME LogInv, LogInv', NEW s, Reset(s)
    PROVE  UNCHANGED Queue!vars
<1>1. /\ pc = "reset" /\ stores' = stores \ {s} /\ lost' = lost
      /\ \/ pc' = pc
         \/ stores' = {}
  BY DEF Reset
<1>2. Pending = << >> /\ ReadCount = 0
  BY <1>1 DEF Pending, ReadCount
<1>3. Pending' = << >> /\ ReadCount' = 0
  <2>1. CASE pc' = "reset"
    BY <2>1 DEF Pending, ReadCount
  <2>2. CASE pc' # "reset"
    <3>1. stores = {s} \/ stores = {}
      BY <1>1, <2>2
    <3>2. front' = None /\ rear' = None
      BY <1>1, <3>1 DEF Reset, LogInv, Resetting
    <3>3. Records' = << >> /\ IsEmpty'
      BY <3>2 DEF Records, IsEmpty
    <3>. QED
      BY <2>2, <3>3 DEF Pending, ReadCount
  <2>. QED
    BY <2>1, <2>2
<1>. QED
  BY <1>1, <1>2, <1>3 DEF Queue!vars, Pending, ReadCount

\* With every interleaving of the interrupt outside of the reset, the
\* ring is a bounded queue: an event is appended or counted, read in order, and
\* dropped only after it was read.
THEOREM LogIsAQueue ==
    ASSUME SafeInterrupts, OrderlyHost
    PROVE  LogSpec => QueueImplemented
<1>1. LogInit => Queue!Init
  <2>. SUFFICES ASSUME LogInit PROVE Queue!Init
    OBVIOUS
  <2>1. front = None /\ rear = None /\ lost = 0
    BY DEF LogInit
  <2>2. Records = << >> /\ IsEmpty
    BY <2>1 DEF Records, IsEmpty
  <2>. QED
    BY <2>1, <2>2 DEF Queue!Init
<1>2. ASSUME LogInv, Counted, LogInv', [LogNext]_logVars
      PROVE  [Queue!Next]_(Queue!vars)
  <2>1. CASE Quiet
    BY <1>2, <2>1, QuietIsStutter
  <2>2. CASE Transfer
    BY <1>2, <2>2, TransferIsRead DEF Queue!Next
  <2>3. CASE Dequeue
    BY <1>2, <2>3, DequeueIsDrop DEF Queue!Next
  <2>4. CASE StartReset
    BY <2>4 DEF StartReset, Queue!DropAll, Queue!Next
  <2>5. CASE ErrorReport
    BY <1>2, <2>5, ReportIsGenerate DEF Queue!Next
  <2>6. CASE \E s \in stores : Reset(s)
    BY <1>2, <2>6, ResetIsStutter
  <2>. QED
    BY <1>2, <2>1, <2>2, <2>3, <2>4, <2>5, <2>6, KindsOfSteps
<1>3. LogInv /\ Counted /\ LogInv' /\ [LogNext]_logVars => [Queue!Next]_(Queue!vars)
  BY <1>2
<1>. QED
  BY <1>1, <1>3, InvHolds, PTL DEF LogSpec, QueueImplemented, Queue!Spec
=============================================================================
