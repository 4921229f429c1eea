------------------------------ MODULE EventLog ------------------------------
(***************************************************************************)
(* The event log of one severity (cxl_events.c): a ring of records that    *)
(* the error report interrupt fills and the host reads and clears through  *)
(* mailbox commands of the main loop.                                      *)
(*                                                                         *)
(* An interrupt runs to its end, but it can come between any two accesses  *)
(* of the main loop to the shared variables; a step of the main loop is    *)
(* one such access.  Neither side disables interrupts or uses volatile     *)
(* variables: plain stores that follow each other may happen in any order. *)
(* Only FAILURE events are ever generated outside of the tests, so one     *)
(* severity is modelled.  A definition marked "mutant" is a faulty variant *)
(* of the one after it.                                                    *)
(***************************************************************************)
EXTENDS Integers, Sequences, FiniteSets

CONSTANTS Cap,          \* EVENT_OVERFLOW_CAP (2048)
          PayloadCap,   \* PAYLOAD_EVENT_RECORD_CAP (7)
          MaxEvents,    \* bound on the number of error reports
          InterruptAt,  \* where in the main loop an error report may come
          ReaderLiberties     \* how the host departs from an orderly one

None == -1    \* an empty queue's pointers
Slot == 0 .. Cap - 1
Places == {"idle", "getSize", "transfer", "clearSize", "dequeue", "reset",
           "unset", "touch", "loop"}

ASSUME EventLogAssumption ==
    /\ Cap \in Nat /\ Cap > 1 /\ PayloadCap \in 1 .. Cap - 1 /\ MaxEvents \in Nat
    /\ InterruptAt \subseteq Places
    /\ ReaderLiberties \subseteq {"clearAll", "readOn"}

VARIABLES front, rear,  \* of the ring
          handle,       \* handle_index: the next record to send
          ring,         \* the records, by slot
          lost,         \* overflow_errcount; overflow_flag is lost > 0
          status,       \* the severity's bit of the device status register
          reports,      \* number of error reports so far, each a record
          pc, cmd, wrapped, left, stores, value,  \* of the main loop
          readOut          \* records the host has read and not yet cleared

log  == <<front, rear, handle, ring, lost>>
logVars == <<front, rear, handle, ring, lost, status, reports,
          pc, cmd, wrapped, left, stores, value, readOut>>

NoCmd == [op |-> "none", number |-> 0]

LogInit ==
    /\ front = None /\ rear = None /\ handle = None
    /\ ring = [s \in Slot |-> 0]
    /\ lost = 0 /\ status = FALSE /\ reports = 0
    /\ pc = "idle" /\ cmd = NoCmd /\ wrapped = FALSE /\ left = 0
    /\ stores = {} /\ value = FALSE /\ readOut = << >>

IsEmpty == front = None /\ rear = None

IsFullNoWrap == rear + 1 = front  \* mutant

IsFull == (rear + 1) % Cap = front

NextSlotNoWrap == rear + 1  \* mutant

NextSlot == (rear + 1) % Cap

-----------------------------------------------------------------------------
(* The error report interrupt: gen_err_rep_event_record and enqueue.       *)

SetDevStatus == status' = TRUE

Enqueue(record) ==
    /\ rear' = IF IsEmpty THEN 0 ELSE NextSlot
    /\ ring' = [ring EXCEPT ![rear'] = record]
    /\ IF IsEmpty
       THEN front' = 0 /\ handle' = 0 /\ SetDevStatus
       ELSE UNCHANGED <<front, handle, status>>

ErrorReport ==
    /\ pc \in InterruptAt
    /\ reports < MaxEvents
    /\ reports' = reports + 1
    /\ IF IsFull
       THEN lost' = lost + 1 /\ UNCHANGED <<front, rear, handle, ring, status>>
       ELSE Enqueue(reports + 1) /\ UNCHANGED lost
    /\ UNCHANGED <<pc, cmd, wrapped, left, stores, value, readOut>>

-----------------------------------------------------------------------------
(* The host.  An orderly one reads when the status bit is set, and clears  *)
(* what it has read before it reads on.                                    *)

Post(op, number) ==
    /\ cmd = NoCmd
    /\ cmd' = [op |-> op, number |-> number]
    /\ UNCHANGED <<log, status, reports, pc, wrapped, left, stores, value, readOut>>

PostGet ==
    /\ status
    /\ "readOn" \notin ReaderLiberties => readOut = << >>
    /\ Post("get", 0)

PostClear(n) == n <= Len(readOut) /\ Post("clear", n)

\* The number means nothing then, and may be any.
PostClearAll(n) == "clearAll" \in ReaderLiberties /\ Post("clearAll", n)

-----------------------------------------------------------------------------
(* The main loop.                                                          *)

\* The reply is sent and the doorbell cleared.
Reply == cmd' = NoCmd /\ pc' = "touch"

\* queueSize compares front and rear, then reads rear again.
StartSize(place) == wrapped' = (front > rear) /\ pc' = place

QueueSizeOff == IF wrapped THEN Cap - front + rear ELSE rear - front  \* mutant

QueueSize == IF wrapped THEN Cap - front + rear + 1 ELSE rear - front + 1

\* elementsAfterIndex
RelativeIndex == (handle - front + Cap) % Cap
Unsent == IF RelativeIndex < QueueSize THEN QueueSize - RelativeIndex ELSE -1

\* get_event_records answers "internal error" if there is nothing to send.
BeginGet ==
    /\ pc = "idle" /\ cmd.op = "get"
    /\ IF IsEmpty \/ handle = None
       THEN Reply /\ UNCHANGED wrapped
       ELSE StartSize("getSize") /\ UNCHANGED cmd
    /\ UNCHANGED <<log, status, reports, left, stores, value, readOut>>

SizeOfGet ==
    /\ pc = "getSize"
    /\ IF Unsent <= 0
       THEN Reply /\ UNCHANGED left
       ELSE /\ left' = IF Unsent > PayloadCap THEN PayloadCap ELSE Unsent
            /\ pc' = "transfer"
            /\ UNCHANGED cmd
    /\ UNCHANGED <<log, status, reports, wrapped, stores, value, readOut>>

\* mutant: handle_index is left behind by one
TransferOneShort ==
    /\ pc = "transfer"
    /\ readOut' = readOut \o [i \in 1 .. left |-> ring[(handle + i - 1) % Cap]]
    /\ handle' = (handle + left - 1) % Cap
    /\ left' = 0
    /\ Reply
    /\ UNCHANGED <<front, rear, ring, lost, status, reports, wrapped, stores, value>>

\* No interrupt changes the slots that are being sent.
Transfer ==
    /\ pc = "transfer"
    /\ readOut' = readOut \o [i \in 1 .. left |-> ring[(handle + i - 1) % Cap]]
    /\ handle' = (handle + left) % Cap
    /\ left' = 0
    /\ Reply
    /\ UNCHANGED <<front, rear, ring, lost, status, reports, wrapped, stores, value>>

\* The number is no larger than the queue.
StartClear ==
    IF cmd.op = "clearAll"
    THEN stores' = {"front", "rear", "handle"} /\ pc' = "reset" /\ UNCHANGED left
    ELSE left' = cmd.number /\ pc' = "dequeue" /\ UNCHANGED stores

\* clear_event_records answers "invalid input" if there are not as many, also
\* when everything is to be cleared.
BeginClear ==
    /\ pc = "idle" /\ cmd.op \in {"clear", "clearAll"}
    /\ \/ ~IsEmpty /\ StartSize("clearSize") /\ UNCHANGED <<cmd, left, stores>>
       \/ IsEmpty /\ cmd.number > 0 /\ Reply /\ UNCHANGED <<wrapped, left, stores>>
       \/ IsEmpty /\ cmd.number = 0 /\ StartClear /\ UNCHANGED <<cmd, wrapped>>
    /\ UNCHANGED <<log, status, reports, value, readOut>>

SizeOfClear ==
    /\ pc = "clearSize"
    /\ IF cmd.number > QueueSize
       THEN Reply /\ UNCHANGED <<left, stores>>
       ELSE StartClear /\ UNCHANGED cmd
    /\ UNCHANGED <<log, status, reports, wrapped, value, readOut>>

\* The last dequeue is over: the host forgets what it has cleared.
Cleared ==
    /\ Reply
    /\ readOut' = SubSeq(readOut, cmd.number + 1, Len(readOut))

\* mutant: one record more is taken out
DequeueOneMore ==
    /\ pc = "dequeue" /\ left >= 0
    /\ left' = left - 1
    /\ IF front = rear
       THEN /\ stores' = {"front", "rear", "handle"} /\ pc' = "reset"
            /\ UNCHANGED <<front, cmd, readOut>>
       ELSE /\ front' = (front + 1) % Cap
            /\ IF left = 0 THEN Cleared ELSE UNCHANGED <<pc, cmd, readOut>>
            /\ UNCHANGED stores
    /\ UNCHANGED <<rear, handle, ring, lost, status, reports, wrapped, value>>

Dequeue ==
    /\ pc = "dequeue"
    /\ left' = left - 1
    /\ IF front = rear
       THEN /\ stores' = {"front", "rear", "handle"} /\ pc' = "reset"
            /\ UNCHANGED <<front, cmd, readOut>>
       ELSE /\ front' = (front + 1) % Cap
            /\ IF left = 1 THEN Cleared ELSE UNCHANGED <<pc, cmd, readOut>>
            /\ UNCHANGED stores
    /\ UNCHANGED <<rear, handle, ring, lost, status, reports, wrapped, value>>

\* The pointers of the ring are set to -1, one store at a time.
Reset(s) ==
    /\ pc = "reset"
    /\ s \in stores
    /\ stores' = stores \ {s}
    /\ front'  = IF s = "front"  THEN None ELSE front
    /\ rear'   = IF s = "rear"   THEN None ELSE rear
    /\ handle' = IF s = "handle" THEN None ELSE handle
    /\ IF stores' # {}
       THEN UNCHANGED <<pc, cmd, readOut>>
       ELSE IF cmd.op = "clearAll"
            THEN Reply /\ readOut' = << >>
            ELSE pc' = "unset" /\ UNCHANGED <<cmd, readOut>>
    /\ UNCHANGED <<ring, lost, status, reports, wrapped, left, value>>

\* samt_unset_dev_status, at the end of the dequeue that empties the ring.
UnsetStatus ==
    /\ pc = "unset"
    /\ status' = FALSE
    /\ IF left = 0 THEN Cleared ELSE pc' = "dequeue" /\ UNCHANGED <<cmd, readOut>>
    /\ UNCHANGED <<log, reports, wrapped, left, stores, value>>

\* Every round of the loop sets another bit of the status register.
ReadStatus ==
    /\ pc = "touch" \/ (pc = "idle" /\ cmd = NoCmd)
    /\ value' = status
    /\ pc' = "loop"
    /\ UNCHANGED <<log, status, reports, cmd, wrapped, left, stores, readOut>>

WriteStatus ==
    /\ pc = "loop"
    /\ status' = value
    /\ pc' = "idle"
    /\ UNCHANGED <<log, reports, cmd, wrapped, left, stores, value, readOut>>

MainLoop ==
    \/ BeginGet \/ SizeOfGet \/ Transfer
    \/ BeginClear \/ SizeOfClear \/ Dequeue \/ UnsetStatus
    \/ (\E s \in stores : Reset(s))
    \/ ReadStatus \/ WriteStatus

Service == PostGet \/ \E n \in 1 .. Cap : PostClear(n)

LogNext == ErrorReport \/ MainLoop \/ Service \/ \E n \in 0 .. Cap : PostClearAll(n)

LogSpec == LogInit /\ [][LogNext]_logVars

\* The main loop keeps running.  A host that is told of events over and over
\* reads them and clears what it has read, also if it asks for other things in
\* between.
FairLogSpec == LogSpec /\ WF_logVars(MainLoop) /\ SF_logVars(Service)

-----------------------------------------------------------------------------
(* Properties.                                                             *)

LogTypeOK ==
    /\ front \in Slot \cup {None} /\ rear \in Slot \cup {None}
    /\ handle \in Slot \cup {None} /\ ring \in [Slot -> 0 .. MaxEvents]
    /\ lost \in 0 .. MaxEvents /\ reports \in 0 .. MaxEvents
    /\ status \in BOOLEAN /\ wrapped \in BOOLEAN /\ value \in BOOLEAN
    /\ pc \in Places /\ stores \subseteq {"front", "rear", "handle"}
    /\ cmd \in [op : {"none", "get", "clear", "clearAll"}, number : 0 .. Cap]
    /\ left \in 0 .. Cap
    /\ readOut \in Seq(1 .. MaxEvents)

\* The records of the ring, oldest first.
Records ==
    IF front = None \/ rear = None THEN << >>
    ELSE [i \in 1 .. ((rear - front + Cap) % Cap) + 1 |-> ring[(front + i - 1) % Cap]]

Elements(s) == {s[i] : i \in DOMAIN s}

\* Clearing goes by number only, so the host and the ring have to agree on
\* what the oldest records are: between commands, what the host has read and
\* not cleared is the beginning of the ring, in order, and handle_index stands
\* behind it.
SeenIsFront ==
    pc = "idle" =>
        /\ Len(readOut) <= Len(Records)
        /\ \A i \in DOMAIN readOut : readOut[i] = Records[i]
        /\ Records # << >> => handle = (front + Len(readOut)) % Cap

\* An event that is in the log stays there until the host has read and cleared
\* it, or clears everything; one that cannot be kept is counted ("If the
\* current queue is full, it cannot be generated; modify the overflow
\* information").
NothingVanishes ==
    [][\/ cmd.op = "clearAll"
       \/ Elements(Records) \ Elements(Records') \subseteq Elements(readOut)]_logVars

\* No record is sent twice: what is still to be sent is "how much data still
\* needs to be transmitted", from handle_index to the end of the queue.
SentOnce == \A i, j \in DOMAIN readOut : i < j => readOut[i] < readOut[j]

\* The host is told of an event by the status bit, which is set "when empty to
\* non-empty": as long as there is an event, the bit is set.
StatusTellsHost == pc = "idle" /\ ~IsEmpty => status

\* Every event in the log is eventually read and cleared, as long as no
\* interrupt comes where the status register is being changed and the host
\* loses the bit.
EventsAreServed ==
    []StatusTellsHost =>
        \A e \in 1 .. MaxEvents : e \in Elements(Records) ~> e \notin Elements(Records)

\* The log is a bounded queue.  A ring whose pointers are being reset is empty.
Queue == INSTANCE EventQueue WITH
    Events  <- 1 .. MaxEvents,
    pending <- IF pc = "reset" THEN << >> ELSE Records,
    read    <- IF pc = "reset" \/ IsEmpty THEN 0 ELSE RelativeIndex,
    lost    <- lost

QueueImplemented == Queue!Spec
=============================================================================
