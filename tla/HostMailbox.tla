---------------------------- MODULE HostMailbox -----------------------------
(***************************************************************************)
(* The host mailbox (samt_mailbox_handler): the host writes a command and  *)
(* its payload to the registers and sets the doorbell; the main loop reads *)
(* them, carries the command out and writes status, length and payload of  *)
(* the answer before it clears the doorbell.  The host sees the registers  *)
(* at any time.  The commands are those of the timestamp and of the logs,  *)
(* the others have modules of their own.  A payload is a sequence of       *)
(* values, the bytes of a log being one value each.  A definition marked   *)
(* "mutant" is a faulty variant of the one after it.                       *)
(***************************************************************************)
EXTENDS CommandLog

CONSTANTS Requests,   \* what the host may ask for
          Times,      \* timestamps
          Liberties   \* how the host departs from an orderly one

ASSUME HostMailboxAssumption ==
    /\ Requests \subseteq [op : Opcodes, data : Seq(Int)]
    /\ Times \subseteq Nat /\ 0 \in Times
    /\ Liberties \subseteq {"readParts"}

\* The return codes that these commands have.
Codes == {"SUCCESS", "INVALID_PAYLOAD_LENGTH", "INVALID_INPUT"}

VARIABLES doorbell, command, status, payload,  \* the registers
          pc, opcode, data, code,              \* of the main loop
          time                                 \* time_stamp

registers == <<doorbell, command, status, payload>>
vars == <<ring, registers, pc, opcode, data, code, time>>

Init ==
    /\ InitLog
    /\ doorbell = FALSE /\ command = [op |-> NoEntry, length |-> 0]
    /\ status = "SUCCESS" /\ payload = << >>
    /\ pc = "poll" /\ opcode = NoEntry /\ data = << >> /\ code = "SUCCESS"
    /\ time = 0

\* The payload registers after words were written to them.  Nobody reads what
\* is left behind the last one.
Written(new) == IF new = << >> THEN payload ELSE new

\* An orderly host that reads the log reads all of it, when it is full or at
\* most a quarter full.
WholeLog(r) ==
    r.data = <<0, LogSize>> /\ (entry_num = MaxNum \/ LogSize <= MaxNum)

ReadsLog(r) == /\ r.op = "GET_LOG" /\ Len(r.data) = 2
               /\ r.data[1] >= 0 /\ InLog(r.data[1], r.data[2])

Post(r) ==
    /\ ~doorbell
    /\ ReadsLog(r) /\ "readParts" \notin Liberties => WholeLog(r)
    /\ payload' = Written(r.data)
    /\ command' = [op |-> r.op, length |-> Len(r.data)]
    /\ doorbell' = TRUE
    /\ UNCHANGED <<ring, status, pc, opcode, data, code, time>>

-----------------------------------------------------------------------------
(* The steps of samt_mailbox_handler.                                      *)

Received == SubSeq(payload, 1, command.length)

ReadCommand ==
    /\ pc = "poll" /\ doorbell
    /\ opcode' = command.op
    /\ data' = Received
    /\ pc' = "execute"
    /\ UNCHANGED <<ring, registers, code, time>>

Succeed(answer) == code' = "SUCCESS" /\ data' = answer /\ AppendEntry(opcode)

Fail(error, answer) == code' = error /\ data' = answer /\ UNCHANGED <<ring, time>>

GetTimestamp == opcode = "GET_TIMESTAMP" /\ Succeed(<<time>>) /\ UNCHANGED time

SetTimestamp ==
    /\ opcode = "SET_TIMESTAMP"
    /\ IF Len(data) # 1
       THEN Fail("INVALID_PAYLOAD_LENGTH", data)
       ELSE time' = data[1] /\ Succeed(<< >>)

GetSupportedLogs ==
    /\ opcode = "GET_SUPPORTED_LOGS"
    /\ IF data # << >>
       THEN Fail("INVALID_PAYLOAD_LENGTH", data)
       ELSE Succeed(<<LogSize>>) /\ UNCHANGED time

\* Offset and length are signed, and a negative length is not refused.  The
\* length of the answer is set to zero between the two checks of the range.
\* The sum is of integers that are far enough from the limits of theirs.
GetLog ==
    /\ opcode = "GET_LOG"
    /\ IF Len(data) # 2
       THEN Fail("INVALID_PAYLOAD_LENGTH", data)
       ELSE IF \/ data[1] < 0 \/ data[1] >= MaxNum * EntrySize
               \/ data[1] + data[2] > MaxNum * EntrySize
       THEN Fail("INVALID_INPUT", data)
       ELSE IF ~InLog(data[1], data[2])
       THEN Fail("INVALID_INPUT", << >>)
       ELSE Succeed(GetLogData(data[1], data[2])) /\ UNCHANGED time

\* A command that is not known, or not in the switch, succeeds.
Ignore ==
    /\ opcode \notin {"GET_TIMESTAMP", "SET_TIMESTAMP", "GET_SUPPORTED_LOGS", "GET_LOG"}
    /\ code' = "SUCCESS"
    /\ UNCHANGED <<ring, data, time>>

\* mailbox_execute_cmd
Execute ==
    /\ pc = "execute"
    /\ GetTimestamp \/ SetTimestamp \/ GetSupportedLogs \/ GetLog \/ Ignore
    /\ pc' = "status"
    /\ UNCHANGED <<registers, opcode>>

\* mutant: the doorbell is cleared with the status
SetStatusClears ==
    /\ pc = "status"
    /\ status' = code /\ doorbell' = FALSE
    /\ pc' = "command"
    /\ UNCHANGED <<ring, command, payload, opcode, data, code, time>>

SetStatus ==
    /\ pc = "status"
    /\ status' = code
    /\ pc' = "command"
    /\ UNCHANGED <<ring, doorbell, command, payload, opcode, data, code, time>>

SendCommand ==
    /\ pc = "command"
    /\ command' = [op |-> opcode, length |-> Len(data)]
    /\ pc' = "payload"
    /\ UNCHANGED <<ring, doorbell, status, payload, opcode, data, code, time>>

SendPayload ==
    /\ pc = "payload"
    /\ payload' = Written(data)
    /\ pc' = "doorbell"
    /\ UNCHANGED <<ring, doorbell, command, status, opcode, data, code, time>>

\* The handler returns: its variables are gone.
Return == pc' = "poll" /\ opcode' = NoEntry /\ data' = << >> /\ code' = "SUCCESS"

\* mutant: the mask keeps the doorbell bit
ClearDoorbellNot == pc = "doorbell" /\ Return /\ UNCHANGED <<ring, registers, time>>

ClearDoorbell ==
    /\ pc = "doorbell"
    /\ doorbell' = FALSE
    /\ Return
    /\ UNCHANGED <<ring, command, status, payload, time>>

Handler ==
    ReadCommand \/ Execute \/ SetStatus \/ SendCommand \/ SendPayload \/ ClearDoorbell

Next == Handler \/ \E r \in Requests : Post(r)

Spec == Init /\ [][Next]_vars

\* The main loop keeps polling, and none of the handlers modelled here waits
\* for anything or loops without a bound.
FairSpec == Spec /\ WF_vars(Handler)

-----------------------------------------------------------------------------
(* Properties.                                                             *)

TypeOK ==
    /\ TypeOKLog
    /\ doorbell \in BOOLEAN
    /\ command \in [op : Opcodes \cup {NoEntry}, length : Nat]
    /\ code \in Codes /\ status \in Codes
    /\ pc \in {"poll", "execute", "status", "command", "payload", "doorbell"}
    /\ opcode \in Opcodes \cup {NoEntry}
    /\ time \in Times

\* The ring has no hole and no overlap: the next entry goes behind the last
\* one, which is where the oldest one is if the ring is full.
RingConsistent == write_index = (physic_start + entry_num) % MaxNum

\* Every command is answered.
CallsAnswered == doorbell ~> ~doorbell

\* For a host that only looks when the doorbell is clear, commands are calls
\* that are carried out at once and answered once, and the log is the sequence
\* of the last ones that succeeded.
Asked == [op |-> command.op, data |-> SubSeq(payload, 1, command.length)]
Answering == pc \notin {"poll", "execute"}

NoResult == [code |-> "NONE", data |-> << >>]
NoRequest == [op |-> NoEntry, data |-> << >>]

Calls == INSTANCE HostCalls WITH
    call   <- IF doorbell /\ ~Answering THEN Asked ELSE NoRequest,
    result <- IF Answering THEN [code |-> code, data |-> data] ELSE NoResult,
    answer <- IF doorbell THEN NoResult
              ELSE [code |-> status, data |-> SubSeq(payload, 1, command.length)],
    recent <- Logged

CallsImplemented == Calls!Spec

\* The reply to Get Log is what was asked for: "Retrieve data of length
\* "length" starting from the logical offset in the physical storage area".
ReadIsExact ==
    [][pc = "execute" /\ opcode = "GET_LOG" /\ code' = "SUCCESS" /\ pc' = "status" =>
        data' = Calls!BytesOf(Logged, data[1], data[2])]_vars
=============================================================================
