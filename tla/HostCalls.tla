----------------------------- MODULE HostCalls ------------------------------
(***************************************************************************)
(* What the host mailbox promises: a command is carried out once, after it *)
(* was posted and before its answer shows, and the answer is its own.  The *)
(* log is the sequence of the last commands carried out with success, and  *)
(* is read by the bytes of its entries.                                    *)
(***************************************************************************)
EXTENDS Integers, Sequences

CONSTANTS MaxNum, Requests, NoRequest, NoResult, EntrySize

VARIABLES call,    \* posted and not yet carried out
          result,  \* of a command that is not yet answered
          answer,  \* what the registers show
          recent,  \* the log
          time     \* the timestamp

Init == call = NoRequest /\ result = NoResult /\ recent = << >> /\ time = 0

Post(r) ==
    /\ call = NoRequest /\ result = NoResult
    /\ call' = r /\ answer' = NoResult
    /\ UNCHANGED <<result, recent, time>>

LogSize == EntrySize * Len(recent)

Succeed(data) ==
    /\ result' = [code |-> "SUCCESS", data |-> data]
    /\ recent' = Append(IF Len(recent) < MaxNum THEN recent ELSE Tail(recent), call.op)

GetTimestamp == call.op = "GET_TIMESTAMP" /\ Succeed(<<time>>) /\ UNCHANGED time

SetTimestamp ==
    /\ call.op = "SET_TIMESTAMP" /\ Len(call.data) = 1
    /\ time' = call.data[1]
    /\ Succeed(<< >>)

GetSupportedLogs ==
    /\ call.op = "GET_SUPPORTED_LOGS" /\ call.data = << >>
    /\ Succeed(<<LogSize>>) /\ UNCHANGED time

InLog(offset, length) ==
    0 <= offset /\ 0 <= length /\ offset < LogSize /\ offset + length <= LogSize

\* A byte is an entry and a place in it.
BytesOf(entries, offset, length) ==
    [i \in 1 .. length |->
        <<entries[(offset + i - 1) \div EntrySize + 1], (offset + i - 1) % EntrySize>>]

GetLog ==
    /\ call.op = "GET_LOG" /\ Len(call.data) = 2 /\ InLog(call.data[1], call.data[2])
    /\ Succeed(BytesOf(recent, call.data[1], call.data[2])) /\ UNCHANGED time

\* A request of the wrong shape or for more than there is has no effect.
Refuse ==
    /\ \/ call.op = "SET_TIMESTAMP" /\ Len(call.data) # 1
       \/ call.op = "GET_SUPPORTED_LOGS" /\ call.data # << >>
       \/ call.op = "GET_LOG" /\ (Len(call.data) = 2 => ~InLog(call.data[1], call.data[2]))
    /\ result' \in [code : {"INVALID_PAYLOAD_LENGTH", "INVALID_INPUT"}, data : {call.data, << >>}]
    /\ UNCHANGED <<recent, time>>

\* A command that is not known is answered and has no effect.
Ignore ==
    /\ call.op \notin {"GET_TIMESTAMP", "SET_TIMESTAMP", "GET_SUPPORTED_LOGS", "GET_LOG"}
    /\ result' = [code |-> "SUCCESS", data |-> call.data]
    /\ UNCHANGED <<recent, time>>

Perform ==
    /\ call # NoRequest /\ result = NoResult
    /\ call' = NoRequest
    /\ GetTimestamp \/ SetTimestamp \/ GetSupportedLogs \/ GetLog \/ Refuse \/ Ignore
    /\ UNCHANGED answer

Respond ==
    /\ result # NoResult
    /\ answer' = result /\ result' = NoResult
    /\ UNCHANGED <<call, recent, time>>

Next == (\E r \in Requests : Post(r)) \/ Perform \/ Respond

vars == <<call, result, answer, recent, time>>

Spec == Init /\ [][Next]_vars
=============================================================================
