----------------------------- MODULE FmMailbox ------------------------------
(***************************************************************************)
(* The fabric manager's commands (samt_fm_mailbox_handler) in front of the *)
(* resource manager: the FM writes a command and its payload and sets the  *)
(* doorbell; the main loop reads them, carries the command out, which may  *)
(* take many steps of the resource manager, and writes status, command and *)
(* payload of the answer before it clears the doorbell.  The FM sees the   *)
(* registers at any time.  A definition marked "mutant" is a faulty        *)
(* variant of the one after it.                                            *)
(***************************************************************************)
EXTENDS ResourceManager

CONSTANT Ids      \* the LD ids an FM may set

ASSUME IdsAssumption == Ids \subseteq 0 .. 16

VARIABLES doorbell, command, payload,  \* the registers the FM writes
          status,                      \* upper half of the status register
          inactive, device,            \* the registers of RM_DISABLE and SET_ID
          stage, opcode, num, alloc,   \* of the handler
          call,                        \* what the FM asked last
          short                        \* add_pb_into_ldlist has returned -1

registers == <<doorbell, command, payload, status>>
locals    == <<stage, opcode, num, alloc>>
targets   == <<inactive, device>>
mailbox   == <<registers, targets, locals, call, short>>
fmVars    == <<vars, mailbox>>

\* A command with its number of LDs, or whatever else the number stands for.
Call(op, n, sizes) == [op |-> op, num |-> n, alloc |-> sizes]

NoCall == Call("NONE", 0, << >>)

Calls ==
    {Call("GET", 0, << >>)}
    \cup {Call("SET", Len(r), r) : r \in Requests}
    \cup {Call("SET_GRAN", g, << >>) : g \in Grans}
    \cup {Call("RM_DISABLE", n, << >>) : n \in {0, 1}}
    \cup {Call("SET_ID", n, << >>) : n \in Ids}

FmInit ==
    /\ Init
    /\ doorbell = FALSE /\ command = NoCall /\ payload = << >>
    /\ status = 0 /\ inactive = FALSE /\ device = 0
    /\ stage = "poll" /\ opcode = "NONE" /\ num = 0 /\ alloc = << >>
    /\ call = NoCall /\ short = FALSE

\* Any request with a number of LDs, also for more blocks than a bank can map.
Ask(c) ==
    /\ ~doorbell
    /\ c.op = "SET" => FMMaySet(c.alloc)
    /\ call' = c /\ command' = [op |-> c.op, num |-> c.num] /\ payload' = c.alloc
    /\ doorbell' = TRUE
    /\ UNCHANGED <<vars, status, targets, locals, short>>

\* fm_get_mailbox_cmd and fm_get_mailbox_payload.  A number above 16, for which
\* the payload does not fit into its buffer, is not sent.  With commands other
\* than SET the handler reads what an earlier one left in the payload
\* registers, and sends it back; nobody looks at it.
ReadCall ==
    /\ stage = "poll" /\ doorbell
    /\ opcode' = command.op /\ num' = command.num
    /\ alloc' = IF command.op = "SET" THEN payload ELSE << >>
    /\ stage' = "convert"
    /\ UNCHANGED <<vars, registers, targets, call, short>>

-----------------------------------------------------------------------------
(* fm_mailbox_cmd_conversion.                                              *)

\* mutant: reads the register of the next LD
GetNext ==
    /\ opcode = "GET"
    /\ num' = FoundLds
    /\ alloc' = [i \in 1 .. FoundLds |-> IF i < MaxLd THEN reg[i + 1].blocks % 256 ELSE 0]
    /\ UNCHANGED <<vars, targets, short>>

\* resour_mgt_exec_get_cmd
Get ==
    /\ opcode = "GET"
    /\ num' = FoundLds /\ alloc' = [i \in 1 .. FoundLds |-> reg[i].blocks % 256]
    /\ UNCHANGED <<vars, targets, short>>

Set ==
    /\ opcode = "SET"
    /\ Begin(alloc)
    /\ short' = FALSE
    /\ UNCHANGED <<num, alloc, targets, lists, gran, ldn, bank, bram, reg, memory, bg>>

SetGran ==
    /\ opcode = "SET_GRAN"
    /\ IF num = gran
       THEN UNCHANGED <<vars, short>>
       ELSE SetGranularity(num) /\ short' = FALSE
    /\ UNCHANGED <<num, alloc, targets>>

\* samt_set_fm_enable
SetDisable ==
    /\ opcode = "RM_DISABLE"
    /\ inactive' = (num # 0)
    /\ UNCHANGED <<vars, num, alloc, device, short>>

\* set_fm_ldid; no id of 17 or more comes here.
SetId ==
    /\ opcode = "SET_ID"
    /\ device' = 16 + num
    /\ UNCHANGED <<vars, num, alloc, inactive, short>>

Convert ==
    /\ stage = "convert"
    /\ Get \/ Set \/ SetGran \/ SetDisable \/ SetId
    /\ stage' = "status"
    /\ UNCHANGED <<registers, opcode, call>>

\* A step of the resource manager.  The background operation shows in both
\* halves of the status register, so its end sets the upper half to zero.
Work ==
    /\ Step
    /\ status' = IF bg' = bg THEN status ELSE IF bg' THEN 1 ELSE 0
    /\ short' = (short \/ (pc = "grow" /\ left > 0 /\ ListEmpty(Free)))
    /\ UNCHANGED <<doorbell, command, payload, targets, locals, call>>

-----------------------------------------------------------------------------
(* The answer.                                                             *)

\* The sum of the return values is zero for every command that is sent.
SetStatus ==
    /\ stage = "status" /\ pc = "idle"
    /\ status' = 0
    /\ stage' = "command"
    /\ UNCHANGED <<vars, doorbell, command, payload, targets, opcode, num, alloc, call, short>>

\* mutant: the doorbell is cleared with the command
SendCommandClears ==
    /\ stage = "command"
    /\ command' = [op |-> opcode, num |-> num] /\ doorbell' = FALSE
    /\ stage' = "payload"
    /\ UNCHANGED <<vars, payload, status, targets, opcode, num, alloc, call, short>>

SendCommand ==
    /\ stage = "command"
    /\ command' = [op |-> opcode, num |-> num]
    /\ stage' = "payload"
    /\ UNCHANGED <<vars, doorbell, payload, status, targets, opcode, num, alloc, call, short>>

SendPayload ==
    /\ stage = "payload"
    /\ payload' = alloc
    /\ stage' = "doorbell"
    /\ UNCHANGED <<vars, doorbell, command, status, targets, opcode, num, alloc, call, short>>

ClearDoorbell ==
    /\ stage = "doorbell"
    /\ doorbell' = FALSE
    /\ stage' = "poll"
    /\ UNCHANGED <<vars, command, payload, status, targets, opcode, num, alloc, call, short>>

Handler == \/ ReadCall \/ Convert \/ Work
           \/ SetStatus \/ SendCommand \/ SendPayload \/ ClearDoorbell

\* The CDMA, which works on its own.
Engine == ZeroBlock /\ UNCHANGED mailbox

FmNext == (\E c \in Calls : Ask(c)) \/ Handler \/ Engine

\* The main loop goes on polling, and the only thing a handler waits for is the
\* CDMA.  That the CDMA finishes is a property of the hardware: the handler
\* polls its status for ever if it does not.
FmSpec == FmInit /\ [][FmNext]_fmVars /\ WF_fmVars(Handler) /\ WF_fmVars(Engine)

-----------------------------------------------------------------------------
(* Properties.                                                             *)

\* Every variable has its type.
FmTypeOK ==
    /\ TypeOK
    /\ doorbell \in BOOLEAN /\ status \in {0, 1} /\ inactive \in BOOLEAN
    /\ device \in 0 .. 32
    /\ command.num \in Nat /\ payload \in Seq(Nat) /\ alloc \in Seq(Nat)
    /\ stage \in {"poll", "convert", "status", "command", "payload", "doorbell"}
    /\ num \in Nat /\ call \in Calls \cup {NoCall} /\ short \in BOOLEAN

Answered == ~doorbell /\ call # NoCall

\* An answer is whole when the doorbell is clear: it is the answer to what the
\* FM asked, the status says that the command is done, no background operation
\* goes on, and the handler will not touch the registers any more
\* (samt_fm_mailbox_handler writes status, command, payload, doorbell, in this
\* order, and mbox_set_status_bg_start writes both halves of the status).
AnswerIsFinal ==
    Answered =>
        /\ stage = "poll" /\ pc = "idle" /\ ~bg /\ status = 0
        /\ command.op = call.op
        /\ call.op # "GET" => command.num = call.num
        /\ call.op = "SET" => payload = call.alloc

\* GET reads the registers, but it tells what the lists hold: the LDs it
\* reports have as many blocks as it says, unless the memory ran out when they
\* were set, and it leaves out no LD with blocks, unless the first LDs have
\* none (resour_mgt_exec_get_cmd stops at the first register of value zero).
GetTellsLists ==
    Answered /\ call.op = "GET" =>
        /\ \A i \in 1 .. command.num :
              payload[i] = count[i] \/ (short /\ payload[i] > count[i])
        /\ \A l \in LD : l > command.num /\ count[l] > 0 =>
              \A i \in 1 .. command.num + 1 : count[i] = 0

\* The FM gets an answer to everything it asks, also when it asks for more
\* blocks than there are (add_pb_into_ldlist gives up when the free list is
\* empty), if the CDMA ends every transfer (cdma_trans_exe polls without a
\* bound).
FmAnswered == doorbell ~> ~doorbell
=============================================================================
