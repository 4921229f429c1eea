-------------------------- MODULE FmMailbox_proofs --------------------------
(***************************************************************************)
(* Proofs about the fabric manager's commands, for any memory, number of   *)
(* LDs, bank size and requests: what the handler makes of them are the     *)
(* commands of the resource manager, and so what is proved of these in     *)
(* ResourceManager_proofs is true of what the FM asks through its mailbox; *)
(* and the answers are whole, and tell what the lists hold.                *)
(***************************************************************************)
EXTENDS FmMailbox, ResourceManager_proofs

\* The call and the conditions under which it is sent hold until it is
\* carried out.
Asked ==
    /\ call \in Calls
    /\ call.op = "SET" => FMMaySet(call.alloc)

HandlerInv ==
    /\ stage \in {"poll", "convert", "status", "command", "payload", "doorbell"}
    /\ stage # "status" => pc = "idle"
    /\ stage # "poll" => doorbell
    /\ doorbell /\ stage = "poll" =>
          command = [op |-> call.op, num |-> call.num] /\ payload = call.alloc
    /\ stage = "convert" =>
          /\ opcode = call.op /\ num = call.num
          /\ call.op = "SET" => alloc = call.alloc
    /\ doorbell /\ stage \in {"poll", "convert"} => Asked

LEMMA CallsAre ==
    ASSUME NEW c \in Calls
    PROVE  /\ c.op \in {"GET", "SET", "SET_GRAN", "RM_DISABLE", "SET_ID"}
           /\ c.op = "SET" => c.alloc \in Requests /\ c.num = Len(c.alloc)
           /\ c.op = "SET_GRAN" => c.num \in Grans
           /\ c.op = "SET_ID" => c.num \in Ids
           /\ c.num \in Nat /\ c.alloc \in Seq(Nat)
<1>1. CASE c = Call("GET", 0, << >>)
  BY <1>1 DEF Call
<1>2. ASSUME NEW r \in Requests, c = Call("SET", Len(r), r)
      PROVE  c.op = "SET" /\ c.num = Len(r) /\ c.alloc = r /\ r \in Seq(Nat) /\ Len(r) \in Nat
  <2>1. c.op = "SET" /\ c.num = Len(r) /\ c.alloc = r
    BY <1>2 DEF Call
  <2>. QED
    BY <2>1, RequestAssumption
<1>3. ASSUME NEW g \in Grans, c = Call("SET_GRAN", g, << >>)
      PROVE  c.op = "SET_GRAN" /\ c.num \in Grans /\ c.num \in Nat /\ c.alloc = << >>
  BY <1>3, Constants DEF Call
<1>4. ASSUME NEW n \in {0, 1}, c = Call("RM_DISABLE", n, << >>)
      PROVE  c.op = "RM_DISABLE" /\ c.num \in Nat /\ c.alloc = << >>
  BY <1>4 DEF Call
<1>5. ASSUME NEW n \in Ids, c = Call("SET_ID", n, << >>)
      PROVE  c.op = "SET_ID" /\ c.num \in Ids /\ c.num \in Nat /\ c.alloc = << >>
  BY <1>5, IdsAssumption DEF Call
<1>6. << >> \in Seq(Nat)
  OBVIOUS
<1>. QED
  BY <1>1, <1>2, <1>3, <1>4, <1>5, <1>6 DEF Calls

\* What the handler converts a call to is a step of the resource manager.
LEMMA ConvertStep ==
    ASSUME HandlerInv, Convert
    PROVE  /\ \/ UNCHANGED vars
              \/ \E r \in Requests : SetAllocation(r)
              \/ "granularity" \in Liberties /\ \E g \in Grans : SetGranularity(g)
           /\ opcode \in {"GET", "SET", "SET_GRAN", "RM_DISABLE", "SET_ID"}
<1>1. /\ stage = "convert" /\ pc = "idle" /\ call \in Calls
      /\ opcode = call.op /\ num = call.num /\ (call.op = "SET" => alloc = call.alloc)
      /\ call.op = "SET" => FMMaySet(call.alloc)
  BY DEF HandlerInv, Asked, Convert
<1>2. CASE Set
  <2>1. opcode = "SET" /\ Begin(alloc) /\ UNCHANGED <<lists, gran, ldn, bank, bram, reg, memory, bg>>
    BY <1>2 DEF Set
  <2>2. alloc \in Requests
    BY <1>1, <2>1, CallsAre
  <2>3. SetAllocation(alloc)
    BY <1>1, <2>1 DEF SetAllocation
  <2>. QED
    BY <2>1, <2>2, <2>3
<1>3. CASE SetGran
  <2>1. opcode = "SET_GRAN" /\ num \in Grans
    BY <1>1, <1>3, CallsAre DEF SetGran
  <2>2. UNCHANGED vars \/ SetGranularity(num)
    BY <1>3 DEF SetGran
  <2>3. SetGranularity(num) => "granularity" \in Liberties
    BY DEF SetGranularity
  <2>. QED
    BY <2>1, <2>2, <2>3
<1>4. CASE Get \/ SetDisable \/ SetId
  BY <1>4 DEF Get, SetDisable, SetId
<1>. QED
  BY <1>2, <1>3, <1>4 DEF Convert

LEMMA StepBusy == Step => pc # "idle"
BY DEF Step, AllocateLd, AddBlock, RemoveBlock, FinishLd, WriteRegister, DropLd,
       ClearRegister, Finish

LEMMA AskedKept ==
    ASSUME Asked, UNCHANGED <<call, count, tail, gran>>
    PROVE  Asked'
<1>1. FMMaySet(call.alloc)' <=> FMMaySet(call.alloc)
  BY DEF FMMaySet, Growth
<1>. QED
  BY <1>1 DEF Asked

LEMMA HandlerStep ==
    HandlerInv /\ [FmNext]_fmVars =>
        /\ HandlerInv'
        /\ [Change]_vars
        /\ "granularity" \notin Liberties => [Next]_vars
<1>. SUFFICES ASSUME HandlerInv, [FmNext]_fmVars
              PROVE  /\ HandlerInv'
                     /\ [Change]_vars
                     /\ "granularity" \notin Liberties => [Next]_vars
  OBVIOUS
<1>1. UNCHANGED vars => UNCHANGED <<count, tail, gran, pc>>
  BY DEF vars
<1>2. ASSUME NEW c \in Calls, Ask(c) PROVE HandlerInv' /\ UNCHANGED vars
  <2>1. /\ ~doorbell /\ doorbell' = TRUE /\ stage' = stage /\ stage = "poll" /\ pc = "idle"
        /\ call' = c /\ command' = [op |-> c.op, num |-> c.num] /\ payload' = c.alloc
        /\ UNCHANGED vars
        /\ c.op = "SET" => FMMaySet(c.alloc)
    BY <1>2 DEF Ask, locals, HandlerInv
  <2>2. FMMaySet(c.alloc) => FMMaySet(call.alloc)'
    BY <1>1, <2>1 DEF FMMaySet, Growth
  <2>3. Asked'
    BY <1>1, <2>1, <2>2 DEF Asked
  <2>. QED
    BY <1>1, <2>1, <2>3 DEF HandlerInv
<1>3. CASE ReadCall
  <2>1. /\ stage = "poll" /\ doorbell /\ opcode' = command.op /\ num' = command.num
        /\ alloc' = (IF command.op = "SET" THEN payload ELSE << >>) /\ stage' = "convert"
        /\ UNCHANGED vars /\ UNCHANGED <<doorbell, call>>
    BY <1>3 DEF ReadCall, registers
  <2>2. /\ command = [op |-> call.op, num |-> call.num] /\ payload = call.alloc
        /\ Asked /\ pc = "idle"
    BY <2>1 DEF HandlerInv
  <2>3. command.op = call.op /\ command.num = call.num
    BY <2>2
  <2>4. Asked'
    BY <1>1, <2>1, <2>2, AskedKept
  <2>5. HandlerInv'
    BY <1>1, <2>1, <2>2, <2>3, <2>4 DEF HandlerInv
  <2>. QED
    BY <2>1, <2>5
<1>4. CASE Convert
  <2>1. stage' = "status" /\ UNCHANGED <<doorbell, call>> /\ doorbell
    BY <1>4 DEF Convert, registers, HandlerInv
  <2>2. HandlerInv'
    BY <2>1 DEF HandlerInv
  <2>. QED
    BY <1>4, <2>2, ConvertStep DEF Change, Next
<1>5. CASE Work
  <2>1. Step /\ stage = "status" /\ UNCHANGED <<stage, doorbell>> /\ doorbell
    BY <1>5, StepBusy DEF Work, locals, HandlerInv
  <2>2. HandlerInv'
    BY <2>1 DEF HandlerInv
  <2>. QED
    BY <2>1, <2>2 DEF Change, Next
<1>6. CASE SetStatus \/ SendCommand \/ SendPayload
  <2>1. /\ UNCHANGED vars /\ stage' \in {"command", "payload", "doorbell"} /\ pc = "idle"
        /\ doorbell /\ doorbell' = doorbell
    BY <1>6 DEF SetStatus, SendCommand, SendPayload, HandlerInv
  <2>2. HandlerInv'
    BY <1>1, <2>1 DEF HandlerInv
  <2>. QED
    BY <2>1, <2>2
<1>7. CASE ClearDoorbell
  <2>1. UNCHANGED vars /\ stage' = "poll" /\ pc = "idle" /\ doorbell' = FALSE
    BY <1>7 DEF ClearDoorbell, HandlerInv
  <2>2. HandlerInv'
    BY <1>1, <2>1 DEF HandlerInv
  <2>. QED
    BY <2>1, <2>2
<1>8. CASE UNCHANGED fmVars
  <2>1. UNCHANGED vars /\ UNCHANGED <<doorbell, command, payload, stage, opcode, num, alloc, call>>
    BY <1>8 DEF fmVars, mailbox, registers, locals
  <2>2. Asked => Asked'
    BY <1>1, <2>1, AskedKept
  <2>3. HandlerInv'
    BY <1>1, <2>1, <2>2 DEF HandlerInv
  <2>. QED
    BY <2>1, <2>3
<1>9. CASE Engine
  <2>1. /\ ZeroBlock /\ UNCHANGED <<count, tail, gran, pc>>
        /\ UNCHANGED <<doorbell, command, payload, stage, opcode, num, alloc, call>>
    BY <1>9 DEF Engine, ZeroBlock, lists, control, mailbox, registers, locals
  <2>2. Asked => Asked'
    BY <2>1, AskedKept
  <2>3. HandlerInv'
    BY <2>1, <2>2 DEF HandlerInv
  <2>. QED
    BY <2>1, <2>3 DEF Change, Next
<1>. QED
  BY <1>2, <1>3, <1>4, <1>5, <1>6, <1>7, <1>8, <1>9 DEF FmNext, Handler

LEMMA InitialHandler == FmInit => Init /\ HandlerInv
BY DEF FmInit, Init, HandlerInv

\* Without changes of granularity, all that the FM's calls do to lists, map,
\* registers and memory are steps of the resource manager
\* (fm_mailbox_cmd_conversion).
THEOREM FmCallsAreCommands ==
    ASSUME "granularity" \notin Liberties
    PROVE  FmSpec => Spec
BY InitialHandler, HandlerStep, PTL DEF FmSpec, Spec

\* Whatever the FM asks for through its mailbox, changes of granularity and maps
\* longer than a bank included, a command for a map that fits into a bank writes
\* to no entry in use, if the map in use fits into its bank as well.
THEOREM MapStableForCalls == FmSpec => ActiveMapStable
BY InitialHandler, HandlerStep, InitCommand, CommandStep, MapKeptStep, PTL
   DEF FmSpec, ActiveMapStable, MapKept, Fitting

-----------------------------------------------------------------------------
(* The answers.                                                            *)

\* What the handler has at hand, and what it has written of it.
AnswerInv ==
    /\ stage \in {"status", "command", "payload", "doorbell"} =>
          /\ opcode = call.op
          /\ call.op # "GET" => num = call.num
          /\ call.op = "SET" => alloc = call.alloc
    /\ stage \in {"command", "payload", "doorbell"} => status = 0
    /\ stage \in {"payload", "doorbell"} => command = [op |-> opcode, num |-> num]
    /\ stage = "doorbell" => payload = alloc
    /\ Answered =>
          /\ status = 0
          /\ command.op = call.op
          /\ call.op # "GET" => command.num = call.num
          /\ call.op = "SET" => payload = call.alloc

LEMMA ConvertKeeps ==
    ASSUME Convert
    PROVE  /\ opcode # "GET" => num' = num /\ alloc' = alloc
           /\ UNCHANGED <<doorbell, command, payload, status, opcode, call>>
           /\ stage = "convert" /\ stage' = "status"
<1>1. opcode # "GET" => num' = num /\ alloc' = alloc
  BY DEF Convert, Get, Set, SetGran, SetDisable, SetId
<1>2. /\ UNCHANGED <<doorbell, command, payload, status, opcode, call>>
      /\ stage = "convert" /\ stage' = "status"
  BY DEF Convert, registers
<1>. QED
  BY <1>1, <1>2

LEMMA AnswerStep == HandlerInv /\ AnswerInv /\ [FmNext]_fmVars => AnswerInv'
<1>. SUFFICES ASSUME HandlerInv, AnswerInv, [FmNext]_fmVars PROVE AnswerInv'
  OBVIOUS
<1>0. stage # "poll" => doorbell
  BY DEF HandlerInv
<1>1. ASSUME NEW c \in Calls, Ask(c) PROVE AnswerInv'
  <2>1. doorbell' = TRUE /\ stage' = "poll"
    BY <1>0, <1>1 DEF Ask, locals
  <2>. QED
    BY <2>1 DEF AnswerInv, Answered
<1>2. CASE ReadCall
  <2>1. stage' = "convert" /\ doorbell' = doorbell /\ doorbell
    BY <1>2 DEF ReadCall, registers
  <2>. QED
    BY <2>1 DEF AnswerInv, Answered
<1>3. CASE Convert
  <2>1. /\ UNCHANGED <<doorbell, opcode, call>> /\ stage = "convert" /\ stage' = "status"
        /\ opcode # "GET" => num' = num /\ alloc' = alloc
    BY <1>3, ConvertKeeps
  <2>2. /\ opcode = call.op /\ num = call.num /\ (call.op = "SET" => alloc = call.alloc)
        /\ doorbell
    BY <2>1 DEF HandlerInv
  <2>. QED
    BY <2>1, <2>2 DEF AnswerInv, Answered
<1>4. CASE Work
  <2>1. stage = "status" /\ UNCHANGED <<doorbell, stage, opcode, num, alloc, call>>
    BY <1>4, StepBusy DEF Work, locals, HandlerInv
  <2>. QED
    BY <1>0, <2>1 DEF AnswerInv, Answered
<1>5. CASE SetStatus
  <2>1. /\ stage = "status" /\ stage' = "command" /\ status' = 0
        /\ UNCHANGED <<doorbell, opcode, num, alloc, call>>
    BY <1>5 DEF SetStatus
  <2>. QED
    BY <1>0, <2>1 DEF AnswerInv, Answered
<1>6. CASE SendCommand
  <2>1. /\ stage = "command" /\ stage' = "payload" /\ command' = [op |-> opcode, num |-> num]
        /\ UNCHANGED <<doorbell, status, opcode, num, alloc, call>>
    BY <1>6 DEF SendCommand
  <2>. QED
    BY <1>0, <2>1 DEF AnswerInv, Answered
<1>7. CASE SendPayload
  <2>1. /\ stage = "payload" /\ stage' = "doorbell" /\ payload' = alloc
        /\ UNCHANGED <<doorbell, command, status, opcode, num, alloc, call>>
    BY <1>7 DEF SendPayload
  <2>. QED
    BY <1>0, <2>1 DEF AnswerInv, Answered
<1>8. CASE ClearDoorbell
  <2>1. /\ stage = "doorbell" /\ stage' = "poll" /\ doorbell' = FALSE
        /\ UNCHANGED <<command, payload, status, opcode, num, alloc, call>>
    BY <1>8 DEF ClearDoorbell
  <2>2. /\ command = [op |-> opcode, num |-> num] /\ payload = alloc /\ status = 0
        /\ opcode = call.op /\ (call.op # "GET" => num = call.num)
        /\ call.op = "SET" => alloc = call.alloc
    BY <2>1 DEF AnswerInv
  <2>3. command.op = opcode /\ command.num = num
    BY <2>2
  <2>. QED
    BY <2>1, <2>2, <2>3 DEF AnswerInv
<1>9. CASE UNCHANGED fmVars \/ Engine
  BY <1>9 DEF fmVars, Engine, mailbox, registers, locals, AnswerInv, Answered
<1>. QED
  BY <1>1, <1>2, <1>3, <1>4, <1>5, <1>6, <1>7, <1>8, <1>9 DEF FmNext, Handler

LEMMA InitialAnswer == FmInit => AnswerInv
BY DEF FmInit, AnswerInv, Answered

\* An orderly FM that finds the doorbell clear has the whole answer to what it
\* asked, and nothing of the command goes on (samt_fm_mailbox_handler).
THEOREM AnswersAreFinal ==
    ASSUME Orderly, "granularity" \notin Liberties
    PROVE  FmSpec => []AnswerIsFinal
<1>1. Init => Background
  BY DEF Init, Background
<1>2. HandlerInv /\ AnswerInv /\ Background => AnswerIsFinal
  BY DEF HandlerInv, AnswerInv, Background, AnswerIsFinal, Answered
<1>. QED
  BY <1>1, <1>2, InitialHandler, HandlerStep, InitialAnswer, AnswerStep,
     InitialListInv, ListStep, BackgroundStep, PTL DEF FmSpec

-----------------------------------------------------------------------------
(* What GET tells.                                                         *)

Told == [i \in 1 .. FoundLds |-> reg[i].blocks % 256]

\* While the FM has the answer to a GET, or is about to have it, it is true.
GetInv ==
    call.op = "GET" =>
        /\ stage \in {"status", "command", "payload", "doorbell"} =>
              pc = "idle" /\ num = FoundLds /\ alloc = Told
        /\ Answered => pc = "idle" /\ command.num = FoundLds /\ payload = Told

\* The LDs that are counted have the blocks that the registers say, and if
\* another one has blocks the counted ones have none: their maps lie before
\* one that begins at entry 0.
LEMMA FoundBlocks ==
    ASSUME Units <= 256, ListInv, MapInv, pc = "idle"
    PROVE  /\ \A i \in 1 .. FoundLds : Told[i] = count[i]
           /\ \A l \in LD : l > FoundLds /\ count[l] > 0 =>
                 \A i \in 1 .. FoundLds + 1 : count[i] = 0
<1>1. /\ ldn \in 0 .. MaxLd /\ ldn \in Nat /\ reg \in [LD -> [blocks : Nat, base : Nat]]
      /\ count \in [Lists -> Nat] /\ count[Free] > 0
      /\ FoundLds \in 0 .. ldn /\ (FoundLds < ldn => reg[FoundLds + 1] = NoMap)
  BY FoundLdsType DEF ListInv, CommandInv, Control, CommandType, Listed, ListType, Supply
<1>2. \A l \in LD : reg[l].blocks = count[l] /\ (l > ldn => reg[l].blocks = 0)
  BY DEF ListInv, Sizes, Done, Current, CommandInv, Registers, Built
<1>3. ASSUME NEW l \in LD PROVE count[l] < Units
  <2>1. l \in Lists /\ Free \in Lists /\ l # Free
    BY LdLists
  <2>2. /\ IsFiniteSet(Lists) /\ DOMAIN count = Lists
        /\ \A m \in Lists : count[m] \in Nat /\ count[m] \in Int
    BY <1>1, ListsFinite
  <2>3. SumFunctionOnSet(count, Lists) = count[Free] + SumFunctionOnSet(count, Lists \ {Free})
    BY <2>1, <2>2, SumRemove
  <2>4. IsFiniteSet(Lists \ {Free}) /\ l \in Lists \ {Free}
    BY <2>1, <2>2, FS_RemoveElement
  <2>5. count[l] <= SumFunctionOnSet(count, Lists \ {Free})
    BY <2>2, <2>4, SumEntry
  <2>6. SumFunctionOnSet(count, Lists \ {Free}) \in Nat
    BY <2>2, <2>4, SumNat
  <2>7. SumFunctionOnSet(count, Lists) = Units
    BY <2>2 DEF ListInv, Listed, Counted, SumFunction
  <2>. QED
    BY <1>1, <2>1, <2>2, <2>3, <2>5, <2>6, <2>7
<1>4. ASSUME NEW i \in 1 .. FoundLds PROVE Told[i] = count[i]
  <2>1. i \in LD
    BY <1>1, Constants DEF LD
  <2>2. count[i] \in Nat /\ count[i] < 256
    BY <1>1, <1>3, <2>1, LdLists, Constants
  <2>3. count[i] % 256 = count[i]
    BY <2>2
  <2>. QED
    BY <1>2, <2>1, <2>3 DEF Told
<1>5. ASSUME NEW l \in LD, l > FoundLds, count[l] > 0, NEW i \in 1 .. FoundLds + 1
      PROVE  count[i] = 0
  <2>. DEFINE m == FoundLds + 1
  <2>1. l <= ldn
    <3>1. reg[l].blocks # 0 /\ l \in Nat
      BY <1>2, <1>5, LdLists
    <3>. QED
      BY <1>1, <1>2, <3>1
  <2>2. m \in 1 .. ldn /\ reg[m] = NoMap /\ \A j \in 1 .. m : j \in LD
    BY <1>1, <1>5, <2>1, Constants DEF LD
  <2>3. reg[m].blocks = 0 /\ reg[m].base = 0
    BY <2>2 DEF NoMap
  <2>4. ASSUME NEW j \in 1 .. m - 1
        PROVE  /\ reg[j + 1].base = reg[j].base + reg[j].blocks
               /\ reg[j].base \in Nat /\ reg[j].blocks \in Nat
    <3>1. j \in 1 .. ldn - 1 /\ j \in LD
      BY <1>1, <2>2
    <3>. QED
      BY <1>1, <3>1 DEF MapInv, Source
  <2>. HIDE DEF m
  <2>5. \A j \in 0 .. m - 1 : reg[m - j].base = 0
    <3>. DEFINE Bad == {j \in 0 .. m - 1 : reg[m - j].base # 0}
    <3>1. ASSUME Bad # {} PROVE FALSE
      <4>1. Bad \in SUBSET Nat
        OBVIOUS
      <4>2. PICK j \in Bad : \A k \in Bad : j <= k
        <5>. HIDE DEF Bad
        <5>. QED
          BY <3>1, <4>1, LeastMember
      <4>3. j \in 0 .. m - 1 /\ reg[m - j].base # 0 /\ j # 0
        BY <2>2, <2>3
      <4>4. j - 1 \in 0 .. m - 1 /\ j - 1 \notin Bad
        BY <2>2, <4>2, <4>3
      <4>5. m - j \in 1 .. m - 1 /\ (m - j) + 1 = m - (j - 1)
        BY <2>2, <4>3
      <4>6. reg[m - (j - 1)].base = 0
        BY <4>4
      <4>. QED
        BY <2>4, <4>3, <4>5, <4>6
    <3>. QED
      BY <3>1
  <2>6. CASE i = m
    BY <1>2, <2>2, <2>3, <2>6
  <2>7. CASE i # m
    <3>1. i \in 1 .. m - 1 /\ m - (m - (i + 1)) = i + 1 /\ m - (i + 1) \in 0 .. m - 1
      BY <2>2, <2>7 DEF m
    <3>2. reg[i + 1].base = 0
      BY <2>5, <3>1
    <3>3. reg[i].blocks = 0
      BY <2>4, <3>1, <3>2
    <3>. QED
      BY <1>2, <2>2, <3>1, <3>3
  <2>. QED
    BY <2>6, <2>7
<1>. QED
  BY <1>4, <1>5

LEMMA GetStep ==
    "granularity" \notin Liberties /\ CommandInv /\ HandlerInv /\ AnswerInv /\ GetInv
    /\ [FmNext]_fmVars => GetInv'
<1>. SUFFICES ASSUME "granularity" \notin Liberties, CommandInv, HandlerInv, AnswerInv, GetInv,
                     [FmNext]_fmVars
              PROVE  GetInv'
  OBVIOUS
<1>0. stage # "poll" => doorbell
  BY DEF HandlerInv
<1>1. ASSUME UNCHANGED vars PROVE Told' = Told /\ FoundLds' = FoundLds /\ pc' = pc
  BY <1>1 DEF vars, Told, FoundLds
<1>2. ASSUME NEW c \in Calls, Ask(c) PROVE GetInv'
  <2>1. doorbell' = TRUE /\ stage' = "poll"
    BY <1>0, <1>2 DEF Ask, locals
  <2>. QED
    BY <2>1 DEF GetInv, Answered
<1>3. CASE ReadCall
  <2>1. stage' = "convert" /\ doorbell' = doorbell /\ doorbell
    BY <1>3 DEF ReadCall, registers
  <2>. QED
    BY <2>1 DEF GetInv, Answered
<1>4. CASE Convert
  <2>1. /\ UNCHANGED <<doorbell, opcode, call>> /\ stage = "convert" /\ stage' = "status"
    BY <1>4, ConvertKeeps
  <2>2. opcode = call.op /\ doorbell /\ pc = "idle"
    BY <2>1 DEF HandlerInv
  <2>3. ASSUME opcode = "GET" PROVE GetInv'
    <3>1. Get
      BY <1>4, <2>3 DEF Convert, Set, SetGran, SetDisable, SetId
    <3>2. UNCHANGED vars /\ num' = FoundLds /\ alloc' = Told
      BY <3>1 DEF Get, Told
    <3>. QED
      BY <1>1, <2>1, <2>2, <3>2 DEF GetInv, Answered
  <2>. QED
    BY <2>1, <2>2, <2>3 DEF GetInv
<1>5. CASE Work
  <2>1. /\ stage = "status" /\ UNCHANGED <<doorbell, call>> /\ pc # "idle" /\ doorbell
    BY <1>0, <1>5, StepBusy DEF Work, locals, HandlerInv
  <2>2. call.op # "GET"
    BY <2>1 DEF GetInv
  <2>. QED
    BY <2>1, <2>2 DEF GetInv
<1>6. CASE SetStatus \/ SendCommand \/ SendPayload
  <2>1. /\ UNCHANGED vars /\ UNCHANGED <<doorbell, num, alloc, call>>
        /\ stage \in {"status", "command", "payload"} /\ doorbell
    BY <1>0, <1>6 DEF SetStatus, SendCommand, SendPayload
  <2>. QED
    BY <1>1, <2>1 DEF GetInv, Answered
<1>7. CASE ClearDoorbell
  <2>1. /\ UNCHANGED vars /\ UNCHANGED <<command, payload, call>>
        /\ stage = "doorbell" /\ stage' = "poll"
    BY <1>7 DEF ClearDoorbell
  <2>2. command = [op |-> opcode, num |-> num] /\ payload = alloc
    BY <2>1 DEF AnswerInv
  <2>3. command.num = num
    BY <2>2
  <2>. QED
    BY <1>1, <2>1, <2>2, <2>3 DEF GetInv
<1>8. CASE UNCHANGED fmVars
  <2>1. UNCHANGED vars /\ UNCHANGED <<doorbell, command, payload, stage, num, alloc, call>>
    BY <1>8 DEF fmVars, mailbox, registers, locals
  <2>. QED
    BY <1>1, <2>1 DEF GetInv, Answered
<1>9. CASE Engine
  <2>1. /\ UNCHANGED <<ldn, reg, pc>>
        /\ UNCHANGED <<doorbell, command, payload, stage, num, alloc, call>>
    BY <1>9 DEF Engine, ZeroBlock, control, mailbox, registers, locals
  <2>2. Told' = Told /\ FoundLds' = FoundLds
    BY <2>1 DEF Told, FoundLds
  <2>. QED
    BY <2>1, <2>2 DEF GetInv, Answered
<1>. QED
  BY <1>2, <1>3, <1>4, <1>5, <1>6, <1>7, <1>8, <1>9 DEF FmNext, Handler

LEMMA InitialGet == FmInit => GetInv
BY DEF FmInit, GetInv, NoCall, Call

LEMMA ToldIsRight ==
    Units <= 256 /\ ListInv /\ MapInv /\ HandlerInv /\ GetInv => GetTellsLists
<1>. SUFFICES ASSUME Units <= 256, ListInv, MapInv, HandlerInv, GetInv, Answered, call.op = "GET"
              PROVE  /\ \A i \in 1 .. command.num : payload[i] = count[i]
                     /\ \A l \in LD : l > command.num /\ count[l] > 0 =>
                           \A i \in 1 .. command.num + 1 : count[i] = 0
  BY DEF GetTellsLists
<1>1. pc = "idle" /\ command.num = FoundLds /\ payload = Told
  BY DEF GetInv
<1>. QED
  BY <1>1, FoundBlocks

\* With no more than 256 blocks, of which there are 128 (MAX_PHYSICAL_BLOCK_NUM
\* in node_list.h), what GET tells an orderly FM is what the lists hold
\* (resour_mgt_exec_get_cmd, which reads the registers).
THEOREM GetIsTrue ==
    ASSUME Orderly, "granularity" \notin Liberties, Units <= 256
    PROVE  FmSpec => []GetTellsLists
<1>1. ListInv => CommandInv
  BY DEF ListInv
<1>. QED
  BY <1>1, InitialHandler, HandlerStep, InitialAnswer, AnswerStep, InitialGet, GetStep,
     InitialListInv, ListStep, InitialMapInv, MapStep, ToldIsRight, PTL DEF FmSpec

-----------------------------------------------------------------------------
(* Types.                                                                  *)

MailboxType ==
    /\ doorbell \in BOOLEAN /\ status \in {0, 1} /\ inactive \in BOOLEAN
    /\ device \in 0 .. 32
    /\ command.num \in Nat /\ payload \in Seq(Nat) /\ alloc \in Seq(Nat)
    /\ num \in Nat /\ call \in Calls \cup {NoCall} /\ short \in BOOLEAN

LEMMA ToldType == CommandInv => FoundLds \in Nat /\ Told \in Seq(Nat)
<1>. SUFFICES ASSUME CommandInv PROVE FoundLds \in Nat /\ Told \in Seq(Nat)
  OBVIOUS
<1>1. FoundLds \in 0 .. ldn /\ ldn \in 0 .. MaxLd /\ reg \in [LD -> [blocks : Nat, base : Nat]]
  BY FoundLdsType DEF CommandInv, Control, CommandType
<1>2. FoundLds \in Nat /\ \A i \in 1 .. FoundLds : i \in LD
  BY <1>1, Constants DEF LD
<1>3. \A i \in 1 .. FoundLds : reg[i].blocks \in Nat
  BY <1>1, <1>2
<1>4. \A i \in 1 .. FoundLds : reg[i].blocks % 256 \in Nat
  BY <1>3
<1>5. Told \in [1 .. FoundLds -> Nat]
  BY <1>4 DEF Told
<1>. QED
  BY <1>2, <1>5

LEMMA ConvertTypes ==
    ASSUME CommandInv, HandlerInv, MailboxType, Convert
    PROVE  /\ inactive' \in BOOLEAN /\ device' \in 0 .. 32 /\ short' \in BOOLEAN
           /\ num' \in Nat /\ alloc' \in Seq(Nat)
<1>0. stage = "convert"
  BY DEF Convert
<1>1. /\ opcode = call.op /\ num = call.num /\ call \in Calls
      /\ inactive \in BOOLEAN /\ device \in 0 .. 32 /\ short \in BOOLEAN
      /\ num \in Nat /\ alloc \in Seq(Nat)
  <2>1. opcode = call.op /\ num = call.num /\ call \in Calls
    BY <1>0 DEF HandlerInv, Asked
  <2>. QED
    BY <2>1 DEF MailboxType
<1>2. CASE Get
  <2>1. num' = FoundLds /\ alloc' = Told /\ UNCHANGED <<inactive, device, short>>
    BY <1>2 DEF Get, targets, Told
  <2>. QED
    BY <1>1, <2>1, ToldType
<1>3. CASE Set
  BY <1>1, <1>3 DEF Set, targets
<1>4. CASE SetGran
  BY <1>1, <1>4 DEF SetGran, targets
<1>5. CASE SetDisable
  <2>1. inactive' \in BOOLEAN
    BY <1>5 DEF SetDisable
  <2>. QED
    BY <1>1, <1>5, <2>1 DEF SetDisable
<1>6. CASE SetId
  <2>1. num \in Ids
    BY <1>1, <1>6, CallsAre DEF SetId
  <2>2. device' = 16 + num /\ num \in 0 .. 16
    BY <1>6, <2>1, IdsAssumption DEF SetId
  <2>3. device' \in 0 .. 32
    BY <2>2
  <2>. QED
    BY <1>1, <1>6, <2>3 DEF SetId
<1>. QED
  BY <1>2, <1>3, <1>4, <1>5, <1>6 DEF Convert

LEMMA MailboxTypeStep ==
    CommandInv /\ HandlerInv /\ MailboxType /\ [FmNext]_fmVars => MailboxType'
<1>. SUFFICES ASSUME CommandInv, HandlerInv, MailboxType, [FmNext]_fmVars PROVE MailboxType'
  OBVIOUS
<1>0. stage # "poll" => doorbell
  BY DEF HandlerInv
<1>1. ASSUME NEW c \in Calls, Ask(c) PROVE MailboxType'
  <2>1. c.num \in Nat /\ c.alloc \in Seq(Nat)
    BY CallsAre
  <2>2. /\ call' = c /\ command' = [op |-> c.op, num |-> c.num] /\ payload' = c.alloc
        /\ doorbell' = TRUE
        /\ UNCHANGED <<status, inactive, device, stage, num, alloc, short>>
    BY <1>1 DEF Ask, targets, locals
  <2>3. command'.num = c.num
    BY <2>2
  <2>. QED
    BY <2>1, <2>2, <2>3 DEF MailboxType
<1>2. CASE ReadCall
  BY <1>2 DEF ReadCall, registers, targets, MailboxType
<1>3. CASE Convert
  <2>1. UNCHANGED <<doorbell, command, payload, status, call>> /\ stage' = "status"
    BY <1>3, ConvertKeeps
  <2>. QED
    BY <1>3, <2>1, ConvertTypes DEF MailboxType
<1>4. CASE Work
  <2>1. status' \in {0, 1}
    BY <1>4 DEF Work, MailboxType
  <2>2. short' \in BOOLEAN
    BY <1>4 DEF Work
  <2>3. UNCHANGED <<doorbell, command, payload, inactive, device, stage, num, alloc, call>>
    BY <1>4 DEF Work, locals, targets
  <2>. QED
    BY <2>1, <2>2, <2>3 DEF MailboxType
<1>5. CASE SetStatus
  BY <1>5 DEF SetStatus, targets, MailboxType
<1>6. CASE SendCommand
  <2>1. /\ command' = [op |-> opcode, num |-> num] /\ stage' = "payload"
        /\ UNCHANGED <<doorbell, payload, status, inactive, device, num, alloc, call, short>>
    BY <1>6 DEF SendCommand, targets
  <2>2. command'.num = num
    BY <2>1
  <2>. QED
    BY <2>1, <2>2 DEF MailboxType
<1>7. CASE SendPayload
  BY <1>7 DEF SendPayload, targets, MailboxType
<1>8. CASE ClearDoorbell
  BY <1>8 DEF ClearDoorbell, targets, MailboxType
<1>9. CASE UNCHANGED fmVars \/ Engine
  BY <1>9 DEF fmVars, Engine, mailbox, registers, locals, targets, MailboxType
<1>. QED
  BY <1>1, <1>2, <1>3, <1>4, <1>5, <1>6, <1>7, <1>8, <1>9 DEF FmNext, Handler

LEMMA InitialMailbox == FmInit => MailboxType
<1>1. NoCall.num = 0
  BY DEF NoCall, Call
<1>2. << >> \in Seq(Nat)
  OBVIOUS
<1>3. FmInit => doorbell \in BOOLEAN /\ inactive \in BOOLEAN /\ short \in BOOLEAN
  BY DEF FmInit
<1>4. FmInit => device \in 0 .. 32 /\ num \in Nat
  BY DEF FmInit
<1>. QED
  BY <1>1, <1>2, <1>3, <1>4 DEF FmInit, MailboxType

\* As long as the FM is orderly every variable of mailbox and resource manager
\* has its type.
THEOREM FmTypesHold ==
    ASSUME Orderly, "granularity" \notin Liberties
    PROVE  FmSpec => []FmTypeOK
<1>1. FmSpec => []TypeOK
  BY FmCallsAreCommands, TypesHold, PTL
<1>2. TypeOK /\ HandlerInv /\ MailboxType => FmTypeOK
  BY DEF FmTypeOK, HandlerInv, MailboxType
<1>. QED
  BY <1>1, <1>2, InitialHandler, HandlerStep, InitCommand, CommandStep,
     InitialMailbox, MailboxTypeStep, PTL DEF FmSpec
=============================================================================
