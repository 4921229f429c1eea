----------------------------- MODULE EventQueue -----------------------------
(***************************************************************************)
(* What the event log of one severity promises: a bounded queue from which *)
(* the host reads in order and drops what it has read.  Events that find   *)
(* the queue full are only counted.                                        *)
(***************************************************************************)
EXTENDS Naturals, Sequences

CONSTANTS Events,      \* the events that may happen
          Cap,         \* how many events are kept
          PayloadCap   \* how many events one reply holds

VARIABLES pending,  \* the events kept, oldest first
          read,     \* how many of them the host has read
          lost      \* how many events were not kept

vars == <<pending, read, lost>>

Init == pending = << >> /\ read = 0 /\ lost = 0

Generate(e) ==
    /\ IF Len(pending) < Cap
       THEN pending' = Append(pending, e) /\ UNCHANGED lost
       ELSE lost' = lost + 1 /\ UNCHANGED pending
    /\ UNCHANGED read

\* The host reads on; events that come meanwhile may stay unread.
Read(n) ==
    /\ read + n <= Len(pending)
    /\ read' = read + n
    /\ UNCHANGED <<pending, lost>>

\* The oldest event goes, if the host has read it.
Drop ==
    /\ read > 0
    /\ pending' = Tail(pending)
    /\ read' = read - 1
    /\ UNCHANGED lost

DropAll == pending' = << >> /\ read' = 0 /\ UNCHANGED lost

Next == \/ \E e \in Events : Generate(e)
        \/ \E n \in 1 .. PayloadCap : Read(n)
        \/ Drop
        \/ DropAll

Spec == Init /\ [][Next]_vars
=============================================================================
