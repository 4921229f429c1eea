--------------------------- MODULE SharedCapacity ---------------------------
(***************************************************************************)
(* What the references to tagged capacity promise: capacity exists exactly *)
(* as long as somebody uses it.  Hosts bring it into being or add to it,   *)
(* other hosts and the fabric manager join while it exists, and the last   *)
(* user that leaves takes it away.                                         *)
(***************************************************************************)
EXTENDS Naturals

CONSTANTS Tags,     \* names of pieces of capacity
          Hosts,
          Manager,  \* the fabric manager
          Lengths   \* how much a host may bring in at once

VARIABLES users,    \* who uses the capacity of a tag
          length    \* how much it is; 0 if there is none

sharedVars == <<users, length>>

SharedInit == users = [t \in Tags |-> {}] /\ length = [t \in Tags |-> 0]

Allocate(t, h, n) ==
    /\ users' = [users EXCEPT ![t] = @ \cup {h}]
    /\ length' = [length EXCEPT ![t] = @ + n]

Join(t, u) ==
    /\ users[t] # {}
    /\ users' = [users EXCEPT ![t] = @ \cup {u}]
    /\ UNCHANGED length

Leave(t, u) ==
    /\ users' = [users EXCEPT ![t] = @ \ {u}]
    /\ length' = IF users[t] = {u} THEN [length EXCEPT ![t] = 0] ELSE length

SharedNext ==
    \E t \in Tags :
        \/ \E h \in Hosts, n \in Lengths : Allocate(t, h, n)
        \/ \E u \in Hosts \cup {Manager} : Join(t, u) \/ Leave(t, u)

SharedSpec == SharedInit /\ [][SharedNext]_sharedVars
=============================================================================
