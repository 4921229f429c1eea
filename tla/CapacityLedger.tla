--------------------------- MODULE CapacityLedger ---------------------------
(***************************************************************************)
(* What dynamic capacity bookkeeping promises, without lists or commands:  *)
(* every address the device has offered is in exactly one place, an offer  *)
(* is settled once and in order by splitting it between the host and the   *)
(* free pool, and the host gives back nothing it does not hold.            *)
(***************************************************************************)
EXTENDS Integers

CONSTANTS OfferSpaces   \* the address sets of the offers, in order

VARIABLES settled,   \* how many offers have been answered
          held,      \* addresses the host holds
          pool       \* addresses the device may use again

ledgerVars == <<settled, held, pool>>

LedgerInit == settled = 0 /\ held = {} /\ pool = {}

\* The host keeps any part of the next offer, the rest returns to the pool.
Settle ==
    /\ settled + 1 \in DOMAIN OfferSpaces
    /\ settled' = settled + 1
    /\ \E kept \in SUBSET OfferSpaces[settled + 1] :
        /\ held' = held \cup kept
        /\ pool' = pool \cup (OfferSpaces[settled + 1] \ kept)

\* The host gives back part of what it holds.
GiveBack ==
    /\ settled' = settled
    /\ held' \subseteq held
    /\ pool' = pool \cup (held \ held')

LedgerNext == Settle \/ GiveBack

LedgerSpec == LedgerInit /\ [][LedgerNext]_ledgerVars

\* A conservation law of the ledger: what has been offered is held or in the
\* pool, never both, and nothing else is.
Conserved ==
    /\ held \cap pool = {}
    /\ held \cup pool = UNION {OfferSpaces[i] : i \in 1 .. settled}
=============================================================================
