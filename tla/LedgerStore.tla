---------------------------- MODULE LedgerStore ----------------------------
(***************************************************************************)
(* What the local cost ledger promises its callers (packages/costs/src/    *)
(* ledger): a record it acknowledged is on disk and stays there.  A record *)
(* it did not acknowledge may be on disk too, when the process stopped or  *)
(* the storage failed after the write, and may then be taken back.  The    *)
(* promise ends when a failed write could not be taken back either.        *)
(***************************************************************************)
CONSTANT RecordIds

VARIABLES
  records,  \* ids of the records a reader of the ledger finds
  acked,    \* ids an append reported as "appended" or "duplicate"
  intact    \* no recovery of a failed write has failed

vars == <<records, acked, intact>>

Init == records = {} /\ acked = {} /\ intact = TRUE

Persist(id) ==
  /\ id \notin records
  /\ records' = records \cup {id}
  /\ UNCHANGED acked

TakeBack(id) ==
  /\ id \in records \ acked
  /\ records' = records \ {id}
  /\ UNCHANGED acked

Acknowledge(id) ==
  /\ records' = records \cup {id}
  /\ acked' = acked \cup {id}

Intact == intact' = TRUE /\ intact = TRUE

Kept ==
  /\ Intact
  /\ \E id \in RecordIds : Persist(id) \/ TakeBack(id) \/ Acknowledge(id)

Broken ==
  /\ intact' = FALSE
  /\ records' \in SUBSET RecordIds
  /\ acked' \in SUBSET RecordIds

Next == Kept \/ Broken

Spec == Init /\ [][Next]_vars
=============================================================================
