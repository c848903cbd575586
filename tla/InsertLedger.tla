----------------------------- MODULE InsertLedger -----------------------------
(***************************************************************************)
(* What the insert receipts promise (docs/apskel-design.md, "sync_receipts  *)
(* is the idempotency record"), with no client, network or database: a      *)
(* queued insert is open, its row is created at most once and only while it *)
(* is open, and it is acknowledged only after its row exists.               *)
(***************************************************************************)
EXTENDS Naturals

CONSTANT Keys
VARIABLES rows,     \* [Keys -> how many rows the key has created]
          outcome   \* [Keys -> "open" | "acked" | "dead"]

vars == <<rows, outcome>>

Init == /\ rows    = [k \in Keys |-> 0]
        /\ outcome = [k \in Keys |-> "open"]

Commit(k) ==
  /\ outcome[k] = "open" /\ rows[k] = 0
  /\ rows' = [rows EXCEPT ![k] = 1]
  /\ UNCHANGED outcome

Acknowledge(k) ==
  /\ outcome[k] = "open" /\ rows[k] = 1
  /\ outcome' = [outcome EXCEPT ![k] = "acked"]
  /\ UNCHANGED rows

Bury(k) ==
  /\ outcome[k] = "open"
  /\ outcome' = [outcome EXCEPT ![k] = "dead"]
  /\ UNCHANGED rows

Next == \E k \in Keys : Commit(k) \/ Acknowledge(k) \/ Bury(k)

Spec == Init /\ [][Next]_vars

=============================================================================
