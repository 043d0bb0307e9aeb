-------------------------- MODULE SettlementLedger --------------------------
(***************************************************************************)
(* What settlementService.ts promises of the settlements table, and no     *)
(* more: rows are only ever added, and an idempotency key names at most    *)
(* one row for ever.  A call that presents a key already in the ledger is  *)
(* answered from the ledger, which is a stuttering step here.              *)
(***************************************************************************)
CONSTANT Entry          \* the rows that can be written; each has a field key

VARIABLE ledger         \* the rows written so far

LedgerInit == ledger = {}

(***************************************************************************)
(* Write row e under a key the ledger does not hold yet.                   *)
(***************************************************************************)
Record(e) ==
  /\ e \in Entry
  /\ \A x \in ledger : x.key # e.key
  /\ ledger' = ledger \cup {e}

(***************************************************************************)
(* The row written is one of those the step adds, which spares TLC the     *)
(* enumeration of Entry.                                                   *)
(***************************************************************************)
LedgerNext == \E e \in ledger' \ ledger : Record(e)

LedgerSpec == LedgerInit /\ [][LedgerNext]_ledger
=============================================================================
