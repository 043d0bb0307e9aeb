----------------------------- MODULE MCAuditChain -----------------------------
(***************************************************************************)
(* Small instances of AuditChain: settlements append two events in one     *)
(* transaction, every other writer appends one.                            *)
(***************************************************************************)
EXTENDS AuditChain, TLC

CONSTANTS settle1, settle2, settle3, edit, revoke

Settlements == {settle1, settle2, settle3}

MCIsolation ==
  [t \in Transactions |->
     CASE t \in Settlements -> "Serializable"
       [] t = edit -> "ReadCommitted"
       [] t = revoke -> "Autocommit"]

MCAppends == [t \in Transactions |-> IF t \in Settlements THEN 2 ELSE 1]
=============================================================================
