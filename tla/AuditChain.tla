------------------------------ MODULE AuditChain ------------------------------
(***************************************************************************)
(* The hash chain of audit_events (broker/src/services/auditChain.ts) and  *)
(* the PostgreSQL transactions that append to it.                          *)
(*                                                                         *)
(* A row's sequence comes from a database sequence: it is drawn by the     *)
(* INSERT, never drawn again, and lost when the transaction rolls back.    *)
(* SHA-256 is taken to be collision-free, so a hash names one row, and the *)
(* row's sequence stands for its hash; 0 stands for the genesis hash "0".  *)
(***************************************************************************)
EXTENDS Integers, FiniteSetsExt

CONSTANTS
  Transactions,  \* bound: the transactions of a behaviour
  Isolation,     \* the isolation level each one asks for
  Appends        \* the number of events each one appends

Levels == {"Serializable",   \* commitSettlement
           "ReadCommitted",  \* prisma.$transaction without options
           "Autocommit"}     \* the PrismaClient itself passed as txClient

ASSUME AuditAssumption ==
  /\ Isolation \in [Transactions -> Levels]
  /\ Appends \in [Transactions -> Nat \ {0}]

VARIABLES
  auditEvents,   \* the committed rows
  nextSequence,  \* the database sequence behind AuditEvent.sequence
  pc,            \* what each transaction does next
  snapshot,      \* the rows that were committed at its first statement
  own,           \* the rows it inserted
  previousHash   \* the local variable of appendAuditEvent

vars == <<auditEvents, nextSequence, pc, snapshot, own, previousHash>>

AuditEvent == [sequence : Nat \ {0}, previousHash : Nat, writer : Transactions]

TypeOK ==
  /\ auditEvents \subseteq AuditEvent
  /\ nextSequence \in Nat \ {0}
  /\ pc \in [Transactions ->
               {"idle", "read", "insert", "commit", "done", "aborted"}]
  /\ snapshot \in [Transactions -> SUBSET AuditEvent]
  /\ own \in [Transactions -> SUBSET AuditEvent]
  /\ previousHash \in [Transactions -> Nat]

(***************************************************************************)
(* Mutant: the database sequence starts at the number of the genesis hash. *)
(***************************************************************************)
InitAtGenesis ==
  /\ auditEvents = {}
  /\ nextSequence = 0
  /\ pc = [t \in Transactions |-> "idle"]
  /\ snapshot = [t \in Transactions |-> {}]
  /\ own = [t \in Transactions |-> {}]
  /\ previousHash = [t \in Transactions |-> 0]

Init ==
  /\ auditEvents = {}
  /\ nextSequence = 1
  /\ pc = [t \in Transactions |-> "idle"]
  /\ snapshot = [t \in Transactions |-> {}]
  /\ own = [t \in Transactions |-> {}]
  /\ previousHash = [t \in Transactions |-> 0]
-----------------------------------------------------------------------------
(***************************************************************************)
(* The hash of the row with the highest sequence, or the genesis hash.     *)
(***************************************************************************)
Latest(rows) == Max({0} \cup {e.sequence : e \in rows})

(***************************************************************************)
(* The rows a statement of t sees besides its own.                         *)
(***************************************************************************)
Committed(t) ==
  IF Isolation[t] = "Serializable" THEN snapshot[t] ELSE auditEvents

Begin(t) ==
  /\ pc[t] = "idle"
  /\ pc' = [pc EXCEPT ![t] = "read"]
  /\ snapshot' = [snapshot EXCEPT ![t] = auditEvents]
  /\ UNCHANGED <<auditEvents, nextSequence, own, previousHash>>

(***************************************************************************)
(* Mutant: the rows are ordered the wrong way round.                       *)
(***************************************************************************)
ReadOldest(t) ==
  /\ pc[t] = "read"
  /\ previousHash' = [previousHash EXCEPT ![t] =
       LET rows == Committed(t) \cup own[t]
       IN IF rows = {} THEN 0 ELSE Min({e.sequence : e \in rows})]
  /\ pc' = [pc EXCEPT ![t] = "insert"]
  /\ UNCHANGED <<auditEvents, nextSequence, snapshot, own>>

(***************************************************************************)
(* appendAuditEvent: the query for the latest row ...                      *)
(***************************************************************************)
ReadLatest(t) ==
  /\ pc[t] = "read"
  /\ previousHash' = [previousHash EXCEPT ![t] =
       Latest(Committed(t) \cup own[t])]
  /\ pc' = [pc EXCEPT ![t] = "insert"]
  /\ UNCHANGED <<auditEvents, nextSequence, snapshot, own>>

(***************************************************************************)
(* Mutant: the next sequence is the latest one read plus one.              *)
(***************************************************************************)
InsertAfterLatest(t) ==
  LET e == [sequence |-> previousHash[t] + 1,
            previousHash |-> previousHash[t], writer |-> t]
      appended == own[t] \cup {e}
  IN
  /\ pc[t] = "insert"
  /\ own' = [own EXCEPT ![t] = appended]
  /\ auditEvents' = IF Isolation[t] = "Autocommit"
                    THEN auditEvents \cup {e} ELSE auditEvents
  /\ nextSequence' = nextSequence + 1
  /\ pc' = [pc EXCEPT ![t] =
       CASE Cardinality(appended) < Appends[t] -> "read"
         [] Isolation[t] = "Autocommit" -> "done"
         [] OTHER -> "commit"]
  /\ UNCHANGED <<snapshot, previousHash>>

(***************************************************************************)
(* ... and the insertion, which outside a transaction commits at once.     *)
(***************************************************************************)
Insert(t) ==
  LET e == [sequence |-> nextSequence, previousHash |-> previousHash[t],
            writer |-> t]
      appended == own[t] \cup {e}
  IN
  /\ pc[t] = "insert"
  /\ own' = [own EXCEPT ![t] = appended]
  /\ auditEvents' = IF Isolation[t] = "Autocommit"
                    THEN auditEvents \cup {e} ELSE auditEvents
  /\ nextSequence' = nextSequence + 1
  /\ pc' = [pc EXCEPT ![t] =
       CASE Cardinality(appended) < Appends[t] -> "read"
         [] Isolation[t] = "Autocommit" -> "done"
         [] OTHER -> "commit"]
  /\ UNCHANGED <<snapshot, previousHash>>

(***************************************************************************)
(* Serializable Snapshot Isolation: of two concurrent serializable         *)
(* transactions that both read the latest row and inserted a newer one,    *)
(* the second cannot commit.  Transactions of other levels do not count.   *)
(***************************************************************************)
Serialized(e) == Isolation[e.writer] = "Serializable"

Serializes(t) ==
  Isolation[t] = "Serializable" =>
    \A e \in auditEvents : Serialized(e) => e \in snapshot[t]

(***************************************************************************)
(* Mutant: commitSettlement asks for no isolation level.                   *)
(***************************************************************************)
CommitUnchecked(t) ==
  /\ pc[t] = "commit"
  /\ auditEvents' = auditEvents \cup own[t]
  /\ pc' = [pc EXCEPT ![t] = "done"]
  /\ UNCHANGED <<nextSequence, snapshot, own, previousHash>>

Commit(t) ==
  /\ pc[t] = "commit"
  /\ Serializes(t)
  /\ auditEvents' = auditEvents \cup own[t]
  /\ pc' = [pc EXCEPT ![t] = "done"]
  /\ UNCHANGED <<nextSequence, snapshot, own, previousHash>>

(***************************************************************************)
(* A serialization failure, which nobody retries, another error inside the *)
(* transaction, or a crash: uncommitted rows are gone, the sequence is not *)
(* set back.                                                               *)
(***************************************************************************)
Abort(t) ==
  /\ pc[t] \in {"read", "insert", "commit"}
  /\ pc' = [pc EXCEPT ![t] = "aborted"]
  /\ UNCHANGED <<auditEvents, nextSequence, snapshot, own, previousHash>>

Step(t) == Begin(t) \/ ReadLatest(t) \/ Insert(t) \/ Commit(t) \/ Abort(t)

Next == \E t \in Transactions : Step(t)

Spec == Init /\ [][Next]_vars
-----------------------------------------------------------------------------
(***************************************************************************)
(* Whatever the isolation levels: sequences name one row each, and a row   *)
(* is linked to a committed row that came before it, so that following     *)
(* previousHash from any row ends at the genesis hash and no event of a    *)
(* rolled-back transaction is part of the chain (appendAuditEvent).        *)
(***************************************************************************)
LinkedBackwards ==
  \A e \in auditEvents :
    /\ e.previousHash < e.sequence
    /\ e.previousHash = 0 \/ \E f \in auditEvents : f.sequence = e.previousHash
    /\ \A f \in auditEvents : f.sequence = e.sequence => f = e

(***************************************************************************)
(* In the order of their sequences each row carries the hash of the one    *)
(* before it: what broker/tests/golden-path.test.ts verifies of the chain, *)
(* and the formula README.md gives for eventHash_n.                        *)
(***************************************************************************)
Linear(rows) ==
  \A e \in rows :
    e.previousHash = Latest({f \in rows : f.sequence < e.sequence})

ChainLinear == Linear(auditEvents)

(***************************************************************************)
(* As long as only settlements have been committed the chain is linear:    *)
(* concurrent and rolled-back transactions of commitSettlement, and other  *)
(* writers that have not committed, leave gaps in the sequence but never a *)
(* fork in the chain.                                                      *)
(***************************************************************************)
LinearWhileSerialized ==
  (\A e \in auditEvents : Serialized(e)) => ChainLinear

(***************************************************************************)
(* The rows of settlements become visible in the order of their sequences, *)
(* whoever else writes: those an auditor has read once stay a prefix of    *)
(* those it reads later.                                                   *)
(***************************************************************************)
PrefixStable ==
  [][\A e \in auditEvents' \ auditEvents, f \in auditEvents :
       Serialized(e) /\ Serialized(f) => f.sequence < e.sequence]_vars
=============================================================================
