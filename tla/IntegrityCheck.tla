--------------------------- MODULE IntegrityCheck -----------------------------
(***************************************************************************)
(* The nightly job that compares each audit table with the snapshot of the   *)
(* night before (broker/src/jobs/integrityCheck.ts, queues/                *)
(* integrityQueue.ts), beside the writers of those tables.                 *)
(*                                                                         *)
(* A row's id is drawn at random, so a new row may sort anywhere; an id is *)
(* not used twice.  A checksum stands for the rows it was computed over.   *)
(***************************************************************************)
EXTENDS Integers, Sequences, FiniteSets

CONSTANTS
  Tables,     \* AUDIT_TABLES, in the order of the job
  RowIds,     \* bound: the ids of a table's rows, numbers
  MaxRowChanges, \* bound: inserts, updates and deletes in a behaviour
  MaxNights   \* bound: jobs scheduled

ASSUME CheckAssumption ==
  /\ Tables # <<>> /\ Tables \in Seq({Tables[i] : i \in DOMAIN Tables})
  /\ \A i, j \in DOMAIN Tables : Tables[i] = Tables[j] => i = j
  /\ RowIds \subseteq Nat /\ IsFiniteSet(RowIds)

VARIABLES
  auditRows,  \* table -> id -> version: 0 not yet inserted, 3 deleted
  snapshots,  \* table -> the rows the latest integrity_snapshots row covers
  check,      \* the job: step, table reached, rows read, allIntact
  changes, nights,
  nightBefore,\* history: the snapshots when the job was first taken
  seen,       \* history: the rows this job read, by table
  outcome     \* history: how the job ended; broken: an attempt was cut short

checkVars == <<auditRows, snapshots, check, changes, nights, nightBefore, seen, outcome>>

TableSet == {Tables[i] : i \in DOMAIN Tables}
Present(t) == {<<i, auditRows[t][i]>> : i \in {j \in RowIds : auditRows[t][j] \in 1 .. 2}}
NoRows == [t \in TableSet |-> {}]
AtRest == [step |-> "idle", at |-> 1, read |-> {}, intact |-> TRUE]

CheckInit ==
  /\ auditRows = [t \in TableSet |-> [i \in RowIds |-> 0]]
  /\ snapshots = NoRows /\ check = AtRest
  /\ changes = 0 /\ nights = 0
  /\ nightBefore = NoRows /\ seen = NoRows
  /\ outcome = [is |-> "none", broken |-> FALSE]

-------------------------------------------------------------------------------
(* The tables are appended to by the services; an update or a delete is    *)
(* tampering, or an administrator's correction.                            *)
ChangeRow ==
  /\ changes < MaxRowChanges
  /\ \E t \in TableSet, i \in RowIds :
       /\ auditRows[t][i] < 3
       /\ \E v \in IF auditRows[t][i] = 0 THEN {1} ELSE {auditRows[t][i] + 1, 3} :
            auditRows' = [auditRows EXCEPT ![t][i] = v]
  /\ changes' = changes + 1
  /\ UNCHANGED <<snapshots, check, nights, nightBefore, seen, outcome>>

(* The schedule fires.  Every broker has a worker; one of them takes it.   *)
TakeNight ==
  /\ check.step = "idle" /\ nights < MaxNights
  /\ nights' = nights + 1
  /\ check' = [AtRest EXCEPT !.step = "read"]
  /\ nightBefore' = snapshots /\ seen' = NoRows
  /\ outcome' = [is |-> "none", broken |-> FALSE]
  /\ UNCHANGED <<auditRows, snapshots, changes>>

ReadRows ==
  /\ check.step = "read"
  /\ check' = [check EXCEPT !.step = "compare", !.read = Present(Tables[check.at])]
  /\ seen' = [seen EXCEPT ![Tables[check.at]] = check'.read]
  /\ UNCHANGED <<auditRows, snapshots, changes, nights, nightBefore, outcome>>

(* Mutant: the whole table is hashed.                                      *)
WholeTable(read, n) == read

(* The first n of a table's rows by id.                                    *)
Prefix(read, n) == {r \in read : Cardinality({q \in read : q[1] <= r[1]}) <= n}

(* Mutant: only the number of rows is compared.                            *)
AlarmByCount(read, before) == Cardinality(read) < Cardinality(before)

Alarm(read, before) ==
  \/ Cardinality(read) < Cardinality(before)
  \/ Prefix(read, Cardinality(before)) # before

(* The comparison, with the snapshot that is latest now; the new snapshot  *)
(* is stored whether or not there was an alarm, which is only remembered.  *)
CompareAndStore ==
  /\ check.step = "compare"
  /\ LET t == Tables[check.at]
         intact == check.intact /\ ~Alarm(check.read, snapshots[t]) IN
       /\ snapshots' = [snapshots EXCEPT ![t] = check.read]
       /\ IF check.at < Len(Tables)
          THEN /\ check' = [step |-> "read", at |-> check.at + 1, read |-> {}, intact |-> intact]
               /\ UNCHANGED outcome
          ELSE /\ check' = AtRest
               /\ outcome' = [outcome EXCEPT !.is = IF intact THEN "completed" ELSE "failed"]
  /\ UNCHANGED <<auditRows, changes, nights, nightBefore, seen>>

(* A query fails: so does the job, which has one attempt.                  *)
CheckErrs ==
  /\ check.step # "idle"
  /\ check' = AtRest
  /\ outcome' = [is |-> "errored", broken |-> TRUE]
  /\ UNCHANGED <<auditRows, snapshots, changes, nights, nightBefore, seen>>

(* The worker is gone: the stalled job is taken again, from the beginning. *)
CheckStalls ==
  /\ check.step # "idle" /\ ~outcome.broken
  /\ check' = [AtRest EXCEPT !.step = "read"]
  /\ outcome' = [outcome EXCEPT !.broken = TRUE]
  /\ UNCHANGED <<auditRows, snapshots, changes, nights, nightBefore, seen>>

CheckNext ==
  ChangeRow \/ TakeNight \/ ReadRows \/ CompareAndStore \/ CheckErrs \/ CheckStalls

CheckSpec == CheckInit /\ [][CheckNext]_checkVars

-------------------------------------------------------------------------------
CheckTypeOK ==
  /\ auditRows \in [TableSet -> [RowIds -> 0 .. 3]]
  /\ snapshots \in [TableSet -> SUBSET (RowIds \X (1 .. 2))]
  /\ check.step \in {"idle", "read", "compare"} /\ check.at \in DOMAIN Tables
  /\ outcome.is \in {"none", "completed", "failed", "errored"}

(* integrityCheck.ts:76-95.  A job that completes in one attempt vouches   *)
(* for every row of the night before, in every table: it is there and      *)
(* unchanged.  An attempt that was cut short leaves a new snapshot behind  *)
(* in the tables it had reached, and what it found there with it: the      *)
(* attempt after it may complete.                                          *)
CompletedVouches ==
  outcome.is = "completed" /\ ~outcome.broken =>
    \A t \in TableSet : nightBefore[t] \subseteq seen[t]

(* integrityCheck.ts:78, 90.  A job that fails in one attempt has either   *)
(* lost or changed a row, or a new row whose id sorts before an old one:   *)
(* the appends a night brings are taken for tampering only so.             *)
AlarmIsExplained ==
  outcome.is = "failed" /\ ~outcome.broken =>
    \E t \in TableSet :
      \/ ~ (nightBefore[t] \subseteq seen[t])
      \/ \E r \in seen[t] \ nightBefore[t], q \in nightBefore[t] : r[1] < q[1]
===============================================================================
