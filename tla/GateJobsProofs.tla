---------------------------- MODULE GateJobsProofs ----------------------------
(***************************************************************************)
(* Theorems about GateJobs, for any number of checks, worker processes and *)
(* attempts, in and outside production, whatever the engine and the        *)
(* database answer and whenever a worker dies: a pass is backed, what is   *)
(* given up is alerted, and every step leaves less to do.  And about       *)
(* GatePayload, the payload of a job, for any coalition, topology and      *)
(* traded energy.                                                          *)
(***************************************************************************)
EXTENDS GateJobs, GatePayload, FiniteSetTheorems, WellFoundedInduction, NaturalsInduction, TLAPS

(***************************************************************************)
(* The inductive invariant: what is known of the job of check c.           *)
(*                                                                         *)
(* The verdict of an attempt is the engine's, or outside production "ok"   *)
(* where the engine said nothing; said is the engine's word alone.  A      *)
(* retry forgets said but not the verdict of the attempt before, so the    *)
(* two are only known to agree from the engine's answer on.                *)
(***************************************************************************)
Running == {"queued", "active", "backoff"}

Faithful(c) ==
  \/ jobs[c].verdict = jobs[c].said /\ jobs[c].said # Unsaid
  \/ ~production /\ jobs[c].said = Unsaid /\ jobs[c].verdict = "ok"
  \/ ~production /\ Kind(c) = "grid"

JobProgress(c) ==
  /\ gates[c].stage = "new" => jobs[c] = NoJob
  /\ jobs[c].status # "none" => Kind(c) \in GateKinds
  /\ jobs[c].step # "none" <=> jobs[c].status = "active"
  /\ jobs[c].status \in Running => jobs[c].made < Attempts[Kind(c)] /\ jobs[c].stalls <= 1

JobVerdict(c) ==
  /\ Kind(c) = "grid" => jobs[c].said # "unstable"
  /\ jobs[c].step = "verify" => jobs[c].said = Unsaid
  /\ jobs[c].step = "store" => Kind(c) # "joint" /\ Faithful(c)
  /\ jobs[c].step = "mock" => ~production /\ Kind(c) = "grid"
  /\ jobs[c].status = "completed" =>
       /\ Faithful(c)
       /\ production /\ Kind(c) # "joint" =>
            [check |-> c, verdict |-> jobs[c].verdict, mock |-> FALSE] \in evidence
  /\ gates[c].stage = "passed" => jobs[c].status = "completed" /\ jobs[c].verdict = "ok"

JobAlert(c) ==
  /\ c \in alerts => jobs[c].status = "failed" /\ jobs[c].made = Attempts[Kind(c)]
  /\ jobs[c].status = "failed" /\ Kind(c) # "joint" => c \in alerts \/ jobs[c].stalls = 2

JobOK(c) == JobProgress(c) /\ JobVerdict(c) /\ JobAlert(c)

GateInv == GateTypeOK /\ production \in BOOLEAN /\ \A c \in Checks : JobOK(c)

LEMMA GateInvInit == ConfigInit /\ GateInit => GateInv
<1> SUFFICES ASSUME ConfigInit, GateInit PROVE GateInv
  OBVIOUS
<1>1. GateTypeOK
  BY DEF GateInit, GateTypeOK, NoJob, Ended
<1>2. \A c \in Checks : JobOK(c)
  BY DEF GateInit, JobOK, JobProgress, JobVerdict, JobAlert, Kind, NoJob, Running
<1> QED
  BY <1>1, <1>2 DEF GateInv, ConfigInit
-------------------------------------------------------------------------------
GateRecord == [kind : GateKinds \cup {"none"},
               stage : {"new", "waiting", "marking"} \cup Ended]
JobRecord ==
  [status : {"none", "queued", "active", "backoff", "completed", "failed"},
   step : {"none", "verify", "store", "mock"}, made : Nat, stalls : 0 .. 2,
   said : Verdicts \cup {Unsaid}, verdict : Verdicts \cup {Unsaid}]
EvidenceRecord == [check : Checks, verdict : Verdicts \cup {Unsaid}, mock : BOOLEAN]

(***************************************************************************)
(* Every step moves the gate or the job of one check.                      *)
(***************************************************************************)
LEMMA OneCheckMoves ==
  ASSUME GateInv, NEW c \in Checks, NEW g \in GateRecord, NEW j \in JobRecord,
         gates' = [gates EXCEPT ![c] = g], jobs' = [jobs EXCEPT ![c] = j],
         marks' \in [Checks -> {"ACTIVE", "STABILITY_FAILED", "GRID_FAILED"}],
         evidence' \subseteq EvidenceRecord, evidence \subseteq evidence',
         alerts' \in {alerts, alerts \cup {c}},
         UNCHANGED production,
         gates'[c] = g /\ jobs'[c] = j => JobOK(c)'
  PROVE  GateInv'
<1>1. /\ gates \in [Checks -> GateRecord] /\ jobs \in [Checks -> JobRecord]
      /\ alerts \subseteq Checks
  BY DEF GateInv, GateTypeOK, GateRecord, JobRecord
<1>2. /\ gates' \in [Checks -> GateRecord] /\ jobs' \in [Checks -> JobRecord]
      /\ gates'[c] = g /\ jobs'[c] = j
      /\ \A d \in Checks \ {c} : gates'[d] = gates[d] /\ jobs'[d] = jobs[d]
  BY <1>1
<1>3. GateTypeOK'
  BY <1>1, <1>2 DEF GateTypeOK, GateRecord, JobRecord, EvidenceRecord
<1>4. \A d \in Checks : JobOK(d)'
  <2> SUFFICES ASSUME NEW d \in Checks, d # c PROVE JobOK(d)'
    BY <1>2
  <2>1. JobOK(d) /\ gates'[d] = gates[d] /\ jobs'[d] = jobs[d] /\ (d \in alerts' <=> d \in alerts)
    BY <1>2 DEF GateInv
  <2>2. JobProgress(d)'
    BY <2>1 DEF JobOK, JobProgress, Kind
  <2>3. JobVerdict(d)'
    BY <2>1 DEF JobOK, JobVerdict, Faithful, Kind
  <2>4. JobAlert(d)'
    BY <2>1 DEF JobOK, JobAlert, Kind
  <2> QED
    BY <2>2, <2>3, <2>4 DEF JobOK
<1> QED
  BY <1>3, <1>4 DEF GateInv

LEMMA CheckKnown ==
  ASSUME GateInv, NEW c \in Checks
  PROVE  /\ gates[c] \in GateRecord /\ jobs[c] \in JobRecord /\ JobOK(c)
         /\ gates = [gates EXCEPT ![c] = gates[c]] /\ jobs = [jobs EXCEPT ![c] = jobs[c]]
         /\ marks \in [Checks -> {"ACTIVE", "STABILITY_FAILED", "GRID_FAILED"}]
         /\ evidence \subseteq EvidenceRecord
BY DEF GateInv, GateTypeOK, GateRecord, JobRecord, EvidenceRecord

(***************************************************************************)
(* The gates.                                                              *)
(***************************************************************************)
LEMMA BeginKeeps ==
  ASSUME GateInv, NEW c \in Checks, NEW kind \in GateKinds, BeginCheck(c, kind),
         UNCHANGED production
  PROVE  GateInv'
<1>1. /\ gates[c] \in GateRecord /\ jobs[c] \in JobRecord /\ JobOK(c)
      /\ gates[c].stage = "new" /\ jobs[c] = NoJob
  BY CheckKnown DEF BeginCheck, JobOK, JobProgress
<1>2. c \notin alerts /\ Attempts[kind] > 0
  BY <1>1, GateAssumption DEF JobOK, JobAlert, NoJob
<1>3. CASE /\ gates' = [gates EXCEPT ![c] = [kind |-> kind, stage |-> "waiting"]]
           /\ jobs' = [jobs EXCEPT ![c].status = "queued"]
  <2>1. PICK g \in GateRecord :
          g.kind = kind /\ g.stage = "waiting" /\ gates' = [gates EXCEPT ![c] = g]
    BY <1>3 DEF GateRecord
  <2>2. PICK j : j = [jobs[c] EXCEPT !.status = "queued"]
    OBVIOUS
  <2>3. /\ j \in JobRecord /\ j.status = "queued" /\ j.step = "none" /\ j.made = 0
        /\ j.stalls = 0 /\ j.said = Unsaid
    BY <1>1, <2>2 DEF JobRecord, NoJob
  <2>4. jobs' = [jobs EXCEPT ![c] = j]
    BY <1>3, <2>2
  <2>5. ASSUME gates'[c] = g, jobs'[c] = j PROVE JobOK(c)'
    BY <1>2, <2>1, <2>3, <2>5
       DEF JobOK, JobProgress, JobVerdict, JobAlert, Kind, Running, BeginCheck, Unsaid
  <2> QED
    BY <2>1, <2>3, <2>4, <2>5, CheckKnown, OneCheckMoves DEF BeginCheck
<1>4. CASE /\ gates' = [gates EXCEPT ![c] = [kind |-> kind, stage |-> "threw"]]
           /\ UNCHANGED jobs
  <2>1. PICK g \in GateRecord :
          g.kind = kind /\ g.stage = "threw" /\ gates' = [gates EXCEPT ![c] = g]
    BY <1>4 DEF GateRecord, Ended
  <2>2. jobs' = [jobs EXCEPT ![c] = jobs[c]]
    BY <1>4, CheckKnown
  <2>3. ASSUME gates'[c] = g, jobs'[c] = jobs[c] PROVE JobOK(c)'
    BY <1>1, <1>2, <2>1, <2>3
       DEF JobOK, JobProgress, JobVerdict, JobAlert, Kind, Running, BeginCheck, NoJob, Unsaid
  <2> QED
    BY <1>1, <2>1, <2>2, <2>3, CheckKnown, OneCheckMoves DEF BeginCheck
<1> QED
  BY <1>3, <1>4 DEF BeginCheck

(***************************************************************************)
(* A gate goes on: only a job that ended with "ok" lets it pass.           *)
(***************************************************************************)
LEMMA GateMoves ==
  ASSUME GateInv, NEW c \in Checks, NEW g \in GateRecord, gates' = [gates EXCEPT ![c] = g],
         marks' \in [Checks -> {"ACTIVE", "STABILITY_FAILED", "GRID_FAILED"}],
         UNCHANGED <<jobs, evidence, alerts, production>>,
         gates'[c] = g => JobOK(c)'
  PROVE  GateInv'
BY CheckKnown, OneCheckMoves

LEMMA GateGoesOn ==
  ASSUME GateInv, NEW c \in Checks, gates[c].stage # "new",
         NEW stage \in {"marking"} \cup Ended,
         gates' = [gates EXCEPT ![c].stage = stage],
         stage = "passed" => jobs[c].status = "completed" /\ jobs[c].verdict = "ok",
         marks' \in [Checks -> {"ACTIVE", "STABILITY_FAILED", "GRID_FAILED"}],
         UNCHANGED <<jobs, evidence, alerts, production>>
  PROVE  GateInv'
<1>1. /\ gates[c] \in GateRecord /\ jobs[c] \in JobRecord /\ JobOK(c)
  BY CheckKnown
<1>2. PICK g : g = [gates[c] EXCEPT !.stage = stage]
  OBVIOUS
<1>3. g \in GateRecord /\ g.kind = gates[c].kind /\ g.stage = stage /\ stage # "new"
  BY <1>1, <1>2 DEF GateRecord, Ended
<1>4. gates' = [gates EXCEPT ![c] = g]
  BY <1>2
<1>5. gates'[c] = g => JobOK(c)'
  <2> SUFFICES ASSUME gates'[c] = g PROVE JobOK(c)'
    OBVIOUS
  <2>1. JobProgress(c)'
    BY <1>1, <1>3 DEF JobOK, JobProgress, Kind
  <2>2. JobVerdict(c)'
    BY <1>1, <1>3 DEF JobOK, JobVerdict, Faithful, Kind
  <2>3. JobAlert(c)'
    BY <1>1, <1>3 DEF JobOK, JobAlert, Kind
  <2> QED
    BY <2>1, <2>2, <2>3 DEF JobOK
<1> QED
  BY <1>3, <1>4, <1>5, GateMoves

LEMMA GateAnswerKeeps ==
  ASSUME GateInv, NEW c \in Checks, AnswerCheck(c), UNCHANGED production
  PROVE  GateInv'
<1>1. marks \in [Checks -> {"ACTIVE", "STABILITY_FAILED", "GRID_FAILED"}]
  BY CheckKnown
<1>2. CASE ReceiveResult(c)
  <2>1. PICK stage \in {"marking"} \cup Ended :
          /\ gates' = [gates EXCEPT ![c].stage = stage]
          /\ stage = "passed" => jobs[c].status = "completed" /\ jobs[c].verdict = "ok"
    <3> DEFINE stage == IF jobs[c].status = "failed" THEN "threw"
                        ELSE IF jobs[c].verdict = "ok" THEN "passed" ELSE "marking"
    <3>1. gates' = [gates EXCEPT ![c].stage = stage]
      BY <1>2 DEF ReceiveResult
    <3>2. /\ stage \in {"marking"} \cup Ended
          /\ stage = "passed" => jobs[c].status = "completed" /\ jobs[c].verdict = "ok"
      BY <1>2 DEF ReceiveResult, Ended
    <3> HIDE DEF stage
    <3> QED
      BY <3>1, <3>2
  <2> QED
    BY <1>1, <1>2, <2>1, GateGoesOn DEF ReceiveResult
<1>3. CASE TimeOut(c)
  BY <1>1, <1>3, GateGoesOn DEF TimeOut, Ended
<1>4. CASE MarkRejected(c)
  <2>1. marks' \in [Checks -> {"ACTIVE", "STABILITY_FAILED", "GRID_FAILED"}]
    BY <1>1, <1>4 DEF MarkRejected
  <2> QED
    BY <1>4, <2>1, GateGoesOn DEF MarkRejected, Ended
<1> QED
  BY <1>2, <1>3, <1>4 DEF AnswerCheck
-------------------------------------------------------------------------------
(***************************************************************************)
(* The jobs.  The gate of a job that is not completed has not passed.      *)
(***************************************************************************)
LEMMA JobMoves ==
  ASSUME GateInv, NEW c \in Checks, NEW j \in JobRecord,
         jobs' = [jobs EXCEPT ![c] = j],
         evidence' \subseteq EvidenceRecord, evidence \subseteq evidence',
         alerts' \in {alerts, alerts \cup {c}},
         UNCHANGED <<gates, marks, production>>,
         jobs[c].status \in Running,
         jobs'[c] = j => JobProgress(c)' /\ JobAlert(c)' /\ JobVerdict(c)'
  PROVE  GateInv'
BY CheckKnown, OneCheckMoves DEF JobOK

LEMMA JobKnown ==
  ASSUME GateInv, NEW c \in Checks, jobs[c].status \in Running
  PROVE  /\ Kind(c) \in GateKinds /\ gates[c].stage \notin {"new", "passed"}
         /\ jobs[c] \in JobRecord /\ jobs[c].made \in Nat /\ jobs[c].stalls \in 0 .. 1
         /\ Attempts[Kind(c)] \in Nat /\ jobs[c].made < Attempts[Kind(c)]
         /\ c \notin alerts
         /\ jobs[c].step # "none" <=> jobs[c].status = "active"
         /\ JobVerdict(c)
<1>1. /\ gates[c] \in GateRecord /\ jobs[c] \in JobRecord
      /\ JobProgress(c) /\ JobVerdict(c) /\ JobAlert(c)
  BY CheckKnown DEF JobOK
<1>2. jobs[c].made \in Nat /\ jobs[c].stalls \in 0 .. 2
  BY <1>1 DEF JobRecord
<1>3. Kind(c) \in GateKinds /\ jobs[c].made < Attempts[Kind(c)] /\ jobs[c].stalls <= 1
  BY <1>1 DEF JobProgress, Running
<1>4. gates[c].stage \notin {"new", "passed"} /\ c \notin alerts
  BY <1>1 DEF JobProgress, JobVerdict, JobAlert, NoJob, Running
<1> QED
  BY <1>1, <1>2, <1>3, <1>4, GateAssumption DEF JobProgress

(***************************************************************************)
(* An attempt starts; a job waits for its next one; its worker dies.       *)
(***************************************************************************)
LEMMA GateTakeKeeps ==
  ASSUME GateInv, NEW c \in Checks, TakeCheck(c), UNCHANGED production
  PROVE  GateInv'
<1>1. /\ jobs[c].status \in Running /\ evidence \subseteq EvidenceRecord
      /\ UNCHANGED <<gates, marks, evidence, alerts>>
  BY CheckKnown DEF TakeCheck, Running
<1>2. PICK j : j = [jobs[c] EXCEPT !.status = "active", !.step = "verify", !.said = Unsaid]
  OBVIOUS
<1>3. /\ j \in JobRecord /\ j.status = "active" /\ j.step = "verify" /\ j.said = Unsaid
      /\ j.made = jobs[c].made /\ j.stalls = jobs[c].stalls
  BY <1>1, <1>2, JobKnown DEF JobRecord
<1>4. jobs' = [jobs EXCEPT ![c] = j]
  BY <1>2 DEF TakeCheck
<1>5. jobs'[c] = j => JobProgress(c)' /\ JobAlert(c)' /\ JobVerdict(c)'
  <2> SUFFICES ASSUME jobs'[c] = j PROVE JobProgress(c)' /\ JobAlert(c)' /\ JobVerdict(c)'
    OBVIOUS
  <2>1. JobProgress(c)'
    BY <1>1, <1>3, JobKnown DEF JobProgress, Kind, Running
  <2>2. JobAlert(c)'
    BY <1>1, <1>3, JobKnown DEF JobAlert, Kind
  <2>3. JobVerdict(c)'
    BY <1>1, <1>3, JobKnown DEF JobVerdict, Kind, Unsaid
  <2> QED
    BY <2>1, <2>2, <2>3
<1> QED
  BY <1>1, <1>3, <1>4, <1>5, JobMoves

LEMMA BackoffKeeps ==
  ASSUME GateInv, NEW c \in Checks, BackoffEnds(c), UNCHANGED production
  PROVE  GateInv'
<1>1. /\ jobs[c].status \in Running /\ evidence \subseteq EvidenceRecord
      /\ UNCHANGED <<gates, marks, evidence, alerts>>
  BY CheckKnown DEF BackoffEnds, Running
<1>2. PICK j : j = [jobs[c] EXCEPT !.status = "queued"]
  OBVIOUS
<1>3. /\ j \in JobRecord /\ j.status = "queued" /\ j.step = "none"
      /\ j.made = jobs[c].made /\ j.stalls = jobs[c].stalls /\ j.said = jobs[c].said
  BY <1>1, <1>2, JobKnown DEF JobRecord, BackoffEnds
<1>4. jobs' = [jobs EXCEPT ![c] = j]
  BY <1>2 DEF BackoffEnds
<1>5. jobs'[c] = j => JobProgress(c)' /\ JobAlert(c)' /\ JobVerdict(c)'
  <2> SUFFICES ASSUME jobs'[c] = j PROVE JobProgress(c)' /\ JobAlert(c)' /\ JobVerdict(c)'
    OBVIOUS
  <2>1. JobProgress(c)'
    BY <1>1, <1>3, JobKnown DEF JobProgress, Kind, Running
  <2>2. JobAlert(c)'
    BY <1>1, <1>3, JobKnown DEF JobAlert, Kind
  <2>3. JobVerdict(c)'
    BY <1>1, <1>3, JobKnown DEF JobVerdict, Kind, Unsaid
  <2> QED
    BY <2>1, <2>2, <2>3
<1> QED
  BY <1>1, <1>3, <1>4, <1>5, JobMoves

LEMMA StallKeeps ==
  ASSUME GateInv, NEW c \in Checks, StallJob(c), UNCHANGED production
  PROVE  GateInv'
<1>1. /\ jobs[c].status \in Running /\ evidence \subseteq EvidenceRecord
      /\ UNCHANGED <<gates, marks, evidence, alerts>>
  BY CheckKnown DEF StallJob, Running
<1>2. PICK status : status = IF jobs[c].stalls = 0 THEN "queued" ELSE "failed"
  OBVIOUS
<1>3. PICK j : j = [jobs[c] EXCEPT !.stalls = @ + 1, !.step = "none", !.status = status]
  OBVIOUS
<1>4. jobs[c].stalls + 1 \in 1 .. 2
  BY <1>1, JobKnown
<1>5. /\ j \in JobRecord /\ j.status = status /\ j.step = "none"
      /\ j.made = jobs[c].made /\ j.stalls = jobs[c].stalls + 1 /\ j.said = jobs[c].said
  <2>1. jobs[c] \in JobRecord /\ status \in {"queued", "failed"} /\ jobs[c].stalls + 1 \in 0 .. 2
    BY <1>1, <1>2, <1>4, JobKnown
  <2> QED
    BY <1>3, <2>1 DEF JobRecord
<1>6. jobs' = [jobs EXCEPT ![c] = j]
  BY <1>2, <1>3 DEF StallJob
<1>7. jobs'[c] = j => JobProgress(c)' /\ JobAlert(c)' /\ JobVerdict(c)'
  <2> SUFFICES ASSUME jobs'[c] = j PROVE JobProgress(c)' /\ JobAlert(c)' /\ JobVerdict(c)'
    OBVIOUS
  <2>1. JobProgress(c)'
    BY <1>1, <1>2, <1>5, JobKnown DEF JobProgress, Kind, Running
  <2>2. JobAlert(c)'
    BY <1>1, <1>2, <1>5, JobKnown DEF JobAlert, Kind
  <2>3. JobVerdict(c)'
    BY <1>1, <1>2, <1>5, JobKnown DEF JobVerdict, Kind, Unsaid
  <2> QED
    BY <2>1, <2>2, <2>3
<1> QED
  BY <1>1, <1>5, <1>6, <1>7, JobMoves

(***************************************************************************)
(* An attempt fails, with or without a row left behind: the alert is       *)
(* raised exactly when no attempt is left.                                 *)
(***************************************************************************)
LEMMA GateFailureKeeps ==
  ASSUME GateInv, NEW c \in Checks, NEW said \in Verdicts \cup {Unsaid},
         jobs[c].step # "none", Kind(c) = "grid" => said # "unstable",
         FailAttempt(c, said),
         evidence' \subseteq EvidenceRecord, evidence \subseteq evidence',
         UNCHANGED <<gates, marks, production>>
  PROVE  GateInv'
<1>1. JobProgress(c)
  BY CheckKnown DEF JobOK
<1>2. jobs[c].status \in Running
  BY <1>1 DEF JobProgress, Running
<1>3. PICK made : made = jobs[c].made + 1
  OBVIOUS
<1>4. made \in Nat /\ made <= Attempts[Kind(c)] /\ Attempts[Kind(c)] \in Nat
  BY <1>2, <1>3, JobKnown
<1>5. PICK status : status = IF made >= Attempts[Kind(c)] THEN "failed" ELSE "backoff"
  OBVIOUS
<1>6. PICK j : j = [jobs[c] EXCEPT !.made = made, !.step = "none", !.said = said,
                                   !.status = status]
  OBVIOUS
<1>7. /\ j \in JobRecord /\ j.status = status /\ j.step = "none" /\ j.made = made
      /\ j.stalls = jobs[c].stalls /\ j.said = said
  BY <1>2, <1>4, <1>5, <1>6, JobKnown, ZenonT(40) DEF JobRecord
<1>8. jobs' = [jobs EXCEPT ![c] = j]
  BY <1>3, <1>5, <1>6 DEF FailAttempt
<1>9. alerts' = IF made >= Attempts[Kind(c)] /\ Kind(c) # "joint"
                THEN alerts \cup {c} ELSE alerts
  BY <1>3 DEF FailAttempt
<1>10. jobs'[c] = j => JobProgress(c)' /\ JobAlert(c)' /\ JobVerdict(c)'
  <2> SUFFICES ASSUME jobs'[c] = j PROVE JobProgress(c)' /\ JobAlert(c)' /\ JobVerdict(c)'
    OBVIOUS
  <2>1. JobProgress(c)'
    BY <1>2, <1>4, <1>5, <1>7, JobKnown DEF JobProgress, Kind, Running
  <2>2. JobAlert(c)'
    BY <1>2, <1>4, <1>5, <1>7, <1>9, JobKnown DEF JobAlert, Kind
  <2>3. JobVerdict(c)'
    BY <1>2, <1>5, <1>7, JobKnown DEF JobVerdict, Kind
  <2> QED
    BY <2>1, <2>2, <2>3
<1>11. alerts' \in {alerts, alerts \cup {c}}
  BY <1>9
<1> QED
  BY <1>2, <1>7, <1>8, <1>10, <1>11, JobMoves

(***************************************************************************)
(* An attempt goes on to store its verdict, or to the mock certificate.    *)
(***************************************************************************)
LEMMA AttemptGoesOn ==
  ASSUME GateInv, NEW c \in Checks, jobs[c].status = "active",
         NEW j \in JobRecord, jobs' = [jobs EXCEPT ![c] = j],
         j.status = "active", j.step \in {"store", "mock"},
         j.made = jobs[c].made, j.stalls = jobs[c].stalls,
         Kind(c) = "grid" => j.said # "unstable",
         j.step = "mock" => ~production /\ Kind(c) = "grid",
         j.step = "store" =>
           /\ Kind(c) # "joint"
           /\ \/ j.verdict = j.said /\ j.said # Unsaid
              \/ ~production /\ j.said = Unsaid /\ j.verdict = "ok",
         evidence' \subseteq EvidenceRecord, evidence \subseteq evidence',
         UNCHANGED <<gates, marks, alerts, production>>
  PROVE  GateInv'
<1>1. jobs[c].status \in Running
  BY DEF Running
<1>2. jobs'[c] = j => JobProgress(c)' /\ JobAlert(c)' /\ JobVerdict(c)'
  <2> SUFFICES ASSUME jobs'[c] = j PROVE JobProgress(c)' /\ JobAlert(c)' /\ JobVerdict(c)'
    OBVIOUS
  <2>1. JobProgress(c)'
    BY <1>1, JobKnown DEF JobProgress, Kind, Running
  <2>2. JobAlert(c)'
    BY <1>1, JobKnown DEF JobAlert, Kind
  <2>3. JobVerdict(c)'
    BY <1>1, JobKnown DEF JobVerdict, Faithful, Kind
  <2> QED
    BY <2>1, <2>2, <2>3
<1>3. alerts' \in {alerts, alerts \cup {c}}
  OBVIOUS
<1> QED
  BY <1>1, <1>2, <1>3, JobMoves

(***************************************************************************)
(* A job completes.  In production its verdict is the engine's, and that   *)
(* of a separate gate is in the table.                                     *)
(***************************************************************************)
LEMMA JobCompletes ==
  ASSUME GateInv, NEW c \in Checks, jobs[c].status = "active",
         NEW said \in Verdicts \cup {Unsaid}, NEW verdict \in Verdicts \cup {Unsaid},
         jobs' = [jobs EXCEPT ![c] = Completed(c, said, verdict)],
         Kind(c) = "grid" => said # "unstable",
         \/ verdict = said /\ said # Unsaid
         \/ ~production /\ said = Unsaid /\ verdict = "ok"
         \/ ~production /\ Kind(c) = "grid",
         production /\ Kind(c) # "joint" =>
           [check |-> c, verdict |-> verdict, mock |-> FALSE] \in evidence',
         evidence' \subseteq EvidenceRecord, evidence \subseteq evidence',
         UNCHANGED <<gates, marks, alerts, production>>
  PROVE  GateInv'
<1>1. jobs[c].status \in Running
  BY DEF Running
<1>2. PICK j : j = Completed(c, said, verdict)
  OBVIOUS
<1>3. /\ j \in JobRecord /\ j.status = "completed" /\ j.step = "none"
      /\ j.said = said /\ j.verdict = verdict
  BY ZenonT(40), <1>1, <1>2, JobKnown DEF JobRecord, Completed
<1>4. jobs' = [jobs EXCEPT ![c] = j]
  BY <1>2
<1>5. jobs'[c] = j => JobProgress(c)' /\ JobAlert(c)' /\ JobVerdict(c)'
  <2> SUFFICES ASSUME jobs'[c] = j PROVE JobProgress(c)' /\ JobAlert(c)' /\ JobVerdict(c)'
    OBVIOUS
  <2>1. JobProgress(c)'
    BY <1>1, <1>3, JobKnown DEF JobProgress, Kind, Running
  <2>2. JobAlert(c)'
    BY <1>1, <1>3, JobKnown DEF JobAlert, Kind
  <2>3. JobVerdict(c)'
    BY <1>1, <1>3, JobKnown DEF JobVerdict, Faithful, Kind
  <2> QED
    BY <2>1, <2>2, <2>3
<1>6. alerts' \in {alerts, alerts \cup {c}}
  OBVIOUS
<1> QED
  BY <1>1, <1>3, <1>4, <1>5, <1>6, JobMoves

LEMMA EngineAnswersKeeps ==
  ASSUME GateInv, NEW c \in Checks, EngineAnswers(c), UNCHANGED production
  PROVE  GateInv'
<1>1. /\ JobProgress(c) /\ evidence \subseteq EvidenceRecord
      /\ UNCHANGED <<gates, marks, evidence, alerts>> /\ jobs[c].step = "verify"
  BY CheckKnown DEF JobOK, EngineAnswers
<1>2. jobs[c].status = "active" /\ jobs[c].status \in Running
  BY <1>1 DEF JobProgress, Running
<1>3. /\ Kind(c) \in GateKinds /\ jobs[c] \in JobRecord
  BY <1>2, JobKnown
<1>4. PICK v \in Answers[Kind(c)] :
        jobs' = [jobs EXCEPT ![c] =
                  IF Kind(c) = "joint" THEN Completed(c, v, v)
                  ELSE [@ EXCEPT !.step = "store", !.said = v, !.verdict = v]]
  BY DEF EngineAnswers
<1>5. v \in Verdicts /\ v # Unsaid /\ (Kind(c) = "grid" => v # "unstable")
  BY <1>3, <1>4 DEF Answers, GateKinds, Verdicts, Unsaid
<1>6. CASE Kind(c) = "joint"
  <2>1. jobs' = [jobs EXCEPT ![c] = Completed(c, v, v)]
    BY <1>4, <1>6
  <2> QED
    BY <1>1, <1>2, <1>5, <1>6, <2>1, JobCompletes
<1>7. CASE Kind(c) # "joint"
  <2>1. PICK j : j = [jobs[c] EXCEPT !.step = "store", !.said = v, !.verdict = v]
    OBVIOUS
  <2>2. jobs' = [jobs EXCEPT ![c] = j]
    BY <1>4, <1>7, <2>1
  <2>3. /\ j \in JobRecord /\ j.status = "active" /\ j.step = "store" /\ j.said = v
        /\ j.verdict = v /\ j.made = jobs[c].made /\ j.stalls = jobs[c].stalls
    BY <1>2, <1>3, <1>5, <2>1 DEF JobRecord
  <2> QED
    BY <1>1, <1>2, <1>5, <1>7, <2>2, <2>3, AttemptGoesOn
<1> QED
  BY <1>6, <1>7

LEMMA EngineFailsKeeps ==
  ASSUME GateInv, NEW c \in Checks, EngineFails(c), UNCHANGED production
  PROVE  GateInv'
<1>1. /\ JobProgress(c) /\ JobVerdict(c) /\ evidence \subseteq EvidenceRecord
      /\ UNCHANGED <<gates, marks, evidence, production>> /\ jobs[c].step = "verify"
  BY CheckKnown DEF JobOK, EngineFails
<1>2. jobs[c].status = "active" /\ jobs[c].status \in Running /\ jobs[c].said = Unsaid
  BY <1>1 DEF JobProgress, JobVerdict, Running
<1>3. /\ Kind(c) \in GateKinds /\ jobs[c] \in JobRecord
  BY <1>2, JobKnown
<1>4. CASE FailAttempt(c, Unsaid)
  BY <1>1, <1>4, GateFailureKeeps DEF Unsaid
<1>5. CASE /\ ~production /\ Kind(c) # "joint" /\ UNCHANGED alerts
           /\ jobs' = [jobs EXCEPT ![c].verdict = "ok",
                         ![c].step = IF Kind(c) = "stability" THEN "store" ELSE "mock"]
  <2>1. PICK step : step = IF Kind(c) = "stability" THEN "store" ELSE "mock"
    OBVIOUS
  <2>2. PICK j : j = [jobs[c] EXCEPT !.verdict = "ok", !.step = step]
    OBVIOUS
  <2>3. jobs' = [jobs EXCEPT ![c] = j]
    BY <1>5, <2>1, <2>2
  <2>4. step \in {"store", "mock"} /\ (step = "mock" => Kind(c) = "grid")
    BY <1>3, <1>5, <2>1 DEF GateKinds
  <2>5. /\ j \in JobRecord /\ j.status = "active" /\ j.step = step /\ j.said = Unsaid
        /\ j.verdict = "ok" /\ j.made = jobs[c].made /\ j.stalls = jobs[c].stalls
    BY <1>2, <1>3, <2>2, <2>4 DEF JobRecord, Verdicts
  <2>6. ~production /\ Kind(c) # "joint" /\ UNCHANGED alerts /\ Unsaid # "unstable"
    BY <1>5 DEF Unsaid
  <2> QED
    BY <1>1, <1>2, <2>3, <2>4, <2>5, <2>6, AttemptGoesOn
<1> QED
  BY <1>4, <1>5 DEF EngineFails

LEMMA RowTyped ==
  ASSUME NEW c \in Checks, jobs[c] \in JobRecord, NEW mock \in BOOLEAN
  PROVE  EvidenceRow(c, mock) \in EvidenceRecord
BY DEF EvidenceRow, EvidenceRecord, JobRecord

LEMMA StoreEvidenceKeeps ==
  ASSUME GateInv, NEW c \in Checks, StoreEvidence(c), UNCHANGED production
  PROVE  GateInv'
<1>1. /\ JobProgress(c) /\ JobVerdict(c) /\ evidence \subseteq EvidenceRecord
      /\ UNCHANGED <<gates, marks, production>> /\ jobs[c].step = "store"
  BY CheckKnown DEF JobOK, StoreEvidence
<1>2. jobs[c].status = "active" /\ jobs[c].status \in Running
  BY <1>1 DEF JobProgress, Running
<1>3. /\ Kind(c) \in GateKinds /\ jobs[c] \in JobRecord /\ Kind(c) # "joint" /\ Faithful(c)
      /\ Kind(c) = "grid" => jobs[c].said # "unstable"
  BY <1>1, <1>2, JobKnown DEF JobVerdict
<1>4. jobs[c].said \in Verdicts \cup {Unsaid} /\ jobs[c].verdict \in Verdicts \cup {Unsaid}
  BY <1>3 DEF JobRecord
<1>5. PICK mock \in BOOLEAN : mock = (jobs[c].said = Unsaid)
  OBVIOUS
<1>6. PICK row \in EvidenceRecord : row = EvidenceRow(c, mock)
  BY <1>3, RowTyped
<1>7. \/ jobs[c].verdict = jobs[c].said /\ jobs[c].said # Unsaid
      \/ ~production /\ jobs[c].said = Unsaid /\ jobs[c].verdict = "ok"
      \/ ~production /\ Kind(c) = "grid"
  BY <1>3 DEF Faithful
<1>8. production => row = [check |-> c, verdict |-> jobs[c].verdict, mock |-> FALSE]
  BY <1>5, <1>6, <1>7 DEF EvidenceRow
<1>9. CASE /\ evidence' = evidence \cup {row} /\ UNCHANGED alerts
           /\ jobs' = [jobs EXCEPT ![c] = Completed(c, @.said, @.verdict)]
  <2>1. jobs' = [jobs EXCEPT ![c] = Completed(c, jobs[c].said, jobs[c].verdict)]
    BY <1>9
  <2>2. /\ evidence' \subseteq EvidenceRecord /\ evidence \subseteq evidence'
        /\ production => [check |-> c, verdict |-> jobs[c].verdict, mock |-> FALSE] \in evidence'
    BY <1>1, <1>8, <1>9
  <2> QED
    BY <1>1, <1>2, <1>3, <1>4, <1>7, <1>9, <2>1, <2>2, JobCompletes
<1>10. CASE /\ evidence' \in {evidence, evidence \cup {row}}
            /\ \/ FailAttempt(c, jobs[c].said)
               \/ /\ ~production /\ UNCHANGED alerts
                  /\ jobs' = [jobs EXCEPT ![c] =
                       IF Kind(c) = "stability" THEN Completed(c, @.said, @.verdict)
                       ELSE [@ EXCEPT !.step = "mock", !.verdict = "ok"]]
  <2>1. evidence' \subseteq EvidenceRecord /\ evidence \subseteq evidence'
    BY <1>1, <1>10
  <2>2. CASE FailAttempt(c, jobs[c].said)
    BY <1>1, <1>3, <1>4, <2>1, <2>2, GateFailureKeeps
  <2>3. CASE /\ ~production /\ UNCHANGED alerts /\ Kind(c) = "stability"
             /\ jobs' = [jobs EXCEPT ![c] = Completed(c, @.said, @.verdict)]
    <3>1. jobs' = [jobs EXCEPT ![c] = Completed(c, jobs[c].said, jobs[c].verdict)]
      BY <2>3
    <3> QED
      BY <1>1, <1>2, <1>3, <1>4, <1>7, <2>1, <2>3, <3>1, JobCompletes
  <2>4. CASE /\ ~production /\ UNCHANGED alerts /\ Kind(c) = "grid"
             /\ jobs' = [jobs EXCEPT ![c] = [@ EXCEPT !.step = "mock", !.verdict = "ok"]]
    <3>1. PICK j : j = [jobs[c] EXCEPT !.step = "mock", !.verdict = "ok"]
      OBVIOUS
    <3>2. jobs' = [jobs EXCEPT ![c] = j]
      BY <2>4, <3>1
    <3>3. /\ j \in JobRecord /\ j.status = "active" /\ j.step = "mock" /\ j.said = jobs[c].said
          /\ j.made = jobs[c].made /\ j.stalls = jobs[c].stalls
      BY <1>2, <1>3, <3>1 DEF JobRecord, Verdicts
    <3>4. ~production /\ UNCHANGED alerts /\ Kind(c) = "grid"
      BY <2>4
    <3> QED
      BY <1>1, <1>2, <1>3, <2>1, <3>2, <3>3, <3>4, AttemptGoesOn
  <2> QED
    BY <1>3, <1>10, <2>2, <2>3, <2>4 DEF GateKinds
<1> QED
  BY <1>5, <1>6, <1>9, <1>10 DEF StoreEvidence

(***************************************************************************)
(* The mock certificate: only outside production, and of the grid gate.    *)
(***************************************************************************)
LEMMA StoreMockKeeps ==
  ASSUME GateInv, NEW c \in Checks, StoreMock(c), UNCHANGED production
  PROVE  GateInv'
<1>1. /\ JobProgress(c) /\ JobVerdict(c) /\ evidence \subseteq EvidenceRecord
      /\ UNCHANGED <<gates, marks, production>> /\ jobs[c].step = "mock"
  BY CheckKnown DEF JobOK, StoreMock
<1>2. jobs[c].status = "active" /\ jobs[c].status \in Running
  BY <1>1 DEF JobProgress, Running
<1>3. /\ jobs[c] \in JobRecord /\ ~production /\ Kind(c) = "grid"
      /\ jobs[c].said # "unstable"
  BY <1>1, <1>2, JobKnown DEF JobVerdict
<1>4. jobs[c].said \in Verdicts \cup {Unsaid} /\ "ok" \in Verdicts
  BY <1>3 DEF JobRecord, Verdicts
<1>5. PICK row \in EvidenceRecord : row = EvidenceRow(c, TRUE)
  BY <1>3, RowTyped
<1>6. evidence' \subseteq EvidenceRecord /\ evidence \subseteq evidence'
  BY <1>1, <1>5 DEF StoreMock
<1>7. CASE /\ jobs' = [jobs EXCEPT ![c] = Completed(c, @.said, "ok")] /\ UNCHANGED alerts
  <2>1. jobs' = [jobs EXCEPT ![c] = Completed(c, jobs[c].said, "ok")]
    BY <1>7
  <2> QED
    BY <1>1, <1>2, <1>3, <1>4, <1>6, <1>7, <2>1, JobCompletes
<1>8. CASE FailAttempt(c, jobs[c].said)
  BY <1>1, <1>3, <1>4, <1>6, <1>8, GateFailureKeeps
<1> QED
  BY <1>7, <1>8 DEF StoreMock
-------------------------------------------------------------------------------
LEMMA GateStep ==
  GateInv /\ [GateNext /\ UNCHANGED production]_<<gateVars, production>> => GateInv'
<1> SUFFICES ASSUME GateInv, [GateNext /\ UNCHANGED production]_<<gateVars, production>>
             PROVE  GateInv'
  OBVIOUS
<1>1. CASE GateNext /\ UNCHANGED production
  <2>1. PICK c \in Checks :
          \/ \E kind \in GateKinds : BeginCheck(c, kind)
          \/ AnswerCheck(c)
          \/ TakeCheck(c) \/ EngineAnswers(c) \/ EngineFails(c) \/ StoreEvidence(c)
          \/ StoreMock(c) \/ BackoffEnds(c) \/ StallJob(c)
    BY <1>1 DEF GateNext
  <2>2. CASE \E kind \in GateKinds : BeginCheck(c, kind)
    BY <1>1, <2>2, BeginKeeps
  <2>3. CASE AnswerCheck(c)
    BY <1>1, <2>3, GateAnswerKeeps
  <2>4. CASE TakeCheck(c)
    BY <1>1, <2>4, GateTakeKeeps
  <2>5. CASE EngineAnswers(c)
    BY <1>1, <2>5, EngineAnswersKeeps
  <2>6. CASE EngineFails(c)
    BY <1>1, <2>6, EngineFailsKeeps
  <2>7. CASE StoreEvidence(c)
    BY <1>1, <2>7, StoreEvidenceKeeps
  <2>8. CASE StoreMock(c)
    BY <1>1, <2>8, StoreMockKeeps
  <2>9. CASE BackoffEnds(c)
    BY <1>1, <2>9, BackoffKeeps
  <2>10. CASE StallJob(c)
    BY <1>1, <2>10, StallKeeps
  <2> QED
    BY <2>1, <2>2, <2>3, <2>4, <2>5, <2>6, <2>7, <2>8, <2>9, <2>10
<1>2. CASE UNCHANGED <<gateVars, production>>
  <2>1. UNCHANGED <<gates, jobs, marks, evidence, alerts, production>>
    BY <1>2 DEF gateVars
  <2>2. GateTypeOK'
    BY <2>1 DEF GateInv, GateTypeOK
  <2>3. \A c \in Checks : JobOK(c)'
    BY <2>1 DEF GateInv, JobOK, JobProgress, JobVerdict, JobAlert, Faithful, Kind
  <2> QED
    BY <2>1, <2>2, <2>3 DEF GateInv
<1> QED
  BY <1>1, <1>2

LEMMA GateAlways == GateSpec => []GateInv
BY GateInvInit, GateStep, PTL DEF GateSpec

(***************************************************************************)
(* jointGate.ts, worker.ts: every check, job, mark and certificate is of   *)
(* the kind the code gives it, and no job stalls more than twice.          *)
(***************************************************************************)
THEOREM GatesTyped == GateSpec => []GateTypeOK
<1>1. GateInv => GateTypeOK
  BY DEF GateInv
<1> QED
  BY <1>1, GateAlways, PTL

(* A gate passes on what the worker said, and that on what it kept.        *)
LEMMA BackedByInv == GateInv => PassIsBacked
<1> SUFFICES ASSUME GateInv, NEW c \in Checks, gates[c].stage = "passed"
             PROVE  /\ jobs[c].said # "unstable"
                    /\ production =>
                         /\ jobs[c].said = "ok"
                         /\ Kind(c) # "joint" =>
                              [check |-> c, verdict |-> "ok", mock |-> FALSE] \in evidence
  BY DEF PassIsBacked
<1>1. JobVerdict(c)
  BY DEF GateInv, JobOK
<1> QED
  BY <1>1 DEF JobVerdict, Faithful, Unsaid

(* A job that failed and was not alerted failed by stalling twice.         *)
LEMMA AlertedByInv == GateInv => ExhaustedIsAlerted
BY DEF GateInv, JobOK, JobAlert, ExhaustedIsAlerted

(***************************************************************************)
(* jointGate.ts:99-134, worker.ts:35-86, 118-193.  However often a job is  *)
(* retried, and whatever was lost on the way, a gate passes in production  *)
(* only on the engine's "ok" and, for the separate gates, on a stored row  *)
(* that is no mock; in any mode never on the engine's "unstable".          *)
(***************************************************************************)
THEOREM PassesAreBacked == GateSpec => []PassIsBacked
BY BackedByInv, GateAlways, PTL

(***************************************************************************)
(* worker.ts:90-96, 198-203.  The alert is raised for a stability or grid  *)
(* job with its attempts used up and for no other; only the worker's own   *)
(* death, twice, fails a job without it.                                   *)
(***************************************************************************)
THEOREM ExhaustedAreAlerted == GateSpec => []ExhaustedIsAlerted
BY AlertedByInv, GateAlways, PTL

(***************************************************************************)
(* How much a check has still to do, counted down: a retry uses up one of  *)
(* its attempts, a stall one of its two lives, and within an attempt the   *)
(* worker goes from the queue to the engine, to the row, to the mock.      *)
(***************************************************************************)
AttemptLeft(job) ==
  CASE job.status = "backoff"                        -> 6
    [] job.status = "queued"                         -> 5
    [] job.status = "active" /\ job.step = "verify"  -> 4
    [] job.status = "active" /\ job.step = "store"   -> 3
    [] job.status = "active" /\ job.step = "mock"    -> 2
    [] OTHER                                         -> 0

JobLeft(kind, job) ==
  IF job.status \in Running
  THEN 6 * ((Attempts[kind] - job.made) + (2 - job.stalls)) + AttemptLeft(job) ELSE 0

StageLeft(stage) == CASE stage = "waiting" -> 2 [] stage = "marking" -> 1 [] OTHER -> 0

(* For a check that has not begun, whatever its kind will be.              *)
NewLeft == 6 * (Attempts["joint"] + Attempts["stability"] + Attempts["grid"] + 2) + 8

CheckLeft(c) ==
  IF gates[c].stage = "new" THEN NewLeft
  ELSE StageLeft(gates[c].stage) + JobLeft(gates[c].kind, jobs[c])

(* jointGate.ts:52-91, queue/index.ts, worker.ts.  Whatever fails, stalls  *)
(* or times out, each step of a gate, of a worker or of the queue brings   *)
(* one check nearer to its end and leaves the others where they are: a     *)
(* check takes no more than NewLeft steps, and none for ever.              *)
ChecksRunOut ==
  [][\E c \in Checks : /\ CheckLeft(c)' \in Nat /\ CheckLeft(c)' < CheckLeft(c)
                       /\ \A d \in Checks \ {c} : CheckLeft(d)' = CheckLeft(d)]_gateVars

LEMMA CheckLeftNat == GateInv => \A c \in Checks : CheckLeft(c) \in Nat
<1> SUFFICES ASSUME GateInv, NEW c \in Checks PROVE CheckLeft(c) \in Nat
  OBVIOUS
<1>1. gates[c] \in GateRecord /\ jobs[c] \in JobRecord /\ JobOK(c)
  BY CheckKnown
<1>2. NewLeft \in Nat
  BY GateAssumption DEF NewLeft, GateKinds
<1>3. StageLeft(gates[c].stage) \in Nat /\ AttemptLeft(jobs[c]) \in Nat
  BY DEF StageLeft, AttemptLeft
<1>4. ASSUME jobs[c].status \in Running PROVE JobLeft(gates[c].kind, jobs[c]) \in Nat
  <2>1. gates[c].kind \in GateKinds /\ jobs[c].made < Attempts[gates[c].kind] /\ jobs[c].stalls <= 1
    BY <1>1, <1>4 DEF JobOK, JobProgress, Running, Kind
  <2>2. Attempts[gates[c].kind] \in Nat /\ jobs[c].made \in Nat /\ jobs[c].stalls \in Nat
    BY <1>1, <2>1, GateAssumption DEF JobRecord
  <2>3. (Attempts[gates[c].kind] - jobs[c].made) + (2 - jobs[c].stalls) \in Nat
    BY <2>1, <2>2
  <2> QED
    BY <1>3, <1>4, <2>3 DEF JobLeft
<1>5. JobLeft(gates[c].kind, jobs[c]) \in Nat
  BY <1>4 DEF JobLeft
<1> QED
  BY <1>2, <1>3, <1>5 DEF CheckLeft

(* A step that changes the gate and the job of one check changes what is   *)
(* left of no other.                                                       *)
LEMMA OthersStay ==
  ASSUME GateInv, NEW c \in Checks, NEW g, NEW j,
         gates' = [gates EXCEPT ![c] = g], jobs' = [jobs EXCEPT ![c] = j]
  PROVE  /\ gates'[c] = g /\ jobs'[c] = j
         /\ \A d \in Checks \ {c} : CheckLeft(d)' = CheckLeft(d)
<1>1. gates \in [Checks -> GateRecord] /\ jobs \in [Checks -> JobRecord]
  BY DEF GateInv, GateTypeOK, GateRecord, JobRecord
<1>2. /\ gates'[c] = g /\ jobs'[c] = j
      /\ \A d \in Checks \ {c} : gates'[d] = gates[d] /\ jobs'[d] = jobs[d]
  BY <1>1
<1> QED
  BY <1>2 DEF CheckLeft

(* The steps of a gate.                                                    *)
LEMMA BeginLowers ==
  ASSUME GateInv, NEW c \in Checks, NEW kind \in GateKinds, BeginCheck(c, kind)
  PROVE  /\ CheckLeft(c)' < CheckLeft(c)
         /\ \A d \in Checks \ {c} : CheckLeft(d)' = CheckLeft(d)
<1>1. gates[c].stage = "new" /\ jobs[c] = NoJob
  BY CheckKnown DEF BeginCheck, JobOK, JobProgress
<1>2. \E g, j : /\ gates' = [gates EXCEPT ![c] = g] /\ jobs' = [jobs EXCEPT ![c] = j]
                /\ g.kind = kind /\ g.stage \in {"waiting", "threw"}
                /\ j = NoJob \/ j = [NoJob EXCEPT !.status = "queued"]
  <2>1. CASE /\ gates' = [gates EXCEPT ![c] = [kind |-> kind, stage |-> "waiting"]]
             /\ jobs' = [jobs EXCEPT ![c].status = "queued"]
    <3> WITNESS [kind |-> kind, stage |-> "waiting"], [NoJob EXCEPT !.status = "queued"]
    <3> QED
      BY <1>1, <2>1
  <2>2. CASE /\ gates' = [gates EXCEPT ![c] = [kind |-> kind, stage |-> "threw"]]
             /\ UNCHANGED jobs
    <3> WITNESS [kind |-> kind, stage |-> "threw"], NoJob
    <3> QED
      BY <1>1, <2>2, CheckKnown
  <2> QED
    BY <2>1, <2>2 DEF BeginCheck
<1>3. PICK g, j : /\ gates' = [gates EXCEPT ![c] = g] /\ jobs' = [jobs EXCEPT ![c] = j]
                  /\ g.kind = kind /\ g.stage \in {"waiting", "threw"}
                  /\ j = NoJob \/ j = [NoJob EXCEPT !.status = "queued"]
  BY <1>2
<1>4. /\ gates'[c] = g /\ jobs'[c] = j
      /\ \A d \in Checks \ {c} : CheckLeft(d)' = CheckLeft(d)
  BY <1>3, OthersStay
<1>5. JobLeft(kind, j) <= 6 * (Attempts[kind] + 2) + 5 /\ StageLeft(g.stage) \in 0 .. 2
      /\ JobLeft(kind, j) \in Nat
  BY <1>3, GateAssumption DEF JobLeft, AttemptLeft, NoJob, Running, StageLeft
<1>6. 6 * (Attempts[kind] + 2) + 7 < NewLeft /\ NewLeft \in Nat /\ Attempts[kind] \in Nat
  BY GateAssumption DEF NewLeft, GateKinds
<1>7. CheckLeft(c)' = StageLeft(g.stage) + JobLeft(kind, j) /\ CheckLeft(c) = NewLeft
  BY <1>1, <1>3, <1>4 DEF CheckLeft
<1> QED
  BY <1>4, <1>5, <1>6, <1>7

LEMMA AnswerLowers ==
  ASSUME GateInv, NEW c \in Checks, AnswerCheck(c)
  PROVE  /\ CheckLeft(c)' < CheckLeft(c)
         /\ \A d \in Checks \ {c} : CheckLeft(d)' = CheckLeft(d)
<1>1. \E g : /\ gates' = [gates EXCEPT ![c] = g] /\ g.kind = gates[c].kind
             /\ \/ gates[c].stage = "waiting" /\ g.stage \in {"threw", "passed", "marking"}
                \/ gates[c].stage = "marking" /\ g.stage = "rejected"
  <2>1. gates[c] \in GateRecord
    BY CheckKnown
  <2>2. ASSUME NEW stage, gates' = [gates EXCEPT ![c].stage = stage]
        PROVE  \E g : gates' = [gates EXCEPT ![c] = g] /\ g.kind = gates[c].kind /\ g.stage = stage
    <3> WITNESS [gates[c] EXCEPT !.stage = stage]
    <3> QED
      BY <2>1, <2>2 DEF GateRecord
  <2> QED
    BY <2>2 DEF AnswerCheck, ReceiveResult, TimeOut, MarkRejected
<1>2. PICK g : /\ gates' = [gates EXCEPT ![c] = g] /\ g.kind = gates[c].kind
               /\ \/ gates[c].stage = "waiting" /\ g.stage \in {"threw", "passed", "marking"}
                  \/ gates[c].stage = "marking" /\ g.stage = "rejected"
  BY <1>1
<1>3. jobs' = [jobs EXCEPT ![c] = jobs[c]]
  BY CheckKnown DEF AnswerCheck, ReceiveResult, TimeOut, MarkRejected
<1>4. /\ gates'[c] = g /\ jobs'[c] = jobs[c]
      /\ \A d \in Checks \ {c} : CheckLeft(d)' = CheckLeft(d)
  BY <1>2, <1>3, OthersStay
<1>5. StageLeft(g.stage) < StageLeft(gates[c].stage) /\ StageLeft(g.stage) \in Nat
      /\ StageLeft(gates[c].stage) \in Nat
  BY <1>2 DEF StageLeft
<1>6. /\ CheckLeft(c)' = StageLeft(g.stage) + JobLeft(gates[c].kind, jobs[c])
      /\ CheckLeft(c) = StageLeft(gates[c].stage) + JobLeft(gates[c].kind, jobs[c])
  BY <1>2, <1>4 DEF CheckLeft
<1>7. JobLeft(gates[c].kind, jobs[c]) \in Int
  <2>1. CheckLeft(c) \in Nat
    BY CheckLeftNat
  <2>2. CASE jobs[c].status \in Running
    <3>1. gates[c].kind \in GateKinds /\ jobs[c] \in JobRecord
      BY <2>2, CheckKnown DEF JobOK, JobProgress, Running, Kind
    <3>2. Attempts[gates[c].kind] \in Nat /\ jobs[c].made \in Nat /\ jobs[c].stalls \in Nat
      BY <3>1, GateAssumption DEF JobRecord
    <3>3. AttemptLeft(jobs[c]) \in Nat
      BY DEF AttemptLeft
    <3> QED
      BY <3>2, <3>3 DEF JobLeft
  <2> QED
    BY <2>2 DEF JobLeft
<1> QED
  BY <1>4, <1>5, <1>6, <1>7

(* A job that goes on as j has less left when j is ended, or is further in *)
(* the same attempt, or has an attempt made or a stall more.               *)
LEMMA JobLowers ==
  ASSUME GateInv, NEW c \in Checks, jobs[c].status \in Running, NEW j \in JobRecord,
         UNCHANGED gates, jobs' = [jobs EXCEPT ![c] = j],
         \/ j.status \notin Running
         \/ /\ j.made = jobs[c].made /\ j.stalls = jobs[c].stalls
            /\ AttemptLeft(j) < AttemptLeft(jobs[c])
         \/ /\ jobs[c].status = "active"
            /\ j.made + j.stalls = jobs[c].made + jobs[c].stalls + 1
  PROVE  /\ CheckLeft(c)' < CheckLeft(c)
         /\ \A d \in Checks \ {c} : CheckLeft(d)' = CheckLeft(d)
<1>1. /\ gates[c] \in GateRecord /\ jobs[c] \in JobRecord
      /\ gates[c].kind \in GateKinds /\ gates[c].stage # "new"
      /\ jobs[c].made < Attempts[gates[c].kind] /\ jobs[c].stalls <= 1
      /\ jobs[c].status = "active" => jobs[c].step \in {"verify", "store", "mock"}
  BY CheckKnown DEF JobOK, JobProgress, Kind, Running, NoJob, JobRecord
<1>2. gates' = [gates EXCEPT ![c] = gates[c]]
  BY CheckKnown
<1>3. /\ gates'[c] = gates[c] /\ jobs'[c] = j
      /\ \A d \in Checks \ {c} : CheckLeft(d)' = CheckLeft(d)
  BY <1>2, OthersStay
<1>4. /\ Attempts[gates[c].kind] \in Nat /\ jobs[c].made \in Nat /\ jobs[c].stalls \in Nat
      /\ j.made \in Nat /\ j.stalls \in Nat
  BY <1>1, GateAssumption DEF JobRecord
<1>5. /\ AttemptLeft(jobs[c]) \in 2 .. 6 /\ AttemptLeft(j) \in 0 .. 6
      /\ jobs[c].status = "active" => AttemptLeft(jobs[c]) >= 2
  BY <1>1 DEF AttemptLeft, Running
<1>6. JobLeft(gates[c].kind, j) < JobLeft(gates[c].kind, jobs[c])
      /\ JobLeft(gates[c].kind, j) \in Int /\ JobLeft(gates[c].kind, jobs[c]) \in Int
  <2> DEFINE a == Attempts[gates[c].kind]
  <2>1. JobLeft(gates[c].kind, jobs[c])
          = 6 * ((a - jobs[c].made) + (2 - jobs[c].stalls)) + AttemptLeft(jobs[c])
    BY DEF JobLeft
  <2>2. CASE j.status \notin Running
    BY <1>1, <1>4, <1>5, <2>1, <2>2 DEF JobLeft
  <2>3. CASE j.status \in Running
    <3>1. JobLeft(gates[c].kind, j) = 6 * ((a - j.made) + (2 - j.stalls)) + AttemptLeft(j)
      BY <2>3 DEF JobLeft
    <3> HIDE DEF a
    <3>2. a \in Nat
      BY <1>4 DEF a
    <3> DEFINE m == jobs[c].made
               s == jobs[c].stalls
               n == j.made
               t == j.stalls
    <3>3. m \in Nat /\ n \in Nat /\ s \in Nat /\ t \in Nat
      BY <1>4
    <3>4. \/ n = m /\ t = s /\ AttemptLeft(j) < AttemptLeft(jobs[c])
          \/ n + t = m + s + 1 /\ AttemptLeft(j) <= 6 /\ AttemptLeft(jobs[c]) >= 2
      BY <1>5, <2>3
    <3> HIDE DEF m, s, n, t
    <3>5. 6 * ((a - n) + (2 - t)) + AttemptLeft(j) < 6 * ((a - m) + (2 - s)) + AttemptLeft(jobs[c])
      BY <1>5, <3>2, <3>3, <3>4
    <3>6. /\ JobLeft(gates[c].kind, j) = 6 * ((a - n) + (2 - t)) + AttemptLeft(j)
          /\ JobLeft(gates[c].kind, jobs[c]) = 6 * ((a - m) + (2 - s)) + AttemptLeft(jobs[c])
      BY <2>1, <3>1 DEF m, s, n, t
    <3> QED
      BY <1>5, <3>2, <3>3, <3>5, <3>6
  <2> QED
    BY <2>2, <2>3
<1>7. /\ CheckLeft(c)' = StageLeft(gates[c].stage) + JobLeft(gates[c].kind, j)
      /\ CheckLeft(c) = StageLeft(gates[c].stage) + JobLeft(gates[c].kind, jobs[c])
  BY <1>1, <1>3 DEF CheckLeft
<1>8. StageLeft(gates[c].stage) \in Nat
  BY DEF StageLeft
<1> QED
  BY <1>3, <1>6, <1>7, <1>8

(* The steps of a worker and of the queue.                                 *)
LEMMA WorkLowers ==
  ASSUME GateInv, GateInv', NEW c \in Checks, NEW j, jobs' = [jobs EXCEPT ![c] = j],
         UNCHANGED gates, jobs[c].status \in Running,
         \/ j.status \in {"completed", "failed"}
         \/ /\ j.made = jobs[c].made /\ j.stalls = jobs[c].stalls
            /\ AttemptLeft(j) < AttemptLeft(jobs[c])
         \/ /\ jobs[c].status = "active"
            /\ j.made + j.stalls = jobs[c].made + jobs[c].stalls + 1
  PROVE  /\ CheckLeft(c)' < CheckLeft(c)
         /\ \A d \in Checks \ {c} : CheckLeft(d)' = CheckLeft(d)
<1>1. jobs'[c] = j
  BY DEF GateInv, GateTypeOK
<1>2. j \in JobRecord
  BY <1>1 DEF GateInv, GateTypeOK, JobRecord
<1>3. j.status \in {"completed", "failed"} => j.status \notin Running
  BY DEF Running
<1> QED
  BY <1>2, <1>3, JobLowers

LEMMA FailureLowers ==
  ASSUME GateInv, GateInv', NEW c \in Checks, NEW said, FailAttempt(c, said),
         jobs[c].status = "active", UNCHANGED gates
  PROVE  /\ CheckLeft(c)' < CheckLeft(c)
         /\ \A d \in Checks \ {c} : CheckLeft(d)' = CheckLeft(d)
<1>1. jobs[c] \in JobRecord
  BY CheckKnown
<1>2. PICK j : /\ jobs' = [jobs EXCEPT ![c] = j]
               /\ j.made = jobs[c].made + 1 /\ j.stalls = jobs[c].stalls
  <2>1. PICK status : status = IF jobs[c].made + 1 >= Attempts[Kind(c)] THEN "failed" ELSE "backoff"
    OBVIOUS
  <2>2. PICK j : j = [jobs[c] EXCEPT !.made = jobs[c].made + 1, !.step = "none", !.said = said,
                                     !.status = status]
    OBVIOUS
  <2>3. jobs' = [jobs EXCEPT ![c].made = jobs[c].made + 1, ![c].step = "none", ![c].said = said,
                             ![c].status = status]
    BY <2>1 DEF FailAttempt
  <2>4. jobs' = [jobs EXCEPT ![c] = j]
    BY ONLY <2>2, <2>3, ZenonT(40)
  <2>5. j.made = jobs[c].made + 1 /\ j.stalls = jobs[c].stalls
    BY <1>1, <2>2 DEF JobRecord
  <2> QED
    BY <2>4, <2>5
<1>3. j.made + j.stalls = jobs[c].made + jobs[c].stalls + 1
  BY <1>1, <1>2 DEF JobRecord
<1>4. jobs[c].status \in Running
  BY DEF Running
<1> QED
  BY <1>2, <1>3, <1>4, WorkLowers

LEMMA TakeLowers ==
  ASSUME GateInv, GateInv', NEW c \in Checks, TakeCheck(c) \/ BackoffEnds(c) \/ StallJob(c)
  PROVE  /\ CheckLeft(c)' < CheckLeft(c)
         /\ \A d \in Checks \ {c} : CheckLeft(d)' = CheckLeft(d)
<1>1. /\ jobs[c] \in JobRecord /\ UNCHANGED gates
      /\ jobs[c].step # "none" <=> jobs[c].status = "active"
  BY CheckKnown DEF JobOK, JobProgress, TakeCheck, BackoffEnds, StallJob
<1>2. CASE TakeCheck(c)
  <2>1. PICK j : /\ jobs' = [jobs EXCEPT ![c] = j] /\ j.status = "active" /\ j.step = "verify"
                 /\ j.made = jobs[c].made /\ j.stalls = jobs[c].stalls
    <3> WITNESS [jobs[c] EXCEPT !.status = "active", !.step = "verify", !.said = Unsaid]
    <3> QED
      BY <1>1, <1>2 DEF TakeCheck, JobRecord, GateInv, GateTypeOK
  <2>2. jobs[c].status = "queued"
    BY <1>2 DEF TakeCheck
  <2>3. jobs[c].status \in Running
    BY <2>2 DEF Running
  <2>4. AttemptLeft(j) < AttemptLeft(jobs[c])
    BY <2>1, <2>2 DEF AttemptLeft
  <2> QED
    BY <1>1, <2>1, <2>3, <2>4, WorkLowers
<1>3. CASE BackoffEnds(c)
  <2>1. PICK j : /\ jobs' = [jobs EXCEPT ![c] = j] /\ j.status = "queued"
                 /\ j.made = jobs[c].made /\ j.stalls = jobs[c].stalls
    <3> WITNESS [jobs[c] EXCEPT !.status = "queued"]
    <3> QED
      BY <1>1, <1>3 DEF BackoffEnds, JobRecord, GateInv, GateTypeOK
  <2>2. jobs[c].status = "backoff"
    BY <1>3 DEF BackoffEnds
  <2>3. jobs[c].status \in Running
    BY <2>2 DEF Running
  <2>4. AttemptLeft(j) < AttemptLeft(jobs[c])
    BY <2>1, <2>2 DEF AttemptLeft
  <2> QED
    BY <1>1, <2>1, <2>3, <2>4, WorkLowers
<1>4. CASE StallJob(c)
  <2>1. PICK j : /\ jobs' = [jobs EXCEPT ![c] = j]
                 /\ j.made = jobs[c].made /\ j.stalls = jobs[c].stalls + 1
    <3>1. PICK status : status = IF jobs[c].stalls = 0 THEN "queued" ELSE "failed"
      OBVIOUS
    <3>2. PICK j : j = [jobs[c] EXCEPT !.stalls = jobs[c].stalls + 1, !.step = "none",
                                       !.status = status]
      OBVIOUS
    <3>3. jobs' = [jobs EXCEPT ![c].stalls = jobs[c].stalls + 1, ![c].step = "none",
                               ![c].status = status]
      BY <1>4, <3>1 DEF StallJob
    <3>4. jobs' = [jobs EXCEPT ![c] = j]
      BY ONLY <3>2, <3>3, ZenonT(40)
    <3>5. j.made = jobs[c].made /\ j.stalls = jobs[c].stalls + 1
      BY <1>1, <3>2 DEF JobRecord
    <3> QED
      BY <3>4, <3>5
  <2>2. jobs[c].status = "active"
    BY <1>4 DEF StallJob
  <2>3. j.made + j.stalls = jobs[c].made + jobs[c].stalls + 1 /\ jobs[c].status \in Running
    BY <1>1, <2>1, <2>2 DEF JobRecord, Running
  <2> QED
    BY <1>1, <2>1, <2>2, <2>3, WorkLowers
<1> QED
  BY <1>2, <1>3, <1>4

LEMMA EngineLowers ==
  ASSUME GateInv, GateInv', NEW c \in Checks,
         EngineAnswers(c) \/ EngineFails(c) \/ StoreEvidence(c) \/ StoreMock(c)
  PROVE  /\ CheckLeft(c)' < CheckLeft(c)
         /\ \A d \in Checks \ {c} : CheckLeft(d)' = CheckLeft(d)
<1>1. /\ jobs[c] \in JobRecord /\ UNCHANGED gates
      /\ jobs[c].step # "none" <=> jobs[c].status = "active"
      /\ jobs[c].step \in {"verify", "store", "mock"}
  BY CheckKnown DEF JobOK, JobProgress, EngineAnswers, EngineFails, StoreEvidence, StoreMock
<1>2. jobs[c].status = "active" /\ jobs[c].status \in Running
  BY <1>1 DEF Running
<1>3. ASSUME NEW said, FailAttempt(c, said)
      PROVE  /\ CheckLeft(c)' < CheckLeft(c)
             /\ \A d \in Checks \ {c} : CheckLeft(d)' = CheckLeft(d)
  BY <1>1, <1>2, <1>3, FailureLowers
<1>4. ASSUME NEW said, NEW verdict, jobs' = [jobs EXCEPT ![c] = Completed(c, said, verdict)]
      PROVE  /\ CheckLeft(c)' < CheckLeft(c)
             /\ \A d \in Checks \ {c} : CheckLeft(d)' = CheckLeft(d)
  <2>1. Completed(c, said, verdict).status = "completed"
    BY <1>1 DEF Completed, JobRecord
  <2> QED
    BY <1>1, <1>2, <1>4, <2>1, WorkLowers
<1>5. ASSUME NEW j, jobs' = [jobs EXCEPT ![c] = j], j.status = "active",
             j.made = jobs[c].made, j.stalls = jobs[c].stalls,
             \/ jobs[c].step = "verify" /\ j.step = "store"
             \/ jobs[c].step # "mock" /\ j.step = "mock"
      PROVE  /\ CheckLeft(c)' < CheckLeft(c)
             /\ \A d \in Checks \ {c} : CheckLeft(d)' = CheckLeft(d)
  <2>1. AttemptLeft(j) < AttemptLeft(jobs[c])
    BY <1>1, <1>2, <1>5 DEF AttemptLeft
  <2> QED
    BY <1>1, <1>2, <1>5, <2>1, WorkLowers
<1>6. CASE EngineAnswers(c)
  <2>1. PICK v :
          jobs' = [jobs EXCEPT ![c] =
                     IF Kind(c) = "joint" THEN Completed(c, v, v)
                     ELSE [@ EXCEPT !.step = "store", !.said = v, !.verdict = v]]
    BY <1>6 DEF EngineAnswers
  <2>2. CASE Kind(c) = "joint"
    <3>1. jobs' = [jobs EXCEPT ![c] = Completed(c, v, v)]
      BY <2>1, <2>2
    <3> QED
      BY <1>4, <3>1
  <2>3. CASE Kind(c) # "joint"
    <3>1. PICK j : j = [jobs[c] EXCEPT !.step = "store", !.said = v, !.verdict = v]
      OBVIOUS
    <3>2. jobs' = [jobs EXCEPT ![c] = j]
      BY <2>1, <2>3, <3>1
    <3>3. /\ j.status = "active" /\ j.step = "store"
          /\ j.made = jobs[c].made /\ j.stalls = jobs[c].stalls
      BY <1>1, <1>2, <3>1 DEF JobRecord
    <3>4. jobs[c].step = "verify"
      BY <1>6 DEF EngineAnswers
    <3> QED
      BY <1>5, <3>2, <3>3, <3>4
  <2> QED
    BY <2>2, <2>3
<1>7. CASE EngineFails(c)
  <2>1. CASE FailAttempt(c, Unsaid)
    BY <1>3, <2>1
  <2>2. CASE jobs' = [jobs EXCEPT ![c].verdict = "ok",
                        ![c].step = IF Kind(c) = "stability" THEN "store" ELSE "mock"]
    <3>1. PICK step : step = IF Kind(c) = "stability" THEN "store" ELSE "mock"
      OBVIOUS
    <3>2. PICK j : j = [jobs[c] EXCEPT !.verdict = "ok", !.step = step]
      OBVIOUS
    <3>3. jobs' = [jobs EXCEPT ![c] = j]
      BY <2>2, <3>1, <3>2
    <3>4. jobs[c].step = "verify" /\ step \in {"store", "mock"}
      BY <1>7, <3>1 DEF EngineFails
    <3>5. /\ j.status = "active" /\ j.step = step
          /\ j.made = jobs[c].made /\ j.stalls = jobs[c].stalls
      BY <1>1, <1>2, <3>2 DEF JobRecord
    <3> QED
      BY <1>5, <3>3, <3>4, <3>5
  <2> QED
    BY <1>7, <2>1, <2>2 DEF EngineFails
<1>8. CASE StoreEvidence(c)
  <2>1. CASE FailAttempt(c, jobs[c].said)
    BY <1>3, <2>1
  <2>2. CASE jobs' = [jobs EXCEPT ![c] = Completed(c, @.said, @.verdict)]
    BY <1>4, <2>2
  <2>3. CASE jobs' = [jobs EXCEPT ![c] = [@ EXCEPT !.step = "mock", !.verdict = "ok"]]
    <3>1. PICK j : j = [jobs[c] EXCEPT !.step = "mock", !.verdict = "ok"]
      OBVIOUS
    <3>2. jobs' = [jobs EXCEPT ![c] = j]
      BY <2>3, <3>1
    <3>3. /\ j.status = "active" /\ j.step = "mock"
          /\ j.made = jobs[c].made /\ j.stalls = jobs[c].stalls
      BY <1>1, <1>2, <3>1 DEF JobRecord
    <3>4. jobs[c].step # "mock"
      BY <1>8 DEF StoreEvidence
    <3> QED
      BY <1>5, <3>2, <3>3, <3>4
  <2> QED
    BY <1>8, <2>1, <2>2, <2>3 DEF StoreEvidence
<1>9. CASE StoreMock(c)
  BY <1>3, <1>4, <1>9 DEF StoreMock
<1> QED
  BY <1>6, <1>7, <1>8, <1>9

(* Every step of GateJobs lowers what is left of one check.                *)
LEMMA ChecksLower ==
  GateInv /\ GateInv' /\ [GateNext /\ UNCHANGED production]_<<gateVars, production>>
    => [\E c \in Checks : /\ CheckLeft(c)' \in Nat /\ CheckLeft(c)' < CheckLeft(c)
                          /\ \A d \in Checks \ {c} : CheckLeft(d)' = CheckLeft(d)]_gateVars
<1> SUFFICES ASSUME GateInv, GateInv', GateNext
             PROVE  \E c \in Checks : /\ CheckLeft(c)' \in Nat /\ CheckLeft(c)' < CheckLeft(c)
                                      /\ \A d \in Checks \ {c} : CheckLeft(d)' = CheckLeft(d)
  OBVIOUS
<1>1. (\A c \in Checks : CheckLeft(c) \in Nat)'
  BY CheckLeftNat, PTL
<1>2. PICK c \in Checks :
        \/ \E kind \in GateKinds : BeginCheck(c, kind)
        \/ AnswerCheck(c)
        \/ TakeCheck(c) \/ EngineAnswers(c) \/ EngineFails(c) \/ StoreEvidence(c)
        \/ StoreMock(c) \/ BackoffEnds(c) \/ StallJob(c)
  BY DEF GateNext
<1>3. /\ CheckLeft(c)' < CheckLeft(c)
      /\ \A d \in Checks \ {c} : CheckLeft(d)' = CheckLeft(d)
  BY <1>2, BeginLowers, AnswerLowers, TakeLowers, EngineLowers
<1> QED
  BY <1>1, <1>3

(* However often a check is retried, and whatever stalls, it ends after a  *)
(* number of steps that is known when it begins (worker.ts:35-203): the    *)
(* retries of a job are counted, by attempts and by stalls, and none of    *)
(* them gives back what another has used up.                               *)
THEOREM ChecksTakeFewSteps == GateSpec => ChecksRunOut
BY GateAlways, ChecksLower, PTL DEF GateSpec, ChecksRunOut

(***************************************************************************)
(* Sums over finite sets.  A sum is worked out by a recursive function,    *)
(* which takes an element of a set away at a time.                         *)
(***************************************************************************)
Taken(s) == CHOOSE x \in s : TRUE
Adds(g, f, S) == g = [s \in SUBSET S |-> IF s = {} THEN 0 ELSE f[Taken(s)] + g[s \ {Taken(s)}]]

(* The definition of the library, with its recursion named.                *)
LEMMA SumUnfold == \A f, S : SumFunctionOnSet(f, S) = (CHOOSE g : Adds(g, f, S))[S]
BY DEF SumFunctionOnSet, FoldFunctionOnSet, MapThenFoldSet, Adds, Taken

(* A set of numbers that is not empty has a least one.                     *)
LEMMA LeastNumber == \A S \in SUBSET Nat : S # {} => \E x \in S : \A y \in S : x <= y
<1> SUFFICES ASSUME NEW S \in SUBSET Nat, S # {} PROVE \E x \in S : \A y \in S : x <= y
  OBVIOUS
<1>1. PICK x \in S : \A y \in S : <<y, x>> \notin OpToRel(<, Nat)
  BY NatLessThanWellFounded, WFMin, Zenon
<1>2. \A y, z \in Nat : y < z => <<y, z>> \in OpToRel(<, Nat)  BY Zenon DEF OpToRel
<1>3. \A y \in S : ~ (y < x)  BY <1>1, <1>2, Zenon
<1>4. QED  BY <1>3

(* A collection of finite sets that is not empty has a smallest one.       *)
LEMMA SmallestSet ==
  ASSUME NEW C, C # {}, \A s \in C : IsFiniteSet(s)
  PROVE  \E s \in C : \A t \in C : Cardinality(s) <= Cardinality(t)
<1> DEFINE sizes == {Cardinality(s) : s \in C}
<1>1. sizes \in SUBSET Nat /\ sizes # {}  BY FS_CardinalityType
<1>2. PICK k \in sizes : \A l \in sizes : k <= l
  <2> HIDE DEF sizes
  <2>1. QED  BY <1>1, LeastNumber
<1>3. QED  BY <1>2

(* What is taken from a set leaves one element fewer.                      *)
LEMMA TakenFrom ==
  ASSUME NEW s, IsFiniteSet(s), s # {}
  PROVE  /\ Taken(s) \in s /\ IsFiniteSet(s \ {Taken(s)})
         /\ Cardinality(s) \in Nat /\ Cardinality(s \ {Taken(s)}) = Cardinality(s) - 1
<1>1. Taken(s) \in s  BY DEF Taken
<1>2. QED  BY <1>1, FS_RemoveElement, FS_CardinalityType

(* There is such a function, built up from the smaller sets to the larger. *)
LEMMA AddsExists ==
  ASSUME NEW f, NEW S, IsFiniteSet(S)
  PROVE  \E g : Adds(g, f, S)
<1> DEFINE upTo(k) == {s \in SUBSET S : Cardinality(s) <= k}
           value(g, s) == IF s = {} THEN 0 ELSE f[Taken(s)] + g[s \ {Taken(s)}]
           good(k) == \E g : DOMAIN g = upTo(k) /\ \A s \in upTo(k) : g[s] = value(g, s)
           bad == {k \in Nat : ~good(k)}
<1>1. \A s \in SUBSET S : /\ IsFiniteSet(s) /\ Cardinality(s) \in Nat
                          /\ Cardinality(s) = 0 <=> s = {}
  <2> SUFFICES ASSUME NEW s \in SUBSET S
               PROVE  IsFiniteSet(s) /\ Cardinality(s) \in Nat /\ (Cardinality(s) = 0 <=> s = {})
    OBVIOUS
  <2>1. IsFiniteSet(s)  BY FS_Subset
  <2>2. QED  BY <2>1, FS_CardinalityType, FS_EmptySet
<1>2. good(0)
  <2>1. \A s \in upTo(0) : s = {}  BY <1>1
  <2> DEFINE g == [s \in upTo(0) |-> 0]
  <2>2. DOMAIN g = upTo(0) /\ \A s \in upTo(0) : g[s] = value(g, s)  BY <2>1
  <2>3. QED  BY <2>2
<1>3. ASSUME NEW k \in Nat, good(k) PROVE good(k + 1)
  <2>1. PICK g : DOMAIN g = upTo(k) /\ \A s \in upTo(k) : g[s] = value(g, s)  BY <1>3
  <2> DEFINE h == [s \in upTo(k + 1) |-> IF s \in upTo(k) THEN g[s] ELSE value(g, s)]
  <2>2. ASSUME NEW s \in upTo(k + 1), s # {} PROVE s \ {Taken(s)} \in upTo(k)
    <3>1. Cardinality(s) <= k + 1 /\ IsFiniteSet(s) /\ s \in SUBSET S  BY <1>1
    <3>2. Cardinality(s \ {Taken(s)}) = Cardinality(s) - 1 /\ Cardinality(s) \in Nat
      BY <2>2, <3>1, TakenFrom
    <3>3. QED  BY <3>1, <3>2
  <2>3. upTo(k) \subseteq upTo(k + 1)
    <3>1. \A s \in SUBSET S : Cardinality(s) <= k => Cardinality(s) <= k + 1  BY <1>1
    <3>2. QED  BY <3>1
  <2> HIDE DEF upTo
  <2>4. ASSUME NEW s \in upTo(k + 1) PROVE h[s] = value(h, s)
    <3>1. h[s] = value(g, s)  BY <2>1
    <3>2. s # {} => h[s \ {Taken(s)}] = g[s \ {Taken(s)}]  BY <2>2, <2>3
    <3>3. QED  BY <3>1, <3>2
  <2>5. DOMAIN h = upTo(k + 1)  OBVIOUS
  <2> HIDE DEF h, value
  <2>6. QED  BY <2>4, <2>5
<1>4. bad = {}
  <2> SUFFICES ASSUME bad # {} PROVE FALSE  OBVIOUS
  <2>1. bad \in SUBSET Nat  OBVIOUS
  <2>2. PICK k \in bad : \A l \in bad : k <= l
    <3> HIDE DEF bad
    <3>1. QED  BY <2>1, LeastNumber
  <2> HIDE DEF good
  <2>3. k \in Nat /\ k # 0 /\ k - 1 \in Nat  BY <2>2, <1>2
  <2>4. good(k - 1)  BY <2>2, <2>3
  <2>5. good(k - 1 + 1)  BY <2>3, <2>4, <1>3
  <2>6. k - 1 + 1 = k  BY <2>3
  <2>7. QED  BY <2>2, <2>5, <2>6
<1>5. good(Cardinality(S))  BY <1>1, <1>4
<1>6. upTo(Cardinality(S)) = SUBSET S  BY FS_Subset
<1> HIDE DEF upTo
<1>7. PICK g : DOMAIN g = SUBSET S /\ \A s \in SUBSET S : g[s] = value(g, s)
  BY <1>5, <1>6
<1> HIDE DEF value
<1> DEFINE h == [s \in SUBSET S |-> g[s]]
<1>8. h = [s \in SUBSET S |-> value(g, s)] /\ \A s \in SUBSET S : h[s] = g[s]  BY <1>7
<1>9. \A s \in SUBSET S : value(h, s) = value(g, s)  BY <1>8 DEF value, Taken
<1> HIDE DEF h
<1>10. h = [s \in SUBSET S |-> value(h, s)]  BY <1>8, <1>9
<1>11. QED  BY <1>10 DEF Adds, value

(* Two such functions are the same, on the sets of both.                   *)
LEMMA AddsUnique ==
  ASSUME NEW f, NEW S, IsFiniteSet(S), NEW T \in SUBSET S, NEW g, NEW h,
         Adds(g, f, S), Adds(h, f, T)
  PROVE  \A s \in SUBSET T : g[s] = h[s]
<1> DEFINE bad == {s \in SUBSET T : g[s] # h[s]}
<1> SUFFICES ASSUME bad # {} PROVE FALSE  OBVIOUS
<1>1. \A s \in bad : IsFiniteSet(s)  BY FS_Subset
<1>2. PICK s \in bad : \A t \in bad : Cardinality(s) <= Cardinality(t)
  <2> HIDE DEF bad
  <2>1. QED  BY <1>1, SmallestSet
<1>3. g[s] = IF s = {} THEN 0 ELSE f[Taken(s)] + g[s \ {Taken(s)}]  BY DEF Adds
<1>4. h[s] = IF s = {} THEN 0 ELSE f[Taken(s)] + h[s \ {Taken(s)}]  BY DEF Adds
<1>5. s # {} /\ g[s \ {Taken(s)}] # h[s \ {Taken(s)}]  BY <1>3, <1>4
<1>6. s \ {Taken(s)} \in bad  BY <1>5
<1>7. Cardinality(s) \in Nat /\ Cardinality(s \ {Taken(s)}) = Cardinality(s) - 1
  BY <1>1, <1>5, TakenFrom
<1>8. Cardinality(s) <= Cardinality(s \ {Taken(s)})  BY <1>2, <1>6
<1>9. QED  BY <1>7, <1>8

(* A sum is that of one element and of the rest.                           *)
LEMMA SumTakes ==
  ASSUME NEW f, NEW S, IsFiniteSet(S)
  PROVE  /\ S = {} => SumFunctionOnSet(f, S) = 0
         /\ S # {} => SumFunctionOnSet(f, S) = f[Taken(S)] + SumFunctionOnSet(f, S \ {Taken(S)})
<1> DEFINE g == CHOOSE h : Adds(h, f, S)
           R == S \ {Taken(S)}
           r == CHOOSE h : Adds(h, f, R)
<1>1. Adds(g, f, S)  BY AddsExists
<1>2. IsFiniteSet(R) /\ R \in SUBSET S  BY FS_Subset
<1>3. Adds(r, f, R)
  <2> HIDE DEF R
  <2>1. QED  BY <1>2, AddsExists
<1>4. SumFunctionOnSet(f, S) = g[S] /\ SumFunctionOnSet(f, R) = r[R]  BY SumUnfold
<1> HIDE DEF g, r, R
<1>5. g[R] = r[R]  BY <1>1, <1>2, <1>3, AddsUnique
<1>6. g[S] = IF S = {} THEN 0 ELSE f[Taken(S)] + g[R]  BY <1>1 DEF Adds, R
<1>7. QED  BY <1>4, <1>5, <1>6 DEF R

(* A sum of numbers is a number, and any element may be taken away first.  *)
LEMMA SumOf ==
  ASSUME NEW f, NEW S, IsFiniteSet(S), \A x \in S : f[x] \in Nat
  PROVE  /\ SumFunctionOnSet(f, S) \in Nat
         /\ \A y \in S : SumFunctionOnSet(f, S) = f[y] + SumFunctionOnSet(f, S \ {y})
<1> DEFINE Sum(s) == SumFunctionOnSet(f, s)
           bad == {s \in SUBSET S : ~ /\ Sum(s) \in Nat
                                      /\ \A y \in s : Sum(s) = f[y] + Sum(s \ {y})}
<1> SUFFICES ASSUME bad # {} PROVE FALSE  OBVIOUS
<1>1. \A s \in SUBSET S : IsFiniteSet(s)  BY FS_Subset
<1>2. PICK s \in bad : \A t \in bad : Cardinality(s) <= Cardinality(t)
  <2>1. \A t \in bad : IsFiniteSet(t)  BY <1>1
  <2> HIDE DEF bad
  <2>2. QED  BY <2>1, SmallestSet
<1>3. s \in SUBSET S /\ IsFiniteSet(s) /\ Cardinality(s) \in Nat  BY <1>1, FS_CardinalityType
<1>4. CASE s = {}
  <2>1. Sum(s) = 0  BY <1>3, <1>4, SumTakes
  <2>2. QED  BY <2>1, <1>4
<1>5. CASE s # {}
  <2> DEFINE c == Taken(s)
  <2>1. ASSUME NEW x \in s
        PROVE  /\ s \ {x} \in SUBSET S /\ Sum(s \ {x}) \in Nat
               /\ \A y \in s \ {x} : Sum(s \ {x}) = f[y] + Sum((s \ {x}) \ {y})
    <3>1. Cardinality(s \ {x}) = Cardinality(s) - 1  BY <1>3, FS_RemoveElement
    <3>2. s \ {x} \notin bad  BY <3>1, <1>2, <1>3
    <3>3. s \ {x} \in SUBSET S  OBVIOUS
    <3> HIDE DEF Sum
    <3>4. QED  BY <3>2, <3>3
  <2>2. c \in s /\ Sum(s) = f[c] + Sum(s \ {c})  BY <1>3, <1>5, TakenFrom, SumTakes
  <2> HIDE DEF c, Sum
  <2>3. Sum(s \ {c}) \in Nat /\ f[c] \in Nat  BY <2>1, <2>2
  <2>4. Sum(s) \in Nat  BY <2>2, <2>3
  <2>5. ASSUME NEW y \in s, y # c PROVE Sum(s) = f[y] + Sum(s \ {y})
    <3>1. Sum(s \ {c}) = f[y] + Sum((s \ {c}) \ {y})  BY <2>1, <2>2, <2>5
    <3>2. Sum(s \ {y}) = f[c] + Sum((s \ {y}) \ {c})  BY <2>1, <2>2, <2>5
    <3> DEFINE rest == (s \ {c}) \ {y}
    <3>3. (s \ {y}) \ {c} = rest /\ rest \in SUBSET S  OBVIOUS
    <3>4. IsFiniteSet(s \ {c}) /\ Cardinality(s \ {c}) = Cardinality(s) - 1
      BY <1>3, <2>2, FS_RemoveElement
    <3>5. Cardinality(rest) = Cardinality(s) - 1 - 1  BY <3>4, <2>5, FS_RemoveElement
    <3> HIDE DEF rest
    <3>6. rest \notin bad
      <4> HIDE DEF bad
      <4>1. ~(Cardinality(s) <= Cardinality(rest))  BY <3>5, <1>3
      <4>2. QED  BY <4>1, <1>2
    <3>7. Sum(rest) \in Nat  BY <3>3, <3>6 DEF Sum
    <3>8. Sum(s \ {c}) = f[y] + Sum(rest) /\ Sum(s \ {y}) = f[c] + Sum(rest)
      BY <3>1, <3>2, <3>3 DEF rest
    <3>9. f[y] \in Nat /\ f[c] \in Nat  BY <2>2
    <3>10. QED  BY <3>7, <3>8, <3>9, <2>2
  <2>6. \A y \in s : Sum(s) = f[y] + Sum(s \ {y})  BY <2>2, <2>5
  <2>7. QED  BY <2>4, <2>6
<1>6. QED  BY <1>4, <1>5

(* Sums of the same numbers are the same.                                  *)
LEMMA SumAlike ==
  ASSUME NEW S, IsFiniteSet(S), NEW f, NEW g, \A x \in S : f[x] = g[x] /\ f[x] \in Nat
  PROVE  SumFunctionOnSet(f, S) = SumFunctionOnSet(g, S)
<1> DEFINE bad == {s \in SUBSET S : SumFunctionOnSet(f, s) # SumFunctionOnSet(g, s)}
<1> SUFFICES ASSUME bad # {} PROVE FALSE  OBVIOUS
<1>1. \A s \in bad : IsFiniteSet(s)  BY FS_Subset
<1>2. PICK s \in bad : \A t \in bad : Cardinality(s) <= Cardinality(t)
  <2> HIDE DEF bad
  <2>1. QED  BY <1>1, SmallestSet
<1>3. IsFiniteSet(s)  BY <1>1
<1>4. s # {}  BY <1>3, SumTakes
<1> DEFINE x == Taken(s)
<1>5. x \in s /\ Cardinality(s) \in Nat /\ Cardinality(s \ {x}) = Cardinality(s) - 1
  BY <1>3, <1>4, TakenFrom
<1>6. /\ SumFunctionOnSet(f, s) = f[x] + SumFunctionOnSet(f, s \ {x})
      /\ SumFunctionOnSet(g, s) = g[x] + SumFunctionOnSet(g, s \ {x})
  BY <1>3, <1>4, SumTakes
<1> HIDE DEF x
<1>7. SumFunctionOnSet(f, s \ {x}) = SumFunctionOnSet(g, s \ {x})
  <2>1. s \ {x} \notin bad  BY <1>2, <1>5
  <2>2. QED  BY <2>1
<1>8. f[x] = g[x]  BY <1>5
<1>9. QED  BY <1>6, <1>7, <1>8

(* One number that is larger makes the sum as much larger.                 *)
LEMMA SumGrows ==
  ASSUME NEW S, IsFiniteSet(S), NEW f, NEW g, NEW y \in S, NEW n \in Nat,
         \A x \in S : f[x] \in Nat,
         \A x \in S \ {y} : g[x] = f[x], g[y] = f[y] + n
  PROVE  SumFunctionOnSet(g, S) = SumFunctionOnSet(f, S) + n
<1>1. \A x \in S : g[x] \in Nat
  <2>1. g[y] \in Nat  OBVIOUS
  <2>2. QED  BY <2>1
<1>2. SumFunctionOnSet(f, S) = f[y] + SumFunctionOnSet(f, S \ {y})  BY SumOf
<1>3. SumFunctionOnSet(g, S) = g[y] + SumFunctionOnSet(g, S \ {y})  BY <1>1, SumOf
<1>4. IsFiniteSet(S \ {y})  BY FS_Subset
<1>5. SumFunctionOnSet(f, S \ {y}) = SumFunctionOnSet(g, S \ {y})
  <2>1. \A x \in S \ {y} : f[x] = g[x] /\ f[x] \in Nat  OBVIOUS
  <2>2. QED  BY <2>1, <1>4, SumAlike
<1>6. SumFunctionOnSet(f, S \ {y}) \in Nat  BY <1>4, SumOf
<1>7. QED  BY <1>2, <1>3, <1>5, <1>6

(***************************************************************************)
(* GatePayload.  The members of a side are added one by one: each adds its *)
(* share to one bus, the one its microgrid is on, and to the total.        *)
(***************************************************************************)
ShareAt(T, cap, site, m) ==
  IF \E i \in T : site[i] = m THEN cap[CHOOSE i \in T : site[i] = m] ELSE 0
OnBus(T, cap, site, bus, kwh) ==
  SumFunctionOnSet([m \in bus |-> kwh * ShareAt(T, cap, site, m)], bus)
OnBuses(T, cap, site, buses, B, kwh) ==
  SumFunctionOnSet([k \in B |-> OnBus(T, cap, site, buses[k], kwh)], B)

(* Arithmetic.                                                             *)
LEMMA Products ==
  /\ \A a, b \in Nat : a * b \in Nat
  /\ \A a, b, c \in Nat : a * (b + c) = a * b + a * c
OBVIOUS

(* A sum of nothing is nothing.                                            *)
LEMMA NoShares ==
  ASSUME NEW S, IsFiniteSet(S), NEW f, \A x \in S : f[x] = 0
  PROVE  SumFunctionOnSet(f, S) = 0
<1> DEFINE bad == {s \in SUBSET S : SumFunctionOnSet(f, s) # 0}
<1> SUFFICES ASSUME bad # {} PROVE FALSE  OBVIOUS
<1>1. \A s \in bad : IsFiniteSet(s)  BY FS_Subset
<1>2. PICK s \in bad : \A t \in bad : Cardinality(s) <= Cardinality(t)
  <2> HIDE DEF bad
  <2>1. QED  BY <1>1, SmallestSet
<1>3. IsFiniteSet(s)  BY <1>1
<1>4. s # {}  BY <1>3, SumTakes
<1> DEFINE x == Taken(s)
<1>5. x \in s /\ Cardinality(s) \in Nat /\ Cardinality(s \ {x}) = Cardinality(s) - 1
  BY <1>3, <1>4, TakenFrom
<1>6. SumFunctionOnSet(f, s) = f[x] + SumFunctionOnSet(f, s \ {x})  BY <1>3, <1>4, SumTakes
<1> HIDE DEF x
<1>7. SumFunctionOnSet(f, s \ {x}) = 0
  <2>1. s \ {x} \notin bad  BY <1>2, <1>5
  <2>2. QED  BY <2>1
<1>8. QED  BY <1>5, <1>6, <1>7

(* With a microgrid of its own, on one bus, each member counts once.       *)
LEMMA SharesAddUp ==
  ASSUME NEW M, IsFiniteSet(M), NEW cap, \A i \in M : cap[i] \in Nat,
         NEW site, \A i, j \in M : site[i] = site[j] => i = j,
         NEW B, IsFiniteSet(B), NEW buses, \A k \in B : IsFiniteSet(buses[k]), NEW kwh \in Nat,
         \A i \in M : \E l \in B : \A k \in B : site[i] \in buses[k] <=> k = l
  PROVE  OnBuses(M, cap, site, buses, B, kwh) = kwh * SumFunctionOnSet(cap, M)
<1> DEFINE Bus(T, k) == OnBus(T, cap, site, buses[k], kwh)
           All(T) == OnBuses(T, cap, site, buses, B, kwh)
           bad == {T \in SUBSET M : All(T) # kwh * SumFunctionOnSet(cap, T)}
<1> SUFFICES ASSUME bad # {} PROVE FALSE  OBVIOUS
<1>1. \A T \in bad : IsFiniteSet(T)  BY FS_Subset
<1>2. PICK T \in bad : \A t \in bad : Cardinality(T) <= Cardinality(t)
  <2> HIDE DEF bad
  <2>1. QED  BY <1>1, SmallestSet
<1>3. IsFiniteSet(T) /\ T \in SUBSET M /\ Cardinality(T) \in Nat  BY <1>1, FS_CardinalityType
<1>4. \A S \in SUBSET M : \A m : ShareAt(S, cap, site, m) \in Nat  BY DEF ShareAt
<1>5. \A S \in SUBSET M : \A k \in B : Bus(S, k) \in Nat
  <2> SUFFICES ASSUME NEW S \in SUBSET M, NEW k \in B PROVE Bus(S, k) \in Nat  OBVIOUS
  <2> DEFINE f == [m \in buses[k] |-> kwh * ShareAt(S, cap, site, m)]
  <2>1. \A m \in buses[k] : f[m] \in Nat  BY <1>4, Products
  <2> HIDE DEF f
  <2>2. SumFunctionOnSet(f, buses[k]) \in Nat  BY <2>1, SumOf
  <2>3. QED  BY <2>2 DEF OnBus, f
<1>6. CASE T = {}
  <2>1. \A m : ShareAt(T, cap, site, m) = 0  BY <1>6 DEF ShareAt
  <2>2. ASSUME NEW k \in B PROVE Bus(T, k) = 0
    <3> DEFINE f == [m \in buses[k] |-> kwh * ShareAt(T, cap, site, m)]
    <3>1. \A m \in buses[k] : f[m] = 0  BY <2>1
    <3> HIDE DEF f
    <3>2. SumFunctionOnSet(f, buses[k]) = 0  BY <3>1, NoShares
    <3>3. QED  BY <3>2 DEF OnBus, f
  <2>3. All(T) = 0
    <3> DEFINE f == [k \in B |-> Bus(T, k)]
    <3>1. \A k \in B : f[k] = 0  BY <2>2
    <3> HIDE DEF f
    <3>2. SumFunctionOnSet(f, B) = 0  BY <3>1, NoShares
    <3>3. QED  BY <3>2 DEF OnBuses, f
  <2>4. SumFunctionOnSet(cap, T) = 0  BY <1>3, <1>6, SumTakes
  <2>5. QED  BY <2>3, <2>4
<1>7. CASE T # {}
  <2>1. PICK j \in T : TRUE  BY <1>7
  <2> DEFINE R == T \ {j}
             more == kwh * cap[j]
  <2>2. IsFiniteSet(R) /\ R \in SUBSET M /\ Cardinality(R) = Cardinality(T) - 1
    BY <1>3, FS_RemoveElement
  <2>3. All(R) = kwh * SumFunctionOnSet(cap, R)
    <3>1. R \notin bad
      <4> HIDE DEF bad, R
      <4>1. ~(Cardinality(T) <= Cardinality(R))  BY <2>2, <1>3
      <4>2. QED  BY <4>1, <1>2
    <3>2. QED  BY <3>1, <2>2
  <2>4. PICK l \in B : \A k \in B : site[j] \in buses[k] <=> k = l  OBVIOUS
  <2>5. ASSUME NEW m, m # site[j] PROVE ShareAt(T, cap, site, m) = ShareAt(R, cap, site, m)
    <3>1. (\E i \in T : site[i] = m) <=> (\E i \in R : site[i] = m)  BY <2>5
    <3>2. \A i \in T : site[i] = m => i \in R  BY <2>5
    <3>3. \A i, h \in T : site[i] = m /\ site[h] = m => i = h  BY <1>3
    <3>4. QED  BY <3>1, <3>2, <3>3 DEF ShareAt
  <2>6. ShareAt(T, cap, site, site[j]) = cap[j] /\ ShareAt(R, cap, site, site[j]) = 0
    <3>1. \A i \in T : site[i] = site[j] => i = j  BY <1>3
    <3>2. QED  BY <3>1 DEF ShareAt
  <2> HIDE DEF R
  <2>7. more \in Nat  BY <1>3, Products
  <2>8. ASSUME NEW k \in B, k # l PROVE Bus(T, k) = Bus(R, k)
    <3>1. \A m \in buses[k] : ShareAt(T, cap, site, m) = ShareAt(R, cap, site, m)
      BY <2>4, <2>5, <2>8
    <3>2. QED  BY <3>1 DEF OnBus
  <2>9. Bus(T, l) = Bus(R, l) + more
    <3> DEFINE f == [m \in buses[l] |-> kwh * ShareAt(R, cap, site, m)]
               g == [m \in buses[l] |-> kwh * ShareAt(T, cap, site, m)]
    <3>1. \A m \in buses[l] : f[m] \in Nat  BY <1>4, <2>2, Products
    <3>2. \A m \in buses[l] \ {site[j]} : g[m] = f[m]  BY <2>5
    <3>3. site[j] \in buses[l] /\ g[site[j]] = more /\ f[site[j]] = 0  BY <2>4, <2>6
    <3> HIDE DEF f, g, more
    <3>4. g[site[j]] = f[site[j]] + more  BY <3>3, <2>7
    <3>5. SumFunctionOnSet(g, buses[l]) = SumFunctionOnSet(f, buses[l]) + more
      <4>1. IsFiniteSet(buses[l]) /\ site[j] \in buses[l] /\ more \in Nat  BY <3>3, <2>7
      <4>2. QED  BY ONLY <4>1, <3>1, <3>2, <3>4, SumGrows
    <3>6. QED  BY <3>5 DEF OnBus, f, g
  <2>10. All(T) = All(R) + more
    <3> DEFINE f == [k \in B |-> Bus(R, k)]
               g == [k \in B |-> Bus(T, k)]
    <3>1. \A k \in B : f[k] \in Nat  BY <1>5, <2>2
    <3>2. \A k \in B \ {l} : g[k] = f[k]  BY <2>8
    <3>3. g[l] = f[l] + more  BY <2>9
    <3> HIDE DEF f, g, more
    <3>4. SumFunctionOnSet(g, B) = SumFunctionOnSet(f, B) + more
      <4>1. IsFiniteSet(B) /\ l \in B /\ more \in Nat  BY <2>7
      <4>2. QED  BY ONLY <4>1, <3>1, <3>2, <3>3, SumGrows
    <3>5. QED  BY <3>4 DEF OnBuses, f, g
  <2>11. /\ SumFunctionOnSet(cap, T) = cap[j] + SumFunctionOnSet(cap, R)
         /\ SumFunctionOnSet(cap, R) \in Nat
    <3>1. SumFunctionOnSet(cap, T) = cap[j] + SumFunctionOnSet(cap, T \ {j})  BY <1>3, SumOf
    <3>2. SumFunctionOnSet(cap, R) \in Nat  BY <2>2, SumOf
    <3>3. QED  BY <3>1, <3>2 DEF R
  <2>12. kwh * SumFunctionOnSet(cap, T) = more + kwh * SumFunctionOnSet(cap, R)
    BY <2>11, <1>3, Products
  <2>13. kwh * SumFunctionOnSet(cap, R) \in Nat  BY <2>11, Products
  <2> HIDE DEF All, more
  <2>14. All(T) = kwh * SumFunctionOnSet(cap, T)  BY <2>3, <2>7, <2>10, <2>12, <2>13
  <2>15. QED  BY <2>14 DEF All
<1>8. QED  BY <1>6, <1>7

(* The last place of a microgrid is its only one.                          *)
LEMMA OnlyPlace ==
  ASSUME NEW i \in Nat, NEW S, S = {i}
  PROVE  Max(S) = i
BY DEF Max

(* What was built is what its parts make.                                  *)
PayloadInv ==
  payload # NoPayload =>
    /\ payload.kind \in {"joint", "grid"} /\ payload.coalition \in Coalitions
    /\ payload.buses \in Topologies /\ payload.kwh \in Trades
    /\ payload.nodes = Nodes(payload.kind, payload.coalition, payload.buses, payload.kwh)

LEMMA PayloadInvariant == PayloadSpec => []PayloadInv
<1>1. PayloadInit => PayloadInv  BY DEF PayloadInit, PayloadInv
<1>2. PayloadInv /\ [PayloadNext]_payloadVars => PayloadInv'
  <2> SUFFICES ASSUME PayloadInv, [PayloadNext]_payloadVars PROVE PayloadInv'  OBVIOUS
  <2>1. CASE UNCHANGED payloadVars  BY <2>1 DEF payloadVars, PayloadInv
  <2>2. CASE BuildPayload  BY <2>2 DEF BuildPayload, PayloadInv
  <2>3. QED  BY <2>1, <2>2 DEF PayloadNext
<1>3. QED  BY <1>1, <1>2, PTL DEF PayloadSpec

(* The buses of a payload carry the whole of a side.                       *)
LEMMA SideAddsUp ==
  ASSUME PayloadInv, payload # NoPayload, NEW side \in Sides, OwnBus(side)
  PROVE  SumFunction([i \in DOMAIN payload.nodes |-> payload.nodes[i][side]])
           = payload.kwh * TotalCapacity(payload.kind, side, payload.coalition)
<1> DEFINE kind == payload.kind
           coalition == payload.coalition
           buses == payload.buses
           kwh == payload.kwh
           M == Members(kind, side, coalition)
           B == DOMAIN buses
           cap == [i \in DOMAIN coalition |-> coalition[i].capacity]
           site == [i \in DOMAIN coalition |-> coalition[i].microgrid]
<1>1. /\ coalition \in Coalitions /\ buses \in Topologies /\ kwh \in Nat
      /\ payload.nodes = Nodes(kind, coalition, buses, kwh)
  BY PayloadAssumption DEF PayloadInv
<1>2. /\ coalition \in Seq(Range(coalition)) /\ buses \in Seq(Range(buses))
      /\ \A a \in Range(coalition) : a.capacity \in Nat
      /\ \A bus \in Range(buses) : IsFiniteSet(bus)
  BY <1>1, PayloadAssumption
<1>3. /\ \A i, j \in M : coalition[i].microgrid = coalition[j].microgrid => i = j
      /\ \A i \in M : Cardinality({k \in B : coalition[i].microgrid \in buses[k]}) = 1
  BY DEF OwnBus
<1>4. M \subseteq DOMAIN coalition  BY DEF Members
<1> HIDE DEF kind, coalition, buses, kwh, M
<1>5. /\ DOMAIN coalition = 1 .. Len(coalition) /\ Len(coalition) \in Nat
      /\ B = 1 .. Len(buses) /\ Len(buses) \in Nat
  BY <1>2
<1>6. IsFiniteSet(M) /\ IsFiniteSet(B)
  <2>1. IsFiniteSet(DOMAIN coalition) /\ IsFiniteSet(B)  BY <1>5, FS_Interval
  <2>2. QED  BY <2>1, <1>4, FS_Subset
<1>7. \A i \in M : cap[i] \in Nat  BY <1>2, <1>4 DEF Range
<1>8. \A i, j \in M : site[i] = site[j] => i = j  BY <1>3, <1>4
<1>9. \A k \in B : IsFiniteSet(buses[k])  BY <1>2 DEF Range
<1>10. ASSUME NEW i \in M PROVE \E l \in B : \A k \in B : site[i] \in buses[k] <=> k = l
  <2> DEFINE on == {k \in B : site[i] \in buses[k]}
  <2>1. IsFiniteSet(on)  BY <1>6, FS_Subset
  <2>2. Cardinality(on) = 1  BY <1>3, <1>4
  <2>3. \A k \in B : site[i] \in buses[k] <=> k \in on  OBVIOUS
  <2>4. on \subseteq B  OBVIOUS
  <2> HIDE DEF on, site, B
  <2>5. PICK l : on = {l}  BY <2>1, <2>2, FS_Singleton
  <2>6. l \in B  BY <2>4, <2>5
  <2>7. \A k \in B : site[i] \in buses[k] <=> k = l  BY <2>3, <2>5
  <2>8. QED  BY <2>6, <2>7
<1>11. ASSUME NEW m PROVE ShareAt(M, cap, site, m) = CapacityAt(kind, side, coalition, m)
  <2> DEFINE there == {i \in M : site[i] = m}
  <2>0. ASSUME NEW i \in there PROVE there = {i} /\ i \in Nat /\ i \in DOMAIN coalition
    <3>1. i \in DOMAIN coalition /\ i \in Nat  BY <1>4, <1>5
    <3> HIDE DEF site
    <3>2. there = {i}  BY <1>8
    <3>3. QED  BY <3>1, <3>2
  <2>1. CapacityAt(kind, side, coalition, m) = IF there = {} THEN 0 ELSE cap[Max(there)]
    <3>1. there = {i \in Members(kind, side, coalition) : coalition[i].microgrid = m}
      BY <1>4 DEF M
    <3>2. there # {} => Max(there) \in DOMAIN coalition
      <4>1. CASE there # {}
        <5>1. PICK i \in there : TRUE  BY <4>1
        <5>2. there = {i} /\ i \in Nat /\ i \in DOMAIN coalition  BY <5>1, <2>0
        <5>3. QED  BY <5>2, OnlyPlace
      <4>2. QED  BY <4>1
    <3> HIDE DEF there
    <3>3. QED  BY <3>1, <3>2 DEF CapacityAt
  <2>2. CASE there = {}  BY <2>1, <2>2 DEF ShareAt
  <2>3. CASE there # {}
    <3>1. PICK i \in there : TRUE  BY <2>3
    <3>2. there = {i} /\ i \in Nat  BY <3>1, <2>0
    <3>3. CapacityAt(kind, side, coalition, m) = cap[i]
      <4> HIDE DEF there, cap
      <4>1. QED  BY <2>1, <2>3, <3>2, OnlyPlace
    <3>4. i \in M /\ site[i] = m /\ \A j \in M : site[j] = m => j = i  BY <3>1, <1>8
    <3> HIDE DEF there, cap, site
    <3>5. ShareAt(M, cap, site, m) = cap[i]  BY <3>4 DEF ShareAt
    <3>6. QED  BY <3>3, <3>5
  <2>4. QED  BY <2>2, <2>3
<1>12. ASSUME NEW k \in B
       PROVE  Power(kind, side, coalition, buses[k], kwh) = OnBus(M, cap, site, buses[k], kwh)
  <2> DEFINE f == [m \in buses[k] |-> kwh * CapacityAt(kind, side, coalition, m)]
  <2>1. Power(kind, side, coalition, buses[k], kwh) = SumFunctionOnSet(f, buses[k])
    BY DEF Power, SumFunction
  <2>2. f = [m \in buses[k] |-> kwh * ShareAt(M, cap, site, m)]  BY <1>11
  <2> HIDE DEF f
  <2>3. QED  BY <2>1, <2>2 DEF OnBus
<1>13. [i \in DOMAIN payload.nodes |-> payload.nodes[i][side]]
         = [k \in B |-> OnBus(M, cap, site, buses[k], kwh)]
  <2>1. DOMAIN payload.nodes = B  BY <1>1 DEF Nodes
  <2>2. ASSUME NEW k \in B
        PROVE  payload.nodes[k][side] = Power(kind, side, coalition, buses[k], kwh)
    <3> HIDE DEF B
    <3>1. payload.nodes[k] = [slack |-> k = 1,
                              gen   |-> Power(kind, "gen", coalition, buses[k], kwh),
                              load  |-> Power(kind, "load", coalition, buses[k], kwh)]
      BY <1>1 DEF Nodes, B
    <3>2. QED  BY <3>1 DEF Sides
  <2>3. QED  BY <2>1, <2>2, <1>12
<1> HIDE DEF cap, site, B
<1>14. SumFunction([i \in DOMAIN payload.nodes |-> payload.nodes[i][side]])
         = OnBuses(M, cap, site, buses, B, kwh)
  BY <1>13 DEF SumFunction, OnBuses
<1>15. OnBuses(M, cap, site, buses, B, kwh) = kwh * SumFunctionOnSet(cap, M)
  BY SMTT(30), <1>1, <1>6, <1>7, <1>8, <1>9, <1>10, SharesAddUp
<1>16. TotalCapacity(kind, side, coalition) = SumFunctionOnSet(cap, M)
  BY DEF TotalCapacity, cap, M
<1>17. QED  BY <1>14, <1>15, <1>16 DEF kind, coalition, kwh

(* The power that a payload says the buses inject, and that they draw, is  *)
(* each the whole traded power, and one bus is the slack                   *)
(* (jointGatePayload.ts:106-127, gridGate.ts:76-103): for any number of    *)
(* agents, microgrids and buses, and any capacities.                       *)
THEOREM TradedPower == PayloadSpec => []PowerIsTraded
<1>1. PayloadInv => PowerIsTraded
  <2> SUFFICES ASSUME PayloadInv, payload.kind # "none" PROVE PowerIsTraded  BY DEF PowerIsTraded
  <2>1. payload # NoPayload  BY DEF NoPayload
  <2>2. Cardinality({i \in DOMAIN payload.nodes : payload.nodes[i].slack}) = 1
    <3> DEFINE buses == payload.buses
    <3>1. /\ buses \in Seq(Range(buses)) /\ buses # <<>>
          /\ payload.nodes = Nodes(payload.kind, payload.coalition, buses, payload.kwh)
      BY <2>1, PayloadAssumption DEF PayloadInv
    <3> HIDE DEF buses
    <3>2. 1 \in DOMAIN buses  BY <3>1
    <3>3. /\ DOMAIN payload.nodes = DOMAIN buses
          /\ \A i \in DOMAIN buses : payload.nodes[i].slack = (i = 1)
      BY <3>1 DEF Nodes
    <3>4. {i \in DOMAIN payload.nodes : payload.nodes[i].slack} = {1}  BY <3>2, <3>3
    <3>5. QED  BY <3>4, FS_Singleton
  <2>3. QED  BY <2>1, <2>2, SideAddsUp DEF PowerIsTraded
<1>2. QED  BY <1>1, PayloadInvariant, PTL
===============================================================================
