------------------------------- MODULE GateJobs -------------------------------
(***************************************************************************)
(* The safety gates and the jobs behind them: JointGate.check with         *)
(* jointWorker.ts, StabilityGate.check and GridGate.check with the two     *)
(* workers of worker.ts.  A gate adds a BullMQ job, waits for it with a    *)
(* time limit, and answers with its result or throws; the job is retried   *)
(* by the queue whatever the gate has done meanwhile.                      *)
(*                                                                         *)
(* One action is one awaited call and the code after it up to the next     *)
(* await.  The checks of a behaviour are of one kind: each kind has its    *)
(* own queue, of which a process runs one job at a time, and shares        *)
(* nothing with the others.  GatePayload has what a job carries.           *)
(***************************************************************************)
EXTENDS Integers, FiniteSets, BrokerConfig

CONSTANTS
  Checks,              \* bound: gate checks in a behaviour
  Crowded,             \* bound: the kinds of gate with more than one check
  Takers,              \* processes that run worker.ts (docker-compose.yml: 1,
                       \* deploy/k8s/broker.yaml: 2)
  Attempts,            \* attempts a job is added with, by kind of gate
  EngineReliable,      \* TRUE iff the engine itself never fails
  JointAnswersInFull   \* TRUE iff /oracle/joint-verify sends every field its
                       \* response model requires; the engine leaves out
                       \* isStable, so that each request to it fails

GateKinds == {"joint", "stability", "grid"}
Verdicts == {"ok", "unstable", "infeasible"}
Unsaid == "unsaid"

ASSUME GateAssumption ==
  /\ Attempts \in [GateKinds -> Nat \ {0}] /\ Takers \in Nat /\ Crowded \subseteq GateKinds
  /\ JointAnswersInFull \in BOOLEAN /\ EngineReliable \in BOOLEAN

VARIABLES
  gates,      \* the check calls: their kind, progress and outcome
  jobs,       \* the job of each check, with what its worker is doing
  marks,      \* status of the Negotiation row each check is about
  evidence,   \* stabilitychecks and grid_feasibility_certificates
  alerts      \* checks whose job alertWebhookStub was called for

gateVars == <<gates, jobs, marks, evidence, alerts>>

(* What the engine can say of a coalition, by the kind of question.  An    *)
(* unstable coalition gets no grid certificate.                            *)
Answers == [joint |-> Verdicts, stability |-> {"ok", "unstable"},
            grid |-> {"ok", "infeasible"}]

NoJob == [status |-> "none", step |-> "none", made |-> 0, stalls |-> 0,
          said |-> Unsaid, verdict |-> Unsaid]

GateInit ==
  /\ gates = [c \in Checks |-> [kind |-> "none", stage |-> "new"]]
  /\ jobs = [c \in Checks |-> NoJob]
  /\ marks = [c \in Checks |-> "ACTIVE"]
  /\ evidence = {}
  /\ alerts = {}

Kind(c) == gates[c].kind
Ended == {"passed", "rejected", "threw"}

-------------------------------------------------------------------------------
(* The gates.  The topology and the coalition are read, and the job added. *)
(* Any failure up to there, a refused payload included, is thrown; only    *)
(* the stability gate answers a failed read with placeholders.             *)
BeginCheck(c, kind) ==
  /\ gates[c].stage = "new"
  /\ \A d \in Checks : Kind(d) = "none" \/ (Kind(d) = kind /\ kind \in Crowded)
  /\ \/ /\ gates' = [gates EXCEPT ![c] = [kind |-> kind, stage |-> "waiting"]]
        /\ jobs' = [jobs EXCEPT ![c].status = "queued"]
     \/ /\ gates' = [gates EXCEPT ![c] = [kind |-> kind, stage |-> "threw"]]
        /\ UNCHANGED jobs
  /\ UNCHANGED <<marks, evidence, alerts>>

(* waitUntilFinished returns the job's result, or throws its last error.   *)
ReceiveResult(c) ==
  /\ gates[c].stage = "waiting"
  /\ jobs[c].status \in {"completed", "failed"}
  /\ gates' = [gates EXCEPT ![c].stage =
       IF jobs[c].status = "failed" THEN "threw"
       ELSE IF jobs[c].verdict = "ok" THEN "passed" ELSE "marking"]
  /\ UNCHANGED <<jobs, marks, evidence, alerts>>

(* ... or throws when the time limit is over.  The job stays where it is.  *)
TimeOut(c) ==
  /\ gates[c].stage = "waiting"
  /\ gates' = [gates EXCEPT ![c].stage = "threw"]
  /\ UNCHANGED <<jobs, marks, evidence, alerts>>

(* The negotiation is marked and its room told.  A failed update is only   *)
(* logged: the gate answers that the check did not pass either way.        *)
MarkRejected(c) ==
  /\ gates[c].stage = "marking"
  /\ gates' = [gates EXCEPT ![c].stage = "rejected"]
  /\ \/ marks' = [marks EXCEPT ![c] =
          IF jobs[c].verdict = "unstable" THEN "STABILITY_FAILED" ELSE "GRID_FAILED"]
     \/ UNCHANGED marks
  /\ UNCHANGED <<jobs, evidence, alerts>>

-------------------------------------------------------------------------------
(* A worker of the queue takes a job when it has none.                     *)
TakeCheck(c) ==
  /\ jobs[c].status = "queued"
  /\ Cardinality({d \in Checks : jobs[d].status = "active"}) < Takers
  /\ jobs' = [jobs EXCEPT ![c].status = "active", ![c].step = "verify", ![c].said = Unsaid]
  /\ UNCHANGED <<gates, marks, evidence, alerts>>

(* Job states after an attempt, as BullMQ moves them.                      *)
Completed(c, said, verdict) ==
  [jobs[c] EXCEPT !.status = "completed", !.step = "none", !.said = said, !.verdict = verdict]

(* Mutant: every failed attempt raises the alert.                          *)
AlertEachFailure(c, said) ==
  LET made == jobs[c].made + 1
      last == made >= Attempts[Kind(c)]
  IN  /\ jobs' = [jobs EXCEPT ![c].made = made, ![c].step = "none", ![c].said = said,
                              ![c].status = IF last THEN "failed" ELSE "backoff"]
      /\ alerts' = IF Kind(c) # "joint" THEN alerts \cup {c} ELSE alerts

(* The attempt throws.  The workers of worker.ts raise an alert when it    *)
(* was the last; jointWorker has no such handler.                          *)
FailAttempt(c, said) ==
  LET made == jobs[c].made + 1
      last == made >= Attempts[Kind(c)]
  IN  /\ jobs' = [jobs EXCEPT ![c].made = made, ![c].step = "none", ![c].said = said,
                              ![c].status = IF last THEN "failed" ELSE "backoff"]
      /\ alerts' = IF last /\ Kind(c) # "joint" THEN alerts \cup {c} ELSE alerts

(* The engine answers.  The joint worker returns the answer, the others    *)
(* go on to store it.                                                      *)
EngineAnswers(c) ==
  /\ jobs[c].step = "verify"
  /\ Kind(c) = "joint" => JointAnswersInFull
  /\ \E v \in Answers[Kind(c)] :
       jobs' = [jobs EXCEPT ![c] =
                  IF Kind(c) = "joint" THEN Completed(c, v, v)
                  ELSE [@ EXCEPT !.step = "store", !.said = v, !.verdict = v]]
  /\ UNCHANGED <<gates, marks, evidence, alerts>>

(* Mutant: in any mode an engine that is away is taken for "ok".           *)
EngineFailsOpen(c) ==
  /\ jobs[c].step = "verify" /\ Kind(c) # "joint"
  /\ jobs' = [jobs EXCEPT ![c].verdict = "ok", ![c].step = "store"]
  /\ UNCHANGED <<gates, marks, evidence, alerts>>

(* The engine is away, answers an error, or answers what the worker cannot *)
(* use.  Outside production the stability worker takes it for stable, and  *)
(* the grid worker writes a mock certificate.                              *)
EngineFails(c) ==
  /\ jobs[c].step = "verify"
  /\ EngineReliable => Kind(c) = "joint" /\ ~JointAnswersInFull
  /\ \/ /\ production \/ Kind(c) = "joint"
        /\ FailAttempt(c, Unsaid)
     \/ /\ ~production /\ Kind(c) # "joint"
        /\ jobs' = [jobs EXCEPT ![c].verdict = "ok",
                      ![c].step = IF Kind(c) = "stability" THEN "store" ELSE "mock"]
        /\ UNCHANGED alerts
  /\ UNCHANGED <<gates, marks, evidence>>

EvidenceRow(c, mock) == [check |-> c, verdict |-> jobs[c].verdict, mock |-> mock]

(* The evidence row is created.  When that fails, and the row may be there *)
(* all the same, production throws; otherwise the stability worker returns *)
(* a made-up id and the grid worker turns to the mock certificate.         *)
StoreEvidence(c) ==
  /\ jobs[c].step = "store"
  /\ LET mock == jobs[c].said = Unsaid IN
     \/ /\ evidence' = evidence \cup {EvidenceRow(c, mock)}
        /\ jobs' = [jobs EXCEPT ![c] = Completed(c, @.said, @.verdict)]
        /\ UNCHANGED alerts
     \/ /\ evidence' \in {evidence, evidence \cup {EvidenceRow(c, mock)}}
        /\ \/ production /\ FailAttempt(c, jobs[c].said)
           \/ /\ ~production /\ UNCHANGED alerts
              /\ jobs' = [jobs EXCEPT ![c] =
                   IF Kind(c) = "stability" THEN Completed(c, @.said, @.verdict)
                   ELSE [@ EXCEPT !.step = "mock", !.verdict = "ok"]]
  /\ UNCHANGED <<gates, marks>>

(* The mock certificate says feasible, whatever the engine had said.       *)
StoreMock(c) ==
  /\ jobs[c].step = "mock"
  /\ \/ /\ evidence' = evidence \cup {EvidenceRow(c, TRUE)}
        /\ jobs' = [jobs EXCEPT ![c] = Completed(c, @.said, "ok")]
        /\ UNCHANGED alerts
     \/ /\ evidence' \in {evidence, evidence \cup {EvidenceRow(c, TRUE)}}
        /\ FailAttempt(c, jobs[c].said)
  /\ UNCHANGED <<gates, marks>>

BackoffEnds(c) ==
  /\ jobs[c].status = "backoff"
  /\ jobs' = [jobs EXCEPT ![c].status = "queued"]
  /\ UNCHANGED <<gates, marks, evidence, alerts>>

(* Mutant: a stalled job is run again without end.                         *)
StallAgain(c) ==
  /\ jobs[c].status = "active"
  /\ jobs' = [jobs EXCEPT ![c].stalls = @ + 1, ![c].step = "none", ![c].status = "queued"]
  /\ UNCHANGED <<gates, marks, evidence, alerts>>

(* The worker process dies: its job is run again, and failed the second    *)
(* time.  That is no attempt made, so the failed handler raises no alert   *)
(* unless all attempts had been made.                                      *)
StallJob(c) ==
  /\ jobs[c].status = "active"
  /\ jobs' = [jobs EXCEPT ![c].stalls = @ + 1, ![c].step = "none",
                          ![c].status = IF jobs[c].stalls = 0 THEN "queued" ELSE "failed"]
  /\ UNCHANGED <<gates, marks, evidence, alerts>>

(* Mutant: waitUntilFinished without a time limit.                         *)
AnswerInTheEnd(c) == ReceiveResult(c) \/ MarkRejected(c)

AnswerCheck(c) == ReceiveResult(c) \/ TimeOut(c) \/ MarkRejected(c)

GateNext ==
  \E c \in Checks :
    \/ \E kind \in GateKinds : BeginCheck(c, kind)
    \/ AnswerCheck(c)
    \/ TakeCheck(c) \/ EngineAnswers(c) \/ EngineFails(c) \/ StoreEvidence(c)
    \/ StoreMock(c) \/ BackoffEnds(c) \/ StallJob(c)

(* Time passes and the broker runs.  Nothing is assumed of the engine or   *)
(* the workers, whose requests have no time limit: they may hang for good. *)
GateFairness == \A c \in Checks : WF_gateVars(AnswerCheck(c))

GateSpec == ConfigInit /\ GateInit
            /\ [][GateNext /\ UNCHANGED production]_<<gateVars, production>>
            /\ GateFairness

-------------------------------------------------------------------------------
GateTypeOK ==
  /\ gates \in [Checks -> [kind : GateKinds \cup {"none"},
                           stage : {"new", "waiting", "marking"} \cup Ended]]
  /\ jobs \in [Checks ->
       [status : {"none", "queued", "active", "backoff", "completed", "failed"},
        step : {"none", "verify", "store", "mock"}, made : Nat, stalls : 0 .. 2,
        said : Verdicts \cup {Unsaid}, verdict : Verdicts \cup {Unsaid}]]
  /\ marks \in [Checks -> {"ACTIVE", "STABILITY_FAILED", "GRID_FAILED"}]
  /\ evidence \subseteq [check : Checks, verdict : Verdicts \cup {Unsaid}, mock : BOOLEAN]
  /\ alerts \subseteq Checks

(* jointGate.ts:99-134, worker.ts:35-86, 118-193.  A gate passes on a word *)
(* of the engine, through all retries: in production the last attempt was  *)
(* answered "ok", and the separate gates' checkId is a stored row that     *)
(* says so and is no mock.  In any mode a coalition the engine has just    *)
(* called unstable does not pass.                                          *)
PassIsBacked ==
  \A c \in Checks : gates[c].stage = "passed" =>
    /\ jobs[c].said # "unstable"
    /\ production =>
         /\ jobs[c].said = "ok"
         /\ Kind(c) # "joint" => [check |-> c, verdict |-> "ok", mock |-> FALSE] \in evidence

(* worker.ts:90-96, 198-203.  A stability or grid job that has failed for  *)
(* good was alerted, and no other was; a job that failed because its       *)
(* worker died twice is the exception, for it has attempts left.           *)
ExhaustedIsAlerted ==
  \A c \in Checks :
    /\ c \in alerts => jobs[c].status = "failed" /\ jobs[c].made = Attempts[Kind(c)]
    /\ jobs[c].status = "failed" /\ Kind(c) # "joint" => c \in alerts \/ jobs[c].stalls = 2

(* jointGate.ts:91.  The checks that wait all end, also when a request to  *)
(* the engine never does and holds up the jobs queued behind it.           *)
ChecksEnd ==
  LET answered == \A c \in Checks : gates[c].stage # "waiting"
  IN  ~answered ~> answered

(* jointGate.ts:35, "On stable & feasible, returns { passed: true }": with *)
(* an engine that never fails, a joint job ends with a verdict and not     *)
(* with its attempts used up.                                              *)
JointCheckIsAnswered ==
  \A c \in Checks :
    Kind(c) = "joint" /\ jobs[c].status = "failed" => jobs[c].made < Attempts["joint"]
===============================================================================
