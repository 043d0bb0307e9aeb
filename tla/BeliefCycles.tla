----------------------------- MODULE BeliefCycles -----------------------------
(***************************************************************************)
(* Oracle broadcast: a repeatable BullMQ job, the workers that run it      *)
(* (oracleBroadcastWorker.ts) and the belief-update cycle each run drives  *)
(* (beliefUpdateService.ts).  One action is one awaited call and the code  *)
(* after it up to the next await.  Probabilities are whole multiples of    *)
(* 1/Scale, rounded half up as the Decimal(10, 4) columns round them.      *)
(*                                                                         *)
(* The queue is BullMQ's: a job whose worker dies is stalled, is run again *)
(* from the start once, and is failed the second time.                     *)
(***************************************************************************)
EXTENDS Integers, Sequences, FiniteSets, SequencesExt, FiniteSetsExt, BrokerConfig

CONSTANTS
  Workers,       \* processes that run worker.ts (deploy/k8s/broker.yaml: 2)
  Believers,     \* rows of the agents table, in the order it returns them
  Confidences,   \* confidences the engine answers with, times Scale
  Scale,         \* the precision of a stored belief
  MaxTicks,      \* bound: times the scheduler fires
  MaxFaults      \* bound: failed calls and crashes in a behaviour

ASSUME BeliefAssumption ==
  /\ Scale \in Nat /\ Scale % 1000 = 0 /\ Scale > 0
  /\ Confidences \subseteq 0 .. Scale
  /\ MaxTicks \in Nat /\ MaxFaults \in Nat
  /\ IsFiniteSet(Workers)
  /\ Believers \in Seq(Range(Believers)) /\ IsInjective(Believers)

VARIABLES
  broadcasts,   \* the jobs of oracle-broadcast-jobs
  cycles,       \* what each worker process is doing
  anchorCache,  \* oracleNegotiationId # null, per process
  anchors,      \* Negotiation rows with status ORACLE
  signals,      \* OracleSignal rows
  beliefs,      \* BeliefUpdate rows in creation order
  overlapped,   \* history: two cycles have run at the same time
  beliefFaults  \* history: faults so far

beliefVars == <<broadcasts, cycles, anchorCache, anchors, signals, beliefs,
                overlapped, beliefFaults>>

MockSignal == 0     \* the id `mock-signal-...`, which names no row
Half == Scale \div 2
Idle == [stage |-> "idle", job |-> 0, confidence |-> 0, signal |-> 0,
         todo |-> <<>>, prior |-> 0, updated |-> 0]
NoReport == [signal |-> 0, updated |-> 0]

(* computeBayesianPosterior: Bayes' rule, clamped to [0.001, 0.999].  The  *)
(* evidence is never 0: a stored prior is strictly between 0 and 1.        *)
Posterior(prior, confidence) ==
  LET joint    == confidence * prior
      evidence == joint + (Scale - confidence) * (Scale - prior)
      rounded  == (2 * joint * Scale + evidence) \div (2 * evidence)
      least    == Scale \div 1000
  IN  Min({Scale - least, Max({least, rounded})})

(* Mutant: the newest row, whichever agent's it is.                        *)
LatestBelief(a) == IF beliefs = <<>> THEN Half ELSE Last(beliefs).after

(* The afterBelief of the agent's newest COMPLETE row; 0.5 when it has     *)
(* none.  Rows are only ever created COMPLETE.                             *)
LastIn(rows, a) ==
  LET own == {i \in DOMAIN rows : rows[i].agent = a}
  IN  IF own = {} THEN Half ELSE rows[Max(own)].after
LastBelief(a) == LastIn(beliefs, a)

BeliefInit ==
  /\ broadcasts = [j \in 1 .. MaxTicks |->
                     [status |-> "none", stalls |-> 0, report |-> NoReport]]
  /\ cycles = [w \in Workers |-> Idle]
  /\ anchorCache = [w \in Workers |-> FALSE]
  /\ anchors = 0
  /\ signals = 0
  /\ beliefs = <<>>
  /\ overlapped = FALSE
  /\ beliefFaults = 0

-------------------------------------------------------------------------------
(* The stages of a cycle.  Fault counts a failure against the bound.       *)
Fault == beliefFaults < MaxFaults /\ beliefFaults' = beliefFaults + 1
NoFault == UNCHANGED beliefFaults
Goto(w, stage) == cycles' = [cycles EXCEPT ![w].stage = stage]

(* BullMQ moves the job of w to its final state and w takes the next one.  *)
EndJob(w, status, report) ==
  /\ broadcasts' = [broadcasts EXCEPT ![cycles[w].job].status = status,
                                      ![cycles[w].job].report = report]
  /\ cycles' = [cycles EXCEPT ![w] = Idle]

FailJob(w) == EndJob(w, "failed", NoReport)

(* The scheduler registered by scheduleOracleBroadcast fires.  Both broker *)
(* replicas register it; upsertJobScheduler keeps one per key.             *)
ScheduleTick ==
  /\ \E j \in 1 .. MaxTicks :
       /\ broadcasts[j].status = "none"
       /\ \A i \in 1 .. (j - 1) : broadcasts[i].status # "none"
       /\ broadcasts' = [broadcasts EXCEPT ![j].status = "waiting"]
  /\ UNCHANGED <<cycles, anchorCache, anchors, signals, beliefs, overlapped, beliefFaults>>

(* A worker takes the oldest job: concurrency 1, so only when it has none. *)
TakeJob(w) ==
  /\ cycles[w].stage = "idle"
  /\ \E j \in 1 .. MaxTicks :
       /\ broadcasts[j].status = "waiting"
       /\ \A i \in 1 .. (j - 1) : broadcasts[i].status # "waiting"
       /\ broadcasts' = [broadcasts EXCEPT ![j].status = "active"]
       /\ cycles' = [cycles EXCEPT ![w] = [Idle EXCEPT !.stage = "fetch", !.job = j]]
  /\ overlapped' = (overlapped \/ \E v \in Workers \ {w} : cycles[v].stage # "idle")
  /\ UNCHANGED <<anchorCache, anchors, signals, beliefs, beliefFaults>>

(* buildGridState, which always answers, then fetchOracleSignal: an engine *)
(* that fails or times out ends the job, or is replaced by a neutral HOLD. *)
FetchSignal(w) ==
  /\ cycles[w].stage = "fetch"
  /\ \/ /\ \E c \in Confidences :
             cycles' = [cycles EXCEPT ![w].stage = "persist", ![w].confidence = c]
        /\ NoFault /\ UNCHANGED broadcasts
     \/ /\ Fault /\ production /\ FailJob(w)
     \/ /\ Fault /\ ~production
        /\ cycles' = [cycles EXCEPT ![w].stage = "persist", ![w].confidence = Half]
        /\ UNCHANGED broadcasts
  /\ UNCHANGED <<anchorCache, anchors, signals, beliefs, overlapped>>

(* persistOracleSignal: a failed insertion, even one that took effect,     *)
(* ends the job or gives the cycle a signal id that names no row.          *)
PersistSignal(w) ==
  /\ cycles[w].stage = "persist"
  /\ \/ /\ signals' = signals + 1 /\ NoFault /\ UNCHANGED broadcasts
        /\ cycles' = [cycles EXCEPT ![w].stage = "load", ![w].signal = signals']
     \/ /\ Fault /\ signals' \in {signals, signals + 1}
        /\ \/ production /\ FailJob(w)
           \/ /\ ~production /\ UNCHANGED broadcasts
              /\ cycles' = [cycles EXCEPT ![w].stage = "load", ![w].signal = MockSignal]
  /\ UNCHANGED <<anchorCache, anchors, beliefs, overlapped>>

(* An error of runBeliefUpdateCycle outside the loop over the agents: the  *)
(* production worker rethrows it, the other reports no updates.            *)
CycleError(w) ==
  \/ production /\ FailJob(w)
  \/ ~production /\ EndJob(w, "completed", [signal |-> cycles[w].signal, updated |-> 0])

(* The agents are read, then the ORACLE negotiation unless it is cached.   *)
LoadAgents(w) ==
  /\ cycles[w].stage = "load"
  /\ \/ LET known == anchorCache[w] \/ anchors > 0 IN
        /\ cycles' = [cycles EXCEPT ![w].todo = Believers,
                                    ![w].stage = IF known THEN "prior" ELSE "create_anchor"]
        /\ anchorCache' = [anchorCache EXCEPT ![w] = known]
        /\ NoFault /\ UNCHANGED broadcasts
     \/ Fault /\ CycleError(w) /\ UNCHANGED anchorCache
  /\ UNCHANGED <<anchors, signals, beliefs, overlapped>>

CreateAnchor(w) ==
  /\ cycles[w].stage = "create_anchor"
  /\ \/ /\ NoFault /\ UNCHANGED broadcasts
        /\ anchors' = anchors + 1
        /\ anchorCache' = [anchorCache EXCEPT ![w] = TRUE]
        /\ Goto(w, "prior")
     \/ /\ Fault /\ CycleError(w) /\ UNCHANGED anchorCache
        /\ anchors' \in {anchors, anchors + 1}
  /\ UNCHANGED <<signals, beliefs, overlapped>>

(* The loop over the agents.  A failure on one is recorded as its ERROR    *)
(* result and the loop goes on.                                            *)
ReadPrior(w) ==
  /\ cycles[w].stage = "prior" /\ cycles[w].todo # <<>>
  /\ \/ /\ NoFault
        /\ cycles' = [cycles EXCEPT ![w].stage = "write",
                                    ![w].prior = LastBelief(Head(cycles[w].todo))]
     \/ /\ Fault
        /\ cycles' = [cycles EXCEPT ![w].todo = Tail(@)]
  /\ UNCHANGED <<broadcasts, anchorCache, anchors, signals, beliefs, overlapped>>

BeliefRow(c) ==
  [agent |-> Head(c.todo), signal |-> c.signal, confidence |-> c.confidence,
   before |-> c.prior, after |-> Posterior(c.prior, c.confidence)]

(* Mutant: every row the loop has come to is reported as updated.          *)
WriteOrNot(w) ==
  LET c == cycles[w]
      moveOn == cycles' = [cycles EXCEPT ![w].stage = "prior",
                        ![w].todo = Tail(@), ![w].prior = 0, ![w].updated = @ + 1]
  IN /\ c.stage = "write"
     /\ \/ /\ c.signal # MockSignal /\ NoFault
           /\ beliefs' = Append(beliefs, BeliefRow(c)) /\ moveOn
        \/ /\ c.signal = MockSignal /\ NoFault /\ UNCHANGED beliefs /\ moveOn
        \/ c.signal # MockSignal /\ Fault /\ moveOn /\ UNCHANGED beliefs
     /\ UNCHANGED <<broadcasts, anchorCache, anchors, signals, overlapped>>

(* The COMPLETE row is created.  A row for a signal that names no row      *)
(* breaks the foreign key; a failed creation may still have taken effect.  *)
WriteBelief(w) ==
  LET c == cycles[w]
      moveOn(done) == cycles' = [cycles EXCEPT ![w].stage = "prior",
                        ![w].todo = Tail(@), ![w].prior = 0, ![w].updated = @ + done]
  IN /\ c.stage = "write"
     /\ \/ /\ c.signal # MockSignal /\ NoFault
           /\ beliefs' = Append(beliefs, BeliefRow(c)) /\ moveOn(1)
        \/ /\ c.signal = MockSignal /\ NoFault /\ UNCHANGED beliefs /\ moveOn(0)
        \/ /\ c.signal # MockSignal /\ Fault /\ moveOn(0)
           /\ beliefs' \in {beliefs, Append(beliefs, BeliefRow(c))}
     /\ UNCHANGED <<broadcasts, anchorCache, anchors, signals, overlapped>>

(* The loop has ended: the job returns its result.                         *)
ReportCycle(w) ==
  /\ cycles[w].stage = "prior" /\ cycles[w].todo = <<>>
  /\ EndJob(w, "completed", [signal |-> cycles[w].signal, updated |-> cycles[w].updated])
  /\ UNCHANGED <<anchorCache, anchors, signals, beliefs, overlapped, beliefFaults>>

(* Mutant: the job of a worker that died is not taken again.               *)
CrashLosingJob(w) ==
  /\ cycles[w].stage # "idle" /\ Fault
  /\ cycles' = [cycles EXCEPT ![w] = Idle]
  /\ anchorCache' = [anchorCache EXCEPT ![w] = FALSE]
  /\ UNCHANGED <<broadcasts, anchors, signals, beliefs, overlapped>>

(* The worker process dies and restarts; its job stalls.                   *)
CrashWorker(w) ==
  /\ cycles[w].stage # "idle" /\ Fault
  /\ LET j == cycles[w].job IN
       broadcasts' = [broadcasts EXCEPT ![j].stalls = @ + 1,
                        ![j].status = IF broadcasts[j].stalls = 0 THEN "waiting" ELSE "failed"]
  /\ cycles' = [cycles EXCEPT ![w] = Idle]
  /\ anchorCache' = [anchorCache EXCEPT ![w] = FALSE]
  /\ UNCHANGED <<anchors, signals, beliefs, overlapped>>

RunCycle(w) ==
  \/ TakeJob(w) \/ FetchSignal(w) \/ PersistSignal(w) \/ LoadAgents(w)
  \/ CreateAnchor(w) \/ ReadPrior(w) \/ WriteBelief(w)
  \/ ReportCycle(w)

BeliefNext == ScheduleTick \/ \E w \in Workers : RunCycle(w) \/ CrashWorker(w)

(* Workers keep running: a restarted process takes jobs again, the fetch   *)
(* has a timeout and the database answers or fails.                        *)
BeliefFairness == \A w \in Workers : WF_beliefVars(RunCycle(w))

BeliefSpec == ConfigInit /\ BeliefInit
              /\ [][BeliefNext /\ UNCHANGED production]_<<beliefVars, production>>
              /\ BeliefFairness

-------------------------------------------------------------------------------
(* What is stored of a belief: a clamped probability.                      *)
Believable == (Scale \div 1000) .. (Scale - Scale \div 1000)

BeliefTypeOK ==
  /\ broadcasts \in [1 .. MaxTicks ->
       [status : {"none", "waiting", "active", "completed", "failed"}, stalls : 0 .. 2,
        report : [signal : Nat, updated : 0 .. Len(Believers)]]]
  /\ cycles \in [Workers ->
       [stage : {"idle", "fetch", "persist", "load", "create_anchor", "prior", "write"},
        job : 0 .. MaxTicks, confidence : 0 .. Scale, signal : Nat,
        todo : Seq(Range(Believers)),
        prior : Believable \cup {0}, updated : 0 .. Len(Believers)]]
  /\ anchorCache \in [Workers -> BOOLEAN]
  /\ anchors \in Nat /\ signals \in Nat
  /\ beliefs \in Seq([agent : Range(Believers), signal : 1 .. signals, confidence : 0 .. Scale,
                      before : Believable, after : Believable])
  /\ overlapped \in BOOLEAN /\ beliefFaults \in 0 .. MaxFaults

(* beliefUpdateService.ts:161-186.  Each belief starts from the one before *)
(* it: the prior of an agent's row is the posterior of its previous row,   *)
(* and there is one ORACLE negotiation.  The worker's `concurrency: 1`     *)
(* gives this within a process only, so it holds as long as the cycles of  *)
(* two processes never ran together; crashes and re-runs do not break it.  *)
SerialCyclesFollowOn ==
  ~overlapped =>
    /\ anchors <= 1
    /\ \A i \in DOMAIN beliefs :
         beliefs[i].before = LastIn(SubSeq(beliefs, 1, i - 1), beliefs[i].agent)

(* The rows a signal has caused.                                           *)
Caused(s) == {i \in DOMAIN beliefs : beliefs[i].signal = s}

(* oracleBroadcastWorker.ts:200-227.  A finished cycle reports no more     *)
(* updates than its signal has rows, a signal moves an agent's belief at   *)
(* most once even when its job is run again, and a production cycle that   *)
(* finished has a signal row.                                              *)
ReportedUpdatesStored ==
  /\ \A s \in 1 .. signals : \A i, k \in Caused(s) : beliefs[i].agent = beliefs[k].agent => i = k
  /\ \A j \in 1 .. MaxTicks : broadcasts[j].status = "completed" =>
       /\ broadcasts[j].report.updated <= Cardinality(Caused(broadcasts[j].report.signal))
       /\ production => broadcasts[j].report.signal \in 1 .. signals

(* oracleBroadcastWorker.ts:173-230.  Whatever fails and whoever dies, a   *)
(* broadcast that was queued ends: when the scheduler rests, the queue     *)
(* drains.                                                                 *)
BroadcastsEnd ==
  LET drained == \A j \in 1 .. MaxTicks : broadcasts[j].status \notin {"waiting", "active"}
  IN  ~drained ~> drained
===============================================================================
