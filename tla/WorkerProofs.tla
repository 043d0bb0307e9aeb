----------------------------- MODULE WorkerProofs -----------------------------
(***************************************************************************)
(* The jobs and requests that work beside the negotiation, proved for      *)
(* every value of the constants: the nightly integrity check, the          *)
(* administrators' Oracle documents, and the belief-update cycles, which   *)
(* also run out: no broadcast is lost and every step leaves less to do.    *)
(***************************************************************************)
EXTENDS IntegrityCheck, OracleSources, BeliefCycles, FiniteSetTheorems, SequenceTheorems,
        WellFoundedInduction, NaturalsInduction, TLAPS

-------------------------------------------------------------------------------
(* IntegrityCheck.  A table's rows, with one version of each; what a job   *)
(* in its first attempt has found; and what a job that ended in it did.    *)
RowSets == {S \in SUBSET (RowIds \X (1 .. 2)) : \A r, q \in S : r[1] = q[1] => r = q}

CheckTyped ==
  /\ auditRows \in [TableSet -> [RowIds -> 0 .. 3]]
  /\ snapshots \in [TableSet -> RowSets]
  /\ nightBefore \in [TableSet -> RowSets] /\ seen \in [TableSet -> RowSets]
  /\ check \in [step : {"idle", "read", "compare"}, at : DOMAIN Tables, read : RowSets,
                intact : BOOLEAN]
  /\ outcome \in [is : {"none", "completed", "failed", "errored"}, broken : BOOLEAN]

(* Table number k was as the night before left it, when the job read it.   *)
Sound(k) == ~Alarm(seen[Tables[k]], nightBefore[Tables[k]])

NightUnderWay ==
  check.step # "idle" =>
    /\ outcome.is = "none"
    /\ ~outcome.broken =>
         /\ \A k \in DOMAIN Tables :
              k >= check.at => snapshots[Tables[k]] = nightBefore[Tables[k]]
         /\ check.step = "compare" => check.read = seen[Tables[check.at]]
         /\ check.intact <=> \A k \in DOMAIN Tables : k < check.at => Sound(k)

NightOver ==
  outcome.is \in {"completed", "failed"} /\ ~outcome.broken =>
    (outcome.is = "completed" <=> \A k \in DOMAIN Tables : Sound(k))

CheckInv == CheckTyped /\ NightUnderWay /\ NightOver

-------------------------------------------------------------------------------
(* OracleSources.  What is stored of a document and what the audit chain   *)
(* says of it, through the request that changed it last.                   *)
Tells(d, kind) == Status(d) = "REVOKED" <=> kind = "revoke" \/ documents[d] = "expired"

Pending(r) == requests[r].step \in {"fallback", "audit"}

(* A request about d has failed, or has come to another copy.              *)
Astray(d) == \E r \in Requests :
  <<r, d>> \in changed /\ (requests[r].step = "failed" \/ requests[r].id # d)

SourceTyped ==
  /\ documents \in [Ids -> Validities \cup {"absent", "revoked", "expired"}]
  /\ requests \in [Requests -> [kind : Kinds \cup {"none"}, id : {<<>>} \cup (Contents \X Nat),
                                step : {"none", "new", "fallback", "audit", "done", "failed"}]]
  /\ trail \in [Ids \cup {Ghost(c) : c \in Contents} -> Kinds \cup {"none"}]

RequestsInOrder ==
  /\ \A r \in Requests :
       /\ requests[r].step # "none" =>
            requests[r].kind # "none" /\ requests[r].id \in Contents \X Nat
       /\ requests[r].step = "fallback" => requests[r].kind = "submit"
       /\ requests[r].kind = "submit" /\ requests[r].step = "new" =>
            \E c \in Contents : requests[r].id = Ghost(c)
       /\ Pending(r) /\ requests[r].id \in Ids => <<r, requests[r].id>> \in changed
       /\ \A d \in Ids : <<r, d>> \in changed => requests[r].step # "none"
  /\ \A r, q \in Requests :
       Pending(r) /\ Pending(q) /\ requests[r].id = requests[q].id /\ r # q
         /\ requests[r].id \in Ids => requests[r].id \in clashed

TrailFollows ==
  \A d \in Ids : documents[d] # "absent" /\ d \notin clashed /\ ~Astray(d) =>
    \/ \E r \in Requests : Pending(r) /\ requests[r].id = d /\ Tells(d, requests[r].kind)
    \/ ~InFlight(d) /\ trail[d] # "none" /\ Tells(d, trail[d])

SourceInv == SourceTyped /\ RequestsInOrder /\ TrailFollows

-------------------------------------------------------------------------------
(* BeliefCycles.  RunsAlone is what a queue with one running cycle keeps,  *)
(* SignalsMoveOnce what any number of them does; neither says anything of  *)
(* a belief's value, which BeliefTyped does.                               *)
Stages == {"idle", "fetch", "persist", "load", "create_anchor", "prior", "write"}
Jobs == [status : {"none", "waiting", "active", "completed", "failed"}, stalls : Nat,
         report : [signal : Nat, updated : Nat]]
Cycle(prior, last) ==
  [stage : Stages, job : 0 .. MaxTicks, confidence : 0 .. Scale, signal : 0 .. last,
   todo : Seq(Range(Believers)), prior : {prior}, updated : Nat]

CyclesTyped ==
  /\ broadcasts \in [1 .. MaxTicks -> Jobs]
  /\ cycles = [w \in Workers |-> cycles[w]]
  /\ \A w \in Workers : cycles[w] \in Cycle(cycles[w].prior, signals)
  /\ anchors \in Nat /\ signals \in Nat
  /\ beliefs \in Seq({beliefs[i] : i \in DOMAIN beliefs})
  /\ \A w \in Workers : cycles[w].stage = "write" => cycles[w].todo # <<>>

RunsAlone ==
  ~overlapped =>
    /\ \A v, w \in Workers : v # w => cycles[v].stage = "idle" \/ cycles[w].stage = "idle"
    /\ anchors <= 1
    /\ \A w \in Workers :
         /\ cycles[w].stage = "create_anchor" => anchors = 0
         /\ cycles[w].stage = "write" => cycles[w].prior = LastBelief(Head(cycles[w].todo))
    /\ \A i \in DOMAIN beliefs :
         beliefs[i].before = LastIn(SubSeq(beliefs, 1, i - 1), beliefs[i].agent)

(* What a cycle c is yet to write, its signal has not caused.              *)
YetToWrite(c) ==
  /\ c.stage = "load" => Caused(c.signal) = {}
  /\ c.stage \in {"create_anchor", "prior", "write"} =>
       /\ \A i \in Caused(c.signal), k \in DOMAIN c.todo : beliefs[i].agent # c.todo[k]
       /\ \A i, k \in DOMAIN c.todo : c.todo[i] = c.todo[k] => i = k
  /\ c.updated <= Cardinality(Caused(c.signal))
  /\ c.stage \notin {"prior", "write"} => c.updated = 0

SignalsMoveOnce ==
  /\ \A i \in DOMAIN beliefs : beliefs[i].signal \in 1 .. signals
  /\ \A v, w \in Workers : v # w /\ cycles[v].signal = cycles[w].signal =>
       cycles[v].signal = MockSignal
  /\ \A w \in Workers : YetToWrite(cycles[w])
  /\ \A w \in Workers :
       production /\ cycles[w].stage \notin {"idle", "fetch", "persist"} =>
         cycles[w].signal # MockSignal

BeliefInv == CyclesTyped /\ RunsAlone /\ SignalsMoveOnce /\ ReportedUpdatesStored

(* The types, and what keeps them: a running cycle has an active job to    *)
(* itself, a job that may run again has stalled at most once, and a cycle  *)
(* has updated no more agents than it has come past.                       *)
CycleRecords ==
  [stage : Stages, job : 0 .. MaxTicks, confidence : 0 .. Scale, signal : Nat,
   todo : Seq(Range(Believers)), prior : Believable \cup {0}, updated : 0 .. Len(Believers)]
JobRecords ==
  [status : {"none", "waiting", "active", "completed", "failed"}, stalls : 0 .. 2,
   report : [signal : Nat, updated : 0 .. Len(Believers)]]
BeliefRows(last) ==
  [agent : Range(Believers), signal : 1 .. last, confidence : 0 .. Scale,
   before : Believable, after : Believable]

Runnable(job) == job.status \in {"none", "waiting", "active"} => job.stalls <= 1

InStep(c) ==
  /\ c.stage = "write" => c.prior \in Believable /\ c.todo # <<>>
  /\ c.stage \in {"create_anchor", "prior", "write"} => c.updated + Len(c.todo) <= Len(Believers)
  /\ c.stage \notin {"prior", "write"} => c.updated = 0

JobsApart ==
  /\ \A j \in 1 .. MaxTicks : Runnable(broadcasts[j])
  /\ \A w \in Workers : cycles[w].stage # "idle" =>
       cycles[w].job \in 1 .. MaxTicks /\ broadcasts[cycles[w].job].status = "active"
  /\ \A v, w \in Workers : v # w /\ cycles[v].stage # "idle" /\ cycles[w].stage # "idle" =>
       cycles[v].job # cycles[w].job

BeliefTyped ==
  /\ BeliefTypeOK /\ JobsApart
  /\ \A w \in Workers : InStep(cycles[w]) /\ cycles[w].signal <= signals

-------------------------------------------------------------------------------
(* The comparison of a table with its snapshot.                            *)
LEMMA RowSetsFinite ==
  ASSUME NEW S \in RowSets
  PROVE  /\ IsFiniteSet(S) /\ Cardinality(S) \in Nat
         /\ S \subseteq RowIds \X (1 .. 2)
         /\ \A r \in S : r[1] \in Nat
         /\ \A r, q \in S : r[1] = q[1] => r = q
<1>1. S \subseteq RowIds \X (1 .. 2)  BY DEF RowSets
<1>2. IsFiniteSet(1 .. 2)
  <2>1. 1 \in Int /\ 2 \in Int  OBVIOUS
  <2>2. QED  BY <2>1, FS_Interval, Zenon
<1>3. IsFiniteSet(RowIds \X (1 .. 2))  BY <1>2, CheckAssumption, FS_Product
<1>4. IsFiniteSet(S)  BY <1>1, <1>3, FS_Subset
<1>5. Cardinality(S) \in Nat  BY <1>4, FS_CardinalityType
<1>6. QED  BY <1>1, <1>4, <1>5, CheckAssumption DEF RowSets

(* No alarm: every row of the snapshot is there.                           *)
LEMMA NoAlarmKeeps ==
  ASSUME NEW read, NEW before, ~Alarm(read, before)
  PROVE  before \subseteq read
BY DEF Alarm, Prefix

(* An alarm although every row is there: a new row sorts before an old one.*)
LEMMA AlarmMeansNewRow ==
  ASSUME NEW read \in RowSets, NEW before \in RowSets, Alarm(read, before), before \subseteq read
  PROVE  \E r \in read \ before, q \in before : r[1] < q[1]
<1> DEFINE n == Cardinality(before)
           Upto(r) == {q \in read : q[1] <= r[1]}
<1>1. /\ IsFiniteSet(read) /\ \A r \in read : r[1] \in Nat
      /\ \A r, q \in read : r[1] = q[1] => r = q
      /\ IsFiniteSet(before) /\ n \in Nat /\ Cardinality(read) \in Nat
  BY RowSetsFinite
<1>2. n <= Cardinality(read)  BY <1>1, FS_Subset
<1> SUFFICES ASSUME \A r \in read \ before, q \in before : ~ (r[1] < q[1]) PROVE FALSE
  OBVIOUS
<1>3. \A r \in read \ before, q \in before : q[1] < r[1]  BY <1>1
<1>4. ASSUME NEW q \in before PROVE Cardinality(Upto(q)) <= n
  <2>1. Upto(q) \subseteq before  BY <1>1, <1>3
  <2>2. QED  BY <1>1, <2>1, FS_Subset
<1>5. ASSUME NEW r \in read \ before PROVE ~ (Cardinality(Upto(r)) <= n)
  <2>1. before \cup {r} \subseteq Upto(r)  BY <1>1, <1>3
  <2>2. IsFiniteSet(Upto(r)) /\ Cardinality(Upto(r)) \in Nat
    <3>1. Upto(r) \subseteq read  OBVIOUS
    <3>2. IsFiniteSet(Upto(r))  BY <1>1, <3>1, FS_Subset
    <3>3. QED  BY <3>2, FS_CardinalityType
  <2>3. Cardinality(before \cup {r}) = n + 1  BY <1>1, FS_AddElement
  <2>4. Cardinality(before \cup {r}) <= Cardinality(Upto(r))  BY <2>1, <2>2, FS_Subset
  <2>5. QED  BY <1>1, <2>2, <2>3, <2>4
<1>6. Prefix(read, n) = {r \in read : Cardinality(Upto(r)) <= n}  BY DEF Prefix
<1> HIDE DEF Upto, n
<1>7. Prefix(read, n) = before  BY <1>4, <1>5, <1>6
<1>8. ~Alarm(read, before)
  <2>1. ~ (Cardinality(read) < n)  BY <1>1, <1>2
  <2>2. QED  BY <1>7, <2>1 DEF Alarm, n
<1>9. QED  BY <1>8

LEMMA PresentRows == CheckTyped => \A t \in TableSet : Present(t) \in RowSets
<1> SUFFICES ASSUME CheckTyped, NEW t \in TableSet PROVE Present(t) \in RowSets  OBVIOUS
<1>1. \A q \in Present(t) : \E i \in RowIds : q = <<i, auditRows[t][i]>> /\ auditRows[t][i] \in 1 .. 2
  BY DEF Present
<1>2. Present(t) \subseteq RowIds \X (1 .. 2)  BY <1>1
<1>3. \A r, q \in Present(t) : r[1] = q[1] => r = q  BY <1>1
<1>4. QED  BY <1>2, <1>3 DEF RowSets

-------------------------------------------------------------------------------
(* The check's invariant.                                                  *)
CheckRecord == [step : {"idle", "read", "compare"}, at : DOMAIN Tables, read : RowSets,
                intact : BOOLEAN]

LEMMA TableNumbers ==
  /\ Len(Tables) \in Nat /\ DOMAIN Tables = 1 .. Len(Tables) /\ 1 \in DOMAIN Tables
  /\ \A k \in DOMAIN Tables : Tables[k] \in TableSet
<1>1. Len(Tables) \in Nat /\ DOMAIN Tables = 1 .. Len(Tables)  BY CheckAssumption
<1>2. Len(Tables) # 0  BY CheckAssumption, EmptySeq
<1>3. QED  BY <1>1, <1>2 DEF TableSet

LEMMA RestTyped == AtRest \in CheckRecord
<1>1. {} \in RowSets  BY DEF RowSets
<1>2. QED  BY <1>1, TableNumbers DEF AtRest, CheckRecord

LEMMA CheckStarts == CheckInit => CheckInv
<1> SUFFICES ASSUME CheckInit PROVE CheckInv  OBVIOUS
<1> USE DEF CheckInit
<1>1. {} \in RowSets  BY DEF RowSets
<1>2. NoRows \in [TableSet -> RowSets]  BY <1>1 DEF NoRows
<1>3. auditRows \in [TableSet -> [RowIds -> 0 .. 3]]  OBVIOUS
<1>4. check \in CheckRecord  BY RestTyped
<1>5. outcome \in [is : {"none", "completed", "failed", "errored"}, broken : BOOLEAN]  OBVIOUS
<1>6. CheckTyped  BY <1>2, <1>3, <1>4, <1>5 DEF CheckTyped, CheckRecord
<1>7. NightUnderWay /\ NightOver  BY DEF NightUnderWay, NightOver, AtRest
<1>8. QED  BY <1>6, <1>7 DEF CheckInv

LEMMA CheckTypedStep == CheckTyped /\ CheckNext => CheckTyped'
<1> SUFFICES ASSUME CheckTyped, CheckNext PROVE CheckTyped'  OBVIOUS
<1> DEFINE Outcomes == [is : {"none", "completed", "failed", "errored"}, broken : BOOLEAN]
<1>1. /\ auditRows \in [TableSet -> [RowIds -> 0 .. 3]]
      /\ snapshots \in [TableSet -> RowSets]
      /\ nightBefore \in [TableSet -> RowSets] /\ seen \in [TableSet -> RowSets]
      /\ check \in CheckRecord /\ outcome \in Outcomes
  BY DEF CheckTyped, CheckRecord
<1>2. NoRows \in [TableSet -> RowSets] /\ AtRest \in CheckRecord
  <2>1. {} \in RowSets  BY DEF RowSets
  <2>2. QED  BY <2>1, RestTyped DEF NoRows
<1>3. Tables[check.at] \in TableSet /\ check.at \in DOMAIN Tables /\ check.read \in RowSets
  BY <1>1, TableNumbers DEF CheckRecord
<1>4. auditRows' \in [TableSet -> [RowIds -> 0 .. 3]]
  <2>1. CASE ChangeRow  BY <1>1, <2>1 DEF ChangeRow
  <2>2. CASE UNCHANGED auditRows  BY <1>1, <2>2
  <2>3. QED
    BY <2>1, <2>2 DEF CheckNext, TakeNight, ReadRows, CompareAndStore, CheckErrs, CheckStalls
<1>5. snapshots' \in [TableSet -> RowSets]
  <2>1. CASE CompareAndStore  BY <1>1, <1>3, <2>1 DEF CompareAndStore
  <2>2. CASE UNCHANGED snapshots  BY <1>1, <2>2
  <2>3. QED  BY <2>1, <2>2 DEF CheckNext, ChangeRow, TakeNight, ReadRows, CheckErrs, CheckStalls
<1>6. nightBefore' \in [TableSet -> RowSets]
  BY <1>1 DEF CheckNext, ChangeRow, TakeNight, ReadRows, CompareAndStore, CheckErrs, CheckStalls
<1>7. check' \in CheckRecord /\ seen' \in [TableSet -> RowSets]
  <2>1. CASE ReadRows
    <3>1. Present(Tables[check.at]) \in RowSets  BY <1>3, PresentRows
    <3>2. check' \in CheckRecord  BY <1>1, <2>1, <3>1 DEF ReadRows, CheckRecord
    <3>3. check'.read \in RowSets  BY <3>2 DEF CheckRecord
    <3>4. QED  BY <1>1, <2>1, <3>2, <3>3 DEF ReadRows
  <2>2. CASE CompareAndStore
    <3>1. PICK b \in BOOLEAN : \/ /\ check.at < Len(Tables)
                                  /\ check' = [step |-> "read", at |-> check.at + 1, read |-> {},
                                               intact |-> b]
                               \/ check' = AtRest
      BY <2>2 DEF CompareAndStore
    <3>2. {} \in RowSets  BY DEF RowSets
    <3>3. CASE check' = AtRest  BY <1>1, <1>2, <2>2, <3>3 DEF CompareAndStore
    <3>4. CASE /\ check.at < Len(Tables)
               /\ check' = [step |-> "read", at |-> check.at + 1, read |-> {}, intact |-> b]
      <4>1. check.at + 1 \in DOMAIN Tables  BY <1>3, <3>4, TableNumbers
      <4>2. check' \in CheckRecord  BY <3>2, <3>4, <4>1 DEF CheckRecord
      <4>3. QED  BY <1>1, <2>2, <4>2 DEF CompareAndStore
    <3>5. QED  BY <3>1, <3>3, <3>4
  <2>3. CASE TakeNight \/ CheckStalls
    <3>1. check' = [AtRest EXCEPT !.step = "read"]  BY <2>3 DEF TakeNight, CheckStalls
    <3>2. check' \in CheckRecord  BY <1>2, <3>1 DEF CheckRecord
    <3>3. QED  BY <1>1, <1>2, <2>3, <3>2 DEF TakeNight, CheckStalls
  <2>4. CASE ChangeRow \/ CheckErrs  BY <1>1, <1>2, <2>4 DEF ChangeRow, CheckErrs
  <2>5. QED  BY <2>1, <2>2, <2>3, <2>4 DEF CheckNext
<1>8. outcome' \in Outcomes
  <2>1. CASE CompareAndStore
    <3>1. \/ outcome' = outcome
          \/ \E how \in {"completed", "failed"} : outcome' = [outcome EXCEPT !.is = how]
      BY <2>1 DEF CompareAndStore
    <3>2. CASE outcome' = outcome  BY <1>1, <3>2
    <3>3. ASSUME NEW how \in {"completed", "failed"}, outcome' = [outcome EXCEPT !.is = how]
          PROVE  outcome' \in Outcomes
      BY <1>1, <3>3
    <3>4. QED  BY <3>1, <3>2, <3>3
  <2>2. CASE CheckStalls  BY <1>1, <2>2 DEF CheckStalls
  <2>3. CASE TakeNight \/ CheckErrs
    <3>1. [is |-> "none", broken |-> FALSE] \in Outcomes  OBVIOUS
    <3>2. [is |-> "errored", broken |-> TRUE] \in Outcomes  OBVIOUS
    <3>3. \/ outcome' = [is |-> "none", broken |-> FALSE]
          \/ outcome' = [is |-> "errored", broken |-> TRUE]
      BY <2>3 DEF TakeNight, CheckErrs
    <3>4. QED  BY <3>1, <3>2, <3>3
  <2>4. CASE UNCHANGED outcome  BY <1>1, <2>4
  <2>5. QED  BY <2>1, <2>2, <2>3, <2>4 DEF CheckNext, ChangeRow, ReadRows
<1>9. QED  BY <1>4, <1>5, <1>6, <1>7, <1>8 DEF CheckTyped, CheckRecord

LEMMA NightSteps == CheckInv /\ CheckNext => NightUnderWay' /\ NightOver'
<1> SUFFICES ASSUME CheckInv, CheckNext PROVE NightUnderWay' /\ NightOver'  OBVIOUS
<1>1. CheckTyped /\ NightUnderWay /\ NightOver  BY DEF CheckInv
<1>2. /\ check \in CheckRecord /\ check.at \in DOMAIN Tables
      /\ outcome \in [is : {"none", "completed", "failed", "errored"}, broken : BOOLEAN]
      /\ snapshots \in [TableSet -> RowSets] /\ seen \in [TableSet -> RowSets]
  BY <1>1 DEF CheckTyped, CheckRecord
<1>3. /\ Len(Tables) \in Nat /\ DOMAIN Tables = 1 .. Len(Tables)
      /\ \A k \in DOMAIN Tables : Tables[k] \in TableSet
      /\ \A i, j \in DOMAIN Tables : Tables[i] = Tables[j] => i = j
  BY TableNumbers, CheckAssumption
<1>4. CASE UNCHANGED <<snapshots, check, nightBefore, seen, outcome>>
  BY <1>1, <1>4 DEF NightUnderWay, NightOver, Sound
<1>5. CASE TakeNight
  <2>1. /\ check'.step = "read" /\ check'.at = 1 /\ check'.intact = TRUE
        /\ outcome'.is = "none" /\ nightBefore' = snapshots' /\ snapshots' = snapshots
    BY <1>5 DEF TakeNight, AtRest
  <2>2. QED  BY <1>3, <2>1 DEF NightUnderWay, NightOver
<1>6. CASE ReadRows
  <2>1. /\ check'.step = "compare" /\ check'.at = check.at /\ check'.intact = check.intact
        /\ check.step = "read"
        /\ UNCHANGED <<snapshots, nightBefore, outcome>>
    BY <1>2, <1>6 DEF ReadRows, CheckRecord
  <2>2. seen' = [seen EXCEPT ![Tables[check.at]] = check'.read]  BY <1>6 DEF ReadRows
  <2>3. check'.read = seen'[Tables[check'.at]]  BY <1>2, <1>3, <2>1, <2>2
  <2>4. \A k \in DOMAIN Tables : k < check.at => seen'[Tables[k]] = seen[Tables[k]]
    BY <1>2, <1>3, <2>2
  <2>5. \A k \in DOMAIN Tables : k < check.at => (Sound(k)' <=> Sound(k))
    BY <2>1, <2>4 DEF Sound
  <2>6. NightUnderWay'  BY <1>1, <2>1, <2>3, <2>5 DEF NightUnderWay
  <2>7. NightOver'  BY <1>1, <2>1 DEF NightUnderWay, NightOver
  <2>8. QED  BY <2>6, <2>7
<1>7. CASE CompareAndStore
  <2> DEFINE t == Tables[check.at]
             intact == check.intact /\ ~Alarm(check.read, snapshots[t])
  <2>1. /\ check.step = "compare" /\ outcome.is = "none"
        /\ snapshots' = [snapshots EXCEPT ![t] = check.read]
        /\ UNCHANGED <<nightBefore, seen>>
    BY <1>1, <1>7 DEF CompareAndStore, NightUnderWay
  <2>2. outcome'.broken = outcome.broken
    BY <1>2, <1>7 DEF CompareAndStore
  <2>3. \A k \in DOMAIN Tables : Sound(k)' <=> Sound(k)  BY <2>1 DEF Sound
  <2>4. ~outcome.broken => (intact <=> \A k \in DOMAIN Tables : k <= check.at => Sound(k))
    <3> SUFFICES ASSUME ~outcome.broken
                 PROVE  intact <=> \A k \in DOMAIN Tables : k <= check.at => Sound(k)
      OBVIOUS
    <3>1. check.read = seen[t] /\ snapshots[t] = nightBefore[t]
      BY <1>1, <1>2, <1>3, <2>1 DEF NightUnderWay
    <3>2. Sound(check.at) <=> ~Alarm(check.read, snapshots[t])  BY <3>1 DEF Sound
    <3>3. check.intact <=> \A k \in DOMAIN Tables : k < check.at => Sound(k)
      BY <1>1, <2>1 DEF NightUnderWay
    <3>4. \A k \in DOMAIN Tables : k <= check.at <=> k < check.at \/ k = check.at
      BY <1>2, <1>3
    <3>5. QED  BY <1>2, <3>2, <3>3, <3>4, Zenon
  <2>5. CASE check.at < Len(Tables)
    <3>1. /\ check' = [step |-> "read", at |-> check.at + 1, read |-> {}, intact |-> intact]
          /\ outcome' = outcome
      BY <1>7, <2>5 DEF CompareAndStore
    <3> HIDE DEF intact
    <3>2. check'.step = "read" /\ check'.at = check.at + 1 /\ (check'.intact <=> intact)
      BY <3>1
    <3>3. ~outcome'.broken => \A k \in DOMAIN Tables : k >= check.at + 1 =>
             snapshots'[Tables[k]] = nightBefore'[Tables[k]]
      BY <1>1, <1>2, <1>3, <2>1, <2>2 DEF NightUnderWay
    <3>4. \A k \in DOMAIN Tables : k < check.at + 1 <=> k <= check.at  BY <1>2, <1>3
    <3>5. NightUnderWay'
      <4>1. outcome'.is = "none"  BY <2>1, <3>1
      <4>2. ~outcome'.broken => (check'.intact <=> \A k \in DOMAIN Tables : k < check'.at => Sound(k)')
        BY <2>2, <2>3, <2>4, <3>2, <3>4, Zenon
      <4>3. QED  BY <3>2, <3>3, <4>1, <4>2 DEF NightUnderWay
    <3>6. QED  BY <2>1, <3>1, <3>5 DEF NightOver
  <2>6. CASE ~(check.at < Len(Tables))
    <3>1. check' = AtRest /\ outcome' = [outcome EXCEPT !.is = IF intact THEN "completed" ELSE "failed"]
      BY <1>7, <2>6 DEF CompareAndStore
    <3>2. \A k \in DOMAIN Tables : k <= check.at  BY <1>2, <1>3, <2>6
    <3> HIDE DEF intact
    <3>3. outcome'.is = "completed" <=> intact  BY <1>2, <3>1
    <3>4. NightOver'
      BY <2>2, <2>3, <2>4, <3>2, <3>3, Zenon DEF NightOver
    <3>5. QED  BY <3>1, <3>4 DEF NightUnderWay, AtRest
  <2>7. QED  BY <2>5, <2>6
<1>8. CASE CheckErrs
  BY <1>8 DEF CheckErrs, NightUnderWay, NightOver, AtRest
<1>9. CASE CheckStalls
  <2>1. outcome'.broken /\ outcome'.is = outcome.is /\ outcome.is = "none"
    BY <1>1, <1>2, <1>9 DEF CheckStalls, NightUnderWay
  <2>2. QED  BY <2>1 DEF NightUnderWay, NightOver
<1>10. QED  BY <1>4, <1>5, <1>6, <1>7, <1>8, <1>9 DEF CheckNext, ChangeRow

LEMMA CheckSteps == CheckInv /\ [CheckNext]_checkVars => CheckInv'
<1> SUFFICES ASSUME CheckInv, [CheckNext]_checkVars PROVE CheckInv'  OBVIOUS
<1>1. CASE CheckNext
  <2>1. CheckTyped' /\ NightUnderWay' /\ NightOver'
    BY <1>1, CheckTypedStep, NightSteps DEF CheckInv
  <2>2. QED  BY <2>1 DEF CheckInv
<1>2. CASE UNCHANGED checkVars
  BY <1>2 DEF checkVars, CheckInv, CheckTyped, NightUnderWay, NightOver, Sound
<1>3. QED  BY <1>1, <1>2

(* A job that completes in one attempt vouches for every row of the night  *)
(* before (integrityCheck.ts:76-95), for any tables and rows, whoever      *)
(* changes them while the job runs.                                        *)
THEOREM CompletedChecksVouch == CheckSpec => []CompletedVouches
<1>1. CheckInv => CompletedVouches
  <2> SUFFICES ASSUME CheckInv, outcome.is = "completed", ~outcome.broken, NEW t \in TableSet
               PROVE  nightBefore[t] \subseteq seen[t]
    BY DEF CompletedVouches
  <2>1. PICK k \in DOMAIN Tables : t = Tables[k]  BY DEF TableSet
  <2>2. Sound(k)  BY DEF CheckInv, NightOver
  <2>3. QED  BY <2>1, <2>2, NoAlarmKeeps DEF Sound
<1>2. QED  BY <1>1, CheckStarts, CheckSteps, PTL DEF CheckSpec

(* A job that fails in one attempt has lost or changed a row, or met a new *)
(* row that sorts before an old one (integrityCheck.ts:78, 90): what the   *)
(* comparison of prefixes by number takes for tampering, and nothing else. *)
THEOREM AlarmsAreExplained == CheckSpec => []AlarmIsExplained
<1>1. CheckInv => AlarmIsExplained
  <2> SUFFICES ASSUME CheckInv, outcome.is = "failed", ~outcome.broken
               PROVE  \E t \in TableSet :
                        \/ ~ (nightBefore[t] \subseteq seen[t])
                        \/ \E r \in seen[t] \ nightBefore[t], q \in nightBefore[t] : r[1] < q[1]
    BY DEF AlarmIsExplained
  <2>1. PICK k \in DOMAIN Tables : ~Sound(k)  BY DEF CheckInv, NightOver
  <2>2. Tables[k] \in TableSet  BY TableNumbers
  <2>3. seen[Tables[k]] \in RowSets /\ nightBefore[Tables[k]] \in RowSets
    BY <2>2 DEF CheckInv, CheckTyped
  <2>4. QED  BY <2>1, <2>2, <2>3, AlarmMeansNewRow DEF Sound
<1>2. QED  BY <1>1, CheckStarts, CheckSteps, PTL DEF CheckSpec

(* Tables and snapshots hold rows of the tables, in one version each.      *)
THEOREM ChecksTyped == CheckSpec => []CheckTypeOK
<1>1. CheckInv => CheckTypeOK
  BY DEF CheckInv, CheckTyped, CheckTypeOK, RowSets
<1>2. QED  BY <1>1, CheckStarts, CheckSteps, PTL DEF CheckSpec

-------------------------------------------------------------------------------
(* OracleSources.  A document's validities, and the steps a request has.   *)
LEMMA SourceStarts == SourceInit => SourceInv
<1> SUFFICES ASSUME SourceInit PROVE SourceInv  OBVIOUS
<1>1. /\ documents = [d \in Ids |-> "absent"] /\ requests = [r \in Requests |-> Fresh]
      /\ trail = [d \in Ids \cup {Ghost(c) : c \in Contents} |-> "none"] /\ changed = {}
  BY DEF SourceInit
<1>2. SourceTyped  BY <1>1 DEF SourceTyped, Fresh
<1>3. \A r \in Requests : requests[r].step = "none" /\ ~Pending(r)  BY <1>1 DEF Fresh, Pending
<1>4. RequestsInOrder  BY <1>1, <1>3 DEF RequestsInOrder
<1>5. TrailFollows  BY <1>1 DEF TrailFollows
<1>6. QED  BY <1>2, <1>4, <1>5 DEF SourceInv

LEMMA GhostsAreNoIds == \A c \in Contents : Ghost(c) \notin Ids /\ Ghost(c) \in Contents \X Nat
BY SourceAssumption DEF Ghost, Ids

LEMMA NextCopyTyped == SourceTyped => \A c \in Contents : NextCopy(c) \in Contents \X Nat
<1> SUFFICES ASSUME NEW c \in Contents PROVE NextCopy(c) \in Contents \X Nat  OBVIOUS
<1>1. IsFiniteSet(Ids)  BY SourceAssumption, FS_Product DEF Ids
<1>2. Stored(c) \subseteq Ids  BY DEF Stored
<1>3. Cardinality(Stored(c)) \in Nat  BY <1>1, <1>2, FS_Subset, FS_CardinalityType
<1>4. Cardinality(Stored(c)) + 1 \in Nat  BY <1>3
<1>5. QED  BY <1>4 DEF NextCopy

(* What a request asks for leaves what is pending as it was.               *)
LEMMA AskKeeps ==
  ASSUME SourceInv, NEW r \in Requests, NEW kind \in Kinds, NEW id \in Contents \X Nat,
         kind = "submit" => \E c \in Contents : id = Ghost(c),
         Ask(r, kind, id)
  PROVE  SourceInv'
<1>1. SourceTyped /\ RequestsInOrder /\ TrailFollows  BY DEF SourceInv
<1> DEFINE asked == [kind |-> kind, id |-> id, step |-> "new"]
<1>2. /\ requests[r].step = "none"
      /\ requests' = [requests EXCEPT ![r] = asked]
      /\ UNCHANGED <<documents, trail, changed, clashed>>
  BY DEF Ask, Fresh
<1>3. asked \in [kind : Kinds \cup {"none"}, id : {<<>>} \cup (Contents \X Nat),
                 step : {"none", "new", "fallback", "audit", "done", "failed"}]
  OBVIOUS
<1>4. asked.kind = kind /\ asked.id = id /\ asked.step = "new"  OBVIOUS
<1> HIDE DEF asked
<1>5. SourceTyped'  BY <1>1, <1>2, <1>3 DEF SourceTyped
<1>6. \A q \in Requests : q # r => requests'[q] = requests[q]  BY <1>1, <1>2 DEF SourceTyped
<1>7. requests'[r] = asked  BY <1>1, <1>2 DEF SourceTyped
<1>8. \A q \in Requests : Pending(q)' <=> Pending(q)  BY <1>2, <1>4, <1>6, <1>7 DEF Pending
<1>9. \A d \in Ids : <<r, d>> \notin changed  BY <1>1, <1>2 DEF RequestsInOrder
<1>10. \A q \in Requests : Pending(q) => q # r  BY <1>2 DEF Pending
<1>11. RequestsInOrder'
  <2>1. ASSUME NEW q \in Requests
        PROVE  /\ requests'[q].step # "none" =>
                    requests'[q].kind # "none" /\ requests'[q].id \in Contents \X Nat
               /\ requests'[q].step = "fallback" => requests'[q].kind = "submit"
               /\ requests'[q].kind = "submit" /\ requests'[q].step = "new" =>
                    \E c \in Contents : requests'[q].id = Ghost(c)
               /\ Pending(q)' /\ requests'[q].id \in Ids => <<q, requests'[q].id>> \in changed'
               /\ \A d \in Ids : <<q, d>> \in changed' => requests'[q].step # "none"
    <3>1. CASE q # r  BY <1>1, <1>2, <1>6, <1>8, <3>1 DEF RequestsInOrder
    <3>2. CASE q = r  BY <1>2, <1>4, <1>7, <1>8, <1>9, <1>10, <3>2 DEF Kinds
    <3>3. QED  BY <3>1, <3>2
  <2>2. ASSUME NEW p \in Requests, NEW q \in Requests, Pending(p)', Pending(q)',
               requests'[p].id = requests'[q].id, p # q, requests'[p].id \in Ids
        PROVE  requests'[p].id \in clashed'
    <3>1. p # r /\ q # r /\ Pending(p) /\ Pending(q)  BY <1>8, <1>10, <2>2
    <3>2. requests'[p] = requests[p] /\ requests'[q] = requests[q]  BY <1>6, <3>1
    <3>3. QED  BY <1>1, <1>2, <2>2, <3>1, <3>2 DEF RequestsInOrder
  <2>3. QED  BY <2>1, <2>2 DEF RequestsInOrder, Ghost
<1>12. TrailFollows'
  <2> SUFFICES ASSUME NEW d \in Ids, documents[d] # "absent", d \notin clashed, ~Astray(d)'
               PROVE  \/ \E q \in Requests : /\ Pending(q)' /\ requests'[q].id = d
                                             /\ Tells(d, requests[q].kind)
                                             /\ requests'[q].kind = requests[q].kind
                      \/ ~InFlight(d)' /\ trail[d] # "none" /\ Tells(d, trail[d])
    BY <1>2 DEF TrailFollows, Tells, Status
  <2>1. ~Astray(d)  BY <1>2, <1>6, <1>9 DEF Astray
  <2>2. CASE \E q \in Requests : Pending(q) /\ requests[q].id = d /\ Tells(d, requests[q].kind)
    BY <1>6, <1>8, <1>10, <2>2
  <2>3. CASE ~InFlight(d) /\ trail[d] # "none" /\ Tells(d, trail[d])
    <3>1. ~InFlight(d)'  BY <1>6, <1>8, <1>10, <2>3 DEF InFlight, Pending
    <3>2. QED  BY <2>3, <3>1
  <2>4. QED  BY <1>1, <2>1, <2>2, <2>3 DEF TrailFollows
<1>13. QED  BY <1>5, <1>11, <1>12 DEF SourceInv

(* A request changes a document, or a copy beyond the bound, and is then   *)
(* pending or has failed; a pending one leaves the document as it says.    *)
LEMMA ChangeKeeps ==
  ASSUME SourceInv, NEW r \in Requests, NEW d \in Contents \X Nat,
         NEW v \in Validities \cup {"revoked"}, NEW s \in {"fallback", "audit", "failed"},
         requests[r].step \in {"new", "fallback"},
         s # "failed" => (v = "revoked" <=> requests[r].kind = "revoke"),
         s = "fallback" => requests[r].kind = "submit",
         Change(r, d, v, s), UNCHANGED trail
  PROVE  SourceInv'
<1>1. SourceTyped /\ RequestsInOrder /\ TrailFollows  BY DEF SourceInv
<1> DEFINE Record == [kind : Kinds \cup {"none"}, id : {<<>>} \cup (Contents \X Nat),
                      step : {"none", "new", "fallback", "audit", "done", "failed"}]
           next == [requests[r] EXCEPT !.id = d, !.step = s]
<1>2. /\ documents' = [documents EXCEPT ![d] = v]
      /\ requests' = [requests EXCEPT ![r] = next]
      /\ changed' = changed \cup {<<r, d>>}
      /\ InFlight(d) => d \in clashed'
      /\ clashed \subseteq clashed'
      /\ UNCHANGED trail
  BY DEF Change
<1>3. requests \in [Requests -> Record] /\ requests[r] \in Record  BY <1>1 DEF SourceTyped
<1>4. next \in Record /\ next.kind = requests[r].kind /\ next.id = d /\ next.step = s
  BY <1>3
<1> HIDE DEF next
<1>5. SourceTyped'
  <2>1. requests' \in [Requests -> Record]  BY <1>2, <1>3, <1>4
  <2>2. QED  BY <1>1, <1>2, <2>1 DEF SourceTyped, Validities
<1>6. \A q \in Requests : q # r => requests'[q] = requests[q]  BY <1>2, <1>3
<1>7. requests'[r] = next  BY <1>2, <1>3
<1>8. \A q \in Requests : q # r => (Pending(q)' <=> Pending(q))  BY <1>6 DEF Pending
<1>9. \A q \in Requests, e \in Ids :
        <<q, e>> \in changed' => <<q, e>> \in changed \/ (q = r /\ e = d)
  BY <1>2
<1>10. RequestsInOrder'
  <2>1. ASSUME NEW q \in Requests
        PROVE  /\ requests'[q].step # "none" =>
                    requests'[q].kind # "none" /\ requests'[q].id \in Contents \X Nat
               /\ requests'[q].step = "fallback" => requests'[q].kind = "submit"
               /\ requests'[q].kind = "submit" /\ requests'[q].step = "new" =>
                    \E c \in Contents : requests'[q].id = Ghost(c)
               /\ Pending(q)' /\ requests'[q].id \in Ids => <<q, requests'[q].id>> \in changed'
               /\ \A e \in Ids : <<q, e>> \in changed' => requests'[q].step # "none"
    <3>1. CASE q # r  BY <1>1, <1>2, <1>6, <1>8, <1>9, <3>1 DEF RequestsInOrder
    <3>2. CASE q = r
      <4>1. requests[r].kind # "none"  BY <1>1 DEF RequestsInOrder
      <4>2. s = "fallback" => requests[r].kind = "submit"  OBVIOUS
      <4>3. QED  BY <1>2, <1>4, <1>7, <3>2, <4>1, <4>2
    <3>3. QED  BY <3>1, <3>2
  <2>2. ASSUME NEW p \in Requests, NEW q \in Requests, Pending(p)', Pending(q)',
               requests'[p].id = requests'[q].id, p # q, requests'[p].id \in Ids
        PROVE  requests'[p].id \in clashed'
    <3>1. CASE p # r /\ q # r
      <4>1. Pending(p) /\ Pending(q)  BY <1>8, <2>2, <3>1
      <4>2. requests'[p] = requests[p] /\ requests'[q] = requests[q]  BY <1>6, <3>1
      <4>3. QED  BY <1>1, <1>2, <2>2, <4>1, <4>2 DEF RequestsInOrder
    <3>2. ASSUME NEW o \in Requests, o # r, Pending(o)', requests'[o].id = d
          PROVE  d \in clashed'
      <4>1. InFlight(d)  BY <1>6, <1>8, <3>2 DEF InFlight, Pending
      <4>2. QED  BY <1>2, <4>1
    <3>3. QED  BY <1>4, <1>7, <2>2, <3>1, <3>2
  <2>3. QED  BY <2>1, <2>2 DEF RequestsInOrder, Ghost
<1>11. ASSUME NEW e \in Ids, documents'[e] # "absent", e \notin clashed', ~Astray(e)', e # d
       PROVE  \/ \E q \in Requests : /\ Pending(q)' /\ requests'[q].id = e
                                     /\ Tells(e, requests[q].kind)'
              \/ ~InFlight(e)' /\ trail[e] # "none" /\ Tells(e, trail[e])'
  <2>1. documents'[e] = documents[e]  BY <1>1, <1>2, <1>11 DEF SourceTyped
  <2>2. \A kind : Tells(e, kind)' <=> Tells(e, kind)  BY <2>1 DEF Tells, Status
  <2>3. <<r, e>> \notin changed  BY <1>2, <1>4, <1>7, <1>11 DEF Astray
  <2>4. ~Astray(e)
    <3>1. SUFFICES ASSUME NEW q \in Requests, <<q, e>> \in changed,
                          requests[q].step = "failed" \/ requests[q].id # e
                   PROVE  FALSE
      BY DEF Astray
    <3>2. q # r  BY <2>3, <3>1
    <3>3. requests'[q] = requests[q] /\ <<q, e>> \in changed'  BY <1>2, <1>6, <3>1, <3>2
    <3>4. QED  BY <1>11, <3>1, <3>3 DEF Astray
  <2>5. \A q \in Requests : Pending(q) /\ requests[q].id = e => q # r
    BY <1>1, <2>3 DEF RequestsInOrder
  <2>6. CASE \E q \in Requests : Pending(q) /\ requests[q].id = e /\ Tells(e, requests[q].kind)
    <3>1. PICK q \in Requests : Pending(q) /\ requests[q].id = e /\ Tells(e, requests[q].kind)
      BY <2>6
    <3>2. requests'[q] = requests[q] /\ Pending(q)'  BY <1>6, <1>8, <2>5, <3>1
    <3>3. QED  BY <2>2, <3>1, <3>2
  <2>7. CASE ~InFlight(e) /\ trail[e] # "none" /\ Tells(e, trail[e])
    <3>1. ~InFlight(e)'  BY <1>4, <1>6, <1>7, <1>11, <2>7 DEF InFlight
    <3>2. QED  BY <2>2, <2>7, <3>1
  <2>8. e \notin clashed  BY <1>2, <1>11
  <2>9. QED  BY <1>1, <1>11, <2>1, <2>4, <2>6, <2>7, <2>8 DEF TrailFollows
<1>12. ASSUME d \in Ids, d \notin clashed', ~Astray(d)'
       PROVE  Pending(r)' /\ requests'[r].id = d /\ Tells(d, requests[r].kind)'
  <2>1. <<r, d>> \in changed' /\ s # "failed"  BY <1>2, <1>4, <1>7, <1>12 DEF Astray
  <2>2. Pending(r)'  BY <1>4, <1>7, <2>1 DEF Pending
  <2>3. documents'[d] = v  BY <1>1, <1>2, <1>12 DEF SourceTyped
  <2>4. Tells(d, requests[r].kind)'  BY <1>4, <1>7, <2>1, <2>3 DEF Tells, Status, Validities
  <2>5. QED  BY <1>4, <1>7, <2>2, <2>4
<1>13. TrailFollows'
  <2> SUFFICES ASSUME NEW e \in Ids, documents'[e] # "absent", e \notin clashed', ~Astray(e)'
               PROVE  \/ \E q \in Requests : /\ Pending(q)' /\ requests'[q].id = e
                                             /\ Tells(e, requests[q].kind)'
                      \/ ~InFlight(e)' /\ trail[e] # "none" /\ Tells(e, trail[e])'
    BY <1>2 DEF TrailFollows
  <2>1. CASE e # d  BY <1>11, <2>1
  <2>2. CASE e = d
    <3>1. d \in Ids /\ d \notin clashed' /\ ~Astray(d)'  BY <2>2
    <3>2. Pending(r)' /\ requests'[r].id = d /\ Tells(d, requests[r].kind)'  BY <1>12, <3>1
    <3>3. QED  BY <2>2, <3>2
  <2>3. QED  BY <2>1, <2>2
<1>14. QED  BY <1>5, <1>10, <1>13 DEF SourceInv

(* A request goes on without a change: it waits for an id under which      *)
(* nothing is stored, its event is appended, or it fails.                  *)
LEMMA AnswerKeeps ==
  ASSUME SourceInv, NEW r \in Requests, NEW s \in {"fallback", "audit", "done", "failed"},
         requests[r].step \in {"new", "fallback", "audit"}, Answer(r, s),
         s \in {"fallback", "audit"} => requests[r].kind = "submit" /\ requests[r].step = "new",
         IF s = "done"
         THEN /\ requests[r].step = "audit"
              /\ trail' = [trail EXCEPT ![requests[r].id] = requests[r].kind]
         ELSE UNCHANGED trail
  PROVE  SourceInv'
<1>1. SourceTyped /\ RequestsInOrder /\ TrailFollows  BY DEF SourceInv
<1> DEFINE Record == [kind : Kinds \cup {"none"}, id : {<<>>} \cup (Contents \X Nat),
                      step : {"none", "new", "fallback", "audit", "done", "failed"}]
           next == [requests[r] EXCEPT !.step = s]
<1>2. /\ requests' = [requests EXCEPT ![r] = next]
      /\ UNCHANGED <<documents, changed, clashed>>
  BY DEF Answer
<1>3. requests \in [Requests -> Record] /\ requests[r] \in Record  BY <1>1 DEF SourceTyped
<1>4. /\ next \in Record /\ next.kind = requests[r].kind /\ next.id = requests[r].id
      /\ next.step = s
  BY <1>3
<1> HIDE DEF next
<1>5. requests[r].kind \in Kinds  BY <1>1, <1>3 DEF RequestsInOrder
<1>6. SourceTyped'
  <2>1. requests' \in [Requests -> Record]  BY <1>2, <1>3, <1>4
  <2>2. trail' \in [Ids \cup {Ghost(c) : c \in Contents} -> Kinds \cup {"none"}]
    <3>1. CASE s = "done"  BY <1>1, <1>5, <3>1 DEF SourceTyped
    <3>2. CASE s # "done"  BY <1>1, <3>2 DEF SourceTyped
    <3>3. QED  BY <3>1, <3>2
  <2>3. QED  BY <1>1, <1>2, <2>1, <2>2 DEF SourceTyped
<1>7. \A q \in Requests : q # r => requests'[q] = requests[q]  BY <1>2, <1>3
<1>8. requests'[r] = next  BY <1>2, <1>3
<1>9. \A q \in Requests : requests'[q].id = requests[q].id /\ requests'[q].kind = requests[q].kind
  BY <1>4, <1>7, <1>8
<1>10. ASSUME NEW q \in Requests, Pending(q)', requests[q].id \in Ids PROVE Pending(q) /\ q # r
  <2>1. CASE q # r  BY <1>7, <1>10, <2>1 DEF Pending
  <2>2. CASE q = r
    <3>1. s \in {"fallback", "audit"}  BY <1>4, <1>8, <1>10, <2>2 DEF Pending
    <3>2. PICK c \in Contents : requests[r].id = Ghost(c)  BY <1>1, <3>1 DEF RequestsInOrder
    <3>3. QED  BY <1>10, <2>2, <3>2, GhostsAreNoIds
  <2>3. QED  BY <2>1, <2>2
<1>11. \A d \in Ids : InFlight(d)' => InFlight(d)
  BY <1>9, <1>10 DEF InFlight, Pending
<1>12. RequestsInOrder'
  <2>1. ASSUME NEW q \in Requests
        PROVE  /\ requests'[q].step # "none" =>
                    requests'[q].kind # "none" /\ requests'[q].id \in Contents \X Nat
               /\ requests'[q].step = "fallback" => requests'[q].kind = "submit"
               /\ requests'[q].kind = "submit" /\ requests'[q].step = "new" =>
                    \E c \in Contents : requests'[q].id = Ghost(c)
               /\ Pending(q)' /\ requests'[q].id \in Ids => <<q, requests'[q].id>> \in changed'
               /\ \A d \in Ids : <<q, d>> \in changed' => requests'[q].step # "none"
    <3>1. Pending(q)' /\ requests'[q].id \in Ids => <<q, requests'[q].id>> \in changed'
      BY <1>1, <1>2, <1>9, <1>10 DEF RequestsInOrder
    <3>2. CASE q # r  BY <1>1, <1>2, <1>7, <3>1, <3>2 DEF RequestsInOrder
    <3>3. CASE q = r
      <4>1. requests[r].id \in Contents \X Nat  BY <1>1 DEF RequestsInOrder
      <4>2. \A d \in Ids : <<r, d>> \in changed' => requests'[r].step # "none"
        BY <1>4, <1>8
      <4>3. requests'[r].step # "new"  BY <1>4, <1>8
      <4>4. requests'[r].step = "fallback" => requests'[r].kind = "submit"  BY <1>4, <1>8
      <4>5. requests'[r].kind # "none" /\ requests'[r].id \in Contents \X Nat
        BY <1>4, <1>5, <1>8, <4>1 DEF Kinds
      <4>6. QED  BY <3>1, <3>3, <4>2, <4>3, <4>4, <4>5
    <3>4. QED  BY <3>2, <3>3
  <2>2. ASSUME NEW p \in Requests, NEW q \in Requests, Pending(p)', Pending(q)',
               requests'[p].id = requests'[q].id, p # q, requests'[p].id \in Ids
        PROVE  requests'[p].id \in clashed'
    <3>1. Pending(p) /\ Pending(q)  BY <1>9, <1>10, <2>2
    <3>2. QED  BY <1>1, <1>2, <1>9, <2>2, <3>1 DEF RequestsInOrder
  <2>3. QED  BY <2>1, <2>2 DEF RequestsInOrder, Ghost
<1>13. TrailFollows'
  <2> SUFFICES ASSUME NEW d \in Ids, documents[d] # "absent", d \notin clashed, ~Astray(d)'
               PROVE  \/ \E q \in Requests : /\ Pending(q)' /\ requests'[q].id = d
                                             /\ requests'[q].kind = requests[q].kind
                                             /\ Tells(d, requests[q].kind)
                      \/ ~InFlight(d)' /\ trail'[d] # "none" /\ Tells(d, trail'[d])
    BY <1>2 DEF TrailFollows, Tells, Status
  <2>1. ~Astray(d)
    <3>1. SUFFICES ASSUME NEW q \in Requests, <<q, d>> \in changed,
                          requests[q].step = "failed" \/ requests[q].id # d
                   PROVE  FALSE
      BY DEF Astray
    <3>2. requests'[q].step = "failed" \/ requests'[q].id # d  BY <1>7, <1>9, <3>1
    <3>3. QED  BY <1>2, <3>1, <3>2 DEF Astray
  <2>2. CASE \E q \in Requests : Pending(q) /\ requests[q].id = d /\ Tells(d, requests[q].kind)
    <3>1. PICK q \in Requests : Pending(q) /\ requests[q].id = d /\ Tells(d, requests[q].kind)
      BY <2>2
    <3>2. CASE q # r
      <4>1. Pending(q)' /\ requests'[q] = requests[q]  BY <1>7, <3>1, <3>2 DEF Pending
      <4>2. QED  BY <3>1, <4>1
    <3>3. CASE q = r
      <4>1. <<r, d>> \in changed  BY <1>1, <3>1, <3>3 DEF RequestsInOrder
      <4>2. s # "failed"  BY <1>2, <1>4, <1>8, <4>1 DEF Astray
      <4>3. s \notin {"fallback", "audit"}  BY <3>1, <3>3 DEF Pending
      <4>4. trail'[d] = requests[r].kind  BY <1>1, <3>1, <3>3, <4>2, <4>3 DEF SourceTyped
      <4>5. ASSUME NEW p \in Requests, Pending(p)', requests[p].id = d PROVE FALSE
        <5>1. Pending(p) /\ p # r  BY <1>10, <4>5
        <5>2. QED  BY <1>1, <3>1, <3>3, <4>5, <5>1 DEF RequestsInOrder
      <4>6. ~InFlight(d)'  BY <1>9, <4>5 DEF InFlight, Pending
      <4>7. trail'[d] # "none"  BY <1>5, <4>4 DEF Kinds
      <4>8. QED  BY <3>1, <3>3, <4>4, <4>6, <4>7
    <3>4. QED  BY <3>2, <3>3
  <2>3. CASE ~InFlight(d) /\ trail[d] # "none" /\ Tells(d, trail[d])
    <3>1. ~InFlight(d)'  BY <1>11, <2>3
    <3>2. s = "done" => requests[r].id # d  BY <2>3 DEF InFlight
    <3>3. trail'[d] = trail[d]  BY <1>1, <3>2 DEF SourceTyped
    <3>4. QED  BY <2>3, <3>1, <3>3
  <2>4. QED  BY <1>1, <2>1, <2>2, <2>3 DEF TrailFollows
<1>14. QED  BY <1>6, <1>12, <1>13 DEF SourceInv

(* A document that ran out is told of as withdrawn, whatever was recorded. *)
LEMMA ExpiryKeeps == SourceInv /\ SourceExpires => SourceInv'
<1> SUFFICES ASSUME SourceInv, SourceExpires PROVE SourceInv'  OBVIOUS
<1>1. SourceTyped /\ RequestsInOrder /\ TrailFollows  BY DEF SourceInv
<1>2. PICK d \in Ids : documents[d] = "until" /\ documents' = [documents EXCEPT ![d] = "expired"]
  BY DEF SourceExpires
<1>3. UNCHANGED <<trail, changed, clashed, requests>>  BY DEF SourceExpires
<1>4. SourceTyped'  BY <1>1, <1>2, <1>3 DEF SourceTyped
<1>5. RequestsInOrder'  BY <1>1, <1>3 DEF RequestsInOrder, Pending
<1>6. documents'[d] = "expired" /\ \A e \in Ids : e # d => documents'[e] = documents[e]
  BY <1>1, <1>2 DEF SourceTyped
<1>7. ASSUME NEW e \in Ids, NEW kind, Tells(e, kind)
      PROVE  Status(e)' = "REVOKED" <=> kind = "revoke" \/ documents'[e] = "expired"
  BY <1>6, <1>7 DEF Tells, Status
<1>8. TrailFollows'
  <2> SUFFICES ASSUME NEW e \in Ids, documents'[e] # "absent", e \notin clashed, ~Astray(e)
               PROVE  \/ \E q \in Requests : /\ Pending(q) /\ requests[q].id = e
                                             /\ Tells(e, requests[q].kind)
                      \/ ~InFlight(e) /\ trail[e] # "none" /\ Tells(e, trail[e])
    BY <1>3, <1>7 DEF TrailFollows, Tells, Astray, Pending, InFlight
  <2>1. documents[e] # "absent"  BY <1>2, <1>6
  <2>2. QED  BY <1>1, <2>1 DEF TrailFollows
<1>9. QED  BY <1>4, <1>5, <1>8 DEF SourceInv

LEMMA SourceSteps == SourceInv /\ [SourceNext]_sourceVars => SourceInv'
<1> SUFFICES ASSUME SourceInv, [SourceNext]_sourceVars PROVE SourceInv'  OBVIOUS
<1>1. SourceTyped /\ RequestsInOrder  BY DEF SourceInv
<1>2. CASE UNCHANGED sourceVars
  <2>1. UNCHANGED <<documents, trail, requests, changed, clashed>>  BY <1>2 DEF sourceVars
  <2>2. SourceTyped'  BY <1>1, <2>1 DEF SourceTyped
  <2>3. RequestsInOrder'  BY <1>1, <2>1 DEF RequestsInOrder, Pending
  <2>4. TrailFollows'
    BY <2>1 DEF SourceInv, TrailFollows, Pending, Astray, InFlight, Tells, Status
  <2>5. QED  BY <2>2, <2>3, <2>4 DEF SourceInv
<1>3. ASSUME NEW r \in Requests, EngineIngests(r) \/ EngineSilent(r) \/ InsertFallback(r)
      PROVE  SourceInv'
  <2> DEFINE c == requests[r].id[1]
  <2>1. /\ requests[r].step \in {"new", "fallback"} /\ requests[r].kind = "submit"
        /\ UNCHANGED trail
    BY <1>1, <1>3 DEF EngineIngests, EngineSilent, InsertFallback, RequestsInOrder
  <2>2. c \in Contents  BY <1>1, <2>1 DEF RequestsInOrder
  <2>3. NextCopy(c) \in Contents \X Nat  BY <1>1, <2>2, NextCopyTyped
  <2>4. \/ \E v \in Validities, s \in {"fallback", "audit", "failed"} : Change(r, NextCopy(c), v, s)
        \/ \E s \in {"fallback", "audit", "failed"} : requests[r].step = "new" /\ Answer(r, s)
    BY <1>3 DEF EngineIngests, EngineSilent, InsertFallback
  <2> HIDE DEF c
  <2>5. ASSUME NEW v \in Validities, NEW s \in {"fallback", "audit", "failed"},
               Change(r, NextCopy(c), v, s)
        PROVE  SourceInv'
    <3>1. v \in Validities \cup {"revoked"} /\ v # "revoked"  BY DEF Validities
    <3>2. QED  BY <2>1, <2>3, <2>5, <3>1, ChangeKeeps
  <2>6. ASSUME NEW s \in {"fallback", "audit", "failed"}, requests[r].step = "new", Answer(r, s)
        PROVE  SourceInv'
    BY <2>1, <2>6, AnswerKeeps
  <2>7. QED  BY <2>4, <2>5, <2>6
<1>4. ASSUME NEW r \in Requests, UpdateSource(r) PROVE SourceInv'
  <2> DEFINE d == requests[r].id
  <2>1. requests[r].step = "new" /\ UNCHANGED trail  BY <1>4 DEF UpdateSource
  <2>2. d \in Contents \X Nat  BY <1>1, <2>1 DEF RequestsInOrder
  <2>3. \E v \in {"active", "revoked"} :
          Change(r, d, v, "audit") /\ (v = "revoked" <=> requests[r].kind = "revoke")
    BY <1>4 DEF UpdateSource
  <2> HIDE DEF d
  <2>4. PICK v \in {"active", "revoked"} :
          Change(r, d, v, "audit") /\ (v = "revoked" <=> requests[r].kind = "revoke")
    BY <2>3
  <2>5. v \in Validities \cup {"revoked"}  BY DEF Validities
  <2>6. QED  BY <2>1, <2>2, <2>4, <2>5, ChangeKeeps
<1>5. ASSUME NEW r \in Requests, AuditSource(r) PROVE SourceInv'
  BY <1>5, AnswerKeeps DEF AuditSource
<1>6. ASSUME NEW r \in Requests, RequestFails(r) PROVE SourceInv'
  BY <1>6, AnswerKeeps DEF RequestFails
<1>7. ASSUME NEW r \in Requests, SubmitSource(r) \/ RevokeSource(r) \/ Reingest(r)
      PROVE  SourceInv'
  <2>1. CASE SubmitSource(r)
    <3>1. PICK c \in Contents : Ask(r, "submit", Ghost(c))  BY <2>1 DEF SubmitSource
    <3>2. Ghost(c) \in Contents \X Nat  BY GhostsAreNoIds
    <3>3. QED  BY <3>1, <3>2, AskKeeps DEF Kinds
  <2>2. CASE RevokeSource(r) \/ Reingest(r)
    <3>1. PICK d \in Ids : \E kind \in {"revoke", "reingest"} : Ask(r, kind, d)
      BY <2>2 DEF RevokeSource, Reingest
    <3>2. d \in Contents \X Nat  BY SourceAssumption DEF Ids
    <3>3. QED  BY <3>1, <3>2, AskKeeps DEF Kinds
  <2>3. QED  BY <1>7, <2>1, <2>2
<1>8. CASE SourceExpires  BY <1>8, ExpiryKeeps
<1>9. CASE SourceNext
  <2>1. CASE \E r \in Requests :
               \/ SubmitSource(r) \/ RevokeSource(r) \/ Reingest(r)
               \/ EngineIngests(r) \/ EngineSilent(r) \/ InsertFallback(r)
               \/ UpdateSource(r) \/ AuditSource(r) \/ RequestFails(r)
    BY <1>3, <1>4, <1>5, <1>6, <1>7, <2>1
  <2>2. QED  BY <1>8, <1>9, <2>1 DEF SourceNext
<1>10. QED  BY <1>2, <1>9

(* A document that is at rest is listed as the audit chain tells of it:    *)
(* there is an event about it, and it is withdrawn if and only if the      *)
(* latest event is its revocation or its validity ran out; unless a        *)
(* request about it failed, it was stored unheard, or two changes of it    *)
(* overlapped (adminOracle.ts:362-369, 416-423).                           *)
THEOREM ListingsFollowTheTrail == SourceSpec => []StatusFollowsTrail
<1>1. SourceInv => StatusFollowsTrail
  <2> SUFFICES ASSUME SourceInv, NEW d \in Ids, documents[d] # "absent", ~InFlight(d),
                      d \notin clashed, ~Astray(d)
               PROVE  trail[d] # "none" /\ Tells(d, trail[d])
    BY DEF StatusFollowsTrail, Astray, Tells
  <2>1. ~ \E r \in Requests : Pending(r) /\ requests[r].id = d  BY DEF Pending, InFlight
  <2>2. QED  BY <2>1 DEF SourceInv, TrailFollows
<1>2. QED  BY <1>1, SourceStarts, SourceSteps, PTL DEF SourceSpec

(* Documents and requests are in one of their states.                      *)
THEOREM SourcesTyped == SourceSpec => []SourceTypeOK
<1>1. SourceInv => SourceTypeOK
  BY DEF SourceInv, SourceTyped, SourceTypeOK
<1>2. QED  BY <1>1, SourceStarts, SourceSteps, PTL DEF SourceSpec

-------------------------------------------------------------------------------
(* BeliefCycles.  The rows a signal has caused are finitely many.          *)
LEMMA CausedFinite ==
  CyclesTyped => \A s : IsFiniteSet(Caused(s)) /\ Cardinality(Caused(s)) \in Nat
<1> SUFFICES ASSUME CyclesTyped, NEW s PROVE IsFiniteSet(Caused(s)) /\ Cardinality(Caused(s)) \in Nat
  OBVIOUS
<1>1. Len(beliefs) \in Nat /\ DOMAIN beliefs = 1 .. Len(beliefs)
  BY LenProperties DEF CyclesTyped
<1>2. IsFiniteSet(1 .. Len(beliefs))
  <2>1. 1 \in Int /\ Len(beliefs) \in Int  BY <1>1
  <2>2. QED  BY <2>1, FS_Interval, Zenon
<1>3. Caused(s) \subseteq 1 .. Len(beliefs)  BY <1>1 DEF Caused
<1>4. IsFiniteSet(Caused(s))  BY <1>2, <1>3, FS_Subset
<1>5. QED  BY <1>4, FS_CardinalityType

LEMMA IdleIsTyped == \A last \in Nat : Idle \in Cycle(0, last) /\ Idle.prior = 0
<1>1. 0 \in 0 .. MaxTicks /\ 0 \in 0 .. Scale  BY BeliefAssumption
<1>2. <<>> \in Seq(Range(Believers))  OBVIOUS
<1>3. QED  BY <1>1, <1>2 DEF Idle, Cycle, Stages

LEMMA BeliefsStart == BeliefInit => BeliefInv
<1> SUFFICES ASSUME BeliefInit PROVE BeliefInv  OBVIOUS
<1>1. /\ cycles = [w \in Workers |-> Idle] /\ beliefs = <<>> /\ signals = 0 /\ anchors = 0
      /\ broadcasts = [j \in 1 .. MaxTicks |->
                         [status |-> "none", stalls |-> 0, report |-> NoReport]]
  BY DEF BeliefInit
<1>2. NoReport \in [signal : Nat, updated : Nat]  BY DEF NoReport
<1>3. [status |-> "none", stalls |-> 0, report |-> NoReport] \in Jobs  BY <1>2 DEF Jobs
<1>4. \A w \in Workers : cycles[w] = Idle  BY <1>1
<1>5. Idle.stage = "idle" /\ Idle.signal = MockSignal /\ Idle.updated = 0
  BY DEF Idle, MockSignal
<1>6. CyclesTyped  BY <1>1, <1>3, <1>4, <1>5, IdleIsTyped DEF CyclesTyped
<1>7. \A s : Caused(s) = {}  BY <1>1 DEF Caused
<1>8. RunsAlone  BY <1>1, <1>4, <1>5 DEF RunsAlone
<1>9. SignalsMoveOnce
  <2>1. \A w \in Workers : YetToWrite(cycles[w])
    BY <1>4, <1>5, <1>6, <1>7, CausedFinite DEF YetToWrite
  <2>2. QED  BY <1>1, <1>4, <1>5, <2>1 DEF SignalsMoveOnce
<1>10. ReportedUpdatesStored  BY <1>1, <1>7 DEF ReportedUpdatesStored
<1>11. QED  BY <1>6, <1>8, <1>9, <1>10 DEF BeliefInv

(* A report r of a job is backed by the rows of its signal.                *)
Backed(r) == /\ r.updated <= Cardinality(Caused(r.signal))
             /\ production => r.signal \in 1 .. signals

(* A worker's cycle becomes c and writes no row: its signal stays, is the  *)
(* mock's, or is new; and a job that has ended in it reports what it may.  *)
LEMMA CycleMoves ==
  ASSUME BeliefInv, NEW w \in Workers, NEW c, c \in Cycle(c.prior, signals'),
         cycles' = [cycles EXCEPT ![w] = c],
         UNCHANGED <<beliefs, production>>,
         ~overlapped' => ~overlapped /\ \A v \in Workers \ {w} : cycles[v].stage = "idle",
         signals' \in {signals, signals + 1},
         \/ c.signal \in {MockSignal, cycles[w].signal}
         \/ c.signal = signals + 1 /\ signals' = signals + 1,
         anchors' \in {anchors, anchors + 1},
         anchors' = anchors \/ cycles[w].stage = "create_anchor",
         c.stage = "create_anchor" => anchors' = 0,
         c.stage = "write" => c.todo # <<>> /\ c.prior = LastBelief(Head(c.todo)),
         YetToWrite(c),
         production /\ c.stage \notin {"idle", "fetch", "persist"} => c.signal # MockSignal,
         broadcasts' \in [1 .. MaxTicks -> Jobs],
         \A j \in 1 .. MaxTicks : broadcasts'[j].status = "completed" =>
           \/ broadcasts[j].status = "completed" /\ broadcasts'[j].report = broadcasts[j].report
           \/ Backed(broadcasts'[j].report)
  PROVE  BeliefInv'
<1>1. CyclesTyped /\ RunsAlone /\ SignalsMoveOnce /\ ReportedUpdatesStored  BY DEF BeliefInv
<1>2. signals \in Nat /\ anchors \in Nat /\ signals' \in Nat /\ anchors' \in Nat
  BY <1>1 DEF CyclesTyped
<1>3. cycles'[w] = c /\ \A v \in Workers : v # w => cycles'[v] = cycles[v]
  BY <1>1 DEF CyclesTyped
<1>4. CyclesTyped'
  <2>1. cycles' = [v \in Workers |-> cycles'[v]]  BY <1>1 DEF CyclesTyped
  <2>2. \A v \in Workers : cycles'[v] \in Cycle(cycles'[v].prior, signals')
    <3>1. 0 .. signals \subseteq 0 .. signals'  BY <1>2
    <3>2. QED  BY <1>1, <1>3, <3>1 DEF CyclesTyped, Cycle
  <2>3. beliefs' \in Seq({beliefs'[i] : i \in DOMAIN beliefs'})  BY <1>1 DEF CyclesTyped
  <2>4. \A v \in Workers : cycles'[v].stage = "write" => cycles'[v].todo # <<>>
    BY <1>1, <1>3 DEF CyclesTyped
  <2>5. QED  BY <1>2, <2>1, <2>2, <2>3, <2>4 DEF CyclesTyped
<1>5. \A s : Caused(s)' = Caused(s)  BY DEF Caused
<1>6. \A s : s \notin 1 .. signals => Caused(s) = {}
  BY <1>1 DEF SignalsMoveOnce, Caused
<1>7. RunsAlone'
  <2> SUFFICES ASSUME ~overlapped' PROVE RunsAlone'  BY DEF RunsAlone
  <2>1. \A v \in Workers : v # w => cycles'[v].stage = "idle"  BY <1>3
  <2>2. anchors' <= 1  BY <1>1, <1>2 DEF RunsAlone
  <2>3. \A a : LastBelief(a)' = LastBelief(a)  BY DEF LastBelief
  <2>4. \A i \in DOMAIN beliefs' :
          beliefs'[i].before = LastIn(SubSeq(beliefs', 1, i - 1), beliefs'[i].agent)
    BY <1>1 DEF RunsAlone
  <2>5. QED  BY <1>3, <2>1, <2>2, <2>3, <2>4 DEF RunsAlone
<1>8. SignalsMoveOnce'
  <2>1. \A i \in DOMAIN beliefs' : beliefs'[i].signal \in 1 .. signals'
    BY <1>1, <1>2 DEF SignalsMoveOnce
  <2>2. \A v \in Workers : cycles[v].signal \in 0 .. signals  BY <1>1 DEF CyclesTyped, Cycle
  <2>3. \A v \in Workers : v # w /\ cycles[v].signal = c.signal => c.signal = MockSignal
    BY <1>1, <1>2, <2>2 DEF SignalsMoveOnce
  <2>4. \A v, u \in Workers : v # u /\ cycles'[v].signal = cycles'[u].signal =>
          cycles'[v].signal = MockSignal
    BY <1>1, <1>3, <2>3 DEF SignalsMoveOnce
  <2>5. ASSUME NEW v \in Workers PROVE YetToWrite(cycles[v])'
    <3>1. CASE v = w  BY <1>3, <1>5, <3>1 DEF YetToWrite
    <3>2. CASE v # w
      <4>1. YetToWrite(cycles[v])  BY <1>1 DEF SignalsMoveOnce
      <4>2. QED  BY <1>3, <1>5, <3>2, <4>1 DEF YetToWrite
    <3>3. QED  BY <3>1, <3>2
  <2>6. \A v \in Workers : production' /\ cycles'[v].stage \notin {"idle", "fetch", "persist"} =>
          cycles'[v].signal # MockSignal
    BY <1>1, <1>3 DEF SignalsMoveOnce
  <2>7. QED  BY <2>1, <2>4, <2>5, <2>6 DEF SignalsMoveOnce
<1>9. ReportedUpdatesStored'
  <2>1. \A s \in 1 .. signals' : \A i, k \in Caused(s) : beliefs[i].agent = beliefs[k].agent => i = k
    BY <1>1, <1>6 DEF ReportedUpdatesStored
  <2>2. ASSUME NEW j \in 1 .. MaxTicks, broadcasts'[j].status = "completed"
        PROVE  Backed(broadcasts'[j].report)
    BY <1>1, <2>2 DEF ReportedUpdatesStored, Backed
  <2>3. 1 .. signals \subseteq 1 .. signals'  BY <1>2
  <2>4. QED  BY <1>5, <2>1, <2>2, <2>3 DEF ReportedUpdatesStored, Backed
<1>10. QED  BY <1>4, <1>7, <1>8, <1>9 DEF BeliefInv

LEMMA OthersIdle ==
  ASSUME BeliefInv, NEW w \in Workers, cycles[w].stage # "idle", ~overlapped
  PROVE  \A v \in Workers \ {w} : cycles[v].stage = "idle"
BY DEF BeliefInv, RunsAlone

(* A worker's cycle ends, and its job with it or not.                      *)
LEMMA CycleEnds ==
  ASSUME BeliefInv, NEW w \in Workers, cycles[w].stage # "idle",
         cycles' = [cycles EXCEPT ![w] = Idle],
         UNCHANGED <<beliefs, overlapped, production>>,
         signals' \in {signals, signals + 1},
         anchors' \in {anchors, anchors + 1},
         anchors' = anchors \/ cycles[w].stage = "create_anchor",
         broadcasts' \in [1 .. MaxTicks -> Jobs],
         \A j \in 1 .. MaxTicks : broadcasts'[j].status = "completed" =>
           \/ broadcasts[j].status = "completed" /\ broadcasts'[j].report = broadcasts[j].report
           \/ Backed(broadcasts'[j].report)
  PROVE  BeliefInv'
<1>1. signals' \in Nat  BY DEF BeliefInv, CyclesTyped
<1>2. Idle \in Cycle(Idle.prior, signals')  BY <1>1, IdleIsTyped
<1>3. Idle.stage = "idle" /\ Idle.signal = MockSignal /\ Idle.updated = 0
  BY DEF Idle, MockSignal
<1>4. YetToWrite(Idle)  BY <1>3, CausedFinite DEF YetToWrite, BeliefInv
<1>5. ~overlapped' => ~overlapped /\ \A v \in Workers \ {w} : cycles[v].stage = "idle"
  BY OthersIdle
<1> HIDE DEF Idle
<1>6. QED  BY <1>2, <1>3, <1>4, <1>5, CycleMoves

LEMMA JobEnds ==
  ASSUME BeliefInv, NEW w \in Workers, cycles[w].stage # "idle",
         NEW status \in {"completed", "failed"}, NEW report \in [signal : Nat, updated : Nat],
         EndJob(w, status, report), status = "completed" => Backed(report),
         UNCHANGED <<beliefs, overlapped, production>>,
         signals' \in {signals, signals + 1},
         anchors' \in {anchors, anchors + 1},
         anchors' = anchors \/ cycles[w].stage = "create_anchor"
  PROVE  BeliefInv'
<1> DEFINE k == cycles[w].job
           job == [broadcasts[k] EXCEPT !.status = status, !.report = report]
<1>1. broadcasts \in [1 .. MaxTicks -> Jobs]  BY DEF BeliefInv, CyclesTyped
<1>2. /\ broadcasts' = [broadcasts EXCEPT ![k] = job]
      /\ cycles' = [cycles EXCEPT ![w] = Idle]
  BY DEF EndJob
<1>3. k \in 1 .. MaxTicks => job \in Jobs /\ job.status = status /\ job.report = report
  BY <1>1, ZenonT(40) DEF Jobs
<1> HIDE DEF job, k
<1>4. broadcasts' \in [1 .. MaxTicks -> Jobs]  BY <1>1, <1>2, <1>3
<1>5. ASSUME NEW j \in 1 .. MaxTicks, broadcasts'[j].status = "completed"
      PROVE  \/ broadcasts[j].status = "completed" /\ broadcasts'[j].report = broadcasts[j].report
             \/ Backed(broadcasts'[j].report)
  <2>1. CASE j # k  BY <1>1, <1>2, <1>5, <2>1
  <2>2. CASE j = k
    <3>1. broadcasts'[j] = job  BY <1>1, <1>2, <2>2
    <3>2. QED  BY <1>3, <1>5, <2>2, <3>1
  <2>3. QED  BY <2>1, <2>2
<1>6. QED  BY <1>2, <1>4, <1>5, CycleEnds

(* A cycle that fails outside the loop over the agents.                    *)
LEMMA FailureEnds ==
  ASSUME BeliefInv, NEW w \in Workers, cycles[w].stage # "idle",
         FailJob(w) \/ CycleError(w),
         UNCHANGED <<beliefs, overlapped, production>>,
         signals' \in {signals, signals + 1},
         anchors' \in {anchors, anchors + 1},
         anchors' = anchors \/ cycles[w].stage = "create_anchor"
  PROVE  BeliefInv'
<1>1. CASE FailJob(w)
  <2>1. NoReport \in [signal : Nat, updated : Nat]  BY DEF NoReport
  <2>2. EndJob(w, "failed", NoReport)  BY <1>1 DEF FailJob
  <2>3. QED  BY <2>1, <2>2, JobEnds
<1>2. CASE ~production /\ EndJob(w, "completed", [signal |-> cycles[w].signal, updated |-> 0])
  <2> DEFINE report == [signal |-> cycles[w].signal, updated |-> 0]
  <2>1. cycles[w].signal \in Nat  BY DEF BeliefInv, CyclesTyped, Cycle
  <2>2. report \in [signal : Nat, updated : Nat] /\ report.updated = 0  BY <2>1
  <2>3. Backed(report)  BY <1>2, <2>2, CausedFinite DEF Backed, BeliefInv
  <2>4. EndJob(w, "completed", report)  BY <1>2
  <2> HIDE DEF report
  <2>5. QED  BY <2>2, <2>3, <2>4, JobEnds
<1>3. QED  BY <1>1, <1>2 DEF CycleError

(* The scheduler fires, and a worker takes the oldest job.                 *)
LEMMA TickKeeps == BeliefInv /\ ScheduleTick /\ UNCHANGED production => BeliefInv'
<1> SUFFICES ASSUME BeliefInv, ScheduleTick, UNCHANGED production PROVE BeliefInv'  OBVIOUS
<1>1. CyclesTyped /\ RunsAlone /\ SignalsMoveOnce /\ ReportedUpdatesStored  BY DEF BeliefInv
<1>2. UNCHANGED <<cycles, anchors, signals, beliefs, overlapped, production>>
  BY DEF ScheduleTick
<1>3. PICK j \in 1 .. MaxTicks : broadcasts' = [broadcasts EXCEPT ![j].status = "waiting"]
  BY DEF ScheduleTick
<1>4. broadcasts \in [1 .. MaxTicks -> Jobs]  BY <1>1 DEF CyclesTyped
<1>5. broadcasts' \in [1 .. MaxTicks -> Jobs]
  <2>1. [broadcasts[j] EXCEPT !.status = "waiting"] \in Jobs  BY <1>4 DEF Jobs
  <2>2. QED  BY <1>3, <1>4, <2>1
<1>6. \A i \in 1 .. MaxTicks : broadcasts'[i].status = "completed" => broadcasts'[i] = broadcasts[i]
  BY <1>3, <1>4 DEF Jobs
<1>7. CyclesTyped'  BY <1>1, <1>2, <1>5 DEF CyclesTyped
<1>8. RunsAlone'
  <2>1. \A a : LastBelief(a)' = LastBelief(a)  BY <1>2 DEF LastBelief
  <2>2. QED  BY <1>1, <1>2, <2>1 DEF RunsAlone
<1>9. \A s : Caused(s)' = Caused(s)  BY <1>2 DEF Caused
<1>10. SignalsMoveOnce'  BY <1>1, <1>2, <1>9 DEF SignalsMoveOnce, YetToWrite
<1>11. ReportedUpdatesStored'  BY <1>1, <1>2, <1>6, <1>9 DEF ReportedUpdatesStored
<1>12. QED  BY <1>7, <1>8, <1>10, <1>11 DEF BeliefInv

LEMMA TakeKeeps ==
  ASSUME BeliefInv, NEW w \in Workers, TakeJob(w), UNCHANGED production
  PROVE  BeliefInv'
<1>1. PICK j \in 1 .. MaxTicks :
        /\ broadcasts' = [broadcasts EXCEPT ![j].status = "active"]
        /\ cycles' = [cycles EXCEPT ![w] = [Idle EXCEPT !.stage = "fetch", !.job = j]]
  BY DEF TakeJob
<1> DEFINE c == [Idle EXCEPT !.stage = "fetch", !.job = j]
<1>2. signals \in Nat /\ broadcasts \in [1 .. MaxTicks -> Jobs]  BY DEF BeliefInv, CyclesTyped
<1>3. UNCHANGED <<signals, anchors, beliefs>>  BY DEF TakeJob
<1>4. Idle \in Cycle(0, signals)  BY <1>2, IdleIsTyped
<1>5. /\ c \in Cycle(c.prior, signals) /\ c.stage = "fetch" /\ c.signal = MockSignal
      /\ c.updated = 0
  <2>1. Idle.signal = MockSignal /\ Idle.updated = 0  BY DEF Idle, MockSignal
  <2>2. j \in 0 .. MaxTicks  BY BeliefAssumption
  <2>3. c.prior = 0  BY <1>4 DEF Cycle
  <2>4. c \in Cycle(0, signals)  BY <1>4, <2>2 DEF Cycle, Stages
  <2>5. c.stage = "fetch" /\ c.signal = Idle.signal /\ c.updated = Idle.updated
    BY <1>4 DEF Cycle
  <2>6. QED  BY <2>1, <2>3, <2>4, <2>5
<1>6. YetToWrite(c)  BY <1>5, CausedFinite DEF YetToWrite, BeliefInv
<1>7. ~overlapped' => ~overlapped /\ \A v \in Workers \ {w} : cycles[v].stage = "idle"
  BY DEF TakeJob
<1>8. broadcasts' \in [1 .. MaxTicks -> Jobs]
  <2>1. [broadcasts[j] EXCEPT !.status = "active"] \in Jobs  BY <1>2 DEF Jobs
  <2>2. QED  BY <1>1, <1>2, <2>1
<1>9. \A i \in 1 .. MaxTicks : broadcasts'[i].status = "completed" => broadcasts'[i] = broadcasts[i]
  BY <1>1, <1>2 DEF Jobs
<1>10. cycles' = [cycles EXCEPT ![w] = c]  BY <1>1
<1> HIDE DEF c
<1>11. QED  BY <1>3, <1>5, <1>6, <1>7, <1>8, <1>9, <1>10, CycleMoves

(* A running cycle goes on, and its job with it: what CycleMoves needs of  *)
(* the broadcasts and of the other workers.                                *)
LEMMA CycleGoesOn ==
  ASSUME BeliefInv, NEW w \in Workers, cycles[w].stage # "idle",
         NEW c, c \in Cycle(c.prior, signals'), cycles' = [cycles EXCEPT ![w] = c],
         UNCHANGED <<broadcasts, beliefs, overlapped, production>>,
         signals' \in {signals, signals + 1},
         \/ c.signal \in {MockSignal, cycles[w].signal}
         \/ c.signal = signals + 1 /\ signals' = signals + 1,
         anchors' \in {anchors, anchors + 1},
         anchors' = anchors \/ cycles[w].stage = "create_anchor",
         c.stage = "create_anchor" => anchors' = 0,
         c.stage = "write" => c.todo # <<>> /\ c.prior = LastBelief(Head(c.todo)),
         YetToWrite(c),
         production /\ c.stage \notin {"idle", "fetch", "persist"} => c.signal # MockSignal
  PROVE  BeliefInv'
<1>1. broadcasts' \in [1 .. MaxTicks -> Jobs]  BY DEF BeliefInv, CyclesTyped
<1>2. ~overlapped' => ~overlapped /\ \A v \in Workers \ {w} : cycles[v].stage = "idle"
  BY OthersIdle
<1>3. QED  BY <1>1, <1>2, CycleMoves

LEMMA FetchKeeps ==
  ASSUME BeliefInv, NEW w \in Workers, FetchSignal(w), UNCHANGED production
  PROVE  BeliefInv'
<1>1. /\ cycles[w].stage = "fetch"
      /\ UNCHANGED <<anchors, signals, beliefs, overlapped>>
  BY DEF FetchSignal
<1>2. CASE FailJob(w)  BY <1>1, <1>2, FailureEnds
<1>3. ASSUME NEW confidence \in Confidences \cup {Half}, UNCHANGED broadcasts,
             cycles' = [cycles EXCEPT ![w].stage = "persist", ![w].confidence = confidence]
      PROVE  BeliefInv'
  <2> DEFINE c == [cycles[w] EXCEPT !.stage = "persist", !.confidence = confidence]
  <2>1. confidence \in 0 .. Scale  BY BeliefAssumption DEF Half
  <2>2. cycles[w] \in Cycle(cycles[w].prior, signals)  BY DEF BeliefInv, CyclesTyped
  <2>3. /\ c \in Cycle(c.prior, signals) /\ c.stage = "persist" /\ c.signal = cycles[w].signal
        /\ c.updated = cycles[w].updated
    BY <2>1, <2>2 DEF Cycle, Stages
  <2>4. cycles' = [cycles EXCEPT ![w] = c]  BY <1>3
  <2> HIDE DEF c
  <2>5. YetToWrite(cycles[w])  BY DEF BeliefInv, SignalsMoveOnce
  <2>6. YetToWrite(c)  BY <1>1, <2>3, <2>5 DEF YetToWrite
  <2>7. QED  BY <1>1, <1>3, <2>3, <2>4, <2>6, CycleGoesOn
<1>4. QED  BY <1>2, <1>3 DEF FetchSignal

LEMMA PersistKeeps ==
  ASSUME BeliefInv, NEW w \in Workers, PersistSignal(w), UNCHANGED production
  PROVE  BeliefInv'
<1>1. /\ cycles[w].stage = "persist" /\ signals' \in {signals, signals + 1}
      /\ UNCHANGED <<anchors, beliefs, overlapped>>
  BY DEF PersistSignal
<1>2. CASE FailJob(w)  BY <1>1, <1>2, FailureEnds
<1>3. ASSUME NEW signal, UNCHANGED broadcasts,
             \/ signal = MockSignal /\ ~production
             \/ signal = signals + 1 /\ signals' = signals + 1,
             cycles' = [cycles EXCEPT ![w].stage = "load", ![w].signal = signal]
      PROVE  BeliefInv'
  <2> DEFINE c == [cycles[w] EXCEPT !.stage = "load", !.signal = signal]
  <2>1. signals \in Nat /\ signal \in 0 .. signals' /\ signal \notin 1 .. signals
    BY <1>1, <1>3 DEF BeliefInv, CyclesTyped, MockSignal
  <2>2. cycles[w] \in Cycle(cycles[w].prior, signals)  BY DEF BeliefInv, CyclesTyped
  <2>3. /\ c \in Cycle(c.prior, signals') /\ c.stage = "load" /\ c.signal = signal
        /\ c.updated = cycles[w].updated
    BY <2>1, <2>2 DEF Cycle, Stages
  <2>4. Caused(signal) = {}  BY <2>1 DEF BeliefInv, SignalsMoveOnce, Caused
  <2>5. c.updated = 0 /\ c.updated <= Cardinality(Caused(signal))
    <3>1. cycles[w].updated = 0  BY <1>1 DEF BeliefInv, SignalsMoveOnce, YetToWrite
    <3>2. Cardinality(Caused(signal)) \in Nat  BY CausedFinite DEF BeliefInv
    <3>3. QED  BY <2>3, <3>1, <3>2
  <2>6. YetToWrite(c)  BY <2>3, <2>4, <2>5 DEF YetToWrite
  <2>7. cycles' = [cycles EXCEPT ![w] = c]  BY <1>3
  <2>8. production => signal # MockSignal  BY <1>3, <2>1 DEF MockSignal
  <2> HIDE DEF c
  <2>9. QED  BY <1>1, <1>3, <2>3, <2>6, <2>7, <2>8, CycleGoesOn
<1>4. QED  BY <1>1, <1>2, <1>3 DEF PersistSignal

LEMMA LoadKeeps ==
  ASSUME BeliefInv, NEW w \in Workers, LoadAgents(w), UNCHANGED production
  PROVE  BeliefInv'
<1>1. /\ cycles[w].stage = "load"
      /\ UNCHANGED <<anchors, signals, beliefs, overlapped>>
  BY DEF LoadAgents
<1>2. CASE CycleError(w)  BY <1>1, <1>2, FailureEnds
<1>3. ASSUME NEW known \in BOOLEAN, UNCHANGED broadcasts, known \/ ~ (anchors > 0),
             cycles' = [cycles EXCEPT ![w].todo = Believers,
                                      ![w].stage = IF known THEN "prior" ELSE "create_anchor"]
      PROVE  BeliefInv'
  <2> DEFINE stage == IF known THEN "prior" ELSE "create_anchor"
             c == [cycles[w] EXCEPT !.todo = Believers, !.stage = stage]
  <2>1. Believers \in Seq(Range(Believers))  BY BeliefAssumption
  <2>2. cycles[w] \in Cycle(cycles[w].prior, signals)  BY DEF BeliefInv, CyclesTyped
  <2>3. /\ c \in Cycle(c.prior, signals) /\ c.stage = stage /\ c.signal = cycles[w].signal
        /\ c.updated = cycles[w].updated /\ c.todo = Believers
    BY <2>1, <2>2 DEF Cycle, Stages
  <2>4. cycles' = [cycles EXCEPT ![w] = c]  BY <1>3
  <2>5. stage \in {"prior", "create_anchor"}  OBVIOUS
  <2>6. stage = "create_anchor" => anchors = 0  BY <1>3 DEF BeliefInv, CyclesTyped
  <2> HIDE DEF c, stage
  <2>7. YetToWrite(cycles[w])  BY DEF BeliefInv, SignalsMoveOnce
  <2>8. Caused(c.signal) = {} /\ c.updated = 0  BY <1>1, <2>3, <2>7 DEF YetToWrite
  <2>9. \A i, k \in DOMAIN Believers : Believers[i] = Believers[k] => i = k
    BY BeliefAssumption DEF IsInjective
  <2>10. c.updated <= Cardinality(Caused(c.signal))
    BY <2>8, CausedFinite DEF BeliefInv
  <2>11. YetToWrite(c)  BY <2>3, <2>8, <2>9, <2>10 DEF YetToWrite
  <2>12. production => c.signal # MockSignal
    BY <1>1, <2>3 DEF BeliefInv, SignalsMoveOnce
  <2>13. c.stage # "write"  BY <2>3, <2>5
  <2>14. c.stage = "create_anchor" => anchors' = 0  BY <1>1, <2>3, <2>6
  <2>15. QED  BY <1>1, <1>3, <2>3, <2>4, <2>11, <2>12, <2>13, <2>14, CycleGoesOn
<1>4. QED
  <2>1. CASE /\ UNCHANGED broadcasts
             /\ cycles' = [cycles EXCEPT ![w].todo = Believers,
                             ![w].stage = IF anchorCache[w] \/ anchors > 0 THEN "prior"
                                          ELSE "create_anchor"]
    <3>1. CASE anchorCache[w] \/ anchors > 0
      <4>1. cycles' = [cycles EXCEPT ![w].todo = Believers,
                                     ![w].stage = IF TRUE THEN "prior" ELSE "create_anchor"]
        BY <2>1, <3>1
      <4>2. QED  BY <1>3, <2>1, <4>1
    <3>2. CASE ~ (anchorCache[w] \/ anchors > 0)
      <4>1. cycles' = [cycles EXCEPT ![w].todo = Believers,
                                     ![w].stage = IF FALSE THEN "prior" ELSE "create_anchor"]
        BY <2>1, <3>2
      <4>2. QED  BY <1>3, <2>1, <3>2, <4>1
    <3>3. QED  BY <3>1, <3>2
  <2>2. QED  BY <1>2, <2>1 DEF LoadAgents

LEMMA AnchorKeeps ==
  ASSUME BeliefInv, NEW w \in Workers, CreateAnchor(w), UNCHANGED production
  PROVE  BeliefInv'
<1>1. /\ cycles[w].stage = "create_anchor" /\ anchors' \in {anchors, anchors + 1}
      /\ UNCHANGED <<signals, beliefs, overlapped>>
  BY DEF CreateAnchor
<1>2. CASE CycleError(w)  BY <1>1, <1>2, FailureEnds
<1>3. CASE Goto(w, "prior") /\ UNCHANGED broadcasts
  <2> DEFINE c == [cycles[w] EXCEPT !.stage = "prior"]
  <2>1. cycles[w] \in Cycle(cycles[w].prior, signals)  BY DEF BeliefInv, CyclesTyped
  <2>2. /\ c \in Cycle(c.prior, signals) /\ c.stage = "prior" /\ c.signal = cycles[w].signal
        /\ c.updated = cycles[w].updated /\ c.todo = cycles[w].todo
    BY <2>1 DEF Cycle, Stages
  <2>3. cycles' = [cycles EXCEPT ![w] = c]  BY <1>3 DEF Goto
  <2> HIDE DEF c
  <2>4. YetToWrite(cycles[w])  BY DEF BeliefInv, SignalsMoveOnce
  <2>5. YetToWrite(c)  BY <1>1, <2>2, <2>4 DEF YetToWrite
  <2>6. production => c.signal # MockSignal
    BY <1>1, <2>2 DEF BeliefInv, SignalsMoveOnce
  <2>7. QED  BY <1>1, <1>3, <2>2, <2>3, <2>5, <2>6, CycleGoesOn
<1>4. QED  BY <1>2, <1>3 DEF CreateAnchor

(* The loop passes over an agent, whose row it may fail to read or write.  *)
LEMMA LoopKeeps ==
  ASSUME BeliefInv, NEW w \in Workers, cycles[w].stage \in {"prior", "write"},
         cycles[w].todo # <<>>, NEW c, c \in Cycle(c.prior, signals),
         cycles' = [cycles EXCEPT ![w] = c],
         c.stage = "prior", c.signal = cycles[w].signal, c.updated = cycles[w].updated,
         c.todo = Tail(cycles[w].todo),
         UNCHANGED <<broadcasts, anchors, signals, beliefs, overlapped, production>>
  PROVE  BeliefInv'
<1>1. cycles[w].todo \in Seq(Range(Believers))
  BY DEF BeliefInv, CyclesTyped, Cycle
<1>2. /\ DOMAIN c.todo = 1 .. Len(c.todo) /\ Len(c.todo) = Len(cycles[w].todo) - 1
      /\ Len(cycles[w].todo) \in Nat /\ DOMAIN cycles[w].todo = 1 .. Len(cycles[w].todo)
      /\ \A i \in DOMAIN c.todo : c.todo[i] = cycles[w].todo[i + 1]
  BY <1>1, HeadTailProperties, LenProperties
<1>3. \A i \in DOMAIN c.todo : i \in Int /\ i + 1 \in DOMAIN cycles[w].todo  BY <1>2
<1>4. YetToWrite(cycles[w])  BY DEF BeliefInv, SignalsMoveOnce
<1>5. /\ \A i \in Caused(c.signal), k \in DOMAIN c.todo : beliefs[i].agent # c.todo[k]
      /\ \A i, k \in DOMAIN c.todo : c.todo[i] = c.todo[k] => i = k
  BY <1>2, <1>3, <1>4, SMTT(30) DEF YetToWrite
<1>6. YetToWrite(c)  BY <1>4, <1>5 DEF YetToWrite
<1>7. production => c.signal # MockSignal  BY DEF BeliefInv, SignalsMoveOnce
<1>8. QED  BY <1>6, <1>7, CycleGoesOn

LEMMA PriorKeeps ==
  ASSUME BeliefInv, NEW w \in Workers, ReadPrior(w), UNCHANGED production
  PROVE  BeliefInv'
<1>1. /\ cycles[w].stage = "prior" /\ cycles[w].todo # <<>>
      /\ UNCHANGED <<broadcasts, anchors, signals, beliefs, overlapped>>
  BY DEF ReadPrior
<1>2. cycles[w] \in Cycle(cycles[w].prior, signals)  BY DEF BeliefInv, CyclesTyped
<1>3. CASE cycles' = [cycles EXCEPT ![w].stage = "write",
                                    ![w].prior = LastBelief(Head(cycles[w].todo))]
  <2> DEFINE last == LastBelief(Head(cycles[w].todo))
             c == [cycles[w] EXCEPT !.stage = "write", !.prior = last]
  <2> HIDE DEF last
  <2>1. /\ c \in Cycle(c.prior, signals) /\ c.stage = "write" /\ c.signal = cycles[w].signal
        /\ c.updated = cycles[w].updated /\ c.todo = cycles[w].todo /\ c.prior = last
    BY <1>2 DEF Cycle, Stages
  <2>2. cycles' = [cycles EXCEPT ![w] = c]  BY <1>3 DEF last
  <2> HIDE DEF c
  <2>3. YetToWrite(cycles[w])  BY DEF BeliefInv, SignalsMoveOnce
  <2>4. YetToWrite(c)  BY <1>1, <2>1, <2>3 DEF YetToWrite
  <2>5. production => c.signal # MockSignal
    BY <1>1, <2>1 DEF BeliefInv, SignalsMoveOnce
  <2>6. c.todo # <<>> /\ c.prior = LastBelief(Head(c.todo))  BY <1>1, <2>1 DEF last
  <2>7. QED  BY <1>1, <2>1, <2>2, <2>4, <2>5, <2>6, CycleGoesOn
<1>4. CASE cycles' = [cycles EXCEPT ![w].todo = Tail(@)]
  <2> DEFINE c == [cycles[w] EXCEPT !.todo = Tail(cycles[w].todo)]
  <2>1. Tail(cycles[w].todo) \in Seq(Range(Believers))
    BY <1>1, <1>2, HeadTailProperties DEF Cycle
  <2>2. /\ c \in Cycle(c.prior, signals) /\ c.stage = "prior" /\ c.signal = cycles[w].signal
        /\ c.updated = cycles[w].updated /\ c.todo = Tail(cycles[w].todo)
    BY <1>1, <1>2, <2>1 DEF Cycle, Stages
  <2>3. cycles' = [cycles EXCEPT ![w] = c]  BY <1>4
  <2> HIDE DEF c
  <2>4. QED  BY <1>1, <2>2, <2>3, LoopKeeps
<1>5. QED  BY <1>3, <1>4 DEF ReadPrior

LEMMA PrefixOfAppend ==
  ASSUME NEW S, NEW rows \in Seq(S), NEW row \in S, NEW i \in 1 .. Len(rows) + 1
  PROVE  SubSeq(Append(rows, row), 1, i - 1) = SubSeq(rows, 1, i - 1)
<1>1. Len(rows) \in Nat /\ i - 1 \in 0 .. Len(rows)  BY LenProperties
<1>2. /\ Append(rows, row) \in Seq(S) /\ Len(Append(rows, row)) = Len(rows) + 1
      /\ \A k \in 1 .. Len(rows) : Append(rows, row)[k] = rows[k]
  BY AppendProperties
<1>3. /\ SubSeq(rows, 1, i - 1) = [k \in 1 .. (i - 1) |-> rows[k]]
      /\ SubSeq(Append(rows, row), 1, i - 1) = [k \in 1 .. (i - 1) |-> Append(rows, row)[k]]
  BY <1>1, <1>2
<1>4. \A k \in 1 .. (i - 1) : k \in 1 .. Len(rows)  BY <1>1
<1>5. QED  BY <1>2, <1>3, <1>4

(* The row of the agent at the head is created, and reported or not.       *)
LEMMA RowKeeps ==
  ASSUME BeliefInv, NEW w \in Workers, cycles[w].stage = "write",
         cycles[w].signal # MockSignal, NEW done \in {0, 1},
         NEW c, c \in Cycle(c.prior, signals), cycles' = [cycles EXCEPT ![w] = c],
         c.stage = "prior", c.signal = cycles[w].signal, c.updated = cycles[w].updated + done,
         c.todo = Tail(cycles[w].todo), beliefs' = Append(beliefs, BeliefRow(cycles[w])),
         UNCHANGED <<broadcasts, anchors, signals, overlapped, production>>
  PROVE  BeliefInv'
<1> DEFINE todo == cycles[w].todo
           sig == cycles[w].signal
           row == BeliefRow(cycles[w])
           n == Len(beliefs)
           Old == {beliefs[i] : i \in DOMAIN beliefs}
<1>1. CyclesTyped /\ RunsAlone /\ SignalsMoveOnce /\ ReportedUpdatesStored  BY DEF BeliefInv
<1>2. /\ todo \in Seq(Range(Believers)) /\ sig \in 0 .. signals /\ cycles[w].updated \in Nat
      /\ signals \in Nat
  BY <1>1 DEF CyclesTyped, Cycle
<1>3. todo # <<>>  BY <1>1 DEF CyclesTyped
<1>4. sig \in 1 .. signals  BY <1>2 DEF MockSignal
<1>5. row.agent = Head(todo) /\ row.signal = sig /\ row.before = cycles[w].prior
  BY DEF BeliefRow
<1>6. beliefs \in Seq(Old) /\ n \in Nat /\ DOMAIN beliefs = 1 .. n
  BY <1>1, LenProperties DEF CyclesTyped
<1>7. beliefs \in Seq(Old \cup {row}) /\ row \in Old \cup {row}
  <2> HIDE DEF Old, row
  <2>1. \A S, T : S \subseteq T => Seq(S) \subseteq Seq(T)  OBVIOUS
  <2>2. QED  BY <1>6, <2>1
<1> HIDE DEF row, n, Old
<1>8. /\ beliefs' \in Seq(Old \cup {row}) /\ Len(beliefs') = n + 1
      /\ \A i \in 1 .. n : beliefs'[i] = beliefs[i]
      /\ beliefs'[n + 1] = row
  BY <1>7, AppendProperties DEF row, n
<1>9. DOMAIN beliefs' = 1 .. (n + 1)  BY <1>8, LenProperties
<1>10. cycles'[w] = c /\ \A v \in Workers : v # w => cycles'[v] = cycles[v]
  BY <1>1 DEF CyclesTyped
<1>11. CyclesTyped'
  <2>1. cycles' = [v \in Workers |-> cycles'[v]]  BY <1>1 DEF CyclesTyped
  <2>2. \A v \in Workers : cycles'[v] \in Cycle(cycles'[v].prior, signals')
    BY <1>1, <1>10 DEF CyclesTyped
  <2>3. Old \cup {row} \subseteq {beliefs'[i] : i \in DOMAIN beliefs'}
    BY <1>6, <1>8, <1>9 DEF Old
  <2>4. beliefs' \in Seq({beliefs'[i] : i \in DOMAIN beliefs'})
    BY <1>8, <2>3
  <2>5. \A v \in Workers : cycles'[v].stage = "write" => cycles'[v].todo # <<>>
    BY <1>1, <1>10 DEF CyclesTyped
  <2>6. QED  BY <1>1, <2>1, <2>2, <2>4, <2>5 DEF CyclesTyped
<1>12. RunsAlone'
  <2> SUFFICES ASSUME ~overlapped PROVE RunsAlone'  BY DEF RunsAlone
  <2>1. \A v \in Workers : v # w => cycles'[v].stage = "idle"
    BY <1>1, <1>10 DEF RunsAlone
  <2>2. ASSUME NEW i \in 1 .. (n + 1)
        PROVE  beliefs'[i].before = LastIn(SubSeq(beliefs', 1, i - 1), beliefs'[i].agent)
    <3>1. SubSeq(beliefs', 1, i - 1) = SubSeq(beliefs, 1, i - 1)
      BY <1>7, <2>2, PrefixOfAppend DEF row, n
    <3>2. CASE i \in 1 .. n  BY <1>1, <1>6, <1>8, <3>1, <3>2 DEF RunsAlone
    <3>3. CASE i = n + 1
      <4>1. i - 1 = n  BY <1>6, <3>3
      <4>2. SubSeq(beliefs, 1, i - 1) = beliefs  BY <1>6, <4>1, SubSeqFull DEF n
      <4>3. row.before = LastIn(beliefs, row.agent)
        BY <1>1, <1>5 DEF RunsAlone, LastBelief
      <4>4. QED  BY <1>8, <3>1, <3>3, <4>2, <4>3
    <3>4. QED  BY <1>6, <3>2, <3>3
  <2>3. anchors' <= 1  BY <1>1 DEF RunsAlone
  <2>4. QED  BY <1>9, <1>10, <2>1, <2>2, <2>3 DEF RunsAlone
<1> DEFINE Caused2(s) == {i \in DOMAIN beliefs' : beliefs'[i].signal = s}
<1>13. /\ \A s : s # sig => Caused2(s) = Caused(s)
       /\ Caused2(sig) = Caused(sig) \cup {n + 1} /\ n + 1 \notin Caused(sig)
  BY <1>5, <1>6, <1>8, <1>9 DEF Caused
<1>14. Cardinality(Caused2(sig)) = Cardinality(Caused(sig)) + 1
  <2>1. IsFiniteSet(Caused(sig))  BY <1>1, CausedFinite
  <2>2. QED  BY <1>13, <2>1, FS_AddElement, ZenonT(40)
<1>15. \A s : Caused(s) \subseteq 1 .. n  BY <1>6 DEF Caused
<1>16. YetToWrite(cycles[w])  BY <1>1 DEF SignalsMoveOnce
<1>17. /\ DOMAIN c.todo = 1 .. Len(c.todo) /\ DOMAIN todo = 1 .. Len(todo)
       /\ Len(c.todo) = Len(todo) - 1 /\ Len(todo) \in Nat
       /\ \A i \in DOMAIN c.todo : c.todo[i] = todo[i + 1]
       /\ Head(todo) = todo[1]
  BY <1>2, <1>3, HeadTailProperties, LenProperties
<1>18. 1 \in DOMAIN todo
  <2>1. Len(todo) # 0  BY <1>2, <1>3
  <2>2. QED  BY <1>17, <2>1
<1>19. \A i \in DOMAIN c.todo : i \in Int /\ i + 1 \in DOMAIN todo /\ i + 1 # 1  BY <1>17
<1>20. /\ \A i \in Caused(sig), k \in DOMAIN todo : beliefs[i].agent # todo[k]
       /\ \A i, k \in DOMAIN todo : todo[i] = todo[k] => i = k
       /\ cycles[w].updated <= Cardinality(Caused(sig))
  BY <1>16 DEF YetToWrite
<1>21. \A s : \A i \in Caused(s) : beliefs'[i] = beliefs[i]  BY <1>8, <1>15
<1>22. \A s : Caused(s)' = Caused2(s)  BY DEF Caused
<1> HIDE DEF todo, sig, Caused2
<1>23. SignalsMoveOnce'
  <2>1. \A i \in DOMAIN beliefs' : beliefs'[i].signal \in 1 .. signals
    BY <1>1, <1>4, <1>5, <1>6, <1>8, <1>9 DEF SignalsMoveOnce
  <2>2. \A v, u \in Workers : v # u /\ cycles'[v].signal = cycles'[u].signal =>
          cycles'[v].signal = MockSignal
    BY <1>1, <1>10 DEF SignalsMoveOnce
  <2> DEFINE ToWrite(d) ==
        /\ d.stage = "load" => Caused2(d.signal) = {}
        /\ d.stage \in {"create_anchor", "prior", "write"} =>
             /\ \A i \in Caused2(d.signal), k \in DOMAIN d.todo : beliefs'[i].agent # d.todo[k]
             /\ \A i, k \in DOMAIN d.todo : d.todo[i] = d.todo[k] => i = k
        /\ d.updated <= Cardinality(Caused2(d.signal))
        /\ d.stage \notin {"prior", "write"} => d.updated = 0
  <2> HIDE DEF ToWrite
  <2>3. ASSUME NEW v \in Workers PROVE ToWrite(cycles'[v])
    <3>1. CASE v # w
      <4>1. YetToWrite(cycles[v])  BY <1>1 DEF SignalsMoveOnce
      <4>2. cycles[v].signal # sig  BY <1>1, <3>1 DEF SignalsMoveOnce, sig
      <4>3. Caused2(cycles[v].signal) = Caused(cycles[v].signal)  BY <1>13, <4>2
      <4>4. \A i \in Caused(cycles[v].signal) : beliefs'[i].agent = beliefs[i].agent  BY <1>21
      <4>5. ToWrite(cycles[v])
        <5> DEFINE d == cycles[v]
        <5>1. /\ d.stage = "load" => Caused(d.signal) = {}
              /\ d.updated <= Cardinality(Caused(d.signal))
              /\ d.stage \notin {"prior", "write"} => d.updated = 0
          BY <4>1 DEF YetToWrite
        <5>2. d.stage \in {"create_anchor", "prior", "write"} =>
                /\ \A i \in Caused(d.signal), k \in DOMAIN d.todo : beliefs[i].agent # d.todo[k]
                /\ \A i, k \in DOMAIN d.todo : d.todo[i] = d.todo[k] => i = k
          BY <4>1 DEF YetToWrite
        <5>3. \A i \in Caused2(d.signal) : i \in Caused(d.signal)
                                          /\ beliefs'[i].agent = beliefs[i].agent
          BY <4>3, <4>4
        <5> HIDE DEF d
        <5>4. d.stage \in {"create_anchor", "prior", "write"} =>
                /\ \A i \in Caused2(d.signal), k \in DOMAIN d.todo : beliefs'[i].agent # d.todo[k]
                /\ \A i, k \in DOMAIN d.todo : d.todo[i] = d.todo[k] => i = k
          BY <5>2, <5>3, ZenonT(40)
        <5>5. Caused2(d.signal) = Caused(d.signal)  BY <4>3 DEF d
        <5>6. ToWrite(d)  BY <5>1, <5>4, <5>5 DEF ToWrite
        <5>7. QED  BY <5>6 DEF d
      <4>6. ToWrite(cycles'[v])  BY <1>10, <3>1, <4>5
      <4>7. QED  BY <4>6
    <3>2. CASE v = w
      <4>1. ASSUME NEW i \in Caused2(sig), NEW k \in DOMAIN c.todo
            PROVE  beliefs'[i].agent # c.todo[k]
        <5>1. c.todo[k] = todo[k + 1] /\ k + 1 \in DOMAIN todo /\ k + 1 # 1  BY <1>17, <1>19
        <5>2. CASE i = n + 1
          <6>1. beliefs'[i].agent = todo[1]  BY <1>5, <1>8, <1>17, <5>2
          <6>2. QED  BY <1>18, <1>20, <5>1, <6>1
        <5>3. CASE i \in Caused(sig)
          <6>1. beliefs'[i].agent = beliefs[i].agent  BY <1>21, <5>3
          <6>2. QED  BY <1>20, <5>1, <5>3, <6>1
        <5>4. QED  BY <1>13, <4>1, <5>2, <5>3
      <4>2. \A i, k \in DOMAIN c.todo : c.todo[i] = c.todo[k] => i = k
        BY <1>17, <1>19, <1>20
      <4>3. c.updated <= Cardinality(Caused2(sig))
        <5>1. Cardinality(Caused(sig)) \in Nat  BY <1>1, CausedFinite
        <5>2. c.updated = cycles[w].updated + done /\ done <= 1  OBVIOUS
        <5>3. QED  BY <1>2, <1>14, <1>20, <5>1, <5>2
      <4>4. c.signal = sig  BY DEF sig
      <4>5. ToWrite(c)  BY <4>1, <4>2, <4>3, <4>4 DEF ToWrite
      <4>6. QED  BY <1>10, <3>2, <4>5
    <3>3. QED  BY <3>1, <3>2
  <2>4. \A v \in Workers : production' /\ cycles'[v].stage \notin {"idle", "fetch", "persist"} =>
          cycles'[v].signal # MockSignal
    BY <1>1, <1>10 DEF SignalsMoveOnce
  <2>5. ASSUME NEW v \in Workers PROVE YetToWrite(cycles[v])'
    BY <1>22, <2>3 DEF YetToWrite, ToWrite
  <2>6. QED  BY <1>2, <2>1, <2>2, <2>4, <2>5 DEF SignalsMoveOnce
<1>24. ReportedUpdatesStored'
  <2>1. ASSUME NEW s \in 1 .. signals, NEW i \in Caused2(s), NEW k \in Caused2(s),
               beliefs'[i].agent = beliefs'[k].agent
        PROVE  i = k
    <3>1. CASE i \in Caused(s) /\ k \in Caused(s)
      <4>1. beliefs[i].agent = beliefs[k].agent  BY <1>21, <2>1, <3>1
      <4>2. \A p, q \in Caused(s) : beliefs[p].agent = beliefs[q].agent => p = q
        BY <1>1 DEF ReportedUpdatesStored
      <4>3. QED  BY <3>1, <4>1, <4>2
    <3>2. ASSUME NEW p \in Caused(sig) PROVE beliefs'[p].agent # beliefs'[n + 1].agent
      <4>1. beliefs'[n + 1].agent = todo[1]  BY <1>5, <1>8, <1>17
      <4>2. beliefs'[p].agent = beliefs[p].agent  BY <1>21, <3>2
      <4>3. QED  BY <1>18, <1>20, <3>2, <4>1, <4>2
    <3>3. CASE s # sig
      <4>1. Caused2(s) = Caused(s)  BY <1>13, <3>3
      <4>2. QED  BY <2>1, <3>1, <4>1
    <3>4. CASE s = sig
      <4>1. Caused2(s) = Caused(sig) \cup {n + 1}  BY <1>13, <3>4
      <4>2. QED  BY <2>1, <3>1, <3>2, <3>4, <4>1
    <3>5. QED  BY <3>3, <3>4
  <2>2. \A s : /\ Cardinality(Caused(s)) <= Cardinality(Caused2(s))
               /\ Cardinality(Caused(s)) \in Nat /\ Cardinality(Caused2(s)) \in Nat
    <3>1. SUFFICES ASSUME NEW s
                   PROVE  /\ Cardinality(Caused(s)) <= Cardinality(Caused2(s))
                          /\ Cardinality(Caused(s)) \in Nat /\ Cardinality(Caused2(s)) \in Nat
      OBVIOUS
    <3>2. Cardinality(Caused(s)) \in Nat  BY <1>1, CausedFinite
    <3>3. CASE s = sig  BY <1>14, <3>2, <3>3
    <3>4. CASE s # sig  BY <1>13, <3>2, <3>4
    <3>5. QED  BY <3>3, <3>4
  <2>3. ASSUME NEW j \in 1 .. MaxTicks, broadcasts[j].status = "completed"
        PROVE  /\ broadcasts[j].report.updated <= Cardinality(Caused2(broadcasts[j].report.signal))
               /\ production => broadcasts[j].report.signal \in 1 .. signals
    <3>1. /\ broadcasts[j].report.updated <= Cardinality(Caused(broadcasts[j].report.signal))
          /\ production => broadcasts[j].report.signal \in 1 .. signals
      BY <1>1, <2>3 DEF ReportedUpdatesStored
    <3>2. broadcasts[j].report.updated \in Nat
      <4>1. broadcasts[j] \in Jobs  BY <1>1 DEF CyclesTyped
      <4>2. QED  BY <4>1 DEF Jobs
    <3>3. QED  BY <2>2, <3>1, <3>2
  <2>4. QED  BY <1>22, <2>1, <2>3 DEF ReportedUpdatesStored
<1>25. QED  BY <1>11, <1>12, <1>23, <1>24 DEF BeliefInv

LEMMA WriteKeeps ==
  ASSUME BeliefInv, NEW w \in Workers, WriteBelief(w), UNCHANGED production
  PROVE  BeliefInv'
<1>1. /\ cycles[w].stage = "write"
      /\ UNCHANGED <<broadcasts, anchors, signals, overlapped>>
  BY DEF WriteBelief
<1>2. cycles[w] \in Cycle(cycles[w].prior, signals) /\ cycles[w].todo # <<>>
  BY <1>1 DEF BeliefInv, CyclesTyped
<1> DEFINE Moved(done) == [cycles[w] EXCEPT !.stage = "prior", !.todo = Tail(cycles[w].todo),
                             !.prior = 0, !.updated = cycles[w].updated + done]
<1>3. Tail(cycles[w].todo) \in Seq(Range(Believers))
  BY <1>2, HeadTailProperties DEF Cycle
<1>4. ASSUME NEW done \in {0, 1}
      PROVE  LET c == Moved(done) IN
             /\ c \in Cycle(c.prior, signals) /\ c.stage = "prior" /\ c.signal = cycles[w].signal
             /\ c.updated = cycles[w].updated + done /\ c.todo = Tail(cycles[w].todo)
  <2>1. cycles[w].updated + done \in Nat  BY <1>2 DEF Cycle
  <2>2. QED  BY <1>2, <1>3, <2>1 DEF Cycle, Stages
<1>5. cycles[w].updated + 0 = cycles[w].updated  BY <1>2 DEF Cycle
<1>6. \E done \in {0, 1} :
        /\ cycles' = [cycles EXCEPT ![w] = Moved(done)]
        /\ \/ done = 0 /\ UNCHANGED beliefs
           \/ cycles[w].signal # MockSignal /\ beliefs' = Append(beliefs, BeliefRow(cycles[w]))
  <2>1. CASE cycles[w].signal # MockSignal /\ beliefs' = Append(beliefs, BeliefRow(cycles[w]))
    BY <2>1 DEF WriteBelief
  <2>2. CASE UNCHANGED beliefs /\ cycles' = [cycles EXCEPT ![w] = Moved(0)]  BY <2>2
  <2>3. QED  BY <2>1, <2>2 DEF WriteBelief
<1> HIDE DEF Moved
<1>7. PICK done \in {0, 1} :
        /\ cycles' = [cycles EXCEPT ![w] = Moved(done)]
        /\ \/ done = 0 /\ UNCHANGED beliefs
           \/ cycles[w].signal # MockSignal /\ beliefs' = Append(beliefs, BeliefRow(cycles[w]))
  BY <1>6
<1> DEFINE c == Moved(done)
<1>8. /\ c \in Cycle(c.prior, signals) /\ c.stage = "prior" /\ c.signal = cycles[w].signal
      /\ c.updated = cycles[w].updated + done /\ c.todo = Tail(cycles[w].todo)
      /\ cycles' = [cycles EXCEPT ![w] = c]
  BY <1>4, <1>7
<1> HIDE DEF c
<1>9. CASE done = 0 /\ UNCHANGED beliefs  BY <1>1, <1>2, <1>5, <1>8, <1>9, LoopKeeps
<1>10. CASE cycles[w].signal # MockSignal /\ beliefs' = Append(beliefs, BeliefRow(cycles[w]))
  BY <1>1, <1>8, <1>10, RowKeeps
<1>11. QED  BY <1>7, <1>9, <1>10

LEMMA ReportKeeps ==
  ASSUME BeliefInv, NEW w \in Workers, ReportCycle(w), UNCHANGED production
  PROVE  BeliefInv'
<1> DEFINE report == [signal |-> cycles[w].signal, updated |-> cycles[w].updated]
<1>1. /\ cycles[w].stage = "prior" /\ EndJob(w, "completed", report)
      /\ UNCHANGED <<anchors, signals, beliefs, overlapped>>
  BY DEF ReportCycle
<1>2. cycles[w].signal \in 0 .. signals /\ cycles[w].updated \in Nat /\ signals \in Nat
  BY DEF BeliefInv, CyclesTyped, Cycle
<1>3. /\ report \in [signal : Nat, updated : Nat]
      /\ report.signal = cycles[w].signal /\ report.updated = cycles[w].updated
  BY <1>2
<1> HIDE DEF report
<1>4. YetToWrite(cycles[w])  BY DEF BeliefInv, SignalsMoveOnce
<1>5. report.updated <= Cardinality(Caused(report.signal))  BY <1>3, <1>4 DEF YetToWrite
<1>6. production => report.signal \in 1 .. signals
  BY <1>1, <1>2, <1>3 DEF BeliefInv, SignalsMoveOnce, MockSignal
<1>7. Backed(report)  BY <1>5, <1>6 DEF Backed
<1>8. QED  BY <1>1, <1>3, <1>7, JobEnds

LEMMA CrashKeeps ==
  ASSUME BeliefInv, NEW w \in Workers, CrashWorker(w), UNCHANGED production
  PROVE  BeliefInv'
<1> DEFINE j == cycles[w].job
           status == IF broadcasts[j].stalls = 0 THEN "waiting" ELSE "failed"
           job == [broadcasts[j] EXCEPT !.stalls = broadcasts[j].stalls + 1, !.status = status]
<1>1. /\ cycles[w].stage # "idle" /\ cycles' = [cycles EXCEPT ![w] = Idle]
      /\ broadcasts' = [broadcasts EXCEPT ![j] = job]
      /\ UNCHANGED <<anchors, signals, beliefs, overlapped>>
  BY DEF CrashWorker
<1>2. broadcasts \in [1 .. MaxTicks -> Jobs]  BY DEF BeliefInv, CyclesTyped
<1>3. status \in {"waiting", "failed"}  OBVIOUS
<1> HIDE DEF status
<1>4. j \in 1 .. MaxTicks => job \in Jobs /\ job.status = status
  <2> SUFFICES ASSUME j \in 1 .. MaxTicks PROVE job \in Jobs /\ job.status = status  OBVIOUS
  <2>1. broadcasts[j] \in Jobs  BY <1>2
  <2>2. broadcasts[j].stalls + 1 \in Nat  BY <2>1 DEF Jobs
  <2>3. QED  BY <1>3, <2>1, <2>2 DEF Jobs
<1> HIDE DEF job, j
<1>5. broadcasts' \in [1 .. MaxTicks -> Jobs]  BY <1>1, <1>2, <1>4
<1>6. \A i \in 1 .. MaxTicks : broadcasts'[i].status = "completed" => broadcasts'[i] = broadcasts[i]
  BY <1>1, <1>2, <1>3, <1>4
<1>7. QED  BY <1>1, <1>5, <1>6, CycleEnds

LEMMA BeliefSteps ==
  BeliefInv /\ [BeliefNext /\ UNCHANGED production]_<<beliefVars, production>> => BeliefInv'
<1> SUFFICES ASSUME BeliefInv, [BeliefNext /\ UNCHANGED production]_<<beliefVars, production>>
             PROVE  BeliefInv'
  OBVIOUS
<1>1. CASE UNCHANGED <<beliefVars, production>>
  <2>1. UNCHANGED <<broadcasts, cycles, anchors, signals, beliefs, overlapped, production>>
    BY <1>1 DEF beliefVars
  <2>2. \A s : Caused(s)' = Caused(s)  BY <2>1 DEF Caused
  <2>3. \A a : LastBelief(a)' = LastBelief(a)  BY <2>1 DEF LastBelief
  <2>4. CyclesTyped'  BY <2>1 DEF BeliefInv, CyclesTyped
  <2>5. RunsAlone'  BY <2>1, <2>3 DEF BeliefInv, RunsAlone
  <2>6. SignalsMoveOnce'  BY <2>1, <2>2 DEF BeliefInv, SignalsMoveOnce, YetToWrite
  <2>7. ReportedUpdatesStored'  BY <2>1, <2>2 DEF BeliefInv, ReportedUpdatesStored
  <2>8. QED  BY <2>4, <2>5, <2>6, <2>7 DEF BeliefInv
<1>2. CASE BeliefNext /\ UNCHANGED production
  <2>1. ASSUME NEW w \in Workers, RunCycle(w) PROVE BeliefInv'
    BY <1>2, <2>1, TakeKeeps, FetchKeeps, PersistKeeps, LoadKeeps, AnchorKeeps, PriorKeeps,
       WriteKeeps, ReportKeeps
       DEF RunCycle
  <2>2. QED  BY <1>2, <2>1, TickKeeps, CrashKeeps DEF BeliefNext
<1>3. QED  BY <1>1, <1>2

(* As long as the cycles of two processes never ran together, there is one *)
(* ORACLE negotiation, and each belief starts from the agent's last one,   *)
(* through crashes and re-runs (beliefUpdateService.ts:161-186).           *)
THEOREM BeliefsFollowOn == BeliefSpec => []SerialCyclesFollowOn
<1>1. BeliefInv => SerialCyclesFollowOn  BY DEF BeliefInv, RunsAlone, SerialCyclesFollowOn
<1>2. QED  BY <1>1, BeliefsStart, BeliefSteps, PTL DEF BeliefSpec

(* However the cycles run together, a signal moves an agent's belief at    *)
(* most once, and a finished cycle reports no more updates than its signal *)
(* has rows (oracleBroadcastWorker.ts:200-227).                            *)
THEOREM UpdatesAreStored == BeliefSpec => []ReportedUpdatesStored
<1>1. BeliefInv => ReportedUpdatesStored  BY DEF BeliefInv
<1>2. QED  BY <1>1, BeliefsStart, BeliefSteps, PTL DEF BeliefSpec

-------------------------------------------------------------------------------
(* The types of BeliefCycles, on their own.                                *)
(* A probability stays between the clamps: the evidence is positive.       *)
LEMMA Clamps ==
  /\ Scale \in Nat /\ Scale >= 1000 /\ Scale \div 1000 \in Nat /\ Scale \div 1000 >= 1
  /\ 2 * (Scale \div 1000) < Scale /\ Half \in Believable
<1>1. Scale \in Nat /\ Scale >= 1000  BY BeliefAssumption
<1>2. Scale \div 1000 \in Nat /\ Scale \div 1000 >= 1 /\ 2 * (Scale \div 1000) < Scale  BY <1>1
<1>3. Half \in Believable  BY <1>1 DEF Half, Believable
<1>4. QED  BY <1>1, <1>2, <1>3

LEMMA PosteriorsClamped ==
  ASSUME NEW prior \in Believable, NEW confidence \in 0 .. Scale
  PROVE  Posterior(prior, confidence) \in Believable
<1> DEFINE joint == confidence * prior
           other == (Scale - confidence) * (Scale - prior)
           evidence == joint + other
           rounded == (2 * joint * Scale + evidence) \div (2 * evidence)
           least == Scale \div 1000
<1>1. prior \in Nat /\ prior >= 1 /\ Scale - prior \in Nat /\ Scale - prior >= 1
  BY Clamps DEF Believable
<1>2. confidence \in Nat /\ Scale - confidence \in Nat  BY Clamps
<1>3. \A a, b \in Nat : b >= 1 => a * b \in Nat /\ a * b >= a
  <2> SUFFICES ASSUME NEW a \in Nat, NEW b \in Nat, b >= 1 PROVE a * b \in Nat /\ a * b >= a
    OBVIOUS
  <2>1. a * b \in Nat /\ a * (b - 1) \in Nat  OBVIOUS
  <2>2. a * b = a * (b - 1) + a  OBVIOUS
  <2>3. QED  BY <2>1, <2>2
<1>4. joint \in Nat /\ other \in Nat /\ joint >= confidence /\ other >= Scale - confidence
  BY <1>1, <1>2, <1>3
<1> HIDE DEF joint, other
<1>5. evidence \in Nat /\ evidence > 0  BY <1>2, <1>4, Clamps
<1> HIDE DEF evidence
<1>6. rounded \in Int
  <2>1. 2 * joint * Scale + evidence \in Int  BY <1>4, <1>5, Clamps
  <2>2. 2 * evidence \in Int /\ 2 * evidence > 0  BY <1>5
  <2>3. QED  BY <2>1, <2>2
<1> HIDE DEF rounded
<1>7. Max({least, rounded}) \in Int /\ Max({least, rounded}) >= least
  BY <1>6, Clamps DEF Max
<1>8. Min({Scale - least, Max({least, rounded})}) \in Believable
  BY <1>7, Clamps DEF Min, Believable
<1>9. QED  BY <1>8 DEF Posterior, rounded, evidence, joint, other

LEMMA LastBelievable ==
  ASSUME BeliefTypeOK, NEW a
  PROVE  LastBelief(a) \in Believable
<1> DEFINE own == {i \in DOMAIN beliefs : beliefs[i].agent = a}
           bounds == {n \in Nat : \A i \in own : i <= n}
<1>1. beliefs \in Seq(BeliefRows(signals))  BY DEF BeliefTypeOK, BeliefRows
<1>2. DOMAIN beliefs = 1 .. Len(beliefs) /\ Len(beliefs) \in Nat
      /\ \A i \in DOMAIN beliefs : beliefs[i] \in BeliefRows(signals)
  BY <1>1, LenProperties
<1>3. CASE own = {}  BY <1>3, Clamps DEF LastBelief, LastIn
<1>4. CASE own # {}
  <2>1. own \subseteq 1 .. Len(beliefs)  BY <1>2
  <2>2. Len(beliefs) \in bounds /\ bounds \in SUBSET Nat  BY <1>2, <2>1
  <2>3. PICK n \in bounds : \A y \in bounds : n <= y
    <3> HIDE DEF bounds
    <3>1. PICK x \in bounds : \A y \in bounds : <<y, x>> \notin OpToRel(<, Nat)
      BY <2>2, NatLessThanWellFounded, WFMin, Zenon
    <3>2. \A y, z \in Nat : y < z => <<y, z>> \in OpToRel(<, Nat)  BY Zenon DEF OpToRel
    <3>3. \A y \in bounds : ~ (y < x)  BY <2>2, <3>1, <3>2, Zenon
    <3>4. QED  BY <2>2, <3>3
  <2>4. n \in own
    <3> SUFFICES ASSUME n \notin own PROVE FALSE  OBVIOUS
    <3>1. \A i \in own : i \in Nat /\ i >= 1 /\ i <= n - 1  BY <1>2, <2>1, <2>3
    <3>2. n - 1 \in Nat  BY <1>4, <2>3, <3>1
    <3>3. n - 1 \in bounds  BY <3>1, <3>2
    <3>4. QED  BY <2>3, <3>3
  <2>5. Max(own) \in own
    <3>1. \A i \in own : i <= n  BY <2>3
    <3>2. QED  BY <2>4, <3>1 DEF Max
  <2>6. LastBelief(a) = beliefs[Max(own)].after  BY <1>4 DEF LastBelief, LastIn
  <2>7. beliefs[Max(own)] \in BeliefRows(signals)  BY <1>2, <2>5
  <2>8. QED  BY <2>6, <2>7 DEF BeliefRows
<1>5. QED  BY <1>3, <1>4

LEMMA CycleReplaced ==
  ASSUME BeliefTyped, NEW w \in Workers, NEW c \in CycleRecords,
         cycles' = [cycles EXCEPT ![w] = c],
         signals' \in {signals, signals + 1}, c.signal <= signals',
         anchors' \in {anchors, anchors + 1},
         anchorCache' \in [Workers -> BOOLEAN],
         overlapped' \in BOOLEAN, beliefFaults' \in 0 .. MaxFaults,
         beliefs' \in Seq(BeliefRows(signals)),
         InStep(c),
         NEW j \in 1 .. MaxTicks, NEW job \in JobRecords, Runnable(job),
         broadcasts' = [broadcasts EXCEPT ![j] = job],
         \/ cycles[w].stage # "idle" /\ cycles[w].job = j
         \/ cycles[w].stage = "idle" /\ broadcasts[j].status # "active",
         c.stage # "idle" => c.job = j /\ job.status = "active"
  PROVE  BeliefTyped'
<1>1. BeliefTypeOK /\ JobsApart  BY DEF BeliefTyped
<1>2. /\ broadcasts \in [1 .. MaxTicks -> JobRecords] /\ cycles \in [Workers -> CycleRecords]
      /\ anchors \in Nat /\ signals \in Nat
  BY <1>1 DEF BeliefTypeOK, JobRecords, CycleRecords, Stages
<1>3. /\ broadcasts' \in [1 .. MaxTicks -> JobRecords] /\ cycles' \in [Workers -> CycleRecords]
      /\ anchors' \in Nat /\ signals' \in Nat /\ signals <= signals'
  BY <1>2
<1>4. cycles'[w] = c /\ \A v \in Workers : v # w => cycles'[v] = cycles[v]  BY <1>2
<1>5. broadcasts'[j] = job /\ \A i \in 1 .. MaxTicks : i # j => broadcasts'[i] = broadcasts[i]
  BY <1>2
<1>6. beliefs' \in Seq(BeliefRows(signals'))
  <2>1. 1 .. signals \subseteq 1 .. signals'  BY <1>2, <1>3
  <2>2. BeliefRows(signals) \subseteq BeliefRows(signals')  BY <2>1 DEF BeliefRows
  <2>3. QED  BY <2>2, SeqMonotonic
<1>7. BeliefTypeOK'
  BY <1>3, <1>6 DEF BeliefTypeOK, JobRecords, CycleRecords, Stages, BeliefRows
<1>8. \A v \in Workers : v # w /\ cycles[v].stage # "idle" =>
        cycles[v].job # j /\ cycles[v].job \in 1 .. MaxTicks
  BY <1>1 DEF JobsApart
<1>9. JobsApart'
  <2>1. \A i \in 1 .. MaxTicks : Runnable(broadcasts'[i])  BY <1>1, <1>5 DEF JobsApart
  <2>2. \A v \in Workers : cycles'[v].stage # "idle" =>
          cycles'[v].job \in 1 .. MaxTicks /\ broadcasts'[cycles'[v].job].status = "active"
    BY <1>1, <1>4, <1>5, <1>8 DEF JobsApart
  <2>3. \A u, v \in Workers : u # v /\ cycles'[u].stage # "idle" /\ cycles'[v].stage # "idle" =>
          cycles'[u].job # cycles'[v].job
    BY <1>1, <1>4, <1>8 DEF JobsApart
  <2>4. QED  BY <2>1, <2>2, <2>3 DEF JobsApart
<1>10. \A v \in Workers : InStep(cycles'[v]) /\ cycles'[v].signal <= signals'
  <2>1. \A v \in Workers : cycles[v].signal \in Nat  BY <1>2 DEF CycleRecords
  <2>2. SUFFICES ASSUME NEW v \in Workers PROVE InStep(cycles'[v]) /\ cycles'[v].signal <= signals'
    OBVIOUS
  <2>3. CASE v = w  BY <1>4, <2>3
  <2>4. CASE v # w
    <3>1. cycles'[v] = cycles[v] /\ InStep(cycles[v]) /\ cycles[v].signal <= signals
      BY <1>4, <2>4 DEF BeliefTyped
    <3>2. QED  BY <1>2, <1>3, <2>1, <3>1
  <2>5. QED  BY <2>3, <2>4
<1>11. QED  BY <1>7, <1>9, <1>10 DEF BeliefTyped, InStep

LEMMA IdleTyped == Idle \in CycleRecords /\ Idle.stage = "idle" /\ Idle.signal = 0 /\ InStep(Idle)
<1>1. Len(Believers) \in Nat  BY BeliefAssumption, LenProperties
<1>2. 0 \in 0 .. MaxTicks /\ 0 \in 0 .. Scale /\ 0 \in 0 .. Len(Believers)
  BY <1>1, BeliefAssumption
<1>3. <<>> \in Seq(Range(Believers))  OBVIOUS
<1>4. QED  BY <1>2, <1>3 DEF Idle, CycleRecords, Stages, InStep

LEMMA BeliefTypesStart == BeliefInit => BeliefTyped
<1> SUFFICES ASSUME BeliefInit PROVE BeliefTyped  OBVIOUS
<1>1. /\ cycles = [w \in Workers |-> Idle] /\ beliefs = <<>> /\ signals = 0 /\ anchors = 0
      /\ anchorCache = [w \in Workers |-> FALSE] /\ overlapped = FALSE /\ beliefFaults = 0
      /\ broadcasts = [j \in 1 .. MaxTicks |->
                         [status |-> "none", stalls |-> 0, report |-> NoReport]]
  BY DEF BeliefInit
<1>2. Len(Believers) \in Nat  BY BeliefAssumption, LenProperties
<1>3. NoReport \in [signal : Nat, updated : 0 .. Len(Believers)]  BY <1>2 DEF NoReport
<1>4. [status |-> "none", stalls |-> 0, report |-> NoReport] \in JobRecords
  BY <1>3 DEF JobRecords
<1>5. \A w \in Workers : cycles[w] = Idle  BY <1>1
<1>6. <<>> \in Seq(BeliefRows(0))  OBVIOUS
<1>7. BeliefTypeOK
  <2>1. broadcasts \in [1 .. MaxTicks -> JobRecords]  BY <1>1, <1>4
  <2>2. cycles \in [Workers -> CycleRecords]  BY <1>1, IdleTyped
  <2>3. beliefs \in Seq(BeliefRows(signals))  BY <1>1, <1>6
  <2>4. anchorCache \in [Workers -> BOOLEAN] /\ overlapped \in BOOLEAN  BY <1>1, Zenon
  <2>5. beliefFaults \in 0 .. MaxFaults /\ anchors \in Nat /\ signals \in Nat
    BY <1>1, BeliefAssumption
  <2>6. QED  BY <2>1, <2>2, <2>3, <2>4, <2>5
             DEF BeliefTypeOK, CycleRecords, JobRecords, BeliefRows, Stages
<1>8. JobsApart  BY <1>1, <1>5, IdleTyped DEF JobsApart, Runnable
<1>9. QED  BY <1>1, <1>5, <1>7, <1>8, IdleTyped DEF BeliefTyped

(* A running cycle goes on, and its job stays as it is.                    *)
LEMMA TypedCycleGoesOn ==
  ASSUME BeliefTyped, NEW w \in Workers, cycles[w].stage # "idle", NEW c \in CycleRecords,
         cycles' = [cycles EXCEPT ![w] = c],
         signals' \in {signals, signals + 1}, c.signal <= signals',
         anchors' \in {anchors, anchors + 1},
         anchorCache' \in [Workers -> BOOLEAN],
         Fault \/ NoFault,
         beliefs' \in Seq(BeliefRows(signals)),
         InStep(c), c.job = cycles[w].job, UNCHANGED <<broadcasts, overlapped>>
  PROVE  BeliefTyped'
<1>1. BeliefTypeOK /\ JobsApart  BY DEF BeliefTyped
<1> DEFINE j == cycles[w].job
<1>2. j \in 1 .. MaxTicks /\ broadcasts[j].status = "active"  BY <1>1 DEF JobsApart
<1>3. broadcasts[j] \in JobRecords /\ broadcasts \in [1 .. MaxTicks -> JobRecords]
  BY <1>1, <1>2 DEF BeliefTypeOK, JobRecords
<1>4. Runnable(broadcasts[j])  BY <1>1, <1>2 DEF JobsApart
<1>5. broadcasts' = [broadcasts EXCEPT ![j] = broadcasts[j]]  BY <1>2, <1>3
<1>6. overlapped' \in BOOLEAN /\ beliefFaults' \in 0 .. MaxFaults
  BY <1>1, BeliefAssumption, SMTT(30) DEF BeliefTypeOK, Fault, NoFault
<1>7. c.stage # "idle" => c.job = j /\ broadcasts[j].status = "active"  BY <1>2
<1> HIDE DEF j
<1>8. cycles[w].stage # "idle" /\ cycles[w].job = j  BY DEF j
<1>9. QED  BY ONLY <1>2, <1>3, <1>4, <1>5, <1>6, <1>7, <1>8, BeliefTyped, w \in Workers,
               c \in CycleRecords, cycles' = [cycles EXCEPT ![w] = c],
               signals' \in {signals, signals + 1}, c.signal <= signals',
               anchors' \in {anchors, anchors + 1}, anchorCache' \in [Workers -> BOOLEAN],
               beliefs' \in Seq(BeliefRows(signals)), InStep(c), CycleReplaced, ZenonT(40)

(* A job ends with its cycle, or stalls when its worker dies.              *)
LEMMA TypedCycleEnds ==
  ASSUME BeliefTyped, NEW w \in Workers, cycles[w].stage # "idle",
         NEW job \in JobRecords, Runnable(job),
         broadcasts' = [broadcasts EXCEPT ![cycles[w].job] = job],
         cycles' = [cycles EXCEPT ![w] = Idle],
         signals' \in {signals, signals + 1}, anchors' \in {anchors, anchors + 1},
         anchorCache' \in [Workers -> BOOLEAN], Fault \/ NoFault,
         UNCHANGED <<beliefs, overlapped>>
  PROVE  BeliefTyped'
<1>1. BeliefTypeOK /\ JobsApart  BY DEF BeliefTyped
<1> DEFINE j == cycles[w].job
<1>2. j \in 1 .. MaxTicks  BY <1>1 DEF JobsApart
<1>3. overlapped' \in BOOLEAN /\ beliefFaults' \in 0 .. MaxFaults
  BY <1>1, BeliefAssumption DEF BeliefTypeOK, Fault, NoFault
<1>4. beliefs' \in Seq(BeliefRows(signals)) /\ signals \in Nat
  BY <1>1 DEF BeliefTypeOK, BeliefRows
<1>5. Idle.signal <= signals'  BY <1>4, IdleTyped
<1>6. broadcasts' = [broadcasts EXCEPT ![j] = job]  OBVIOUS
<1> HIDE DEF j
<1>7. cycles[w].stage # "idle" /\ cycles[w].job = j  BY DEF j
<1>8. QED  BY ONLY <1>2, <1>3, <1>4, <1>5, <1>6, <1>7, BeliefTyped, w \in Workers,
               job \in JobRecords, Runnable(job), cycles' = [cycles EXCEPT ![w] = Idle],
               signals' \in {signals, signals + 1}, anchors' \in {anchors, anchors + 1},
               anchorCache' \in [Workers -> BOOLEAN], IdleTyped, CycleReplaced, ZenonT(40)

LEMMA TypedJobEnds ==
  ASSUME BeliefTyped, NEW w \in Workers, cycles[w].stage # "idle",
         FailJob(w) \/ CycleError(w) \/ EndJob(w, "completed", [signal |-> cycles[w].signal,
                                                                updated |-> cycles[w].updated]),
         signals' \in {signals, signals + 1}, anchors' \in {anchors, anchors + 1},
         anchorCache' \in [Workers -> BOOLEAN], Fault \/ NoFault,
         UNCHANGED <<beliefs, overlapped>>
  PROVE  BeliefTyped'
<1>1. BeliefTypeOK /\ JobsApart  BY DEF BeliefTyped
<1>2. /\ cycles[w] \in CycleRecords /\ broadcasts \in [1 .. MaxTicks -> JobRecords]
      /\ Len(Believers) \in Nat
  BY <1>1, BeliefAssumption, LenProperties DEF BeliefTypeOK, CycleRecords, JobRecords, Stages
<1> DEFINE Reports == [signal : Nat, updated : 0 .. Len(Believers)]
<1>3. PICK status \in {"completed", "failed"}, report \in Reports : EndJob(w, status, report)
  <2>1. /\ NoReport \in Reports /\ [signal |-> cycles[w].signal, updated |-> 0] \in Reports
        /\ [signal |-> cycles[w].signal, updated |-> cycles[w].updated] \in Reports
    BY <1>2 DEF NoReport, CycleRecords
  <2>2. QED  BY <2>1 DEF FailJob, CycleError
<1> DEFINE job == [broadcasts[cycles[w].job] EXCEPT !.status = status, !.report = report]
<1>4. cycles[w].job \in 1 .. MaxTicks  BY <1>1 DEF JobsApart
<1>5. broadcasts[cycles[w].job] \in JobRecords  BY <1>2, <1>4
<1>6. job \in JobRecords /\ job.status = status  BY <1>5, ZenonT(40) DEF JobRecords
<1> HIDE DEF Reports
<1>7. broadcasts' = [broadcasts EXCEPT ![cycles[w].job] = job] /\ cycles' = [cycles EXCEPT ![w] = Idle]
  BY ONLY <1>3, ZenonT(40) DEF EndJob
<1> HIDE DEF job
<1>8. Runnable(job)  BY <1>6 DEF Runnable
<1>9. QED  BY <1>6, <1>7, <1>8, TypedCycleEnds

LEMMA TypedTake ==
  ASSUME BeliefTyped, NEW w \in Workers, TakeJob(w) PROVE BeliefTyped'
<1>1. BeliefTypeOK /\ JobsApart  BY DEF BeliefTyped
<1>2. PICK j \in 1 .. MaxTicks :
        /\ broadcasts[j].status = "waiting"
        /\ broadcasts' = [broadcasts EXCEPT ![j].status = "active"]
        /\ cycles' = [cycles EXCEPT ![w] = [Idle EXCEPT !.stage = "fetch", !.job = j]]
  BY DEF TakeJob
<1> DEFINE c == [Idle EXCEPT !.stage = "fetch", !.job = j]
           job == [broadcasts[j] EXCEPT !.status = "active"]
<1>3. broadcasts[j] \in JobRecords  BY <1>1 DEF BeliefTypeOK, JobRecords
<1>4. job \in JobRecords /\ job.status = "active" /\ job.stalls = broadcasts[j].stalls
  BY <1>3 DEF JobRecords
<1>5. Runnable(job)  BY <1>1, <1>2, <1>4 DEF JobsApart, Runnable
<1>6. /\ c \in CycleRecords /\ c.stage = "fetch" /\ c.job = j /\ c.signal = 0 /\ c.updated = 0
  <2>1. j \in 0 .. MaxTicks  BY BeliefAssumption
  <2>2. Idle.updated = 0  BY DEF Idle
  <2>3. QED  BY <2>1, <2>2, IdleTyped DEF CycleRecords, Stages
<1>7. InStep(c)  BY <1>6 DEF InStep
<1>8. signals \in Nat /\ beliefs \in Seq(BeliefRows(signals))  BY <1>1 DEF BeliefTypeOK, BeliefRows
<1>9. /\ UNCHANGED <<anchorCache, anchors, signals, beliefs, beliefFaults>>
      /\ overlapped' \in BOOLEAN /\ cycles[w].stage = "idle"
  BY <1>1 DEF TakeJob, BeliefTypeOK
<1>10. anchorCache' \in [Workers -> BOOLEAN] /\ beliefFaults' \in 0 .. MaxFaults
       /\ c.signal <= signals' /\ beliefs' \in Seq(BeliefRows(signals))
  BY <1>1, <1>6, <1>8, <1>9 DEF BeliefTypeOK
<1>11. broadcasts' = [broadcasts EXCEPT ![j] = job] /\ cycles' = [cycles EXCEPT ![w] = c]
       /\ broadcasts[j].status # "active"
  BY <1>2
<1> HIDE DEF c, job
<1>12. QED  BY <1>4, <1>5, <1>6, <1>7, <1>9, <1>10, <1>11, CycleReplaced

LEMMA TypedTick == BeliefTyped /\ ScheduleTick => BeliefTyped'
<1> SUFFICES ASSUME BeliefTyped, ScheduleTick PROVE BeliefTyped'  OBVIOUS
<1>1. BeliefTypeOK /\ JobsApart  BY DEF BeliefTyped
<1>2. UNCHANGED <<cycles, anchorCache, anchors, signals, beliefs, overlapped, beliefFaults>>
  BY DEF ScheduleTick
<1>3. PICK j \in 1 .. MaxTicks : broadcasts[j].status = "none"
                                /\ broadcasts' = [broadcasts EXCEPT ![j].status = "waiting"]
  BY DEF ScheduleTick
<1> DEFINE job == [broadcasts[j] EXCEPT !.status = "waiting"]
<1>4. broadcasts \in [1 .. MaxTicks -> JobRecords]  BY <1>1 DEF BeliefTypeOK, JobRecords
<1>5. job \in JobRecords /\ job.stalls = broadcasts[j].stalls  BY <1>4 DEF JobRecords
<1>6. broadcasts' = [broadcasts EXCEPT ![j] = job]  BY <1>3
<1> HIDE DEF job
<1>7. /\ broadcasts' \in [1 .. MaxTicks -> JobRecords]
      /\ broadcasts'[j] = job /\ \A i \in 1 .. MaxTicks : i # j => broadcasts'[i] = broadcasts[i]
  BY <1>4, <1>5, <1>6
<1>8. BeliefTypeOK'
  <2>1. beliefs' \in Seq(BeliefRows(signals'))  BY <1>1, <1>2 DEF BeliefTypeOK, BeliefRows
  <2>2. cycles' \in [Workers -> CycleRecords]  BY <1>1, <1>2 DEF BeliefTypeOK, CycleRecords, Stages
  <2>3. QED  BY <1>1, <1>2, <1>7, <2>1, <2>2
             DEF BeliefTypeOK, JobRecords, CycleRecords, Stages, BeliefRows
<1>9. JobsApart'
  <2>1. Runnable(job)  BY <1>1, <1>3, <1>5 DEF JobsApart, Runnable
  <2>2. \A i \in 1 .. MaxTicks : Runnable(broadcasts'[i])  BY <1>1, <1>7, <2>1 DEF JobsApart
  <2>3. \A v \in Workers : cycles[v].stage # "idle" =>
          cycles[v].job \in 1 .. MaxTicks /\ broadcasts'[cycles[v].job].status = "active"
    BY <1>1, <1>3, <1>7 DEF JobsApart
  <2>4. QED  BY <1>1, <1>2, <2>2, <2>3 DEF JobsApart
<1>10. QED  BY <1>2, <1>8, <1>9 DEF BeliefTyped, InStep

LEMMA TypedFetch ==
  ASSUME BeliefTyped, NEW w \in Workers, FetchSignal(w) PROVE BeliefTyped'
<1>1. BeliefTypeOK  BY DEF BeliefTyped
<1>2. /\ cycles[w].stage = "fetch" /\ (Fault \/ NoFault)
      /\ UNCHANGED <<anchorCache, anchors, signals, beliefs, overlapped>>
  BY DEF FetchSignal
<1>3. /\ cycles[w] \in CycleRecords /\ InStep(cycles[w]) /\ cycles[w].signal <= signals
      /\ signals \in Nat /\ anchorCache' \in [Workers -> BOOLEAN]
      /\ beliefs' \in Seq(BeliefRows(signals))
  BY <1>1, <1>2 DEF BeliefTyped, BeliefTypeOK, CycleRecords, BeliefRows, Stages
<1>4. CASE FailJob(w)  BY <1>2, <1>3, <1>4, TypedJobEnds
<1>5. ASSUME NEW confidence \in Confidences \cup {Half}, UNCHANGED broadcasts,
             cycles' = [cycles EXCEPT ![w].stage = "persist", ![w].confidence = confidence]
      PROVE  BeliefTyped'
  <2> DEFINE c == [cycles[w] EXCEPT !.stage = "persist", !.confidence = confidence]
  <2>1. confidence \in 0 .. Scale  BY BeliefAssumption DEF Half
  <2>2. /\ c \in CycleRecords /\ c.stage = "persist" /\ c.signal = cycles[w].signal
        /\ c.updated = cycles[w].updated /\ c.job = cycles[w].job
    BY <1>3, <2>1 DEF CycleRecords, Stages
  <2>3. cycles' = [cycles EXCEPT ![w] = c]  BY <1>5
  <2> HIDE DEF c
  <2>4. InStep(c)  BY <1>2, <1>3, <2>2 DEF InStep
  <2>5. QED  BY <1>2, <1>3, <1>5, <2>2, <2>3, <2>4, TypedCycleGoesOn
<1>6. QED  BY <1>4, <1>5 DEF FetchSignal

LEMMA TypedPersist ==
  ASSUME BeliefTyped, NEW w \in Workers, PersistSignal(w) PROVE BeliefTyped'
<1>1. BeliefTypeOK  BY DEF BeliefTyped
<1>2. /\ cycles[w].stage = "persist" /\ (Fault \/ NoFault) /\ signals' \in {signals, signals + 1}
      /\ UNCHANGED <<anchorCache, anchors, beliefs, overlapped>>
  BY DEF PersistSignal
<1>3. /\ cycles[w] \in CycleRecords /\ InStep(cycles[w]) /\ cycles[w].signal <= signals
      /\ signals \in Nat /\ anchorCache' \in [Workers -> BOOLEAN]
      /\ beliefs' \in Seq(BeliefRows(signals))
  BY <1>1, <1>2 DEF BeliefTyped, BeliefTypeOK, CycleRecords, BeliefRows, Stages
<1>4. CASE FailJob(w)  BY <1>2, <1>3, <1>4, TypedJobEnds
<1>5. ASSUME NEW signal \in {MockSignal, signals'}, UNCHANGED broadcasts,
             cycles' = [cycles EXCEPT ![w].stage = "load", ![w].signal = signal]
      PROVE  BeliefTyped'
  <2> DEFINE c == [cycles[w] EXCEPT !.stage = "load", !.signal = signal]
  <2>1. signal \in Nat /\ signal <= signals'  BY <1>2, <1>3 DEF MockSignal
  <2>2. /\ c \in CycleRecords /\ c.stage = "load" /\ c.signal = signal
        /\ c.updated = cycles[w].updated /\ c.job = cycles[w].job
    BY <1>3, <2>1 DEF CycleRecords, Stages
  <2>3. cycles' = [cycles EXCEPT ![w] = c]  BY <1>5
  <2> HIDE DEF c
  <2>4. InStep(c)  BY <1>2, <1>3, <2>2 DEF InStep
  <2>5. QED  BY <1>2, <1>3, <1>5, <2>1, <2>2, <2>3, <2>4, TypedCycleGoesOn
<1>6. QED  BY <1>2, <1>4, <1>5 DEF PersistSignal

LEMMA TypedLoad ==
  ASSUME BeliefTyped, NEW w \in Workers, LoadAgents(w) PROVE BeliefTyped'
<1>1. BeliefTypeOK  BY DEF BeliefTyped
<1>2. /\ cycles[w].stage = "load" /\ (Fault \/ NoFault)
      /\ UNCHANGED <<anchors, signals, beliefs, overlapped>>
  BY DEF LoadAgents
<1>3. /\ cycles[w] \in CycleRecords /\ InStep(cycles[w]) /\ cycles[w].signal <= signals
      /\ signals \in Nat /\ anchorCache \in [Workers -> BOOLEAN] /\ anchors \in Nat
      /\ beliefs' \in Seq(BeliefRows(signals))
  BY <1>1, <1>2 DEF BeliefTyped, BeliefTypeOK, CycleRecords, BeliefRows, Stages
<1>4. CASE CycleError(w) /\ UNCHANGED anchorCache  BY <1>2, <1>3, <1>4, TypedJobEnds
<1>5. ASSUME NEW known \in BOOLEAN, UNCHANGED broadcasts,
             anchorCache' = [anchorCache EXCEPT ![w] = known],
             cycles' = [cycles EXCEPT ![w].todo = Believers,
                                      ![w].stage = IF known THEN "prior" ELSE "create_anchor"]
      PROVE  BeliefTyped'
  <2> DEFINE stage == IF known THEN "prior" ELSE "create_anchor"
             c == [cycles[w] EXCEPT !.todo = Believers, !.stage = stage]
  <2>1. Believers \in Seq(Range(Believers)) /\ Len(Believers) \in Nat
    BY BeliefAssumption, LenProperties
  <2>2. stage \in {"prior", "create_anchor"}  OBVIOUS
  <2>3. cycles' = [cycles EXCEPT ![w] = c]  BY <1>5
  <2> HIDE DEF stage
  <2>4. /\ c \in CycleRecords /\ c.stage = stage /\ c.signal = cycles[w].signal
        /\ c.updated = cycles[w].updated /\ c.job = cycles[w].job /\ c.todo = Believers
    BY <1>3, <2>1, <2>2 DEF CycleRecords, Stages
  <2> HIDE DEF c
  <2>5. InStep(c)  BY <1>2, <1>3, <2>1, <2>2, <2>4 DEF InStep
  <2>6. anchorCache' \in [Workers -> BOOLEAN]  BY <1>3, <1>5, Zenon
  <2>7. QED  BY <1>2, <1>3, <1>5, <2>3, <2>4, <2>5, <2>6, TypedCycleGoesOn
<1>6. CASE UNCHANGED broadcasts /\ \E known \in BOOLEAN :
             /\ anchorCache' = [anchorCache EXCEPT ![w] = known]
             /\ cycles' = [cycles EXCEPT ![w].todo = Believers,
                                         ![w].stage = IF known THEN "prior" ELSE "create_anchor"]
  BY <1>5, <1>6
<1>7. QED
  <2> DEFINE found == anchorCache[w] \/ anchors > 0
  <2>1. found \in BOOLEAN  OBVIOUS
  <2>2. CASE /\ UNCHANGED broadcasts /\ anchorCache' = [anchorCache EXCEPT ![w] = found]
             /\ cycles' = [cycles EXCEPT ![w].todo = Believers,
                                         ![w].stage = IF found THEN "prior" ELSE "create_anchor"]
    <3> HIDE DEF found
    <3>1. QED  BY <1>6, <2>1, <2>2
  <2>3. QED  BY <1>4, <2>2 DEF LoadAgents

LEMMA TypedAnchor ==
  ASSUME BeliefTyped, NEW w \in Workers, CreateAnchor(w) PROVE BeliefTyped'
<1>1. BeliefTypeOK  BY DEF BeliefTyped
<1>2. /\ cycles[w].stage = "create_anchor" /\ (Fault \/ NoFault)
      /\ anchors' \in {anchors, anchors + 1}
      /\ UNCHANGED <<signals, beliefs, overlapped>>
  BY DEF CreateAnchor
<1>3. /\ cycles[w] \in CycleRecords /\ InStep(cycles[w]) /\ cycles[w].signal <= signals
      /\ signals \in Nat /\ anchorCache \in [Workers -> BOOLEAN]
      /\ beliefs' \in Seq(BeliefRows(signals))
  BY <1>1, <1>2 DEF BeliefTyped, BeliefTypeOK, CycleRecords, BeliefRows, Stages
<1>4. CASE CycleError(w) /\ UNCHANGED anchorCache  BY <1>2, <1>3, <1>4, TypedJobEnds
<1>5. CASE Goto(w, "prior") /\ UNCHANGED broadcasts
           /\ anchorCache' = [anchorCache EXCEPT ![w] = TRUE]
  <2> DEFINE c == [cycles[w] EXCEPT !.stage = "prior"]
  <2>1. /\ c \in CycleRecords /\ c.stage = "prior" /\ c.signal = cycles[w].signal
        /\ c.updated = cycles[w].updated /\ c.job = cycles[w].job /\ c.todo = cycles[w].todo
    BY <1>3 DEF CycleRecords, Stages
  <2>2. cycles' = [cycles EXCEPT ![w] = c]  BY <1>5 DEF Goto
  <2> HIDE DEF c
  <2>3. InStep(c)  BY <1>2, <1>3, <2>1 DEF InStep
  <2>4. anchorCache' \in [Workers -> BOOLEAN]  BY <1>3, <1>5, Zenon
  <2>5. QED  BY <1>2, <1>3, <1>5, <2>1, <2>2, <2>3, <2>4, TypedCycleGoesOn
<1>6. QED  BY <1>4, <1>5 DEF CreateAnchor

LEMMA TypedPrior ==
  ASSUME BeliefTyped, NEW w \in Workers, ReadPrior(w) PROVE BeliefTyped'
<1>1. BeliefTypeOK  BY DEF BeliefTyped
<1>2. /\ cycles[w].stage = "prior" /\ (Fault \/ NoFault) /\ cycles[w].todo # <<>>
      /\ UNCHANGED <<broadcasts, anchorCache, anchors, signals, beliefs, overlapped>>
  BY DEF ReadPrior
<1>3. /\ cycles[w] \in CycleRecords /\ InStep(cycles[w]) /\ cycles[w].signal <= signals
      /\ signals \in Nat /\ anchorCache' \in [Workers -> BOOLEAN]
      /\ beliefs' \in Seq(BeliefRows(signals))
  BY <1>1, <1>2 DEF BeliefTyped, BeliefTypeOK, CycleRecords, BeliefRows, Stages
<1>4. CASE cycles' = [cycles EXCEPT ![w].stage = "write",
                                    ![w].prior = LastBelief(Head(cycles[w].todo))]
  <2> DEFINE last == LastBelief(Head(cycles[w].todo))
             c == [cycles[w] EXCEPT !.stage = "write", !.prior = last]
  <2>1. last \in Believable  BY <1>1, LastBelievable
  <2>2. cycles' = [cycles EXCEPT ![w] = c]  BY <1>4
  <2> HIDE DEF last
  <2>3. /\ c \in CycleRecords /\ c.stage = "write" /\ c.signal = cycles[w].signal /\ c.prior = last
        /\ c.updated = cycles[w].updated /\ c.job = cycles[w].job /\ c.todo = cycles[w].todo
    BY <1>3, <2>1 DEF CycleRecords, Stages
  <2> HIDE DEF c
  <2>4. InStep(c)  BY <1>2, <1>3, <2>1, <2>3 DEF InStep
  <2>5. QED  BY <1>2, <1>3, <2>2, <2>3, <2>4, TypedCycleGoesOn
<1>5. CASE cycles' = [cycles EXCEPT ![w].todo = Tail(@)]
  <2> DEFINE c == [cycles[w] EXCEPT !.todo = Tail(cycles[w].todo)]
  <2>1. /\ Tail(cycles[w].todo) \in Seq(Range(Believers))
        /\ Len(Tail(cycles[w].todo)) = Len(cycles[w].todo) - 1
        /\ Len(cycles[w].todo) \in Nat /\ Len(Believers) \in Nat
    BY <1>2, <1>3, HeadTailProperties, LenProperties, BeliefAssumption DEF CycleRecords
  <2>2. cycles' = [cycles EXCEPT ![w] = c]  BY <1>5
  <2>3. /\ c \in CycleRecords /\ c.stage = "prior" /\ c.signal = cycles[w].signal
        /\ c.updated = cycles[w].updated /\ c.job = cycles[w].job
        /\ c.todo = Tail(cycles[w].todo)
    BY <1>2, <1>3, <2>1 DEF CycleRecords, Stages
  <2> HIDE DEF c
  <2>4. c.updated \in Nat  BY <2>1, <2>3 DEF CycleRecords
  <2>5. InStep(c)  BY <1>2, <1>3, <2>1, <2>3, <2>4 DEF InStep
  <2>6. QED  BY <1>2, <1>3, <2>2, <2>3, <2>5, TypedCycleGoesOn
<1>6. QED  BY <1>4, <1>5 DEF ReadPrior

LEMMA TypedWrite ==
  ASSUME BeliefTyped, NEW w \in Workers, WriteBelief(w) PROVE BeliefTyped'
<1>1. BeliefTypeOK  BY DEF BeliefTyped
<1>2. /\ cycles[w].stage = "write" /\ (Fault \/ NoFault)
      /\ UNCHANGED <<broadcasts, anchorCache, anchors, signals, overlapped>>
  BY DEF WriteBelief
<1>3. /\ cycles[w] \in CycleRecords /\ InStep(cycles[w]) /\ cycles[w].signal <= signals
      /\ signals \in Nat /\ anchorCache' \in [Workers -> BOOLEAN]
      /\ beliefs \in Seq(BeliefRows(signals))
  BY <1>1, <1>2 DEF BeliefTyped, BeliefTypeOK, CycleRecords, BeliefRows, Stages
<1> DEFINE Moved(done) == [cycles[w] EXCEPT !.stage = "prior", !.todo = Tail(cycles[w].todo),
                             !.prior = 0, !.updated = cycles[w].updated + done]
<1>4. \E done \in {0, 1} : cycles' = [cycles EXCEPT ![w] = Moved(done)]
  BY DEF WriteBelief
<1>5. /\ Tail(cycles[w].todo) \in Seq(Range(Believers))
      /\ Len(Tail(cycles[w].todo)) = Len(cycles[w].todo) - 1
      /\ Len(cycles[w].todo) \in Nat /\ Len(cycles[w].todo) > 0 /\ Len(Believers) \in Nat
      /\ Head(cycles[w].todo) \in Range(Believers)
  BY <1>2, <1>3, HeadTailProperties, LenProperties, EmptySeq, BeliefAssumption
     DEF CycleRecords, InStep
<1>6. beliefs' \in Seq(BeliefRows(signals))
  <2>1. CASE UNCHANGED beliefs  BY <1>3, <2>1
  <2>2. CASE cycles[w].signal # MockSignal /\ beliefs' = Append(beliefs, BeliefRow(cycles[w]))
    <3>1. cycles[w].signal \in 1 .. signals  BY <1>3, <2>2 DEF CycleRecords, MockSignal
    <3>2. /\ cycles[w].prior \in Believable /\ cycles[w].confidence \in 0 .. Scale
      BY <1>2, <1>3 DEF InStep, CycleRecords
    <3>3. Posterior(cycles[w].prior, cycles[w].confidence) \in Believable
      BY <3>2, PosteriorsClamped
    <3>4. BeliefRow(cycles[w]) \in BeliefRows(signals)
      BY <1>5, <3>1, <3>2, <3>3 DEF BeliefRow, BeliefRows
    <3>5. QED  BY <1>3, <2>2, <3>4, AppendProperties
  <2>3. QED  BY <2>1, <2>2 DEF WriteBelief
<1> HIDE DEF Moved
<1>7. PICK done \in {0, 1} : cycles' = [cycles EXCEPT ![w] = Moved(done)]  BY <1>4
<1> DEFINE c == Moved(done)
<1>8. /\ cycles[w].updated \in Nat
      /\ cycles[w].updated + Len(cycles[w].todo) <= Len(Believers)
  BY <1>2, <1>3 DEF CycleRecords, InStep
<1>9. /\ c \in CycleRecords /\ c.stage = "prior" /\ c.signal = cycles[w].signal
      /\ c.updated = cycles[w].updated + done /\ c.job = cycles[w].job
      /\ c.todo = Tail(cycles[w].todo)
  <2>1. cycles[w].updated + done \in 0 .. Len(Believers)  BY <1>5, <1>8
  <2>2. QED  BY <1>3, <1>5, <2>1 DEF CycleRecords, Stages, Moved
<1> HIDE DEF c
<1>10. InStep(c)  BY <1>5, <1>8, <1>9 DEF InStep
<1>11. cycles' = [cycles EXCEPT ![w] = c]  BY <1>7 DEF c
<1>12. signals' \in {signals, signals + 1} /\ c.signal <= signals'
       /\ anchors' \in {anchors, anchors + 1}
  BY <1>2, <1>3, <1>9
<1>13. cycles[w].stage # "idle"  BY <1>2
<1>14. QED  BY <1>2, <1>3, <1>6, <1>9, <1>10, <1>11, <1>12, <1>13, TypedCycleGoesOn

LEMMA TypedReport ==
  ASSUME BeliefTyped, NEW w \in Workers, ReportCycle(w) PROVE BeliefTyped'
<1>1. /\ cycles[w].stage = "prior"
      /\ EndJob(w, "completed", [signal |-> cycles[w].signal, updated |-> cycles[w].updated])
      /\ UNCHANGED <<anchorCache, anchors, signals, beliefs, overlapped>> /\ NoFault
  BY DEF ReportCycle, NoFault
<1>2. anchorCache' \in [Workers -> BOOLEAN]  BY <1>1 DEF BeliefTyped, BeliefTypeOK
<1>3. QED  BY <1>1, <1>2, TypedJobEnds

LEMMA TypedCrash ==
  ASSUME BeliefTyped, NEW w \in Workers, CrashWorker(w) PROVE BeliefTyped'
<1> DEFINE j == cycles[w].job
           status == IF broadcasts[j].stalls = 0 THEN "waiting" ELSE "failed"
           job == [broadcasts[j] EXCEPT !.stalls = broadcasts[j].stalls + 1, !.status = status]
<1>1. /\ cycles[w].stage # "idle" /\ cycles' = [cycles EXCEPT ![w] = Idle] /\ Fault
      /\ broadcasts' = [broadcasts EXCEPT ![j] = job]
      /\ UNCHANGED <<anchors, signals, beliefs, overlapped>>
      /\ anchorCache' = [anchorCache EXCEPT ![w] = FALSE]
  BY DEF CrashWorker
<1>2. BeliefTypeOK /\ JobsApart  BY DEF BeliefTyped
<1>3. j \in 1 .. MaxTicks /\ broadcasts[j].status = "active" /\ Runnable(broadcasts[j])
  BY <1>1, <1>2 DEF JobsApart
<1>4. broadcasts[j] \in JobRecords /\ broadcasts[j].stalls <= 1
  BY <1>2, <1>3 DEF BeliefTypeOK, JobRecords, Runnable
<1>5. status \in {"waiting", "failed"} /\ (status = "waiting" => broadcasts[j].stalls = 0)
  OBVIOUS
<1>6. broadcasts[j].stalls + 1 \in 0 .. 2  BY <1>4 DEF JobRecords
<1> HIDE DEF status
<1>7. job \in JobRecords /\ job.status = status /\ job.stalls = broadcasts[j].stalls + 1
  BY <1>4, <1>5, <1>6 DEF JobRecords
<1>8. Runnable(job)  BY <1>5, <1>7 DEF Runnable
<1>9. anchorCache' \in [Workers -> BOOLEAN]
  <2>1. anchorCache \in [Workers -> BOOLEAN]  BY <1>2 DEF BeliefTypeOK
  <2>2. QED  BY <1>1, <2>1, Zenon
<1>10. broadcasts' = [broadcasts EXCEPT ![cycles[w].job] = job]  BY <1>1
<1> HIDE DEF job, j
<1>11. QED  BY <1>1, <1>7, <1>8, <1>9, <1>10, TypedCycleEnds

LEMMA BeliefTypesKept ==
  BeliefTyped /\ [BeliefNext]_beliefVars => BeliefTyped'
<1> SUFFICES ASSUME BeliefTyped, [BeliefNext]_beliefVars PROVE BeliefTyped'  OBVIOUS
<1>1. CASE UNCHANGED beliefVars
  <2>1. BeliefTypeOK'  BY <1>1 DEF BeliefTyped, BeliefTypeOK, beliefVars
  <2>2. QED  BY <1>1, <2>1 DEF BeliefTyped, JobsApart, Runnable, InStep, beliefVars
<1>2. CASE BeliefNext
  BY <1>2, TypedTick, TypedTake, TypedFetch, TypedPersist, TypedLoad, TypedAnchor, TypedPrior,
     TypedWrite, TypedReport, TypedCrash
     DEF BeliefNext, RunCycle
<1>3. QED  BY <1>1, <1>2

(* What is stored of a belief stays between the clamps                     *)
(* (beliefUpdateService.ts:72-89), so that the evidence of the next update *)
(* is never zero; a job is run by one worker at a time and stalls at most  *)
(* twice; and a cycle updates no more agents than there are, whatever      *)
(* fails.                                                                  *)
THEOREM BeliefsTyped == BeliefSpec => []BeliefTypeOK
<1>1. BeliefTyped => BeliefTypeOK  BY DEF BeliefTyped
<1>2. [BeliefNext /\ UNCHANGED production]_<<beliefVars, production>> => [BeliefNext]_beliefVars
  OBVIOUS
<1>3. QED  BY <1>1, <1>2, BeliefTypesStart, BeliefTypesKept, PTL DEF BeliefSpec

-------------------------------------------------------------------------------
(* How much a broadcast has still to do.  RunsLeft counts down the times   *)
(* its job is queued and taken, the second time after a stall; CycleLeft   *)
(* the awaited calls of the cycle that runs it, two for each agent of the  *)
(* loop.                                                                   *)
RunsLeft(job) ==
  CASE job.status = "none"    -> 5
    [] job.status = "waiting" -> 4 - 2 * job.stalls
    [] job.status = "active"  -> 3 - 2 * job.stalls
    [] OTHER                  -> 0

CycleLeft(c) ==
  CASE c.stage = "fetch"         -> 2 * Len(Believers) + 5
    [] c.stage = "persist"       -> 2 * Len(Believers) + 4
    [] c.stage = "load"          -> 2 * Len(Believers) + 3
    [] c.stage = "create_anchor" -> 2 * Len(c.todo) + 2
    [] c.stage = "prior"         -> 2 * Len(c.todo) + 1
    [] c.stage = "write"         -> 2 * Len(c.todo)
    [] OTHER                     -> 0

RunsLower == \E j \in 1 .. MaxTicks :
  /\ RunsLeft(broadcasts[j])' < RunsLeft(broadcasts[j])
  /\ \A i \in 1 .. MaxTicks : i # j => broadcasts'[i] = broadcasts[i]

CycleLowers == \E w \in Workers :
  /\ UNCHANGED broadcasts
  /\ CycleLeft(cycles[w])' < CycleLeft(cycles[w])
  /\ \A v \in Workers : v # w => cycles'[v] = cycles[v]

LeftBounded ==
  /\ \A j \in 1 .. MaxTicks : RunsLeft(broadcasts[j]) \in 0 .. 5
  /\ \A w \in Workers : CycleLeft(cycles[w]) \in 0 .. 2 * Len(Believers) + 5

(* oracleBroadcastWorker.ts:173-230, beliefUpdateService.ts:110-195.       *)
(* Whatever fails and whoever dies, a step either uses up one of the       *)
(* bounded number of times a job is queued and taken, or one of the calls  *)
(* of one cycle: after as many steps as these allow the queue is empty.    *)
BroadcastsRunOut == [][(RunsLower \/ CycleLowers) /\ LeftBounded']_beliefVars

(* oracleBroadcastWorker.ts:173-230.  No job is lost: one that is active   *)
(* is being run, so whenever workers are idle every broadcast is yet to be *)
(* scheduled, waits in the queue, or has ended.                            *)
RunBy(w, j) == cycles[w].stage # "idle" /\ cycles[w].job = j
Attended == \A j \in 1 .. MaxTicks :
  broadcasts[j].status = "active" => \E w \in Workers : RunBy(w, j)

LEMMA WhatIsLeft == BeliefTyped => LeftBounded
<1> SUFFICES ASSUME BeliefTyped PROVE LeftBounded  OBVIOUS
<1>1. BeliefTypeOK /\ JobsApart  BY DEF BeliefTyped
<1>2. Len(Believers) \in Nat  BY BeliefAssumption, LenProperties
<1>3. ASSUME NEW j \in 1 .. MaxTicks PROVE RunsLeft(broadcasts[j]) \in 0 .. 5
  <2>1. broadcasts[j] \in JobRecords /\ Runnable(broadcasts[j])
    BY <1>1 DEF BeliefTypeOK, JobRecords, JobsApart
  <2>2. QED  BY <2>1 DEF JobRecords, Runnable, RunsLeft
<1>4. ASSUME NEW w \in Workers PROVE CycleLeft(cycles[w]) \in 0 .. 2 * Len(Believers) + 5
  <2>1. cycles[w] \in CycleRecords /\ InStep(cycles[w])
    BY <1>1 DEF BeliefTypeOK, CycleRecords, Stages, BeliefTyped
  <2>2. Len(cycles[w].todo) \in Nat /\ cycles[w].updated \in Nat
    BY <1>2, <2>1, LenProperties DEF CycleRecords
  <2>3. cycles[w].stage \in {"create_anchor", "prior", "write"} =>
          Len(cycles[w].todo) <= Len(Believers)
    BY <1>2, <2>1, <2>2 DEF InStep
  <2>4. QED  BY <1>2, <2>2, <2>3 DEF CycleLeft
<1>5. QED  BY <1>3, <1>4 DEF LeftBounded

(* The steps, by what they move: a job, or a cycle that goes on.           *)
LEMMA JobAdvances ==
  ASSUME BeliefTyped, Attended, NEW j \in 1 .. MaxTicks, NEW job,
         broadcasts' = [broadcasts EXCEPT ![j] = job],
         RunsLeft(job) < RunsLeft(broadcasts[j]),
         \A v \in Workers, i \in 1 .. MaxTicks : i # j /\ RunBy(v, i) => RunBy(v, i)',
         job.status = "active" => \E v \in Workers : RunBy(v, j)'
  PROVE  Attended' /\ RunsLower
<1>1. broadcasts \in [1 .. MaxTicks -> JobRecords]
  BY DEF BeliefTyped, BeliefTypeOK, JobRecords
<1>2. broadcasts'[j] = job /\ \A i \in 1 .. MaxTicks : i # j => broadcasts'[i] = broadcasts[i]
  BY <1>1
<1>3. RunsLower
  <2>1. RunsLeft(broadcasts[j])' = RunsLeft(job)  BY <1>2 DEF RunsLeft
  <2>2. QED  BY <1>2, <2>1 DEF RunsLower
<1>4. Attended'
  <2> SUFFICES ASSUME NEW i \in 1 .. MaxTicks, broadcasts'[i].status = "active"
               PROVE  \E v \in Workers : RunBy(v, i)'
    BY DEF Attended
  <2>1. CASE i = j  BY <1>2, <2>1
  <2>2. CASE i # j  BY <1>2, <2>2 DEF Attended
  <2>3. QED  BY <2>1, <2>2
<1>5. QED  BY <1>3, <1>4

LEMMA RunGoesOn ==
  ASSUME BeliefTyped, Attended, NEW w \in Workers, NEW c, UNCHANGED broadcasts,
         cycles' = [cycles EXCEPT ![w] = c], c.stage # "idle", c.job = cycles[w].job,
         CycleLeft(c) < CycleLeft(cycles[w])
  PROVE  Attended' /\ CycleLowers
<1>1. cycles \in [Workers -> CycleRecords]
  BY DEF BeliefTyped, BeliefTypeOK, CycleRecords, Stages
<1>2. cycles'[w] = c /\ \A v \in Workers : v # w => cycles'[v] = cycles[v]
  BY <1>1
<1>3. CycleLowers
  <2>1. CycleLeft(cycles[w])' = CycleLeft(c)  BY <1>2 DEF CycleLeft
  <2>2. QED  BY <1>2, <2>1 DEF CycleLowers
<1>4. Attended'  BY <1>2 DEF Attended, RunBy
<1>5. QED  BY <1>3, <1>4

(* A cycle ends and its job does too, or goes back to the queue once.      *)
LEMMA RunStops ==
  ASSUME BeliefTyped, Attended, NEW w \in Workers, cycles[w].stage # "idle", NEW job,
         broadcasts' = [broadcasts EXCEPT ![cycles[w].job] = job],
         cycles' = [cycles EXCEPT ![w] = Idle],
         \/ job.status \in {"completed", "failed"}
         \/ job.status = "waiting" /\ job.stalls = 1 /\ broadcasts[cycles[w].job].stalls = 0
  PROVE  Attended' /\ RunsLower
<1> DEFINE j == cycles[w].job
<1>1. j \in 1 .. MaxTicks /\ broadcasts[j].status = "active" /\ Runnable(broadcasts[j])
  BY DEF BeliefTyped, JobsApart
<1>2. broadcasts[j] \in JobRecords /\ cycles \in [Workers -> CycleRecords]
  BY <1>1 DEF BeliefTyped, BeliefTypeOK, JobRecords, CycleRecords, Stages
<1>3. RunsLeft(job) < RunsLeft(broadcasts[j])
  <2>1. broadcasts[j].stalls \in {0, 1}  BY <1>1, <1>2 DEF JobRecords, Runnable
  <2>2. QED  BY <1>1, <2>1 DEF RunsLeft
<1>4. \A v \in Workers, i \in 1 .. MaxTicks : i # j /\ RunBy(v, i) => RunBy(v, i)'
  <2> SUFFICES ASSUME NEW v \in Workers, NEW i \in 1 .. MaxTicks, i # j, RunBy(v, i)
               PROVE  RunBy(v, i)'
    OBVIOUS
  <2>1. v # w  BY DEF RunBy
  <2>2. cycles'[v] = cycles[v]  BY <1>2, <2>1
  <2>3. QED  BY <2>2 DEF RunBy
<1>5. job.status # "active"  OBVIOUS
<1>6. broadcasts' = [broadcasts EXCEPT ![j] = job]  OBVIOUS
<1> HIDE DEF j
<1>7. QED  BY <1>1, <1>3, <1>4, <1>5, <1>6, JobAdvances

LEMMA EndLowers ==
  ASSUME BeliefTyped, Attended, NEW w \in Workers, cycles[w].stage # "idle",
         FailJob(w) \/ CycleError(w) \/ EndJob(w, "completed", [signal |-> cycles[w].signal,
                                                                updated |-> cycles[w].updated])
  PROVE  Attended' /\ RunsLower
<1>1. PICK status, report : status \in {"completed", "failed"} /\ EndJob(w, status, report)
  BY DEF FailJob, CycleError
<1>2. broadcasts[cycles[w].job] \in JobRecords
  BY DEF BeliefTyped, JobsApart, BeliefTypeOK, JobRecords
<1>3. PICK job : job = [broadcasts[cycles[w].job] EXCEPT !.status = status, !.report = report]
  OBVIOUS
<1>4. broadcasts' = [broadcasts EXCEPT ![cycles[w].job] = job] /\ cycles' = [cycles EXCEPT ![w] = Idle]
  BY ONLY <1>1, <1>3, ZenonT(40) DEF EndJob
<1>5. job.status = status  BY <1>2, <1>3 DEF JobRecords
<1>6. QED  BY <1>1, <1>4, <1>5, RunStops

LEMMA TickLowers ==
  ASSUME BeliefTyped, Attended, ScheduleTick PROVE Attended' /\ RunsLower
<1>1. PICK j \in 1 .. MaxTicks : broadcasts[j].status = "none"
                                /\ broadcasts' = [broadcasts EXCEPT ![j].status = "waiting"]
  BY DEF ScheduleTick
<1>2. broadcasts[j] \in JobRecords /\ Runnable(broadcasts[j])
  BY DEF BeliefTyped, BeliefTypeOK, JobRecords, JobsApart
<1>3. PICK job : job = [broadcasts[j] EXCEPT !.status = "waiting"]  OBVIOUS
<1>4. broadcasts' = [broadcasts EXCEPT ![j] = job]  BY <1>1, <1>3
<1>5. job.status = "waiting" /\ job.stalls \in {0, 1}
  BY <1>1, <1>2, <1>3 DEF JobRecords, Runnable
<1>6. RunsLeft(job) < RunsLeft(broadcasts[j])  BY <1>1, <1>5 DEF RunsLeft
<1>7. cycles' = cycles  BY DEF ScheduleTick
<1>8. \A v \in Workers, i \in 1 .. MaxTicks : RunBy(v, i)' = RunBy(v, i)  BY <1>7 DEF RunBy
<1>9. job.status # "active"  BY <1>5
<1>10. QED  BY <1>4, <1>6, <1>8, <1>9, JobAdvances

LEMMA TakenLowers ==
  ASSUME BeliefTyped, Attended, NEW w \in Workers, TakeJob(w) PROVE Attended' /\ RunsLower
<1>1. PICK j \in 1 .. MaxTicks :
        /\ broadcasts[j].status = "waiting"
        /\ broadcasts' = [broadcasts EXCEPT ![j].status = "active"]
        /\ cycles' = [cycles EXCEPT ![w] = [Idle EXCEPT !.stage = "fetch", !.job = j]]
  BY DEF TakeJob
<1>2. /\ broadcasts[j] \in JobRecords /\ Runnable(broadcasts[j]) /\ cycles[w].stage = "idle"
      /\ cycles \in [Workers -> CycleRecords]
  BY DEF BeliefTyped, BeliefTypeOK, JobRecords, JobsApart, TakeJob, CycleRecords, Stages
<1>3. PICK job : job = [broadcasts[j] EXCEPT !.status = "active"]  OBVIOUS
<1>4. broadcasts' = [broadcasts EXCEPT ![j] = job]  BY <1>1, <1>3
<1>5. job.status = "active" /\ job.stalls = broadcasts[j].stalls /\ job.stalls \in {0, 1}
  BY <1>1, <1>2, <1>3 DEF JobRecords, Runnable
<1>6. RunsLeft(job) < RunsLeft(broadcasts[j])  BY <1>1, <1>5 DEF RunsLeft
<1>7. cycles'[w].stage = "fetch" /\ cycles'[w].job = j
      /\ \A v \in Workers : v # w => cycles'[v] = cycles[v]
  BY <1>1, <1>2, IdleTyped DEF CycleRecords
<1>8. \A v \in Workers, i \in 1 .. MaxTicks : RunBy(v, i) => RunBy(v, i)'
  BY <1>2, <1>7 DEF RunBy
<1>9. RunBy(w, j)'  BY <1>7 DEF RunBy
<1>10. QED  BY <1>4, <1>6, <1>8, <1>9, JobAdvances

LEMMA FetchLowers ==
  ASSUME BeliefTyped, Attended, NEW w \in Workers, FetchSignal(w) \/ PersistSignal(w)
  PROVE  Attended' /\ (RunsLower \/ CycleLowers)
<1>1. /\ cycles[w] \in CycleRecords /\ Len(Believers) \in Nat
      /\ cycles[w].stage \in {"fetch", "persist"}
  BY BeliefAssumption, LenProperties
     DEF BeliefTyped, BeliefTypeOK, CycleRecords, Stages, FetchSignal, PersistSignal
<1>2. CASE FailJob(w)  BY <1>1, <1>2, EndLowers
<1>3. ASSUME NEW c, UNCHANGED broadcasts, cycles' = [cycles EXCEPT ![w] = c],
             c.job = cycles[w].job,
             \/ cycles[w].stage = "fetch" /\ c.stage = "persist"
             \/ cycles[w].stage = "persist" /\ c.stage = "load"
      PROVE  Attended' /\ CycleLowers
  <2>1. CycleLeft(c) < CycleLeft(cycles[w])  BY <1>1, <1>3 DEF CycleLeft
  <2>2. QED  BY <1>3, <2>1, RunGoesOn
<1>4. ASSUME NEW confidence, UNCHANGED broadcasts, cycles[w].stage = "fetch",
             cycles' = [cycles EXCEPT ![w].stage = "persist", ![w].confidence = confidence]
      PROVE  Attended' /\ CycleLowers
  <2>1. PICK c : c = [cycles[w] EXCEPT !.stage = "persist", !.confidence = confidence]  OBVIOUS
  <2>2. cycles' = [cycles EXCEPT ![w] = c]  BY <1>4, <2>1
  <2>3. c.stage = "persist" /\ c.job = cycles[w].job  BY <1>1, <2>1 DEF CycleRecords
  <2>4. QED  BY <1>3, <1>4, <2>2, <2>3
<1>5. ASSUME NEW signal, UNCHANGED broadcasts, cycles[w].stage = "persist",
             cycles' = [cycles EXCEPT ![w].stage = "load", ![w].signal = signal]
      PROVE  Attended' /\ CycleLowers
  <2>1. PICK c : c = [cycles[w] EXCEPT !.stage = "load", !.signal = signal]  OBVIOUS
  <2>2. cycles' = [cycles EXCEPT ![w] = c]  BY <1>5, <2>1
  <2>3. c.stage = "load" /\ c.job = cycles[w].job  BY <1>1, <2>1 DEF CycleRecords
  <2>4. QED  BY <1>3, <1>5, <2>2, <2>3
<1>6. CASE FetchSignal(w)  BY <1>2, <1>4, <1>6 DEF FetchSignal
<1>7. CASE PersistSignal(w)  BY <1>2, <1>5, <1>7 DEF PersistSignal
<1>8. QED  BY <1>6, <1>7

LEMMA LoadLowers ==
  ASSUME BeliefTyped, Attended, NEW w \in Workers, LoadAgents(w) \/ CreateAnchor(w)
  PROVE  Attended' /\ (RunsLower \/ CycleLowers)
<1>1. /\ cycles[w] \in CycleRecords /\ Len(Believers) \in Nat
      /\ cycles[w].stage \in {"load", "create_anchor"} /\ Len(cycles[w].todo) \in Nat
  BY BeliefAssumption, LenProperties
     DEF BeliefTyped, BeliefTypeOK, CycleRecords, Stages, LoadAgents, CreateAnchor
<1>2. CASE CycleError(w)  BY <1>1, <1>2, EndLowers
<1>3. ASSUME NEW stage \in {"prior", "create_anchor"}, UNCHANGED broadcasts,
             cycles[w].stage = "load",
             cycles' = [cycles EXCEPT ![w].todo = Believers, ![w].stage = stage]
      PROVE  Attended' /\ CycleLowers
  <2>1. PICK c : c = [cycles[w] EXCEPT !.todo = Believers, !.stage = stage]  OBVIOUS
  <2>2. cycles' = [cycles EXCEPT ![w] = c]  BY <1>3, <2>1
  <2>3. c.stage = stage /\ c.job = cycles[w].job /\ c.todo = Believers
    BY <1>1, <2>1 DEF CycleRecords
  <2>4. CycleLeft(c) < CycleLeft(cycles[w])  BY <1>1, <1>3, <2>3 DEF CycleLeft
  <2>5. c.stage # "idle"  BY <2>3
  <2>6. QED  BY <1>3, <2>2, <2>3, <2>4, <2>5, RunGoesOn
<1>4. CASE Goto(w, "prior") /\ UNCHANGED broadcasts /\ cycles[w].stage = "create_anchor"
  <2>1. PICK c : c = [cycles[w] EXCEPT !.stage = "prior"]  OBVIOUS
  <2>2. cycles' = [cycles EXCEPT ![w] = c]  BY <1>4, <2>1 DEF Goto
  <2>3. c.stage = "prior" /\ c.job = cycles[w].job /\ c.todo = cycles[w].todo
    BY <1>1, <2>1 DEF CycleRecords
  <2>4. CycleLeft(c) < CycleLeft(cycles[w])  BY <1>1, <1>4, <2>3 DEF CycleLeft
  <2>5. c.stage # "idle"  BY <2>3
  <2>6. QED  BY <1>4, <2>2, <2>3, <2>4, <2>5, RunGoesOn
<1>5. CASE LoadAgents(w)
  <2>1. CASE CycleError(w)  BY <1>2, <2>1
  <2>2. CASE ~CycleError(w)
    <3>1. PICK stage : stage = IF anchorCache[w] \/ anchors > 0 THEN "prior" ELSE "create_anchor"
      OBVIOUS
    <3>2. /\ UNCHANGED broadcasts /\ cycles[w].stage = "load"
          /\ cycles' = [cycles EXCEPT ![w].todo = Believers, ![w].stage = stage]
      BY <1>5, <2>2, <3>1 DEF LoadAgents
    <3>3. stage \in {"prior", "create_anchor"}  BY <3>1
    <3>4. QED  BY <1>3, <3>2, <3>3
  <2>3. QED  BY <2>1, <2>2
<1>6. CASE CreateAnchor(w)  BY <1>2, <1>4, <1>6 DEF CreateAnchor
<1>7. QED  BY <1>5, <1>6

LEMMA LoopLowers ==
  ASSUME BeliefTyped, Attended, NEW w \in Workers, ReadPrior(w) \/ WriteBelief(w)
  PROVE  Attended' /\ CycleLowers
<1>1. /\ cycles[w] \in CycleRecords /\ cycles[w].todo # <<>> /\ UNCHANGED broadcasts
      /\ cycles[w].stage \in {"prior", "write"}
  BY DEF BeliefTyped, BeliefTypeOK, CycleRecords, Stages, InStep, ReadPrior, WriteBelief
<1>2. /\ Len(Tail(cycles[w].todo)) = Len(cycles[w].todo) - 1
      /\ Len(cycles[w].todo) \in Nat /\ Len(cycles[w].todo) > 0
  BY <1>1, HeadTailProperties, LenProperties, EmptySeq DEF CycleRecords
<1>3. ASSUME NEW c, cycles' = [cycles EXCEPT ![w] = c], c.job = cycles[w].job,
             \/ /\ cycles[w].stage = "prior" /\ c.stage = "write"
                /\ c.todo = cycles[w].todo
             \/ c.stage = "prior" /\ c.todo = Tail(cycles[w].todo)
      PROVE  Attended' /\ CycleLowers
  <2> DEFINE n == Len(cycles[w].todo)
  <2>1. CycleLeft(cycles[w]) = IF cycles[w].stage = "prior" THEN 2 * n + 1 ELSE 2 * n
    BY <1>1 DEF CycleLeft
  <2>2. CASE cycles[w].stage = "prior" /\ c.stage = "write" /\ c.todo = cycles[w].todo
    <3>1. CycleLeft(c) = 2 * n  BY <2>2 DEF CycleLeft
    <3>2. CycleLeft(c) < CycleLeft(cycles[w])  BY <1>2, <2>1, <2>2, <3>1
    <3>3. c.stage # "idle"  BY <2>2
    <3>4. QED  BY <1>1, <1>3, <3>2, <3>3, RunGoesOn
  <2>3. CASE c.stage = "prior" /\ c.todo = Tail(cycles[w].todo)
    <3>1. CycleLeft(c) = 2 * (n - 1) + 1  BY <1>2, <2>3 DEF CycleLeft
    <3>2. CycleLeft(c) < CycleLeft(cycles[w])  BY <1>2, <2>1, <2>3, <3>1
    <3>3. c.stage # "idle"  BY <2>3
    <3>4. QED  BY <1>1, <1>3, <3>2, <3>3, RunGoesOn
  <2>4. QED  BY <1>3, <2>2, <2>3
<1>4. CASE ReadPrior(w)
  <2>1. CASE cycles' = [cycles EXCEPT ![w].stage = "write",
                                      ![w].prior = LastBelief(Head(cycles[w].todo))]
    <3>1. PICK last : last = LastBelief(Head(cycles[w].todo))  OBVIOUS
    <3>2. PICK c : c = [cycles[w] EXCEPT !.stage = "write", !.prior = last]  OBVIOUS
    <3>3. cycles' = [cycles EXCEPT ![w] = c]  BY <2>1, <3>1, <3>2
    <3>4. c.stage = "write" /\ c.job = cycles[w].job /\ c.todo = cycles[w].todo
      BY <1>1, <3>2 DEF CycleRecords
    <3>5. cycles[w].stage = "prior"  BY <1>4 DEF ReadPrior
    <3>6. QED  BY <1>3, <3>3, <3>4, <3>5
  <2>2. CASE cycles' = [cycles EXCEPT ![w].todo = Tail(@)]
    <3>1. PICK c : c = [cycles[w] EXCEPT !.todo = Tail(cycles[w].todo)]  OBVIOUS
    <3>2. cycles' = [cycles EXCEPT ![w] = c]  BY <2>2, <3>1
    <3>3. cycles[w].stage = "prior"  BY <1>4 DEF ReadPrior
    <3>4. c.stage = "prior" /\ c.job = cycles[w].job /\ c.todo = Tail(cycles[w].todo)
      BY <1>1, <3>1, <3>3 DEF CycleRecords
    <3>5. QED  BY <1>3, <3>2, <3>4
  <2>3. QED  BY <1>4, <2>1, <2>2 DEF ReadPrior
<1>5. CASE WriteBelief(w)
  <2> DEFINE Moved(done) == [cycles[w] EXCEPT !.stage = "prior", !.todo = Tail(cycles[w].todo),
                               !.prior = 0, !.updated = cycles[w].updated + done]
  <2>1. \E done \in {0, 1} : cycles' = [cycles EXCEPT ![w] = Moved(done)]
    BY <1>5 DEF WriteBelief
  <2>2. PICK done, c : c = Moved(done) /\ cycles' = [cycles EXCEPT ![w] = c]
    BY <2>1
  <2>3. c.stage = "prior" /\ c.job = cycles[w].job /\ c.todo = Tail(cycles[w].todo)
    BY <1>1, <2>2 DEF CycleRecords
  <2>4. QED  BY <1>3, <2>2, <2>3
<1>6. QED  BY <1>4, <1>5

LEMMA CrashLowers ==
  ASSUME BeliefTyped, Attended, NEW w \in Workers, CrashWorker(w) PROVE Attended' /\ RunsLower
<1> DEFINE j == cycles[w].job
<1>1. /\ cycles[w].stage # "idle" /\ cycles' = [cycles EXCEPT ![w] = Idle]
      /\ broadcasts' = [broadcasts EXCEPT ![j].stalls = @ + 1,
            ![j].status = IF broadcasts[j].stalls = 0 THEN "waiting" ELSE "failed"]
  BY DEF CrashWorker
<1>2. broadcasts[j] \in JobRecords
  BY <1>1 DEF BeliefTyped, JobsApart, BeliefTypeOK, JobRecords
<1>3. PICK status : status = IF broadcasts[j].stalls = 0 THEN "waiting" ELSE "failed"  OBVIOUS
<1>4. PICK job : job = [broadcasts[j] EXCEPT !.stalls = broadcasts[j].stalls + 1, !.status = status]
  OBVIOUS
<1>5. broadcasts' = [broadcasts EXCEPT ![j] = job]  BY <1>1, <1>3, <1>4
<1>6. job.status = status /\ job.stalls = broadcasts[j].stalls + 1  BY <1>2, <1>4 DEF JobRecords
<1>7. \/ job.status \in {"completed", "failed"}
      \/ job.status = "waiting" /\ job.stalls = 1 /\ broadcasts[j].stalls = 0
  BY <1>3, <1>6
<1>8. QED  BY <1>1, <1>5, <1>7, RunStops

LEMMA BroadcastsLower ==
  ASSUME BeliefTyped, Attended, BeliefNext
  PROVE  Attended' /\ (RunsLower \/ CycleLowers)
<1>1. CASE ScheduleTick  BY <1>1, TickLowers
<1>2. ASSUME NEW w \in Workers, RunCycle(w) \/ CrashWorker(w)
      PROVE  Attended' /\ (RunsLower \/ CycleLowers)
  <2>1. CASE ReportCycle(w)
    <3>1. cycles[w].stage # "idle" /\ EndJob(w, "completed", [signal |-> cycles[w].signal,
                                                            updated |-> cycles[w].updated])
      BY <2>1 DEF ReportCycle
    <3>2. QED  BY <3>1, EndLowers
  <2>2. QED
    BY <1>2, <2>1, TakenLowers, FetchLowers, LoadLowers, LoopLowers, CrashLowers DEF RunCycle
<1>3. QED  BY <1>1, <1>2 DEF BeliefNext

LEMMA AttendedStarts == BeliefInit => Attended
BY DEF BeliefInit, Attended

LEMMA AttendedKept == BeliefTyped /\ Attended /\ [BeliefNext]_beliefVars => Attended'
<1>1. CASE UNCHANGED beliefVars  BY <1>1 DEF Attended, RunBy, beliefVars
<1>2. QED  BY <1>1, BroadcastsLower

(* Every step lowers what is left, and what is left is bounded.            *)
LEMMA LeftLowers ==
  BeliefTyped /\ BeliefTyped' /\ Attended /\ [BeliefNext]_beliefVars
    => [(RunsLower \/ CycleLowers) /\ LeftBounded']_beliefVars
<1>1. BeliefTyped' => LeftBounded'  BY WhatIsLeft, PTL
<1>2. QED  BY <1>1, BroadcastsLower

(* A broadcast's job is active only while a worker runs it, crashes and    *)
(* restarts included (oracleBroadcastWorker.ts:173-230): none is lost.     *)
THEOREM BroadcastsAreAttended == BeliefSpec => []Attended
<1>1. [BeliefNext /\ UNCHANGED production]_<<beliefVars, production>> => [BeliefNext]_beliefVars
  OBVIOUS
<1>2. QED
  BY <1>1, BeliefTypesStart, BeliefTypesKept, AttendedStarts, AttendedKept, PTL DEF BeliefSpec

(* The stalls of a job are counted and a cycle never goes back, so what is *)
(* left of the broadcasts runs out whatever the interleaving of workers,   *)
(* failures and crashes (oracleBroadcastWorker.ts:173-230).                *)
THEOREM BroadcastsTakeFewSteps == BeliefSpec => BroadcastsRunOut
<1>1. [BeliefNext /\ UNCHANGED production]_<<beliefVars, production>> => [BeliefNext]_beliefVars
  OBVIOUS
<1>2. QED
  BY <1>1, BeliefTypesStart, BeliefTypesKept, BroadcastsAreAttended, LeftLowers, PTL
     DEF BeliefSpec, BroadcastsRunOut
===============================================================================
