--------------------------- MODULE AuditChainProofs ---------------------------
(***************************************************************************)
(* Theorems about AuditChain, for any number of transactions, any mix of   *)
(* isolation levels and any number of appends per transaction.             *)
(***************************************************************************)
EXTENDS AuditChain, TLAPS

(***************************************************************************)
(* The rows have a latest one.  Where it holds, Latest is what its name    *)
(* says; it is carried in the invariant, row set by row set.               *)
(***************************************************************************)
Bounded(rows) ==
  \E m \in {0} \cup {e.sequence : e \in rows} :
    \A e \in rows : e.sequence <= m

LEMMA LatestBound ==
  ASSUME NEW rows \in SUBSET AuditEvent, Bounded(rows)
  PROVE  /\ Latest(rows) \in Nat
         /\ Latest(rows) = 0 \/ \E e \in rows : e.sequence = Latest(rows)
<1> DEFINE S == {0} \cup {e.sequence : e \in rows}
<1>1. S \subseteq Nat
  BY DEF AuditEvent
<1>2. \E m \in S : \A n \in S : m >= n
  BY <1>1 DEF Bounded, AuditEvent
<1>3. Max(S) \in S
  BY <1>2 DEF Max
<1> QED
  BY <1>1, <1>3 DEF Latest

LEMMA BoundedUnion ==
  ASSUME NEW A \in SUBSET AuditEvent, NEW B \in SUBSET AuditEvent,
         Bounded(A), Bounded(B)
  PROVE  Bounded(A \cup B)
<1>1. PICK m \in {0} \cup {e.sequence : e \in A} :
        \A e \in A : e.sequence <= m
  BY DEF Bounded
<1>2. PICK n \in {0} \cup {e.sequence : e \in B} :
        \A e \in B : e.sequence <= n
  BY DEF Bounded
<1>3. m \in Nat /\ n \in Nat
  BY DEF AuditEvent
<1>4. \A e \in A \cup B : e.sequence \in Nat
  BY DEF AuditEvent
<1>5. CASE m <= n
  BY <1>1, <1>2, <1>3, <1>4, <1>5 DEF Bounded
<1>6. CASE n <= m
  BY <1>1, <1>2, <1>3, <1>4, <1>6 DEF Bounded
<1> QED
  BY <1>3, <1>5, <1>6

LEMMA BoundedSingleton ==
  ASSUME NEW e \in AuditEvent
  PROVE  Bounded({e})
BY DEF Bounded, AuditEvent

(***************************************************************************)
(* What holds under any isolation levels.  Every row ever inserted is in   *)
(* some own[t], also those of aborted transactions: their sequences are    *)
(* used up.  A link leads to a committed row or to one of the same         *)
(* transaction, which commits together with it.                            *)
(***************************************************************************)
Inserted ==
  /\ \A e \in auditEvents : \E t \in Transactions : e \in own[t]
  /\ \A t \in Transactions : snapshot[t] \subseteq auditEvents

Sequenced ==
  /\ \A t \in Transactions : \A e \in own[t] : e.sequence < nextSequence
  /\ \A t, u \in Transactions : \A e \in own[t], f \in own[u] :
       e.sequence = f.sequence => e = f

Finite ==
  /\ Bounded(auditEvents)
  /\ \A t \in Transactions : Bounded(snapshot[t]) /\ Bounded(own[t])

Linked(t, hash) ==
  hash = 0 \/ \E f \in auditEvents \cup own[t] : f.sequence = hash

Links ==
  /\ \A t \in Transactions :
       /\ pc[t] = "insert" => /\ Linked(t, previousHash[t])
                              /\ previousHash[t] < nextSequence
       /\ \A e \in own[t] : /\ Linked(t, e.previousHash)
                            /\ e.previousHash < e.sequence
  /\ \A t \in Transactions :
       Isolation[t] = "Autocommit" => own[t] \subseteq auditEvents
  /\ \A e \in auditEvents :
       e.previousHash = 0 \/ \E f \in auditEvents : f.sequence = e.previousHash

ChainInv == TypeOK /\ Inserted /\ Sequenced /\ Finite /\ Links

LEMMA ChainInit == Init => ChainInv
<1> SUFFICES ASSUME Init PROVE ChainInv
  OBVIOUS
<1>1. TypeOK /\ Inserted /\ Sequenced /\ Links
  BY DEF Init, TypeOK, Inserted, Sequenced, Links
<1>2. Bounded({})
  BY DEF Bounded
<1> QED
  BY <1>1, <1>2 DEF Init, ChainInv, Finite

LEMMA ReadLatestKeeps ==
  ASSUME ChainInv, NEW t \in Transactions, ReadLatest(t)
  PROVE  ChainInv'
<1> DEFINE rows == Committed(t) \cup own[t]
<1>1. /\ rows \subseteq AuditEvent
      /\ rows \subseteq auditEvents \cup own[t]
      /\ Bounded(rows)
  BY BoundedUnion DEF ChainInv, TypeOK, Finite, Inserted, Committed
<1>2. /\ Latest(rows) \in Nat
      /\ Latest(rows) = 0 \/ \E e \in rows : e.sequence = Latest(rows)
  BY <1>1, LatestBound
<1>3. \A e \in rows : e.sequence < nextSequence
  BY <1>1 DEF ChainInv, Inserted, Sequenced
<1>4. Linked(t, Latest(rows)) /\ Latest(rows) < nextSequence
  <2> HIDE DEF rows
  <2>1. nextSequence \in Nat /\ 0 < nextSequence
    BY DEF ChainInv, TypeOK
  <2>2. CASE Latest(rows) = 0
    BY <2>1, <2>2 DEF Linked
  <2>3. CASE \E e \in rows : e.sequence = Latest(rows)
    BY <1>1, <1>3, <2>3 DEF Linked
  <2> QED
    BY <1>2, <2>2, <2>3
<1>5. previousHash'[t] = Latest(rows)
  BY DEF ReadLatest, ChainInv, TypeOK
<1>6. TypeOK'
  BY <1>2 DEF ReadLatest, ChainInv, TypeOK
<1>7. Inserted' /\ Sequenced' /\ Finite'
  BY DEF ReadLatest, ChainInv, Inserted, Sequenced, Finite, Bounded
<1>8. Links'
  BY <1>4, <1>5 DEF ReadLatest, ChainInv, Links, Linked, TypeOK
<1> QED
  BY <1>6, <1>7, <1>8 DEF ChainInv

LEMMA InsertKeeps ==
  ASSUME ChainInv, NEW t \in Transactions, Insert(t)
  PROVE  ChainInv'
<1> DEFINE e == [sequence |-> nextSequence, previousHash |-> previousHash[t],
                 writer |-> t]
<1> USE DEF ChainInv
<1>1. e \in AuditEvent
  BY DEF TypeOK, AuditEvent
<1>2. /\ own'[t] = own[t] \cup {e}
      /\ \A u \in Transactions : u # t => own'[u] = own[u]
      /\ own' \in [Transactions -> SUBSET AuditEvent]
  BY <1>1 DEF Insert, TypeOK
<1>3. /\ auditEvents' \in {auditEvents, auditEvents \cup {e}}
      /\ Isolation[t] = "Autocommit" => e \in auditEvents'
  BY DEF Insert
<1>4. /\ pc'[t] \in {"read", "done", "commit"}
      /\ \A u \in Transactions : u # t => pc'[u] = pc[u]
      /\ pc' \in [Transactions ->
                    {"idle", "read", "insert", "commit", "done", "aborted"}]
  BY DEF Insert, TypeOK
<1>5. TypeOK'
  BY <1>1, <1>2, <1>3, <1>4 DEF Insert, TypeOK
<1>6. Inserted'
  BY <1>2, <1>3 DEF Insert, Inserted
<1>7. Sequenced'
  <2>1. nextSequence' = nextSequence + 1 /\ nextSequence \in Nat
    BY DEF Insert, TypeOK
  <2>2. \A u \in Transactions : \A f \in own[u] :
          f.sequence \in Nat /\ f.sequence < nextSequence
    BY DEF TypeOK, AuditEvent, Sequenced
  <2>3. \A u \in Transactions : \A f \in own'[u] : f = e \/ f \in own[u]
    BY <1>2
  <2> QED
    BY <1>2, <2>1, <2>2, <2>3 DEF Sequenced
<1>8. Finite'
  <2>1. Bounded({e})
    BY <1>1, BoundedSingleton
  <2>2. Bounded(own'[t]) /\ Bounded(auditEvents')
    BY <1>1, <1>2, <1>3, <2>1, BoundedUnion DEF Finite, TypeOK
  <2> QED
    BY <1>2, <2>2 DEF Insert, Finite
<1>9. Links'
  <2>1. \A f \in auditEvents \cup own[t] : f \in auditEvents' \cup own'[t]
    BY <1>2, <1>3
  <2>2. Linked(t, previousHash[t]) /\ previousHash[t] < nextSequence
    BY DEF Insert, Links
  <2>3. \A u \in Transactions : \A h : Linked(u, h) => Linked(u, h)'
    BY <1>2, <1>3 DEF Linked
  <2>4. \A u \in Transactions : \A f \in own'[u] :
          Linked(u, f.previousHash)' /\ f.previousHash < f.sequence
    BY <1>2, <2>2, <2>3 DEF Links
  <2>5. \A u \in Transactions : pc'[u] = "insert" =>
          Linked(u, previousHash[u])' /\ previousHash'[u] < nextSequence'
    BY <1>4, <2>3 DEF Insert, Links, TypeOK
  <2>6. \A u \in Transactions :
          Isolation[u] = "Autocommit" => own'[u] \subseteq auditEvents'
    BY <1>2, <1>3 DEF Links
  <2>7. \A f \in auditEvents' :
          f.previousHash = 0
            \/ \E g \in auditEvents' : g.sequence = f.previousHash
    <3>1. CASE auditEvents' = auditEvents
      BY <3>1 DEF Links
    <3>2. CASE auditEvents' # auditEvents
      <4>1. Isolation[t] = "Autocommit" /\ auditEvents' = auditEvents \cup {e}
        BY <3>2 DEF Insert
      <4> QED
        BY <2>2, <4>1 DEF Links, Linked
    <3> QED
      BY <3>1, <3>2
  <2> QED
    BY <2>4, <2>5, <2>6, <2>7 DEF Links, Insert
<1> QED
  BY <1>5, <1>6, <1>7, <1>8, <1>9

LEMMA CommitKeeps ==
  ASSUME ChainInv, NEW t \in Transactions, Commit(t)
  PROVE  ChainInv'
<1> USE DEF ChainInv
<1>1. TypeOK'
  BY DEF Commit, TypeOK
<1>2. Inserted'
  BY DEF Commit, Inserted
<1>3. Sequenced'
  BY DEF Commit, Sequenced
<1>4. Finite'
  <2>1. Bounded(auditEvents \cup own[t])
    BY BoundedUnion DEF Finite, TypeOK
  <2> QED
    BY <2>1 DEF Commit, Finite
<1>5. Links'
  BY DEF Commit, Links, Linked, TypeOK
<1> QED
  BY <1>1, <1>2, <1>3, <1>4, <1>5

LEMMA ChainStep == ChainInv /\ [Next]_vars => ChainInv'
<1> SUFFICES ASSUME ChainInv, [Next]_vars PROVE ChainInv'
  OBVIOUS
<1>1. ASSUME NEW t \in Transactions, Begin(t) PROVE ChainInv'
  <2> USE <1>1 DEF ChainInv, Begin
  <2>1. TypeOK' /\ Inserted' /\ Sequenced'
    BY DEF TypeOK, Inserted, Sequenced
  <2>2. Finite'
    BY DEF Finite, TypeOK
  <2>3. Links'
    BY DEF Links, Linked, TypeOK
  <2> QED
    BY <2>1, <2>2, <2>3
<1>2. ASSUME NEW t \in Transactions, Abort(t) PROVE ChainInv'
  <2> USE <1>2 DEF ChainInv, Abort
  <2>1. TypeOK' /\ Inserted' /\ Sequenced'
    BY DEF TypeOK, Inserted, Sequenced
  <2>2. Finite'
    BY DEF Finite
  <2>3. Links'
    BY DEF Links, Linked, TypeOK
  <2> QED
    BY <2>1, <2>2, <2>3
<1>3. CASE UNCHANGED vars
  BY <1>3 DEF vars, ChainInv, TypeOK, Inserted, Sequenced, Finite, Bounded,
              Links, Linked
<1> QED
  BY <1>1, <1>2, <1>3, ReadLatestKeeps, InsertKeeps, CommitKeeps
     DEF Next, Step

LEMMA ChainAlways == Spec => []ChainInv
BY ChainInit, ChainStep, PTL DEF Spec

(***************************************************************************)
(* The variables keep their types; in particular the hash of the latest    *)
(* row is always defined, since the rows visible to a transaction always   *)
(* have a latest one.                                                      *)
(***************************************************************************)
THEOREM AuditTypeCorrect == Spec => []TypeOK
<1>1. ChainInv => TypeOK
  BY DEF ChainInv
<1> QED
  BY <1>1, ChainAlways, PTL

(***************************************************************************)
(* Under any mix of isolation levels the links lead backwards through      *)
(* committed rows only (appendAuditEvent).                                 *)
(***************************************************************************)
THEOREM AlwaysLinkedBackwards == Spec => []LinkedBackwards
<1>1. ChainInv => LinkedBackwards
  BY DEF ChainInv, LinkedBackwards, Inserted, Sequenced, Links
<1> QED
  BY <1>1, ChainAlways, PTL
-----------------------------------------------------------------------------
(***************************************************************************)
(* What serializable transactions, as commitSettlement's, add.  Each       *)
(* extends its snapshot to a chain that is linear if the snapshot was.  It *)
(* may commit only while its snapshot holds every serialized row, so while *)
(* there are no others its view becomes the table.                         *)
(***************************************************************************)
View(t) == snapshot[t] \cup own[t]

SerializedOnly(rows) == \A e \in rows : Serialized(e)

Extends(t) ==
  /\ pc[t] = "idle" => own[t] = {}
  /\ pc[t] # "idle" /\ SerializedOnly(snapshot[t]) => Linear(View(t))
  /\ pc[t] = "insert" => previousHash[t] = Latest(View(t))
  /\ \A e \in own[t], f \in snapshot[t] : f.sequence < e.sequence

Signed == \A t \in Transactions : \A e \in own[t] : e.writer = t

AllExtend ==
  \A t \in Transactions : Isolation[t] = "Serializable" => Extends(t)

LinearInv == ChainInv /\ Signed /\ AllExtend /\ LinearWhileSerialized

LEMMA LinearExtension ==
  ASSUME NEW rows \in SUBSET AuditEvent, NEW e \in AuditEvent,
         Linear(rows),
         \A f \in rows : f.sequence < e.sequence,
         e.previousHash = Latest(rows)
  PROVE  Linear(rows \cup {e})
<1>1. {f \in rows \cup {e} : f.sequence < e.sequence} = rows
  BY DEF AuditEvent
<1>2. \A g \in rows : {f \in rows \cup {e} : f.sequence < g.sequence}
                       = {f \in rows : f.sequence < g.sequence}
  BY DEF AuditEvent
<1> QED
  BY <1>1, <1>2 DEF Linear

LEMMA LinearInit == Init => LinearInv
BY ChainInit DEF Init, LinearInv, Signed, AllExtend, Extends,
                 LinearWhileSerialized, ChainLinear, Linear

(***************************************************************************)
(* A step that leaves the table, and what t has seen and inserted, alone.  *)
(***************************************************************************)
LEMMA Bystander ==
  ASSUME NEW t \in Transactions, Extends(t),
         own'[t] = own[t], snapshot'[t] = snapshot[t], pc'[t] = pc[t],
         previousHash'[t] = previousHash[t]
  PROVE  Extends(t)'
BY DEF Extends, View, SerializedOnly, Serialized, Linear

LEMMA TableStands ==
  ASSUME LinearInv, UNCHANGED auditEvents
  PROVE  LinearWhileSerialized'
BY DEF LinearInv, LinearWhileSerialized, ChainLinear, Linear, Serialized

LEMMA BeginExtends ==
  ASSUME LinearInv, NEW t \in Transactions, Begin(t)
  PROVE  Signed' /\ AllExtend' /\ LinearWhileSerialized'
<1>1. /\ UNCHANGED <<auditEvents, own, previousHash>>
      /\ pc[t] = "idle" /\ pc'[t] = "read" /\ snapshot'[t] = auditEvents
      /\ \A u \in Transactions :
           u # t => pc'[u] = pc[u] /\ snapshot'[u] = snapshot[u]
  BY DEF Begin, LinearInv, ChainInv, TypeOK
<1>2. ASSUME NEW u \in Transactions, Isolation[u] = "Serializable"
      PROVE  Extends(u)'
  <2>1. Extends(u)
    BY <1>2 DEF LinearInv, AllExtend
  <2>2. CASE u # t
    BY <1>1, <2>1, <2>2, Bystander
  <2>3. CASE u = t
    <3>1. own'[t] = {} /\ View(t)' = auditEvents
      BY <1>1, <2>1, <2>3 DEF Extends, View
    <3>2. SerializedOnly(snapshot[t])' => Linear(auditEvents)
      BY <1>1 DEF SerializedOnly, Serialized, LinearInv,
                  LinearWhileSerialized, ChainLinear
    <3> QED
      BY <1>1, <2>3, <3>1, <3>2 DEF Extends, Linear
  <2> QED
    BY <2>2, <2>3
<1> QED
  BY <1>1, <1>2, TableStands DEF AllExtend, Signed, LinearInv

LEMMA ReadExtends ==
  ASSUME LinearInv, NEW t \in Transactions, ReadLatest(t)
  PROVE  Signed' /\ AllExtend' /\ LinearWhileSerialized'
<1>1. /\ UNCHANGED <<auditEvents, own, snapshot>>
      /\ pc[t] = "read" /\ pc'[t] = "insert"
      /\ previousHash'[t] = Latest(Committed(t) \cup own[t])
      /\ \A u \in Transactions :
           u # t => pc'[u] = pc[u] /\ previousHash'[u] = previousHash[u]
  BY DEF ReadLatest, LinearInv, ChainInv, TypeOK
<1>2. ASSUME NEW u \in Transactions, Isolation[u] = "Serializable"
      PROVE  Extends(u)'
  <2>1. Extends(u)
    BY <1>2 DEF LinearInv, AllExtend
  <2>2. CASE u # t
    BY <1>1, <2>1, <2>2, Bystander
  <2>3. CASE u = t
    <3>1. View(t)' = View(t) /\ previousHash'[t] = Latest(View(t))
      BY <1>1, <1>2, <2>3 DEF View, Committed
    <3> QED
      BY <1>1, <2>1, <2>3, <3>1 DEF Extends, SerializedOnly, Serialized, Linear
  <2> QED
    BY <2>2, <2>3
<1> QED
  BY <1>1, <1>2, TableStands DEF AllExtend, Signed, LinearInv

LEMMA InsertExtends ==
  ASSUME LinearInv, NEW t \in Transactions, Insert(t)
  PROVE  Signed' /\ AllExtend' /\ LinearWhileSerialized'
<1> DEFINE e == [sequence |-> nextSequence, previousHash |-> previousHash[t],
                 writer |-> t]
<1>1. /\ e \in AuditEvent
      /\ View(t) \subseteq AuditEvent
      /\ \A f \in View(t) : f.sequence < nextSequence
  BY DEF LinearInv, ChainInv, TypeOK, AuditEvent, View, Inserted, Sequenced
<1>2. /\ own'[t] = own[t] \cup {e}
      /\ \A u \in Transactions : u # t => own'[u] = own[u]
      /\ UNCHANGED <<snapshot, previousHash>>
  BY DEF Insert, LinearInv, ChainInv, TypeOK
<1>3. /\ pc[t] = "insert" /\ pc'[t] \in {"read", "done", "commit"}
      /\ \A u \in Transactions : u # t => pc'[u] = pc[u]
  BY DEF Insert, LinearInv, ChainInv, TypeOK
<1>4. ASSUME NEW u \in Transactions, Isolation[u] = "Serializable"
      PROVE  Extends(u)'
  <2>1. Extends(u)
    BY <1>4 DEF LinearInv, AllExtend
  <2>2. CASE u # t
    BY <1>2, <1>3, <2>1, <2>2, Bystander
  <2>3. CASE u = t
    <3>1. View(t)' = View(t) \cup {e}
      BY <1>2 DEF View
    <3>2. SerializedOnly(snapshot[t]) => Linear(View(t) \cup {e})
      <4>1. previousHash[t] = Latest(View(t))
        BY <1>3, <2>1, <2>3 DEF Extends
      <4>2. SerializedOnly(snapshot[t]) => Linear(View(t))
        BY <1>3, <2>1, <2>3 DEF Extends
      <4> QED
        BY <1>1, <4>1, <4>2, LinearExtension
    <3>3. SerializedOnly(snapshot[t])' => Linear(View(t))'
      BY <1>2, <3>1, <3>2 DEF SerializedOnly, Serialized, Linear
    <3>4. \A f \in snapshot[t] : f.sequence < e.sequence
      BY <1>1 DEF View
    <3> QED
      BY <1>2, <1>3, <2>1, <2>3, <3>3, <3>4 DEF Extends
  <2> QED
    BY <2>2, <2>3
<1>5. Signed'
  BY <1>2 DEF Signed, LinearInv
<1>6. LinearWhileSerialized'
  <2>1. CASE UNCHANGED auditEvents
    BY <2>1, TableStands
  <2>2. CASE auditEvents' # auditEvents
    <3>1. e \in auditEvents' /\ Isolation[t] = "Autocommit"
      BY <2>2 DEF Insert
    <3>2. ~ Serialized(e)
      BY <3>1 DEF Serialized
    <3> QED
      BY <3>1, <3>2 DEF LinearWhileSerialized, Serialized
  <2> QED
    BY <2>1, <2>2
<1> QED
  BY <1>4, <1>5, <1>6 DEF AllExtend

(***************************************************************************)
(* At a serializable commit all serialized rows are in the snapshot.       *)
(***************************************************************************)
LEMMA CommitAppends ==
  ASSUME LinearInv, NEW t \in Transactions, Commit(t),
         Isolation[t] = "Serializable"
  PROVE  /\ \A f \in auditEvents : Serialized(f) => f \in snapshot[t]
         /\ SerializedOnly(auditEvents) =>
              auditEvents = snapshot[t] /\ auditEvents' = View(t)
<1>1. \A f \in auditEvents : Serialized(f) => f \in snapshot[t]
  BY DEF Commit, Serializes
<1>2. SerializedOnly(auditEvents) => auditEvents = snapshot[t]
  BY <1>1 DEF SerializedOnly, LinearInv, ChainInv, Inserted
<1> QED
  BY <1>1, <1>2 DEF Commit, View

LEMMA CommitExtends ==
  ASSUME LinearInv, NEW t \in Transactions, Commit(t)
  PROVE  Signed' /\ AllExtend' /\ LinearWhileSerialized'
<1>1. /\ UNCHANGED <<own, snapshot, previousHash>>
      /\ pc[t] = "commit" /\ pc'[t] = "done"
      /\ \A u \in Transactions : u # t => pc'[u] = pc[u]
      /\ auditEvents' = auditEvents \cup own[t]
  BY DEF Commit, LinearInv, ChainInv, TypeOK
<1>2. ASSUME NEW u \in Transactions, Isolation[u] = "Serializable"
      PROVE  Extends(u)'
  BY <1>1, <1>2 DEF LinearInv, AllExtend, Extends, View, SerializedOnly,
                    Serialized, Linear
<1>3. ASSUME SerializedOnly(auditEvents')
      PROVE  Linear(auditEvents')
  <2>1. SerializedOnly(auditEvents) /\ SerializedOnly(own[t])
    BY <1>1, <1>3 DEF SerializedOnly
  <2>2. CASE Isolation[t] = "Serializable"
    <3>1. auditEvents = snapshot[t] /\ auditEvents' = View(t)
      BY <2>1, <2>2, CommitAppends
    <3> QED
      BY <1>1, <2>1, <2>2, <3>1 DEF LinearInv, AllExtend, Extends
  <2>3. CASE Isolation[t] # "Serializable"
    <3>1. own[t] = {}
      BY <2>1, <2>3 DEF SerializedOnly, Serialized, LinearInv, Signed
    <3> QED
      BY <1>1, <2>1, <3>1 DEF LinearInv, LinearWhileSerialized, ChainLinear,
                              SerializedOnly
  <2> QED
    BY <2>2, <2>3
<1>4. LinearWhileSerialized'
  BY <1>3 DEF LinearWhileSerialized, ChainLinear, Linear, SerializedOnly,
              Serialized
<1> QED
  BY <1>1, <1>2, <1>4 DEF AllExtend, Signed, LinearInv

LEMMA AbortExtends ==
  ASSUME LinearInv, NEW t \in Transactions, Abort(t)
  PROVE  Signed' /\ AllExtend' /\ LinearWhileSerialized'
<1>1. /\ UNCHANGED <<auditEvents, own, snapshot, previousHash>>
      /\ pc[t] # "idle" /\ pc'[t] = "aborted"
      /\ \A u \in Transactions : u # t => pc'[u] = pc[u]
  BY DEF Abort, LinearInv, ChainInv, TypeOK
<1>2. ASSUME NEW u \in Transactions, Isolation[u] = "Serializable"
      PROVE  Extends(u)'
  BY <1>1, <1>2 DEF LinearInv, AllExtend, Extends, View, SerializedOnly,
                    Serialized, Linear
<1> QED
  BY <1>1, <1>2, TableStands DEF AllExtend, Signed, LinearInv

LEMMA LinearStep == LinearInv /\ [Next]_vars => LinearInv'
<1> SUFFICES ASSUME LinearInv, [Next]_vars PROVE LinearInv'
  OBVIOUS
<1>1. ChainInv'
  BY ChainStep DEF LinearInv
<1>2. ASSUME NEW t \in Transactions, Step(t) PROVE LinearInv'
  BY <1>1, <1>2, BeginExtends, ReadExtends, InsertExtends, CommitExtends,
     AbortExtends DEF Step, LinearInv
<1>3. ASSUME UNCHANGED vars
      PROVE  Signed' /\ AllExtend' /\ LinearWhileSerialized'
  <2>1. \A t \in Transactions : Extends(t) => Extends(t)'
    BY <1>3, Bystander DEF vars
  <2> QED
    BY <1>3, <2>1, TableStands DEF vars, LinearInv, AllExtend, Signed
<1> QED
  BY <1>1, <1>2, <1>3 DEF Next, LinearInv

LEMMA LinearAlways == Spec => []LinearInv
BY LinearInit, LinearStep, PTL DEF Spec

(***************************************************************************)
(* While only settlements have committed, the chain is the one README.md   *)
(* describes: rolled-back and concurrent transactions leave gaps in the    *)
(* sequence, never a fork in the chain (commitSettlement).                 *)
(***************************************************************************)
THEOREM SettlementChainLinear == Spec => []LinearWhileSerialized
<1>1. LinearInv => LinearWhileSerialized
  BY DEF LinearInv
<1> QED
  BY <1>1, LinearAlways, PTL

(***************************************************************************)
(* The rows of settlements become visible in the order of their sequences, *)
(* whatever the other writers do.                                          *)
(***************************************************************************)
THEOREM SettlementPrefixStable == Spec => PrefixStable
<1> DEFINE InOrder == \A e \in auditEvents' \ auditEvents, f \in auditEvents :
                        Serialized(e) /\ Serialized(f) =>
                          f.sequence < e.sequence
<1>1. LinearInv /\ [Next]_vars => [InOrder]_vars
  <2> SUFFICES ASSUME LinearInv, Next PROVE InOrder
    BY DEF vars
  <2>1. ASSUME NEW t \in Transactions, Commit(t) PROVE InOrder
    <3> SUFFICES ASSUME NEW e \in auditEvents' \ auditEvents,
                        NEW f \in auditEvents, Serialized(e), Serialized(f)
                 PROVE  f.sequence < e.sequence
      OBVIOUS
    <3>1. e \in own[t] /\ e.writer = t
      BY <2>1 DEF Commit, LinearInv, Signed
    <3>2. Isolation[t] = "Serializable"
      BY <3>1 DEF Serialized
    <3>3. f \in snapshot[t]
      BY <2>1, <3>2, CommitAppends
    <3> QED
      BY <3>1, <3>2, <3>3 DEF LinearInv, AllExtend, Extends
  <2>2. ASSUME NEW t \in Transactions, Insert(t) PROVE InOrder
    BY <2>2 DEF Insert, Serialized
  <2>3. ASSUME NEW t \in Transactions, Begin(t) \/ ReadLatest(t) \/ Abort(t)
        PROVE  InOrder
    <3>1. auditEvents' = auditEvents
      BY <2>3 DEF Begin, ReadLatest, Abort
    <3> QED
      BY <3>1
  <2> QED
    BY <2>1, <2>2, <2>3 DEF Next, Step
<1> QED
  BY <1>1, LinearAlways, PTL DEF Spec, PrefixStable
=============================================================================
