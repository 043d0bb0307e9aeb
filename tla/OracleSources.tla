---------------------------- MODULE OracleSources -----------------------------
(***************************************************************************)
(* The administrators' Oracle documents: the routes of adminOracle.ts and  *)
(* the engine's ingestion behind them.  A change and its audit event are   *)
(* two statements, and the engine may store what it never answered for.    *)
(* The console page that lists the documents is OraclePage.                *)
(*                                                                         *)
(* A document is named by its content and a copy number: the engine keeps  *)
(* one copy of a content, the broker's own insert makes another.  Copy 0   *)
(* is the id the engine answers with for a content it already had, under   *)
(* which nothing is stored.                                                *)
(***************************************************************************)
EXTENDS BrokerConfig, Integers, FiniteSets

CONSTANTS
  Contents,   \* bound: what is submitted
  Copies,     \* bound: copies of a content, numbers from 1
  Requests    \* bound: submissions, revocations and re-ingestions, numbers

ASSUME SourceAssumption ==
  /\ Copies \subseteq Nat \ {0} /\ IsFiniteSet(Contents) /\ IsFiniteSet(Copies)
  /\ Requests \subseteq Nat

VARIABLES
  documents,  \* embedded_documents: each copy's validity
  trail,      \* the latest ORACLE_ event of the audit chain about an id
  requests,   \* the administrators' requests
  changed,    \* history: <<request, id>>: what a request stored or altered
  clashed     \* history: ids two requests changed at once

sourceVars == <<documents, trail, requests, changed, clashed, production>>

Ids == Contents \X Copies
Ghost(c) == <<c, 0>>
Kinds == {"submit", "revoke", "reingest"}
Fresh == [kind |-> "none", id |-> <<>>, step |-> "none"]

SourceInit ==
  /\ documents = [d \in Ids |-> "absent"]
  /\ trail = [d \in Ids \cup {Ghost(c) : c \in Contents} |-> "none"]
  /\ requests = [r \in Requests |-> Fresh]
  /\ changed = {} /\ clashed = {}

-------------------------------------------------------------------------------
(* A request is made; it may be refused for its input (RequestFails).      *)
Ask(r, kind, id) ==
  /\ requests[r] = Fresh /\ \A q \in Requests : q < r => requests[q] # Fresh
  /\ requests' = [requests EXCEPT ![r] = [kind |-> kind, id |-> id, step |-> "new"]]
  /\ UNCHANGED <<documents, trail, changed, clashed>>

SubmitSource(r) == \E c \in Contents : Ask(r, "submit", Ghost(c))
RevokeSource(r) == \E d \in Ids : documents[d] # "absent" /\ Ask(r, "revoke", d)
Reingest(r)     == \E d \in Ids : documents[d] # "absent" /\ Ask(r, "reingest", d)

InFlight(d) == \E r \in Requests : requests[r].id = d /\ requests[r].step \in {"fallback", "audit"}

(* Document d becomes v for request r, whose next step is s.               *)
Change(r, d, v, s) ==
  /\ documents' = [documents EXCEPT ![d] = v]
  /\ requests' = [requests EXCEPT ![r].id = d, ![r].step = s]
  /\ changed' = changed \cup {<<r, d>>}
  /\ clashed' = IF InFlight(d) THEN clashed \cup {d} ELSE clashed
Answer(r, s) ==
  requests' = [requests EXCEPT ![r].step = s] /\ UNCHANGED <<documents, changed, clashed>>

Stored(c) == {d \in Ids : d[1] = c /\ documents[d] # "absent"}
NextCopy(c) == <<c, Cardinality(Stored(c)) + 1>>
Validities == {"active", "until"}  \* without or with a validUntil to come

(* The engine ingests the content and answers with an id; for one it       *)
(* already has it stores nothing and answers with an id all the same.      *)
EngineIngests(r) ==
  /\ requests[r].kind = "submit" /\ requests[r].step = "new"
  /\ LET c == requests[r].id[1] IN
       IF Stored(c) = {} THEN \E v \in Validities : Change(r, NextCopy(c), v, "audit")
       ELSE Answer(r, "audit")
  /\ UNCHANGED trail

(* No answer within five seconds, or an error, whether or not the engine   *)
(* has stored the document: in production the request fails.               *)
EngineSilent(r) ==
  /\ requests[r].kind = "submit" /\ requests[r].step = "new"
  /\ LET c == requests[r].id[1]
         next == IF production THEN "failed" ELSE "fallback" IN
       \/ Answer(r, next)
       \/ Stored(c) = {} /\ \E v \in Validities : Change(r, NextCopy(c), v, next)
  /\ UNCHANGED trail

(* In simulation the broker inserts the document itself, another copy.     *)
InsertFallback(r) ==
  /\ requests[r].step = "fallback"
  /\ LET c == requests[r].id[1] IN
       NextCopy(c) \in Ids /\ \E v \in Validities : Change(r, NextCopy(c), v, "audit")
  /\ UNCHANGED trail

(* Mutant: a re-ingestion leaves the validity as it was.                   *)
UpdateWithoutReset(r) ==
  /\ requests[r].step = "new"
  /\ \/ requests[r].kind = "revoke"   /\ Change(r, requests[r].id, "revoked", "audit")
     \/ requests[r].kind = "reingest"
        /\ Change(r, requests[r].id, documents[requests[r].id], "audit")
  /\ UNCHANGED trail

UpdateSource(r) ==
  /\ requests[r].step = "new"
  /\ \/ requests[r].kind = "revoke"   /\ Change(r, requests[r].id, "revoked", "audit")
     \/ requests[r].kind = "reingest" /\ Change(r, requests[r].id, "active", "audit")
  /\ UNCHANGED trail

(* The event is appended, and the request answered.                        *)
AuditSource(r) ==
  /\ requests[r].step = "audit"
  /\ Answer(r, "done")
  /\ trail' = [trail EXCEPT ![requests[r].id] = requests[r].kind]

(* The input is refused, a statement fails, or the broker stops.           *)
RequestFails(r) ==
  /\ requests[r].step \in {"new", "fallback", "audit"}
  /\ Answer(r, "failed")
  /\ UNCHANGED trail

(* A document's own validUntil passes.                                     *)
SourceExpires ==
  /\ \E d \in Ids : documents[d] = "until" /\ documents' = [documents EXCEPT ![d] = "expired"]
  /\ UNCHANGED <<trail, changed, clashed, requests>>

SourceNext ==
  /\ \/ SourceExpires
     \/ \E r \in Requests :
          \/ SubmitSource(r) \/ RevokeSource(r) \/ Reingest(r)
          \/ EngineIngests(r) \/ EngineSilent(r) \/ InsertFallback(r)
          \/ UpdateSource(r) \/ AuditSource(r) \/ RequestFails(r)
  /\ UNCHANGED production

SourceSpec == ConfigInit /\ SourceInit /\ [][SourceNext]_sourceVars

-------------------------------------------------------------------------------
(* What the list says of a document.                                       *)
Status(d) == IF documents[d] \in {"revoked", "expired"} THEN "REVOKED" ELSE "ACTIVE"

SourceTypeOK ==
  /\ documents \in [Ids -> Validities \cup {"absent", "revoked", "expired"}]
  /\ \A r \in Requests : /\ requests[r].kind \in Kinds \cup {"none"}
                         /\ requests[r].step \in {"none", "new", "fallback", "audit",
                                                 "done", "failed"}

(* adminOracle.ts:362-369, 416-423.  A document that is at rest is listed  *)
(* as the audit chain has it: there is an event about it, and it is        *)
(* revoked if and only if the latest is its revocation, or its validity    *)
(* ran out.  The exceptions are a request that failed after its change, a  *)
(* document the engine stored without being heard, of which the broker     *)
(* inserted another copy, and two changes of one document at once, whose   *)
(* events may be in the other order.                                       *)
StatusFollowsTrail ==
  \A d \in Ids :
    /\ documents[d] # "absent" /\ ~InFlight(d) /\ d \notin clashed
    /\ ~ \E r \in Requests :
         <<r, d>> \in changed /\ (requests[r].step = "failed" \/ requests[r].id # d)
    => /\ trail[d] # "none"
       /\ Status(d) = "REVOKED" <=> trail[d] = "revoke" \/ documents[d] = "expired"
===============================================================================
