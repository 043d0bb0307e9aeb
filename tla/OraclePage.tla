------------------------------ MODULE OraclePage ------------------------------
(***************************************************************************)
(* The console page that lists the Oracle documents (AdminOraclePage.tsx,  *)
(* adminOracleApi.ts): it asks for its list when it opens, when a filter   *)
(* is chosen, and when a change it sent to OracleSources is confirmed.     *)
(* The list requests are not told apart, and none is aborted.              *)
(***************************************************************************)
EXTENDS Integers, Sequences, SequencesExt

CONSTANTS
  Filters,    \* the status and type filters; one of them, "all", is the first
  MaxFetches, \* bound: list requests in flight at once
  MaxChanges  \* bound: changes in flight at once

ASSUME ViewAssumption ==
  "all" \in Filters /\ MaxFetches \in Nat \ {0} /\ MaxChanges \in Nat

VARIABLES
  view,       \* the filter selected, and the filter of the list it shows
  fetches,    \* the filters of the list requests in flight, as they were sent
  handlers,   \* the changes in flight: the filter each button's handler holds
  crossed,    \* history: a list answer came before that of an earlier request
  behind      \* history: the last list request failed, or had another filter

viewVars == <<view, fetches, handlers, crossed, behind>>

ViewInit ==
  /\ view = [filter |-> "all", list |-> "none"]
  /\ fetches = <<"all">> /\ handlers = <<>>
  /\ crossed = FALSE /\ behind = FALSE

(* fetchSources, with the filter of the render it was made in.             *)
FetchSources(f) ==
  /\ Len(fetches) < MaxFetches
  /\ fetches' = Append(fetches, f)
  /\ behind' = (f # view'.filter)

(* Mutant: a new filter asks for nothing.                                  *)
ChangeFilterOnly ==
  /\ \E f \in Filters : view' = [view EXCEPT !.filter = f]
  /\ UNCHANGED <<fetches, behind, handlers, crossed>>

(* The effect of a new filter, or of the tab shown again.                  *)
ChangeFilter ==
  /\ \E f \in Filters : view' = [view EXCEPT !.filter = f] /\ FetchSources(f)
  /\ UNCHANGED <<handlers, crossed>>

(* An answer replaces the list, whatever was asked for since.              *)
ListArrives ==
  /\ \E i \in DOMAIN fetches :
       /\ fetches' = RemoveAt(fetches, i)
       /\ \/ /\ view' = [view EXCEPT !.list = fetches[i]]
             /\ crossed' = (crossed \/ i > 1)
             /\ UNCHANGED behind
          \/ /\ behind' = (behind \/ i = Len(fetches))
             /\ UNCHANGED <<view, crossed>>
  /\ UNCHANGED handlers

(* A button is pressed: handleSubmitSource, handleRevokeConfirm or         *)
(* handleReingest sends its request and waits.                             *)
PressButton ==
  /\ Len(handlers) < MaxChanges
  /\ handlers' = Append(handlers, view.filter)
  /\ UNCHANGED <<view, fetches, crossed, behind>>

(* Its reply: a success asks for the list again, an error is only shown.   *)
HearReply ==
  /\ UNCHANGED <<view, crossed>>
  /\ \E i \in DOMAIN handlers :
       /\ handlers' = RemoveAt(handlers, i)
       /\ FetchSources(handlers[i]) \/ UNCHANGED <<fetches, behind>>

ViewNext == ChangeFilter \/ ListArrives \/ PressButton \/ HearReply

ViewSpec == ViewInit /\ [][ViewNext]_viewVars

-------------------------------------------------------------------------------
ViewTypeOK ==
  /\ view.filter \in Filters /\ view.list \in Filters \cup {"none"}
  /\ Len(fetches) <= MaxFetches /\ Range(fetches) \subseteq Filters
  /\ Len(handlers) <= MaxChanges /\ Range(handlers) \subseteq Filters

(* AdminOraclePage.tsx:76-114, 203, 224, 242.  When no list request is in  *)
(* flight the page shows the list of the filter it has selected; unless    *)
(* the last request failed, an answer overtook an earlier one, or a change *)
(* was confirmed that had been asked for under another filter.             *)
ListMatchesFilter ==
  fetches = <<>> /\ ~crossed /\ ~behind => view.list = view.filter
===============================================================================
