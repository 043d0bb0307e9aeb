------------------------------ MODULE ReviewPage ------------------------------
(***************************************************************************)
(* The console page on which an operator reviews applications              *)
(* (AdminOnboardingPage.tsx): one application is inspected, its buttons    *)
(* depend on the status it is shown in, and a dialog that covers the page  *)
(* asks for a confirmation.  An inspection puts whatever application it    *)
(* was asked for on the page when it is answered, under the dialog too.    *)
(* Statuses in the database, and the broker's own checks of a review, are  *)
(* in Onboarding: here an inspection may be answered with any status.  The *)
(* list of all applications is left out; OraclePage has one like it.       *)
(***************************************************************************)
EXTENDS Naturals, Sequences, SequencesExt

CONSTANTS
  Applications,
  MaxInspections,  \* bound: inspections in flight at once
  NoApplication

VARIABLES
  inspected,    \* the application shown, and the status it is shown in
  inspections,  \* inspections in flight: application, and who waits for it
  dialog,       \* the action whose confirmation is asked for
  review,       \* handleExecuteAction: its step, action and application;
                \* history: the status it was shown in
  pressed       \* history: the application whose button opened the dialog, if
                \* no inspection was in flight then

reviewVars == <<inspected, inspections, dialog, review, pressed>>

Closed == [app |-> NoApplication, status |-> "NONE"]
Resting == [step |-> "idle", action |-> "NONE", app |-> NoApplication, status |-> "NONE"]

ReviewInit ==
  /\ inspected = Closed
  /\ inspections = <<>>
  /\ dialog = "NONE"
  /\ review = Resting
  /\ pressed = NoApplication

(* The buttons offered for a status.                                       *)
Offered(status) ==
  {action \in {"APPROVE", "REJECT"} : status = "PENDING_VERIFICATION"}
  \cup {action \in {"PROVISION"} : status = "APPROVED"}
  \cup {action \in {"SUSPEND"} : status \in {"APPROVED", "ACTIVE"}}

(* ACTIVE stands for the other provisioned ones too, REJECTED for those    *)
(* that offer nothing.                                                     *)
Statuses == {"PENDING_VERIFICATION", "APPROVED", "ACTIVE", "REJECTED"}

-------------------------------------------------------------------------------
(* handleInspect, from the table; and the Close button.                    *)
Inspect(a) ==
  /\ dialog = "NONE" /\ Len(inspections) < MaxInspections
  /\ inspections' = Append(inspections, [app |-> a, by |-> "table"])
  /\ UNCHANGED <<inspected, dialog, review, pressed>>

CloseInspection ==
  /\ dialog = "NONE" /\ inspected' = Closed
  /\ UNCHANGED <<inspections, dialog, review, pressed>>

(* An inspection is answered, or fails; the handler goes on to its list.   *)
HearInspection ==
  /\ \E i \in DOMAIN inspections :
       LET asked == inspections[i] IN
         /\ inspections' = RemoveAt(inspections, i)
         /\ inspected' \in {inspected} \cup [app : {asked.app}, status : Statuses]
         /\ review' = IF asked.by = "handler" THEN [review EXCEPT !.step = "listing"] ELSE review
  /\ UNCHANGED <<dialog, pressed>>

(* A button opens the dialog.                                              *)
PressAction ==
  /\ dialog = "NONE"
  /\ dialog' \in Offered(inspected.status)
  /\ pressed' = IF inspections = <<>> THEN inspected.app ELSE NoApplication
  /\ UNCHANGED <<inspected, inspections, review>>

CancelDialog ==
  /\ dialog # "NONE" /\ review.step = "idle"
  /\ dialog' = "NONE"
  /\ UNCHANGED <<inspected, inspections, review, pressed>>

(* handleExecuteAction, for the application that is shown by now; both     *)
(* buttons of the dialog are disabled until it has ended.                  *)
ConfirmReview ==
  /\ dialog # "NONE" /\ review.step = "idle"
  /\ review' = [step |-> "sent", action |-> dialog, app |-> inspected.app,
                status |-> inspected.status]
  /\ UNCHANGED <<inspected, inspections, dialog, pressed>>

(* Mutant: the dialog stays open.                                          *)
SucceedInDialog ==
  /\ review.step = "sent" /\ Len(inspections) < MaxInspections
  /\ inspections' = Append(inspections, [app |-> review.app, by |-> "handler"])
  /\ review' = [review EXCEPT !.step = "refreshing"]
  /\ UNCHANGED <<inspected, dialog, pressed>>

(* The broker has done it: the dialog closes, and the application and the  *)
(* list are asked for again.                                               *)
ReviewSucceeds ==
  /\ review.step = "sent" /\ Len(inspections) < MaxInspections
  /\ dialog' = "NONE"
  /\ inspections' = Append(inspections, [app |-> review.app, by |-> "handler"])
  /\ review' = [review EXCEPT !.step = "refreshing"]
  /\ UNCHANGED <<inspected, pressed>>

(* It is refused, or not answered in time: the dialog stays.               *)
ReviewFails ==
  /\ review.step = "sent"
  /\ review' = Resting
  /\ UNCHANGED <<inspected, inspections, dialog, pressed>>

EndReview ==
  /\ review.step = "listing"
  /\ review' = Resting
  /\ UNCHANGED <<inspected, inspections, dialog, pressed>>

ReviewNext ==
  \/ CloseInspection \/ HearInspection \/ PressAction \/ CancelDialog
  \/ ConfirmReview \/ ReviewSucceeds \/ ReviewFails \/ EndReview
  \/ \E a \in Applications : Inspect(a)

ReviewSpec == ReviewInit /\ [][ReviewNext]_reviewVars

-------------------------------------------------------------------------------
ReviewTypeOK ==
  /\ inspected \in [app : Applications, status : Statuses] \cup {Closed}
  /\ dialog \in Offered("PENDING_VERIFICATION") \cup Offered("APPROVED") \cup {"NONE"}
  /\ review.step \in {"idle", "sent", "refreshing", "listing"}

(* AdminOnboardingPage.tsx:70-119, 490-553.  A review that is sent is of   *)
(* the application whose button was pressed, while it is shown in a status *)
(* that offers the action; unless an inspection was in flight when the     *)
(* button was pressed, whose answer may put another application under a    *)
(* dialog that does not name it.                                           *)
ReviewIsOfPressed ==
  review.step = "sent" /\ pressed # NoApplication =>
    review.app = pressed /\ review.action \in Offered(review.status)
===============================================================================
