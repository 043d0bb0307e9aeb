-------------------------- MODULE SurroundingsProofs --------------------------
(***************************************************************************)
(* Surroundings is a composition: what each component's theorems say of    *)
(* the component alone holds of SideBySide, in whose behaviours the steps  *)
(* of all of them are interleaved.  Such a step is a step of one component *)
(* and a stutter of the others, so that a behaviour of SideBySide          *)
(* satisfies the specification of each; those of BeliefCycles and GateJobs *)
(* are fair, and FairSideBySide is when it is fair to their workers.  What *)
(* is model-checked, Spec, has some of the behaviours of SideBySide.       *)
(***************************************************************************)
EXTENDS Surroundings, AgentProofs, ConsoleProofs, GateJobsProofs, WorkerProofs

(* Each component starts where its own specification says.                 *)
LEMMA EachStarts ==
  SideBySideInit =>
    /\ ConfigInit
    /\ BeliefInit
    /\ GateInit
    /\ PayloadInit
    /\ BargainInit
    /\ TurnInit
    /\ CheckInit
    /\ SourceInit
    /\ ViewInit
    /\ ReviewInit
    /\ SettingsInit
    /\ PagesInit
    /\ FeedInit
    /\ ExplainInit
    /\ SessionInit
BY DEF SideBySideInit

(* A step of the whole is a step of each component, or leaves it alone.     *)
LEMMA EachSteps ==
  [SideBySideNext]_sideVars =>
    /\ UNCHANGED production
    /\ [BeliefNext]_beliefVars
    /\ [GateNext]_gateVars
    /\ [PayloadNext]_payloadVars
    /\ [BargainNext]_bargainVars
    /\ [TurnNext]_turnVars
    /\ [CheckNext]_checkVars
    /\ [SourceNext]_sourceVars
    /\ [ViewNext]_viewVars
    /\ [ReviewNext]_reviewVars
    /\ [SettingsNext]_settingsVars
    /\ [PagesNext]_pageVars
    /\ [FeedNext]_feedVars
    /\ [ExplainNext]_explainVars
    /\ [SessionNext]_sessionVars
<1> SUFFICES ASSUME [SideBySideNext]_sideVars
             PROVE  /\ UNCHANGED production
                    /\ [BeliefNext]_beliefVars
                    /\ [GateNext]_gateVars
                    /\ [PayloadNext]_payloadVars
                    /\ [BargainNext]_bargainVars
                    /\ [TurnNext]_turnVars
                    /\ [CheckNext]_checkVars
                    /\ [SourceNext]_sourceVars
                    /\ [ViewNext]_viewVars
                    /\ [ReviewNext]_reviewVars
                    /\ [SettingsNext]_settingsVars
                    /\ [PagesNext]_pageVars
                    /\ [FeedNext]_feedVars
                    /\ [ExplainNext]_explainVars
                    /\ [SessionNext]_sessionVars
  OBVIOUS
<1>1. CASE UNCHANGED sideVars
  BY <1>1 DEF sideVars, sourceVars
<1>2. CASE SideBySideNext
  <2>1. PICK p \in Parts :
                     /\ Still(p)
                     /\ \/ p = "beliefs" /\ BeliefNext
                        \/ p = "gates" /\ GateNext
                        \/ p = "payload" /\ PayloadNext
                        \/ p = "bargain" /\ BargainNext
                        \/ p = "turns" /\ TurnNext
                        \/ p = "integrity" /\ CheckNext
                        \/ p = "sources" /\ SourceNext
                        \/ p = "view" /\ ViewNext
                        \/ p = "review" /\ ReviewNext
                        \/ p = "settings" /\ SettingsNext
                        \/ p = "pages" /\ PagesNext
                        \/ p = "feed" /\ FeedNext
                        \/ p = "explanations" /\ ExplainNext
                        \/ p = "session" /\ SessionNext
    BY <1>2 DEF SideBySideNext
  <2>2. UNCHANGED production  BY <2>1 DEF Still
  <2>3. [BeliefNext]_beliefVars
    <3>1. p = "beliefs" => BeliefNext  BY <2>1
    <3>2. p # "beliefs" => UNCHANGED beliefVars  BY <2>1 DEF Still, Unless
    <3>3. QED  BY <3>1, <3>2
  <2>4. [GateNext]_gateVars
    <3>1. p = "gates" => GateNext  BY <2>1
    <3>2. p # "gates" => UNCHANGED gateVars  BY <2>1 DEF Still, Unless
    <3>3. QED  BY <3>1, <3>2
  <2>5. [PayloadNext]_payloadVars
    <3>1. p = "payload" => PayloadNext  BY <2>1
    <3>2. p # "payload" => UNCHANGED payloadVars  BY <2>1 DEF Still, Unless
    <3>3. QED  BY <3>1, <3>2
  <2>6. [BargainNext]_bargainVars
    <3>1. p = "bargain" => BargainNext  BY <2>1
    <3>2. p # "bargain" => UNCHANGED bargainVars  BY <2>1 DEF Still, Unless
    <3>3. QED  BY <3>1, <3>2
  <2>7. [TurnNext]_turnVars
    <3>1. p = "turns" => TurnNext  BY <2>1
    <3>2. p # "turns" => UNCHANGED turnVars  BY <2>1 DEF Still, Unless
    <3>3. QED  BY <3>1, <3>2
  <2>8. [CheckNext]_checkVars
    <3>1. p = "integrity" => CheckNext  BY <2>1
    <3>2. p # "integrity" => UNCHANGED checkVars  BY <2>1 DEF Still, Unless
    <3>3. QED  BY <3>1, <3>2
  <2>9. [SourceNext]_sourceVars
    <3>1. p = "sources" => SourceNext  BY <2>1
    <3>2. p # "sources" => UNCHANGED sourceVars  BY <2>1 DEF Still, Unless
    <3>3. QED  BY <3>1, <3>2
  <2>10. [ViewNext]_viewVars
    <3>1. p = "view" => ViewNext  BY <2>1
    <3>2. p # "view" => UNCHANGED viewVars  BY <2>1 DEF Still, Unless
    <3>3. QED  BY <3>1, <3>2
  <2>11. [ReviewNext]_reviewVars
    <3>1. p = "review" => ReviewNext  BY <2>1
    <3>2. p # "review" => UNCHANGED reviewVars  BY <2>1 DEF Still, Unless
    <3>3. QED  BY <3>1, <3>2
  <2>12. [SettingsNext]_settingsVars
    <3>1. p = "settings" => SettingsNext  BY <2>1
    <3>2. p # "settings" => UNCHANGED settingsVars  BY <2>1 DEF Still, Unless
    <3>3. QED  BY <3>1, <3>2
  <2>13. [PagesNext]_pageVars
    <3>1. p = "pages" => PagesNext  BY <2>1
    <3>2. p # "pages" => UNCHANGED pageVars  BY <2>1 DEF Still, Unless
    <3>3. QED  BY <3>1, <3>2
  <2>14. [FeedNext]_feedVars
    <3>1. p = "feed" => FeedNext  BY <2>1
    <3>2. p # "feed" => UNCHANGED feedVars  BY <2>1 DEF Still, Unless
    <3>3. QED  BY <3>1, <3>2
  <2>15. [ExplainNext]_explainVars
    <3>1. p = "explanations" => ExplainNext  BY <2>1
    <3>2. p # "explanations" => UNCHANGED explainVars  BY <2>1 DEF Still, Unless
    <3>3. QED  BY <3>1, <3>2
  <2>16. [SessionNext]_sessionVars
    <3>1. p = "session" => SessionNext  BY <2>1
    <3>2. p # "session" => UNCHANGED sessionVars  BY <2>1 DEF Still, Unless
    <3>3. QED  BY <3>1, <3>2
  <2> QED  BY <2>2, <2>3, <2>4, <2>5, <2>6, <2>7, <2>8, <2>9, <2>10, <2>11, <2>12, <2>13, <2>14, <2>15, <2>16
<1> QED  BY <1>1, <1>2

(***************************************************************************)
(* A behaviour of the composition, whichever components take its steps and *)
(* in whatever order, is one of each component's specification that has no *)
(* fairness, and with the fairness of broadcasts and gates of theirs too.  *)
(***************************************************************************)
THEOREM EachRuns ==
  /\ SideBySide =>
       /\ PayloadSpec /\ BargainSpec /\ TurnSpec /\ CheckSpec /\ SourceSpec
       /\ ViewSpec /\ ReviewSpec /\ SettingsSpec /\ PagesSpec /\ FeedSpec
       /\ ExplainSpec /\ SessionSpec
  /\ FairSideBySide => BeliefSpec /\ GateSpec
<1>1. SideBySide => PayloadSpec
  BY EachStarts, EachSteps, PTL DEF SideBySide, PayloadSpec
<1>2. SideBySide => BargainSpec
  BY EachStarts, EachSteps, PTL DEF SideBySide, BargainSpec
<1>3. SideBySide => TurnSpec
  BY EachStarts, EachSteps, PTL DEF SideBySide, TurnSpec
<1>4. SideBySide => CheckSpec
  BY EachStarts, EachSteps, PTL DEF SideBySide, CheckSpec
<1>5. SideBySide => SourceSpec
  BY EachStarts, EachSteps, PTL DEF SideBySide, SourceSpec
<1>6. SideBySide => ViewSpec
  BY EachStarts, EachSteps, PTL DEF SideBySide, ViewSpec
<1>7. SideBySide => ReviewSpec
  BY EachStarts, EachSteps, PTL DEF SideBySide, ReviewSpec
<1>8. SideBySide => SettingsSpec
  BY EachStarts, EachSteps, PTL DEF SideBySide, SettingsSpec
<1>9. SideBySide => PagesSpec
  BY EachStarts, EachSteps, PTL DEF SideBySide, PagesSpec
<1>10. SideBySide => FeedSpec
  BY EachStarts, EachSteps, PTL DEF SideBySide, FeedSpec
<1>11. SideBySide => ExplainSpec
  BY EachStarts, EachSteps, PTL DEF SideBySide, ExplainSpec
<1>12. SideBySide => SessionSpec
  BY EachStarts, EachSteps, PTL DEF SideBySide, SessionSpec
<1>13. FairSideBySide => BeliefSpec
  <2>1. [SideBySideNext]_sideVars => [BeliefNext /\ UNCHANGED production]_<<beliefVars, production>>
    BY EachSteps
  <2> QED  BY <2>1, EachStarts, PTL DEF FairSideBySide, SideBySide, BeliefSpec
<1>14. FairSideBySide => GateSpec
  <2>1. [SideBySideNext]_sideVars => [GateNext /\ UNCHANGED production]_<<gateVars, production>>
    BY EachSteps
  <2> QED  BY <2>1, EachStarts, PTL DEF FairSideBySide, SideBySide, GateSpec
<1> QED
  BY <1>1, <1>2, <1>3, <1>4, <1>5, <1>6, <1>7, <1>8, <1>9, <1>10, <1>11, <1>12, <1>13, <1>14, PTL

(***************************************************************************)
(* What is model-checked is a part of it: a behaviour that follows one     *)
(* component is one of the composition in which the others do not move.    *)
(***************************************************************************)
THEOREM OneIsFollowed == Spec => SideBySide
<1>1. Init => SideBySideInit  BY DEF Init
<1>2. [Next]_vars => [SideBySideNext]_sideVars
  <2> SUFFICES ASSUME [Next]_vars PROVE [SideBySideNext]_sideVars  OBVIOUS
  <2>1. CASE UNCHANGED vars  BY <2>1 DEF vars
  <2>2. CASE Next
    <3>1. /\ part \in Parts /\ Still(part)
          /\ \/ part = "beliefs" /\ BeliefNext
             \/ part = "gates" /\ GateNext
             \/ part = "payload" /\ PayloadNext
             \/ part = "bargain" /\ BargainNext
             \/ part = "turns" /\ TurnNext
             \/ part = "integrity" /\ CheckNext
             \/ part = "sources" /\ SourceNext
             \/ part = "view" /\ ViewNext
             \/ part = "review" /\ ReviewNext
             \/ part = "settings" /\ SettingsNext
             \/ part = "pages" /\ PagesNext
             \/ part = "feed" /\ FeedNext
             \/ part = "explanations" /\ ExplainNext
             \/ part = "session" /\ SessionNext
      BY <2>2 DEF Next, Followed, Parts
    <3> QED  BY <3>1 DEF SideBySideNext
  <2> QED  BY <2>1, <2>2
<1> QED
  BY <1>1, <1>2, PTL DEF Spec, SideBySide

(* The invariants of BeliefCycles and GateJobs, with the broker's mode.     *)
LEMMA BeliefsHold == SideBySide => [](BeliefInv /\ BeliefTyped)
<1>1. SideBySideInit => BeliefInv /\ BeliefTyped
  BY EachStarts, BeliefsStart, BeliefTypesStart
<1>2. BeliefInv /\ BeliefTyped /\ [SideBySideNext]_sideVars => (BeliefInv /\ BeliefTyped)'
  <2>1. [SideBySideNext]_sideVars => [BeliefNext /\ UNCHANGED production]_<<beliefVars, production>>
    BY EachSteps
  <2>2. [SideBySideNext]_sideVars => [BeliefNext]_beliefVars
    BY EachSteps
  <2> QED
    BY <2>1, <2>2, BeliefSteps, BeliefTypesKept
<1> QED
  BY <1>1, <1>2, PTL DEF SideBySide

LEMMA GatesHold == SideBySide => []GateInv
<1>1. SideBySideInit => GateInv
  BY EachStarts, GateInvInit
<1>2. [SideBySideNext]_sideVars => [GateNext /\ UNCHANGED production]_<<gateVars, production>>
  BY EachSteps
<1> QED
  BY <1>1, <1>2, GateStep, PTL DEF SideBySide

(* What is typed in each component is typed in every behaviour in which    *)
(* the components run side by side.                                        *)
THEOREM ComponentsTyped == SideBySide => []TypeOK
<1>1. BeliefTyped => BeliefTypeOK  BY DEF BeliefTyped
<1>2. GateInv => GateTypeOK  BY DEF GateInv
<1>3. SideBySide => []BeliefTypeOK /\ []GateTypeOK
  BY <1>1, <1>2, BeliefsHold, GatesHold, PTL
<1>4. SideBySide => []BargainTypeOK /\ []TurnTypeOK /\ []CheckTypeOK /\ []SourceTypeOK
  BY EachRuns, BargainsTyped, TurnsTyped, ChecksTyped, SourcesTyped, PTL
<1>5. SideBySide => []ViewTypeOK /\ []ReviewTypeOK /\ []SettingsTypeOK
  BY EachRuns, ViewsTyped, ReviewsTyped, SettingsKeepTypes, PTL
<1>6. SideBySide => []PagesTypeOK /\ []FeedTypeOK /\ []SessionTypeOK
  BY EachRuns, PagesTyped, FeedsTyped, SessionsTyped, PTL
<1>7. TypeOK <=> /\ BeliefTypeOK /\ GateTypeOK /\ BargainTypeOK /\ TurnTypeOK /\ CheckTypeOK
                 /\ SourceTypeOK /\ ViewTypeOK /\ ReviewTypeOK /\ SettingsTypeOK
                 /\ PagesTypeOK /\ FeedTypeOK /\ SessionTypeOK
  BY DEF TypeOK
<1> QED
  BY <1>3, <1>4, <1>5, <1>6, <1>7, PTL

(***************************************************************************)
(* What the workers promise, when their steps are interleaved with those   *)
(* of all the others: beliefs follow on, updates are stored, a pass is     *)
(* backed, what is given up is alerted, a completed check vouches, an      *)
(* alarm is explained, a listing follows the trail.  No worker looks at    *)
(* what another one keeps, but for the mode.                               *)
(***************************************************************************)
THEOREM WorkersTogether ==
  SideBySide =>
    []( /\ SerialCyclesFollowOn /\ ReportedUpdatesStored
        /\ PassIsBacked /\ ExhaustedIsAlerted /\ PowerIsTraded
        /\ CompletedVouches /\ AlarmIsExplained /\ StatusFollowsTrail)
<1>1. BeliefInv => SerialCyclesFollowOn /\ ReportedUpdatesStored
  BY DEF BeliefInv, RunsAlone, SerialCyclesFollowOn
<1>2. GateInv => PassIsBacked /\ ExhaustedIsAlerted
  BY BackedByInv, AlertedByInv
<1>3. SideBySide => [](SerialCyclesFollowOn /\ ReportedUpdatesStored /\ PassIsBacked /\ ExhaustedIsAlerted)
  BY <1>1, <1>2, BeliefsHold, GatesHold, PTL
<1>4. SideBySide => [](PowerIsTraded /\ CompletedVouches /\ AlarmIsExplained /\ StatusFollowsTrail)
  BY EachRuns, TradedPower, CompletedChecksVouch, AlarmsAreExplained, ListingsFollowTheTrail, PTL
<1> QED
  BY <1>3, <1>4, PTL

(***************************************************************************)
(* And what the agents and the console promise, their steps interleaved    *)
(* too: a deal keeps to the limits of both owners, a table stalls by a     *)
(* loss only, an answer is for its round; lists, reviews, switches,        *)
(* sections, feeds, explanations and sessions show what they are of.       *)
(***************************************************************************)
THEOREM PagesTogether ==
  SideBySide =>
    []( /\ DealWithinLimits /\ StallNeedsLoss /\ AnswersFitTheirRound
        /\ ListMatchesFilter /\ ReviewIsOfPressed /\ PauseHolds
        /\ SectionsAgree /\ FeedFollows /\ OwnDealsAreTold
        /\ OpponentStaysPrivate /\ ShownUserOwnsToken)
<1>1. SideBySide => [](DealWithinLimits /\ StallNeedsLoss /\ AnswersFitTheirRound)
  BY EachRuns, DealsAreWithinLimits, StallsNeedALoss, AnswersFit, PTL
<1>2. SideBySide => [](ListMatchesFilter /\ ReviewIsOfPressed /\ PauseHolds)
  BY EachRuns, ListsMatchTheFilter, ReviewsAreOfThePressed, PausesHold, PTL
<1>3. SideBySide => [](SectionsAgree /\ FeedFollows /\ OwnDealsAreTold)
  BY EachRuns, PagesAgree, FeedsFollow, OwnDealsTold, PTL
<1>4. SideBySide => [](OpponentStaysPrivate /\ ShownUserOwnsToken)
  BY EachRuns, OpponentsStayPrivate, ShownUsersOwnTheToken, PTL
<1> QED
  BY <1>1, <1>2, <1>3, <1>4, PTL

(***************************************************************************)
(* Broadcasts and separate gates run out while everything else runs: a     *)
(* step of either lowers what is left of one of its jobs, and no other     *)
(* component's step gives anything back.                                   *)
(***************************************************************************)
THEOREM JobsRunOutTogether == SideBySide => []Attended /\ BroadcastsRunOut /\ ChecksRunOut
<1>1. SideBySideInit => Attended
  BY EachStarts, AttendedStarts
<1>2. [SideBySideNext]_sideVars =>
        /\ [BeliefNext]_beliefVars
        /\ [GateNext /\ UNCHANGED production]_<<gateVars, production>>
  BY EachSteps
<1>3. SideBySide => []Attended
  BY <1>1, <1>2, BeliefsHold, AttendedKept, PTL DEF SideBySide
<1>4. SideBySide => [][(RunsLower \/ CycleLowers) /\ LeftBounded']_beliefVars
  BY <1>2, <1>3, BeliefsHold, LeftLowers, PTL DEF SideBySide
<1>5. SideBySide => ChecksRunOut
  BY <1>2, GatesHold, ChecksLower, PTL DEF SideBySide, ChecksRunOut
<1> QED
  BY <1>3, <1>4, <1>5 DEF BroadcastsRunOut
===============================================================================
