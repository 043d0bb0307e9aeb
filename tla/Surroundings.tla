----------------------------- MODULE Surroundings -----------------------------
(***************************************************************************)
(* The components around the negotiation, the audit chain and the          *)
(* onboarding, each in a module of its own: they run side by side, in      *)
(* processes and browsers that share no state but the broker's mode.       *)
(* SideBySide interleaves their steps.  So what is said of one is decided  *)
(* by its own steps, and a model checker follows them one at a time: Spec  *)
(* has the behaviours of SideBySide in which one component, `part`, runs,  *)
(* the others stay where they start, and the mode is left open where it is *)
(* read.                                                                   *)
(***************************************************************************)
EXTENDS BeliefCycles, GateJobs, GatePayload, OwnerBargaining, TurnDelivery, IntegrityCheck,
        OracleSources, OraclePage, ReviewPage, OwnerSettings, OwnerPages, LiveFeed, Explanations, Session

Parts == {"beliefs", "gates", "payload", "bargain", "turns", "integrity", "sources", "view",
          "review", "settings", "pages", "feed", "explanations", "session"}

sideVars == <<beliefVars, gateVars, payloadVars, bargainVars, turnVars, checkVars, sourceVars,
              viewVars, reviewVars, settingsVars, pageVars, feedVars, explainVars, sessionVars>>

SideBySideInit ==
  /\ ConfigInit
  /\ BeliefInit /\ GateInit /\ PayloadInit /\ BargainInit /\ TurnInit /\ CheckInit
  /\ SourceInit /\ ViewInit /\ ReviewInit /\ SettingsInit /\ PagesInit /\ FeedInit
  /\ ExplainInit /\ SessionInit

(* The components other than p stay as they are, for this step.            *)
Unless(excepted, step) == IF excepted THEN TRUE ELSE step
Still(p) ==
  /\ UNCHANGED production
  /\ Unless(p = "beliefs", UNCHANGED beliefVars)
  /\ Unless(p = "gates", UNCHANGED gateVars)
  /\ Unless(p = "payload", UNCHANGED payloadVars)
  /\ Unless(p = "bargain", UNCHANGED bargainVars)
  /\ Unless(p = "turns", UNCHANGED turnVars)
  /\ Unless(p = "integrity", UNCHANGED checkVars)
  /\ Unless(p = "sources", UNCHANGED sourceVars)
  /\ Unless(p = "view", UNCHANGED viewVars)
  /\ Unless(p = "review", UNCHANGED reviewVars)
  /\ Unless(p = "settings", UNCHANGED settingsVars)
  /\ Unless(p = "pages", UNCHANGED pageVars)
  /\ Unless(p = "feed", UNCHANGED feedVars)
  /\ Unless(p = "explanations", UNCHANGED explainVars)
  /\ Unless(p = "session", UNCHANGED sessionVars)

SideBySideNext ==
  \E p \in Parts :
    /\ Still(p)
    /\ \/ p = "beliefs"      /\ BeliefNext
       \/ p = "gates"        /\ GateNext
       \/ p = "payload"      /\ PayloadNext
       \/ p = "bargain"      /\ BargainNext
       \/ p = "turns"        /\ TurnNext
       \/ p = "integrity"    /\ CheckNext
       \/ p = "sources"      /\ SourceNext
       \/ p = "view"         /\ ViewNext
       \/ p = "review"       /\ ReviewNext
       \/ p = "settings"     /\ SettingsNext
       \/ p = "pages"        /\ PagesNext
       \/ p = "feed"         /\ FeedNext
       \/ p = "explanations" /\ ExplainNext
       \/ p = "session"      /\ SessionNext

SideBySide == SideBySideInit /\ [][SideBySideNext]_sideVars

(* With the fairness of BeliefCycles and GateJobs.                         *)
FairSideBySide == SideBySide /\ BeliefFairness /\ GateFairness

-------------------------------------------------------------------------------
(* What is model-checked: the behaviours that follow one component.        *)
VARIABLE part
vars == <<sideVars, part>>

Init ==
  /\ part \in Parts
  /\ SideBySideInit /\ (part \notin {"beliefs", "gates", "sources"} => production)

Followed(p) == part = p /\ UNCHANGED part /\ Still(p)

Next ==
  \/ Followed("beliefs")      /\ BeliefNext
  \/ Followed("gates")        /\ GateNext
  \/ Followed("payload")      /\ PayloadNext
  \/ Followed("bargain")      /\ BargainNext
  \/ Followed("turns")        /\ TurnNext
  \/ Followed("integrity")    /\ CheckNext
  \/ Followed("sources")      /\ SourceNext
  \/ Followed("view")         /\ ViewNext
  \/ Followed("review")       /\ ReviewNext
  \/ Followed("settings")     /\ SettingsNext
  \/ Followed("pages")        /\ PagesNext
  \/ Followed("feed")         /\ FeedNext
  \/ Followed("explanations") /\ ExplainNext
  \/ Followed("session")      /\ SessionNext

Fairness ==
  /\ \A w \in Workers : WF_beliefVars(part = "beliefs" /\ RunCycle(w))
  /\ \A c \in Checks : WF_gateVars(part = "gates" /\ AnswerCheck(c))

Spec == Init /\ [][Next]_vars /\ Fairness

(* The types of the components' variables.                                *)
TypeOK ==
  /\ BeliefTypeOK /\ GateTypeOK /\ BargainTypeOK /\ TurnTypeOK /\ CheckTypeOK
  /\ SourceTypeOK /\ ViewTypeOK /\ ReviewTypeOK /\ SettingsTypeOK /\ PagesTypeOK
  /\ FeedTypeOK /\ SessionTypeOK
===============================================================================
