----------------------------- MODULE BrokerConfig -----------------------------
(***************************************************************************)
(* The mode a broker process starts in (broker/src/config.ts).  It is read *)
(* from the environment once and never changes; the services below fail    *)
(* closed when it is production and fall back to mocks when it is not.     *)
(***************************************************************************)
VARIABLE production  \* isProduction()

ConfigInit == production \in BOOLEAN
===============================================================================
