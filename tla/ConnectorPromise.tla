-------------------------- MODULE ConnectorPromise --------------------------
(***************************************************************************)
(* What ConnectorActivator.activate promises its callers about one table,  *)
(* whatever happens on the way to Kafka Connect: a connector appears only  *)
(* after somebody asked for it, stays, and whoever is told of success is   *)
(* told the truth.  ConnectorActivation implements this promise; the       *)
(* portal and the data source agent are modelled on it.                    *)
(***************************************************************************)
VARIABLES
    exists,     \* Kafka Connect has the connector
    asked,      \* some call has sent a request
    reported    \* some call has returned normally

vars == <<exists, asked, reported>>

PromiseInit == exists = FALSE /\ asked = FALSE /\ reported = FALSE

Ask == asked' = TRUE /\ UNCHANGED <<exists, reported>>
Create == asked /\ exists' = TRUE /\ UNCHANGED <<asked, reported>>
ReportSuccess == exists /\ reported' = TRUE /\ UNCHANGED <<exists, asked>>

PromiseSpec ==
    PromiseInit /\ [][Ask \/ Create \/ ReportSuccess]_vars
=============================================================================
