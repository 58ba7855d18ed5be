----------------------- MODULE MCConnectorActivation -----------------------
(* Small instances of connector activation for TLC. *)
EXTENDS ConnectorActivation

=============================================================================
