------------------------ MODULE MCIntegrationRuntime ------------------------
(* Instances of IntegrationRuntime for TLC.                                *)
EXTENDS IntegrationRuntime
=============================================================================
