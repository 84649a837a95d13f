------------------------ MODULE MCIntegrationGateway ------------------------
(* One module called by two tenants, two calls in flight.  Breakers of      *)
(* different modules share nothing, so one of them suffices.                *)
EXTENDS IntegrationGateway
=============================================================================
