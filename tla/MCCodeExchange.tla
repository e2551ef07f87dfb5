--------------------------- MODULE MCCodeExchange ---------------------------
(* CodeExchange on a small instance: one public client of one tenant.      *)
EXTENDS CodeExchange, TLC

CONSTANTS ten1, app, uri1, uri2

MCClientTenant == app :> ten1
MCRedirectUris == app :> {uri1}

=============================================================================
