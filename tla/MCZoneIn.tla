------------------------------- MODULE MCZoneIn -------------------------------
(* A small instance of ZoneIn for TLC; no symmetry, for the temporal
   properties.  *)
EXTENDS ZoneIn

CONSTANTS c1, c2

MCBurst == <<"char update", "login">>
=============================================================================
