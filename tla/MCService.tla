----------------------------- MODULE MCService -----------------------------
(***************************************************************************)
(* A model for Service: the settings and events of MCDispatcher, for one   *)
(* delivery of one job.                                                    *)
(***************************************************************************)
EXTENDS Service, MCDispatcher

CONSTANTS j1, runsOn

MCJobOf   == r1 :> j1
MCClassOf == j1 :> runsOn
=============================================================================
