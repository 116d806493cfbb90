------------------------------ MODULE MCFleet ------------------------------
(***************************************************************************)
(* A model for Fleet: a job that is delivered twice, and another of the    *)
(* same repository and label, between which GitHub may swap runners.       *)
(***************************************************************************)
EXTENDS Fleet, TLC

CONSTANTS first, again, second, j1, j2, linux

MCJobOf   == (first :> j1) @@ (again :> j1) @@ (second :> j2)
MCClassOf == (j1 :> linux) @@ (j2 :> linux)
=============================================================================
