----------------------------- MODULE MCRetries -----------------------------
EXTENDS Retries

(* Retries without end, none, one and two. *)
MCLimits == {-1, 0, 1, 2}
=============================================================================
