----------------------------- MODULE MCStartup -----------------------------
(***************************************************************************)
(* A model for Startup, and with it for LabelResolution: three labels as   *)
(* model values, and the environments that start-up tells apart.           *)
(***************************************************************************)
EXTENDS Startup

CONSTANTS ubuntu, large, legacy

MCLabels == {ubuntu, large, legacy}

Complete == [given |-> Required \cup Required404 \cup {"RunnerImageTag"}, blank |-> {},
             numbers |-> [n \in Numbers |-> 0], on |-> {"Runner404Enabled"}, tier |-> "unset"]

With(n, value) == [Complete EXCEPT !.given = @ \cup {n}, !.numbers[n] = value]

Without(s) == [Complete EXCEPT !.given = @ \ {s}, !.blank = {s}]

(* Everything given; one setting missing, with 404 enabled or not; one     *)
(* number at, or beyond, each of its bounds; retries without end and none; *)
(* a wrong tier.                                                           *)
MCEnvironments ==
  {Complete, [Complete EXCEPT !.tier = "other"], [Complete EXCEPT !.tier = "autopush"]}
    \cup {Without(s) : s \in Required \cup Required404
                             \cup {"RunnerImageName", "RunnerImageTag"}}
    \cup {[Without(s) EXCEPT !.on = {"Runner404DefaultDisabled"}] : s \in Required404}
    \cup {With("ExtraRunnerCount", v) : v \in {-1, 1}}
    \cup {With("MaxRetryAttempts", v) : v \in {-1, 0}}
    \cup {With("RunnerIdleTimeoutSeconds", v) : v \in {299, 86400, 86401}}
    \cup {With("RunnerExecutionTimeoutSeconds", v) : v \in {3599, 86400, 86401}}
=============================================================================
