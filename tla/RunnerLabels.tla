--------------------------- MODULE RunnerLabels ---------------------------
(***************************************************************************)
(* Runner labels and their aliases, without the loop that follows them:    *)
(* what a label resolves to, as a property of the alias table alone.       *)
(* LabelResolution shows that the loop of the code computes exactly this;  *)
(* Dispatcher, where nothing can happen in the middle of that loop, takes  *)
(* it as one step.                                                         *)
(***************************************************************************)

CONSTANT Labels          \* every label a setting or a job may carry

(* The alias tables over a set of labels: partial functions. *)
Tables(from, to) == UNION {[keys -> to] : keys \in SUBSET from}

(* A set of labels is closed when it holds the target of each of its       *)
(* aliases; a label leads to those in every closed set that holds it.      *)
Closed(table, S) == \A k \in S \cap DOMAIN table : table[k] \in S

LeadsTo(table, from, to) ==
  \A S \in SUBSET Labels : Closed(table, S) /\ from \in S => to \in S

(* The labels it ends in: at most one, none when aliases run in a circle. *)
Ends(table, from) == {to \in Labels \ DOMAIN table : LeadsTo(table, from, to)}
=============================================================================
