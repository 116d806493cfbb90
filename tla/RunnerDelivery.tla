-------------------------- MODULE RunnerDelivery --------------------------
(***************************************************************************)
(* What the webhook server promises about one delivery, whatever happens   *)
(* to its calls: it starts the runners 1, 2, 3, ... of the delivery one    *)
(* after another, never after its answer and never after its instance      *)
(* died; and its answer names all the runners it started, in a number the  *)
(* configuration allows for, or names none.                                *)
(***************************************************************************)
EXTENDS Integers

CONSTANT Requests   \* the deliveries

VARIABLES
  sizes,        \* how many runners a successful delivery may start: fixed
  stage,        \* "waiting", "working", "answered" or "dead"
  started,      \* the runners a build was created for
  promised      \* the runners the answer names

vars == <<sizes, stage, started, promised>>

Init ==
  /\ sizes \in SUBSET Nat
  /\ stage = [r \in Requests |-> "waiting"]
  /\ started = [r \in Requests |-> {}]
  /\ promised = [r \in Requests |-> {}]

(* A delivery is answered from its payload alone, or is worked on. *)
Receive(r) ==
  /\ stage[r] = "waiting"
  /\ \E s \in {"answered", "working"} : stage' = [stage EXCEPT ![r] = s]
  /\ UNCHANGED <<sizes, started, promised>>

(* The next runner is started, if a size allows for it, or the last one a  *)
(* second time.                                                            *)
Starts(r) ==
  \/ UNCHANGED started
  \/ \E size \in sizes : \E n \in 0 .. size - 1 :
       /\ started[r] = 1 .. n
       /\ started' = [started EXCEPT ![r] = 1 .. n + 1]

Start(r) ==
  /\ stage[r] = "working"
  /\ Starts(r)
  /\ UNCHANGED <<sizes, stage, promised>>

(* Mutant of Finish: a runner that failed is named with the others. *)
Finish_NamesFailed(r) ==
  /\ stage[r] = "working"
  /\ Starts(r)
  /\ stage' = [stage EXCEPT ![r] = "answered"]
  /\ UNCHANGED sizes
  /\ \E k \in sizes : promised' = [promised EXCEPT ![r] = 1 .. k]

(* The answer may come with the start of the last runner. *)
Finish(r) ==
  /\ stage[r] = "working"
  /\ Starts(r)
  /\ stage' = [stage EXCEPT ![r] = "answered"]
  /\ UNCHANGED sizes
  /\ \/ UNCHANGED promised
     \/ /\ \E k \in sizes : started'[r] = 1 .. k
        /\ promised' = [promised EXCEPT ![r] = started'[r]]

(* Mutant of Die: the death of the instance has no state of its own. *)
Die_Unknown(r) ==
  /\ stage[r] = "working"
  /\ stage' = [stage EXCEPT ![r] = "lost"]
  /\ UNCHANGED <<sizes, started, promised>>

Die(r) ==
  /\ stage[r] = "working"
  /\ stage' = [stage EXCEPT ![r] = "dead"]
  /\ UNCHANGED <<sizes, started, promised>>

Next == \E r \in Requests : Receive(r) \/ Start(r) \/ Finish(r) \/ Die(r)

Spec == Init /\ [][Next]_vars
=============================================================================
