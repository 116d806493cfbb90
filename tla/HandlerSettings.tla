-------------------------- MODULE HandlerSettings --------------------------
(***************************************************************************)
(* The settings that the start of the webhook server hands to its          *)
(* handlers.  Dispatcher assumes no more of them than is said here, and    *)
(* Startup shows that a server that listens has no less.                   *)
(***************************************************************************)
EXTENDS RunnerLabels, Integers

(* Any number of retries passes Validate; a negative one means no limit.   *)
ConfigType == [extra: Nat, maxRetries: Int, enabled404: BOOLEAN,
               has404Pool: BOOLEAN, defaultDisabled: BOOLEAN,
               hasRegistry: BOOLEAN]

GoodSettings(c) == c \in ConfigType /\ (c.enabled404 => c.has404Pool)

(* Supported labels, ignored labels, and the aliases. *)
GoodLabels(sup, ign, table) ==
  /\ sup \subseteq Labels /\ ign \subseteq Labels
  /\ sup \cap ign = {}
  /\ table \in Tables(Labels, sup)
=============================================================================
