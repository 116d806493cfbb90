--------------------------- MODULE MCDispatcher ---------------------------
(***************************************************************************)
(* Models for Dispatcher.  One organization; a supported label, an alias   *)
(* of it, a label left to other runners, one nobody has runners for and    *)
(* one that is its own alias.                                              *)
(***************************************************************************)
EXTENDS Dispatcher, TLC

CONSTANTS r1, ubuntu, latest, legacy, exotic, looping, acme, default,
          orgPool, defaultPool

MCLabels    == {ubuntu, latest, legacy, exotic, looping}
MCAliases   == (latest :> ubuntu) @@ (looping :> looping)
MCSupported == {ubuntu, looping}
MCIgnored   == {legacy}

Job(label) == [kind |-> "queued", labels |-> {label}, org |-> acme, complete |-> TRUE]

(* A queued job of each kind of label, and what is no such job. *)
MCEvents ==
  {Job(l) : l \in MCLabels}
    \cup {[Job(ubuntu) EXCEPT !.complete = FALSE],
          [Job(ubuntu) EXCEPT !.labels = {ubuntu, legacy}],
          [Job(ubuntu) EXCEPT !.labels = {}]}
    \cup {[Job(ubuntu) EXCEPT !.kind = k] : k \in {"invalid", "unrelated", "progress"}}

(* Published or not, under the organization's key and under the default. *)
MCCatalogues ==
  {[k \in Prefixes \X MCLabels |->
      IF k \in held THEN {IF k[1] = acme THEN orgPool ELSE defaultPool} ELSE {}] :
   held \in SUBSET {<<acme, ubuntu>>, <<default, ubuntu>>}}

Settings(extras, retriesAllowed) ==
  {c \in [extra: extras, maxRetries: retriesAllowed, enabled404: BOOLEAN,
          has404Pool: BOOLEAN, defaultDisabled: BOOLEAN, hasRegistry: BOOLEAN] :
     c.enabled404 => c.has404Pool}

(* For where a runner is placed: every setting that bears on it. *)
PlacementConfigs == Settings({0, 1}, {0})

(* For the second way to the 404 runner: a registry, but an empty one, and  *)
(* a default key to fall back on.                                          *)
RegistryConfigs == {c \in PlacementConfigs : c.hasRegistry /\ ~c.defaultDisabled}

EmptyCatalogue == {[k \in Prefixes \X MCLabels |-> {}]}

(* For the calls that start runners: with two extra runners and two        *)
(* retries, two configurations or two answers can go missing within one    *)
(* loop or one call; and retries without end.                              *)
CallConfigs == {c \in Settings(0 .. 2, -1 .. 2) : c.hasRegistry}

(* A registry that stays as it is.  It has pools under both keys: one is   *)
(* missed only when it cannot be read.                                     *)
FixedCatalogue ==
  {cat \in MCCatalogues : \A p \in Prefixes : cat[<<p, ubuntu>>] # {}}

(* Jobs for a pool and jobs for the 404 runner. *)
RunnableEvents == {Job(latest), Job(exotic)}
=============================================================================
