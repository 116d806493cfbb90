------------------------- MODULE LabelResolution -------------------------
(***************************************************************************)
(* How the webhook server turns a job's runner label into the label it     *)
(* looks pools up by.  Config.Validate checks the three label settings and *)
(* builds the alias table entry by entry, NewServer precomputes the labels *)
(* it will provision, and for every queued job                             *)
(* resolveAndValidateRunnerLabel follows aliases, one table lookup per     *)
(* iteration, remembering the labels it has visited.                       *)
(*                                                                         *)
(* Labels are model values: nothing in the code looks inside one, apart    *)
(* from splitting an alias entry at its first "=".                         *)
(***************************************************************************)

EXTENDS RunnerLabels

VARIABLES
  phase,        \* where the process is, from Validate to a resolved label
  supported,    \* SUPPORTED_RUNNER_LABELS
  ignored,      \* IGNORED_RUNNER_LABELS
  aliases,      \* cfg.RunnerLabelAliases, a partial function on Labels
  allowed,      \* s.allowedLabels
  incoming,     \* the label of the job being handled
  current,      \* jobResolvedRunnerLabel
  visited,      \* the loop's visited set
  canHandle     \* second result of resolveAndValidateRunnerLabel

settings == <<supported, ignored, aliases, allowed>>
loop     == <<incoming, current, visited, canHandle>>
vars     == <<phase, settings, loop>>

Phases == {"validating", "rejected", "serving", "resolving", "resolved", "cycle"}

-----------------------------------------------------------------------------
(* The environment the process starts in: any label settings at all. *)
Init ==
  /\ phase = "validating"
  /\ supported \in SUBSET Labels
  /\ ignored \in SUBSET Labels
  /\ aliases = [k \in {} |-> k]
  /\ allowed = {}
  /\ incoming \in Labels /\ current = incoming
  /\ visited = {} /\ canHandle = FALSE

(* Mutant of LabelsValid: the two lists are not compared. *)
LabelsValid_NoOverlapCheck == supported # {}

(* Validate's checks of the two lists: a server never starts with the labels *)
(* it supports and those it ignores overlapping, or with none supported.     *)
LabelsValid == supported # {} /\ supported \cap ignored = {}

RejectLabels ==
  /\ phase = "validating" /\ aliases = [k \in {} |-> k] /\ ~LabelsValid
  /\ phase' = "rejected"
  /\ UNCHANGED <<settings, loop>>

(* Mutant of DeclareAlias: the key is checked instead of the target. *)
DeclareAlias_ChecksKey(key, target) ==
  /\ phase = "validating" /\ LabelsValid
  /\ key \in supported
  /\ aliases' = [k \in DOMAIN aliases \cup {key} |->
                   IF k = key THEN target ELSE aliases[k]]
  /\ UNCHANGED <<phase, supported, ignored, allowed, loop>>

(* One well-formed "key=target" entry; a later entry for a key replaces an *)
(* earlier one.  The entries come from the environment, in any number.     *)
DeclareAlias(key, target) ==
  /\ phase = "validating" /\ LabelsValid
  /\ target \in supported
  /\ aliases' = [k \in DOMAIN aliases \cup {key} |->
                   IF k = key THEN target ELSE aliases[k]]
  /\ UNCHANGED <<phase, supported, ignored, allowed, loop>>

(* An entry with no "=", or whose target is no supported label. *)
RejectAlias ==
  /\ phase = "validating" /\ LabelsValid
  /\ phase' = "rejected"
  /\ UNCHANGED <<settings, loop>>

(* Mutant of Serve: labels left to other runners are let in as well. *)
Serve_AllowsIgnored ==
  /\ phase = "validating" /\ LabelsValid
  /\ phase' = "serving"
  /\ allowed' = DOMAIN aliases \cup supported \cup ignored
  /\ UNCHANGED <<supported, ignored, aliases, loop>>

(* Validate returned nil and NewServer built the allow list: the aliases,  *)
(* their targets and the supported labels.                                 *)
Serve ==
  /\ phase = "validating" /\ LabelsValid
  /\ phase' = "serving"
  /\ allowed' = DOMAIN aliases \cup {aliases[k] : k \in DOMAIN aliases}
                  \cup supported
  /\ UNCHANGED <<supported, ignored, aliases, loop>>

(* A queued job with one label reaches resolveAndValidateRunnerLabel. *)
Arrive(label) ==
  /\ phase \in {"serving", "resolved", "cycle"}
  /\ phase' = "resolving"
  /\ incoming' = label /\ current' = label
  /\ visited' = {} /\ canHandle' = FALSE
  /\ UNCHANGED settings

(* Mutant of FollowAlias: the visited set is never filled. *)
FollowAlias_ForgetsVisited ==
  /\ phase = "resolving" /\ current \notin visited
  /\ current \in DOMAIN aliases
  /\ current' = aliases[current]
  /\ UNCHANGED <<phase, settings, incoming, visited, canHandle>>

(* One iteration that finds the label in the alias table. *)
FollowAlias ==
  /\ phase = "resolving" /\ current \notin visited
  /\ current \in DOMAIN aliases
  /\ visited' = visited \cup {current}
  /\ current' = aliases[current]
  /\ UNCHANGED <<phase, settings, incoming, canHandle>>

(* The iteration that meets a label again: the job is answered with 500. *)
DetectCycle ==
  /\ phase = "resolving" /\ current \in visited
  /\ phase' = "cycle"
  /\ UNCHANGED <<settings, loop>>

(* Mutant of Settle: an alias is resolved once, not to the end. *)
Settle_AfterOneAlias ==
  /\ phase = "resolving" /\ current \notin visited
  /\ current \notin DOMAIN aliases \/ visited # {}
  /\ phase' = "resolved"
  /\ visited' = visited \cup {current}
  /\ canHandle' = (current \in allowed)
  /\ UNCHANGED <<settings, incoming, current>>

(* The iteration that finds no alias leaves the loop. *)
Settle ==
  /\ phase = "resolving" /\ current \notin visited
  /\ current \notin DOMAIN aliases
  /\ phase' = "resolved"
  /\ visited' = visited \cup {current}
  /\ canHandle' = (current \in allowed)
  /\ UNCHANGED <<settings, incoming, current>>

Resolve == FollowAlias \/ DetectCycle \/ Settle

Next ==
  \/ RejectLabels \/ RejectAlias \/ Serve
  \/ \E key, target \in Labels : DeclareAlias(key, target)
  \/ \E label \in Labels : Arrive(label)
  \/ Resolve

Spec == Init /\ [][Next]_vars

(* The loop runs on the request's own goroutine and waits for nothing. *)
FairSpec == Spec /\ WF_vars(Resolve)

-----------------------------------------------------------------------------
(* Types; an alias target is always a supported label, whatever order the  *)
(* entries of RUNNER_LABEL_ALIASES came in (Config.Validate).              *)
TypeOK ==
  /\ phase \in Phases
  /\ supported \in SUBSET Labels /\ ignored \in SUBSET Labels
  /\ aliases \in Tables(Labels, supported)
  /\ allowed \in SUBSET Labels
  /\ incoming \in Labels /\ current \in Labels
  /\ visited \in SUBSET Labels
  /\ canHandle \in BOOLEAN

(* The loop of resolveAndValidateRunnerLabel computes the reference: it    *)
(* stops at the one end of the incoming label's alias chain, and reports a *)
(* cycle exactly when the chain has none, be it a cycle through the        *)
(* incoming label or one entered further down.                             *)
LoopMeetsReference ==
  /\ phase = "resolved" => Ends(aliases, incoming) = {current}
  /\ phase = "cycle" => Ends(aliases, incoming) = {}

(* The allow list NewServer builds also holds every alias key, and yet the *)
(* labels the server agrees to provision are exactly those whose chain     *)
(* ends in SUPPORTED_RUNNER_LABELS.                                        *)
CanHandleIffSupported ==
  phase = "resolved" => (canHandle <=> current \in supported)

(* Every alias that resolves at all leads to a label that is provisioned   *)
(* and that is not ignored, because Validate compares alias targets with   *)
(* the supported labels and those with the ignored ones: a job with an     *)
(* alias never reaches the branch for labels nobody has runners for.       *)
AliasLeadsToSupported ==
  phase = "resolved" /\ incoming \in DOMAIN aliases =>
    canHandle /\ current \notin ignored

(* The loop ends for every label under every alias table that Validate     *)
(* lets through; Validate does not reject cyclic ones.                     *)
EveryLabelSettles == phase = "resolving" ~> phase \in {"resolved", "cycle"}
=============================================================================
