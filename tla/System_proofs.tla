--------------------------- MODULE System_proofs ---------------------------
(***************************************************************************)
(* What holds of discovery and the webhook server together, for any number *)
(* of executions, deliveries, projects and pools: each is what it is alone, *)
(* so that what is proved of either carries over, and what they promise    *)
(* each other through the registry.                                        *)
(***************************************************************************)
EXTENDS System, Discovery_proofs

Proved == INSTANCE Placement_proofs WITH
  registry   <- View,
  Catalogues <- [Lookups -> SUBSET Pools]

(* What the proofs about Dispatcher assume of its constants. *)
LEMMA ProvedConstants ==
  Proved!LabelSettings /\ Proved!ServerSettings /\ Proved!World /\ Proved!TriesBound
BY ServerConstants
   DEF ServerConstants, Server!LabelSettings, Server!ServerSettings, Server!World,
       Server!TriesBound, Server!EventType, Server!CatalogueType, Server!Kinds,
       Server!Prefixes, Server!GoodLabels, Server!GoodSettings, Server!ConfigType,
       Server!Replies, Server!Tables,
       Proved!LabelSettings, Proved!ServerSettings, Proved!World, Proved!TriesBound,
       Proved!EventType, Proved!CatalogueType, Proved!Kinds, Proved!Prefixes,
       Proved!GoodLabels, Proved!GoodSettings, Proved!ConfigType, Proved!Replies,
       Proved!Tables

-----------------------------------------------------------------------------
(* Each part by itself.                                                    *)
LEMMA StepOfDiscovery == [SysNext]_sysvars => [Next]_vars
BY DEF SysNext, Discover, Refresh, LookUp, Serve, sysvars, Next, Work

(* Next to the webhook server, discovery behaves as if it were alone: the  *)
(* server only reads what it writes (updateRegistry, getWorkerPools).      *)
THEOREM SystemImplementsDiscovery == SysSpec => Spec
BY StepOfDiscovery, PTL DEF SysSpec, SysInit, Spec

LEMMA SystemIInv == SysSpec => []IInv
BY SystemImplementsDiscovery, SpecIInv, PTL

(* The registry, read as lists of pools, is a catalogue. *)
LEMMA ViewType ==
  ASSUME NEW es \in SUBSET Entry
  PROVE  [k \in Lookups |-> {e.pool : e \in {e \in es : e.key = k}}]
           \in [Lookups -> SUBSET Pools]
BY DEF Entry

LEMMA StepOfServer ==
  ASSUME TypeOK', [SysNext]_sysvars
  PROVE  [Server!Next]_(Server!vars)
<1>1. CASE Discover
  <2>1. registry' = registry
    BY <1>1 DEF Discover, Change, Start, Prepare, FindProject, List, SkipUpdate,
                BeginScan, EndScan, Fail
  <2> QED BY <1>1, <2>1 DEF Discover, View, serving, Server!vars, Server!handlers,
                Server!clouds, Server!history
<1>2. CASE Refresh
  <2>1. View' \in [Lookups -> SUBSET Pools]
    BY ViewType DEF View, TypeOK
  <2> QED BY <1>2, <2>1 DEF Refresh, Server!Next
<1>3. ASSUME NEW r \in Requests, LookUp(r) PROVE Server!Next
  <2>1. Server!LookUp(r)
    BY <1>3 DEF LookUp, Server!LookUp
  <2> QED BY <2>1 DEF Server!Next, Server!Serve, Server!Handle
<1>4. ASSUME NEW r \in Requests, Serve(r) PROVE Server!Next
  BY <1>4 DEF Serve, Server!Next, Server!Serve, Server!Handle
<1>5. CASE UNCHANGED sysvars
  BY <1>5 DEF sysvars, vars, serving, View, Server!vars, Server!handlers,
              Server!clouds, Server!history
<1> QED BY <1>1, <1>2, <1>3, <1>4, <1>5 DEF SysNext

(* Next to discovery, the server behaves as Dispatcher says, where the     *)
(* registry is anybody's to replace: everything checked or proved of       *)
(* Dispatcher holds of the whole system (startRunnersForJob and            *)
(* updateRegistry).                                                        *)
THEOREM SystemImplementsDispatcher == SysSpec => Server!Spec
<1>1. SysInit => Server!Init
  BY DEF SysInit
<1>2. IInv' /\ [SysNext]_sysvars => [Server!Next]_(Server!vars)
  BY StepOfServer DEF IInv
<1> QED BY <1>1, <1>2, SystemIInv, PTL DEF SysSpec, Server!Spec

(* The two instances of Dispatcher are one.                                *)
LEMMA SameServer ==
  /\ Server!Init <=> Proved!Init
  /\ [Server!Next]_(Server!vars) <=> [Proved!Next]_(Proved!vars)
  /\ Server!TypeOK <=> Proved!TypeOK
  /\ Server!PlacementIsJustified <=> Proved!PlacementIsJustified
BY Zenon DEF Server!Prefixes, Server!Kinds, Server!EventType, Server!ConfigType,
             Server!Replies, Server!CatalogueType, Server!handlers, Server!clouds,
             Server!history, Server!vars, Server!Steps, Server!Looking,
             Server!Working, Server!Answer, Server!AllowedLabels, Server!Chain,
             Server!SingleLabel, Server!Label, Server!Resolved, Server!CanHandle,
             Server!Keys, Server!Continue, Server!Verdict, Server!Wanted,
             Server!Init, Server!PoolsFor, Server!Gaps, Server!Publish,
             Server!Respond, Server!Fail, Server!Goto, Server!StartOn,
             Server!Decline, Server!Reject, Server!Accept, Server!FindPool,
             Server!MissPool, Server!FindOrgPool, Server!FindDefaultPool,
             Server!FallBackToDefault, Server!FallBackTo404, Server!Limited, Server!RetryOrFail,
             Server!Name, Server!Issue, Server!Register,
             Server!RegisterUnanswered, Server!RegisterRefused,
             Server!NoInstallation, Server!Create, Server!Build,
             Server!BuildUnanswered, Server!BuildUnreadable, Server!BuildRefused,
             Server!GiveUp, Server!HangUp, Server!Kill, Server!Deliver,
             Server!LookUp, Server!StartRunner, Server!Handle, Server!Serve,
             Server!Next, Server!TypeOK, Server!PlacementIsJustified, Server!Ends,
             Server!LeadsTo, Server!Closed, Proved!Prefixes, Proved!Kinds,
             Proved!EventType, Proved!ConfigType, Proved!Replies,
             Proved!CatalogueType, Proved!handlers, Proved!clouds, Proved!history,
             Proved!vars, Proved!Steps, Proved!Looking, Proved!Working,
             Proved!Answer, Proved!AllowedLabels, Proved!Chain, Proved!SingleLabel,
             Proved!Label, Proved!Resolved, Proved!CanHandle, Proved!Keys,
             Proved!Continue, Proved!Verdict, Proved!Wanted, Proved!Init,
             Proved!PoolsFor, Proved!Gaps, Proved!Publish, Proved!Respond,
             Proved!Fail, Proved!Goto, Proved!StartOn, Proved!Decline,
             Proved!Reject, Proved!Accept, Proved!FindPool, Proved!MissPool,
             Proved!FindOrgPool, Proved!FindDefaultPool, Proved!FallBackToDefault,
             Proved!FallBackTo404, Proved!Limited, Proved!RetryOrFail, Proved!Name, Proved!Issue,
             Proved!Register, Proved!RegisterUnanswered, Proved!RegisterRefused,
             Proved!NoInstallation, Proved!Create, Proved!Build,
             Proved!BuildUnanswered, Proved!BuildUnreadable, Proved!BuildRefused,
             Proved!GiveUp, Proved!HangUp, Proved!Kill, Proved!Deliver,
             Proved!LookUp, Proved!StartRunner, Proved!Handle, Proved!Serve,
             Proved!Next, Proved!TypeOK, Proved!PlacementIsJustified, Proved!Ends,
             Proved!LeadsTo, Proved!Closed

LEMMA SystemServes == SysSpec => Proved!Spec
BY SystemImplementsDispatcher, SameServer, PTL DEF Server!Spec, Proved!Spec

(* Every build runs where the registry that discovery published, as it was *)
(* while the job was looked up, or the settings justify it                 *)
(* (startRunnersForJob, on the registry of updateRegistry).                *)
THEOREM SystemPlacementsAreJustified == SysSpec => []Server!PlacementIsJustified
<1>1. Proved!Spec => []Proved!PlacementIsJustified
  BY ProvedConstants, Proved!PlacementsAreJustified DEF Proved!PlacementsAreJustified
<1> QED BY <1>1, SystemServes, SameServer, PTL

(* In the whole system, too, no runner is named in a successful answer     *)
(* that was not started for it, at most one runner of a delivery is left   *)
(* registered without a build, builds in excess and registrations in vain  *)
(* come from lost answers alone, and a handler whose retries are limited,  *)
(* or whose context is canceled, comes to an end (startRunnersForJob,      *)
(* generateJITConfig, CreateBuild): whatever discovery does to the         *)
(* registry while a delivery is handled.                                   *)
THEOREM SystemKeepsPromises ==
  SysSpec => /\ []Proved!PromiseIsKept
             /\ []Proved!AtMostOneOrphan
             /\ []Proved!ExtraBuildsNeedALoss
             /\ []Proved!LostConfigurationDooms
             /\ []Proved!BuildsAreBounded
             /\ []Proved!RunnersOnlyForEligibleJobs
             /\ Proved!HandlersProgress
             /\ Proved!ImplementsContract
<1>1. Proved!Spec => []Proved!PromiseIsKept
  BY ProvedConstants, Proved!AnswersAreTrue DEF Proved!AnswersAreTrue
<1>2. Proved!Spec => []Proved!AtMostOneOrphan
  BY ProvedConstants, Proved!OneOrphanAtMost DEF Proved!OneOrphanAtMost
<1>3. Proved!Spec => []Proved!ExtraBuildsNeedALoss
  BY ProvedConstants, Proved!ExtraBuildsComeFromLosses
     DEF Proved!ExtraBuildsComeFromLosses
<1>4. Proved!Spec => []Proved!LostConfigurationDooms
  BY ProvedConstants, Proved!LostConfigurationsDoom DEF Proved!LostConfigurationsDoom
<1>5. Proved!Spec => []Proved!BuildsAreBounded
  BY ProvedConstants, Proved!BuildsHaveALimit DEF Proved!BuildsHaveALimit
<1>6. Proved!Spec => []Proved!RunnersOnlyForEligibleJobs
  BY ProvedConstants, Proved!OnlyEligibleJobs DEF Proved!OnlyEligibleJobs
<1>7. Proved!Spec => Proved!HandlersProgress
  BY ProvedConstants, Proved!HandlersMakeProgress, PTL DEF Proved!HandlersMakeProgress
<1>8. Proved!Spec => Proved!ImplementsContract
  BY ProvedConstants, Proved!HandlerImplementsContract
     DEF Proved!HandlerImplementsContract
<1> QED BY <1>1, <1>2, <1>3, <1>4, <1>5, <1>6, <1>7, <1>8, SystemServes, PTL

(* And discovery publishes, keeps and repairs what it does alone           *)
(* (updateRegistry, Run), whatever is asked of the registry meanwhile.     *)
THEOREM SystemKeepsRegistry ==
  SysSpec => /\ []UndisturbedRunIsExact
             /\ []StaleKeysNeedOverlap
             /\ []TrustedPoolsAreConfigured
             /\ PermanentPoolsStay
             /\ RepairsLast
             /\ ExecutionsProgress
BY SystemImplementsDiscovery, UndisturbedRunsAreExact, StaleKeysComeFromOverlap,
   TrustedPoolsHaveConfigurations, PermanentPoolsAreKept, RegistryIsRepaired,
   ExecutionsMakeProgress, PTL

LEMMA SystemServerType == SysSpec => []Server!TypeOK
<1>1. Proved!Spec => []Proved!TypeOK
  BY ProvedConstants, Proved!TypeCorrect DEF Proved!TypeCorrect
<1> QED BY <1>1, SystemServes, SameServer, PTL

-----------------------------------------------------------------------------
(* What a lookup knows.                                                    *)
Arrived(e) == e \in Events /\ Server!SingleLabel(e)

Turned(r, prefix) == Holds(Permanent, prefix, event[r]) => <<r, prefix>> \in unread

LookupInv(r) ==
  /\ pc[r] \in {"waiting"} \cup Server!Looking => pool[r] = NoPool
  /\ pc[r] \in Server!Looking => Arrived(event[r])
  /\ pc[r] = "defaultLookup" => ~config.defaultDisabled /\ Turned(r, event[r].org)
  /\ pool[r] = Pool404 /\ Server!CanHandle(event[r]) =>
       /\ Turned(r, event[r].org)
       /\ ~config.defaultDisabled => Turned(r, DefaultPrefix)

SInv ==
  /\ IInv /\ Server!TypeOK
  /\ Permanent \subseteq registry
  /\ unread \subseteq Requests \X (Orgs \cup {DefaultPrefix})
  /\ \A r \in Requests : LookupInv(r)

LEMMA PlacesDiffer == Pool404 \notin Pools /\ NoPool \notin Pools /\ NoPool # Pool404
BY ServerConstants DEF ServerConstants, Server!World

LEMMA ArrivedOrg == ASSUME NEW e, Arrived(e) PROVE e.org \in Orgs
BY ServerConstants DEF ServerConstants, Server!World, Server!EventType, Arrived

LEMMA KeysAreLookups ==
  ASSUME NEW e, Arrived(e), NEW prefix \in Orgs \cup {DefaultPrefix}
  PROVE  Server!Keys(prefix, e) \subseteq Lookups
<1>1. Server!Label(e) \in Labels
  BY DEF Arrived, Server!SingleLabel, Server!Label
<1>2. Server!Resolved(e) \subseteq Labels
  BY <1>1 DEF Server!Resolved, Server!Chain, Server!Ends
<1> QED BY <1>2 DEF Server!Keys, Lookups

(* What the server finds under a key is what discovery put there. *)
LEMMA FoundIsThere ==
  ASSUME NEW r \in Requests, Arrived(event[r]),
         NEW prefix \in Orgs \cup {DefaultPrefix}, NEW p \in Pools,
         Server!FindPool(r, prefix, p)
  PROVE  \E e \in registry : e.pool = p /\ e.key \in Server!Keys(prefix, event[r])
<1>1. PICK k \in Server!Keys(prefix, event[r]) : p \in View[k]
  BY DEF Server!FindPool
<1>2. View[k] = {e.pool : e \in {e \in registry : e.key = k}}
  BY <1>1, KeysAreLookups DEF View
<1> QED BY <1>1, <1>2

-----------------------------------------------------------------------------
(* A step that does not look up anything for a delivery leaves it as it    *)
(* is, or takes it further.                                                *)
Elsewhere(q) ==
  /\ UNCHANGED <<config, event[q], pool[q]>> /\ unread \subseteq unread'
  /\ \/ pc'[q] \in {pc[q], "answered", "dead"}
     \/ pc[q] \in {"jit", "build"} /\ pc'[q] \in {"jit", "build"}

LEMMA ElsewhereLookupInv ==
  ASSUME NEW q \in Requests, LookupInv(q), Elsewhere(q)
  PROVE  LookupInv(q)'
<1>1. \A prefix : Turned(q, prefix) => Turned(q, prefix)'
  BY DEF Turned, Elsewhere, Holds, Server!Keys
<1>2. Server!CanHandle(event[q])' => Server!CanHandle(event[q])
  BY DEF Elsewhere, Server!CanHandle
<1>3. Arrived(event[q]) => Arrived(event[q])'
  BY DEF Elsewhere, Arrived
<1> QED BY <1>1, <1>2, <1>3 DEF LookupInv, Elsewhere, Server!Looking

LEMMA DiscoveryIsElsewhere ==
  ASSUME Discover \/ Refresh \/ UNCHANGED sysvars, NEW q \in Requests
  PROVE  Elsewhere(q)
BY DEF Discover, Refresh, Server!Publish, Server!handlers, serving, sysvars, Elsewhere

LEMMA OthersAreElsewhere ==
  ASSUME Server!TypeOK, NEW r \in Requests, LookUp(r) \/ Serve(r),
         NEW q \in Requests \ {r}
  PROVE  Elsewhere(q)
<1>1. CASE LookUp(r)
  BY <1>1 DEF LookUp, Server!FindOrgPool, Server!FindDefaultPool, Server!FindPool,
              Server!FallBackToDefault, Server!FallBackTo404, Server!MissPool,
              Server!StartOn, Server!Goto, Server!TypeOK, Elsewhere
<1>2. CASE Serve(r) /\ Server!Deliver(r)
  BY <1>2 DEF Serve, Server!Deliver, Server!Decline, Server!Reject, Server!Accept,
              Server!Respond, Server!Goto, Server!TypeOK, Elsewhere
<1>3. CASE Serve(r) /\ ~Server!Deliver(r)
  BY <1>3 DEF Serve, Server!StartRunner, Server!Register, Server!RegisterUnanswered,
              Server!RegisterRefused, Server!NoInstallation, Server!Build,
              Server!BuildUnanswered, Server!BuildUnreadable, Server!BuildRefused,
              Server!GiveUp, Server!HangUp, Server!Kill, Server!Limited, Server!RetryOrFail,
              Server!Fail, Server!Respond, Server!Goto, Server!handlers,
              Server!TypeOK, Elsewhere
<1> QED BY <1>1, <1>2, <1>3

(* Starting runners, and dying, too. *)
LEMMA StartingIsElsewhere ==
  ASSUME Server!TypeOK, NEW r \in Requests, Serve(r), ~Server!Deliver(r)
  PROVE  Elsewhere(r)
BY DEF Serve, Server!StartRunner, Server!Register, Server!RegisterUnanswered,
       Server!RegisterRefused, Server!NoInstallation, Server!Build,
       Server!BuildUnanswered, Server!BuildUnreadable, Server!BuildRefused,
       Server!GiveUp, Server!HangUp, Server!Kill, Server!Limited, Server!RetryOrFail,
       Server!Fail, Server!Respond, Server!Goto, Server!handlers,
       Server!Looking, Server!TypeOK, Elsewhere

LEMMA DeliverLookupInv ==
  ASSUME Server!TypeOK, NEW r \in Requests, LookupInv(r), Serve(r), Server!Deliver(r)
  PROVE  LookupInv(r)'
<1>0. pool[r] = NoPool /\ pc[r] = "waiting"
  BY DEF Server!Deliver, Server!Decline, Server!Reject, Server!Accept, LookupInv
<1>1. ASSUME NEW e \in Events, Server!Decline(r, e) PROVE LookupInv(r)'
  <2>1. pc'[r] = "answered" /\ pool'[r] = NoPool
    BY <1>0, <1>1 DEF Server!Decline, Server!Respond, Server!TypeOK
  <2> QED BY <2>1, PlacesDiffer DEF LookupInv, Server!Looking
<1>2. ASSUME NEW e \in Events, Server!Reject(r, e) PROVE LookupInv(r)'
  <2>1. /\ pc'[r] = "jit" /\ event'[r] = e
        /\ ~Server!CanHandle(e)
    BY <1>2 DEF Server!Reject, Server!Goto, Server!TypeOK
  <2>2. ~Server!CanHandle(event[r])'
    BY <2>1 DEF Server!CanHandle
  <2> QED BY <2>1, <2>2 DEF LookupInv, Server!Looking
<1>3. ASSUME NEW e \in Events, Server!Accept(r, e) PROVE LookupInv(r)'
  <2>1. pc'[r] = "orgLookup" /\ event'[r] = e /\ pool'[r] = NoPool
    BY <1>0, <1>3 DEF Server!Accept, Server!Goto, Server!TypeOK
  <2>2. Server!SingleLabel(e)
    BY <1>3 DEF Server!Accept, Server!Verdict, Server!Continue
  <2>3. Arrived(event[r])'
    BY <2>1, <2>2 DEF Arrived
  <2> QED BY <2>1, <2>3, PlacesDiffer DEF LookupInv
<1> QED BY <1>1, <1>2, <1>3 DEF Server!Deliver

(* A lookup that finds nothing where there is something has not read it.   *)
LEMMA FallBackIsNoted ==
  ASSUME Server!TypeOK, NEW r \in Requests, LookUp(r),
         Server!FallBackToDefault(r) \/ Server!FallBackTo404(r)
  PROVE  Holds(registry, Asked(r), event[r]) => <<r, Asked(r)>> \in unread'
<1>1. ~\E p \in Pools : Server!FindOrgPool(r, p) \/ Server!FindDefaultPool(r, p)
  <2> SUFFICES ASSUME NEW p \in Pools,
                      Server!FindOrgPool(r, p) \/ Server!FindDefaultPool(r, p)
               PROVE  FALSE
    OBVIOUS
  <2>1. pc'[r] = "jit" /\ pool'[r] = p
    BY DEF Server!FindOrgPool, Server!FindDefaultPool, Server!FindPool, Server!StartOn,
           Server!Goto, Server!TypeOK
  <2>2. pc'[r] = "defaultLookup" \/ pool'[r] = Pool404
    BY DEF Server!FallBackToDefault, Server!FallBackTo404, Server!StartOn,
           Server!Goto, Server!TypeOK
  <2> QED BY <2>1, <2>2, PlacesDiffer
<1> QED BY <1>1 DEF LookUp

LEMMA LookUpLookupInv ==
  ASSUME Server!TypeOK, Permanent \subseteq registry,
         NEW r \in Requests, LookupInv(r), LookUp(r)
  PROVE  LookupInv(r)'
<1>a. Holds(Permanent, Asked(r), event[r]) => Holds(registry, Asked(r), event[r])
  BY DEF Holds
<1>0. /\ UNCHANGED <<config, event>> /\ unread \subseteq unread'
      /\ pc[r] \in Server!Looking
  BY DEF LookUp, Server!FindOrgPool, Server!FindDefaultPool, Server!FindPool,
         Server!FallBackToDefault, Server!FallBackTo404, Server!MissPool,
         Server!StartOn, Server!Looking
<1>1. \A prefix : Turned(r, prefix) => Turned(r, prefix)'
  BY <1>0 DEF Turned, Holds, Server!Keys
<1>2. ASSUME NEW p \in Pools, Server!FindOrgPool(r, p) \/ Server!FindDefaultPool(r, p)
      PROVE  LookupInv(r)'
  <2>1. pc'[r] = "jit" /\ pool'[r] = p
    BY <1>2 DEF Server!FindOrgPool, Server!FindDefaultPool, Server!FindPool,
                Server!StartOn, Server!Goto, Server!TypeOK
  <2> QED BY <2>1, PlacesDiffer DEF LookupInv, Server!Looking
<1>3. CASE Server!FallBackToDefault(r)
  <2>1. /\ pc[r] = "orgLookup" /\ pc'[r] = "defaultLookup" /\ pool'[r] = NoPool
        /\ ~config'.defaultDisabled
    BY <1>0, <1>3 DEF Server!FallBackToDefault, Server!Goto, Server!TypeOK, LookupInv
  <2>2. Turned(r, event[r].org)'
    BY <1>0, <1>3, <2>1, <1>a, FallBackIsNoted DEF Turned, Asked, Holds, Server!Keys
  <2>3. Arrived(event[r])'
    BY <1>0 DEF LookupInv, Arrived
  <2> QED BY <2>1, <2>2, <2>3, PlacesDiffer DEF LookupInv
<1>4. CASE Server!FallBackTo404(r)
  <2>1. /\ pc'[r] = "jit" /\ pool'[r] = Pool404
        /\ pc[r] = "orgLookup" => config'.defaultDisabled
    BY <1>0, <1>4 DEF Server!FallBackTo404, Server!StartOn, Server!Goto, Server!TypeOK
  <2>2. pc[r] = "orgLookup" => Turned(r, event[r].org)'
    BY <1>0, <1>4, <1>a, FallBackIsNoted DEF Turned, Asked, Holds, Server!Keys
  <2>3. pc[r] = "defaultLookup" =>
          Turned(r, event[r].org)' /\ Turned(r, DefaultPrefix)'
    BY <1>0, <1>1, <1>4, <1>a, FallBackIsNoted DEF LookupInv, Turned, Asked, Holds, Server!Keys
  <2> QED BY <1>0, <2>1, <2>2, <2>3 DEF LookupInv, Server!Looking
<1> QED BY <1>2, <1>3, <1>4 DEF LookUp

-----------------------------------------------------------------------------
LEMMA NextLookupInv ==
  ASSUME SInv, [SysNext]_sysvars, NEW q \in Requests
  PROVE  LookupInv(q)'
<1>1. CASE Discover \/ Refresh \/ UNCHANGED sysvars
  BY <1>1, DiscoveryIsElsewhere, ElsewhereLookupInv DEF SInv
<1>2. ASSUME NEW r \in Requests \ {q}, LookUp(r) \/ Serve(r) PROVE LookupInv(q)'
  BY <1>2, OthersAreElsewhere, ElsewhereLookupInv DEF SInv
<1>3. CASE LookUp(q)
  BY <1>3, LookUpLookupInv DEF SInv
<1>4. CASE Serve(q)
  BY <1>4, DeliverLookupInv, StartingIsElsewhere, ElsewhereLookupInv DEF SInv
<1> QED BY <1>1, <1>2, <1>3, <1>4 DEF SysNext

LEMMA NextUnread ==
  ASSUME SInv, [SysNext]_sysvars
  PROVE  unread' \subseteq Requests \X (Orgs \cup {DefaultPrefix})
<1>1. ASSUME NEW r \in Requests, LookUp(r), unread' # unread
      PROVE  unread' = unread \cup {<<r, Asked(r)>>} /\ pc[r] \in Server!Looking
  BY <1>1 DEF LookUp, Server!FallBackToDefault, Server!FallBackTo404, Server!Looking
<1>2. ASSUME NEW r \in Requests, LookUp(r)
      PROVE  unread' \subseteq Requests \X (Orgs \cup {DefaultPrefix})
  <2>1. pc[r] \in Server!Looking => event[r].org \in Orgs
    BY ArrivedOrg DEF SInv, LookupInv
  <2> QED BY <1>1, <1>2, <2>1 DEF SInv, Asked
<1> QED BY <1>2 DEF SInv, SysNext, Discover, Refresh, Serve, sysvars

LEMMA SystemSInv == SysSpec => []SInv
<1>1. SysInit => Permanent \subseteq registry /\ unread = {}
  BY Founded DEF SysInit, Init
<1>2. SysInit => \A r \in Requests : LookupInv(r)
  BY PlacesDiffer DEF SysInit, Server!Init, LookupInv, Server!Looking
<1>3. IInv /\ Server!TypeOK /\ SysInit => SInv
  BY <1>1, <1>2 DEF SInv
<1>4. ASSUME SInv, IInv', (Server!TypeOK)', [SysNext]_sysvars PROVE SInv'
  <2>1. Permanent \subseteq registry'
    BY <1>4, StepOfDiscovery, PermanentIsKept DEF SInv
  <2>2. (Permanent \subseteq registry)'
    BY <2>1 DEF Permanent
  <2> QED BY <1>4, <2>2, NextLookupInv, NextUnread DEF SInv
<1>5. SInv /\ IInv' /\ (Server!TypeOK)' /\ [SysNext]_sysvars => SInv'
  BY <1>4
<1> QED BY <1>3, <1>5, SystemIInv, SystemServerType, PTL DEF SysSpec

-----------------------------------------------------------------------------
(* Type correctness of the whole system. *)
THEOREM SystemTypeCorrect == SysSpec => []SysTypeOK
<1>1. SInv => SysTypeOK
  BY DEF SInv, IInv, SysTypeOK
<1> QED BY <1>1, SystemSInv, PTL

(* Nobody whose pools are there all along is turned away, unless the       *)
(* server could not read the registry, however executions overlap, fail,   *)
(* and replace what is in it (getWorkerPools and updateRegistry).          *)
THEOREM StableJobsFindPools == SysSpec => []StableJobsAreServed
<1>1. SInv => StableJobsAreServed
  BY DEF SInv, LookupInv, Turned, StableJobsAreServed
<1> QED BY <1>1, SystemSInv, PTL

(* While the registry is up to date, lookups find what the folder holds    *)
(* (getWorkerPools and updateRegistry).                                    *)
THEOREM LookupsAreUpToDate == SysSpec => LookupsFollowFolder
<1> DEFINE
      Fits(r) == UpToDate /\ pc[r] \in Server!Looking =>
        /\ pool'[r] \in Pools =>
             \E e \in Catalogue(world) :
               e.pool = pool'[r] /\ e.key \in Server!Keys(Asked(r), event[r])
        /\ pc'[r] \in {"defaultLookup", "jit"} /\ pool'[r] \notin Pools
             /\ <<r, Asked(r)>> \notin unread' /\ pc'[r] # pc[r] =>
             ~Holds(Catalogue(world), Asked(r), event[r])
<1>1. ASSUME SInv, SysNext, NEW r \in Requests, UpToDate, pc[r] \in Server!Looking
      PROVE  Fits(r)
  <2>1. registry = Catalogue(world)
    BY <1>1 DEF UpToDate, SInv, IInv, TypeOK, XInv, QuietInv
  <2>2. /\ Arrived(event[r]) /\ event[r].org \in Orgs
        /\ pool[r] \notin Pools
    BY <1>1, PlacesDiffer, ArrivedOrg DEF SInv, LookupInv
  <2>3. ASSUME Elsewhere(r) PROVE Fits(r)
    BY <1>1, <2>2, <2>3 DEF Elsewhere, Server!Looking
  <2>4. CASE LookUp(r)
    <3>1. ASSUME NEW p \in Pools, Server!FindOrgPool(r, p) \/ Server!FindDefaultPool(r, p)
          PROVE  Fits(r)
      <4>1. pool'[r] = p /\ Server!FindPool(r, Asked(r), p)
        BY <1>1, <3>1 DEF Server!FindOrgPool, Server!FindDefaultPool, Server!FindPool,
                          Server!StartOn, Asked, SInv, Server!TypeOK
      <4>2. \E e \in registry : e.pool = p /\ e.key \in Server!Keys(Asked(r), event[r])
        BY <2>2, <4>1, FoundIsThere DEF Asked
      <4> QED BY <2>1, <4>1, <4>2
    <3>2. CASE Server!FallBackToDefault(r) \/ Server!FallBackTo404(r)
      <4>1. pool'[r] \notin Pools
        BY <1>1, <2>2, <3>2, PlacesDiffer
           DEF Server!FallBackToDefault, Server!FallBackTo404, Server!StartOn, SInv,
               Server!TypeOK
      <4>2. Holds(registry, Asked(r), event[r]) => <<r, Asked(r)>> \in unread'
        BY <1>1, <2>4, <3>2, FallBackIsNoted DEF SInv
      <4> QED BY <2>1, <4>1, <4>2
    <3> QED BY <2>4, <3>1, <3>2 DEF LookUp
  <2>5. CASE Serve(r)
    <3>1. ~Server!Deliver(r)
      BY <1>1 DEF Server!Deliver, Server!Decline, Server!Reject, Server!Accept,
                  Server!Looking
    <3> QED BY <1>1, <2>3, <2>5, <3>1, StartingIsElsewhere DEF SInv
  <2> QED BY <1>1, <2>3, <2>4, <2>5, DiscoveryIsElsewhere, OthersAreElsewhere
          DEF SInv, SysNext
<1>2. SInv /\ [SysNext]_sysvars => [\A r \in Requests : Fits(r)]_sysvars
  BY <1>1
<1> QED BY <1>2, SystemSInv, PTL DEF SysSpec, LookupsFollowFolder
=============================================================================
