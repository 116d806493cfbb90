---------------------------- MODULE Dispatcher ----------------------------
(***************************************************************************)
(* The webhook server (pkg/webhook): each delivery of a GitHub workflow_job *)
(* event is handled on a goroutine of its own, which for a queued job      *)
(* looks a worker pool up in the runner registry and then, once per runner *)
(* to start, registers a just-in-time runner with GitHub and creates a     *)
(* Cloud Build build that carries its configuration.                       *)
(*                                                                         *)
(* The registry, GitHub and Cloud Build are changed or asked by other      *)
(* parties between any two of these calls.  A call may be refused, or be   *)
(* carried out and its answer lost; it is then made again up to            *)
(* MAX_RETRY_ATTEMPTS times, or without end when that is negative.  GitHub *)
(* may hang up, which cancels the request's context, and the instance may  *)
(* be killed.                                                              *)
(*                                                                         *)
(* Runner i of delivery r is the pair <<r, i>>: the code draws a fresh     *)
(* UUID for each.                                                          *)
(***************************************************************************)
EXTENDS Integers, FiniteSets, HandlerSettings

CONSTANTS
  Requests,        \* webhook deliveries, redeliveries included
  Events,          \* the payloads they may carry
  Orgs,            \* GitHub organizations
  DefaultPrefix,   \* RUNNER_REGISTRY_DEFAULT_KEY_PREFIX
  Pools,           \* worker pools the registry may name
  Pool404,         \* the pool-less placement of the 404 runner
  NoPool,          \* a nil *workerPool
  NoEvent,         \* a delivery that has not arrived
  NoReply,         \* a delivery that has not been answered
  Aliases,         \* cfg.RunnerLabelAliases
  Supported,       \* SUPPORTED_RUNNER_LABELS
  Ignored,         \* IGNORED_RUNNER_LABELS
  Configs,         \* the other settings of the server
  Catalogues,      \* the contents the registry may have
  MaxTries         \* bound on the retries counted when they have no end

Prefixes == Orgs \cup {DefaultPrefix}

Kinds == {"invalid", "unrelated", "queued", "progress"}

EventType == [kind: Kinds, labels: SUBSET Labels, org: Orgs, complete: BOOLEAN]

Replies == [code: {200, 400, 500}, runners: SUBSET Nat]

CatalogueType == [Prefixes \X Labels -> SUBSET Pools]

(* What Config.Validate lets through. *)
ASSUME LabelSettings == GoodLabels(Supported, Ignored, Aliases)

ASSUME ServerSettings == \A c \in Configs : GoodSettings(c)

ASSUME World ==
  /\ Events \subseteq EventType
  /\ Catalogues \subseteq CatalogueType
  /\ Pool404 \notin Pools /\ NoPool \notin Pools \cup {Pool404}
  /\ NoReply \notin Replies

ASSUME TriesBound == MaxTries \in Nat \ {0}

VARIABLES
  config,       \* the server's settings, fixed when it starts
  registry,     \* Redis: the pools cached under each key "prefix:label"
  pc,           \* where the handler of each delivery is
  event,        \* its payload
  pool,         \* the pool startRunnersForJob chose
  runner,       \* the loop index: the runner being started
  retries,      \* retries spent on the call being made
  canceled,     \* deliveries whose request context is canceled
  reply,        \* the HTTP response
  registered,   \* GitHub: the runners it has issued a JIT config for
  builds,       \* Cloud Build: the builds created
  offered,      \* history: pools published for the job while it was looked up
  missed,       \* history: keys found without pools, or unreadable, meanwhile
  lost          \* history: the calls <<r, i, "jit" or "build">> that were
                \* carried out and whose answer did not arrive

handlers == <<pc, event, pool, runner, retries, reply>>
clouds   == <<registered, builds>>
history  == <<offered, missed, lost>>
vars     == <<config, registry, handlers, canceled, clouds, history>>

Steps   == {"waiting", "orgLookup", "defaultLookup", "jit", "build",
            "answered", "dead"}
Looking == {"orgLookup", "defaultLookup"}
Working == Looking \cup {"jit", "build"}

Answer(code, names) == [code |-> code, runners |-> names]

-----------------------------------------------------------------------------
(* What processRequest and handleQueuedEvent conclude from the payload and *)
(* the settings alone.                                                     *)

(* s.allowedLabels *)
AllowedLabels == DOMAIN Aliases \cup {Aliases[k] : k \in DOMAIN Aliases} \cup Supported

(* resolveAndValidateRunnerLabel, for every label. *)
Chain == [l \in Labels |-> Ends(Aliases, l)]

SingleLabel(e) == e.kind = "queued" /\ \E l \in Labels : e.labels = {l}
Label(e)       == CHOOSE l \in Labels : e.labels = {l}
Resolved(e)    == Chain[Label(e)]
CanHandle(e)   == Resolved(e) \cap AllowedLabels # {}

(* The keys a lookup reads: getRunnerKey of the prefix and resolved label. *)
Keys(prefix, e) == {prefix} \X Resolved(e)

(* Mutant of Verdict: the ignored labels are not looked at. *)
Verdict_SkipsIgnored(e) ==
  IF e.kind = "invalid" THEN 400
  ELSE IF ~SingleLabel(e) THEN 200
  ELSE IF Resolved(e) = {} THEN 500
  ELSE IF ~CanHandle(e) /\ ~config.enabled404 THEN 200
  ELSE IF ~e.complete THEN 400
  ELSE 100

(* The early returns, in the order of the code: the code of the response,  *)
(* or Continue when runners are to be started.                             *)
Continue == 100

Verdict(e) ==
  IF e.kind = "invalid" THEN 400
  ELSE IF ~SingleLabel(e) THEN 200
  ELSE IF Resolved(e) = {} THEN 500
  ELSE IF ~CanHandle(e) /\ ~config.enabled404 THEN 200
  ELSE IF Label(e) \in Ignored THEN 200
  ELSE IF ~e.complete THEN 400
  ELSE Continue

(* Mutant of Wanted: the extra runners are forgotten. *)
Wanted_NoExtras(r) == 1

(* How many runners the chosen placement calls for. *)
Wanted(r) == IF pool[r] = Pool404 THEN 1 ELSE 1 + config.extra

-----------------------------------------------------------------------------
Init ==
  /\ config \in Configs
  /\ registry \in Catalogues
  /\ pc = [r \in Requests |-> "waiting"]
  /\ event = [r \in Requests |-> NoEvent]
  /\ pool = [r \in Requests |-> NoPool]
  /\ runner = [r \in Requests |-> 1]
  /\ retries = [r \in Requests |-> 0]
  /\ canceled = {}
  /\ reply = [r \in Requests |-> NoReply]
  /\ registered = {} /\ builds = {}
  /\ offered = [r \in Requests |-> {}]
  /\ missed = [r \in Requests |-> {}]
  /\ lost = {}

(* What a registry holds for a job, and where it holds nothing. *)
PoolsFor(cat, e) == {x \in {e.org, DefaultPrefix} \X Pools :
                       \E k \in Keys(x[1], e) : x[2] \in cat[k]}
Gaps(cat, e)     == {p \in {e.org, DefaultPrefix} : \A k \in Keys(p, e) : cat[k] = {}}

(* Runner discovery publishes another catalogue, in one transaction. *)
Publish(cat) ==
  /\ registry' = cat
  /\ offered' = [r \in Requests |-> IF pc[r] \in Looking
                   THEN offered[r] \cup PoolsFor(cat, event[r]) ELSE offered[r]]
  /\ missed' = [r \in Requests |-> IF pc[r] \in Looking
                  THEN missed[r] \cup Gaps(cat, event[r]) ELSE missed[r]]
  /\ UNCHANGED <<config, handlers, canceled, clouds, lost>>

-----------------------------------------------------------------------------
(* The handler ends with a response. *)
Respond(r, response) ==
  /\ pc' = [pc EXCEPT ![r] = "answered"]
  /\ reply' = [reply EXCEPT ![r] = response]

(* Mutant of Fail: the answer names the runners of the completed iterations. *)
Fail_NamesStarted(r) == Respond(r, Answer(500, 1 .. runner[r] - 1))

(* Any error while starting runners: handleQueuedEvent answers 500 with the *)
(* error alone; the names of the runners already started are dropped.       *)
Fail(r) == Respond(r, Answer(500, {}))

Goto(r, step) == pc' = [pc EXCEPT ![r] = step] /\ UNCHANGED reply

(* Mutant of StartOn: the chosen pool is not passed on. *)
StartOn_DropsPool(r, p) ==
  /\ Goto(r, "jit")
  /\ UNCHANGED <<event, pool, runner, retries>>

(* start404RunnerForJob and the loop of startRunnersForJob begin alike. *)
StartOn(r, p) ==
  /\ Goto(r, "jit")
  /\ pool' = [pool EXCEPT ![r] = p]
  /\ UNCHANGED <<event, runner, retries>>

(* A delivery that asks for nothing, or for nothing this server does. *)
Decline(r, e) ==
  /\ pc[r] = "waiting" /\ Verdict(e) # Continue
  /\ event' = [event EXCEPT ![r] = e]
  /\ Respond(r, Answer(Verdict(e), {}))
  /\ UNCHANGED <<config, registry, pool, runner, retries, canceled, clouds, history>>

(* A job whose label has no runners, on a server that cancels such jobs. *)
Reject(r, e) ==
  /\ pc[r] = "waiting" /\ Verdict(e) = Continue /\ ~CanHandle(e)
  /\ event' = [event EXCEPT ![r] = e]
  /\ Goto(r, "jit")
  /\ pool' = [pool EXCEPT ![r] = Pool404]
  /\ UNCHANGED <<config, registry, runner, retries, canceled, clouds, history>>

(* A job to start runners for. *)
Accept(r, e) ==
  /\ pc[r] = "waiting" /\ Verdict(e) = Continue /\ CanHandle(e)
  /\ event' = [event EXCEPT ![r] = e]
  /\ Goto(r, "orgLookup")
  /\ offered' = [offered EXCEPT ![r] = PoolsFor(registry, e)]
  /\ missed' = [missed EXCEPT ![r] = Gaps(registry, e)]
  /\ UNCHANGED <<config, registry, pool, runner, retries, canceled, clouds, lost>>

-----------------------------------------------------------------------------
(* selectWorkerPool and getWorkerPools *)

(* The GET finds a list of pools, of which one is drawn at random. *)
FindPool(r, prefix, p) ==
  /\ config.hasRegistry /\ r \notin canceled
  /\ \E k \in Keys(prefix, event[r]) : p \in registry[k]
  /\ StartOn(r, p)
  /\ UNCHANGED <<config, registry, canceled, clouds, history>>

(* It finds none: no registry, no key, an error of Redis (any GET may      *)
(* fail, and does once the context is canceled), or no list in the value.  *)
MissPool(r, prefix) ==
  /\ missed' = [missed EXCEPT ![r] = @ \cup {prefix}]
  /\ UNCHANGED <<config, registry, canceled, clouds, offered, lost>>

(* Mutant of FindOrgPool: the default key is tried first. *)
FindOrgPool_DefaultKey(r, p) == pc[r] = "orgLookup" /\ FindPool(r, DefaultPrefix, p)

FindOrgPool(r, p) == pc[r] = "orgLookup" /\ FindPool(r, event[r].org, p)

(* Mutant of FindDefaultPool: any pool of the default will do. *)
FindDefaultPool_AnyLabel(r, p) ==
  /\ pc[r] = "defaultLookup" /\ config.hasRegistry /\ r \notin canceled
  /\ \E l \in Labels : p \in registry[<<DefaultPrefix, l>>]
  /\ StartOn(r, p)
  /\ UNCHANGED <<config, registry, canceled, clouds, history>>

FindDefaultPool(r, p) == pc[r] = "defaultLookup" /\ FindPool(r, DefaultPrefix, p)

FallBackToDefault(r) ==
  /\ pc[r] = "orgLookup" /\ ~config.defaultDisabled
  /\ MissPool(r, event[r].org)
  /\ Goto(r, "defaultLookup")
  /\ UNCHANGED <<event, pool, runner, retries>>

FallBackTo404(r) ==
  /\ \/ pc[r] = "orgLookup" /\ config.defaultDisabled /\ MissPool(r, event[r].org)
     \/ pc[r] = "defaultLookup" /\ MissPool(r, DefaultPrefix)
  /\ StartOn(r, Pool404)

-----------------------------------------------------------------------------
(* newBackoff limits the retries unless MAX_RETRY_ATTEMPTS is negative. *)
Limited == config.maxRetries >= 0

(* Mutant of RetryOrFail: the backoff starts anew when it is used up. *)
RetryOrFail_WithoutEnd(r) ==
  /\ retries' = [retries EXCEPT ![r] = (@ + 1) % IF Limited THEN config.maxRetries + 1
                                                  ELSE MaxTries + 1]
  /\ UNCHANGED <<pc, reply>>

(* Mutant of RetryOrFail: the limit is compared before it is counted. *)
RetryOrFail_OneMore(r) ==
  \/ /\ Limited => retries[r] <= config.maxRetries
     /\ retries' = [retries EXCEPT ![r] = IF Limited \/ @ < MaxTries THEN @ + 1 ELSE @]
     /\ UNCHANGED <<pc, reply>>
  \/ /\ Limited /\ retries[r] > config.maxRetries
     /\ Fail(r)
     /\ UNCHANGED retries

(* One attempt at a call has failed: go-retry tries again while retries    *)
(* are left, and the handler fails when they are not.  Retries without end *)
(* are told apart up to MaxTries.                                          *)
RetryOrFail(r) ==
  \/ /\ Limited => retries[r] < config.maxRetries
     /\ retries' = [retries EXCEPT ![r] = IF Limited \/ @ < MaxTries THEN @ + 1 ELSE @]
     /\ UNCHANGED <<pc, reply>>
  \/ /\ Limited /\ retries[r] >= config.maxRetries
     /\ Fail(r)
     /\ UNCHANGED retries

Name(r) == <<r, runner[r]>>

(* GitHub issues a runner configuration, once per runner name. *)
Issue(r) ==
  /\ Name(r) \notin registered
  /\ registered' = registered \cup {Name(r)}

(* Mutant of Register: a conflict on the runner's name counts as success. *)
Register_ConflictIsSuccess(r) ==
  /\ pc[r] = "jit" /\ r \notin canceled
  /\ registered' = registered \cup {Name(r)}
  /\ Goto(r, "build")
  /\ retries' = [retries EXCEPT ![r] = 0]
  /\ UNCHANGED <<config, registry, event, pool, runner, canceled, builds, history>>

(* generateJITConfig: an attempt that is answered with a configuration. *)
Register(r) ==
  /\ pc[r] = "jit" /\ r \notin canceled
  /\ Issue(r)
  /\ Goto(r, "build")
  /\ retries' = [retries EXCEPT ![r] = 0]
  /\ UNCHANGED <<config, registry, event, pool, runner, canceled, builds, history>>

(* One that GitHub carries out and whose answer does not arrive. *)
RegisterUnanswered(r) ==
  /\ pc[r] = "jit" /\ r \notin canceled
  /\ Issue(r)
  /\ lost' = lost \cup {<<r, runner[r], pc[r]>>}
  /\ RetryOrFail(r)
  /\ UNCHANGED <<config, registry, event, pool, runner, canceled, builds,
                 offered, missed>>

(* One that GitHub does not carry out; a name it knows already is refused. *)
RegisterRefused(r) ==
  /\ pc[r] = "jit" /\ r \notin canceled
  /\ RetryOrFail(r)
  /\ UNCHANGED <<config, registry, event, pool, runner, canceled, clouds, history>>

(* The installation cannot be looked up: this is not retried. *)
NoInstallation(r) ==
  /\ pc[r] = "jit" /\ retries[r] = 0
  /\ Fail(r)
  /\ UNCHANGED <<config, registry, event, pool, runner, retries, canceled,
                 clouds, history>>

(* Cloud Build accepts a request; it knows nothing of earlier attempts.    *)
(* Without RUNNER_404_PROJECT_ID a 404 build has no project to run in.     *)
Create(r) ==
  /\ pool[r] = Pool404 => config.has404Pool
  /\ builds' = builds \cup {[req |-> r, runner |-> runner[r], try |-> retries[r],
                             pool |-> pool[r]]}

(* Mutant of Build: an error after the last runner hides them all. *)
Build_LosesAnswer(r) ==
  /\ pc[r] = "build" /\ r \notin canceled
  /\ Create(r)
  /\ \/ /\ runner[r] < Wanted(r)
        /\ Goto(r, "jit")
        /\ runner' = [runner EXCEPT ![r] = @ + 1]
     \/ /\ runner[r] >= Wanted(r)
        /\ Fail(r)
        /\ UNCHANGED runner
  /\ retries' = [retries EXCEPT ![r] = 0]
  /\ UNCHANGED <<config, registry, event, pool, canceled, registered, history>>

(* CreateBuild returns a build: on to the next runner, or to the response. *)
Build(r) ==
  /\ pc[r] = "build" /\ r \notin canceled
  /\ Create(r)
  /\ \/ /\ runner[r] < Wanted(r)
        /\ Goto(r, "jit")
        /\ runner' = [runner EXCEPT ![r] = @ + 1]
     \/ /\ runner[r] >= Wanted(r)
        /\ Respond(r, Answer(200, 1 .. runner[r]))
        /\ UNCHANGED runner
  /\ retries' = [retries EXCEPT ![r] = 0]
  /\ UNCHANGED <<config, registry, event, pool, canceled, registered, history>>

(* An attempt that Cloud Build carries out and whose answer is lost. *)
BuildUnanswered(r) ==
  /\ pc[r] = "build" /\ r \notin canceled
  /\ Create(r)
  /\ lost' = lost \cup {<<r, runner[r], pc[r]>>}
  /\ RetryOrFail(r)
  /\ UNCHANGED <<config, registry, event, pool, runner, canceled, registered,
                 offered, missed>>

(* An answer without build metadata: this is not retried. *)
BuildUnreadable(r) ==
  /\ pc[r] = "build" /\ r \notin canceled
  /\ Create(r)
  /\ lost' = lost \cup {<<r, runner[r], pc[r]>>}
  /\ Fail(r)
  /\ UNCHANGED <<config, registry, event, pool, runner, retries, canceled,
                 registered, offered, missed>>

(* Mutant of BuildRefused: the loop goes on with the next runner. *)
BuildRefused_GoesOn(r) ==
  /\ pc[r] = "build" /\ r \notin canceled
  /\ \/ RetryOrFail(r) /\ UNCHANGED runner
     \/ /\ runner[r] < Wanted(r)
        /\ Goto(r, "jit")
        /\ runner' = [runner EXCEPT ![r] = @ + 1]
        /\ retries' = [retries EXCEPT ![r] = 0]
  /\ UNCHANGED <<config, registry, event, pool, canceled, clouds, history>>

BuildRefused(r) ==
  /\ pc[r] = "build" /\ r \notin canceled
  /\ RetryOrFail(r)
  /\ UNCHANGED <<config, registry, event, pool, runner, canceled, clouds, history>>

(* With its context canceled, a handler makes no further call. *)
GiveUp(r) ==
  /\ pc[r] \in {"jit", "build"} /\ r \in canceled
  /\ Fail(r)
  /\ UNCHANGED <<config, registry, event, pool, runner, retries, canceled,
                 clouds, history>>

-----------------------------------------------------------------------------
(* GitHub stops waiting for the response. *)
HangUp(r) ==
  /\ pc[r] \in Working /\ r \notin canceled
  /\ canceled' = canceled \cup {r}
  /\ UNCHANGED <<config, registry, handlers, clouds, history>>

(* The instance that runs the handler is killed. *)
Kill(r) ==
  /\ pc[r] \in Working
  /\ pc' = [pc EXCEPT ![r] = "dead"]
  /\ UNCHANGED <<config, registry, event, pool, runner, retries, reply, canceled,
                 clouds, history>>

Deliver(r) == \E e \in Events : Decline(r, e) \/ Reject(r, e) \/ Accept(r, e)

LookUp(r) ==
  \/ \E p \in Pools : FindOrgPool(r, p) \/ FindDefaultPool(r, p)
  \/ FallBackToDefault(r) \/ FallBackTo404(r)

StartRunner(r) ==
  \/ Register(r) \/ RegisterUnanswered(r) \/ RegisterRefused(r) \/ NoInstallation(r)
  \/ Build(r) \/ BuildUnanswered(r) \/ BuildUnreadable(r) \/ BuildRefused(r)
  \/ GiveUp(r)

Handle(r) == LookUp(r) \/ StartRunner(r)

Serve == \E r \in Requests : Deliver(r) \/ Handle(r) \/ HangUp(r) \/ Kill(r)

Next == Serve \/ \E cat \in Catalogues : Publish(cat)

Spec == Init /\ [][Next]_vars

(* A handler runs until it answers; no delivery, hang-up or crash is owed. *)
FairSpec == Spec /\ \A r \in Requests : WF_vars(Handle(r))

-----------------------------------------------------------------------------
Built(r)    == {b.runner : b \in {x \in builds : x.req = r}}
Issued(r)   == {n[2] : n \in {x \in registered : x[1] = r}}
Promised(r) == IF reply[r] = NoReply THEN {} ELSE reply[r].runners

TypeOK ==
  /\ config \in Configs
  /\ registry \in CatalogueType
  /\ pc \in [Requests -> Steps]
  /\ event \in [Requests -> Events \cup {NoEvent}]
  /\ pool \in [Requests -> Pools \cup {Pool404, NoPool}]
  /\ runner \in [Requests -> Nat]
  /\ retries \in [Requests -> Nat]
  /\ canceled \in SUBSET Requests
  /\ reply \in [Requests -> Replies \cup {NoReply}]
  /\ registered \in SUBSET (Requests \X Nat)
  /\ builds \in SUBSET [req: Requests, runner: Nat, try: Nat,
                        pool: Pools \cup {Pool404}]
  /\ offered \in [Requests -> SUBSET (Prefixes \X Pools)]
  /\ missed \in [Requests -> SUBSET Prefixes]
  /\ lost \in SUBSET (Requests \X Nat \X {"jit", "build"})

(* A response that names runners tells the truth, and the whole of it:     *)
(* exactly the named runners hold a configuration and a build, one for a   *)
(* 404 runner and 1 + EXTRA_RUNNER_COUNT of them for a pool.               *)
PromiseIsKept ==
  \A r \in Requests : Promised(r) # {} =>
    /\ Promised(r) = 1 .. IF pool[r] = Pool404 THEN 1 ELSE 1 + config.extra
    /\ Built(r) = Promised(r) /\ Issued(r) = Promised(r)

(* However a delivery goes wrong (a lost answer, retries used up, GitHub   *)
(* hanging up, the instance killed), at most one runner is left registered *)
(* with GitHub with no build to run it.                                    *)
AtMostOneOrphan ==
  \A r \in Requests : \A i, j \in Issued(r) \ Built(r) : i = j

(* A one-time configuration is handed to two builds, or to a build that no *)
(* loop iteration accounts for, only after an answer of Cloud Build was    *)
(* lost: the retry in CreateBuild repeats a call that is not idempotent.   *)
ExtraBuildsNeedALoss ==
  /\ \A b, c \in builds :
       b.req = c.req /\ b.runner = c.runner /\ b # c =>
         <<b.req, b.runner, "build">> \in lost
  /\ \A r \in Requests :
       runner[r] \in Built(r) /\ Promised(r) = {} => <<r, runner[r], "build">> \in lost

(* Once GitHub has issued a configuration whose answer was lost, retrying  *)
(* under the same runner name cannot help: no build carries that runner    *)
(* and the delivery never succeeds.                                        *)
LostConfigurationDooms ==
  \A n \in lost : n[3] = "jit" => n[2] \notin Built(n[1]) /\ Promised(n[1]) = {}

(* Retries multiply over the loop, and no further: a delivery registers at  *)
(* most one runner for each it has to start, and a build for each of them   *)
(* is created at most 1 + MAX_RETRY_ATTEMPTS times, if that is a limit.     *)
BuildsAreBounded ==
  \A r \in Requests :
    LET due == IF pool[r] = Pool404 THEN 1 ELSE 1 + config.extra
    IN /\ Cardinality(Issued(r)) <= due
       /\ Limited =>
            Cardinality({b \in builds : b.req = r}) <= due * (1 + config.maxRetries)

(* Where a build runs is justified by what the registry held while the job *)
(* was looked up, whatever runner discovery published in between: a pool   *)
(* of the job's organization; a default pool only if the organization's    *)
(* key was missing or unreadable at some moment, and fallback is on; the   *)
(* 404 runner only if every key the server tries was, or if the label has  *)
(* no runners and 404 is enabled.                                          *)
PlacementIsJustified ==
  \A b \in builds :
    LET r == b.req
        e == event[r]
    IN \/ <<e.org, b.pool>> \in offered[r]
       \/ /\ e.org \in missed[r] /\ ~config.defaultDisabled
          /\ <<DefaultPrefix, b.pool>> \in offered[r]
       \/ /\ b.pool = Pool404 /\ CanHandle(e) /\ e.org \in missed[r]
          /\ config.defaultDisabled \/ DefaultPrefix \in missed[r]
       \/ b.pool = Pool404 /\ ~CanHandle(e) /\ config.enabled404

(* Whatever the order of the early returns of handleQueuedEvent, GitHub is *)
(* asked for a runner only for a complete queued event with one label that *)
(* resolves, that is not ignored, and that somebody can answer for.        *)
RunnersOnlyForEligibleJobs ==
  \A n \in registered :
    LET e == event[n[1]]
    IN /\ e.kind = "queued" /\ e.complete
       /\ \E l \in Labels \ Ignored : e.labels = {l} /\ Ends(Aliases, l) # {}
       /\ CanHandle(e) \/ config.enabled404

(* RUNNER_404_ENABLED, "whether or not to enable 404": with it off, GitHub *)
(* is never asked for a 404 runner.                                        *)
No404UnlessEnabled ==
  \A n \in registered : pool[n[1]] = Pool404 => config.enabled404

(* What makes a handler end: a limit on its retries, or GitHub hanging up. *)
Bounded(r) == Limited \/ r \in canceled

(* Every delivery the server starts to handle is answered, or its instance *)
(* is killed: no path through lookups, retries and the loop hangs.  With   *)
(* retries without end that takes GitHub to hang up.                       *)
EveryDeliveryEnds ==
  \A r \in Requests :
    pc[r] \in Working /\ Bounded(r) ~> pc[r] \in {"answered", "dead"}

(* An upper bound of the steps a handler has before it: two calls for each  *)
(* runner that is left, with all their attempts; or two lookups, which then *)
(* find nothing, and giving up, if its context is canceled.                 *)
Attempts      == 1 + config.maxRetries
AllCalls      == 2 * Attempts * (1 + config.extra)
LaterCalls(r) == 2 * Attempts * (Wanted(r) - runner[r])

RoundsLeft(r) ==
  IF pc[r] = "orgLookup" THEN AllCalls + 2
  ELSE IF pc[r] = "defaultLookup" THEN AllCalls + 1
  ELSE IF pc[r] = "jit" THEN LaterCalls(r) + 2 * Attempts - retries[r]
  ELSE IF pc[r] = "build" THEN LaterCalls(r) + Attempts - retries[r]
  ELSE 0

StepsLeft(r) ==
  IF r \notin canceled THEN RoundsLeft(r)
  ELSE IF pc[r] = "orgLookup" THEN 3
  ELSE IF pc[r] = "defaultLookup" THEN 2
  ELSE IF pc[r] \in {"jit", "build"} THEN 1
  ELSE 0

(* Why it ends: every step of a handler brings it closer to its answer,    *)
(* whatever fails, and nothing that others do sets it back.                *)
HandlersProgress ==
  [][\A r \in Requests : Bounded(r) =>
       /\ Handle(r) => StepsLeft(r)' < StepsLeft(r)
       /\ pc[r] \in Working => StepsLeft(r)' <= StepsLeft(r)]_vars

-----------------------------------------------------------------------------
(* The delivery contract, and how the handler's state maps to it.          *)
Stage(r) == IF pc[r] \in Working THEN "working" ELSE pc[r]

Contract == INSTANCE RunnerDelivery WITH
  sizes    <- {1, 1 + config.extra},
  stage    <- [r \in Requests |-> Stage(r)],
  started  <- [r \in Requests |-> Built(r)],
  promised <- [r \in Requests |-> Promised(r)]

(* The handler implements the contract of RunnerDelivery: it starts its    *)
(* runners one after another, never after its answer, and answers with     *)
(* what it started or with nothing.                                        *)
ImplementsContract == Contract!Spec
=============================================================================
