# TLA+ verification of github-action-dispatcher

The dispatcher starts ephemeral GitHub Actions runners on Google Cloud Build. A
webhook server answers GitHub's `workflow_job` events; a separate job, runner
discovery, keeps the Redis registry of worker pools that the server reads. This
directory holds TLA+ models of both, alone and together, of the server's
start-up and its settings, of the retried client calls they are made of, and of
the jobs and runners at GitHub they serve, with TLC runs on small instances and
TLAPS proofs for all instances.

## 1. Inventory

| Component | Code | State | Operations | Correct when |
|---|---|---|---|---|
| Label settings and resolution | `pkg/webhook/config.go` `Validate`, `server.go` `NewServer`, `webhook.go` `resolveAndValidateRunnerLabel` | supported and ignored labels, alias table, allow list; the loop's current label and visited set | check settings, build the allow list, follow aliases | the loop ends for every table, finds the end of the chain or reports a cycle, and admits exactly what is supported |
| Webhook server | `pkg/webhook/webhook.go` | per delivery: payload, chosen pool, loop index, retries, response; outside: runners GitHub has registered, builds Cloud Build has created | `processRequest`, `handleQueuedEvent`, `selectWorkerPool`, `startRunnersForJob`, `start404RunnerForJob`, `startGitHubRunner` | the response tells the truth, failures leave little behind, runners go where the registry says, every delivery ends |
| Runner registry | `pkg/registry`, Redis | `prefix:label` to a list of worker pools | GET (server); SCAN, DEL and SET in one transaction (discovery) | holds what discovery last published and nothing else |
| Runner discovery | `pkg/discovery`, `pkg/cli/discovery.go` | per execution: projects found, pools built, keys scanned | `Run`: `FindProjects`, `buildRegistry`, `updateRegistry` | publishes exactly the folder's pools; what is always due is never taken away |
| Retried client calls | `pkg/github/github.go`, `pkg/cloudbuild/cloudbuild.go`, `pkg/assetinventory/assetinventory.go` | backoff, iterator, items so far | `generateJITConfig`, `CreateBuild`, `ListWorkerPools`, `FindProjects` | bounded, ends, and never returns part of a listing |
| Server configuration, start-up | `pkg/webhook/config.go`, `server.go` `NewServer`, `kms.go`, `filereader.go`, `pkg/cli/webhook.go` | settings; how far start-up has come | `ToFlags`, `Validate`, `RunUnstarted`, `NewServer` | a setting that a build request would lack stops the process, and handlers get what they rely on |
| GitHub's jobs and the fleet (external) | as `processRequest` and `startRunnersForJob` use them | jobs, runners, who took which | queue, assign, cancel, deliver again | extra runners cover for as many wasted ones as there are of them |
| Version, health check, `generate-jit`, logging, Terraform, generated client | as in `PROJECT.json` | none, or set up once | | not modelled, see section 8 |

How they interact: the server and discovery share nothing but Redis. The server
reads one or two keys per job, with two separate GETs; discovery replaces the
whole registry with one `MULTI`/`EXEC`, whose list of keys to delete comes from
an earlier SCAN. The server calls GitHub (register a runner), then Cloud Build
(create the build that runs it), once for each runner. Each delivery runs on
its own goroutine and deliveries share no memory; all are cut short when GitHub
hangs up and the request's context is canceled.

What makes it hard: calls that are carried out and whose answers are lost, and
retries of calls that are not idempotent; a loop that fails half-way; a
registry that changes between two reads; executions of discovery that overlap
(the scheduler, its retries and CI all start them) and that see projects change
under them; alias tables with cycles that validation accepts; settings checked
far from their use; GitHub giving one job's runner to another. `PROJECT.json`
lists each such hazard at its line with the properties that watch it, or why
none does.

## 2. Modules

| Module | Models | Uses |
|---|---|---|
| `RunnerLabels` | what an alias table means: the end of a label's chain, defined without a loop | |
| `LabelResolution` | validation of the label settings, the allow list, the alias loop, one iteration per step | `RunnerLabels` |
| `HandlerSettings` | what handlers may assume of their settings | `RunnerLabels` |
| `RunnerDelivery` | abstract: what the server promises about one delivery | |
| `Dispatcher` | the webhook server with the registry, GitHub and Cloud Build around it | `HandlerSettings`; implements `RunnerDelivery` |
| `Dispatcher_proofs` | theorems about the calls, the refinement included | |
| `Placement_proofs` | theorems about who gets a runner and where | `Dispatcher_proofs` |
| `Discovery` | the runner-discovery job and the registry it writes | |
| `Discovery_proofs` | theorems | |
| `Retries` | one retried call, with the Google iterator of a listing | |
| `Retries_proofs` | theorems | |
| `Startup` | settings, their validation and the start of the server, up to label resolution | `LabelResolution`, `HandlerSettings` |
| `Startup_proofs` | theorems about start-up and label resolution | |
| `Fleet` | deliveries, redeliveries, jobs and runners at GitHub | `RunnerDelivery`, as the server |
| `Fleet_proofs` | theorems | |
| `Service` | the handlers of the server in the place of the contract, among GitHub's jobs and runners | `Dispatcher`; implements `Fleet` |
| `Service_proofs` | theorems | `Placement_proofs`, `Fleet_proofs` |
| `System` | server and discovery over one registry | `Discovery`; implements `Dispatcher` |
| `System_proofs` | theorems | `Discovery_proofs`, `Placement_proofs` |
| `MC...` | model values and bounds for TLC; `MCStartup` is also that of `LabelResolution`, `MCService` uses `MCDispatcher` | |

The refinements make a chain: `System` implements `Dispatcher`, `Dispatcher`
implements `RunnerDelivery`, and `Fleet` is `RunnerDelivery` among its
neighbours, which `Service`, `Dispatcher` among the same, implements; `System`
also implements `Discovery`, and `Startup` implements `LabelResolution`. What is shown of a module
holds of every module that implements it.

Definitions called `X_Y` next to a definition `X` are mutants: `X` with a
plausible mistake. Each property of each passing run is violated by one
(`PROJECT.json`, "mutants"); they take no part in the specifications.

### LabelResolution

`Init` is any environment; `DeclareAlias`, `RejectLabels` and `RejectAlias` are
the iterations and error returns of `Validate`, `Serve` is the end of `Validate`
and the allow list of `NewServer`, `Arrive` a job's label, and `FollowAlias`,
`DetectCycle` and `Settle` the three ways one iteration of the loop goes. The
reference, `Ends`, is what every set of labels closed under the aliases agrees
on: it has no order, no visited set and no recursion.

### Dispatcher

A delivery `r` goes `waiting`, `orgLookup`, `defaultLookup`, `jit`, `build`, and
back to `jit` for the next runner, until it is `answered` or its instance is
`dead`. `Verdict` is the sequence of early returns of `processRequest` and
`handleQueuedEvent`, which run without a call and are therefore one step:
`Decline`, `Reject` (the 404 runner) or `Accept`. `FindOrgPool`,
`FindDefaultPool`, `FallBackToDefault` and `FallBackTo404` are the two GETs of
`startRunnersForJob` with every way they can fail, which the code treats as a
missing key. `Register...` and `Build...` are the ways one attempt of
`GenerateRepoJITConfig` and of `CreateBuild` can go: carried out and answered,
carried out and not answered, not carried out, and (not retried) no
installation, no metadata. `RetryOrFail` is go-retry: with a limit it counts
the retries, and with a negative `MAX_RETRY_ATTEMPTS`, which `Validate` lets
through, it goes on until the context is canceled. `HangUp` cancels the context, `GiveUp` is a handler that notices, `Kill` ends the instance (and
stands for a handler that panics). `Publish` is discovery's transaction, seen
from the server: one atomic change.

`registered` and `builds` are GitHub's and Cloud Build's state. GitHub issues
one configuration per runner name; Cloud Build takes every request for a new
one. `offered`, `missed` and `lost` are history: what the registry held while a
job was looked up, and which calls took effect unheard. They are read by
properties only.

### Discovery

An execution `x` reads (`FindProject` one project after another, then `List`
for each one found), scans (`BeginScan`, `EndScan`) and commits. The registry
is a set of entries with their keys. A SCAN returns every key present from its
first to its last request (`held`) and may return any that was there at some
moment in between (`seen`): that is all Redis guarantees. `Commit` is `EXEC`;
`CommitUnanswered` is an `EXEC` carried out whose answer is lost; `Fail` is any
error return, time-out or kill. `Change` is what the owners of the projects do
between any two steps. `Start` may find Redis out of reach, and the job then
runs without a registry client, as `pkg/cli/discovery.go` lets it. Label
patterns are represented by the values they match. `quiet`, `late`,
`published` and `excused` are history.

### Retries

One call, with the limit its backoff was given. `Request` is an attempt of a
single call; `NextBuffered`, `NextPage`, `NextFails`, `NextFailsAgain` and
`Done` are the outcomes of `it.Next()`. Two facts about the libraries matter and
are modelled as external: a Google iterator keeps its first error and returns it
from then on, and go-github returns an error for every answer that is not a
success. `NextPage` is the fetch of a page as the generated client of
`ListWorkerPools` does it. `ListWorkerPools` shares one backoff among all items, `FindProjects`
takes a new one for each.

### Startup

`env` is what the process finds, `cfg` what `ToFlags` and `Parse` make of it: a
string setting is there or empty, a number has its value or its default.
`ParseFlags`, `ValidateSettings`, `RefuseSettings`, `ValidateAlias`,
`RefuseLabels`, `Validated`, `Connect`, `MakePart`, `MakeServer` and `Listen`
are `RunUnstarted` and `NewServer` in their order, `Fail` their other error
returns. `ValidateAlias`, `RefuseLabels` and `MakeServer` take a step of
`LabelResolution`, and so do deliveries once the server listens. `PoolRequest`
and `Request404` are the fields that `buildCloudBuildRequest` fills.

### Fleet

Runner `i` of delivery `r` is `<<r, i>>`. `Receive` and `Serve` are the server,
as `RunnerDelivery` describes it; `Queue`, `Assign` and `Cancel` are GitHub,
which hands a queued job to any idle runner of its repository and label;
`EndUnused` is a build that fails or a runner that waited for its idle time-out.
A delivery may come when its job is over, come twice, or never.

### Service

`Arrive` and `Work` are `Dispatcher`'s steps, the first only for a job that
exists; `Trading` is what GitHub and the runners do in `Fleet`, to which the
builds that `Dispatcher` has created are the runners started. `Fleet` is small
enough to check with several deliveries, `Service` shows that it may be.

### System

`Discover` and `Refresh` are the steps of `Discovery`, `LookUp` and `Serve` those
of `Dispatcher`, whose registry is `View`, the lists of pools stored under the
keys. `Refresh` is a transaction on the one side and `Publish` on the other.
`unread` is history: lookups that missed what the registry held, because it
could not be read.

## 3. Runs

| Run | Instance | Shows |
|---|---|---|
| `labels` | `Startup` from 33 environments, all label settings over 3 labels | a server that listens has complete settings, those `Dispatcher` assumes, time-outs within their bounds; the loop meets the reference, the allow list is exact, aliases lead to provisioned labels, every label settles |
| `service` | 1 delivery of each kind of event, all 0-retry settings with 0 or 1 extra runners, registry changing at will between 4 contents, 1 job that GitHub queues, cancels or gives away | a runner is placed only where the registry justified it while the job was looked up, and only for eligible jobs; handlers and GitHub implement `Fleet` |
| `calls` | 1 delivery, up to 3 runners, up to 3 attempts per call or retries without end, registry fixed, with pools under both keys | the response names exactly the runners that run, at most one orphan is left, duplicates need a lost answer, a lost configuration dooms its delivery, builds stay within the product of the settings, every delivery whose retries are limited, or that GitHub gives up, ends because every step lowers a bound, the contract is implemented |
| `placement_404` | the server alone, with a registry that is empty and a default key to fall back on | violation: a 404 runner with 404 disabled |
| `discovery_alone` | 1 execution, run again and again, 6 contents of the folder, one of them without pools | transactions replace the registry, trusted pools have an allowed remote configuration, every execution ends because every step lowers a bound |
| `discovery_overlap` | 2 executions, 3 contents of the folder | an undisturbed execution leaves the registry exact whatever was in it; stale keys come from overlap only; permanent pools stay; an informed execution repairs the registry for good while the folder rests; the registry converges to the folder once that rests and executions go on to complete |
| `discovery_stale` | as `discovery_overlap` | violation: a transaction leaves a key that is no longer discovered |
| `retries` | the 4 calls, limits -1, 0, 1, 2, listings of up to 3 pages of up to 2 items | listings are whole or fail, requests are bounded, calls end |
| `fleet` | 2 jobs of one label, 3 deliveries, one job delivered twice, 0 or 1 extra runners | no deficit while spare runners last; served jobs start, are canceled, or their spare runners are used up |
| `system` | 2 executions, 2 contents of the folder, 1 delivery with an organization's and a default key | permanent pools are never missed, up-to-date registries are read as the folder is |
| `retries_attempts` | as `retries` | violation: one attempt too many |
| `retries_client_errors` | as `retries` | violation: a client error is retried |

### Bounds, and why they are enough

* Three labels make a chain of two aliases, a cycle of each length up to three,
  and a cycle entered from outside; the theorems cover the rest.
* The environments of `labels` give everything, leave out each required setting
  with 404 on and off, put each number at its bounds and one beyond, and allow no
  retries or any number.
* One delivery, in `service` of one job: deliveries share only what `Publish` changes, and no action of
  one reads another's state. The theorems are for any number.
* Three runners and three attempts: two answers can be lost within one call or
  within one loop, and there is a first, a middle and a last runner.
* `MaxTries` (2 in `calls`, 1 elsewhere) is where the count of retries stops
  when they have no end; the code has no such count, and no property reads one
  then.
* Two worker pools, one per key: more would only enlarge the random draw.
* Two executions of discovery and three contents of the folder: a key can come,
  go and change pools while each execution has read any of the three.
* `discovery_overlap` uses no symmetry, as it checks a temporal property.
* Two jobs and three deliveries in `fleet`: a job can take the runner of another,
  a redelivery can add one, and a failed delivery can leave its job to the
  others' runners. Jobs of other labels never meet these.
* `system` has one project whose pool stays and one that loses its pools: that is
  what tells a catalogue that lags from one that is torn. The constraint
  `LookingUp` follows a handler that has its placement only while discovery
  rests, for it no longer reads or writes what the properties speak of. The
  theorems have no such bound.
* `MaxRequests` (7) only caps the counter of requests when retries have no
  end; the properties bound requests below it when retries are limited. `MaxPages` (3) and `PageSizes` bound
  a listing; pages may be empty.

Deadlock is checked except in `labels` (a rejected configuration ends the
process), `fleet` (everything may be delivered and every job be done) and the
three runs of `Retries` (a call that has ended stays so). In
`Dispatcher` the registry may always change and in `Discovery` the folder.

### Fairness

Only the steps of a program that is running are fair; nothing that other
parties do is, be it a delivery, a hang-up, a kill, a change or a start.

* `WF(Answer)` in `Startup`: the loop of a server that listens waits for nothing.
  Nothing before it is fair, as a start may fail.
* `WF(Handle(r))`: each GET, request and delay of a handler ends, because the
  clients have time-outs and delays are finite; which way it ends is not
  assumed. What makes a handler end is then the limit on its retries or, without
  one, that GitHub hangs up, which `EveryDeliveryEnds` states and nobody assumes.
* `WF(Work(x))`: the same for an execution of discovery; that `Work` may always
  fail instead is in `Fail`, which is not fair.
* `WF(Match)` in `Fleet` is the one assumption about others: a runner that stays
  alive boots, and GitHub gives a job that waits to a runner that waits. That a
  runner stays alive, or a delivery comes or succeeds, is not assumed.
* `RegistryConverges` carries its assumption in itself, as nobody guarantees it:
  the folder rests in the end, and executions complete their updates again and
  again.
* `WF(Proceed)`: the same for one call. With unlimited retries only a canceled
  context ends it, as `EveryCallEnds` states.

## 4. What is proved

TLAPS checks, for all values of the constants that satisfy the assumptions:

* `Startup_proofs`, label resolution: type correctness, `LoopMeetsReference`,
  `CanHandleIffSupported`, `AliasLeadsToSupported`. The inductive invariant adds
  that the incoming label leads to the current one, that the visited labels are
  aliases, and that each one's target has been visited or is current. At a cycle
  the visited labels are then a closed set of aliases, so nothing outside it is
  the end; on settling, the visited labels are a closed set whose only member
  that is no alias is the current one. `LoopMakesProgress`: each iteration lowers
  the number of aliases not yet visited, or is the last.
* `Dispatcher_proofs`: type correctness, `PromiseIsKept`, `AtMostOneOrphan`,
  `ExtraBuildsNeedALoss`, `LostConfigurationDooms`, and that `Spec` implements
  `RunnerDelivery` (`HandlerImplementsContract`). None of these is inductive: `PromiseIsKept`
  says nothing about a handler half-way. `IInv` says of each delivery that
  everything before the current runner is registered and built and nothing
  after it is (`OrderInv`), that the current runner's state is accounted for by
  its step or by a lost answer (`LossInv`), and what an answer with names
  implies (`PromiseInv`). A step disturbs one delivery, so each action has a
  lemma about its own delivery and `LocalRInv` carries over the others.
* Also there: `BuildsHaveALimit` (`BuildsAreBounded`) and `HandlersMakeProgress`
  (`HandlersProgress`). Builds are told apart by the runner and the attempt they
  belong to, of which the loop and its retries leave only so many (`CInv`); the
  steps a handler has left are a natural number, at most a product of settings.
  Both are about retries with a limit; the second holds without one, too, of a
  handler whose context is canceled.
* `Placement_proofs`: `PlacementIsJustified` and `RunnersOnlyForEligibleJobs`.
  `PlaceInv` keeps what each step established for the next: while a job is
  looked up, all the pools the registry now holds for it are among those
  `offered`; the default key is read only after the organization's was missed.
  Every step is either one of the few that let a delivery in or place it, or is
  `Later`, which keeps `PlaceInv` once and for all.
* `Discovery_proofs`: type correctness, `StaleKeysNeedOverlap`,
  `TrustedPoolsAreConfigured`, `UndisturbedRunIsExact` and `PermanentPoolsStay`,
  for any number of executions, projects and pools. `XInv` says of each
  execution what it has read (`ReadInv`: each project's labels were true in
  some world, and what is always due is found or built once its project was
  visited), which keys it will not delete (`KeysInv`: those that others set
  meanwhile), and that what an undisturbed one knows is true now (`QuietInv`).

* Also there: `LoneTransactionsReplace`, which adds the assumption `Alone` (no two
  executions). With nobody else about, the keys to delete are all the keys there
  are. `discovery_stale` shows what can stay behind without that assumption.
* Also there, on convergence: an execution `Knows` the folder when what it has read is
  still true, and is `Informed` when, too, no key that others set since its SCAN is
  out of date. `RegistryIsRepaired`: an informed execution's transaction makes the
  registry right, and when all are informed nothing spoils it. `ExecutionsBecomeInformed`:
  one that does not run is informed, and while the folder rests nobody who knows it
  unlearns it. `RegistryConvergesFromRest` is the temporal consequence: from any
  moment at which nobody runs and after which the folder rests, `[]<>` updates
  lead to `<>[]` a right registry, with no fairness, whatever overlaps,
  fails or is killed. `ExecutionsMakeProgress`: an execution has at most two steps
  for each project and three more.
* `Retries_proofs`: type correctness, `ListingsAreWhole`, `RequestsAreBounded`
  and `BrokenListingsFail`. The invariant keeps accounts: items returned and
  items buffered are the items fetched, requests are pages and at most one
  failure. `CallsMakeProgress`: a step of a call with a limit lowers the pages
  left, or else the items buffered, or else the attempts left, or ends the call,
  as any step of a canceled one does.
* `Fleet_proofs`: type correctness and `NoDeficit`. The runners that answers have
  named are alive, wasted, or taken by a served job that waits no more; the map
  from those jobs to their runners is an injection, and the rest is counting
  with the library's facts on cardinality. `RunnersAreThere` draws from this that
  a served job that waits can be given to somebody, `JobsAreWorkedOff` that
  giving one away lowers the number of jobs still to start, which nothing
  raises, and `FleetFollowsContract` that `Fleet` implements `RunnerDelivery`.
* `Service_proofs`: `ServiceImplementsDispatcher`, so that all of the server's
  theorems hold among its neighbours, and `ServiceImplementsFleet`: a step of a
  handler is one of the contract (`NextContract`), and one that ends a delivery's
  waiting is `Arrive`, which has the guard that `Fleet` adds. The
  theorems of `Fleet_proofs` then hold of the handlers: `HandlersAvoidDeficit` and
  `HandlersServeJobs`. `SameMarket` says that two instances of `Fleet` with the
  same substitution are one.
* `System_proofs`: `SystemImplementsDiscovery` and `SystemImplementsDispatcher` (each
  step of the system is one of `Discovery`'s, and one of `Dispatcher`'s, or none),
  hence `SystemKeepsRegistry` and `SystemKeepsPromises`, which carry over what
  is proved of each, and `SystemPlacementsAreJustified` from the theorem
  of `Placement_proofs`, type correctness, `StableJobsAreServed` and
  `LookupsFollowFolder`. The first of the latter two rests on `PermanentPoolsStay`:
  what is permanent is always in the registry, so a lookup that misses it could
  not read; the second on `UndisturbedRunIsExact`.
* `Startup_proofs`: `StartupImplementsLabels`, which carries the theorems on
  label resolution over, type correctness, `RequestsAreComplete` and
  `HandlersGetTheirSettings`: the labels and settings of a server that listens
  meet `GoodLabels` and `GoodSettings`, which are what `Dispatcher` assumes. A
  limit on retries is not among them. `BootInv` says what has been checked by each stage.

Assumptions, which TLC evaluates in each run: `LabelSettings` and
`ServerSettings` are what `Validate` enforces (`AssumedSettings` proves that it
does), `TriesBound` (that the bound on the count of endless retries is one),
`World` (that the model's special values differ from pools and replies),
`Settings`, `Bounds`, `Neighbours`, `Trade` and `Started` (that the constants have
their types), `FiniteFolder` (that a folder has finitely many projects), `Inherited` (that what the registry holds at first was published under
the same settings), `ServerConstants` (those of `Dispatcher`, for `System`) and
`Founded` (that what is always due was published before `System` is looked at: a
registry that has never been filled serves nobody).

Only model-checked: everything that must eventually happen (`EveryLabelSettles`,
`EveryDeliveryEnds`, `EveryRunEnds`, `EveryCallEnds`, `RegistryConverges`,
`ServedJobsStart`). Two things are missing to prove these: that a fair action is
enabled (this version of the prover knows no `ENABLED`), and that a number which
falls as long as something happens stops it from happening for ever (induction over
the number, whose theorem the backends cannot instantiate). What the
argument says of single steps is proved:

| Checked | Proved of each step |
|---|---|
| `EveryLabelSettles` | `LoopMakesProgress` |
| `EveryDeliveryEnds` | `HandlersMakeProgress` |
| `EveryRunEnds` | `ExecutionsMakeProgress` |
| `EveryCallEnds` | `CallsMakeProgress` |
| `RegistryConverges` | `RegistryIsRepaired`, `ExecutionsBecomeInformed`, `ExecutionsMakeProgress`; entirely, if at some moment nobody runs: `RegistryConvergesFromRest` |
| `ServedJobsStart` | `RunnersAreThere`, `JobsAreWorkedOff` |

## 5. Findings

1. The 404 runner is started for a supported label without a pool even when
   `RUNNER_404_ENABLED` is off (`config.go:365` says otherwise): when the
   organization's and the default key are both missing (`webhook.go:218`, the path
   the run takes), and when the first is and defaults are disabled
   (`webhook.go:207-210`).
2. Two overlapping executions of discovery can leave a key in the registry that
   "should be deleted because it's no longer discovered"
   (`discovery_test.go:167-168`): an execution with an outdated reading commits
   between the SCAN and the EXEC of an up-to-date one (`discovery.go:221-256`),
   which therefore does not know of the key. It stays until an execution
   that nothing disturbs has succeeded (`UndisturbedRunIsExact`).
3. `MAX_RETRY_ATTEMPTS` counts retries, not attempts (`cloudbuild.go:140`,
   against `config.go:425`).
4. Client errors of GitHub are retried (`github.go:115`, against
   `github.go:129`).

Two more things the models show and no document contradicts: the retries of
`FindProjects` and `ListWorkerPools` cannot succeed, since the iterator keeps
its error (`BrokenListingsFail`); and `CreateBuild` may create a build twice for
one one-time configuration (`ExtraBuildsNeedALoss` says when).

And what reading for the models brought up, without a claim it contradicts:

* A server that cannot reach Redis when it starts never tries again
  (`cli/webhook.go:113-116`): it sends every supported job to the 404 runner for
  as long as it lives, while its log speaks of caching that is disabled.
* `RUNNER_IMAGE_TAG` and `RUNNER_404_IMAGE_TAG` have a default in the struct tags
  (`config.go:53`, `64`) and none in the flags (`288`, `383`), which are what the
  server uses. `Validate` asks for the second, if 404 is enabled, and for neither
  part of the first image's name; that is why `RequestsAreComplete` makes an
  exception of them. Likewise `required` in the tags of the 404 settings is not
  what the flags do.
* `RUNNER_PROJECT_ID` and `RUNNER_WORKER_POOL_ID` play no part in placement.
  Discovery loads `RUNNER_REGISTRY_DEFAULT_KEY_PREFIX` and never uses it.
* The idle time-out of a runner may be longer than its build's.
* `MAX_RETRY_ATTEMPTS` is not checked; a negative one retries without end, and a
  delivery then ends only when GitHub hangs up (`EveryDeliveryEnds`,
  `EveryCallEnds`).
* `Server.Close` has no caller.

## 6. What the properties do not say

`ExtraBuildsNeedALoss` and `AtMostOneOrphan` bound what goes wrong; they do not
say it cannot. A delivery made twice starts its runners twice. `ServedJobsStart`
says nothing of a job whose delivery failed or never came: nothing in the code
would start it. A runner that was started to cancel a job carries that job's
label and may be given another job of it; `Fleet` does not tell such runners
apart. `NoDeficit` counts runners by label, not by placement.

## 7. Plan

Done, in this order: label resolution, the server with its contract, discovery,
retries, each with its proofs; the fleet over the contract; the system over one
registry; start-up; the handlers in the fleet's place; for every property that
something happens, a bound that the steps lower. What could still be added: an
abstract registry that is replaced at once, which a lone execution of discovery
implements; `System` and `Service` in one; 404 runners as a kind of their
own in `Fleet`, and the clients' own retries below the calls made here.

## 8. Not modelled

* The payload's signature, its decoding and the fields that are only logged:
  four kinds of payload are told apart, as `validateGitHubPayload` and
  `processRequest` do. Encoding of the JIT configuration and the text of the
  build request, apart from its project and pool and which of its fields are
  filled.
* Retries inside the Redis, GitHub and Google clients below the calls made here.
* Values in the registry that discovery did not write; a value that cannot be
  read is a miss.
* What the secret, the KMS client and the signer hold: making each is a step of
  `Startup` that may fail.
* The settings of the discovery job: six strings that must not be empty, checked
  once, before an execution starts; an execution with bad ones is one that never
  starts.
* Version and health check (constant answers), `generate-jit` (a straight line of
  calls for developers, without state), log attributes, Terraform beyond the
  overlap it allows, and the generated client, except for how its
  `ListWorkerPools` fetches a page.
* The time that delays, time-outs and redeliveries take: each may end at any
  moment.
