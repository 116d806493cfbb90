------------------------------ MODULE Startup ------------------------------
(***************************************************************************)
(* The start of the webhook server (cli/webhook.go): settings are taken    *)
(* from the environment or from their defaults, Validate checks those it   *)
(* knows and then the label settings, a registry client is tried for, the  *)
(* server's clients are made one by one, and the port is opened.  From     *)
(* then on label resolution goes on as in LabelResolution, whose settings  *)
(* come from here, and build requests are made of what was let through.    *)
(*                                                                         *)
(* A string setting is there or is empty; what it says does not matter.    *)
(***************************************************************************)
EXTENDS LabelResolution, HandlerSettings, Sequences

(* The settings, by their names in Config.                                 *)
Required ==
  {"GitHubAppID", "GitHubWebhookKeyMountPath", "GitHubWebhookKeyName",
   "KMSAppPrivateKeyID", "RunnerLocation", "RunnerProjectID",
   "RunnerRepositoryID", "RunnerServiceAccount"}

Required404 ==
  {"Runner404ImageName", "Runner404ImageTag", "Runner404Location",
   "Runner404ProjectID", "Runner404ServiceAccount"}

Defaulted ==
  {"GitHubAPIBaseURL", "Port", "RunnerImageName", "Runner404ImageName",
   "RunnerRegistryDefaultKeyPrefix"}

Strings == Required \cup Required404 \cup Defaulted \cup
  {"RunnerImageTag", "RunnerWorkerPoolID", "Runner404WorkerPoolID", "E2ETestRunID"}

DefaultExtraRunnerCount == 0
DefaultMaxRetryAttempts == 3

DefaultNumber == [ExtraRunnerCount |-> DefaultExtraRunnerCount,
                  RunnerIdleTimeoutSeconds |-> 300,
                  RunnerExecutionTimeoutSeconds |-> 3600,
                  MaxRetryAttempts |-> DefaultMaxRetryAttempts]

Numbers == DOMAIN DefaultNumber

minRunnerIdleTimeoutSeconds      == 5 * 60
maxRunnerIdleTimeoutSeconds      == 24 * 60 * 60
minRunnerExecutionTimeoutSeconds == 60 * 60
maxRunnerExecutionTimeoutSeconds == 24 * 60 * 60

IdleTimeouts      == minRunnerIdleTimeoutSeconds .. maxRunnerIdleTimeoutSeconds
ExecutionTimeouts == minRunnerExecutionTimeoutSeconds .. maxRunnerExecutionTimeoutSeconds

Switches == {"Runner404Enabled", "Runner404DefaultDisabled"}

Tiers == {"production", "autopush"}

(* What the process finds: the settings given, the strings given as empty, *)
(* the numbers, if given, the switches that are on, and ENVIRONMENT.       *)
Environment ==
  [given: SUBSET (Strings \cup Numbers), blank: SUBSET Strings,
   numbers: [Numbers -> Int], on: SUBSET Switches,
   tier: Tiers \cup {"", "unset", "other"}]

Config == [strings: SUBSET Strings, numbers: [Numbers -> Int],
           on: SUBSET Switches, tier: Tiers \cup {"", "other"}]

CONSTANT Environments      \* those the process may be started in

ASSUME Started == Environments \subseteq Environment

VARIABLES
  env,      \* the environment, before flags are parsed
  cfg,      \* c.cfg
  boot,     \* where RunUnstarted is
  client,   \* registryClient is not nil
  made      \* how much of the server NewServer has made

starting  == <<env, cfg, boot, client, made>>
startvars == <<vars, starting>>

Boots == {"parsing", "validating", "labels", "connecting", "making", "made",
          "listening", "stopped"}

(* What NewServer needs, in the order it asks for it. *)
Parts == <<"webhook secret", "KMS client", "signer", "GitHub app", "Cloud Build client">>

-----------------------------------------------------------------------------
StartInit ==
  /\ Init
  /\ env \in Environments
  /\ cfg = [strings |-> {}, numbers |-> [n \in Numbers |-> 0], on |-> {}, tier |-> ""]
  /\ boot = "parsing"
  /\ client = FALSE
  /\ made = 0

Reach(stage) == boot' = stage /\ UNCHANGED <<env, vars>>

(* ToFlags and Parse *)
Parsed(e) ==
  [strings |-> (e.given \cup (Defaulted \ e.blank)) \ Numbers,
   numbers |-> [n \in Numbers |-> IF n \in e.given THEN e.numbers[n]
                                  ELSE DefaultNumber[n]],
   on      |-> e.on,
   tier    |-> IF e.tier = "unset" THEN "production" ELSE e.tier]

ParseFlags ==
  /\ boot = "parsing"
  /\ cfg' = Parsed(env)
  /\ Reach("validating")
  /\ UNCHANGED <<client, made>>

(* Mutant of SettingsValid: a 404 runner needs no project. *)
SettingsValid_No404Project(c) ==
  /\ c.tier \in Tiers
  /\ Required \subseteq c.strings
  /\ "Runner404Enabled" \in c.on =>
       Required404 \ {"Runner404ProjectID"} \subseteq c.strings
  /\ c.numbers.ExtraRunnerCount >= 0
  /\ c.numbers.RunnerIdleTimeoutSeconds \in IdleTimeouts
  /\ c.numbers.RunnerExecutionTimeoutSeconds \in ExecutionTimeouts

(* Mutant of SettingsValid: the time-outs are only bounded from below. *)
SettingsValid_NoUpperBounds(c) ==
  /\ c.tier \in Tiers
  /\ Required \subseteq c.strings
  /\ "Runner404Enabled" \in c.on => Required404 \subseteq c.strings
  /\ c.numbers.ExtraRunnerCount >= 0
  /\ c.numbers.RunnerIdleTimeoutSeconds >= minRunnerIdleTimeoutSeconds
  /\ c.numbers.RunnerExecutionTimeoutSeconds >= minRunnerExecutionTimeoutSeconds

(* Validate, up to the label settings.  It does not look at the number of  *)
(* retries.                                                                *)
SettingsValid(c) ==
  /\ c.tier \in Tiers
  /\ Required \subseteq c.strings
  /\ "Runner404Enabled" \in c.on => Required404 \subseteq c.strings
  /\ c.numbers.ExtraRunnerCount >= 0
  /\ c.numbers.RunnerIdleTimeoutSeconds \in IdleTimeouts
  /\ c.numbers.RunnerExecutionTimeoutSeconds \in ExecutionTimeouts

ValidateSettings ==
  /\ boot = "validating" /\ SettingsValid(cfg)
  /\ Reach("labels")
  /\ UNCHANGED <<cfg, client, made>>

RefuseSettings ==
  /\ boot = "validating" /\ ~SettingsValid(cfg)
  /\ Reach("stopped")
  /\ UNCHANGED <<cfg, client, made>>

(* Validate's checks of the label settings, alias by alias. *)
ValidateAlias(key, target) ==
  /\ boot = "labels" /\ DeclareAlias(key, target)
  /\ UNCHANGED starting

RefuseLabels ==
  /\ boot = "labels" /\ (RejectLabels \/ RejectAlias)
  /\ boot' = "stopped"
  /\ UNCHANGED <<env, cfg, client, made>>

Validated ==
  /\ boot = "labels" /\ LabelsValid
  /\ Reach("connecting")
  /\ UNCHANGED <<cfg, client, made>>

(* NewRunnerRegistry: a server that cannot reach Redis now goes on without *)
(* a client, for good.                                                     *)
Connect ==
  /\ boot = "connecting"
  /\ client' \in BOOLEAN
  /\ Reach("making")
  /\ UNCHANGED <<cfg, made>>

(* NewServer *)
MakePart ==
  /\ boot = "making" /\ made < Len(Parts)
  /\ made' = made + 1
  /\ UNCHANGED <<vars, env, cfg, boot, client>>

MakeServer ==
  /\ boot = "making" /\ made = Len(Parts)
  /\ Serve
  /\ boot' = "made"
  /\ UNCHANGED <<env, cfg, client, made>>

Listen ==
  /\ boot = "made"
  /\ Reach("listening")
  /\ UNCHANGED <<cfg, client, made>>

(* A flag that cannot be parsed, a part that cannot be had, a port that    *)
(* cannot be opened: the process ends with an error.                       *)
Fail ==
  /\ boot \in {"parsing", "making", "made"}
  /\ Reach("stopped")
  /\ UNCHANGED <<cfg, client, made>>

Answer ==
  /\ boot = "listening"
  /\ Resolve
  /\ UNCHANGED starting

StartNext ==
  \/ ParseFlags \/ ValidateSettings \/ RefuseSettings
  \/ (\E key, target \in Labels : ValidateAlias(key, target))
  \/ RefuseLabels \/ Validated \/ Connect \/ MakePart \/ MakeServer \/ Listen \/ Fail
  \/ (boot = "listening" /\ (\E label \in Labels : Arrive(label)) /\ UNCHANGED starting)
  \/ Answer

StartSpec == StartInit /\ [][StartNext]_startvars

(* The loop runs on the request's own goroutine and waits for nothing. *)
StartFairSpec == StartSpec /\ WF_startvars(Answer)

-----------------------------------------------------------------------------
(* What NewServer hands to the handlers: the settings of Dispatcher.       *)
Handed ==
  [extra           |-> cfg.numbers.ExtraRunnerCount,
   maxRetries      |-> cfg.numbers.MaxRetryAttempts,
   enabled404      |-> "Runner404Enabled" \in cfg.on,
   has404Pool      |-> "Runner404ProjectID" \in cfg.strings,
   defaultDisabled |-> "Runner404DefaultDisabled" \in cfg.on,
   hasRegistry     |-> client]

(* buildCloudBuildRequest: the fields of a request that are not empty, for *)
(* a pool of the registry, which comes with its project and location, and  *)
(* for the pool of start404RunnerForJob.                                   *)
Fields == {"project", "location", "serviceAccount", "repository", "name", "tag"}

Field(f, setting) == IF setting \in cfg.strings THEN {f} ELSE {}

PoolRequest ==
  {"project", "location", "serviceAccount"}
    \cup Field("repository", "RunnerRepositoryID")
    \cup Field("name", "RunnerImageName") \cup Field("tag", "RunnerImageTag")

Request404 ==
  Field("repository", "RunnerRepositoryID")
    \cup Field("name", "Runner404ImageName") \cup Field("tag", "Runner404ImageTag")
    \cup IF "Runner404ProjectID" \in cfg.strings
         THEN {"project"} \cup Field("serviceAccount", "Runner404ServiceAccount")
                \cup Field("location", "Runner404Location")
                \cup Field("location", "RunnerLocation")
         ELSE {}

BootTypeOK ==
  /\ env \in Environments
  /\ cfg \in Config
  /\ boot \in Boots
  /\ client \in BOOLEAN
  /\ made \in 0 .. Len(Parts)

(* Types of start-up and of label resolution: an alias target is always a  *)
(* supported label, however far start-up has come (Config.Validate).       *)
StartTypeOK == TypeOK /\ BootTypeOK

(* What Validate lets through is enough for every build the server asks    *)
(* for: requests for a pool's builds are complete, except for an image's   *)
(* name and tag, which Validate does not look at, and those for 404 builds *)
(* are, if 404 is enabled.  Without 404 enabled they may lack a project    *)
(* and be made all the same (placement_404).                               *)
RequestsAreComplete ==
  boot = "listening" =>
    /\ {"RunnerImageName", "RunnerImageTag"} \subseteq cfg.strings =>
         PoolRequest = Fields
    /\ "Runner404Enabled" \in cfg.on => Request404 = Fields

(* Deliveries are handled with settings as Dispatcher assumes them (its    *)
(* LabelSettings and ServerSettings), in whatever order start-up found     *)
(* them, and builds get time-outs within the bounds that the flags name.   *)
(* That the retries are limited is not among them: nothing checks it.      *)
HandlersGetTheirSettings ==
  boot = "listening" =>
    /\ supported # {} /\ GoodLabels(supported, ignored, aliases)
    /\ allowed = DOMAIN aliases \cup {aliases[k] : k \in DOMAIN aliases} \cup supported
    /\ GoodSettings(Handed)
    /\ cfg.numbers.RunnerIdleTimeoutSeconds \in IdleTimeouts
    /\ cfg.numbers.RunnerExecutionTimeoutSeconds \in ExecutionTimeouts
=============================================================================
