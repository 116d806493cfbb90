----------------------------- MODULE Discovery -----------------------------
(***************************************************************************)
(* The runner-discovery job (pkg/discovery).  An execution asks Cloud Asset *)
(* Inventory for the projects of the runner folder, Cloud Build for the    *)
(* worker pools of each project whose labels pass, and then replaces the   *)
(* runner registry: it SCANs for the keys to delete, and deletes them and  *)
(* sets its own in one Redis transaction.                                  *)
(*                                                                         *)
(* Nothing keeps two executions apart (the scheduler, its retries and CI   *)
(* all start one), and the projects are changed by their owners meanwhile. *)
(***************************************************************************)
EXTENDS Integers, FiniteSets

CONSTANTS
  Executions,   \* executions of the job; one that ended may be run again
  Projects,     \* the projects of the runner folder
  Pools,        \* worker pools
  Site,         \* the location each worker pool is in
  Servable,     \* pools that are private, configured, and named as expected
  Values,       \* label values
  Absent,       \* a label a project does not have
  Empty,        \* a label whose value is empty
  Available,    \* "available"
  Trusted,      \* "trusted"
  Allowed,      \* the values each label may have: all that its patterns match
  Worlds,       \* what the folder may hold
  Registries    \* what the registry may hold at first

Required  == {"scope", "runsOn", "location", "availability", "type"}
LabelKeys == Required \cup {"remote"}
Labelling == [LabelKeys -> Values \cup {Absent, Empty}]

World == [Projects -> [active: BOOLEAN, labels: Labelling, pools: SUBSET Pools]]

(* What the registry holds: for each of its keys, a list of entries. *)
RegistryKeys == (Values \cup {Absent, Empty}) \X (Values \cup {Absent, Empty})

Entry == [key: RegistryKeys, pool: Pools, project: Projects,
          type: Values \cup {Absent, Empty}, remote: Values \cup {Absent, Empty}]

ASSUME Settings ==
  /\ Worlds \subseteq World
  /\ Registries \subseteq SUBSET Entry
  /\ Allowed \in [LabelKeys -> SUBSET (Values \cup {Empty})]
  /\ Servable \subseteq Pools
  /\ Absent \notin Values \cup {Empty}

ASSUME FiniteFolder == IsFiniteSet(Projects)

(* What the registry holds at first was written under the same settings.   *)
ASSUME Inherited ==
  \A R \in Registries : \A e \in R : e.type = Trusted => e.remote \in Allowed["remote"]

VARIABLES
  world,       \* the projects, their labels and their worker pools
  registry,    \* Redis
  step,        \* where each execution is
  connected,   \* whether it has a registry client
  visited,     \* the projects FindProjects has come by
  found,       \* <<project, labels>> of the projects to list
  built,       \* poolsByRegistryKey
  held,        \* keys that were there throughout the SCAN
  seen,        \* keys that were there at some moment of the SCAN
  stale,       \* staleKeys
  quiet,       \* history: executions that nothing has disturbed
  late,        \* history: keys others set since this one began its SCAN
  published,   \* history: what the last transaction set
  excused      \* history: what was late at the last transaction

reading == <<visited, found, built>>
scans   == <<held, seen, stale>>
history == <<quiet, late, published, excused>>
vars    == <<world, registry, step, connected, reading, scans, history>>

Running == {"reading", "scanning", "committing"}
Steps   == Running \cup {"idle", "succeeded", "failed"}

Key(l)     == <<l["scope"], l["runsOn"]>>
KeysOf(es) == {e.key : e \in es}

(* What SearchAllResources is asked for: generateLabelQuery. *)
Matches(project) == project.active /\ \A k \in Required : project.labels[k] # Absent

(* Mutant of Passes: a trusted pool needs no remote configuration. *)
Passes_TrustsAnyone(l) ==
  /\ \A k \in Required : l[k] # Empty /\ l[k] \in Allowed[k]
  /\ l["availability"] = Available

(* filterAndValidateProjectLabels *)
Passes(l) ==
  /\ \A k \in Required : l[k] # Empty /\ l[k] \in Allowed[k]
  /\ l["availability"] = Available
  /\ l["type"] = Trusted => l["remote"] \in Allowed["remote"]

(* Mutant of EntriesOf: the names of pool and project are swapped. *)
EntriesOf_SwapsNames(p, l, pools) ==
  {[key |-> Key(l), pool |-> p, project |-> q, type |-> l["type"], remote |-> l["remote"]] :
     q \in {q \in pools \cap Servable : Site[q] = l["location"]}}

(* The entries of the pools of a project that was found with labels l. *)
EntriesOf(p, l, pools) ==
  {[key |-> Key(l), pool |-> q, project |-> p, type |-> l["type"], remote |-> l["remote"]] :
     q \in {q \in pools \cap Servable : Site[q] = l["location"]}}

-----------------------------------------------------------------------------
Init ==
  /\ world \in Worlds
  /\ registry \in Registries
  /\ step = [x \in Executions |-> "idle"]
  /\ connected = [x \in Executions |-> FALSE]
  /\ visited = [x \in Executions |-> {}]
  /\ found = [x \in Executions |-> {}]
  /\ built = [x \in Executions |-> {}]
  /\ held = [x \in Executions |-> {}]
  /\ seen = [x \in Executions |-> {}]
  /\ stale = [x \in Executions |-> {}]
  /\ quiet = {}
  /\ late = [x \in Executions |-> {}]
  /\ published = registry
  /\ excused = {}

Goto(x, s) == step' = [step EXCEPT ![x] = s]

(* An execution ends, and what it knew is gone. *)
End(x, outcome) ==
  /\ Goto(x, outcome)
  /\ visited' = [visited EXCEPT ![x] = {}]
  /\ found' = [found EXCEPT ![x] = {}]
  /\ built' = [built EXCEPT ![x] = {}]
  /\ stale' = [stale EXCEPT ![x] = {}]

(* The owners of the projects change them. *)
Change(w) ==
  /\ w # world
  /\ world' = w
  /\ quiet' = {}
  /\ UNCHANGED <<registry, step, connected, reading, scans, late, published, excused>>

(* The job is started.  An execution that cannot reach Redis goes on       *)
(* without a registry client.                                              *)
Start(x) ==
  /\ step[x] \notin Running
  /\ Goto(x, "reading")
  /\ \E c \in BOOLEAN : connected' = [connected EXCEPT ![x] = c]
  /\ quiet' = quiet \cup {x}
  /\ UNCHANGED <<world, registry, reading, scans, late, published, excused>>

(* Mutant of FindProject: pages of projects are read over again. *)
FindProject_Repeats(x, p) ==
  /\ step[x] = "reading"
  /\ visited' = [visited EXCEPT ![x] = @ \cup {p}]
  /\ found' = [found EXCEPT ![x] =
                 IF Matches(world[p]) /\ Passes(world[p].labels)
                 THEN @ \cup {<<p, world[p].labels>>} ELSE @]
  /\ UNCHANGED <<world, registry, step, connected, built, scans, history>>

(* FindProjects comes by a project; whether its pools are to be listed is  *)
(* decided by its labels as they are now.                                  *)
FindProject(x, p) ==
  /\ step[x] = "reading" /\ p \notin visited[x]
  /\ visited' = [visited EXCEPT ![x] = @ \cup {p}]
  /\ found' = [found EXCEPT ![x] =
                 IF Matches(world[p]) /\ Passes(world[p].labels)
                 THEN @ \cup {<<p, world[p].labels>>} ELSE @]
  /\ UNCHANGED <<world, registry, step, connected, built, scans, history>>

(* Mutant of List: a listing that fails is skipped. *)
List_SkipsFailures(x, p, l) ==
  /\ step[x] = "reading" /\ visited[x] = Projects /\ <<p, l>> \in found[x]
  /\ found' = [found EXCEPT ![x] = @ \ {<<p, l>>}]
  /\ \E pools \in {{}, world[p].pools} :
       built' = [built EXCEPT ![x] = @ \cup EntriesOf(p, l, pools)]
  /\ UNCHANGED <<world, registry, step, connected, visited, scans, history>>

(* Mutant of List: a project's pools replace those found for its key. *)
List_Overwrites(x, p, l) ==
  /\ step[x] = "reading" /\ visited[x] = Projects /\ <<p, l>> \in found[x]
  /\ found' = [found EXCEPT ![x] = @ \ {<<p, l>>}]
  /\ built' = [built EXCEPT ![x] = {e \in @ : e.key # Key(l)}
                                     \cup EntriesOf(p, l, world[p].pools)]
  /\ UNCHANGED <<world, registry, step, connected, visited, scans, history>>

(* ListWorkerPools returns the pools of a project as they are now. *)
List(x, p, l) ==
  /\ step[x] = "reading" /\ visited[x] = Projects /\ <<p, l>> \in found[x]
  /\ found' = [found EXCEPT ![x] = @ \ {<<p, l>>}]
  /\ built' = [built EXCEPT ![x] = @ \cup EntriesOf(p, l, world[p].pools)]
  /\ UNCHANGED <<world, registry, step, connected, visited, scans, history>>

HasRead(x) == step[x] = "reading" /\ visited[x] = Projects /\ found[x] = {}

(* Without a registry client the job ends here, and well. *)
SkipUpdate(x) ==
  /\ HasRead(x) /\ ~connected[x]
  /\ End(x, "succeeded")
  /\ UNCHANGED <<world, registry, connected, held, seen, history>>

(* Mutant of BeginScan: an execution that found no pools waits for some. *)
BeginScan_NeedsPools(x) ==
  /\ HasRead(x) /\ connected[x] /\ built[x] # {}
  /\ Goto(x, "scanning")
  /\ held' = [held EXCEPT ![x] = KeysOf(registry)]
  /\ seen' = [seen EXCEPT ![x] = KeysOf(registry)]
  /\ UNCHANGED <<world, registry, connected, reading, stale, history>>

(* The first SCAN is sent. *)
BeginScan(x) ==
  /\ HasRead(x) /\ connected[x]
  /\ Goto(x, "scanning")
  /\ held' = [held EXCEPT ![x] = KeysOf(registry)]
  /\ seen' = [seen EXCEPT ![x] = KeysOf(registry)]
  /\ UNCHANGED <<world, registry, connected, reading, stale, history>>

(* The last one is answered.  SCAN returns every key that was there all    *)
(* along, and any of those that came or went meanwhile.  With nothing to   *)
(* delete or set there is no transaction.                                  *)
EndScan(x, keys) ==
  /\ step[x] = "scanning"
  /\ held[x] \subseteq keys
  /\ held' = [held EXCEPT ![x] = {}]
  /\ seen' = [seen EXCEPT ![x] = {}]
  /\ \/ /\ keys # {} \/ built[x] # {}
        /\ Goto(x, "committing")
        /\ stale' = [stale EXCEPT ![x] = keys]
        /\ UNCHANGED <<reading, late>>
     \/ /\ keys = {} /\ built[x] = {}
        /\ End(x, "succeeded")
        /\ late' = [late EXCEPT ![x] = {}]
  /\ UNCHANGED <<world, registry, connected, quiet, published, excused>>

-----------------------------------------------------------------------------
(* Mutant of Replaced: the keys deleted are those that are set again. *)
Replaced_DeletesOwnKeys(x) ==
  {e \in registry : e.key \notin KeysOf(built[x])} \cup built[x]

(* Mutant of Replaced: the keys are set first, and stale ones deleted then. *)
Replaced_SetsFirst(x) == {e \in registry \cup built[x] : e.key \notin stale[x]}

(* Mutant of Replaced: the pools of a key that was not scanned are kept. *)
Replaced_AddsToKeys(x) == {e \in registry : e.key \notin stale[x]} \cup built[x]

(* The registry after DEL of the stale keys and SET of the new ones. *)
Replaced(x) ==
  {e \in registry : e.key \notin stale[x] \cup KeysOf(built[x])} \cup built[x]

(* EXEC is carried out.  Others that are scanning see keys go and come. *)
Exec(x) ==
  /\ step[x] = "committing"
  /\ registry' = Replaced(x)
  /\ held' = [y \in Executions |-> IF step[y] = "scanning"
                THEN held[y] \cap KeysOf(Replaced(x)) ELSE held[y]]
  /\ seen' = [y \in Executions |-> IF step[y] = "scanning"
                THEN seen[y] \cup KeysOf(built[x]) ELSE seen[y]]
  /\ quiet' = quiet \ {y \in Executions \ {x} :
                         step[y] \in {"scanning", "committing", "succeeded"}}
  /\ late' = [y \in Executions |->
                IF y = x THEN {}
                ELSE IF step[y] \in {"scanning", "committing"}
                     THEN late[y] \cup KeysOf(built[x]) ELSE late[y]]
  /\ published' = built[x]
  /\ excused' = late[x]
  /\ UNCHANGED <<world, connected>>

Commit(x) == Exec(x) /\ End(x, "succeeded")

(* It is carried out and its answer is lost: the execution fails. *)
CommitUnanswered(x) == Exec(x) /\ End(x, "failed")

(* A call fails for good, EXEC without being carried out, or the execution *)
(* is killed or out of time.                                               *)
Fail(x) ==
  /\ step[x] \in Running
  /\ End(x, "failed")
  /\ held' = [held EXCEPT ![x] = {}]
  /\ seen' = [seen EXCEPT ![x] = {}]
  /\ quiet' = quiet \ {x}
  /\ late' = [late EXCEPT ![x] = {}]
  /\ UNCHANGED <<world, registry, connected, published, excused>>

Prepare(x) ==
  \/ \E p \in Projects : FindProject(x, p)
  \/ \E f \in found[x] : List(x, f[1], f[2])
  \/ SkipUpdate(x) \/ BeginScan(x)
  \/ \E keys \in SUBSET seen[x] : EndScan(x, keys)

Publish(x) == Commit(x) \/ CommitUnanswered(x)

Work(x) == Prepare(x) \/ Publish(x)

Next ==
  \/ \E w \in Worlds : Change(w)
  \/ \E x \in Executions : Start(x) \/ Work(x) \/ Fail(x)

Spec == Init /\ [][Next]_vars

(* Every call of an execution returns; no execution need ever be started,  *)
(* and none need succeed.                                                  *)
FairSpec == Spec /\ \A x \in Executions : WF_vars(Work(x))

-----------------------------------------------------------------------------
TypeOK ==
  /\ world \in World
  /\ registry \subseteq Entry
  /\ step \in [Executions -> Steps]
  /\ connected \in [Executions -> BOOLEAN]
  /\ visited \in [Executions -> SUBSET Projects]
  /\ found \in [Executions -> SUBSET (Projects \X Labelling)]
  /\ built \in [Executions -> SUBSET Entry]
  /\ held \in [Executions -> SUBSET RegistryKeys]
  /\ seen \in [Executions -> SUBSET RegistryKeys]
  /\ stale \in [Executions -> SUBSET RegistryKeys]
  /\ quiet \subseteq Executions
  /\ late \in [Executions -> SUBSET RegistryKeys]
  /\ published \subseteq Entry
  /\ excused \subseteq RegistryKeys

(* What the registry should hold when the folder holds w. *)
Due(w, p) == IF Matches(w[p]) /\ Passes(w[p].labels)
             THEN EntriesOf(p, w[p].labels, w[p].pools) ELSE {}

Catalogue(w) == UNION {Due(w, p) : p \in Projects}

(* What is due all along. *)
Permanent == {e \in UNION {Catalogue(w) : w \in Worlds} :
                \A w \in Worlds : e \in Catalogue(w)}

(* An execution that succeeds while the folder does not change and no      *)
(* other execution writes after it began its SCAN leaves the registry      *)
(* exactly as the folder calls for, whatever was in it before: what other  *)
(* executions left behind, too, is gone.                                   *)
UndisturbedRunIsExact ==
  \A x \in quiet : step[x] = "succeeded" /\ connected[x] => registry = Catalogue(world)

(* A key outlives the transaction that should have deleted it only if      *)
(* another execution set it while this one was between SCAN and EXEC.      *)
StaleKeysNeedOverlap ==
  \A e \in registry \ published : e.key \in excused

(* However executions overlap and fail, and whatever else changes in the   *)
(* folder, a pool that is due all along is never taken out of the registry *)
(* again: a project that cannot be listed fails the whole execution.       *)
PermanentPoolsStay == [][registry \cap Permanent \subseteq registry']_vars

(* Labels are read once and pools later: whatever has changed in between,  *)
(* a pool published as trusted comes with a remote configuration that is   *)
(* allowed.                                                                *)
TrustedPoolsAreConfigured ==
  \A e \in registry : e.type = Trusted => e.remote \in Allowed["remote"]

(* "Atomically delete stale keys and set new keys in a transaction": after *)
(* a transaction, the registry holds what it set and no other key.         *)
TransactionReplacesRegistry == registry = published

(* A key that is stale "should be deleted because it's no longer            *)
(* discovered": after a transaction, every key of the registry is one that  *)
(* this execution discovered, or that the folder now calls for.            *)
StaleKeysAreDeleted ==
  [][\A x \in Executions : Publish(x) =>
       KeysOf(registry') \subseteq KeysOf(built[x]) \cup KeysOf(Catalogue(world))]_vars

(* What x has read of the folder is so now, *)
Knows(x) ==
  /\ \A f \in found[x] : Matches(world[f[1]]) /\ f[2] = world[f[1]].labels
  /\ built[x] \subseteq Catalogue(world)
  /\ \A p \in visited[x] :
       <<p, world[p].labels>> \in found[x] \/ Due(world, p) \subseteq built[x]

(* and no key has been set behind its back but such as are due. *)
Informed(x) == Knows(x) /\ late[x] \subseteq KeysOf(Catalogue(world))

(* An update is completed, if without a transaction as there is nothing to *)
(* delete or set.                                                          *)
Update(x) ==
  \/ Publish(x)
  \/ \E keys \in SUBSET seen[x] : EndScan(x, keys) /\ Goto(x, "succeeded")

(* Whatever executions that overlapped, failed or were killed have left in *)
(* the registry, once the folder stays as it is and executions go on to    *)
(* complete their updates, the registry comes to hold what the folder      *)
(* calls for, and holds it from then on, although the executions that      *)
(* repair it may overlap as well.                                          *)
RegistryConverges ==
  <>[][UNCHANGED world]_vars /\ []<><<\E x \in Executions : Update(x)>>_vars
    => <>[](registry = Catalogue(world))

(* What makes it converge: while the folder stays as it is, the update of  *)
(* one execution that is informed repairs the registry, whatever was in    *)
(* it and whatever the others have read; and once all are informed they    *)
(* remain so, and none of them spoils what is right.                       *)
RepairsLast ==
  [][world' = world =>
       /\ \A x \in Executions : Informed(x) /\ Update(x) => registry' = Catalogue(world)
       /\ (\A x \in Executions : Informed(x)) =>
            /\ \A x \in Executions : Informed(x)'
            /\ registry = Catalogue(world) => registry' = Catalogue(world)]_vars

(* Every execution ends: no loop over projects, pools or keys goes on.     *)
EveryRunEnds ==
  \A x \in Executions : step[x] \in Running ~> step[x] \in {"succeeded", "failed"}

(* An upper bound of the steps it has before it: each project is come by   *)
(* once and listed once.                                                   *)
StepsLeft(x) ==
  IF step[x] = "reading"
  THEN 2 * Cardinality(Projects \ visited[x]) + Cardinality(found[x]) + 3
  ELSE IF step[x] = "scanning" THEN 2
  ELSE IF step[x] = "committing" THEN 1
  ELSE 0

(* Why it ends: every step of an execution brings it closer to its end, and *)
(* neither the other executions nor changes of the folder set it back.     *)
ExecutionsProgress ==
  [][\A x \in Executions :
       /\ Work(x) => StepsLeft(x)' < StepsLeft(x)
       /\ step[x] \in Running => StepsLeft(x)' <= StepsLeft(x)]_vars
=============================================================================
