------------------------------- MODULE System -------------------------------
(***************************************************************************)
(* The whole system: the executions of runner discovery and the handlers   *)
(* of the webhook server run side by side, and meet in the runner registry *)
(* alone.  A transaction of discovery is what Dispatcher knows as Publish, *)
(* and handlers read the keys of Discovery's registry as lists of pools.   *)
(*                                                                         *)
(* The variables of Dispatcher are repeated here but for its registry,     *)
(* which is a view of Discovery's.                                         *)
(***************************************************************************)
EXTENDS Discovery, Integers

CONSTANTS
  Labels, Requests, Events, Orgs, DefaultPrefix, Pool404, NoPool, NoEvent,
  NoReply, Aliases, Supported, Ignored, Configs, MaxTries   \* as in Dispatcher

VARIABLES
  config, pc, event, pool, runner, retries, canceled, reply,
  registered, builds, offered, missed, lost,      \* as in Dispatcher
  unread       \* history: the <<delivery, prefix>> whose pools the registry
               \* held and the server did not read, for want of a client, an
               \* answer or time

serving == <<config, pc, event, pool, runner, retries, canceled, reply,
             registered, builds, offered, missed, lost>>
sysvars == <<vars, serving, unread>>

Lookups == (Orgs \cup {DefaultPrefix}) \X Labels

(* What is stored under a key is a list of pools. *)
View == [k \in Lookups |-> {e.pool : e \in {e \in registry : e.key = k}}]

Server == INSTANCE Dispatcher WITH
  registry   <- View,
  Catalogues <- [Lookups -> SUBSET Pools]

(* What Dispatcher assumes of its constants. *)
ASSUME ServerConstants ==
  Server!LabelSettings /\ Server!ServerSettings /\ Server!World /\ Server!TriesBound

SysInit == Init /\ Server!Init /\ unread = {}

-----------------------------------------------------------------------------
Discover ==
  /\ \/ \E w \in Worlds : Change(w)
     \/ \E x \in Executions : Start(x) \/ Prepare(x) \/ Fail(x)
  /\ UNCHANGED <<serving, unread>>

Refresh ==
  /\ \E x \in Executions : Publish(x)
  /\ Server!Publish(View')
  /\ UNCHANGED unread

(* The prefix a lookup asks for, and whether the registry holds pools.     *)
Asked(r)       == IF pc[r] = "orgLookup" THEN event[r].org ELSE DefaultPrefix
Holds(es, p, e) == \E x \in es : x.key \in Server!Keys(p, e)

LookUp(r) ==
  /\ UNCHANGED vars
  /\ \/ /\ \E p \in Pools : Server!FindOrgPool(r, p) \/ Server!FindDefaultPool(r, p)
        /\ UNCHANGED unread
     \/ /\ Server!FallBackToDefault(r) \/ Server!FallBackTo404(r)
        /\ unread' = IF Holds(registry, Asked(r), event[r])
                     THEN unread \cup {<<r, Asked(r)>>} ELSE unread

Serve(r) ==
  /\ UNCHANGED vars
  /\ Server!Deliver(r) \/ Server!StartRunner(r) \/ Server!HangUp(r) \/ Server!Kill(r)
  /\ UNCHANGED unread

SysNext == Discover \/ Refresh \/ \E r \in Requests : LookUp(r) \/ Serve(r)

SysSpec == SysInit /\ [][SysNext]_sysvars

-----------------------------------------------------------------------------
(* What is always due was published before the system is looked at. *)
ASSUME Founded == \A R \in Registries : Permanent \subseteq R

SysTypeOK ==
  /\ TypeOK /\ Server!TypeOK
  /\ unread \subseteq Requests \X (Orgs \cup {DefaultPrefix})

(* Nobody who has pools that are there all along is turned away: while     *)
(* executions of discovery overlap, fail and replace the registry, a job   *)
(* goes to the 404 runner although its organization, or the default, has   *)
(* such a pool only if the server could not read it; nowhere between DEL   *)
(* and SET, and in no partial listing, does a pool disappear.              *)
StableJobsAreServed ==
  \A r \in Requests : pool[r] = Pool404 /\ Server!CanHandle(event[r]) =>
    /\ Holds(Permanent, event[r].org, event[r]) => <<r, event[r].org>> \in unread
    /\ Holds(Permanent, DefaultPrefix, event[r]) /\ ~config.defaultDisabled =>
         <<r, DefaultPrefix>> \in unread

(* The folder is what it was when an execution read it, and the registry   *)
(* is that execution's.                                                    *)
UpToDate == \E x \in quiet : step[x] = "succeeded" /\ connected[x]

(* While the registry is up to date, a lookup finds exactly what the       *)
(* folder holds: it takes a pool of the folder that serves the job's key,  *)
(* and finds none only if there is none, or if it could not read.          *)
LookupsFollowFolder ==
  [][\A r \in Requests : UpToDate /\ pc[r] \in Server!Looking =>
       /\ pool'[r] \in Pools =>
            \E e \in Catalogue(world) :
              e.pool = pool'[r] /\ e.key \in Server!Keys(Asked(r), event[r])
       /\ pc'[r] \in {"defaultLookup", "jit"} /\ pool'[r] \notin Pools
            /\ <<r, Asked(r)>> \notin unread' /\ pc'[r] # pc[r] =>
            ~Holds(Catalogue(world), Asked(r), event[r])]_sysvars
=============================================================================
