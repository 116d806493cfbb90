------------------------------- MODULE Fleet -------------------------------
(***************************************************************************)
(* The webhook server among its neighbours: GitHub queues jobs, delivers   *)
(* its events late, in any order, more than once or not at all, and gives  *)
(* a queued job to any idle runner of the repository that carries the      *)
(* job's label.  So the runner a delivery starts need not run the job of   *)
(* that delivery: deliveries and runners only balance by their numbers.    *)
(*                                                                         *)
(* The server is the contract of RunnerDelivery, which Dispatcher          *)
(* implements.  A runner is alive from the creation of its build, while it *)
(* boots and waits.  It holds a one-time configuration: it runs one job,   *)
(* or ends without one when its build fails or IDLE_TIMEOUT_SECONDS are    *)
(* over.                                                                   *)
(***************************************************************************)
EXTENDS Integers, FiniteSets

CONSTANTS
  Requests,   \* webhook deliveries, redeliveries included
  Jobs,       \* workflow jobs
  JobOf,      \* the job each delivery is about
  ClassOf,    \* its repository and the label it asks for
  Extras,     \* values of EXTRA_RUNNER_COUNT
  NoRunner    \* a job that no runner has taken

ASSUME Neighbours ==
  /\ IsFiniteSet(Requests) /\ IsFiniteSet(Jobs)
  /\ JobOf \in [Requests -> Jobs]
  /\ DOMAIN ClassOf = Jobs
  /\ Extras \subseteq Nat
  /\ NoRunner \notin Requests \X Nat

VARIABLES
  sizes, stage, started, promised,   \* the deliveries, as in RunnerDelivery
  job,     \* GitHub: "unborn", "queued", "started" or "canceled"
  taker,   \* GitHub: the runner that took each job
  gone     \* the runners that ended without one

deliveries == <<sizes, stage, started, promised>>
github     == <<job, taker>>
vars       == <<deliveries, github, gone>>

Delivery == INSTANCE RunnerDelivery

Class(r) == ClassOf[JobOf[r]]

(* Runner i of delivery r is the pair <<r, i>>. *)
Created == UNION {{r} \X started[r] : r \in Requests}
Used    == {taker[j] : j \in Jobs} \ {NoRunner}
Alive   == Created \ (Used \cup gone)

Init ==
  /\ sizes \in {{1, 1 + extra} : extra \in Extras}
  /\ stage = [r \in Requests |-> "waiting"]
  /\ started = [r \in Requests |-> {}]
  /\ promised = [r \in Requests |-> {}]
  /\ job = [j \in Jobs |-> "unborn"]
  /\ taker = [j \in Jobs |-> NoRunner]
  /\ gone = {}

(* The server: a delivery arrives once its job exists, in whatever state   *)
(* that is by then.                                                        *)
Receive(r) ==
  /\ job[JobOf[r]] # "unborn"
  /\ Delivery!Receive(r)
  /\ UNCHANGED <<github, gone>>

Serve(r) ==
  /\ Delivery!Start(r) \/ Delivery!Finish(r) \/ Delivery!Die(r)
  /\ UNCHANGED <<github, gone>>

-----------------------------------------------------------------------------
(* GitHub *)
Queue(j) ==
  /\ job[j] = "unborn"
  /\ job' = [job EXCEPT ![j] = "queued"]
  /\ UNCHANGED <<deliveries, taker, gone>>

Assign(n, j) ==
  /\ job[j] = "queued" /\ Class(n[1]) = ClassOf[j]
  /\ job' = [job EXCEPT ![j] = "started"]
  /\ taker' = [taker EXCEPT ![j] = n]
  /\ UNCHANGED <<deliveries, gone>>

Cancel(j) ==
  /\ job[j] = "queued"
  /\ job' = [job EXCEPT ![j] = "canceled"]
  /\ UNCHANGED <<deliveries, taker, gone>>

(* Cloud Build, or the runner itself *)
EndUnused(n) ==
  /\ gone' = gone \cup {n}
  /\ UNCHANGED <<deliveries, github>>

Match == \E n \in Alive, j \in Jobs : Assign(n, j)

Next ==
  \/ \E r \in Requests : Receive(r) \/ Serve(r)
  \/ \E j \in Jobs : Queue(j) \/ Cancel(j)
  \/ \E n \in Alive : EndUnused(n)
  \/ Match

Spec == Init /\ [][Next]_vars

(* A runner that stays alive boots, and GitHub gives it a job that waits   *)
(* for its like.  Nothing else need ever happen.                           *)
FairSpec == Spec /\ WF_vars(Match)

-----------------------------------------------------------------------------
TypeOK ==
  /\ sizes \subseteq Nat
  /\ stage \in [Requests -> {"waiting", "working", "answered", "dead"}]
  /\ started \in [Requests -> SUBSET Nat]
  /\ promised \in [Requests -> SUBSET Nat]
  /\ job \in [Jobs -> {"unborn", "queued", "started", "canceled"}]
  /\ taker \in [Jobs -> (Requests \X Nat) \cup {NoRunner}]
  /\ gone \subseteq Requests \X Nat

(* The jobs of a class that a successful answer spoke of, and the runners  *)
(* such answers named.                                                     *)
Served(c) == {JobOf[r] : r \in {r \in Requests : Class(r) = c /\ promised[r] # {}}}
Named(c)  == UNION {{r} \X promised[r] : r \in {r \in Requests : Class(r) = c}}

Waiting(c) == {j \in Served(c) : job[j] = "queued"}
Live(c)    == Named(c) \cap Alive

(* The runners of a class that its served jobs cannot count on: those that *)
(* ended without a job, and those taken by a job whose own delivery        *)
(* failed, or is still to come.                                            *)
Strays(c) == {j \in Jobs \ Served(c) : taker[j] \in Named(c)}
Wasted(c) == (Named(c) \cap gone) \cup {taker[j] : j \in Strays(c)}

Spare(c)   == Cardinality(Named(c)) - Cardinality(Served(c))
Deficit(c) == Cardinality(Wasted(c)) > Spare(c)

(* EXTRA_RUNNER_COUNT, "used to create excess runners to avoid runner      *)
(* deficit": while no more runners are wasted than answers have named      *)
(* beyond one for each job, every waiting job that was served has a runner *)
(* alive, whichever jobs the runners went to, however often deliveries     *)
(* were repeated and wherever they failed.                                 *)
NoDeficit ==
  \A c \in {ClassOf[j] : j \in Jobs} :
    ~Deficit(c) => Cardinality(Live(c)) >= Cardinality(Waiting(c))

(* A job that was served starts, or is canceled, or its class runs out of  *)
(* spare runners.                                                          *)
ServedJobsStart ==
  \A j \in Jobs :
    j \in Waiting(ClassOf[j]) ~> job[j] # "queued" \/ Deficit(ClassOf[j])
=============================================================================
