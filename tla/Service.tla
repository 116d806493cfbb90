------------------------------ MODULE Service ------------------------------
(***************************************************************************)
(* The handlers of the webhook server at work in GitHub's market of jobs   *)
(* and runners: what Fleet says of GitHub and of runners, with Dispatcher  *)
(* in the place of the contract RunnerDelivery.  The two meet in the       *)
(* deliveries, which only arrive for jobs that exist, and in the builds,   *)
(* which are the runners that GitHub may give a job to.                    *)
(***************************************************************************)
EXTENDS Dispatcher

CONSTANTS
  Jobs, JobOf, ClassOf, NoRunner   \* as in Fleet

VARIABLES
  job, taker, gone                 \* as in Fleet

github      == <<job, taker, gone>>
servicevars == <<vars, github>>

(* What GitHub and the runners see of the handlers. *)
Market == INSTANCE Fleet WITH
  Extras   <- {c.extra : c \in Configs},
  sizes    <- {1, 1 + config.extra},
  stage    <- [r \in Requests |-> Stage(r)],
  started  <- [r \in Requests |-> Built(r)],
  promised <- [r \in Requests |-> Promised(r)]

ASSUME Trade == Market!Neighbours

ServiceInit ==
  /\ Init
  /\ job = [j \in Jobs |-> "unborn"]
  /\ taker = [j \in Jobs |-> NoRunner]
  /\ gone = {}

(* GitHub delivers an event about a job. *)
Arrive(r) ==
  /\ job[JobOf[r]] # "unborn"
  /\ Deliver(r)
  /\ UNCHANGED github

(* The handlers go on, and runner discovery publishes what they look up. *)
Work ==
  /\ \/ \E r \in Requests : Handle(r) \/ HangUp(r) \/ Kill(r)
     \/ \E cat \in Catalogues : Publish(cat)
  /\ UNCHANGED github

(* GitHub queues jobs, cancels them, and gives them to runners, which may  *)
(* end without one.                                                        *)
Trading ==
  /\ UNCHANGED vars
  /\ \/ \E j \in Jobs : Market!Queue(j) \/ Market!Cancel(j)
     \/ \E n \in Market!Alive : Market!EndUnused(n)
     \/ Market!Match

ServiceNext == Work \/ Trading \/ \E r \in Requests : Arrive(r)

ServiceSpec == ServiceInit /\ [][ServiceNext]_servicevars

-----------------------------------------------------------------------------
(* Types of the handlers and of the market. *)
ServiceTypeOK == TypeOK /\ Market!TypeOK

(* The handlers, GitHub and the runners together are the system that Fleet *)
(* describes, so that its promises (NoDeficit) are those of the code:      *)
(* whatever becomes of the calls of handleQueuedEvent, runners come in     *)
(* order, only for jobs that exist, and answers name the runners started.  *)
ImplementsFleet == Market!Spec
=============================================================================
