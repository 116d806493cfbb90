--------------------------- MODULE Service_proofs ---------------------------
(***************************************************************************)
(* The webhook server among its neighbours, for any number of deliveries,  *)
(* jobs and runners: handlers and GitHub together are the system Fleet     *)
(* describes, so that what is proved of Fleet holds of the code.           *)
(***************************************************************************)
EXTENDS Service, Placement_proofs

(* Next to GitHub, handlers behave as they do alone. *)
LEMMA StepOfHandlers == [ServiceNext]_servicevars => [Next]_vars
BY DEF ServiceNext, servicevars, Work, Trading, Arrive, Next, Serve

THEOREM ServiceImplementsDispatcher == ServiceSpec => Spec
BY StepOfHandlers, PTL DEF ServiceSpec, ServiceInit, Spec

-----------------------------------------------------------------------------
(* Only the arrival of a delivery ends its waiting. *)
LEMMA WorkersHaveArrived ==
  ASSUME NEW r \in Requests, NEW q \in Requests, pc[q] = "waiting",
         TypeOK, Handle(r) \/ HangUp(r) \/ Kill(r)
  PROVE  pc'[q] = "waiting"
<1>1. /\ pc[r] # "waiting"
      /\ pc' = pc \/ \E s \in Steps : pc' = [pc EXCEPT ![r] = s]
  BY DEF Handle, LookUp, FindOrgPool, FindDefaultPool, FindPool, FallBackToDefault,
         FallBackTo404, StartOn, StartRunner, Register, RegisterUnanswered, RegisterRefused,
         NoInstallation, Build, BuildUnanswered, BuildUnreadable, BuildRefused, GiveUp,
         RetryOrFail, Fail, Respond, Goto, HangUp, Kill, Working, Looking, Steps, handlers
<1>2. ASSUME NEW s, pc' = [pc EXCEPT ![r] = s] PROVE pc'[q] = "waiting"
  BY <1>1, <1>2 DEF TypeOK
<1> QED BY <1>1, <1>2

(* What a step of the handlers is to GitHub. *)
LEMMA HandlersServe ==
  ASSUME [Contract!Next]_(Contract!vars),
         \A r \in Requests : Contract!Receive(r) => job[JobOf[r]] # "unborn",
         UNCHANGED github
  PROVE  [Market!Next]_(Market!vars)
<1>1. ASSUME NEW r \in Requests, Contract!Receive(r)
      PROVE  Market!Receive(r)
  BY <1>1 DEF Contract!Receive, Market!Receive, Market!Delivery!Receive, github,
              Market!github
<1>2. ASSUME NEW r \in Requests, Contract!Start(r) \/ Contract!Finish(r) \/ Contract!Die(r)
      PROVE  Market!Serve(r)
  BY <1>2 DEF Contract!Start, Contract!Finish, Contract!Die, Contract!Starts, Market!Serve,
              Market!Delivery!Start, Market!Delivery!Finish, Market!Delivery!Die,
              Market!Delivery!Starts, github, Market!github
<1>3. CASE UNCHANGED Contract!vars
  BY <1>3 DEF Contract!vars, Market!vars, Market!deliveries, Market!github, github
<1> QED BY <1>1, <1>2, <1>3 DEF Contract!Next, Market!Next

LEMMA HandlersTrade ==
  ASSUME IInv, IInv', [ServiceNext]_servicevars
  PROVE  [Market!Next]_(Market!vars)
<1>1. CASE Trading
  BY <1>1 DEF Trading, Market!Next
<1>2. ASSUME NEW r \in Requests, Arrive(r)
      PROVE  [Market!Next]_(Market!vars)
  <2>1. [Contract!Next]_(Contract!vars)
    BY <1>2, StepOfHandlers, NextContract DEF ServiceNext
  <2>2. job[JobOf[r]] # "unborn" /\ UNCHANGED github
    BY <1>2 DEF Arrive
  <2>3. ASSUME NEW q \in Requests, Contract!Receive(q)
        PROVE  q = r
    <3>1. Stage(q) = "waiting" /\ Stage(q)' # "waiting"
      BY <2>3 DEF Contract!Receive
    <3>2. pc'[q] # pc[q]
      BY <3>1 DEF Stage
    <3> QED BY <1>2, <3>2 DEF Arrive, Deliver, Decline, Reject, Accept, Respond, Goto,
                            IInv, TInv, TypeOK
  <2> QED BY <2>1, <2>2, <2>3, HandlersServe
<1>3. CASE Work \/ UNCHANGED servicevars
  <2>1. [Contract!Next]_(Contract!vars)
    BY <1>3, StepOfHandlers, NextContract
  <2>2. UNCHANGED github
    BY <1>3 DEF Work, servicevars
  <2>3. ASSUME NEW q \in Requests, Contract!Receive(q)
        PROVE  FALSE
    <3>1. Stage(q) = "waiting" /\ Stage(q)' # "waiting"
      BY <2>3 DEF Contract!Receive
    <3>2. pc[q] = "waiting" /\ pc'[q] # "waiting"
      BY <3>1 DEF Stage
    <3> QED BY <1>3, <3>2, WorkersHaveArrived
            DEF Work, Publish, servicevars, vars, handlers, IInv, TInv
  <2> QED BY <2>1, <2>2, <2>3, HandlersServe
<1> QED BY <1>1, <1>2, <1>3 DEF ServiceNext

LEMMA ServiceOpens == ServiceInit => Market!Init
<1> SUFFICES ASSUME ServiceInit PROVE Market!Init
  OBVIOUS
<1>1. Contract!Init
  BY InitContract DEF ServiceInit
<1>2. config.extra \in {c.extra : c \in Configs}
  BY DEF ServiceInit, Init
<1> QED BY <1>1, <1>2 DEF Contract!Init, Market!Init, ServiceInit

(* The handlers of handleQueuedEvent, in GitHub's hands, are what Fleet    *)
(* takes them for.                                                         *)
THEOREM ServiceImplementsFleet == ServiceSpec => ImplementsFleet
<1>1. ServiceSpec => []IInv
  BY ServiceImplementsDispatcher, SpecIInv, PTL
<1> QED BY <1>1, ServiceOpens, HandlersTrade, PTL
        DEF ServiceSpec, ImplementsFleet, Market!Spec

-----------------------------------------------------------------------------
Counted == INSTANCE Fleet_proofs WITH
  Extras   <- {c.extra : c \in Configs},
  sizes    <- {1, 1 + config.extra},
  stage    <- [r \in Requests |-> Stage(r)],
  started  <- [r \in Requests |-> Built(r)],
  promised <- [r \in Requests |-> Promised(r)]

LEMMA CountedConstants == Counted!Neighbours
BY Trade, Zenon DEF Trade, Market!Neighbours, Counted!Neighbours,
   Market!IsFiniteSet, Counted!IsFiniteSet

(* The two instances of Fleet are one.                                     *)
LEMMA SameMarket ==
  /\ Market!Init <=> Counted!Init
  /\ [Market!Next]_(Market!vars) <=> [Counted!Next]_(Counted!vars)
  /\ Market!TypeOK <=> Counted!TypeOK
  /\ Market!NoDeficit <=> Counted!NoDeficit
BY Zenon DEF Market!Cardinality, Counted!Cardinality, Market!TypeOK,
             Counted!TypeOK, Market!deliveries, Market!github, Market!vars, Market!Class,
             Market!Created, Market!Used, Market!Alive, Market!Init,
             Market!Receive, Market!Serve, Market!Queue, Market!Assign,
             Market!Cancel, Market!EndUnused, Market!Match, Market!Next,
             Market!Served, Market!Named, Market!Waiting, Market!Live,
             Market!Strays, Market!Wasted, Market!Spare, Market!Deficit,
             Market!NoDeficit, Counted!deliveries, Counted!github, Counted!vars,
             Counted!Class, Counted!Created, Counted!Used, Counted!Alive,
             Counted!Init, Counted!Receive, Counted!Serve, Counted!Queue,
             Counted!Assign, Counted!Cancel, Counted!EndUnused, Counted!Match,
             Counted!Next, Counted!Served, Counted!Named, Counted!Waiting,
             Counted!Live, Counted!Strays, Counted!Wasted, Counted!Spare,
             Counted!Deficit, Counted!NoDeficit, Market!Delivery!Receive,
             Market!Delivery!Starts, Market!Delivery!Start, Market!Delivery!Finish,
             Market!Delivery!Die, Counted!Delivery!Receive,
             Counted!Delivery!Starts, Counted!Delivery!Start,
             Counted!Delivery!Finish, Counted!Delivery!Die

LEMMA ServiceTrades == ServiceSpec => Counted!Spec
BY ServiceImplementsFleet, SameMarket, PTL
   DEF ImplementsFleet, Market!Spec, Counted!Spec

(* What EXTRA_RUNNER_COUNT is for, of the code: while no more runners of a *)
(* class end without a job that was served than answers have named beyond  *)
(* one for each, every served job that waits has a runner alive (the loop  *)
(* of startRunnersForJob, its retries, and whatever interrupts it).        *)
THEOREM HandlersAvoidDeficit == ServiceSpec => []Market!NoDeficit
<1>1. Counted!Spec => []Counted!NoDeficit
  BY CountedConstants, Counted!ExtraRunnersAvoidDeficit DEF Counted!ExtraRunnersAvoidDeficit
<1> QED BY <1>1, ServiceTrades, SameMarket, PTL

(* And each such job can be given to a runner, its class not being out of  *)
(* spare ones.                                                             *)
THEOREM HandlersServeJobs == ServiceSpec => []Counted!ServedJobsCanStart
<1>1. Counted!Spec => []Counted!ServedJobsCanStart
  BY CountedConstants, Counted!RunnersAreThere DEF Counted!RunnersAreThere
<1> QED BY <1>1, ServiceTrades, PTL

(* Types of the handlers and of the market. *)
THEOREM ServiceTypeCorrect == ServiceSpec => []ServiceTypeOK
<1>1. Counted!Spec => []Counted!TypeOK
  BY CountedConstants, Counted!TypeCorrect DEF Counted!TypeCorrect
<1> QED BY <1>1, ServiceTrades, SameMarket, ServiceImplementsDispatcher, TypeCorrect, PTL
        DEF ServiceTypeOK

(* Among its neighbours, too, a build runs where the registry or the       *)
(* settings justify it, and only for jobs that are eligible.               *)
THEOREM ServicePlacements ==
  ServiceSpec => []PlacementIsJustified /\ []RunnersOnlyForEligibleJobs
BY ServiceImplementsDispatcher, PlacementsAreJustified, OnlyEligibleJobs, PTL
=============================================================================
