---------------------------- MODULE Fleet_proofs ----------------------------
(***************************************************************************)
(* Theorems about Fleet: types, and that EXTRA_RUNNER_COUNT covers for as  *)
(* many wasted runners as it starts, for any deliveries, jobs, classes and *)
(* settings.  The argument counts: the runners that answers have named are *)
(* alive, wasted, or with a served job that waits no more.                 *)
(***************************************************************************)
EXTENDS Fleet, FiniteSetTheorems, TLAPS

(* What an answer names was started, and is finite.                        *)
NamedInv ==
  \A r \in Requests : promised[r] \subseteq started[r] /\ IsFiniteSet(promised[r])

(* Answers are only there once the delivery has left the server's hands.   *)
StageInv ==
  \A r \in Requests : stage[r] \in {"waiting", "working"} => promised[r] = {}

(* A job that a runner has taken does not wait.                            *)
TakerInv ==
  \A j \in Jobs : taker[j] # NoRunner => job[j] = "started"

IInv == TypeOK /\ NamedInv /\ StageInv /\ TakerInv

-----------------------------------------------------------------------------
LEMMA InitEstablishes == Init => IInv
<1> SUFFICES ASSUME Init PROVE IInv
  OBVIOUS
<1> USE Neighbours DEF Init
<1>1. TypeOK
  <2>1. sizes \subseteq Nat
    <3>1. PICK extra \in Extras : sizes = {1, 1 + extra}
      OBVIOUS
    <3> QED
      BY <3>1
  <2> QED
    BY <2>1 DEF TypeOK
<1>2. NamedInv
  BY FS_EmptySet DEF NamedInv
<1>3. StageInv /\ TakerInv
  BY DEF StageInv, TakerInv
<1> QED
  BY <1>1, <1>2, <1>3 DEF IInv

(* Runners are started in the order of their numbers.                      *)
LEMMA StartsKeepsTypes ==
  ASSUME NEW r \in Requests, TypeOK, Delivery!Starts(r)
  PROVE  /\ started' \in [Requests -> SUBSET Nat]
         /\ \A q \in Requests : q # r => started'[q] = started[q]
         /\ started[r] \subseteq started'[r]
<1>1. CASE UNCHANGED started
  BY <1>1 DEF TypeOK
<1>2. CASE \E size \in sizes : \E n \in 0 .. size - 1 :
             /\ started[r] = 1 .. n
             /\ started' = [started EXCEPT ![r] = 1 .. n + 1]
  <2>1. PICK size \in sizes : \E n \in 0 .. size - 1 :
             /\ started[r] = 1 .. n
             /\ started' = [started EXCEPT ![r] = 1 .. n + 1]
    BY <1>2
  <2>2. size \in Nat
    BY DEF TypeOK
  <2>3. PICK n \in 0 .. size - 1 : /\ started[r] = 1 .. n
                                   /\ started' = [started EXCEPT ![r] = 1 .. n + 1]
    BY <2>1
  <2>4. n \in Nat /\ 1 .. n \subseteq 1 .. n + 1 /\ 1 .. n + 1 \subseteq Nat
    BY <2>2, <2>3
  <2> QED
    BY <2>3, <2>4 DEF TypeOK
<1> QED
  BY <1>1, <1>2 DEF Delivery!Starts

LEMMA ReceiveKeeps ==
  ASSUME NEW r \in Requests, IInv, Receive(r)
  PROVE  IInv'
<1> USE DEF IInv
<1>1. /\ UNCHANGED <<sizes, started, promised, job, taker, gone>>
      /\ stage[r] = "waiting"
      /\ \E s \in {"answered", "working"} : stage' = [stage EXCEPT ![r] = s]
  BY DEF Receive, Delivery!Receive, github
<1>2. TypeOK'
  BY <1>1 DEF TypeOK
<1>3. NamedInv' /\ TakerInv'
  BY <1>1 DEF NamedInv, TakerInv
<1>4. StageInv'
  BY <1>1 DEF StageInv, TypeOK
<1> QED
  BY <1>2, <1>3, <1>4

LEMMA ServeKeeps ==
  ASSUME NEW r \in Requests, IInv, Serve(r)
  PROVE  IInv'
<1> USE DEF IInv
<1>1. UNCHANGED <<sizes, job, taker, gone>>
  BY DEF Serve, github, Delivery!Start, Delivery!Finish, Delivery!Die
<1>2. CASE Delivery!Start(r)
  <2>1. UNCHANGED <<stage, promised>> /\ Delivery!Starts(r)
    BY <1>2 DEF Delivery!Start
  <2>2. TypeOK'
    BY <1>1, <2>1, StartsKeepsTypes DEF TypeOK
  <2>3. NamedInv'
    BY <2>1, StartsKeepsTypes DEF NamedInv
  <2>4. StageInv' /\ TakerInv'
    BY <1>1, <2>1 DEF StageInv, TakerInv
  <2> QED
    BY <2>2, <2>3, <2>4
<1>3. CASE Delivery!Finish(r)
  <2>1. /\ Delivery!Starts(r)
        /\ stage' = [stage EXCEPT ![r] = "answered"]
        /\ \/ UNCHANGED promised
           \/ /\ \E k \in sizes : started'[r] = 1 .. k
              /\ promised' = [promised EXCEPT ![r] = started'[r]]
    BY <1>3 DEF Delivery!Finish
  <2>2. started' \in [Requests -> SUBSET Nat]
    BY <2>1, StartsKeepsTypes
  <2>3. TypeOK'
    BY <1>1, <2>1, <2>2 DEF TypeOK
  <2>4. NamedInv'
    <3>1. CASE UNCHANGED promised
      BY <3>1, <2>1, StartsKeepsTypes DEF NamedInv
    <3>2. CASE /\ \E k \in sizes : started'[r] = 1 .. k
               /\ promised' = [promised EXCEPT ![r] = started'[r]]
      <4>1. PICK k \in sizes : started'[r] = 1 .. k
        BY <3>2
      <4>2. IsFiniteSet(1 .. k)
        BY FS_Interval DEF TypeOK
      <4>3. promised'[r] = started'[r] /\ IsFiniteSet(promised'[r])
        BY <3>2, <4>1, <4>2 DEF TypeOK
      <4>4. \A q \in Requests : q # r =>
              promised'[q] = promised[q] /\ started'[q] = started[q]
        BY <2>1, <3>2, StartsKeepsTypes DEF TypeOK
      <4> QED
        BY <4>3, <4>4 DEF NamedInv
    <3> QED
      BY <2>1, <3>1, <3>2
  <2>5. StageInv'
    BY <2>1 DEF StageInv, TypeOK
  <2>6. TakerInv'
    BY <1>1 DEF TakerInv
  <2> QED
    BY <2>3, <2>4, <2>5, <2>6
<1>4. CASE Delivery!Die(r)
  <2>1. UNCHANGED <<started, promised>> /\ stage' = [stage EXCEPT ![r] = "dead"]
    BY <1>4 DEF Delivery!Die
  <2>2. TypeOK'
    BY <1>1, <2>1 DEF TypeOK
  <2>3. NamedInv' /\ TakerInv' /\ StageInv'
    BY <1>1, <2>1 DEF NamedInv, TakerInv, StageInv, TypeOK
  <2> QED
    BY <2>2, <2>3
<1> QED
  BY <1>2, <1>3, <1>4 DEF Serve

LEMMA AliveIsTyped == TypeOK => Alive \subseteq Requests \X Nat
BY DEF TypeOK, Alive, Created

LEMMA NeighboursKeep ==
  ASSUME IInv,
         \/ \E j \in Jobs : Queue(j) \/ Cancel(j)
         \/ \E n \in Alive : EndUnused(n)
         \/ Match
  PROVE  IInv'
<1> USE DEF IInv
<1>1. UNCHANGED <<sizes, stage, started, promised>>
  BY DEF Queue, Cancel, EndUnused, Match, Assign, deliveries
<1>2. NamedInv' /\ StageInv'
  BY <1>1 DEF NamedInv, StageInv
<1>3. ASSUME NEW j \in Jobs, Queue(j) \/ Cancel(j)
      PROVE  TypeOK' /\ TakerInv'
  <2>1. /\ UNCHANGED <<taker, gone>>
        /\ job[j] \in {"unborn", "queued"}
        /\ \E s \in {"queued", "canceled"} : job' = [job EXCEPT ![j] = s]
    BY <1>3 DEF Queue, Cancel
  <2>2. TypeOK'
    BY <1>1, <2>1 DEF TypeOK
  <2>3. TakerInv'
    BY <2>1 DEF TakerInv, TypeOK
  <2> QED
    BY <2>2, <2>3
<1>4. ASSUME NEW n \in Alive, EndUnused(n)
      PROVE  TypeOK' /\ TakerInv'
  <2>1. UNCHANGED <<job, taker>> /\ gone' = gone \cup {n}
    BY <1>4 DEF EndUnused, github
  <2>2. TypeOK'
    BY <1>1, <2>1, AliveIsTyped DEF TypeOK
  <2> QED
    BY <2>1, <2>2 DEF TakerInv
<1>5. ASSUME NEW n \in Alive, NEW j \in Jobs, Assign(n, j)
      PROVE  TypeOK' /\ TakerInv'
  <2>1. /\ gone' = gone
        /\ job' = [job EXCEPT ![j] = "started"]
        /\ taker' = [taker EXCEPT ![j] = n]
    BY <1>5 DEF Assign
  <2>2. n \in Requests \X Nat
    BY AliveIsTyped
  <2>3. TypeOK'
    BY <1>1, <2>1, <2>2 DEF TypeOK
  <2>4. TakerInv'
    BY <2>1 DEF TakerInv, TypeOK
  <2> QED
    BY <2>3, <2>4
<1> QED
  BY <1>2, <1>3, <1>4, <1>5 DEF Match

LEMMA NextKeeps == IInv /\ [Next]_vars => IInv'
<1>1. IInv /\ UNCHANGED vars => IInv'
  BY DEF IInv, vars, deliveries, github, TypeOK, NamedInv, StageInv, TakerInv
<1> QED
  BY <1>1, ReceiveKeeps, ServeKeeps, NeighboursKeep DEF Next

THEOREM Invariance == Spec => []IInv
BY InitEstablishes, NextKeeps, PTL DEF Spec

(* The types of the deliveries, the jobs and the runners.                  *)
THEOREM TypeCorrect == Spec => []TypeOK
<1>1. IInv => TypeOK
  BY DEF IInv
<1> QED
  BY <1>1, Invariance, PTL

-----------------------------------------------------------------------------
(* The image of a finite set is no larger than the set.                    *)
LEMMA TakersAreFew ==
  ASSUME NEW S \in SUBSET Jobs, IsFiniteSet(S)
  PROVE  LET T == {taker[j] : j \in S}
         IN  IsFiniteSet(T) /\ Cardinality(T) <= Cardinality(S)
<1> DEFINE T == {taker[j] : j \in S}
           f == [j \in S |-> taker[j]]
<1>1. f \in Surjection(S, T)
  BY DEF Surjection
<1> QED
  BY <1>1, FS_Surjection

(* A union is no larger than its parts together.                           *)
LEMMA UnionIsBounded ==
  ASSUME NEW S, NEW T, IsFiniteSet(S), IsFiniteSet(T)
  PROVE  /\ IsFiniteSet(S \cup T)
         /\ Cardinality(S \cup T) <= Cardinality(S) + Cardinality(T)
<1>1. IsFiniteSet(S \cap T)
  BY FS_Intersection
<1>2. /\ Cardinality(S) \in Nat /\ Cardinality(T) \in Nat
      /\ Cardinality(S \cap T) \in Nat
  BY <1>1, FS_CardinalityType
<1>3. /\ IsFiniteSet(S \cup T)
      /\ Cardinality(S \cup T) = Cardinality(S) + Cardinality(T) - Cardinality(S \cap T)
  BY FS_Union
<1> QED
  BY <1>2, <1>3

LEMMA NamedIsFinite ==
  ASSUME IInv, NEW c
  PROVE  IsFiniteSet(Named(c))
<1> DEFINE R == {r \in Requests : Class(r) = c}
           F == {{r} \X promised[r] : r \in R}
           f == [r \in R |-> {r} \X promised[r]]
<1>1. IsFiniteSet(R)
  BY FS_Subset, Neighbours
<1>2. f \in Surjection(R, F)
  BY DEF Surjection
<1>3. IsFiniteSet(F)
  BY <1>1, <1>2, FS_Surjection
<1>4. \A A \in F : IsFiniteSet(A)
  <2> SUFFICES ASSUME NEW r \in R PROVE IsFiniteSet({r} \X promised[r])
    OBVIOUS
  <2>1. IsFiniteSet({r})
    BY FS_Singleton
  <2>2. IsFiniteSet(promised[r])
    BY DEF IInv, NamedInv
  <2> QED
    BY <2>1, <2>2, FS_Product
<1>5. IsFiniteSet(UNION F)
  BY <1>3, <1>4, FS_UNION
<1> QED
  BY <1>5 DEF Named

(* Where a named runner may be.                                            *)
LEMMA NamedAreAccountedFor ==
  ASSUME IInv, NEW c
  PROVE  Named(c) \subseteq Live(c) \cup Wasted(c)
                              \cup {taker[j] : j \in Served(c) \ Waiting(c)}
<1> SUFFICES ASSUME NEW n \in Named(c), n \notin Live(c), n \notin Wasted(c)
             PROVE  \E j \in Served(c) \ Waiting(c) : n = taker[j]
  OBVIOUS
<1>1. n \in Created
  BY DEF Named, Created, IInv, NamedInv
<1>2. n \in Used
  BY <1>1 DEF Live, Alive, Wasted
<1>3. PICK j \in Jobs : n = taker[j] /\ taker[j] # NoRunner
  BY <1>2 DEF Used
<1>4. j \in Served(c)
  BY <1>3 DEF Wasted, Strays
<1>5. job[j] # "queued"
  BY <1>3 DEF IInv, TakerInv
<1> QED
  BY <1>3, <1>4, <1>5 DEF Waiting

(* What EXTRA_RUNNER_COUNT is for: while no more runners of a class are    *)
(* wasted than answers named beyond one for each served job, every served  *)
(* job that waits has a runner alive, for any number of deliveries, jobs   *)
(* and extra runners.                                                      *)
THEOREM ExtraRunnersAvoidDeficit == Spec => []NoDeficit
<1>1. ASSUME IInv PROVE NoDeficit
  <2> SUFFICES ASSUME NEW c, ~Deficit(c)
               PROVE  Cardinality(Live(c)) >= Cardinality(Waiting(c))
    BY DEF NoDeficit
  <2> DEFINE S == Served(c)
             W == Waiting(c)
             N == Named(c)
             L == Live(c)
             D == Wasted(c)
             T == {taker[j] : j \in S \ W}
             G == {taker[j] : j \in Strays(c)}
  <2>1. IsFiniteSet(S) /\ S \subseteq Jobs /\ W \subseteq S
    BY FS_Subset, Neighbours DEF Served, Waiting
  <2>2. IsFiniteSet(W) /\ IsFiniteSet(S \ W) /\ S \ W \subseteq Jobs
    BY <2>1, FS_Subset
  <2>3. Cardinality(S \ W) = Cardinality(S) - Cardinality(W)
    <3>1. S \cap W = W
      BY <2>1
    <3> QED
      BY <2>1, <3>1, FS_Difference
  <2>4. IsFiniteSet(T) /\ Cardinality(T) <= Cardinality(S \ W)
    BY <2>2, TakersAreFew
  <2>5. IsFiniteSet(N) /\ IsFiniteSet(L) /\ IsFiniteSet(N \cap gone)
    BY <1>1, NamedIsFinite, FS_Subset, FS_Intersection DEF Live
  <2>6. IsFiniteSet(G)
    <3>1. IsFiniteSet(Strays(c)) /\ Strays(c) \subseteq Jobs
      BY FS_Subset, Neighbours DEF Strays
    <3> QED
      BY <3>1, TakersAreFew
  <2>7. IsFiniteSet(D)
    BY <2>5, <2>6, FS_Union DEF Wasted
  <2>8. IsFiniteSet(L \cup D) /\ IsFiniteSet((L \cup D) \cup T)
    BY <2>4, <2>5, <2>7, FS_Union
  <2>9. Cardinality(N) <= Cardinality((L \cup D) \cup T)
    BY <1>1, <2>8, NamedAreAccountedFor, FS_Subset
  <2>10. /\ Cardinality(L) \in Nat /\ Cardinality(D) \in Nat
         /\ Cardinality(T) \in Nat /\ Cardinality(N) \in Nat
         /\ Cardinality(S) \in Nat /\ Cardinality(W) \in Nat
         /\ Cardinality(L \cup D) \in Nat
    BY <2>1, <2>2, <2>4, <2>5, <2>7, <2>8, FS_CardinalityType
  <2>11. Cardinality(L \cup D) <= Cardinality(L) + Cardinality(D)
    BY <2>5, <2>7, UnionIsBounded
  <2>12. Cardinality((L \cup D) \cup T) <= Cardinality(L \cup D) + Cardinality(T)
    BY <2>4, <2>8, UnionIsBounded
  <2>13. Cardinality(D) <= Cardinality(N) - Cardinality(S)
    BY <2>10 DEF Deficit, Spare
  <2> HIDE DEF S, W, N, L, D, T
  <2>14. Cardinality((L \cup D) \cup T) \in Nat
    BY <2>8, FS_CardinalityType
  <2>15. Cardinality(W) <= Cardinality(L)
    BY <2>3, <2>4, <2>9, <2>10, <2>11, <2>12, <2>13, <2>14
  <2> QED
    BY <2>10, <2>15 DEF L, W
<1> QED
  BY <1>1, Invariance, PTL

-----------------------------------------------------------------------------
(* The deliveries of Fleet are those of the contract: GitHub only decides  *)
(* when they arrive.  (Service_proofs carries what is proved here over to  *)
(* the server's handlers: handleQueuedEvent.)                              *)
THEOREM FleetFollowsContract == Spec => Delivery!Spec
<1>1. Init => Delivery!Init
  <2> SUFFICES ASSUME Init PROVE sizes \in SUBSET Nat
    BY DEF Init, Delivery!Init
  <2> QED BY InitEstablishes DEF IInv, TypeOK
<1>2. [Next]_vars => [Delivery!Next]_(Delivery!vars)
  BY DEF Next, Receive, Serve, Queue, Cancel, EndUnused, Match, Assign, vars, deliveries,
         Delivery!Next, Delivery!vars
<1> QED
  BY <1>1, <1>2, PTL DEF Spec, Delivery!Spec

(* A job that waits and was served has a runner of its class to go to,     *)
(* unless its class has run out of spare runners: Assign's guard holds of  *)
(* it, whatever became of the runners started for it (EXTRA_RUNNER_COUNT). *)
CanStart(j) == job[j] = "queued" /\ \E n \in Alive : Class(n[1]) = ClassOf[j]

ServedJobsCanStart ==
  \A j \in Jobs : j \in Waiting(ClassOf[j]) => CanStart(j) \/ Deficit(ClassOf[j])

LEMMA WaitingIsFinite == ASSUME NEW c PROVE IsFiniteSet(Waiting(c))
BY FS_Subset, Neighbours DEF Served, Waiting

THEOREM RunnersAreThere == Spec => []ServedJobsCanStart
<1>1. ASSUME IInv, NoDeficit PROVE ServedJobsCanStart
  <2> SUFFICES ASSUME NEW j \in Jobs, j \in Waiting(ClassOf[j]), ~Deficit(ClassOf[j])
               PROVE  CanStart(j)
    BY DEF ServedJobsCanStart
  <2> DEFINE c == ClassOf[j]
  <2>1. IsFiniteSet(Waiting(c)) /\ IsFiniteSet(Live(c))
    BY <1>1, WaitingIsFinite, NamedIsFinite, FS_Subset, FS_Intersection DEF Live
  <2>2. Cardinality(Waiting(c)) # 0
    BY <2>1, FS_EmptySet
  <2>3. Cardinality(Live(c)) # 0
    <3>1. /\ Cardinality(Waiting(c)) \in Nat /\ Cardinality(Live(c)) \in Nat
      BY <2>1, FS_CardinalityType
    <3>2. Cardinality(Live(c)) >= Cardinality(Waiting(c))
      BY <1>1 DEF NoDeficit
    <3> QED
      BY <2>2, <3>1, <3>2
  <2>4. PICK n \in Live(c) : TRUE
    BY <2>1, <2>3, FS_EmptySet
  <2>5. n \in Alive /\ Class(n[1]) = c
    BY <2>4 DEF Live, Named
  <2> QED
    BY <2>5 DEF CanStart, Waiting
<1>2. IInv /\ NoDeficit => ServedJobsCanStart
  BY <1>1
<1> QED
  BY <1>2, Invariance, ExtraRunnersAvoidDeficit, PTL

(* And no runner is given a job in vain: each that takes one brings the    *)
(* number of jobs still to start down, which nothing raises.  So a job     *)
(* with runners to go to waits for finitely many others.                   *)
Unstarted == {j \in Jobs : job[j] \in {"unborn", "queued"}}

LEMMA FewerAreSmaller ==
  ASSUME NEW S, NEW T, IsFiniteSet(T), S \subseteq T
  PROVE  /\ Cardinality(S) <= Cardinality(T)
         /\ S # T => Cardinality(S) < Cardinality(T)
<1>1. IsFiniteSet(S) /\ Cardinality(S) <= Cardinality(T)
  BY FS_Subset
<1>2. Cardinality(S) \in Nat /\ Cardinality(T) \in Nat
  BY <1>1, FS_CardinalityType
<1>3. Cardinality(S) = Cardinality(T) => S = T
  BY FS_Subset
<1> QED
  BY <1>1, <1>2, <1>3

THEOREM JobsAreWorkedOff ==
  Spec => [][/\ Match => Cardinality(Unstarted') < Cardinality(Unstarted)
             /\ Cardinality(Unstarted') <= Cardinality(Unstarted)]_vars
<1>1. ASSUME IInv, [Next]_vars
      PROVE  /\ Unstarted' \subseteq Unstarted
             /\ Match => Unstarted' # Unstarted
  <2>1. CASE UNCHANGED job
    <3>1. ASSUME Match PROVE FALSE
      BY <1>1, <2>1, <3>1 DEF Match, Assign, IInv, TypeOK
    <3> QED
      BY <2>1, <3>1 DEF Unstarted
  <2>2. ASSUME NEW j \in Jobs, job[j] \in {"unborn", "queued"},
               NEW s \in {"queued", "canceled"}, job' = [job EXCEPT ![j] = s], ~Match
        PROVE  Unstarted' \subseteq Unstarted
    BY <1>1, <2>2 DEF Unstarted, IInv, TypeOK
  <2>3. ASSUME NEW n \in Alive, NEW j \in Jobs, Assign(n, j)
        PROVE  Unstarted' \subseteq Unstarted \ {j} /\ j \in Unstarted
    BY <1>1, <2>3 DEF Unstarted, Assign, IInv, TypeOK
  <2>4. CASE Match
    BY <2>3, <2>4 DEF Match
  <2>5. ASSUME NEW j \in Jobs, Queue(j) \/ Cancel(j), ~Match
        PROVE  Unstarted' \subseteq Unstarted
    BY <2>2, <2>5 DEF Queue, Cancel
  <2>6. CASE ~Match
    BY <1>1, <2>1, <2>5, <2>6 DEF Next, Receive, Serve, EndUnused, vars, github
  <2> QED
    BY <2>4, <2>6
<1>2. IsFiniteSet(Unstarted)
  BY FS_Subset, Neighbours DEF Unstarted
<1>3. IInv /\ [Next]_vars =>
        [/\ Match => Cardinality(Unstarted') < Cardinality(Unstarted)
         /\ Cardinality(Unstarted') <= Cardinality(Unstarted)]_vars
  BY <1>1, <1>2, FewerAreSmaller
<1> QED
  BY <1>3, Invariance, PTL DEF Spec
=============================================================================
