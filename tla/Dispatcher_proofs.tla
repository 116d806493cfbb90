------------------------- MODULE Dispatcher_proofs -------------------------
(***************************************************************************)
(* What holds of the webhook server for any number of deliveries, runners, *)
(* retries, pools and labels.                                              *)
(***************************************************************************)
EXTENDS Dispatcher, FiniteSetTheorems, TLAPS

(* Only a delivery that has arrived is worked on, and only on a pool. *)
HandlerInv ==
  \A r \in Requests :
    /\ pc[r] \in Working => event[r] \in Events
    /\ pc[r] \in {"jit", "build"} => pool[r] \in Pools \cup {Pool404}

TInv == TypeOK /\ HandlerInv

(***************************************************************************)
(* What the loop of startRunnersForJob has established, at any point of    *)
(* any delivery.  Everything before the current runner is registered and   *)
(* built; nothing after it is; and the current runner is in a state that   *)
(* its step, or a lost answer, accounts for.                               *)
(***************************************************************************)
HasBuild(r, i) == \E b \in builds : b.req = r /\ b.runner = i

(* Runners up to the current one, and what precedes what. *)
OrderInv(r) ==
  /\ runner[r] >= 1
  /\ \A i \in Nat : <<r, i>> \in registered => i \in 1 .. runner[r]
  /\ \A i \in 1 .. runner[r] - 1 : <<r, i>> \in registered /\ HasBuild(r, i)
  /\ \A b \in builds : b.req = r =>
       <<r, b.runner>> \in registered /\ <<r, b.runner, "jit">> \notin lost
  /\ pc[r] \in {"waiting"} \cup Looking =>
       runner[r] = 1 /\ <<r, 1>> \notin registered
  /\ pc[r] \in {"jit", "build"} => runner[r] <= Wanted(r)

(* Calls carried out whose answers were lost. *)
LossInv(r) ==
  /\ \A i \in Nat : <<r, i, "jit">> \in lost =>
       /\ i = runner[r] /\ pc[r] \in {"jit", "answered", "dead"}
       /\ <<r, i>> \in registered
  /\ pc[r] = "jit" =>
       /\ ~HasBuild(r, runner[r])
       /\ <<r, runner[r]>> \in registered => <<r, runner[r], "jit">> \in lost
  /\ pc[r] = "build" => <<r, runner[r]>> \in registered
  /\ HasBuild(r, runner[r]) /\ Promised(r) = {} => <<r, runner[r], "build">> \in lost
  /\ \A b, c \in builds :
       b.req = r /\ c.req = r /\ b.runner = c.runner /\ b # c =>
         <<r, b.runner, "build">> \in lost

(* The answer. *)
PromiseInv(r) ==
  /\ Promised(r) # {} =>
       /\ pc[r] = "answered" /\ HasBuild(r, runner[r])
       /\ Promised(r) = 1 .. runner[r]
       /\ runner[r] = IF pool[r] = Pool404 THEN 1 ELSE 1 + config.extra

RInv(r) == OrderInv(r) /\ LossInv(r) /\ PromiseInv(r)

IInv == TInv /\ \A r \in Requests : RInv(r)

-----------------------------------------------------------------------------
LEMMA VerdictIsCode ==
  ASSUME NEW e, Verdict(e) # Continue
  PROVE  Verdict(e) \in {200, 400, 500}
BY DEF Verdict, Continue

LEMMA PoolsForType ==
  ASSUME NEW cat, NEW e \in Events
  PROVE  PoolsFor(cat, e) \subseteq Prefixes \X Pools
BY World DEF PoolsFor, Prefixes, EventType

LEMMA GapsType ==
  ASSUME NEW cat, NEW e \in Events
  PROVE  Gaps(cat, e) \subseteq Prefixes
BY World DEF Gaps, Prefixes, EventType

LEMMA RespondType ==
  ASSUME TypeOK, NEW r \in Requests, NEW a \in Replies, Respond(r, a)
  PROVE  /\ pc' \in [Requests -> Steps]
         /\ reply' \in [Requests -> Replies \cup {NoReply}]
BY DEF TypeOK, Respond, Steps

LEMMA GotoType ==
  ASSUME TypeOK, NEW r \in Requests, NEW s \in Steps, Goto(r, s)
  PROVE  /\ pc' \in [Requests -> Steps]
         /\ reply' \in [Requests -> Replies \cup {NoReply}]
BY DEF TypeOK, Goto

LEMMA FailType ==
  ASSUME TypeOK, NEW r \in Requests, Fail(r)
  PROVE  /\ pc' \in [Requests -> Steps]
         /\ reply' \in [Requests -> Replies \cup {NoReply}]
         /\ pc' = [pc EXCEPT ![r] = "answered"]
<1>1. Answer(500, {}) \in Replies
  BY DEF Answer, Replies
<1> QED BY <1>1, RespondType DEF Fail, Respond

LEMMA RetryOrFailType ==
  ASSUME TypeOK, NEW r \in Requests, RetryOrFail(r)
  PROVE  /\ pc' \in [Requests -> Steps]
         /\ reply' \in [Requests -> Replies \cup {NoReply}]
         /\ retries' \in [Requests -> Nat]
         /\ pc' = pc \/ pc' = [pc EXCEPT ![r] = "answered"]
<1>1. CASE Fail(r) /\ UNCHANGED retries
  BY <1>1, FailType DEF TypeOK
<1>2. CASE /\ retries' = [retries EXCEPT ![r] = IF Limited \/ @ < MaxTries THEN @ + 1 ELSE @]
           /\ UNCHANGED <<pc, reply>>
  BY <1>2 DEF TypeOK
<1> QED BY <1>1, <1>2 DEF RetryOrFail

LEMMA InitTInv == Init => TInv
BY World DEF Init, TInv, TypeOK, HandlerInv, Steps, Working, Looking

LEMMA NextTInv == TInv /\ [Next]_vars => TInv'
<1> SUFFICES ASSUME TInv, [Next]_vars PROVE TInv'
  OBVIOUS
<1> USE DEF TInv
<1>1. ASSUME NEW r \in Requests, NEW e \in Events, Decline(r, e)
      PROVE  TInv'
  <2>1. Answer(Verdict(e), {}) \in Replies
    BY <1>1, VerdictIsCode DEF Decline, Answer, Replies
  <2>2. /\ pc' \in [Requests -> Steps]
        /\ reply' \in [Requests -> Replies \cup {NoReply}]
    BY <1>1, <2>1, RespondType DEF Decline
  <2> QED
    BY <1>1, <2>2 DEF Decline, Respond, TypeOK, HandlerInv, Working, Looking,
                      clouds, history
<1>2. ASSUME NEW r \in Requests, NEW e \in Events, Reject(r, e)
      PROVE  TInv'
  BY <1>2 DEF Reject, Goto, TypeOK, HandlerInv, Working, Looking, Steps, clouds, history
<1>3. ASSUME NEW r \in Requests, NEW e \in Events, Accept(r, e)
      PROVE  TInv'
  BY <1>3, PoolsForType, GapsType
     DEF Accept, Goto, TypeOK, HandlerInv, Working, Looking, Steps, clouds
<1>4. ASSUME NEW r \in Requests, NEW p \in Pools, FindOrgPool(r, p)
      PROVE  TInv'
  BY <1>4 DEF FindOrgPool, FindPool, StartOn, Goto, TypeOK, HandlerInv, Working,
              Looking, Steps, clouds, history
<1>5. ASSUME NEW r \in Requests, NEW p \in Pools, FindDefaultPool(r, p)
      PROVE  TInv'
  BY <1>5 DEF FindDefaultPool, FindPool, StartOn, Goto, TypeOK, HandlerInv, Working,
              Looking, Steps, clouds, history
<1>6. ASSUME NEW r \in Requests, NEW prefix \in Prefixes, MissPool(r, prefix)
      PROVE  /\ missed' \in [Requests -> SUBSET Prefixes]
             /\ UNCHANGED <<config, registry, canceled, clouds, offered, lost>>
  BY <1>6 DEF MissPool, TypeOK
<1>7. ASSUME NEW r \in Requests, pc[r] \in Looking
      PROVE  event[r].org \in Prefixes /\ DefaultPrefix \in Prefixes
  BY <1>7, World DEF HandlerInv, Working, EventType, Prefixes
<1>8. ASSUME NEW r \in Requests, FallBackToDefault(r)
      PROVE  TInv'
  <2>1. /\ missed' \in [Requests -> SUBSET Prefixes]
        /\ UNCHANGED <<config, registry, canceled, clouds, offered, lost>>
    BY <1>8, <1>6, <1>7 DEF FallBackToDefault, Looking
  <2> QED
    BY <1>8, <2>1 DEF FallBackToDefault, Goto, TypeOK, HandlerInv, Working,
                      Looking, Steps, clouds
<1>9. ASSUME NEW r \in Requests, FallBackTo404(r)
      PROVE  TInv'
  <2>1. /\ missed' \in [Requests -> SUBSET Prefixes]
        /\ UNCHANGED <<config, registry, canceled, clouds, offered, lost>>
    BY <1>9, <1>6, <1>7 DEF FallBackTo404, Looking
  <2> QED
    BY <1>9, <2>1 DEF FallBackTo404, StartOn, Goto, TypeOK, HandlerInv, Working,
                      Looking, Steps, clouds
<1>10. ASSUME NEW r \in Requests, Register(r)
       PROVE  TInv'
  BY <1>10 DEF Register, Issue, Name, Goto, TypeOK, HandlerInv, Working, Looking,
               Steps, history
<1>11. ASSUME NEW r \in Requests, RegisterUnanswered(r)
       PROVE  TInv'
  BY <1>11, RetryOrFailType
     DEF RegisterUnanswered, Issue, Name, TypeOK, HandlerInv, Working, Looking, Steps
<1>12. ASSUME NEW r \in Requests, RegisterRefused(r)
       PROVE  TInv'
  BY <1>12, RetryOrFailType
     DEF RegisterRefused, TypeOK, HandlerInv, Working, Looking, Steps, clouds, history
<1>13. ASSUME NEW r \in Requests, NoInstallation(r)
       PROVE  TInv'
  BY <1>13, FailType
     DEF NoInstallation, TypeOK, HandlerInv, Working, Looking, Steps, clouds, history
<1>14. ASSUME NEW r \in Requests, pc[r] = "build", Create(r)
       PROVE  builds' \in SUBSET [req: Requests, runner: Nat, try: Nat,
                                  pool: Pools \cup {Pool404}]
  BY <1>14 DEF Create, TypeOK, HandlerInv
<1>15. ASSUME NEW r \in Requests, Build(r)
       PROVE  TInv'
  <2>1. builds' \in SUBSET [req: Requests, runner: Nat, try: Nat,
                            pool: Pools \cup {Pool404}]
    BY <1>14, <1>15 DEF Build
  <2>2. CASE Goto(r, "jit") /\ runner' = [runner EXCEPT ![r] = @ + 1]
    BY <1>15, <2>1, <2>2
       DEF Build, Goto, TypeOK, HandlerInv, Working, Looking, Steps, history
  <2>3. CASE Respond(r, Answer(200, 1 .. runner[r])) /\ UNCHANGED runner
    <3>1. Answer(200, 1 .. runner[r]) \in Replies
      BY DEF Answer, Replies, TypeOK
    <3> QED
      BY <1>15, <2>1, <2>3, <3>1, RespondType
         DEF Build, Respond, TypeOK, HandlerInv, Working, Looking, Steps, history
  <2> QED BY <1>15, <2>2, <2>3 DEF Build
<1>16. ASSUME NEW r \in Requests, BuildUnanswered(r)
       PROVE  TInv'
  BY <1>14, <1>16, RetryOrFailType
     DEF BuildUnanswered, TypeOK, HandlerInv, Working, Looking, Steps
<1>17. ASSUME NEW r \in Requests, BuildUnreadable(r)
       PROVE  TInv'
  BY <1>14, <1>17, FailType
     DEF BuildUnreadable, TypeOK, HandlerInv, Working, Looking, Steps
<1>18. ASSUME NEW r \in Requests, BuildRefused(r)
       PROVE  TInv'
  BY <1>18, RetryOrFailType
     DEF BuildRefused, TypeOK, HandlerInv, Working, Looking, Steps, clouds, history
<1>19. ASSUME NEW r \in Requests, GiveUp(r)
       PROVE  TInv'
  BY <1>19, FailType
     DEF GiveUp, TypeOK, HandlerInv, Working, Looking, Steps, clouds, history
<1>20. ASSUME NEW r \in Requests, HangUp(r)
       PROVE  TInv'
  BY <1>20 DEF HangUp, TypeOK, HandlerInv, handlers, clouds, history
<1>21. ASSUME NEW r \in Requests, Kill(r)
       PROVE  TInv'
  BY <1>21 DEF Kill, TypeOK, HandlerInv, Working, Looking, Steps, clouds, history
<1>22. ASSUME NEW cat \in Catalogues, Publish(cat)
       PROVE  TInv'
  <2>1. \A r \in Requests : pc[r] \in Looking => event[r] \in Events
    BY DEF HandlerInv, Working
  <2>2. \A r \in Requests : pc[r] \in Looking =>
          /\ PoolsFor(cat, event[r]) \subseteq Prefixes \X Pools
          /\ Gaps(cat, event[r]) \subseteq Prefixes
    BY <2>1, PoolsForType, GapsType
  <2>3. offered' \in [Requests -> SUBSET (Prefixes \X Pools)]
    BY <1>22, <2>2 DEF Publish, TypeOK
  <2>4. missed' \in [Requests -> SUBSET Prefixes]
    BY <1>22, <2>2 DEF Publish, TypeOK
  <2> QED
    BY <1>22, <2>3, <2>4, World DEF Publish, TypeOK, HandlerInv, handlers, clouds
<1>23. CASE UNCHANGED vars
  BY <1>23 DEF vars, TypeOK, HandlerInv, handlers, clouds, history
<1> QED
  BY <1>1, <1>2, <1>3, <1>4, <1>5, <1>8, <1>9, <1>10, <1>11, <1>12, <1>13, <1>15,
     <1>16, <1>17, <1>18, <1>19, <1>20, <1>21, <1>22, <1>23
     DEF Next, Serve, Deliver, Handle, LookUp, StartRunner

(* Type correctness of the server, GitHub and Cloud Build as it uses them. *)
THEOREM TypeCorrect == Spec => []TypeOK
<1>1. Spec => []TInv
  BY InitTInv, NextTInv, PTL DEF Spec
<1> QED BY <1>1, PTL DEF TInv
-----------------------------------------------------------------------------
(* A step that leaves a delivery's own state alone keeps its invariant. *)
Untouched(q) ==
  /\ UNCHANGED <<pc[q], pool[q], runner[q], reply[q], config>>
  /\ \A i \in Nat : <<q, i>> \in registered' <=> <<q, i>> \in registered
  /\ \A b : b.req = q => (b \in builds' <=> b \in builds)
  /\ \A i \in Nat, s \in {"jit", "build"} : <<q, i, s>> \in lost' <=> <<q, i, s>> \in lost

LEMMA UntouchedRInv ==
  ASSUME TypeOK, TypeOK', NEW q \in Requests, RInv(q), Untouched(q)
  PROVE  RInv(q)'
<1>1. \A i \in Nat : HasBuild(q, i)' <=> HasBuild(q, i)
  BY DEF HasBuild, Untouched
<1>2. Promised(q)' = Promised(q) /\ Wanted(q)' = Wanted(q)
  BY DEF Promised, Wanted, Untouched
<1>3. runner[q] \in Nat /\ \A b \in builds \cup builds' : b.runner \in Nat
  BY DEF TypeOK
<1>4. OrderInv(q)'
  <2> USE DEF RInv, OrderInv, Untouched
  <2>1. \A i \in 1 .. runner'[q] - 1 : <<q, i>> \in registered' /\ HasBuild(q, i)'
    BY <1>1, <1>3
  <2>2. \A b \in builds' : b.req = q =>
          <<q, b.runner>> \in registered' /\ <<q, b.runner, "jit">> \notin lost'
    BY <1>3
  <2>3. pc'[q] \in {"waiting"} \cup Looking =>
          runner'[q] = 1 /\ <<q, 1>> \notin registered'
    BY <1>3
  <2> QED BY <1>2, <1>3, <2>1, <2>2, <2>3
<1>5. LossInv(q)'
  BY <1>1, <1>2, <1>3 DEF RInv, LossInv, Untouched
<1>6. PromiseInv(q)'
  BY <1>1, <1>2, <1>3 DEF RInv, PromiseInv, Untouched
<1> QED BY <1>4, <1>5, <1>6 DEF RInv

LEMMA InitRInv == Init => \A r \in Requests : RInv(r)
BY DEF Init, RInv, OrderInv, LossInv, PromiseInv, HasBuild, Promised, Looking
-----------------------------------------------------------------------------
(* The step a delivery takes itself.  First those that carry out no call:  *)
(* the handler looks up, falls back, has an attempt refused, fails, gives  *)
(* up or is killed.                                                        *)
Stays(r) == UNCHANGED <<config, clouds, lost, runner>>

Stops(r) == pc'[r] \in {"answered", "dead"} /\ pool'[r] = pool[r] /\ Promised(r)' = {}

LEMMA StopRInv ==
  ASSUME TypeOK, TypeOK', NEW r \in Requests, RInv(r), Stays(r), Stops(r),
         pc[r] # "answered"
  PROVE  RInv(r)'
<1> USE DEF Stays, Stops, clouds
<1>1. \A i \in Nat : HasBuild(r, i)' <=> HasBuild(r, i)
  BY DEF HasBuild
<1>2. Promised(r) = {} /\ Promised(r)' = {}
  BY DEF RInv, PromiseInv
<1>3. runner[r] \in Nat /\ \A b \in builds : b.runner \in Nat
  BY DEF TypeOK
<1>4. OrderInv(r)'
  <2>1. \A i \in 1 .. runner'[r] - 1 : <<r, i>> \in registered' /\ HasBuild(r, i)'
    BY <1>1, <1>3 DEF RInv, OrderInv
  <2> QED BY <1>3, <2>1 DEF RInv, OrderInv, Looking
<1>5. LossInv(r)'
  BY <1>1, <1>2, <1>3 DEF RInv, LossInv, OrderInv
<1>6. PromiseInv(r)'
  BY <1>2 DEF PromiseInv
<1> QED BY <1>4, <1>5, <1>6 DEF RInv
(* A delivery is received, or its lookup goes on or ends. *)
LEMMA LookupRInv ==
  ASSUME TypeOK, TypeOK', NEW r \in Requests, RInv(r), Stays(r),
         pc[r] \in {"waiting"} \cup Looking, pc'[r] \in Looking \cup {"jit"},
         UNCHANGED reply
  PROVE  RInv(r)'
<1> USE DEF Stays, clouds
<1>1. runner[r] = 1 /\ <<r, 1>> \notin registered /\ pc[r] # "answered"
  BY DEF RInv, OrderInv, Looking
<1>2. \A b \in builds : b.runner \in Nat
  BY DEF TypeOK
<1>3. \A i \in Nat : <<r, i>> \notin registered
  BY <1>1 DEF RInv, OrderInv
<1>4. ~HasBuild(r, 1) /\ ~HasBuild(r, 1)'
  BY <1>2, <1>3 DEF HasBuild, RInv, OrderInv
<1>5. Promised(r) = {} /\ Promised(r)' = {}
  BY <1>1 DEF RInv, PromiseInv, Promised
<1>6. Wanted(r)' >= 1
  BY ServerSettings DEF Wanted, TypeOK, GoodSettings, ConfigType
<1>7. OrderInv(r)'
  BY <1>1, <1>2, <1>3, <1>6 DEF RInv, OrderInv
<1>8. LossInv(r)'
  BY <1>1, <1>2, <1>3, <1>4, <1>5 DEF RInv, OrderInv, LossInv, Looking
<1>9. PromiseInv(r)'
  BY <1>5 DEF PromiseInv
<1> QED BY <1>7, <1>8, <1>9 DEF RInv

(* An attempt is refused: it changes nothing, or it was the last one. *)
LEMMA RefusedRInv ==
  ASSUME TypeOK, TypeOK', NEW r \in Requests, RInv(r), Stays(r), UNCHANGED pool,
         pc[r] \in {"jit", "build"}, RetryOrFail(r)
  PROVE  RInv(r)'
<1>1. CASE UNCHANGED <<pc, reply>>
  <2>1. Untouched(r)
    BY <1>1 DEF Untouched, Stays, clouds
  <2> QED BY <2>1, UntouchedRInv
<1>2. CASE Fail(r)
  <2>1. Stops(r)
    BY <1>2 DEF Fail, Respond, Answer, Stops, Promised, TypeOK
  <2> QED BY <2>1, StopRInv
<1> QED BY <1>1, <1>2 DEF RetryOrFail

(* GitHub issues the configuration and says so. *)
LEMMA RegisterRInv ==
  ASSUME TypeOK, TypeOK', NEW r \in Requests, RInv(r), Register(r)
  PROVE  RInv(r)'
<1> USE DEF Register, Issue, Name, Goto, history
<1>1. runner[r] \in Nat /\ \A b \in builds : b.runner \in Nat
  BY DEF TypeOK
<1>2. \A i \in Nat : HasBuild(r, i)' <=> HasBuild(r, i)
  BY DEF HasBuild
<1>3. pc'[r] = "build" /\ Promised(r)' = Promised(r) /\ Wanted(r)' = Wanted(r)
  BY DEF TypeOK, Promised, Wanted
<1>4. Promised(r) = {}
  BY DEF RInv, PromiseInv
<1>5. OrderInv(r)'
  <2>1. \A i \in 1 .. runner[r] - 1 : <<r, i>> \in registered' /\ HasBuild(r, i)'
    BY <1>1, <1>2 DEF RInv, OrderInv
  <2> QED BY <1>1, <1>3, <2>1 DEF RInv, OrderInv, Looking
<1>6. \A i \in Nat : <<r, i, "jit">> \notin lost
  BY DEF RInv, LossInv
<1>7. LossInv(r)'
  BY <1>1, <1>2, <1>3, <1>4, <1>6 DEF RInv, LossInv
<1>8. PromiseInv(r)'
  BY <1>3, <1>4 DEF PromiseInv
<1> QED BY <1>5, <1>7, <1>8 DEF RInv
(* GitHub issues the configuration and its answer is lost. *)
LEMMA RegisterUnansweredRInv ==
  ASSUME TypeOK, TypeOK', NEW r \in Requests, RInv(r), RegisterUnanswered(r)
  PROVE  RInv(r)'
<1> USE DEF RegisterUnanswered, Issue, Name
<1>1. runner[r] \in Nat /\ \A b \in builds : b.runner \in Nat
  BY DEF TypeOK
<1>2. \A i \in Nat : HasBuild(r, i)' <=> HasBuild(r, i)
  BY DEF HasBuild
<1>3. /\ pc'[r] \in {"jit", "answered"}
      /\ Promised(r)' = {} /\ Promised(r) = {} /\ Wanted(r)' = Wanted(r)
  BY DEF RetryOrFail, Fail, Respond, Answer, TypeOK, Promised, Wanted, RInv, PromiseInv
<1>4. ~HasBuild(r, runner[r])
  BY DEF RInv, LossInv
<1>5. \A b \in builds : b.req = r => b.runner # runner[r]
  BY <1>4 DEF HasBuild
<1>6. OrderInv(r)'
  <2>1. \A i \in 1 .. runner[r] - 1 : <<r, i>> \in registered' /\ HasBuild(r, i)'
    BY <1>1, <1>2 DEF RInv, OrderInv
  <2> QED BY <1>1, <1>3, <1>5, <2>1 DEF RInv, OrderInv, Looking
<1>7. LossInv(r)'
  BY <1>1, <1>2, <1>3, <1>4 DEF RInv, LossInv
<1>8. PromiseInv(r)'
  BY <1>3 DEF PromiseInv
<1> QED BY <1>6, <1>7, <1>8 DEF RInv

(* Cloud Build carries a request out.  Whether its answer arrives or not,  *)
(* the current runner now has a build, and what it had before was lost.    *)
LEMMA CreateFacts ==
  ASSUME TypeOK, TypeOK', NEW r \in Requests, RInv(r), pc[r] = "build", Create(r)
  PROVE  /\ HasBuild(r, runner[r])'
                \/ ~(runner'[r] = runner[r])
         /\ \E b \in builds' : b.req = r /\ b.runner = runner[r]
         /\ \A b \in builds' : b \in builds \/ (b.req = r /\ b.runner = runner[r])
         /\ builds \subseteq builds'
         /\ \A b \in builds' : b.runner \in Nat
         /\ Promised(r) = {}
<1> DEFINE new == [req |-> r, runner |-> runner[r], try |-> retries[r],
                   pool |-> pool[r]]
<1>1. builds' = builds \cup {new} /\ new.req = r /\ new.runner = runner[r]
  BY DEF Create
<1>2. HasBuild(r, runner[r])' \/ ~(runner'[r] = runner[r])
  BY <1>1 DEF HasBuild
<1>3. Promised(r) = {}
  BY DEF RInv, PromiseInv
<1>4. \A b \in builds' : b.runner \in Nat
  BY DEF TypeOK
<1> HIDE DEF new
<1> QED BY <1>1, <1>2, <1>3, <1>4

(* Its answer is lost or unreadable. *)
LEMMA BuildLostRInv ==
  ASSUME TypeOK, TypeOK', NEW r \in Requests, RInv(r), pc[r] = "build", Create(r),
         pc'[r] \in {"build", "answered"}, Promised(r)' = {},
         lost' = lost \cup {<<r, runner[r], pc[r]>>},
         UNCHANGED <<config, pool, runner, registered>>
  PROVE  RInv(r)'
<1>1. runner[r] \in Nat /\ Wanted(r)' = Wanted(r)
  BY DEF TypeOK, Wanted
<1>2. \A i \in Nat : HasBuild(r, i) => HasBuild(r, i)'
  BY CreateFacts DEF HasBuild
<1>3. OrderInv(r)'
  <2>1. \A i \in 1 .. runner[r] - 1 : <<r, i>> \in registered' /\ HasBuild(r, i)'
    BY <1>1, <1>2 DEF RInv, OrderInv
  <2>2. \A b \in builds' : b.req = r =>
          <<r, b.runner>> \in registered' /\ <<r, b.runner, "jit">> \notin lost'
    BY <1>1, CreateFacts DEF RInv, OrderInv, LossInv
  <2> QED BY <1>1, <2>1, <2>2 DEF RInv, OrderInv, Looking
<1>4. LossInv(r)'
  <2>1. \A b, c \in builds' :
          b.req = r /\ c.req = r /\ b.runner = c.runner /\ b # c =>
            <<r, b.runner, "build">> \in lost'
    BY CreateFacts DEF RInv, LossInv
  <2> QED BY <1>1, <2>1 DEF RInv, LossInv
<1>5. PromiseInv(r)'
  BY DEF PromiseInv
<1> QED BY <1>3, <1>4, <1>5 DEF RInv

(* Its answer arrives, and the loop goes on or ends. *)
LEMMA BuildRInv ==
  ASSUME TypeOK, TypeOK', NEW r \in Requests, RInv(r), Build(r)
  PROVE  RInv(r)'
<1>0. /\ pc[r] = "build" /\ Create(r)
      /\ UNCHANGED <<config, pool, registered, lost>>
  BY DEF Build, history
<1>1. runner[r] \in Nat \ {0}
  BY DEF TypeOK, RInv, OrderInv
<1>3. HasBuild(r, runner[r])' \/ runner'[r] # runner[r]
  BY <1>0, CreateFacts
<1>4. \A i \in 1 .. runner[r] :
        <<r, i>> \in registered' /\ \E b \in builds' : b.req = r /\ b.runner = i
  <2> SUFFICES ASSUME NEW i \in 1 .. runner[r]
               PROVE  /\ <<r, i>> \in registered
                      /\ \E b \in builds' : b.req = r /\ b.runner = i
    BY <1>0
  <2>1. CASE i = runner[r]
    BY <1>0, <2>1, CreateFacts DEF RInv, LossInv
  <2>2. CASE i \in 1 .. runner[r] - 1
    BY <1>0, <2>2, CreateFacts DEF RInv, OrderInv, HasBuild
  <2> QED BY <1>1, <2>1, <2>2
<1>5. \A b \in builds' : b.req = r =>
        /\ <<r, b.runner>> \in registered' /\ <<r, b.runner, "jit">> \notin lost'
        /\ b.runner \in 1 .. runner[r]
  BY <1>0, <1>1, CreateFacts DEF RInv, OrderInv, LossInv
<1>6. \A b, c \in builds' :
        b.req = r /\ c.req = r /\ b.runner = c.runner /\ b # c =>
          <<r, b.runner, "build">> \in lost'
  <2>1. \A b \in builds : b.req = r /\ b.runner = runner[r] =>
          <<r, runner[r], "build">> \in lost
    BY <1>0, CreateFacts DEF RInv, LossInv, HasBuild
  <2>2. \A b, c \in builds' : b \notin builds /\ c \notin builds => b = c
    BY <1>0 DEF Create
  <2> QED BY <1>0, <2>1, <2>2, CreateFacts DEF RInv, LossInv
<1>7. CASE runner[r] < Wanted(r) /\ Goto(r, "jit")
             /\ runner' = [runner EXCEPT ![r] = @ + 1]
  <2>1. /\ pc'[r] = "jit" /\ runner'[r] = runner[r] + 1
        /\ Promised(r)' = {} /\ Wanted(r)' = Wanted(r)
    BY <1>0, <1>7, CreateFacts DEF Goto, TypeOK, Promised, Wanted
  <2>2. Wanted(r) \in Nat
    BY ServerSettings DEF Wanted, TypeOK, GoodSettings, ConfigType
  <2>4. \A b \in builds' : b.req = r => b.runner # runner[r] + 1
    <3>1. runner[r] + 1 \notin 1 .. runner[r]
      BY <1>1
    <3> QED BY <1>5, <3>1
  <2>3. <<r, runner[r] + 1>> \notin registered
    <3>1. runner[r] + 1 \in Nat /\ runner[r] + 1 \notin 1 .. runner[r]
      BY <1>1
    <3> QED BY <3>1 DEF RInv, OrderInv
  <2>5. ~HasBuild(r, runner[r])'
    BY <2>1, <2>4 DEF HasBuild
  <2>6. OrderInv(r)'
    <3>1. \A i \in 1 .. runner'[r] - 1 : <<r, i>> \in registered' /\ HasBuild(r, i)'
      BY <1>1, <1>4, <2>1 DEF HasBuild
    <3>2. \A i \in Nat : <<r, i>> \in registered' => i \in 1 .. runner'[r]
      BY <1>0, <1>1, <2>1 DEF RInv, OrderInv
    <3> QED BY <1>1, <1>5, <1>7, <2>1, <2>2, <3>1, <3>2 DEF OrderInv, Looking
  <2>7. LossInv(r)'
    <3>1. \A i \in Nat : <<r, i, "jit">> \notin lost'
      BY <1>0 DEF RInv, LossInv
    <3> QED BY <1>0, <1>6, <2>1, <2>3, <2>5, <3>1 DEF LossInv
  <2>8. PromiseInv(r)'
    BY <2>1 DEF PromiseInv
  <2> QED BY <2>6, <2>7, <2>8 DEF RInv
<1>8. CASE runner[r] >= Wanted(r) /\ Respond(r, Answer(200, 1 .. runner[r]))
             /\ UNCHANGED runner
  <2>1. /\ pc'[r] = "answered" /\ runner'[r] = runner[r]
        /\ Promised(r)' = 1 .. runner[r] /\ pool'[r] = pool[r]
    <3>1. Answer(200, 1 .. runner[r]) \in Replies
      BY <1>1 DEF Answer, Replies
    <3> QED BY <1>0, <1>8, <3>1, World DEF Respond, Answer, TypeOK, Promised
  <2>2. runner[r] = Wanted(r) /\ Promised(r)' # {}
    <3>1. runner[r] <= Wanted(r) /\ Wanted(r) \in Nat
      BY <1>0, ServerSettings DEF RInv, OrderInv, Wanted, TypeOK, GoodSettings, ConfigType
    <3>2. 1 \in 1 .. runner[r]
      BY <1>1
    <3> QED BY <1>1, <1>8, <2>1, <3>1, <3>2
  <2>3. HasBuild(r, runner[r])'
    BY <1>3, <2>1
  <2>4. OrderInv(r)'
    <3>1. \A i \in 1 .. runner'[r] - 1 : <<r, i>> \in registered' /\ HasBuild(r, i)'
      BY <1>1, <1>4, <2>1 DEF HasBuild
    <3>2. \A i \in Nat : <<r, i>> \in registered' => i \in 1 .. runner'[r]
      BY <1>0, <1>1, <2>1 DEF RInv, OrderInv
    <3> QED BY <1>1, <1>5, <2>1, <3>1, <3>2 DEF OrderInv, Looking
  <2>5. LossInv(r)'
    <3>1. \A i \in Nat : <<r, i, "jit">> \notin lost'
      BY <1>0 DEF RInv, LossInv
    <3> QED BY <1>6, <2>1, <2>2, <3>1 DEF LossInv
  <2>6. PromiseInv(r)'
    BY <1>0, <2>1, <2>2, <2>3 DEF PromiseInv, Wanted
  <2> QED BY <2>4, <2>5, <2>6 DEF RInv
<1> QED BY <1>7, <1>8 DEF Build
-----------------------------------------------------------------------------
(* Deliveries share nothing but the settings: a step of one is no step of  *)
(* another.                                                                *)
Local(r) ==
  /\ UNCHANGED config
  /\ \A q \in Requests \ {r} : UNCHANGED <<pc[q], pool[q], runner[q], reply[q]>>
  /\ registered \subseteq registered' /\ \A n \in registered' \ registered : n[1] = r
  /\ builds \subseteq builds' /\ \A b \in builds' \ builds : b.req = r
  /\ lost \subseteq lost' /\ \A n \in lost' \ lost : n[1] = r

LEMMA LocalRInv ==
  ASSUME TypeOK, TypeOK', NEW r \in Requests, \A q \in Requests : RInv(q),
         Local(r), RInv(r)'
  PROVE  \A q \in Requests : RInv(q)'
<1> SUFFICES ASSUME NEW q \in Requests \ {r} PROVE RInv(q)'
  OBVIOUS
<1>1. Untouched(q)
  BY DEF Local, Untouched
<1> QED BY <1>1, UntouchedRInv

LEMMA RetryOrFailLocal ==
  ASSUME TypeOK, NEW r \in Requests, RetryOrFail(r)
  PROVE  \A q \in Requests \ {r} : UNCHANGED <<pc[q], reply[q]>>
BY DEF RetryOrFail, Fail, Respond, TypeOK

LEMMA NextIInv == IInv /\ [Next]_vars => IInv'
<1> SUFFICES ASSUME IInv, [Next]_vars PROVE IInv'
  OBVIOUS
<1>0. TypeOK /\ TypeOK' /\ TInv' /\ \A q \in Requests : RInv(q)
  BY NextTInv DEF IInv, TInv
<1>a. SUFFICES \A q \in Requests : RInv(q)'
  BY <1>0 DEF IInv
<1>b. ASSUME NEW r \in Requests, RInv(r)', Local(r)
      PROVE  \A q \in Requests : RInv(q)'
  BY <1>0, <1>b, LocalRInv
<1>1. ASSUME NEW r \in Requests, NEW e \in Events, Decline(r, e)
      PROVE  \A q \in Requests : RInv(q)'
  <2>1. Stays(r) /\ Stops(r) /\ Local(r) /\ pc[r] # "answered"
    BY <1>0, <1>1 DEF Decline, Respond, Answer, Stays, Stops, Local, Promised,
                      TypeOK, clouds, history
  <2> QED BY <1>0, <1>b, <2>1, StopRInv
<1>2. ASSUME NEW r \in Requests, NEW e \in Events, Reject(r, e) \/ Accept(r, e)
      PROVE  \A q \in Requests : RInv(q)'
  <2>1. /\ Stays(r) /\ Local(r) /\ UNCHANGED reply
        /\ pc[r] = "waiting" /\ pc'[r] \in Looking \cup {"jit"}
    BY <1>0, <1>2 DEF Reject, Accept, Goto, Stays, Local, Looking, TypeOK, clouds,
                      history
  <2> QED BY <1>0, <1>b, <2>1, LookupRInv
<1>3. ASSUME NEW r \in Requests, LookUp(r)
      PROVE  \A q \in Requests : RInv(q)'
  <2>1. /\ Stays(r) /\ Local(r) /\ UNCHANGED reply
        /\ pc[r] \in Looking /\ pc'[r] \in Looking \cup {"jit"}
    BY <1>0, <1>3 DEF LookUp, FindOrgPool, FindDefaultPool, FindPool,
                      FallBackToDefault, FallBackTo404, MissPool, StartOn, Goto,
                      Stays, Local, Looking, TypeOK, clouds, history
  <2> QED BY <1>0, <1>b, <2>1, LookupRInv
<1>4. ASSUME NEW r \in Requests, Register(r)
      PROVE  \A q \in Requests : RInv(q)'
  <2>1. Local(r)
    BY <1>0, <1>4 DEF Register, Issue, Name, Goto, Local, TypeOK, history
  <2> QED BY <1>0, <1>4, <1>b, <2>1, RegisterRInv
<1>5. ASSUME NEW r \in Requests, RegisterUnanswered(r)
      PROVE  \A q \in Requests : RInv(q)'
  <2>1. Local(r)
    BY <1>0, <1>5, RetryOrFailLocal DEF RegisterUnanswered, Issue, Name, Local
  <2> QED BY <1>0, <1>5, <1>b, <2>1, RegisterUnansweredRInv
<1>6. ASSUME NEW r \in Requests, RegisterRefused(r) \/ BuildRefused(r)
      PROVE  \A q \in Requests : RInv(q)'
  <2>1. /\ Local(r) /\ Stays(r) /\ UNCHANGED pool /\ RetryOrFail(r)
        /\ pc[r] \in {"jit", "build"}
    BY <1>0, <1>6, RetryOrFailLocal DEF RegisterRefused, BuildRefused, Local, Stays,
                                        clouds, history
  <2> QED BY <1>0, <1>b, <2>1, RefusedRInv
<1>7. ASSUME NEW r \in Requests, NoInstallation(r) \/ GiveUp(r)
      PROVE  \A q \in Requests : RInv(q)'
  <2>1. Stays(r) /\ Stops(r) /\ Local(r) /\ pc[r] # "answered"
    BY <1>0, <1>7 DEF NoInstallation, GiveUp, Fail, Respond, Answer, Stays, Stops,
                      Local, Promised, TypeOK, clouds, history
  <2> QED BY <1>0, <1>b, <2>1, StopRInv
<1>8. ASSUME NEW r \in Requests, Build(r)
      PROVE  \A q \in Requests : RInv(q)'
  <2>1. Local(r)
    BY <1>0, <1>8 DEF Build, Create, Goto, Respond, Local, TypeOK, history
  <2> QED BY <1>0, <1>8, <1>b, <2>1, BuildRInv
<1>9. ASSUME NEW r \in Requests, BuildUnanswered(r) \/ BuildUnreadable(r)
      PROVE  \A q \in Requests : RInv(q)'
  <2>1. RetryOrFail(r) \/ Fail(r)
    BY <1>9 DEF BuildUnanswered, BuildUnreadable
  <2>2. /\ \A q \in Requests \ {r} : UNCHANGED <<pc[q], reply[q]>>
        /\ pc'[r] \in {"build", "answered"} /\ Promised(r)' = {}
    <3>1. pc[r] = "build" /\ Promised(r) = {}
      BY <1>0, <1>9 DEF BuildUnanswered, BuildUnreadable, RInv, PromiseInv
    <3> QED
      BY <1>0, <2>1, <3>1 DEF RetryOrFail, Fail, Respond, Answer, TypeOK, Promised
  <2>3. /\ pc[r] = "build" /\ Create(r)
        /\ lost' = lost \cup {<<r, runner[r], pc[r]>>}
        /\ UNCHANGED <<config, pool, runner, registered>>
    BY <1>9 DEF BuildUnanswered, BuildUnreadable
  <2>4. Local(r)
    BY <2>2, <2>3 DEF Local, Create
  <2> QED BY <1>0, <1>b, <2>2, <2>3, <2>4, BuildLostRInv
<1>10. ASSUME NEW r \in Requests, Kill(r)
       PROVE  \A q \in Requests : RInv(q)'
  <2>1. pc[r] # "answered"
    BY <1>10 DEF Kill, Working, Looking
  <2>2. Promised(r)' = {}
    BY <1>0, <1>10, <2>1 DEF Kill, RInv, PromiseInv, Promised
  <2>3. Stays(r) /\ Stops(r) /\ Local(r)
    BY <1>0, <1>10, <2>2 DEF Kill, Stays, Stops, Local, TypeOK, clouds, history
  <2> QED BY <1>0, <1>b, <2>1, <2>3, StopRInv
<1>11. ASSUME UNCHANGED <<config, pc, pool, runner, reply, registered, builds, lost>>
       PROVE  \A q \in Requests : RInv(q)'
  <2>1. \A q \in Requests : Untouched(q)
    BY <1>11 DEF Untouched
  <2> QED BY <1>0, <2>1, UntouchedRInv
<1>12. ASSUME NEW r \in Requests, HangUp(r)
       PROVE  \A q \in Requests : RInv(q)'
  BY <1>11, <1>12 DEF HangUp, handlers, clouds, history
<1>13. ASSUME NEW cat \in Catalogues, Publish(cat)
       PROVE  \A q \in Requests : RInv(q)'
  BY <1>11, <1>13 DEF Publish, handlers, clouds
<1>14. CASE UNCHANGED vars
  BY <1>11, <1>14 DEF vars, handlers, clouds, history
<1> QED
  BY <1>1, <1>2, <1>3, <1>4, <1>5, <1>6, <1>7, <1>8, <1>9, <1>10, <1>12, <1>13, <1>14
     DEF Next, Serve, Deliver, Handle, StartRunner

LEMMA SpecIInv == Spec => []IInv
<1>1. Init => IInv
  BY InitTInv, InitRInv DEF IInv
<1> QED BY <1>1, NextIInv, PTL DEF Spec

-----------------------------------------------------------------------------
LEMMA LastOrEarlier ==
  ASSUME NEW n \in Nat, NEW i \in 1 .. n
  PROVE  i = n \/ i \in 1 .. n - 1
OBVIOUS

LEMMA BuiltIssued ==
  ASSUME TypeOK, NEW r \in Requests
  PROVE  /\ \A i : i \in Built(r) <=> HasBuild(r, i)
         /\ \A i \in Nat : i \in Issued(r) <=> <<r, i>> \in registered
         /\ Built(r) \subseteq Nat /\ Issued(r) \subseteq Nat
<1>1. \A i : i \in Built(r) <=> HasBuild(r, i)
  BY DEF Built, HasBuild
<1>2. Built(r) \subseteq Nat
  BY DEF Built, TypeOK
<1>3. \A n \in registered : n = <<n[1], n[2]>> /\ n[2] \in Nat
  BY DEF TypeOK
<1>4. \A i \in Nat : i \in Issued(r) <=> <<r, i>> \in registered
  BY <1>3 DEF Issued
<1>5. Issued(r) \subseteq Nat
  BY <1>3 DEF Issued
<1> QED BY <1>1, <1>2, <1>4, <1>5

(* A response of the webhook server that names runners names all that the  *)
(* settings call for, and each of them is registered and built.            *)
THEOREM AnswersAreTrue == Spec => []PromiseIsKept
<1>1. IInv => PromiseIsKept
  <2> SUFFICES ASSUME IInv, NEW r \in Requests, Promised(r) # {}
               PROVE  /\ Promised(r) = 1 .. IF pool[r] = Pool404 THEN 1
                                              ELSE 1 + config.extra
                      /\ Built(r) = Promised(r) /\ Issued(r) = Promised(r)
    BY DEF PromiseIsKept
  <2>1. TypeOK /\ OrderInv(r) /\ LossInv(r) /\ PromiseInv(r)
    BY DEF IInv, TInv, RInv
  <2>2. runner[r] \in Nat /\ runner[r] >= 1 /\ HasBuild(r, runner[r])
    BY <2>1 DEF TypeOK, OrderInv, PromiseInv
  <2>3. \A i \in 1 .. runner[r] : HasBuild(r, i)
    BY <2>1, <2>2, LastOrEarlier DEF OrderInv
  <2>4. \A i \in Nat : HasBuild(r, i) => <<r, i>> \in registered
    BY <2>1 DEF HasBuild, OrderInv
  <2>5. Issued(r) \subseteq 1 .. runner[r]
    BY <2>1, BuiltIssued DEF OrderInv
  <2>6. Built(r) \subseteq Issued(r)
    BY <2>1, <2>4, BuiltIssued
  <2>7. 1 .. runner[r] \subseteq Built(r)
    BY <2>1, <2>3, BuiltIssued
  <2> QED BY <2>1, <2>5, <2>6, <2>7 DEF PromiseInv
<1> QED BY SpecIInv, <1>1, PTL

(* However a delivery ends, it leaves at most one registered runner that   *)
(* has no build.                                                           *)
THEOREM OneOrphanAtMost == Spec => []AtMostOneOrphan
<1>1. IInv => AtMostOneOrphan
  <2> SUFFICES ASSUME IInv, NEW r \in Requests, NEW i \in Issued(r) \ Built(r)
               PROVE  i = runner[r]
    BY DEF AtMostOneOrphan
  <2>1. TypeOK /\ OrderInv(r)
    BY DEF IInv, TInv, RInv
  <2>2. runner[r] \in Nat /\ i \in 1 .. runner[r] /\ ~HasBuild(r, i)
    BY <2>1, BuiltIssued DEF OrderInv, TypeOK
  <2> QED BY <2>1, <2>2, LastOrEarlier DEF OrderInv
<1> QED BY SpecIInv, <1>1, PTL

(* CreateBuild runs one configuration twice, or starts a runner no answer  *)
(* names, only if an answer of Cloud Build was lost.                       *)
THEOREM ExtraBuildsComeFromLosses == Spec => []ExtraBuildsNeedALoss
<1>1. IInv => ExtraBuildsNeedALoss
  <2> SUFFICES ASSUME IInv PROVE ExtraBuildsNeedALoss
    OBVIOUS
  <2>1. TypeOK /\ \A r \in Requests : LossInv(r)
    BY DEF IInv, TInv, RInv
  <2>2. \A b \in builds : b.req \in Requests
    BY <2>1 DEF TypeOK
  <2> QED BY <2>1, <2>2, BuiltIssued DEF ExtraBuildsNeedALoss, LossInv
<1> QED BY SpecIInv, <1>1, PTL

(* A configuration whose answer was lost is never run, and its delivery    *)
(* never succeeds.                                                         *)
THEOREM LostConfigurationsDoom == Spec => []LostConfigurationDooms
<1>1. IInv => LostConfigurationDooms
  <2> SUFFICES ASSUME IInv, NEW n \in lost, n[3] = "jit"
               PROVE  n[2] \notin Built(n[1]) /\ Promised(n[1]) = {}
    BY DEF LostConfigurationDooms
  <2>1. TypeOK
    BY DEF IInv, TInv
  <2>2. n[1] \in Requests /\ n[2] \in Nat /\ n = <<n[1], n[2], "jit">>
    BY <2>1 DEF TypeOK
  <2>3. OrderInv(n[1]) /\ LossInv(n[1]) /\ PromiseInv(n[1])
    BY <2>2 DEF IInv, RInv
  <2>4. ~HasBuild(n[1], n[2]) /\ n[2] = runner[n[1]]
    BY <2>2, <2>3 DEF HasBuild, OrderInv, LossInv
  <2> QED BY <2>1, <2>2, <2>3, <2>4, BuiltIssued DEF PromiseInv
<1> QED BY SpecIInv, <1>1, PTL
-----------------------------------------------------------------------------
(***************************************************************************)
(* What a delivery may cost: the attempts at one call, the runners of one  *)
(* loop, and with them the builds and the steps of one handler.            *)
(***************************************************************************)
BoundInv(r) ==
  /\ Limited => retries[r] <= config.maxRetries
  /\ runner[r] <= Wanted(r)
  /\ \A b \in builds : b.req = r =>
       b.pool = pool[r] /\ (Limited => b.try <= config.maxRetries)

CInv == IInv /\ \A r \in Requests : BoundInv(r)

LEMMA SettingsType ==
  ASSUME TypeOK, NEW r \in Requests
  PROVE  /\ config.extra \in Nat /\ config.maxRetries \in Int
         /\ Limited => config.maxRetries \in Nat
         /\ Wanted(r) \in Nat /\ 1 <= Wanted(r) /\ Wanted(r) <= 1 + config.extra
BY ServerSettings DEF Limited, Wanted, TypeOK, GoodSettings, ConfigType

LEMMA InitBoundInv == Init => \A r \in Requests : BoundInv(r)
<1> SUFFICES ASSUME Init, NEW r \in Requests PROVE BoundInv(r)
  OBVIOUS
<1>1. TypeOK
  BY InitTInv DEF TInv
<1> QED BY <1>1, SettingsType DEF Init, BoundInv, Limited

(* A step of another delivery, or one that makes no call. *)
SameCalls(q) ==
  /\ UNCHANGED <<config, pool[q], runner[q], retries[q]>>
  /\ \A b \in builds' : b.req = q => b \in builds

LEMMA SameCallsBoundInv ==
  ASSUME NEW q \in Requests, BoundInv(q), SameCalls(q)
  PROVE  BoundInv(q)'
BY DEF BoundInv, SameCalls, Wanted, Limited

(* While a pool is looked up no call has been made. *)
LEMMA LookupBoundInv ==
  ASSUME TypeOK, TypeOK', NEW r \in Requests, RInv(r), BoundInv(r),
         pc[r] \in {"waiting"} \cup Looking,
         UNCHANGED <<config, runner, retries, builds>>
  PROVE  BoundInv(r)'
<1>1. runner[r] = 1 /\ \A b \in builds : b.req # r
  <2>1. runner[r] = 1 /\ <<r, 1>> \notin registered
    BY DEF RInv, OrderInv
  <2>2. \A i \in Nat : <<r, i>> \notin registered
    BY <2>1 DEF RInv, OrderInv
  <2> QED BY <2>1, <2>2 DEF RInv, OrderInv, TypeOK
<1>2. Wanted(r)' >= 1
  BY SettingsType DEF Wanted
<1> QED BY <1>1, <1>2 DEF BoundInv, Limited

LEMMA CallBoundInv ==
  ASSUME TypeOK, TypeOK', NEW r \in Requests, BoundInv(r),
         UNCHANGED <<config, pool>>,
         builds' = builds \/ Create(r),
         Limited => retries'[r] <= config.maxRetries,
         \/ runner'[r] = runner[r]
         \/ runner[r] < Wanted(r) /\ runner'[r] = runner[r] + 1
  PROVE  BoundInv(r)'
<1>1. Wanted(r)' = Wanted(r)
  BY DEF Wanted
<1>2. runner'[r] <= Wanted(r)
  BY SettingsType DEF TypeOK, BoundInv
<1>3. ASSUME NEW b \in builds', b.req = r
      PROVE  b.pool = pool[r] /\ (Limited => b.try <= config.maxRetries)
  BY <1>3 DEF BoundInv, Create
<1> QED BY <1>1, <1>2, <1>3 DEF BoundInv, Limited

LEMMA RetryBound ==
  ASSUME TypeOK, NEW r \in Requests, BoundInv(r), RetryOrFail(r)
  PROVE  /\ Limited => retries'[r] <= config.maxRetries
         /\ \A q \in Requests \ {r} : UNCHANGED <<pc[q], retries[q]>>
BY SettingsType DEF TypeOK, BoundInv, RetryOrFail, Fail, Respond

LEMMA NextBoundInv ==
  ASSUME CInv, TypeOK', [Next]_vars, NEW q \in Requests
  PROVE  BoundInv(q)'
<1>0. TypeOK /\ RInv(q) /\ BoundInv(q) /\ \A r \in Requests : BoundInv(r)
  BY DEF CInv, IInv, TInv
<1>1. CASE SameCalls(q)
  BY <1>0, <1>1, SameCallsBoundInv
<1>2. ASSUME NEW r \in Requests, NEW e \in Events, Decline(r, e) PROVE SameCalls(q)
  BY <1>2 DEF Decline, SameCalls, clouds
<1>3. ASSUME NEW r \in Requests, NEW e \in Events,
             Reject(r, e) \/ Accept(r, e)
      PROVE  BoundInv(q)'
  <2>1. /\ pc[r] = "waiting" /\ UNCHANGED <<config, runner, retries, builds>>
        /\ q # r => UNCHANGED pool[q]
    BY <1>0, <1>3 DEF Reject, Accept, TypeOK, clouds
  <2>2. CASE q # r
    BY <1>1, <2>1, <2>2 DEF SameCalls
  <2> QED BY <1>0, <2>1, <2>2, LookupBoundInv
<1>4. ASSUME NEW r \in Requests, LookUp(r) PROVE BoundInv(q)'
  <2>1. /\ pc[r] \in {"waiting"} \cup Looking
        /\ UNCHANGED <<config, runner, retries, builds>>
        /\ q # r => UNCHANGED pool[q]
    BY <1>0, <1>4 DEF LookUp, FindOrgPool, FindDefaultPool, FindPool,
                      FallBackToDefault, FallBackTo404, MissPool, StartOn, Looking,
                      TypeOK, clouds
  <2>2. CASE q # r
    BY <1>1, <2>1, <2>2 DEF SameCalls
  <2> QED BY <1>0, <2>1, <2>2, LookupBoundInv
<1>5. ASSUME NEW r \in Requests,
             \/ Register(r) \/ RegisterUnanswered(r) \/ RegisterRefused(r)
             \/ NoInstallation(r) \/ BuildRefused(r) \/ GiveUp(r)
      PROVE  BoundInv(q)'
  <2>1. /\ UNCHANGED <<config, pool, runner, builds>>
        /\ \/ RetryOrFail(r) \/ UNCHANGED retries \/ retries' = [retries EXCEPT ![r] = 0]
    BY <1>5 DEF Register, RegisterUnanswered, RegisterRefused, NoInstallation,
                BuildRefused, GiveUp, clouds
  <2>2. /\ Limited => retries'[r] <= config.maxRetries
        /\ q # r => UNCHANGED retries[q]
    BY <1>0, <2>1, RetryBound, SettingsType DEF BoundInv, TypeOK
  <2>3. CASE q # r
    BY <1>1, <2>1, <2>2, <2>3 DEF SameCalls
  <2> QED BY <1>0, <2>1, <2>2, <2>3, CallBoundInv
<1>6. ASSUME NEW r \in Requests, Build(r) \/ BuildUnanswered(r) \/ BuildUnreadable(r)
      PROVE  BoundInv(q)'
  <2>1. /\ UNCHANGED <<config, pool>> /\ Create(r)
        /\ \/ RetryOrFail(r) \/ UNCHANGED retries \/ retries' = [retries EXCEPT ![r] = 0]
        /\ \/ UNCHANGED runner
           \/ runner[r] < Wanted(r) /\ runner' = [runner EXCEPT ![r] = @ + 1]
    BY <1>6 DEF Build, BuildUnanswered, BuildUnreadable
  <2>2. /\ Limited => retries'[r] <= config.maxRetries
        /\ q # r => UNCHANGED <<retries[q], runner[q]>>
    BY <1>0, <2>1, RetryBound, SettingsType DEF BoundInv, TypeOK
  <2>3. \/ runner'[r] = runner[r]
        \/ runner[r] < Wanted(r) /\ runner'[r] = runner[r] + 1
    BY <1>0, <2>1 DEF TypeOK
  <2>4. CASE q # r
    BY <1>1, <2>1, <2>2, <2>4 DEF SameCalls, Create
  <2> QED BY <1>0, <2>1, <2>2, <2>3, <2>4, CallBoundInv
<1>7. ASSUME NEW r \in Requests, HangUp(r) \/ Kill(r) PROVE SameCalls(q)
  BY <1>7 DEF HangUp, Kill, SameCalls, handlers, clouds
<1>8. ASSUME NEW cat \in Catalogues, Publish(cat) PROVE SameCalls(q)
  BY <1>8 DEF Publish, SameCalls, handlers, clouds
<1>9. CASE UNCHANGED vars
  BY <1>1, <1>9 DEF SameCalls, vars, handlers, clouds
<1> QED
  BY <1>1, <1>2, <1>3, <1>4, <1>5, <1>6, <1>7, <1>8, <1>9
     DEF Next, Serve, Deliver, Handle, StartRunner

LEMMA SpecCInv == Spec => []CInv
<1>1. Init => CInv
  BY InitTInv, InitRInv, InitBoundInv DEF CInv, IInv
<1>2. CInv /\ [Next]_vars => CInv'
  BY NextIInv, NextBoundInv DEF CInv, IInv, TInv
<1> QED BY <1>1, <1>2, PTL DEF Spec

LEMMA IntervalSize ==
  ASSUME NEW n \in Nat
  PROVE  /\ IsFiniteSet(1 .. n) /\ Cardinality(1 .. n) = n
         /\ IsFiniteSet(0 .. n) /\ Cardinality(0 .. n) = 1 + n
<1>1. /\ IsFiniteSet(1 .. n)
      /\ Cardinality(1 .. n) = IF 1 > n THEN 0 ELSE n - 1 + 1
  <2>1. 1 \in Int /\ n \in Int
    OBVIOUS
  <2> QED BY <2>1, FS_Interval, Zenon
<1>2. /\ IsFiniteSet(0 .. n)
      /\ Cardinality(0 .. n) = IF 0 > n THEN 0 ELSE n - 0 + 1
  <2>1. 0 \in Int /\ n \in Int
    OBVIOUS
  <2> QED BY <2>1, FS_Interval, Zenon
<1> QED BY <1>1, <1>2

LEMMA IssuedAreFew ==
  ASSUME CInv, NEW r \in Requests
  PROVE  Cardinality(Issued(r)) <= Wanted(r)
<1>1. TypeOK /\ RInv(r) /\ BoundInv(r)
  BY DEF CInv, IInv, TInv
<1>2. Wanted(r) \in Nat /\ runner[r] \in Nat
  BY <1>1, SettingsType DEF TypeOK
<1>3. Issued(r) \subseteq 1 .. Wanted(r)
  <2>1. Issued(r) \subseteq 1 .. runner[r]
    BY <1>1, BuiltIssued DEF RInv, OrderInv
  <2>2. runner[r] <= Wanted(r)
    BY <1>1 DEF BoundInv
  <2> QED BY <1>2, <2>1, <2>2
<1>4. IsFiniteSet(1 .. Wanted(r)) /\ Cardinality(1 .. Wanted(r)) = Wanted(r)
  BY <1>2, IntervalSize
<1> QED BY <1>3, <1>4, FS_Subset

(* The builds of a delivery differ in their runner or in their attempt. *)
LEMMA BuildsAreFew ==
  ASSUME CInv, NEW r \in Requests, Limited
  PROVE  Cardinality({b \in builds : b.req = r}) <= Wanted(r) * (1 + config.maxRetries)
<1> DEFINE mine  == {b \in builds : b.req = r}
           calls == (1 .. Wanted(r)) \X (0 .. config.maxRetries)
           f     == [b \in mine |-> <<b.runner, b.try>>]
<1>1. TypeOK /\ RInv(r) /\ BoundInv(r)
  BY DEF CInv, IInv, TInv
<1>2. Wanted(r) \in Nat /\ config.maxRetries \in Nat /\ runner[r] \in Nat
  BY <1>1, SettingsType DEF TypeOK
<1>3. ASSUME NEW b \in mine
      PROVE  b.runner \in 1 .. Wanted(r) /\ b.try \in 0 .. config.maxRetries
  <2>1. b.runner \in Nat /\ b.try \in Nat /\ <<r, b.runner>> \in registered
    BY <1>1 DEF TypeOK, RInv, OrderInv
  <2>2. b.runner \in 1 .. runner[r]
    BY <1>1, <2>1 DEF RInv, OrderInv
  <2> QED BY <1>1, <1>2, <2>1, <2>2 DEF BoundInv
<1>4. ASSUME NEW b \in mine, NEW c \in mine, b.runner = c.runner, b.try = c.try
      PROVE  b = c
  <2>1. b.pool = c.pool /\ b.req = c.req
    BY <1>1 DEF BoundInv
  <2> QED BY <1>1, <1>4, <2>1 DEF TypeOK
<1>5. f \in Injection(mine, calls)
  <2>1. f \in [mine -> calls]
    BY <1>3
  <2>2. \A b, c \in mine : f[b] = f[c] => b = c
    BY <1>4
  <2> QED BY <2>1, <2>2 DEF Injection, IsInjective
<1>6. /\ IsFiniteSet(1 .. Wanted(r)) /\ Cardinality(1 .. Wanted(r)) = Wanted(r)
      /\ IsFiniteSet(0 .. config.maxRetries)
      /\ Cardinality(0 .. config.maxRetries) = 1 + config.maxRetries
  BY <1>2, IntervalSize
<1>7. IsFiniteSet(calls) /\ Cardinality(calls) = Wanted(r) * (1 + config.maxRetries)
  <2>1. /\ IsFiniteSet(calls)
        /\ Cardinality(calls)
             = Cardinality(1 .. Wanted(r)) * Cardinality(0 .. config.maxRetries)
    BY <1>6, FS_Product, Zenon
  <2> QED BY <1>6, <2>1
<1> HIDE DEF mine, calls, f
<1>8. Cardinality(mine) <= Cardinality(calls)
  BY <1>5, <1>7, FS_Injection
<1> QED BY <1>7, <1>8 DEF mine

(* The retries of CreateBuild multiply with the runners of                 *)
(* startRunnersForJob and with nothing else.                               *)
THEOREM BuildsHaveALimit == Spec => []BuildsAreBounded
<1>1. CInv => BuildsAreBounded
  BY IssuedAreFew, BuildsAreFew DEF BuildsAreBounded, Wanted
<1> QED BY <1>1, SpecCInv, PTL

-----------------------------------------------------------------------------
(* Why a handler ends: its rounds, if its retries are limited, and its     *)
(* steps, once its context is canceled, are natural numbers and fall.      *)
LEMMA Multiples ==
  ASSUME NEW a \in Nat, NEW m \in Nat, NEW n \in Nat, m <= n
  PROVE  /\ a * m \in Nat /\ a * n \in Nat /\ a * m <= a * n
         /\ a * (m + 1) = a * m + a
OBVIOUS

LEMMA CallsLeft ==
  ASSUME TypeOK, Limited, NEW r \in Requests, RInv(r), BoundInv(r)
  PROVE  /\ Attempts \in Nat /\ retries[r] \in Nat /\ retries[r] < Attempts
         /\ AllCalls \in Nat /\ LaterCalls(r) \in Nat
         /\ LaterCalls(r) + 2 * Attempts <= AllCalls
<1> DEFINE left == Wanted(r) - runner[r]
           a    == 2 * Attempts
<1>1. runner[r] \in Nat /\ runner[r] >= 1 /\ runner[r] <= Wanted(r)
  BY DEF TypeOK, RInv, OrderInv, BoundInv
<1>2. /\ Wanted(r) \in Nat /\ config.extra \in Nat /\ Wanted(r) <= 1 + config.extra
      /\ Attempts \in Nat /\ retries[r] \in Nat /\ retries[r] < Attempts
  BY SettingsType DEF Attempts, TypeOK, BoundInv
<1>3. left \in Nat /\ left + 1 \in Nat /\ left + 1 <= 1 + config.extra
  BY <1>1, <1>2
<1>4. a \in Nat
  BY <1>2
<1>5. AllCalls = a * (1 + config.extra) /\ LaterCalls(r) = a * left
  BY DEF AllCalls, LaterCalls
<1> HIDE DEF a, left
<1>6. a * left \in Nat /\ a * (left + 1) = a * left + a
  BY <1>3, <1>4, Multiples
<1>7. a * (left + 1) <= a * (1 + config.extra) /\ a * (1 + config.extra) \in Nat
  BY <1>2, <1>3, <1>4, Multiples
<1>8. AllCalls \in Nat /\ LaterCalls(r) \in Nat /\ LaterCalls(r) + a <= AllCalls
  BY <1>4, <1>5, <1>6, <1>7
<1> QED BY <1>2, <1>8 DEF a

LEMMA NextRunnerCalls ==
  ASSUME TypeOK, Limited, NEW r \in Requests, RInv(r), BoundInv(r), UNCHANGED <<config, pool>>,
         runner[r] < Wanted(r), runner'[r] = runner[r] + 1
  PROVE  LaterCalls(r)' + 2 * Attempts = LaterCalls(r)
<1> DEFINE left == Wanted(r) - runner[r] - 1
           a    == 2 * Attempts
<1>1. runner[r] \in Nat /\ Wanted(r) \in Nat /\ a \in Nat
  BY SettingsType DEF TypeOK, Attempts
<1>2. /\ left \in Nat
      /\ Wanted(r) - runner[r] = left + 1 /\ Wanted(r) - (runner[r] + 1) = left
  BY <1>1
<1>3. LaterCalls(r) = a * (left + 1)
  BY <1>2 DEF LaterCalls
<1>4. LaterCalls(r)' = a * left
  <2>1. Wanted(r)' = Wanted(r) /\ Attempts' = Attempts
    BY DEF Wanted, Attempts
  <2>2. LaterCalls(r)' = 2 * Attempts * (Wanted(r) - (runner[r] + 1))
    BY <2>1 DEF LaterCalls
  <2> QED BY <1>2, <2>2
<1> HIDE DEF a, left
<1>5. a * (left + 1) = a * left + a
  BY <1>1, <1>2, Multiples
<1>6. LaterCalls(r)' + a = LaterCalls(r)
  BY <1>3, <1>4, <1>5
<1> QED BY <1>6 DEF a

RoundsInv(r) ==
  /\ RoundsLeft(r) \in 0 .. AllCalls + 2
  /\ pc[r] \in Working => RoundsLeft(r) > 0
  /\ pc[r] = "jit" => RoundsLeft(r) <= AllCalls

LEMMA RoundsAreNatural == CInv /\ Limited => \A r \in Requests : RoundsInv(r)
<1> SUFFICES ASSUME CInv, Limited, NEW r \in Requests PROVE RoundsInv(r)
  OBVIOUS
<1>1. /\ Attempts \in Nat /\ retries[r] \in Nat /\ retries[r] < Attempts
      /\ AllCalls \in Nat /\ LaterCalls(r) \in Nat
      /\ LaterCalls(r) + 2 * Attempts <= AllCalls
  BY CallsLeft DEF CInv, IInv, TInv
<1> QED BY <1>1 DEF RoundsInv, RoundsLeft, Working, Looking

LEMMA RoundsAreNaturalNext ==
  CInv' /\ Limited' => (\A r \in Requests : RoundsInv(r))'
BY RoundsAreNatural, PTL

LEMMA HandleEndsRound ==
  ASSUME CInv, CInv', Limited, NEW r \in Requests, Handle(r)
  PROVE  RoundsLeft(r)' < RoundsLeft(r)
<1>0. TypeOK /\ RInv(r) /\ BoundInv(r) /\ TypeOK'
  BY DEF CInv, IInv, TInv
<1>1. /\ Attempts \in Nat /\ retries[r] \in Nat /\ retries[r] < Attempts
      /\ AllCalls \in Nat /\ LaterCalls(r) \in Nat
      /\ LaterCalls(r) + 2 * Attempts <= AllCalls
  BY <1>0, CallsLeft
<1>2. RoundsLeft(r) \in Nat /\ (pc[r] \in Working => RoundsLeft(r) > 0)
  BY RoundsAreNatural DEF RoundsInv
<1>3. UNCHANGED config
  BY DEF Handle, LookUp, FindOrgPool, FindDefaultPool, FindPool, FallBackToDefault,
         FallBackTo404, MissPool, StartRunner, Register, RegisterUnanswered,
         RegisterRefused, NoInstallation, Build, BuildUnanswered, BuildUnreadable,
         BuildRefused, GiveUp
<1>4. AllCalls' = AllCalls /\ Attempts' = Attempts /\ Limited'
  BY <1>3 DEF AllCalls, Attempts, Limited
<1>5. CASE pc[r] \in Working /\ pc'[r] = "answered"
  <2>1. RoundsLeft(r)' = 0
    BY <1>5 DEF RoundsLeft
  <2> QED BY <1>2, <1>5, <2>1
<1>6. CASE FallBackToDefault(r)
  <2>1. pc[r] = "orgLookup" /\ pc'[r] = "defaultLookup"
    BY <1>0, <1>6 DEF FallBackToDefault, Goto, TypeOK
  <2>2. RoundsLeft(r) = AllCalls + 2 /\ RoundsLeft(r)' = AllCalls + 1
    BY <1>4, <2>1 DEF RoundsLeft
  <2> QED BY <1>1, <2>2
<1>7. CASE \/ \E p \in Pools : FindOrgPool(r, p) \/ FindDefaultPool(r, p)
           \/ FallBackTo404(r)
  <2>1. pc[r] \in Looking /\ pc'[r] = "jit"
    BY <1>0, <1>7 DEF FindOrgPool, FindDefaultPool, FindPool, FallBackTo404,
                      StartOn, Goto, Looking, TypeOK
  <2>2. RoundsLeft(r) > AllCalls
    BY <1>1, <2>1 DEF RoundsLeft, Looking
  <2>3. (\A q \in Requests : RoundsInv(q))'
    BY <1>4, RoundsAreNaturalNext
  <2>4. RoundsLeft(r)' <= AllCalls /\ RoundsLeft(r)' \in 0 .. AllCalls + 2
    BY <1>4, <2>1, <2>3 DEF RoundsInv
  <2> QED BY <1>1, <1>2, <2>2, <2>4
<1>8. CASE pc[r] \in {"jit", "build"} /\ RetryOrFail(r) /\ UNCHANGED <<pool, runner>>
  <2>1. CASE pc' = pc /\ retries'[r] = retries[r] + 1
    <3>1. LaterCalls(r)' = LaterCalls(r)
      BY <1>3, <1>8 DEF LaterCalls, Wanted, Attempts
    <3> QED BY <1>1, <1>4, <1>8, <2>1, <3>1 DEF RoundsLeft
  <2>2. CASE Fail(r)
    BY <1>0, <1>5, <1>8, <2>2 DEF Fail, Respond, Working, TypeOK
  <2> QED BY <1>0, <1>8, <2>1, <2>2 DEF RetryOrFail, TypeOK
<1>9. CASE Register(r)
  <2>1. /\ pc[r] = "jit" /\ pc'[r] = "build" /\ retries'[r] = 0
        /\ UNCHANGED <<pool, runner>>
    BY <1>0, <1>9 DEF Register, Goto, TypeOK
  <2>2. LaterCalls(r)' = LaterCalls(r)
    BY <1>3, <2>1 DEF LaterCalls, Wanted, Attempts
  <2> QED BY <1>1, <1>4, <2>1, <2>2 DEF RoundsLeft
<1>10. CASE Build(r)
  <2>1. pc[r] = "build" /\ retries'[r] = 0 /\ UNCHANGED pool
    BY <1>0, <1>10 DEF Build, TypeOK
  <2>2. CASE runner[r] < Wanted(r) /\ Goto(r, "jit") /\ runner' = [runner EXCEPT ![r] = @ + 1]
    <3>1. pc'[r] = "jit" /\ runner'[r] = runner[r] + 1
      BY <1>0, <2>2 DEF Goto, TypeOK
    <3>2. LaterCalls(r)' + 2 * Attempts = LaterCalls(r)
      BY <1>0, <1>3, <2>1, <2>2, <3>1, NextRunnerCalls
    <3>3. RoundsLeft(r)' = LaterCalls(r)' + 2 * Attempts - 0
      BY <1>4, <2>1, <3>1 DEF RoundsLeft
    <3>4. RoundsLeft(r) = LaterCalls(r) + Attempts - retries[r]
      BY <2>1 DEF RoundsLeft
    <3> QED BY <1>1, <3>2, <3>3, <3>4
  <2>3. CASE Respond(r, Answer(200, 1 .. runner[r]))
    BY <1>0, <1>5, <2>1, <2>3 DEF Respond, Working, TypeOK
  <2> QED BY <1>10, <2>2, <2>3 DEF Build
<1>11. CASE NoInstallation(r) \/ GiveUp(r) \/ BuildUnreadable(r)
  BY <1>0, <1>5, <1>11
     DEF NoInstallation, GiveUp, BuildUnreadable, Fail, Respond, Working, TypeOK
<1> QED
  BY <1>6, <1>7, <1>8, <1>9, <1>10, <1>11
     DEF Handle, LookUp, StartRunner, RegisterUnanswered, RegisterRefused,
         BuildUnanswered, BuildRefused

(* A handler whose context is canceled only falls back and gives up. *)
LEMMA CanceledEnds ==
  ASSUME TypeOK, NEW r \in Requests, r \in canceled, Handle(r)
  PROVE  StepsLeft(r)' < StepsLeft(r)
<1>1. CASE FallBackToDefault(r)
  <2>1. pc[r] = "orgLookup" /\ pc'[r] = "defaultLookup" /\ UNCHANGED canceled
    BY <1>1 DEF FallBackToDefault, MissPool, Goto, TypeOK
  <2> QED BY <2>1 DEF StepsLeft
<1>2. CASE FallBackTo404(r)
  <2>1. pc[r] \in Looking /\ pc'[r] = "jit" /\ UNCHANGED canceled
    BY <1>2 DEF FallBackTo404, MissPool, StartOn, Goto, Looking, TypeOK
  <2> QED BY <2>1 DEF StepsLeft, Looking
<1>3. CASE NoInstallation(r) \/ GiveUp(r)
  <2>1. pc[r] \in {"jit", "build"} /\ pc'[r] = "answered" /\ UNCHANGED canceled
    BY <1>3 DEF NoInstallation, GiveUp, Fail, Respond, TypeOK
  <2> QED BY <2>1 DEF StepsLeft
<1> QED
  BY <1>1, <1>2, <1>3
     DEF Handle, LookUp, FindOrgPool, FindDefaultPool, FindPool, StartRunner, Register,
         RegisterUnanswered, RegisterRefused, Build, BuildUnanswered, BuildUnreadable,
         BuildRefused

LEMMA HandleKeepsContext ==
  ASSUME NEW r \in Requests, Handle(r)
  PROVE  UNCHANGED canceled
BY DEF Handle, LookUp, FindOrgPool, FindDefaultPool, FindPool, FallBackToDefault,
       FallBackTo404, MissPool, StartRunner, Register, RegisterUnanswered,
       RegisterRefused, NoInstallation, Build, BuildUnanswered, BuildUnreadable,
       BuildRefused, GiveUp

LEMMA HandleFalls ==
  ASSUME CInv, CInv', NEW r \in Requests, Bounded(r), Handle(r)
  PROVE  StepsLeft(r)' < StepsLeft(r)
<1>1. CASE r \in canceled
  BY <1>1, CanceledEnds DEF CInv, IInv, TInv
<1>2. CASE r \notin canceled
  <2>1. RoundsLeft(r)' < RoundsLeft(r)
    BY <1>2, HandleEndsRound DEF Bounded
  <2> QED BY <1>2, <2>1, HandleKeepsContext DEF StepsLeft
<1> QED BY <1>1, <1>2

StepLimit == IF Limited THEN AllCalls + 2 ELSE 3

(* Cancelling a request never makes its handler's way longer. *)
LEMMA StepsAreNatural ==
  ASSUME CInv, NEW r \in Requests, Bounded(r)
  PROVE  /\ StepsLeft(r) \in 0 .. StepLimit
         /\ Limited => AllCalls \in Nat /\ AllCalls >= 2
         /\ Limited => RoundsLeft(r) \in Nat /\ (pc[r] \in Working => RoundsLeft(r) > 0)
<1>1. CASE Limited
  <2>1. AllCalls \in Nat /\ AllCalls >= 2
    <3>1. /\ Attempts \in Nat /\ retries[r] \in Nat /\ retries[r] < Attempts
          /\ AllCalls \in Nat /\ LaterCalls(r) \in Nat
          /\ LaterCalls(r) + 2 * Attempts <= AllCalls
      BY <1>1, CallsLeft DEF CInv, IInv, TInv
    <3> QED BY <3>1
  <2>2. RoundsInv(r)
    BY <1>1, RoundsAreNatural
  <2>3. /\ RoundsLeft(r) \in 0 .. AllCalls + 2
        /\ pc[r] \in Working => RoundsLeft(r) > 0
    BY <2>2 DEF RoundsInv
  <2> QED BY <1>1, <2>1, <2>3 DEF StepsLeft, StepLimit
<1>2. CASE ~Limited
  BY <1>2 DEF Bounded, StepsLeft, StepLimit
<1> QED BY <1>1, <1>2

LEMMA StepsAreNaturalNext ==
  CInv' => (\A r \in Requests : Bounded(r) => StepsLeft(r) \in 0 .. StepLimit)'
<1>1. CInv => \A r \in Requests : Bounded(r) => StepsLeft(r) \in 0 .. StepLimit
  BY StepsAreNatural
<1> QED BY <1>1, PTL

LEMMA HangUpShortens ==
  ASSUME CInv, NEW r \in Requests, Bounded(r), HangUp(r)
  PROVE  StepsLeft(r)' <= StepsLeft(r)
<1>1. /\ Limited /\ r \notin canceled /\ r \in canceled' /\ pc[r] \in Working
      /\ UNCHANGED pc
  BY DEF HangUp, Bounded, handlers
<1>2. /\ AllCalls \in Nat /\ AllCalls >= 2
      /\ RoundsLeft(r) \in Nat /\ RoundsLeft(r) > 0
  BY <1>1, StepsAreNatural
<1>3. CASE pc[r] \in Looking
  <2>1. RoundsLeft(r) = IF pc[r] = "orgLookup" THEN AllCalls + 2 ELSE AllCalls + 1
    BY <1>3 DEF RoundsLeft, Looking
  <2>2. StepsLeft(r)' = IF pc[r] = "orgLookup" THEN 3 ELSE 2
    BY <1>1, <1>3 DEF StepsLeft, Looking
  <2> QED BY <1>1, <1>2, <2>1, <2>2 DEF StepsLeft
<1>4. CASE pc[r] \in {"jit", "build"}
  <2>1. StepsLeft(r)' = 1
    BY <1>1, <1>4 DEF StepsLeft
  <2> QED BY <1>1, <1>2, <2>1 DEF StepsLeft
<1> QED BY <1>1, <1>3, <1>4 DEF Working

LEMMA SettingsStay ==
  ASSUME [Next]_vars
  PROVE  UNCHANGED config /\ canceled \subseteq canceled'
<1>1. ASSUME NEW r \in Requests, Handle(r)
      PROVE  UNCHANGED <<config, canceled>>
  BY <1>1 DEF Handle, LookUp, FindOrgPool, FindDefaultPool, FindPool, FallBackToDefault,
              FallBackTo404, MissPool, StartRunner, Register, RegisterUnanswered,
              RegisterRefused, NoInstallation, Build, BuildUnanswered, BuildUnreadable,
              BuildRefused, GiveUp
<1>2. ASSUME NEW r \in Requests, Deliver(r) \/ HangUp(r) \/ Kill(r)
      PROVE  UNCHANGED config /\ canceled \subseteq canceled'
  BY <1>2 DEF Deliver, Decline, Reject, Accept, HangUp, Kill
<1>3. ASSUME NEW cat \in Catalogues, Publish(cat)
      PROVE  UNCHANGED <<config, canceled>>
  BY <1>3 DEF Publish
<1> QED BY <1>1, <1>2, <1>3 DEF Next, Serve, vars

Unmoved(r) ==
  /\ UNCHANGED <<config, pc[r], pool[r], runner[r], retries[r]>>
  /\ r \in canceled' <=> r \in canceled

(* What others do leaves a handler where it is. *)
LEMMA OthersDoNotHinder ==
  ASSUME CInv, CInv', [Next]_vars, NEW r \in Requests, pc[r] \in Working,
         Bounded(r)
  PROVE  StepsLeft(r)' <= StepsLeft(r)
<1>0. TypeOK
  BY DEF CInv, IInv, TInv
<1>10. Bounded(r)'
  BY SettingsStay DEF Bounded, Limited
<1>1. StepsLeft(r) \in Nat /\ StepsLeft(r)' \in Nat
  <2>1. StepsLeft(r) \in Nat
    BY StepsAreNatural DEF StepLimit
  <2>2. StepsLeft(r)' \in Nat
    BY <1>10, StepsAreNaturalNext DEF StepLimit
  <2> QED BY <2>1, <2>2
<1>2. CASE Handle(r)
  BY <1>1, <1>2, HandleFalls
<1>3. CASE Unmoved(r)
  <2>1. StepsLeft(r)' = StepsLeft(r)
    BY <1>3 DEF Unmoved, StepsLeft, RoundsLeft, LaterCalls, AllCalls, Wanted, Attempts
  <2> QED BY <1>1, <2>1
<1>4. CASE Kill(r)
  <2>1. pc'[r] = "dead"
    BY <1>0, <1>4 DEF Kill, TypeOK
  <2>2. StepsLeft(r)' = 0
    BY <2>1 DEF StepsLeft, RoundsLeft
  <2> QED BY <1>1, <2>2
<1>5. ASSUME NEW q \in Requests, q # r, Deliver(q) \/ Handle(q) \/ Kill(q)
      PROVE  Unmoved(r)
  <2> USE DEF Unmoved
  <2>1. CASE Deliver(q)
    BY <1>0, <1>5, <2>1 DEF Deliver, Decline, Reject, Accept, Goto, Respond, TypeOK
  <2>2. CASE LookUp(q)
    BY <1>0, <1>5, <2>2 DEF LookUp, FindOrgPool, FindDefaultPool, FindPool, Goto, StartOn,
                            FallBackToDefault, FallBackTo404, MissPool, TypeOK
  <2>3. CASE StartRunner(q)
    <3>1. RetryOrFail(q) => UNCHANGED <<pc[r], retries[r]>>
      BY <1>0, <1>5 DEF RetryOrFail, Fail, Respond, TypeOK
    <3> QED
      BY <1>0, <1>5, <2>3, <3>1
         DEF StartRunner, Register, RegisterUnanswered, RegisterRefused, NoInstallation,
             Build, BuildUnanswered, BuildUnreadable, BuildRefused, GiveUp, Goto, Fail,
             Respond, TypeOK
  <2>4. CASE Kill(q)
    BY <1>0, <1>5, <2>4 DEF Kill, TypeOK
  <2> QED BY <1>5, <2>1, <2>2, <2>3, <2>4 DEF Handle
<1>6. ASSUME NEW q \in Requests, q # r, HangUp(q)
      PROVE  Unmoved(r)
  BY <1>6 DEF Unmoved, HangUp, handlers
<1>11. CASE HangUp(r)
  BY <1>11, HangUpShortens
<1>7. ASSUME NEW cat \in Catalogues, Publish(cat)
      PROVE  Unmoved(r)
  BY <1>7 DEF Unmoved, Publish, handlers
<1>8. ~Deliver(r)
  BY DEF Deliver, Decline, Reject, Accept, Working, Looking
<1>9. CASE UNCHANGED vars
  BY <1>3, <1>9 DEF Unmoved, vars, handlers
<1> QED BY <1>2, <1>3, <1>4, <1>5, <1>6, <1>7, <1>8, <1>9, <1>11 DEF Next, Serve

(* A handler whose retries are limited, or whose context is canceled, has  *)
(* a bounded number of steps before it, each of its steps uses one of them *)
(* up, and no failure, retry, hang-up or step of others gives any back     *)
(* (startRunnersForJob, generateJITConfig, CreateBuild).                   *)
THEOREM HandlersMakeProgress ==
  Spec => /\ HandlersProgress
          /\ [](\A r \in Requests : Bounded(r) => StepsLeft(r) \in 0 .. StepLimit)
<1>1. CInv /\ CInv' /\ [Next]_vars =>
        [\A r \in Requests : Bounded(r) =>
           /\ Handle(r) => StepsLeft(r)' < StepsLeft(r)
           /\ pc[r] \in Working => StepsLeft(r)' <= StepsLeft(r)]_vars
  BY HandleFalls, OthersDoNotHinder
<1>2. CInv => \A r \in Requests : Bounded(r) => StepsLeft(r) \in 0 .. StepLimit
  BY StepsAreNatural
<1> QED BY <1>1, <1>2, SpecCInv, PTL DEF Spec, HandlersProgress

-----------------------------------------------------------------------------
(***************************************************************************)
(* Refinement of RunnerDelivery.                                           *)
(***************************************************************************)
stageBar    == [r \in Requests |-> Stage(r)]
startedBar  == [r \in Requests |-> Built(r)]
promisedBar == [r \in Requests |-> Promised(r)]
sizesBar    == {1, 1 + config.extra}

(* A local step changes the abstract state of one delivery only. *)
LEMMA LocalBar ==
  ASSUME NEW r \in Requests, Local(r)
  PROVE  /\ stageBar' = [stageBar EXCEPT ![r] = Stage(r)']
         /\ startedBar' = [startedBar EXCEPT ![r] = Built(r)']
         /\ promisedBar' = [promisedBar EXCEPT ![r] = Promised(r)']
         /\ sizesBar' = sizesBar
<1>1. ASSUME NEW q \in Requests \ {r}
      PROVE  /\ Stage(q)' = Stage(q) /\ Built(q)' = Built(q)
             /\ Promised(q)' = Promised(q)
  <2>1. Stage(q)' = Stage(q) /\ Promised(q)' = Promised(q)
    BY DEF Local, Stage, Promised
  <2>2. {b \in builds' : b.req = q} = {b \in builds : b.req = q}
    BY DEF Local
  <2>3. Built(q)' = Built(q)
    BY <2>2 DEF Built
  <2> QED BY <2>1, <2>3
<1> QED BY <1>1 DEF stageBar, startedBar, promisedBar, sizesBar, Local

(* Only the calls that Cloud Build carries out start a runner. *)
LEMMA SameBuilt ==
  ASSUME NEW r \in Requests, UNCHANGED builds
  PROVE  Built(r)' = Built(r)
BY DEF Built

LEMMA CreateBuilt ==
  ASSUME IInv, IInv', NEW r \in Requests, pc[r] = "build", Create(r), UNCHANGED config
  PROVE  /\ runner[r] \in Nat \ {0} /\ runner[r] <= Wanted(r)
         /\ Wanted(r) \in sizesBar /\ sizesBar \subseteq Nat
         /\ \E n \in {runner[r] - 1, runner[r]} : Built(r) = 1 .. n
         /\ Built(r)' = 1 .. runner[r]
<1> DEFINE k == runner[r]
<1>1. TypeOK /\ TypeOK' /\ RInv(r)
  BY DEF IInv, TInv
<1>2. k \in Nat \ {0} /\ k <= Wanted(r)
  BY <1>1 DEF TypeOK, RInv, OrderInv
<1>3. Wanted(r) \in sizesBar /\ sizesBar \subseteq Nat
  BY <1>1, ServerSettings DEF Wanted, sizesBar, TypeOK, GoodSettings, ConfigType
<1>4. Built(r) \subseteq 1 .. k /\ 1 .. k - 1 \subseteq Built(r)
  BY <1>1, BuiltIssued DEF RInv, OrderInv, HasBuild
<1>5. Built(r)' = Built(r) \cup {k}
  <2> DEFINE new == [req |-> r, runner |-> k, try |-> retries[r], pool |-> pool[r]]
  <2>1. builds' = builds \cup {new} /\ new.req = r /\ new.runner = k
    BY DEF Create
  <2> HIDE DEF new
  <2> QED BY <2>1 DEF Built
<1>6. \E n \in {k - 1, k} : Built(r) = 1 .. n
  <2>1. CASE k \in Built(r)
    BY <1>2, <1>4, <2>1, LastOrEarlier
  <2>2. CASE k \notin Built(r)
    BY <1>2, <1>4, <2>2, LastOrEarlier
  <2> QED BY <2>1, <2>2
<1>7. Built(r)' = 1 .. k
  BY <1>2, <1>4, <1>5, LastOrEarlier
<1> QED BY <1>2, <1>3, <1>6, <1>7

LEMMA CreateStarts ==
  ASSUME IInv, IInv', NEW r \in Requests, pc[r] = "build", Create(r), Local(r)
  PROVE  Contract!Starts(r)
<1>0. UNCHANGED config
  BY DEF Local
<1>1. startedBar[r] = Built(r)
  BY DEF startedBar
<1>2. startedBar' = [startedBar EXCEPT ![r] = 1 .. runner[r]]
  BY <1>0, CreateBuilt, LocalBar
<1>3. CASE Built(r) = 1 .. runner[r]
  BY <1>1, <1>2, <1>3 DEF Contract!Starts, startedBar
<1>4. CASE Built(r) = 1 .. runner[r] - 1
  <2>1. /\ runner[r] - 1 \in 0 .. Wanted(r) - 1 /\ Wanted(r) \in sizesBar
        /\ (runner[r] - 1) + 1 = runner[r]
    BY <1>0, CreateBuilt
  <2> QED BY <1>1, <1>2, <1>4, <2>1 DEF Contract!Starts, startedBar, sizesBar
<1> QED BY <1>0, <1>3, <1>4, CreateBuilt
(* What each step is to the contract. *)
LEMMA StepImplements ==
  ASSUME IInv, IInv', NEW r \in Requests, Local(r),
         \/ /\ pc[r] = "waiting" /\ pc'[r] \in {"answered"} \cup Working
            /\ UNCHANGED builds /\ Promised(r)' = Promised(r)
         \/ /\ pc[r] \in Working /\ pc'[r] \in Working \cup {"answered", "dead"}
            /\ UNCHANGED builds /\ Promised(r)' = Promised(r)
         \/ /\ pc[r] = "build" /\ Create(r) /\ pc'[r] \in Working \cup {"answered"}
            /\ Promised(r)' = Promised(r)
         \/ /\ pc[r] = "build" /\ Create(r) /\ pc'[r] = "answered"
            /\ runner[r] = Wanted(r) /\ Promised(r)' = 1 .. runner[r]
  PROVE  [Contract!Next]_(Contract!vars)
<1> USE DEF stageBar, startedBar, promisedBar, sizesBar
<1>1. stageBar[r] = Stage(r) /\ promisedBar[r] = Promised(r) /\ startedBar[r] = Built(r)
  OBVIOUS
<1>2. CASE /\ pc[r] = "waiting" /\ pc'[r] \in {"answered"} \cup Working
           /\ UNCHANGED builds /\ Promised(r)' = Promised(r)
  <2>1. Stage(r) = "waiting" /\ Stage(r)' \in {"answered", "working"}
    BY <1>2 DEF Stage, Working, Looking
  <2>2. UNCHANGED <<sizesBar, startedBar, promisedBar>>
    BY <1>2, SameBuilt, LocalBar
  <2>3. Contract!Receive(r)
    BY <2>1, <2>2, LocalBar DEF Contract!Receive
  <2> QED BY <2>3 DEF Contract!Next
<1>3. CASE /\ pc[r] \in Working /\ pc'[r] \in Working \cup {"answered", "dead"}
           /\ UNCHANGED builds /\ Promised(r)' = Promised(r)
  <2>1. Stage(r) = "working" /\ Stage(r)' \in {"working", "answered", "dead"}
    BY <1>3 DEF Stage
  <2>2. UNCHANGED <<sizesBar, startedBar, promisedBar>>
    BY <1>3, SameBuilt, LocalBar
  <2>3. CASE Stage(r)' = "working"
    <3>1. stageBar' = stageBar
      BY <2>1, <2>3, LocalBar
    <3>2. UNCHANGED <<sizesBar, stageBar, startedBar, promisedBar>>
      BY <2>2, <3>1
    <3> QED BY <3>2 DEF Contract!vars
  <2>4. CASE Stage(r)' = "answered"
    <3>1. Contract!Finish(r)
      BY <2>1, <2>2, <2>4, LocalBar DEF Contract!Finish, Contract!Starts
    <3> QED BY <3>1 DEF Contract!Next
  <2>5. CASE Stage(r)' = "dead"
    <3>1. Contract!Die(r)
      BY <2>1, <2>2, <2>5, LocalBar DEF Contract!Die
    <3> QED BY <3>1 DEF Contract!Next
  <2> QED BY <2>1, <2>3, <2>4, <2>5
<1>4. CASE /\ pc[r] = "build" /\ Create(r) /\ pc'[r] \in Working \cup {"answered"}
           /\ Promised(r)' = Promised(r)
  <2>1. Stage(r) = "working" /\ Stage(r)' \in {"working", "answered"}
    BY <1>4 DEF Stage, Working
  <2>2. UNCHANGED <<sizesBar, promisedBar>> /\ Contract!Starts(r)
    BY <1>4, LocalBar, CreateStarts
  <2>3. CASE Stage(r)' = "working"
    <3>1. Contract!Start(r)
      BY <2>1, <2>2, <2>3, LocalBar DEF Contract!Start
    <3> QED BY <3>1 DEF Contract!Next
  <2>4. CASE Stage(r)' = "answered"
    <3>1. Contract!Finish(r)
      BY <2>1, <2>2, <2>4, LocalBar DEF Contract!Finish
    <3> QED BY <3>1 DEF Contract!Next
  <2> QED BY <2>1, <2>3, <2>4
<1>5. CASE /\ pc[r] = "build" /\ Create(r) /\ pc'[r] = "answered"
           /\ runner[r] = Wanted(r) /\ Promised(r)' = 1 .. runner[r]
  <2>1. Stage(r) = "working" /\ Stage(r)' = "answered"
    BY <1>5 DEF Stage, Working, Looking
  <2>2. UNCHANGED config /\ UNCHANGED sizesBar /\ Contract!Starts(r)
    BY <1>5, LocalBar, CreateStarts DEF Local
  <2>3. Built(r)' = 1 .. runner[r] /\ runner[r] \in sizesBar
    BY <1>5, <2>2, CreateBuilt
  <2>4. startedBar'[r] = 1 .. runner[r]
    BY <2>3
  <2>5. promisedBar' = [promisedBar EXCEPT ![r] = startedBar'[r]]
    BY <1>5, <2>4, LocalBar
  <2>6. Contract!Finish(r)
    BY <2>1, <2>2, <2>3, <2>4, <2>5, LocalBar DEF Contract!Finish
  <2> QED BY <2>6 DEF Contract!Next
<1> QED BY <1>2, <1>3, <1>4, <1>5
(* Nothing is promised before the answer. *)
LEMMA NothingPromised ==
  ASSUME IInv, NEW r \in Requests, pc[r] # "answered"
  PROVE  Promised(r) = {}
BY DEF IInv, RInv, PromiseInv

LEMMA InitContract == Init => Contract!Init
<1> SUFFICES ASSUME Init PROVE Contract!Init
  OBVIOUS
<1>1. sizesBar \in SUBSET Nat
  BY ServerSettings DEF Init, sizesBar, GoodSettings, ConfigType
<1>2. stageBar = [r \in Requests |-> "waiting"]
  BY DEF Init, stageBar, Stage, Working, Looking
<1>3. startedBar = [r \in Requests |-> {}]
  BY DEF Init, startedBar, Built
<1>4. promisedBar = [r \in Requests |-> {}]
  BY DEF Init, promisedBar, Promised
<1> QED
  BY <1>1, <1>2, <1>3, <1>4
     DEF Contract!Init, sizesBar, stageBar, startedBar, promisedBar

LEMMA NextContract == IInv /\ IInv' /\ [Next]_vars => [Contract!Next]_(Contract!vars)
<1> SUFFICES ASSUME IInv, IInv', [Next]_vars
             PROVE  [Contract!Next]_(Contract!vars)
  OBVIOUS
<1>0. TypeOK /\ \A q \in Requests : RInv(q)
  BY DEF IInv, TInv
<1>1. ASSUME NEW r \in Requests, NEW e \in Events,
             Decline(r, e) \/ Reject(r, e) \/ Accept(r, e)
      PROVE  [Contract!Next]_(Contract!vars)
  <2>1. pc[r] = "waiting" /\ UNCHANGED builds /\ Promised(r) = {}
    BY <1>1, NothingPromised DEF Decline, Reject, Accept, clouds
  <2>2. /\ Local(r) /\ pc'[r] \in {"answered"} \cup Working
        /\ Promised(r)' = {}
    BY <1>0, <1>1, <2>1 DEF Decline, Reject, Accept, Goto, Respond, Answer, Local,
                      Promised, Working, Looking, TypeOK, clouds, history
  <2> QED BY <2>1, <2>2, StepImplements
<1>2. ASSUME NEW r \in Requests, LookUp(r)
      PROVE  [Contract!Next]_(Contract!vars)
  <2>1. /\ pc[r] \in Working /\ UNCHANGED <<builds, reply>> /\ Local(r)
        /\ pc'[r] \in Working
    BY <1>0, <1>2 DEF LookUp, FindOrgPool, FindDefaultPool, FindPool,
                      FallBackToDefault, FallBackTo404, MissPool, StartOn, Goto,
                      Local, Working, Looking, TypeOK, clouds, history
  <2>2. Promised(r)' = Promised(r)
    BY <2>1 DEF Promised
  <2> QED BY <2>1, <2>2, StepImplements
<1>3. ASSUME NEW r \in Requests, Register(r)
      PROVE  [Contract!Next]_(Contract!vars)
  <2>1. /\ pc[r] \in Working /\ UNCHANGED <<builds, reply>> /\ Local(r)
        /\ pc'[r] \in Working
    BY <1>0, <1>3 DEF Register, Issue, Name, Goto, Local, TypeOK, Working, history
  <2>2. Promised(r)' = Promised(r)
    BY <2>1 DEF Promised
  <2> QED BY <2>1, <2>2, StepImplements
<1>4. ASSUME NEW r \in Requests, pc[r] \in {"jit", "build"}, RetryOrFail(r) \/ Fail(r)
      PROVE  /\ pc[r] \in Working /\ pc'[r] \in Working \cup {"answered"}
             /\ Promised(r) = {} /\ Promised(r)' = {}
             /\ \A q \in Requests \ {r} : UNCHANGED <<pc[q], reply[q]>>
  <2>1. Promised(r) = {}
    BY <1>4, NothingPromised
  <2> QED BY <1>0, <1>4, <2>1 DEF RetryOrFail, Fail, Respond, Answer, Promised,
                                  Working, TypeOK
<1>5. ASSUME NEW r \in Requests,
             \/ RegisterUnanswered(r) \/ RegisterRefused(r) \/ NoInstallation(r)
             \/ BuildRefused(r) \/ GiveUp(r)
      PROVE  [Contract!Next]_(Contract!vars)
  <2>1. pc[r] \in {"jit", "build"} /\ (RetryOrFail(r) \/ Fail(r)) /\ UNCHANGED builds
    BY <1>5 DEF RegisterUnanswered, RegisterRefused, NoInstallation, BuildRefused,
                GiveUp, clouds
  <2>2. Local(r)
    BY <1>4, <1>5, <2>1 DEF RegisterUnanswered, RegisterRefused, NoInstallation,
                 BuildRefused, GiveUp, Issue, Name, Local, clouds, history
  <2> QED BY <1>4, <2>1, <2>2, StepImplements
<1>6. ASSUME NEW r \in Requests, BuildUnanswered(r) \/ BuildUnreadable(r)
      PROVE  [Contract!Next]_(Contract!vars)
  <2>1. pc[r] = "build" /\ Create(r) /\ (RetryOrFail(r) \/ Fail(r))
    BY <1>6 DEF BuildUnanswered, BuildUnreadable
  <2>2. Local(r)
    BY <1>4, <1>6, <2>1 DEF BuildUnanswered, BuildUnreadable, Create, Local
  <2> QED BY <1>4, <2>1, <2>2, StepImplements
<1>7. ASSUME NEW r \in Requests, Build(r)
      PROVE  [Contract!Next]_(Contract!vars)
  <2>1. pc[r] = "build" /\ Create(r) /\ Promised(r) = {} /\ runner[r] <= Wanted(r)
    BY <1>0, <1>7, NothingPromised DEF Build, RInv, OrderInv
  <2>2. Local(r)
    BY <1>0, <1>7 DEF Build, Create, Goto, Respond, Local, TypeOK, history
  <2>3. CASE Goto(r, "jit")
    <3>1. pc'[r] \in Working /\ Promised(r)' = {}
      BY <1>0, <2>1, <2>3 DEF Goto, Promised, Working, TypeOK
    <3> QED BY <2>1, <2>2, <3>1, StepImplements
  <2>4. CASE runner[r] >= Wanted(r) /\ Respond(r, Answer(200, 1 .. runner[r]))
    <3>1. runner[r] \in Nat /\ Wanted(r) \in Nat
      BY <1>0, ServerSettings DEF TypeOK, Wanted, GoodSettings, ConfigType
    <3>2. runner[r] = Wanted(r)
      BY <2>1, <2>4, <3>1
    <3>3. Answer(200, 1 .. runner[r]) \in Replies
      BY <3>1 DEF Answer, Replies
    <3>4. pc'[r] = "answered" /\ Promised(r)' = 1 .. runner[r]
      BY <1>0, <2>4, <3>3, World DEF Respond, Answer, Promised, TypeOK
    <3> QED BY <2>1, <2>2, <3>2, <3>4, StepImplements
  <2> QED BY <1>7, <2>3, <2>4 DEF Build
<1>8. ASSUME NEW r \in Requests, Kill(r)
      PROVE  [Contract!Next]_(Contract!vars)
  <2>1. /\ pc[r] \in Working /\ UNCHANGED <<builds, reply>> /\ Local(r)
        /\ pc'[r] = "dead"
    BY <1>0, <1>8 DEF Kill, Local, TypeOK, clouds, history
  <2>2. Promised(r)' = Promised(r)
    BY <2>1 DEF Promised
  <2> QED BY <2>1, <2>2, StepImplements
<1>9. ASSUME UNCHANGED <<config, pc, builds, reply>>
      PROVE  [Contract!Next]_(Contract!vars)
  <2>1. stageBar' = stageBar
    BY <1>9 DEF stageBar, Stage
  <2>2. startedBar' = startedBar
    BY <1>9 DEF startedBar, Built
  <2>3. promisedBar' = promisedBar
    BY <1>9 DEF promisedBar, Promised
  <2>4. sizesBar' = sizesBar
    BY <1>9 DEF sizesBar
  <2> QED BY <2>1, <2>2, <2>3, <2>4
             DEF Contract!vars, stageBar, startedBar, promisedBar, sizesBar
<1>10. ASSUME NEW r \in Requests, HangUp(r)
       PROVE  [Contract!Next]_(Contract!vars)
  BY <1>9, <1>10 DEF HangUp, handlers, clouds
<1>11. ASSUME NEW cat \in Catalogues, Publish(cat)
       PROVE  [Contract!Next]_(Contract!vars)
  BY <1>9, <1>11 DEF Publish, handlers, clouds
<1>12. CASE UNCHANGED vars
  BY <1>9, <1>12 DEF vars, handlers, clouds
<1> QED
  BY <1>1, <1>2, <1>3, <1>5, <1>6, <1>7, <1>8, <1>10, <1>11, <1>12
     DEF Next, Serve, Deliver, Handle, StartRunner

(* The webhook server implements the contract of RunnerDelivery. *)
THEOREM HandlerImplementsContract == Spec => ImplementsContract
BY InitContract, SpecIInv, NextContract, PTL DEF Spec, ImplementsContract, Contract!Spec
=============================================================================
