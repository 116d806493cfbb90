-------------------------- MODULE Placement_proofs --------------------------
(***************************************************************************)
(* Who gets a runner and where it runs, for any number of deliveries and   *)
(* whatever is published in the registry while they are handled.           *)
(***************************************************************************)
EXTENDS Dispatcher_proofs

(* A job that handleQueuedEvent may start runners for. *)
EligibleEvent(e) ==
  /\ e.kind = "queued" /\ e.complete
  /\ \E l \in Labels \ Ignored : e.labels = {l} /\ Ends(Aliases, l) # {}
  /\ CanHandle(e) \/ config.enabled404

(* A placement that what was read for a delivery justifies. *)
Justified(r, p) ==
  \/ <<event[r].org, p>> \in offered[r]
  \/ /\ event[r].org \in missed[r] /\ ~config.defaultDisabled
     /\ <<DefaultPrefix, p>> \in offered[r]
  \/ /\ p = Pool404 /\ CanHandle(event[r]) /\ event[r].org \in missed[r]
     /\ config.defaultDisabled \/ DefaultPrefix \in missed[r]
  \/ p = Pool404 /\ ~CanHandle(event[r]) /\ config.enabled404

(* What each step has established when the next one is taken. *)
PlaceInv(r) ==
  /\ pc[r] \in Working => EligibleEvent(event[r])
  /\ pc[r] \in Looking =>
       CanHandle(event[r]) /\ PoolsFor(registry, event[r]) \subseteq offered[r]
  /\ pc[r] = "defaultLookup" => event[r].org \in missed[r] /\ ~config.defaultDisabled
  /\ pc[r] \in {"jit", "build"} => Justified(r, pool[r])
  /\ \A b \in builds : b.req = r => Justified(r, b.pool)
  /\ \A i \in Nat : <<r, i>> \in registered => EligibleEvent(event[r])

PInv == IInv /\ \A r \in Requests : PlaceInv(r)

-----------------------------------------------------------------------------
LEMMA ContinueIsEligible ==
  ASSUME NEW e, Verdict(e) = Continue
  PROVE  EligibleEvent(e)
<1>1. /\ SingleLabel(e) /\ Resolved(e) # {} /\ Label(e) \notin Ignored /\ e.complete
      /\ CanHandle(e) \/ config.enabled404
  BY DEF Verdict, Continue
<1>2. e.labels = {Label(e)} /\ Label(e) \in Labels
  BY <1>1 DEF SingleLabel, Label
<1>3. Resolved(e) = Ends(Aliases, Label(e))
  BY <1>2 DEF Resolved, Chain
<1> QED BY <1>1, <1>2, <1>3 DEF EligibleEvent, SingleLabel

(* Nothing has been done for a delivery that has not arrived. *)
LEMMA WaitingIsFresh ==
  ASSUME IInv, NEW r \in Requests, pc[r] = "waiting"
  PROVE  /\ \A i \in Nat : <<r, i>> \notin registered
         /\ \A b \in builds : b.req # r
<1>1. OrderInv(r)
  BY DEF IInv, RInv
<1>2. \A i \in Nat : <<r, i>> \notin registered
  <2> SUFFICES ASSUME NEW i \in Nat, <<r, i>> \in registered PROVE FALSE
    OBVIOUS
  <2>1. runner[r] = 1 /\ i \in 1 .. runner[r] /\ <<r, 1>> \notin registered
    BY <1>1 DEF OrderInv
  <2> QED BY <2>1
<1>3. \A b \in builds : b.runner \in Nat
  BY DEF IInv, TInv, TypeOK
<1> QED BY <1>1, <1>2, <1>3 DEF OrderInv

(* A step that neither lets a delivery in nor places its runners. *)
Later(q) ==
  /\ UNCHANGED <<config, event[q], pool[q]>>
  /\ offered[q] \subseteq offered'[q] /\ missed[q] \subseteq missed'[q]
  /\ \/ pc'[q] \in {pc[q], "answered", "dead"}
     \/ pc[q] \in {"jit", "build"} /\ pc'[q] \in {"jit", "build"}
  /\ pc[q] \in Looking =>
       registry' = registry \/ PoolsFor(registry', event[q]) \subseteq offered'[q]
  /\ \A b \in builds' :
       b.req = q => b \in builds \/ (pc[q] = "build" /\ b.pool = pool[q])
  /\ \A i \in Nat : <<q, i>> \in registered' => <<q, i>> \in registered \/ pc[q] = "jit"

LEMMA LaterPlaceInv ==
  ASSUME NEW q \in Requests, PlaceInv(q), Later(q)
  PROVE  PlaceInv(q)'
<1>1. EligibleEvent(event[q]) => EligibleEvent(event[q])'
  BY DEF Later, EligibleEvent, CanHandle
<1>2. \A p : Justified(q, p) => Justified(q, p)'
  BY DEF Later, Justified, CanHandle
<1>3. pc'[q] \in Working => pc[q] \in Working /\ EligibleEvent(event[q])'
  BY <1>1 DEF Later, PlaceInv, Working, Looking
<1>4. pc'[q] \in Looking => pc'[q] = pc[q]
  BY DEF Later, Looking
<1>5. pc'[q] \in Looking =>
        CanHandle(event[q])' /\ (PoolsFor(registry, event[q]) \subseteq offered[q])'
  BY <1>4 DEF Later, PlaceInv, CanHandle, PoolsFor, Keys
<1>6. pc'[q] = "defaultLookup" => event[q]'.org \in missed'[q] /\ ~config'.defaultDisabled
  BY DEF Later, PlaceInv
<1>7. pc'[q] \in {"jit", "build"} => Justified(q, pool[q])'
  BY <1>2 DEF Later, PlaceInv
<1>8. \A b \in builds' : b.req = q => Justified(q, b.pool)'
  BY <1>2 DEF Later, PlaceInv
<1>9. \A i \in Nat : <<q, i>> \in registered' => EligibleEvent(event[q])'
  BY <1>1 DEF Later, PlaceInv, Working
<1> QED BY <1>3, <1>5, <1>6, <1>7, <1>8, <1>9 DEF PlaceInv

-----------------------------------------------------------------------------
(* While a delivery's runners are started, its placement stays as it is. *)
LEMMA StartingIsLater ==
  ASSUME TypeOK, NEW r \in Requests, StartRunner(r) \/ Kill(r), NEW q \in Requests
  PROVE  Later(q)
<1>1. /\ UNCHANGED <<config, registry, event, pool, offered, missed>>
      /\ pc[r] \in Working
    BY DEF StartRunner, Register, RegisterUnanswered, RegisterRefused, NoInstallation,
           Build, BuildUnanswered, BuildUnreadable, BuildRefused, GiveUp, Kill,
           history, clouds, Working, Looking
<1>2. \/ pc'[q] \in {pc[q], "answered", "dead"}
      \/ pc[q] \in {"jit", "build"} /\ pc'[q] \in {"jit", "build"}
  BY DEF StartRunner, Register, RegisterUnanswered, RegisterRefused, NoInstallation,
         Build, BuildUnanswered, BuildUnreadable, BuildRefused, GiveUp, Kill,
         RetryOrFail, Fail, Respond, Goto, TypeOK
<1>3. \A b \in builds' : b.req = q => b \in builds \/ (pc[q] = "build" /\ b.pool = pool[q])
  BY DEF StartRunner, Register, RegisterUnanswered, RegisterRefused, NoInstallation,
         Build, BuildUnanswered, BuildUnreadable, BuildRefused, GiveUp, Kill,
         Create, clouds
<1>4. \A i \in Nat : <<q, i>> \in registered' => <<q, i>> \in registered \/ pc[q] = "jit"
  BY DEF StartRunner, Register, RegisterUnanswered, RegisterRefused, NoInstallation,
         Build, BuildUnanswered, BuildUnreadable, BuildRefused, GiveUp, Kill,
         Issue, Name, clouds
<1> QED BY <1>1, <1>2, <1>3, <1>4 DEF Later

LEMMA HangUpIsLater ==
  ASSUME NEW r \in Requests, HangUp(r), NEW q \in Requests
  PROVE  Later(q)
BY DEF HangUp, handlers, clouds, history, Later

LEMMA PublishIsLater ==
  ASSUME TypeOK, NEW cat \in Catalogues, Publish(cat), NEW q \in Requests
  PROVE  Later(q)
<1>1. /\ offered'[q] = IF pc[q] \in Looking THEN offered[q] \cup PoolsFor(cat, event[q])
                       ELSE offered[q]
      /\ missed'[q] = IF pc[q] \in Looking THEN missed[q] \cup Gaps(cat, event[q])
                      ELSE missed[q]
      /\ registry' = cat
      /\ UNCHANGED <<config, pc, event, pool, registered, builds>>
  BY DEF Publish, handlers, clouds
<1> QED BY <1>1 DEF Later

(* A delivery is let in or placed by its own steps only. *)
LEMMA OthersAreLater ==
  ASSUME TypeOK, NEW r \in Requests, NEW q \in Requests \ {r},
         Deliver(r) \/ LookUp(r)
  PROVE  Later(q)
BY DEF Deliver, Decline, Reject, Accept, LookUp, FindOrgPool, FindDefaultPool, FindPool,
       FallBackToDefault, FallBackTo404, MissPool, StartOn, Goto, Respond, TypeOK,
       clouds, history, Later

LEMMA DeliverPlaceInv ==
  ASSUME IInv, NEW r \in Requests, PlaceInv(r), Deliver(r)
  PROVE  PlaceInv(r)'
<1>0. TypeOK
  BY DEF IInv, TInv
<1>1. /\ \A i \in Nat : <<r, i>> \notin registered'
      /\ \A b \in builds' : b.req # r
  BY WaitingIsFresh DEF Deliver, Decline, Reject, Accept, clouds
<1>2. ASSUME NEW e \in Events, Decline(r, e) PROVE PlaceInv(r)'
  <2>1. pc'[r] = "answered"
    BY <1>0, <1>2 DEF Decline, Respond, TypeOK
  <2> QED BY <1>1, <2>1 DEF PlaceInv, Working, Looking
<1>3. ASSUME NEW e \in Events, Reject(r, e) PROVE PlaceInv(r)'
  <2>1. /\ pc'[r] = "jit" /\ pool'[r] = Pool404 /\ event'[r] = e /\ config' = config
        /\ ~CanHandle(e)
    BY <1>0, <1>3 DEF Reject, Goto, TypeOK
  <2>2. EligibleEvent(e)
    BY <1>3, ContinueIsEligible DEF Reject
  <2>3. EligibleEvent(event[r])' /\ Justified(r, pool[r])'
    BY <2>1, <2>2 DEF EligibleEvent, Justified, CanHandle
  <2> QED BY <1>1, <2>1, <2>3 DEF PlaceInv, Looking
<1>4. ASSUME NEW e \in Events, Accept(r, e) PROVE PlaceInv(r)'
  <2>1. /\ pc'[r] = "orgLookup" /\ event'[r] = e
        /\ offered'[r] = PoolsFor(registry, e)
        /\ UNCHANGED <<config, registry>> /\ CanHandle(e)
    BY <1>0, <1>4 DEF Accept, Goto, TypeOK
  <2>2. EligibleEvent(e)
    BY <1>4, ContinueIsEligible DEF Accept
  <2>3. /\ EligibleEvent(event[r])' /\ CanHandle(event[r])'
        /\ (PoolsFor(registry, event[r]) \subseteq offered[r])'
    BY <2>1, <2>2 DEF EligibleEvent, CanHandle, PoolsFor, Keys
  <2> QED BY <1>1, <2>1, <2>3 DEF PlaceInv
<1> QED BY <1>2, <1>3, <1>4 DEF Deliver

(* What a lookup reads, and what it concludes. *)
LEMMA FoundIsOffered ==
  ASSUME NEW r \in Requests, PlaceInv(r), pc[r] \in Looking,
         NEW prefix \in {event[r].org, DefaultPrefix}, NEW p \in Pools,
         FindPool(r, prefix, p)
  PROVE  <<prefix, p>> \in offered[r]
<1>1. <<prefix, p>> \in PoolsFor(registry, event[r])
  BY DEF FindPool, PoolsFor
<1> QED BY <1>1 DEF PlaceInv

LEMMA LookUpPlaceInv ==
  ASSUME TypeOK, NEW r \in Requests, PlaceInv(r), LookUp(r)
  PROVE  PlaceInv(r)'
<1>1. /\ UNCHANGED <<config, registry, event, registered, builds>>
      /\ offered' = offered
      /\ pc[r] \in Looking /\ missed[r] \subseteq missed'[r]
  BY DEF LookUp, FindOrgPool, FindDefaultPool, FindPool, FallBackToDefault,
         FallBackTo404, MissPool, StartOn, clouds, history, Looking, TypeOK
<1>2. EligibleEvent(event[r])' /\ CanHandle(event[r]) /\ CanHandle(event[r])'
  BY <1>1 DEF PlaceInv, EligibleEvent, CanHandle, Working
<1>3. \A p : Justified(r, p) => Justified(r, p)'
  BY <1>1 DEF Justified, CanHandle
<1>4. /\ \A b \in builds' : b.req = r => Justified(r, b.pool)'
      /\ \A i \in Nat : <<r, i>> \in registered' => EligibleEvent(event[r])'
  BY <1>1, <1>2, <1>3 DEF PlaceInv
<1>5. ASSUME pc'[r] = "jit", Justified(r, pool[r])' PROVE PlaceInv(r)'
  BY <1>2, <1>4, <1>5 DEF PlaceInv, Looking
<1>6. ASSUME NEW p \in Pools, FindOrgPool(r, p) PROVE PlaceInv(r)'
  <2>1. /\ <<event[r].org, p>> \in offered[r]
        /\ pc'[r] = "jit" /\ pool'[r] = p
    BY <1>1, <1>6, FoundIsOffered DEF FindOrgPool, FindPool, StartOn, Goto, TypeOK
  <2> QED BY <1>1, <1>5, <2>1 DEF Justified
<1>7. ASSUME NEW p \in Pools, FindDefaultPool(r, p) PROVE PlaceInv(r)'
  <2>1. /\ <<DefaultPrefix, p>> \in offered[r]
        /\ pc'[r] = "jit" /\ pool'[r] = p
    BY <1>1, <1>7, FoundIsOffered DEF FindDefaultPool, FindPool, StartOn, Goto, TypeOK
  <2>2. event[r].org \in missed[r] /\ ~config.defaultDisabled
    BY <1>7 DEF FindDefaultPool, PlaceInv
  <2> QED BY <1>1, <1>5, <2>1, <2>2 DEF Justified
<1>8. CASE FallBackToDefault(r)
  <2>1. /\ pc'[r] = "defaultLookup" /\ event[r].org \in missed'[r]
        /\ ~config.defaultDisabled
    BY <1>8 DEF FallBackToDefault, MissPool, Goto, TypeOK
  <2>2. (PoolsFor(registry, event[r]) \subseteq offered[r])'
    BY <1>1 DEF PlaceInv, PoolsFor, Keys
  <2> QED BY <1>1, <1>2, <1>4, <2>1, <2>2 DEF PlaceInv
<1>9. CASE FallBackTo404(r)
  <2>1. pc'[r] = "jit" /\ pool'[r] = Pool404
    BY <1>9 DEF FallBackTo404, StartOn, Goto, TypeOK
  <2>2. /\ event[r].org \in missed'[r]
        /\ config.defaultDisabled \/ DefaultPrefix \in missed'[r]
    BY <1>1, <1>9 DEF FallBackTo404, MissPool, PlaceInv, TypeOK
  <2> QED BY <1>1, <1>2, <1>5, <2>1, <2>2 DEF Justified
<1> QED BY <1>6, <1>7, <1>8, <1>9 DEF LookUp

-----------------------------------------------------------------------------
LEMMA NextPInv == PInv /\ [Next]_vars => PInv'
<1> SUFFICES ASSUME PInv, [Next]_vars PROVE PInv'
  OBVIOUS
<1>0. TypeOK /\ IInv /\ IInv' /\ \A q \in Requests : PlaceInv(q)
  BY NextIInv DEF PInv, IInv, TInv
<1>a. SUFFICES ASSUME NEW q \in Requests PROVE PlaceInv(q)'
  BY <1>0 DEF PInv
<1>1. ASSUME NEW r \in Requests, Deliver(r) PROVE PlaceInv(q)'
  BY <1>0, <1>1, DeliverPlaceInv, OthersAreLater, LaterPlaceInv
<1>2. ASSUME NEW r \in Requests, LookUp(r) PROVE PlaceInv(q)'
  BY <1>0, <1>2, LookUpPlaceInv, OthersAreLater, LaterPlaceInv
<1>3. ASSUME NEW r \in Requests, StartRunner(r) \/ Kill(r) PROVE PlaceInv(q)'
  BY <1>0, <1>3, StartingIsLater, LaterPlaceInv
<1>4. ASSUME NEW r \in Requests, HangUp(r) PROVE PlaceInv(q)'
  BY <1>0, <1>4, HangUpIsLater, LaterPlaceInv
<1>5. ASSUME NEW cat \in Catalogues, Publish(cat) PROVE PlaceInv(q)'
  BY <1>0, <1>5, PublishIsLater, LaterPlaceInv
<1>6. CASE UNCHANGED vars
  <2>1. Later(q)
    BY <1>6 DEF Later, vars, handlers, clouds, history
  <2> QED BY <1>0, <2>1, LaterPlaceInv
<1> QED BY <1>1, <1>2, <1>3, <1>4, <1>5, <1>6 DEF Next, Serve, Handle

LEMMA SpecPInv == Spec => []PInv
<1>1. Init => PInv
  <2>1. Init => IInv
    BY InitTInv, InitRInv DEF IInv
  <2>2. Init => \A r \in Requests : PlaceInv(r)
    BY DEF Init, PlaceInv, Working, Looking
  <2> QED BY <2>1, <2>2 DEF PInv
<1> QED BY <1>1, NextPInv, PTL DEF Spec

(* Every build runs where the registry, as it was while the job was looked *)
(* up, or the settings justify it (startRunnersForJob).                    *)
THEOREM PlacementsAreJustified == Spec => []PlacementIsJustified
<1>1. PInv => PlacementIsJustified
  BY DEF PInv, IInv, TInv, TypeOK, PlaceInv, Justified, PlacementIsJustified
<1> QED BY <1>1, SpecPInv, PTL

(* GitHub is asked for runners for eligible jobs only (handleQueuedEvent). *)
THEOREM OnlyEligibleJobs == Spec => []RunnersOnlyForEligibleJobs
<1>1. ASSUME PInv, NEW n \in registered PROVE EligibleEvent(event[n[1]])
  <2>1. n = <<n[1], n[2]>> /\ n[1] \in Requests /\ n[2] \in Nat
    BY <1>1 DEF PInv, IInv, TInv, TypeOK
  <2> QED BY <1>1, <2>1 DEF PInv, PlaceInv
<1>2. PInv => RunnersOnlyForEligibleJobs
  BY <1>1 DEF EligibleEvent, RunnersOnlyForEligibleJobs
<1> QED BY <1>2, SpecPInv, PTL
=============================================================================
