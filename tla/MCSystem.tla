------------------------------ MODULE MCSystem ------------------------------
(***************************************************************************)
(* A model for System: a project whose pool is always there, for the       *)
(* organization's jobs, and one that comes, goes and changes its pools,    *)
(* for everybody's; two executions of discovery, and one delivery.         *)
(***************************************************************************)
EXTENDS System, TLC

CONSTANTS x1, x2, steady, moving, q1, q2, r1,
          acme, default, ubuntu, large, here, on, private, absent

MCValues == {acme, default, ubuntu, large, here, on, private}

MCSite == [q \in Pools |-> here]

MCAllowed ==
  [scope |-> {acme, default}, runsOn |-> {ubuntu, large}, location |-> {here},
   availability |-> {on}, type |-> {private}, remote |-> {}]

Labels4(scope, label) ==
  [scope |-> scope, runsOn |-> label, location |-> here, availability |-> on,
   type |-> private, remote |-> absent]

Folder(labels, pools) ==
  (steady :> [active |-> TRUE, labels |-> Labels4(acme, ubuntu), pools |-> {q1}])
    @@ (moving :> [active |-> TRUE, labels |-> labels, pools |-> pools])

(* The project that moves serves the default key, and loses its pools.     *)
MCWorlds == {Folder(Labels4(default, large), {q2}),
             Folder(Labels4(default, large), {})}

Always == [key |-> <<acme, ubuntu>>, pool |-> q1, project |-> steady,
           type |-> private, remote |-> absent]

MCRegistries == {{Always}}

Job(label) == [kind |-> "queued", labels |-> {label}, org |-> acme, complete |-> TRUE]

MCEvents == {Job(ubuntu), Job(large)}

MCConfigs == [extra: {0}, maxRetries: {0}, enabled404: {FALSE}, has404Pool: {TRUE},
              defaultDisabled: {FALSE}, hasRegistry: {TRUE}]

(* What a handler does once it has a placement is only followed while      *)
(* discovery rests: it neither reads nor writes what the properties are    *)
(* about.                                                                  *)
LookingUp == \/ \A r \in Requests : pc[r] \in {"waiting"} \cup Server!Looking
             \/ \A x \in Executions : step[x] = "idle"

MCAliases == [l \in {} |-> l]
=============================================================================
