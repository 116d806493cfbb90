---------------------------- MODULE MCDiscovery ----------------------------
(***************************************************************************)
(* Models for Discovery.  One project that is always the same and one that *)
(* is changed in every way that matters.                                   *)
(***************************************************************************)
EXTENDS Discovery, TLC

CONSTANTS x1, x2, steady, moving, q1, q2, q3,
          acme, ubuntu, large, here, there, on, off, trusted, private,
          vetted, rogue, absent, empty

MCValues == {acme, ubuntu, large, here, there, on, off, trusted, private, vetted, rogue}

MCSite == (q1 :> here) @@ (q2 :> here) @@ (q3 :> there)

MCAllowed ==
  [scope |-> {acme}, runsOn |-> {ubuntu, large}, location |-> {here, there},
   availability |-> {on, off}, type |-> {trusted, private}, remote |-> {vetted}]

Private == [scope |-> acme, runsOn |-> ubuntu, location |-> here,
            availability |-> on, type |-> private, remote |-> absent]

Vetted == [Private EXCEPT !.runsOn = large, !.type = trusted, !.remote = vetted]

Holding(labels, pools) == [active |-> TRUE, labels |-> labels, pools |-> pools]

(* What may become of the project that moves: it is trusted, its remote    *)
(* configuration is replaced or removed, it is withdrawn, moved to the     *)
(* other key with another pool, or deleted.                                *)
Moves ==
  {Holding(Vetted, {q2, q3}),
   Holding([Vetted EXCEPT !.remote = rogue], {q2}),
   Holding([Vetted EXCEPT !.availability = off], {q2}),
   Holding([Private EXCEPT !.location = there], {q2, q3}),
   [Holding(Vetted, {q2}) EXCEPT !.active = FALSE]}

With(move) == (steady :> Holding(Private, {q1})) @@ (moving :> move)

(* A folder without worker pools. *)
Bare == [p \in Projects |-> Holding(Private, {})]

AllWorlds == {With(m) : m \in Moves} \cup {Bare}

(* For executions that overlap: a key comes, goes, and changes its pools. *)
FewWorlds == {With(Holding(Vetted, {q2})), With(Holding(Vetted, {})),
              With(Holding([Private EXCEPT !.location = there], {q3}))}

(* The registry is new, or holds a pool that is no more.                   *)
Left == [key |-> <<acme, large>>, pool |-> q2, project |-> steady,
         type |-> private, remote |-> absent]

MCRegistries == {{}, {Left}}
=============================================================================
