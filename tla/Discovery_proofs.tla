-------------------------- MODULE Discovery_proofs --------------------------
(***************************************************************************)
(* What holds of runner discovery for any number of executions, projects   *)
(* and worker pools, however the executions overlap and fail and whatever  *)
(* becomes of the projects.                                                *)
(***************************************************************************)
EXTENDS Discovery, FiniteSetTheorems, TLAPS

(* An execution that does not run knows nothing. *)
Rested(x) ==
  step[x] \notin Running => visited[x] = {} /\ found[x] = {} /\ built[x] = {}

(* One that writes has read everything; and what it has read of a project, *)
(* or is about to, was true of that project in one of the worlds.          *)
ReadInv(x) ==
  /\ step[x] \in {"scanning", "committing"} => visited[x] = Projects /\ found[x] = {}
  /\ \A f \in found[x] : Passes(f[2]) /\ \E w \in Worlds : f[2] = w[f[1]].labels
  /\ \A e \in built[x] : e.type = Trusted => e.remote \in Allowed["remote"]
  /\ \A e \in Permanent :
       e.project \in visited[x] => e \in built[x] \/ \E f \in found[x] : f[1] = e.project

(* A key it will not delete was set by another execution meanwhile. *)
KeysInv(x) ==
  /\ step[x] \notin {"scanning", "committing"} => late[x] = {}
  /\ step[x] = "scanning" => KeysOf(registry) \subseteq held[x] \cup late[x]
  /\ step[x] = "committing" => KeysOf(registry) \subseteq stale[x] \cup late[x]

(* One that nothing has disturbed knows the world as it is. *)
QuietInv(x) ==
  x \in quiet =>
    /\ Knows(x)
    /\ step[x] = "scanning" => KeysOf(registry) \subseteq held[x]
    /\ step[x] = "committing" => KeysOf(registry) \subseteq stale[x]
    /\ step[x] = "succeeded" /\ connected[x] => registry = Catalogue(world)

XInv(x) == Rested(x) /\ ReadInv(x) /\ KeysInv(x) /\ QuietInv(x)

IInv ==
  /\ TypeOK
  /\ world \in Worlds
  /\ TrustedPoolsAreConfigured /\ StaleKeysNeedOverlap
  /\ \A x \in Executions : XInv(x)

-----------------------------------------------------------------------------
LEMMA KeyType ==
  ASSUME NEW es \in SUBSET Entry
  PROVE  KeysOf(es) \subseteq RegistryKeys
BY DEF KeysOf, Entry

LEMMA EntriesType ==
  ASSUME NEW p \in Projects, NEW l \in Labelling, NEW pools \in SUBSET Pools
  PROVE  EntriesOf(p, l, pools) \subseteq Entry
<1>1. /\ l["scope"] \in Values \cup {Absent, Empty}
      /\ l["runsOn"] \in Values \cup {Absent, Empty}
      /\ l["type"] \in Values \cup {Absent, Empty}
      /\ l["remote"] \in Values \cup {Absent, Empty}
  BY DEF Labelling, LabelKeys, Required
<1> QED BY <1>1 DEF EntriesOf, Entry, RegistryKeys, Key

LEMMA ProjectType ==
  ASSUME NEW w \in World, NEW p \in Projects
  PROVE  w[p].labels \in Labelling /\ w[p].pools \in SUBSET Pools
BY DEF World

LEMMA ReplacedType ==
  ASSUME TypeOK, NEW x \in Executions
  PROVE  Replaced(x) \subseteq Entry
BY DEF TypeOK, Replaced

LEMMA EndType ==
  ASSUME TypeOK, NEW x \in Executions, NEW s \in Steps, End(x, s)
  PROVE  /\ step' \in [Executions -> Steps]
         /\ visited' \in [Executions -> SUBSET Projects]
         /\ found' \in [Executions -> SUBSET (Projects \X Labelling)]
         /\ built' \in [Executions -> SUBSET Entry]
         /\ stale' \in [Executions -> SUBSET RegistryKeys]
BY DEF TypeOK, End, Goto

LEMMA ExecType ==
  ASSUME TypeOK, NEW x \in Executions, Exec(x)
  PROVE  /\ registry' \subseteq Entry
         /\ held' \in [Executions -> SUBSET RegistryKeys]
         /\ seen' \in [Executions -> SUBSET RegistryKeys]
         /\ quiet' \subseteq Executions
         /\ late' \in [Executions -> SUBSET RegistryKeys]
         /\ published' \subseteq Entry
         /\ excused' \subseteq RegistryKeys
         /\ UNCHANGED <<world, connected>>
<1>1. KeysOf(built[x]) \subseteq RegistryKeys
  BY KeyType DEF TypeOK
<1> QED BY <1>1, ReplacedType DEF TypeOK, Exec

LEMMA InitTypeOK == Init => TypeOK
BY Settings DEF Init, TypeOK, Steps

LEMMA NextTypeOK == TypeOK /\ [Next]_vars => TypeOK'
<1> SUFFICES ASSUME TypeOK, [Next]_vars PROVE TypeOK'
  OBVIOUS
<1>1. ASSUME NEW w \in Worlds, Change(w) PROVE TypeOK'
  BY <1>1, Settings DEF Change, TypeOK, reading, scans
<1>2. ASSUME NEW x \in Executions, Start(x) PROVE TypeOK'
  BY <1>2 DEF Start, Goto, TypeOK, reading, scans, Steps, Running
<1>3. ASSUME NEW x \in Executions, NEW p \in Projects, FindProject(x, p) PROVE TypeOK'
  <2>1. <<p, world[p].labels>> \in Projects \X Labelling
    BY ProjectType DEF TypeOK
  <2> QED BY <1>3, <2>1 DEF FindProject, TypeOK, scans, history
<1>4. ASSUME NEW x \in Executions, NEW f \in found[x], List(x, f[1], f[2]) PROVE TypeOK'
  <2>1. f[1] \in Projects /\ f[2] \in Labelling
    BY DEF TypeOK
  <2>2. EntriesOf(f[1], f[2], world[f[1]].pools) \subseteq Entry
    BY <2>1, ProjectType, EntriesType DEF TypeOK
  <2> QED BY <1>4, <2>2 DEF List, TypeOK, scans, history
<1>5. ASSUME NEW x \in Executions, SkipUpdate(x) PROVE TypeOK'
  BY <1>5, EndType DEF SkipUpdate, TypeOK, history, Steps
<1>6. ASSUME NEW x \in Executions, BeginScan(x) PROVE TypeOK'
  BY <1>6, KeyType DEF BeginScan, Goto, TypeOK, reading, history, Steps, Running
<1>7. ASSUME NEW x \in Executions, NEW keys \in SUBSET seen[x], EndScan(x, keys)
      PROVE  TypeOK'
  <2>1. keys \subseteq RegistryKeys
    BY DEF TypeOK
  <2>2. CASE Goto(x, "committing") /\ stale' = [stale EXCEPT ![x] = keys]
             /\ UNCHANGED <<reading, late>>
    BY <1>7, <2>1, <2>2 DEF EndScan, Goto, TypeOK, reading, Steps, Running
  <2>3. CASE End(x, "succeeded") /\ late' = [late EXCEPT ![x] = {}]
    BY <1>7, <2>3, EndType DEF EndScan, TypeOK, Steps
  <2> QED BY <1>7, <2>2, <2>3 DEF EndScan
<1>8. ASSUME NEW x \in Executions, Commit(x) PROVE TypeOK'
  BY <1>8, EndType, ExecType DEF Commit, TypeOK, Steps
<1>9. ASSUME NEW x \in Executions, CommitUnanswered(x) PROVE TypeOK'
  BY <1>9, EndType, ExecType DEF CommitUnanswered, TypeOK, Steps
<1>10. ASSUME NEW x \in Executions, Fail(x) PROVE TypeOK'
  BY <1>10, EndType DEF Fail, TypeOK, Steps
<1>11. CASE UNCHANGED vars
  BY <1>11 DEF TypeOK, vars, reading, scans, history
<1> QED
  BY <1>1, <1>2, <1>3, <1>4, <1>5, <1>6, <1>7, <1>8, <1>9, <1>10, <1>11
     DEF Next, Work, Prepare, Publish

(* The model keeps its types, whatever the constants (the whole of Run). *)
THEOREM TypeCorrect == Spec => []TypeOK
BY InitTypeOK, NextTypeOK, PTL DEF Spec
-----------------------------------------------------------------------------
(* What is always due is due now, and was when the labels were read. *)
LEMMA PermanentIsDue ==
  ASSUME NEW w \in Worlds, NEW e \in Permanent
  PROVE  /\ e.project \in Projects
         /\ Matches(w[e.project]) /\ Passes(w[e.project].labels)
         /\ e \in EntriesOf(e.project, w[e.project].labels, w[e.project].pools)
<1>1. e \in Catalogue(w)
  BY DEF Permanent
<1>2. PICK p \in Projects : e \in Due(w, p)
  BY <1>1 DEF Catalogue
<1>3. e.project = p
  BY <1>2 DEF Due, EntriesOf
<1> QED BY <1>2, <1>3 DEF Due

LEMMA PermanentIsListed ==
  ASSUME NEW e \in Permanent, NEW w \in Worlds, NEW now \in Worlds
  PROVE  e \in EntriesOf(e.project, w[e.project].labels, now[e.project].pools)
<1>1. e \in EntriesOf(e.project, w[e.project].labels, w[e.project].pools)
  BY PermanentIsDue
<1>2. e \in EntriesOf(e.project, now[e.project].labels, now[e.project].pools)
  BY PermanentIsDue
<1> QED BY <1>1, <1>2 DEF EntriesOf

(* An execution about to write has every entry that is always due, *)
LEMMA PermanentIsBuilt ==
  ASSUME IInv, NEW x \in Executions, step[x] \in {"scanning", "committing"}
  PROVE  Permanent \subseteq built[x]
<1>1. visited[x] = Projects /\ found[x] = {}
  BY DEF IInv, XInv, ReadInv
<1> QED BY <1>1, PermanentIsDue DEF IInv, XInv, ReadInv

(* and if it knows the folder as it is, exactly those that are due now. *)
LEMMA CatalogueIsBuilt ==
  ASSUME NEW x, ReadInv(x), Knows(x), step[x] \in {"scanning", "committing"}
  PROVE  built[x] = Catalogue(world)
<1>1. visited[x] = Projects /\ found[x] = {}
  BY DEF ReadInv
<1>2. \A p \in Projects : Due(world, p) \subseteq built[x]
  BY <1>1 DEF Knows
<1>3. built[x] \subseteq Catalogue(world)
  BY DEF Knows
<1> QED BY <1>2, <1>3 DEF Catalogue

(* Entries of a project whose labels pass are rightly trusted. *)
LEMMA EntriesAreTrusted ==
  ASSUME NEW p, NEW l, NEW pools, Passes(l), NEW e \in EntriesOf(p, l, pools),
         e.type = Trusted
  PROVE  e.remote \in Allowed["remote"]
BY DEF Passes, EntriesOf

-----------------------------------------------------------------------------
(* What does not concern an execution keeps its invariant. *)
Untouched(y) ==
  /\ UNCHANGED <<world, registry>>
  /\ UNCHANGED <<step[y], connected[y], visited[y], found[y], built[y],
                 held[y], stale[y], late[y]>>
  /\ y \in quiet' => y \in quiet

LEMMA UntouchedXInv ==
  ASSUME NEW y \in Executions, XInv(y), Untouched(y)
  PROVE  XInv(y)'
<1>1. Rested(y)'
  BY DEF XInv, Rested, Untouched
<1>2. ReadInv(y)'
  BY DEF XInv, ReadInv, Untouched, Permanent
<1>3. KeysInv(y)'
  BY DEF XInv, KeysInv, Untouched
<1>4. QuietInv(y)'
  BY DEF XInv, QuietInv, Knows, Untouched, Matches, Catalogue, Due
<1> QED BY <1>1, <1>2, <1>3, <1>4 DEF XInv

(* Reading keeps what is known as long as the folder stays as it is: *)
LEMMA FindProjectKnows ==
  ASSUME TypeOK, NEW x \in Executions, NEW p \in Projects, Knows(x), FindProject(x, p)
  PROVE  Knows(x)'
<1> DEFINE good == Matches(world[p]) /\ Passes(world[p].labels)
<1>1. /\ visited'[x] = visited[x] \cup {p}
      /\ found'[x] = IF good THEN found[x] \cup {<<p, world[p].labels>>} ELSE found[x]
      /\ built' = built /\ world' = world
  BY DEF FindProject, TypeOK, scans, history
<1>2. \A f \in found'[x] : Matches(world[f[1]]) /\ f[2] = world[f[1]].labels
  BY <1>1 DEF Knows
<1>3. ASSUME NEW q \in visited'[x]
      PROVE  <<q, world[q].labels>> \in found'[x] \/ Due(world, q) \subseteq built[x]
  <2>1. CASE q \in visited[x]
    BY <1>1, <2>1 DEF Knows
  <2>2. CASE q = p /\ good
    BY <1>1, <2>2
  <2>3. CASE q = p /\ ~good
    BY <2>3 DEF Due
  <2> QED BY <1>1, <1>3, <2>1, <2>2, <2>3
<1> QED BY <1>1, <1>2, <1>3 DEF Knows, Matches, Catalogue, Due

LEMMA ListKnows ==
  ASSUME TypeOK, NEW x \in Executions, NEW f \in found[x],
         ReadInv(x), Knows(x), List(x, f[1], f[2])
  PROVE  Knows(x)'
<1> DEFINE new == EntriesOf(f[1], f[2], world[f[1]].pools)
<1>1. /\ visited' = visited
      /\ found'[x] = found[x] \ {<<f[1], f[2]>>}
      /\ built'[x] = built[x] \cup new
      /\ world' = world
      /\ f = <<f[1], f[2]>> /\ f[1] \in Projects
  BY DEF List, TypeOK, scans, history
<1>2. Matches(world[f[1]]) /\ f[2] = world[f[1]].labels
  BY DEF Knows
<1>3. new = Due(world, f[1])
  BY <1>2 DEF ReadInv, Due
<1>4. built'[x] \subseteq Catalogue(world)
  BY <1>1, <1>3 DEF Knows, Catalogue
<1>5. \A q \in visited[x] : \/ <<q, world[q].labels>> \in found'[x]
                            \/ Due(world, q) \subseteq built'[x]
  BY <1>1, <1>2, <1>3 DEF Knows
<1>6. \A g \in found'[x] : Matches(world[g[1]]) /\ g[2] = world[g[1]].labels
  BY <1>1 DEF Knows
<1> QED BY <1>1, <1>4, <1>5, <1>6 DEF Knows, Matches, Catalogue, Due

LEMMA InitXInv == Init => \A x \in Executions : XInv(x)
<1> SUFFICES ASSUME Init, NEW x \in Executions PROVE XInv(x)
  OBVIOUS
<1> QED BY DEF Init, XInv, Rested, ReadInv, KeysInv, QuietInv, Knows, Running

LEMMA ChangeXInv ==
  ASSUME TypeOK, NEW y \in Executions, XInv(y), NEW w \in Worlds, Change(w)
  PROVE  XInv(y)'
<1>1. Rested(y)' /\ KeysInv(y)'
  BY DEF XInv, Rested, KeysInv, Change, reading, scans
<1>2. ReadInv(y)'
  BY DEF XInv, ReadInv, Change, reading
<1>3. QuietInv(y)'
  BY DEF QuietInv, Change
<1> QED BY <1>1, <1>2, <1>3 DEF XInv

LEMMA StartXInv ==
  ASSUME TypeOK, NEW x \in Executions, XInv(x), Start(x)
  PROVE  XInv(x)'
<1>1. /\ step'[x] = "reading" /\ late'[x] = {}
      /\ visited'[x] = {} /\ found'[x] = {} /\ built'[x] = {}
  BY DEF XInv, Rested, KeysInv, Start, Goto, Running, TypeOK, reading
<1> QED BY <1>1 DEF XInv, Rested, ReadInv, KeysInv, QuietInv, Knows, Running

LEMMA FindProjectXInv ==
  ASSUME TypeOK, world \in Worlds, NEW x \in Executions, NEW p \in Projects,
         XInv(x), FindProject(x, p)
  PROVE  XInv(x)'
<1> DEFINE good == Matches(world[p]) /\ Passes(world[p].labels)
<1>1. /\ step[x] = "reading" /\ step' = step
      /\ visited'[x] = visited[x] \cup {p}
      /\ found'[x] = IF good THEN found[x] \cup {<<p, world[p].labels>>} ELSE found[x]
      /\ built' = built /\ world' = world /\ registry' = registry
      /\ quiet' = quiet /\ late' = late
  BY DEF FindProject, TypeOK, scans, history
<1>2. Rested(x)' /\ KeysInv(x)'
  BY <1>1 DEF XInv, Rested, KeysInv, Running
<1>3. ReadInv(x)'
  <2>1. \A f \in found'[x] : Passes(f[2]) /\ \E w \in Worlds : f[2] = w[f[1]].labels
    BY <1>1 DEF XInv, ReadInv
  <2>2. ASSUME NEW e \in Permanent, e.project \in visited'[x]
        PROVE  e \in built[x] \/ \E f \in found'[x] : f[1] = e.project
    <3>1. CASE e.project \in visited[x]
      BY <1>1, <3>1 DEF XInv, ReadInv
    <3>2. CASE e.project = p
      <4>1. good
        BY <3>2, PermanentIsDue
      <4>2. <<p, world[p].labels>> \in found'[x]
        BY <1>1, <4>1
      <4>3. <<p, world[p].labels>>[1] = e.project
        BY <3>2
      <4> QED BY <4>2, <4>3
    <3> QED BY <1>1, <2>2, <3>1, <3>2
  <2>3. \A e \in built[x] : e.type = Trusted => e.remote \in Allowed["remote"]
    BY DEF XInv, ReadInv
  <2> QED BY <1>1, <2>1, <2>2, <2>3 DEF ReadInv
<1>4. QuietInv(x)'
  BY <1>1, FindProjectKnows DEF XInv, QuietInv
<1> QED BY <1>2, <1>3, <1>4 DEF XInv

LEMMA ListXInv ==
  ASSUME TypeOK, world \in Worlds, NEW x \in Executions, NEW f \in found[x],
         XInv(x), List(x, f[1], f[2])
  PROVE  XInv(x)'
<1> DEFINE new == EntriesOf(f[1], f[2], world[f[1]].pools)
<1>1. /\ step[x] = "reading" /\ step' = step
      /\ visited' = visited
      /\ found'[x] = found[x] \ {<<f[1], f[2]>>}
      /\ built'[x] = built[x] \cup new
      /\ world' = world /\ registry' = registry
      /\ quiet' = quiet /\ late' = late
      /\ f = <<f[1], f[2]>> /\ f[1] \in Projects
  BY DEF List, TypeOK, scans, history
<1>2. Rested(x)' /\ KeysInv(x)'
  BY <1>1 DEF XInv, Rested, KeysInv, Running
<1>3. Passes(f[2]) /\ \E w \in Worlds : f[2] = w[f[1]].labels
  BY DEF XInv, ReadInv
<1>4. ReadInv(x)'
  <2>1. \A e \in built'[x] : e.type = Trusted => e.remote \in Allowed["remote"]
    BY <1>1, <1>3, EntriesAreTrusted DEF XInv, ReadInv
  <2>2. ASSUME NEW e \in Permanent, e.project \in visited[x]
        PROVE  e \in built'[x] \/ \E g \in found'[x] : g[1] = e.project
    <3>1. CASE e.project = f[1]
      BY <1>1, <1>3, <3>1, PermanentIsListed
    <3>2. CASE e.project # f[1]
      BY <1>1, <2>2, <3>2 DEF XInv, ReadInv
    <3> QED BY <3>1, <3>2
  <2>3. \A g \in found'[x] : Passes(g[2]) /\ \E w \in Worlds : g[2] = w[g[1]].labels
    BY <1>1 DEF XInv, ReadInv
  <2> QED BY <1>1, <2>1, <2>2, <2>3 DEF ReadInv
<1>5. QuietInv(x)'
  BY <1>1, ListKnows DEF XInv, QuietInv
<1> QED BY <1>2, <1>4, <1>5 DEF XInv

LEMMA SkipUpdateXInv ==
  ASSUME TypeOK, NEW x \in Executions, XInv(x), SkipUpdate(x)
  PROVE  XInv(x)'
<1>1. /\ step'[x] = "succeeded" /\ connected'[x] = FALSE /\ late'[x] = {}
      /\ visited'[x] = {} /\ found'[x] = {} /\ built'[x] = {}
  BY DEF SkipUpdate, HasRead, End, Goto, TypeOK, history, XInv, KeysInv
<1> QED BY <1>1 DEF XInv, Rested, ReadInv, KeysInv, QuietInv, Knows, Running

LEMMA BeginScanXInv ==
  ASSUME TypeOK, NEW x \in Executions, XInv(x), BeginScan(x)
  PROVE  XInv(x)'
<1>1. /\ step[x] = "reading" /\ visited[x] = Projects /\ found[x] = {}
      /\ step'[x] = "scanning" /\ held'[x] = KeysOf(registry)
      /\ UNCHANGED <<world, registry, visited, found, built, quiet>>
  BY DEF BeginScan, HasRead, Goto, TypeOK, reading, history
<1>2. Rested(x)' /\ KeysInv(x)'
  BY <1>1 DEF Rested, KeysInv, Running, KeysOf
<1>3. ReadInv(x)'
  BY <1>1 DEF XInv, ReadInv
<1>4. QuietInv(x)'
  BY <1>1 DEF XInv, QuietInv, Knows, Matches, Catalogue, Due, KeysOf
<1> QED BY <1>2, <1>3, <1>4 DEF XInv

LEMMA EndScanXInv ==
  ASSUME TypeOK, NEW x \in Executions, NEW keys, XInv(x), EndScan(x, keys)
  PROVE  XInv(x)'
<1>1. /\ step[x] = "scanning" /\ held[x] \subseteq keys
      /\ UNCHANGED <<world, registry, connected, quiet>>
  BY DEF EndScan
<1>2. CASE Goto(x, "committing") /\ stale' = [stale EXCEPT ![x] = keys]
           /\ UNCHANGED <<reading, late>>
  <2>1. /\ step'[x] = "committing" /\ stale'[x] = keys
        /\ UNCHANGED <<visited, found, built, late>>
    BY <1>2 DEF Goto, TypeOK, reading
  <2>2. Rested(x)' /\ KeysInv(x)'
    BY <1>1, <2>1 DEF XInv, Rested, KeysInv, Running, KeysOf
  <2>3. ReadInv(x)'
    BY <1>1, <2>1 DEF XInv, ReadInv
  <2>4. QuietInv(x)'
    BY <1>1, <2>1 DEF XInv, QuietInv, Knows, Matches, Catalogue, Due, KeysOf
  <2> QED BY <2>2, <2>3, <2>4 DEF XInv
<1>3. CASE keys = {} /\ built[x] = {} /\ End(x, "succeeded") /\ late' = [late EXCEPT ![x] = {}]
  <2>1. /\ step'[x] = "succeeded" /\ late'[x] = {}
        /\ visited'[x] = {} /\ found'[x] = {} /\ built'[x] = {}
    BY <1>3 DEF End, Goto, TypeOK
  <2>2. Rested(x)' /\ KeysInv(x)' /\ ReadInv(x)'
    BY <2>1 DEF Rested, KeysInv, ReadInv
  <2>3. x \in quiet => registry = {} /\ Catalogue(world) = {}
    BY <1>1, <1>3, CatalogueIsBuilt DEF XInv, QuietInv, KeysOf
  <2>4. QuietInv(x)'
    BY <1>1, <2>1, <2>3 DEF QuietInv, Knows, Catalogue, Due, Matches
  <2> QED BY <2>2, <2>4 DEF XInv
<1> QED BY <1>2, <1>3 DEF EndScan

LEMMA FailXInv ==
  ASSUME TypeOK, NEW x \in Executions, XInv(x), Fail(x)
  PROVE  XInv(x)'
<1>1. /\ step'[x] = "failed" /\ x \notin quiet' /\ late'[x] = {}
      /\ visited'[x] = {} /\ found'[x] = {} /\ built'[x] = {}
  BY DEF Fail, End, Goto, TypeOK
<1> QED BY <1>1 DEF XInv, Rested, ReadInv, KeysInv, QuietInv, Knows, Running

(* A transaction, seen by the execution that makes it, *)
LEMMA ExecXInv ==
  ASSUME TypeOK, NEW x \in Executions, XInv(x), Exec(x),
         NEW s \in {"succeeded", "failed"}, End(x, s)
  PROVE  XInv(x)'
<1>1. /\ step[x] = "committing" /\ step'[x] = s /\ late'[x] = {}
      /\ visited'[x] = {} /\ found'[x] = {} /\ built'[x] = {}
  BY DEF Exec, End, Goto, TypeOK
<1>2. Rested(x)' /\ KeysInv(x)' /\ ReadInv(x)'
  BY <1>1 DEF Rested, KeysInv, ReadInv
<1>3. ASSUME x \in quiet PROVE registry' = Catalogue(world)
  <2>1. built[x] = Catalogue(world) /\ KeysOf(registry) \subseteq stale[x]
    BY <1>1, <1>3, CatalogueIsBuilt DEF XInv, QuietInv
  <2>2. registry' = Replaced(x)
    BY DEF Exec
  <2> QED BY <2>1, <2>2 DEF Replaced, KeysOf
<1>4. Catalogue(world)' = Catalogue(world)
  BY DEF Exec, Catalogue, Due, Matches
<1>5. quiet' \subseteq quiet
  BY DEF Exec
<1>6. QuietInv(x)'
  BY <1>1, <1>3, <1>4, <1>5 DEF QuietInv, Knows
<1> QED BY <1>2, <1>6 DEF XInv

(* and by another. *)
LEMMA ExecOtherXInv ==
  ASSUME TypeOK, NEW x \in Executions, NEW y \in Executions \ {x}, XInv(y), Exec(x),
         NEW s, End(x, s)
  PROVE  XInv(y)'
<1>1. /\ step'[y] = step[y] /\ visited'[y] = visited[y] /\ found'[y] = found[y]
      /\ built'[y] = built[y] /\ stale'[y] = stale[y]
      /\ UNCHANGED <<world, connected>>
  BY DEF Exec, End, Goto, TypeOK
<1>2. Rested(y)'
  BY <1>1 DEF XInv, Rested
<1>3. ReadInv(y)'
  BY <1>1 DEF XInv, ReadInv
<1>4. KeysInv(y)'
  <2>1. KeysOf(registry') \subseteq KeysOf(registry) \cup KeysOf(built[x])
    BY DEF Exec, Replaced, KeysOf
  <2>2. /\ step[y] \notin {"scanning", "committing"} => late'[y] = late[y]
        /\ step[y] = "scanning" => held'[y] = held[y] \cap KeysOf(registry')
        /\ step[y] \in {"scanning", "committing"} =>
             late'[y] = late[y] \cup KeysOf(built[x])
    BY DEF Exec
  <2>3. KeysOf(registry)' = KeysOf(registry')
    BY DEF KeysOf
  <2> QED BY <1>1, <2>1, <2>2, <2>3 DEF XInv, KeysInv
<1>5. QuietInv(y)'
  <2>1. y \in quiet' => y \in quiet /\ step[y] \notin {"scanning", "committing", "succeeded"}
    BY DEF Exec
  <2> QED BY <1>1, <2>1 DEF XInv, QuietInv, Knows, Matches, Catalogue, Due
<1> QED BY <1>2, <1>3, <1>4, <1>5 DEF XInv

LEMMA NextXInv ==
  ASSUME TypeOK, world \in Worlds, \A y \in Executions : XInv(y), [Next]_vars,
         NEW y \in Executions
  PROVE  XInv(y)'
<1>1. ASSUME NEW w \in Worlds, Change(w) PROVE XInv(y)'
  BY <1>1, ChangeXInv
<1>2. ASSUME NEW x \in Executions, Start(x) PROVE XInv(y)'
  <2>1. CASE x # y
    <3>1. Untouched(y)
      BY <1>2, <2>1 DEF Start, Goto, Untouched, TypeOK, reading, scans
    <3> QED BY <3>1, UntouchedXInv
  <2> QED BY <1>2, <2>1, StartXInv
<1>3. ASSUME NEW x \in Executions, NEW p \in Projects, FindProject(x, p) PROVE XInv(y)'
  <2>1. CASE x # y
    <3>1. Untouched(y)
      BY <1>3, <2>1 DEF FindProject, Untouched, TypeOK, scans, history
    <3> QED BY <3>1, UntouchedXInv
  <2> QED BY <1>3, <2>1, FindProjectXInv
<1>4. ASSUME NEW x \in Executions, NEW f \in found[x], List(x, f[1], f[2]) PROVE XInv(y)'
  <2>1. CASE x # y
    <3>1. Untouched(y)
      BY <1>4, <2>1 DEF List, Untouched, TypeOK, scans, history
    <3> QED BY <3>1, UntouchedXInv
  <2> QED BY <1>4, <2>1, ListXInv
<1>5. ASSUME NEW x \in Executions, SkipUpdate(x) PROVE XInv(y)'
  <2>1. CASE x # y
    <3>1. Untouched(y)
      BY <1>5, <2>1 DEF SkipUpdate, End, Goto, Untouched, TypeOK, history
    <3> QED BY <3>1, UntouchedXInv
  <2> QED BY <1>5, <2>1, SkipUpdateXInv
<1>6. ASSUME NEW x \in Executions, BeginScan(x) PROVE XInv(y)'
  <2>1. CASE x # y
    <3>1. Untouched(y)
      BY <1>6, <2>1 DEF BeginScan, Goto, Untouched, TypeOK, reading, history
    <3> QED BY <3>1, UntouchedXInv
  <2> QED BY <1>6, <2>1, BeginScanXInv
<1>7. ASSUME NEW x \in Executions, NEW keys, EndScan(x, keys) PROVE XInv(y)'
  <2>1. CASE x # y
    <3>1. Untouched(y)
      BY <1>7, <2>1 DEF EndScan, End, Goto, Untouched, TypeOK, reading
    <3> QED BY <3>1, UntouchedXInv
  <2> QED BY <1>7, <2>1, EndScanXInv
<1>8. ASSUME NEW x \in Executions, Exec(x), NEW s \in {"succeeded", "failed"}, End(x, s)
      PROVE  XInv(y)'
  <2>1. CASE x # y
    BY <1>8, <2>1, ExecOtherXInv
  <2> QED BY <1>8, <2>1, ExecXInv
<1>9. ASSUME NEW x \in Executions, Fail(x) PROVE XInv(y)'
  <2>1. CASE x # y
    <3>1. Untouched(y)
      BY <1>9, <2>1 DEF Fail, End, Goto, Untouched, TypeOK
    <3> QED BY <3>1, UntouchedXInv
  <2> QED BY <1>9, <2>1, FailXInv
<1>10. CASE UNCHANGED vars
  <2>1. Untouched(y)
    BY <1>10 DEF Untouched, vars, reading, scans, history
  <2> QED BY <2>1, UntouchedXInv
<1> QED
  BY <1>1, <1>2, <1>3, <1>4, <1>5, <1>6, <1>7, <1>8, <1>9, <1>10
     DEF Next, Work, Prepare, Publish, Commit, CommitUnanswered

(* Only a transaction touches the registry and what is said of it. *)
Quiescent == UNCHANGED <<registry, published, excused>>

LEMMA StepOfRegistry ==
  ASSUME [Next]_vars
  PROVE  Quiescent \/ \E x \in Executions : Exec(x)
BY DEF Next, Work, Prepare, Publish, Change, Start, FindProject, List, SkipUpdate, BeginScan, EndScan,
       Commit, CommitUnanswered, Fail, Quiescent, vars, history

LEMMA NextRegistry ==
  ASSUME IInv, [Next]_vars
  PROVE  TrustedPoolsAreConfigured' /\ StaleKeysNeedOverlap'
<1>1. CASE Quiescent
  BY <1>1 DEF Quiescent, IInv, TrustedPoolsAreConfigured, StaleKeysNeedOverlap
<1>2. ASSUME NEW x \in Executions, Exec(x)
      PROVE  TrustedPoolsAreConfigured' /\ StaleKeysNeedOverlap'
  <2>1. /\ step[x] = "committing"
        /\ registry' = Replaced(x) /\ published' = built[x] /\ excused' = late[x]
    BY <1>2 DEF Exec
  <2>2. TrustedPoolsAreConfigured'
    BY <2>1 DEF IInv, XInv, ReadInv, TrustedPoolsAreConfigured, Replaced
  <2>3. KeysOf(registry) \subseteq stale[x] \cup late[x]
    BY <2>1 DEF IInv, XInv, KeysInv
  <2>4. StaleKeysNeedOverlap'
    BY <2>1, <2>3 DEF StaleKeysNeedOverlap, Replaced, KeysOf
  <2> QED BY <2>2, <2>4
<1> QED BY <1>1, <1>2, StepOfRegistry

LEMMA InitIInv == Init => IInv
<1> SUFFICES ASSUME Init PROVE IInv
  OBVIOUS
<1>1. TrustedPoolsAreConfigured /\ StaleKeysNeedOverlap
  BY Inherited DEF Init, TrustedPoolsAreConfigured, StaleKeysNeedOverlap
<1> QED BY <1>1, InitTypeOK, InitXInv DEF Init, IInv

LEMMA NextIInv == IInv /\ [Next]_vars => IInv'
<1> SUFFICES ASSUME IInv, [Next]_vars PROVE IInv'
  OBVIOUS
<1>1. TypeOK'
  BY NextTypeOK DEF IInv
<1>2. world' \in Worlds
  BY DEF IInv, Next, Work, Prepare, Publish, Change, Start, FindProject, List, SkipUpdate, BeginScan,
         EndScan, Commit, CommitUnanswered, Exec, Fail, vars
<1>3. \A y \in Executions : XInv(y)'
  BY NextXInv DEF IInv
<1>4. TrustedPoolsAreConfigured' /\ StaleKeysNeedOverlap'
  BY NextRegistry
<1> QED BY <1>1, <1>2, <1>3, <1>4 DEF IInv

LEMMA SpecIInv == Spec => []IInv
BY InitIInv, NextIInv, PTL DEF Spec

-----------------------------------------------------------------------------
(* An execution that nothing disturbs leaves the registry exactly as the   *)
(* folder calls for, whatever others left in it (updateRegistry).          *)
THEOREM UndisturbedRunsAreExact == Spec => []UndisturbedRunIsExact
<1>1. IInv => UndisturbedRunIsExact
  BY DEF IInv, TypeOK, XInv, QuietInv, UndisturbedRunIsExact
<1> QED BY <1>1, SpecIInv, PTL

(* A key outlives a transaction only if another execution set it between   *)
(* the SCAN and the EXEC of the one that made it (updateRegistry).         *)
THEOREM StaleKeysComeFromOverlap == Spec => []StaleKeysNeedOverlap
<1>1. IInv => StaleKeysNeedOverlap
  BY DEF IInv
<1> QED BY <1>1, SpecIInv, PTL

(* A pool in the registry as trusted has an allowed remote configuration   *)
(* (filterAndValidateProjectLabels and buildRegistry).                     *)
THEOREM TrustedPoolsHaveConfigurations == Spec => []TrustedPoolsAreConfigured
<1>1. IInv => TrustedPoolsAreConfigured
  BY DEF IInv
<1> QED BY <1>1, SpecIInv, PTL

(* What is due all along was listed, whatever an execution listed. *)
LEMMA PermanentIsKept ==
  ASSUME IInv, [Next]_vars
  PROVE  registry \cap Permanent \subseteq registry'
<1>1. CASE Quiescent
  BY <1>1 DEF Quiescent
<1>2. ASSUME NEW x \in Executions, Exec(x)
      PROVE  registry \cap Permanent \subseteq registry'
  <2>1. step[x] = "committing" /\ registry' = Replaced(x)
    BY <1>2 DEF Exec
  <2>2. Permanent \subseteq built[x]
    BY <2>1, PermanentIsBuilt
  <2> QED BY <2>1, <2>2 DEF Replaced
<1> QED BY <1>1, <1>2, StepOfRegistry

(* No execution, however it overlaps others, takes out of the registry     *)
(* what is due all along (Run).                                            *)
THEOREM PermanentPoolsAreKept == Spec => PermanentPoolsStay
<1>1. IInv /\ [Next]_vars => [registry \cap Permanent \subseteq registry']_vars
  BY PermanentIsKept
<1> QED BY <1>1, SpecIInv, PTL DEF Spec, PermanentPoolsStay

-----------------------------------------------------------------------------
(* What a step does to what an execution knows, *)
LEMMA StepOfReading ==
  ASSUME TypeOK, [Next]_vars, NEW y \in Executions
  PROVE  \/ UNCHANGED <<visited[y], found[y], built[y]>>
         \/ visited'[y] = {} /\ found'[y] = {} /\ built'[y] = {}
         \/ \E p \in Projects : FindProject(y, p)
         \/ \E f \in found[y] : List(y, f[1], f[2])
<1> DEFINE Same == UNCHANGED <<visited[y], found[y], built[y]>>
           None == visited'[y] = {} /\ found'[y] = {} /\ built'[y] = {}
<1>1. ASSUME NEW w \in Worlds, Change(w) PROVE Same
  BY <1>1 DEF Change, reading
<1>2. ASSUME NEW x \in Executions, Start(x) PROVE Same
  BY <1>2 DEF Start, reading
<1>3. ASSUME NEW x \in Executions, NEW p \in Projects, FindProject(x, p), x # y PROVE Same
  BY <1>3 DEF FindProject, TypeOK
<1>4. ASSUME NEW x \in Executions, NEW f \in found[x], List(x, f[1], f[2]), x # y PROVE Same
  BY <1>4 DEF List, TypeOK
<1>5. ASSUME NEW x \in Executions, NEW s, End(x, s) PROVE Same \/ None
  BY <1>5 DEF End, TypeOK
<1>6. ASSUME NEW x \in Executions, BeginScan(x) PROVE Same
  BY <1>6 DEF BeginScan, reading
<1>7. ASSUME NEW x \in Executions, NEW keys, EndScan(x, keys) PROVE Same \/ None
  BY <1>5, <1>7 DEF EndScan, reading
<1>8. CASE UNCHANGED vars
  BY <1>8 DEF vars, reading
<1> QED
  BY <1>1, <1>2, <1>3, <1>4, <1>5, <1>6, <1>7, <1>8
     DEF Next, Work, Prepare, Publish, SkipUpdate, Commit, CommitUnanswered, Fail

LEMMA NextKnows ==
  ASSUME IInv, [Next]_vars, world' = world, NEW y \in Executions, Knows(y)
  PROVE  Knows(y)'
<1>1. CASE UNCHANGED <<visited[y], found[y], built[y]>>
  BY <1>1 DEF Knows, Matches, Catalogue, Due
<1>2. CASE visited'[y] = {} /\ found'[y] = {} /\ built'[y] = {}
  BY <1>2 DEF Knows
<1>3. ASSUME NEW p \in Projects, FindProject(y, p) PROVE Knows(y)'
  BY <1>3, FindProjectKnows DEF IInv
<1>4. ASSUME NEW f \in found[y], List(y, f[1], f[2]) PROVE Knows(y)'
  BY <1>4, ListKnows DEF IInv, XInv
<1> QED BY <1>1, <1>2, <1>3, <1>4, StepOfReading DEF IInv

(* and to the keys set behind its back. *)
LEMMA StepOfLate ==
  ASSUME TypeOK, [Next]_vars, NEW y \in Executions
  PROVE  \/ late'[y] \subseteq late[y]
         \/ \E x \in Executions : Exec(x) /\ late'[y] \subseteq late[y] \cup KeysOf(built[x])
<1>1. \/ late' = late
      \/ \E x \in Executions : late' = [late EXCEPT ![x] = {}]
      \/ \E x \in Executions : Exec(x)
  BY DEF Next, Work, Prepare, Publish, Change, Start, FindProject, List, SkipUpdate,
         BeginScan, EndScan, Commit, CommitUnanswered, Fail, vars, history
<1>2. ASSUME NEW x \in Executions, Exec(x)
      PROVE  late'[y] \subseteq late[y] \cup KeysOf(built[x])
  BY <1>2 DEF Exec
<1> QED BY <1>1, <1>2 DEF TypeOK

(* An up-to-date execution sets what is due, and deletes every other key.  *)
LEMMA ExecRepairs ==
  ASSUME IInv, NEW x \in Executions, Informed(x), Exec(x)
  PROVE  registry' = Catalogue(world)
<1>1. step[x] = "committing" /\ registry' = Replaced(x)
  BY DEF Exec
<1>2. built[x] = Catalogue(world)
  BY <1>1, CatalogueIsBuilt DEF IInv, XInv, Informed
<1>3. KeysOf(registry) \subseteq stale[x] \cup KeysOf(built[x])
  BY <1>1, <1>2 DEF IInv, XInv, KeysInv, Informed
<1> QED BY <1>1, <1>2, <1>3 DEF Replaced, KeysOf

LEMMA UpdateRepairs ==
  ASSUME IInv, NEW x \in Executions, Informed(x), Update(x)
  PROVE  registry' = Catalogue(world)
<1>1. CASE Exec(x)
  BY <1>1, ExecRepairs
<1>2. ASSUME NEW keys, EndScan(x, keys), Goto(x, "succeeded")
      PROVE  registry' = Catalogue(world)
  <2>1. step[x] = "scanning" /\ held[x] \subseteq keys /\ registry' = registry
    BY <1>2 DEF EndScan
  <2>2. keys = {} /\ built[x] = {}
    BY <1>2 DEF EndScan, Goto, IInv, TypeOK
  <2>3. Catalogue(world) = {}
    BY <2>1, <2>2, CatalogueIsBuilt DEF IInv, XInv, Informed
  <2>4. KeysOf(registry) \subseteq held[x] \cup late[x]
    BY <2>1 DEF IInv, XInv, KeysInv
  <2>5. KeysOf(registry) = {}
    BY <2>1, <2>2, <2>3, <2>4 DEF Informed, KeysOf
  <2> QED BY <2>1, <2>3, <2>5 DEF KeysOf
<1> QED BY <1>1, <1>2 DEF Update, Publish, Commit, CommitUnanswered

LEMMA NextInformed ==
  ASSUME IInv, [Next]_vars, world' = world,
         \A x \in Executions : Knows(x),
         NEW y \in Executions, Informed(y)
  PROVE  Informed(y)'
<1>1. Knows(y)'
  BY NextKnows
<1>2. KeysOf(Catalogue(world))' = KeysOf(Catalogue(world))
  BY DEF KeysOf, Catalogue, Due, Matches
<1>3. ASSUME NEW x \in Executions, Exec(x)
      PROVE  KeysOf(built[x]) = KeysOf(Catalogue(world))
  BY <1>3, CatalogueIsBuilt DEF Exec, IInv, XInv
<1>4. late'[y] \subseteq KeysOf(Catalogue(world))
  BY <1>3, StepOfLate DEF IInv, Informed
<1> QED BY <1>1, <1>2, <1>4 DEF Informed

(* While the folder does not change, any one execution that is informed    *)
(* repairs the registry, and when all are informed they remain so and keep *)
(* it right (updateRegistry): what RegistryConverges rests on.             *)
THEOREM RegistryIsRepaired == Spec => RepairsLast
<1>1. ASSUME IInv, [Next]_vars, world' = world
      PROVE  /\ \A x \in Executions : Informed(x) /\ Update(x) => registry' = Catalogue(world)
             /\ (\A x \in Executions : Informed(x)) =>
                  /\ \A x \in Executions : Informed(x)'
                  /\ registry = Catalogue(world) => registry' = Catalogue(world)
  <2>1. CASE Quiescent
    BY <1>1, <2>1, UpdateRepairs, NextInformed DEF Quiescent, Informed
  <2>2. ASSUME NEW x \in Executions, Exec(x), Informed(x)
        PROVE  registry' = Catalogue(world)
    BY <1>1, <2>2, ExecRepairs
  <2> QED
    BY <1>1, <2>1, <2>2, StepOfRegistry, UpdateRepairs, NextInformed DEF Informed
<1>2. IInv /\ [Next]_vars =>
        [world' = world =>
           /\ \A x \in Executions : Informed(x) /\ Update(x) => registry' = Catalogue(world)
           /\ (\A x \in Executions : Informed(x)) =>
                /\ \A x \in Executions : Informed(x)'
                /\ registry = Catalogue(world) => registry' = Catalogue(world)]_vars
  BY <1>1
<1> QED BY <1>2, SpecIInv, PTL DEF Spec, RepairsLast

(* How all come to be informed once the folder stays as it is: one that    *)
(* does not run always is; what one knows remains true; and when all know  *)
(* the folder, a transaction of theirs sets no key that is not due, so     *)
(* that who is informed stays so, and who is not will be when it ends      *)
(* (ExecutionsMakeProgress; Run, updateRegistry).                          *)
KnowledgeLasts ==
  [][world' = world =>
       /\ \A x \in Executions : Knows(x) => Knows(x)'
       /\ (\A x \in Executions : Knows(x)) =>
            \A x \in Executions : Informed(x) => Informed(x)']_vars

THEOREM ExecutionsBecomeInformed ==
  Spec => /\ [](\A x \in Executions : step[x] \notin Running => Informed(x))
          /\ KnowledgeLasts
<1>1. IInv => \A x \in Executions : step[x] \notin Running => Informed(x)
  BY DEF IInv, XInv, Rested, KeysInv, Knows, Informed, Running
<1>2. IInv /\ [Next]_vars =>
        [world' = world =>
           /\ \A x \in Executions : Knows(x) => Knows(x)'
           /\ (\A x \in Executions : Knows(x)) =>
                \A x \in Executions : Informed(x) => Informed(x)']_vars
  BY NextInformed, NextKnows
<1> QED BY <1>1, <1>2, SpecIInv, PTL DEF Spec, KnowledgeLasts

(* So the registry does converge (as in RegistryConverges) from any moment *)
(* on at which no execution runs and after which the folder stays as it    *)
(* is, if updates go on being completed: nothing else is asked of the      *)
(* executions, which may overlap, fail, and be killed (updateRegistry).    *)
AtRest  == \A x \in Executions : step[x] \notin Running
IsRight == registry = Catalogue(world)

AllInformed == \A x \in Executions : Informed(x)
SomeUpdate  == \E x \in Executions : Update(x)
Settled     == UNCHANGED world

THEOREM RegistryConvergesFromRest ==
  Spec /\ <>(AtRest /\ [][Settled]_vars) /\ []<><<SomeUpdate>>_vars
    => <>[]IsRight
<1>1. IInv /\ AtRest => AllInformed
  BY DEF IInv, XInv, Rested, KeysInv, Knows, Informed, Running, AtRest, AllInformed
<1>2. IInv /\ [Next]_vars /\ [Settled]_vars /\ AllInformed => AllInformed'
  <2> SUFFICES ASSUME IInv, [Next]_vars, [Settled]_vars, AllInformed
               PROVE  AllInformed'
    OBVIOUS
  <2>1. world' = world
    BY DEF vars, Settled
  <2> QED BY <2>1, NextInformed DEF AllInformed, Informed
<1>3. IInv /\ <<SomeUpdate>>_vars /\ AllInformed => IsRight'
  <2> SUFFICES ASSUME IInv, NEW x \in Executions, Update(x), Informed(x)
               PROVE  IsRight'
    BY DEF AllInformed, SomeUpdate
  <2>1. world' = world
    BY DEF Update, Publish, Commit, CommitUnanswered, Exec, EndScan
  <2>2. Catalogue(world)' = Catalogue(world)
    BY <2>1 DEF Catalogue, Due, Matches
  <2> QED BY <2>2, UpdateRepairs DEF IsRight
<1>4. IInv /\ [Next]_vars /\ [Settled]_vars /\ AllInformed /\ IsRight => IsRight'
  <2> SUFFICES ASSUME IInv, [Next]_vars, [Settled]_vars, AllInformed, IsRight
               PROVE  IsRight'
    OBVIOUS
  <2>1. world' = world
    BY DEF vars, Settled
  <2>2. Catalogue(world)' = Catalogue(world)
    BY <2>1 DEF Catalogue, Due, Matches
  <2>3. registry' = registry \/ \E x \in Executions : Exec(x)
    BY StepOfRegistry DEF IInv, Quiescent
  <2> QED BY <2>2, <2>3, ExecRepairs DEF IsRight, AllInformed
<1>5. []IInv /\ [][Next]_vars /\ AtRest /\ [][Settled]_vars => []AllInformed
  BY <1>1, <1>2, PTL
<1>6. []IInv /\ []AllInformed /\ []<><<SomeUpdate>>_vars => <>IsRight
  BY <1>3, PTL
<1>7. []IInv /\ [][Next]_vars /\ [][Settled]_vars /\ []AllInformed /\ IsRight => []IsRight
  BY <1>4, PTL
<1> QED BY <1>5, <1>6, <1>7, SpecIInv, PTL DEF Spec

-----------------------------------------------------------------------------
(* Why an execution ends: StepsLeft is a natural number and falls.  What is *)
(* still to be listed is no more than what has been come by.               *)
FiniteX(x) ==
  /\ IsFiniteSet(found[x])
  /\ Cardinality(Projects \ visited[x]) + Cardinality(found[x]) <= Cardinality(Projects)

FiniteInv == IInv /\ \A x \in Executions : FiniteX(x)

StepLimit == 2 * Cardinality(Projects) + 3

LEMMA ToVisit ==
  ASSUME NEW x \in Executions, IsFiniteSet(found[x])
  PROVE  /\ IsFiniteSet(Projects \ visited[x])
         /\ Cardinality(Projects) \in Nat
         /\ Cardinality(Projects \ visited[x]) \in Nat
         /\ Cardinality(found[x]) \in Nat
<1>1. IsFiniteSet(Projects \ visited[x])
  BY FiniteFolder, FS_Difference
<1> QED BY <1>1, FiniteFolder, FS_CardinalityType

(* Of the projects not come by, one is; it is to be listed or is not. *)
LEMMA FindProjectCounts ==
  ASSUME TypeOK, NEW x \in Executions, IsFiniteSet(found[x]),
         NEW p \in Projects, FindProject(x, p)
  PROVE  /\ IsFiniteSet(found'[x])
         /\ Cardinality(Projects \ visited'[x]) = Cardinality(Projects \ visited[x]) - 1
         /\ Cardinality(found'[x]) \in Nat
         /\ Cardinality(found'[x]) <= Cardinality(found[x]) + 1
<1>1. /\ p \notin visited[x]
      /\ Projects \ visited'[x] = (Projects \ visited[x]) \ {p}
      /\ \/ found'[x] = found[x]
         \/ found'[x] = found[x] \cup {<<p, world[p].labels>>}
  BY DEF FindProject, TypeOK
<1>2. Cardinality(Projects \ visited'[x]) = Cardinality(Projects \ visited[x]) - 1
  BY <1>1, ToVisit, FS_RemoveElement
<1>3. CASE found'[x] = found[x]
  <2>1. Cardinality(found[x]) \in Nat
    BY ToVisit
  <2>2. Cardinality(found'[x]) = Cardinality(found[x]) /\ IsFiniteSet(found'[x])
    BY <1>3
  <2> QED BY <1>2, <2>1, <2>2
<1>4. CASE found'[x] = found[x] \cup {<<p, world[p].labels>>}
  <2>1. /\ IsFiniteSet(found'[x])
        /\ \/ Cardinality(found'[x]) = Cardinality(found[x])
           \/ Cardinality(found'[x]) = Cardinality(found[x]) + 1
    BY <1>4, FS_AddElement
  <2>2. Cardinality(found[x]) \in Nat
    BY ToVisit
  <2> QED BY <1>2, <2>1, <2>2
<1> QED BY <1>1, <1>3, <1>4

LEMMA ListCounts ==
  ASSUME TypeOK, NEW x \in Executions, IsFiniteSet(found[x]),
         NEW f \in found[x], List(x, f[1], f[2])
  PROVE  /\ visited'[x] = visited[x]
         /\ IsFiniteSet(found'[x])
         /\ Cardinality(found'[x]) = Cardinality(found[x]) - 1
<1>1. visited'[x] = visited[x] /\ found'[x] = found[x] \ {f}
  BY DEF List, TypeOK
<1> QED BY <1>1, FS_RemoveElement

LEMMA NextFiniteInv == FiniteInv /\ [Next]_vars => FiniteInv'
<1> SUFFICES ASSUME FiniteInv, [Next]_vars, NEW x \in Executions
             PROVE  FiniteX(x)'
  BY NextIInv DEF FiniteInv
<1>0. TypeOK /\ IsFiniteSet(found[x]) /\ FiniteX(x)
  BY DEF FiniteInv, IInv, FiniteX
<1>n. /\ Cardinality(Projects) \in Nat
      /\ Cardinality(Projects \ visited[x]) \in Nat
      /\ Cardinality(found[x]) \in Nat
  BY <1>0, ToVisit
<1>1. CASE UNCHANGED <<visited[x], found[x], built[x]>>
  BY <1>0, <1>1 DEF FiniteX
<1>2. CASE visited'[x] = {} /\ found'[x] = {}
  <2>1. Projects \ visited'[x] = Projects
    BY <1>2
  <2>2. IsFiniteSet(found'[x]) /\ Cardinality(found'[x]) = 0
    BY <1>2, FS_EmptySet
  <2> QED BY <1>n, <2>1, <2>2 DEF FiniteX
<1>3. ASSUME NEW p \in Projects, FindProject(x, p) PROVE FiniteX(x)'
  <2>1. /\ IsFiniteSet(found'[x])
        /\ Cardinality(Projects \ visited'[x]) = Cardinality(Projects \ visited[x]) - 1
        /\ Cardinality(found'[x]) \in Nat
        /\ Cardinality(found'[x]) <= Cardinality(found[x]) + 1
    BY <1>0, <1>3, FindProjectCounts
  <2> QED BY <1>0, <1>n, <2>1 DEF FiniteX
<1>4. ASSUME NEW f \in found[x], List(x, f[1], f[2]) PROVE FiniteX(x)'
  <2>1. /\ visited'[x] = visited[x]
        /\ IsFiniteSet(found'[x])
        /\ Cardinality(found'[x]) = Cardinality(found[x]) - 1
    BY <1>0, <1>4, ListCounts
  <2> QED BY <1>0, <1>n, <2>1 DEF FiniteX
<1> QED BY <1>0, <1>1, <1>2, <1>3, <1>4, StepOfReading

LEMMA SpecFiniteInv == Spec => []FiniteInv
<1>1. ASSUME Init, NEW x \in Executions PROVE FiniteX(x)
  <2>1. found[x] = {} /\ Projects \ visited[x] = Projects
    BY <1>1 DEF Init
  <2>2. IsFiniteSet(found[x]) /\ Cardinality(found[x]) = 0
    BY <2>1, FS_EmptySet
  <2>3. Cardinality(Projects) \in Nat
    BY <2>2, ToVisit
  <2> QED BY <2>1, <2>2, <2>3 DEF FiniteX
<1>2. Init => FiniteInv
  BY <1>1, InitIInv DEF FiniteInv
<1> QED BY <1>2, NextFiniteInv, PTL DEF Spec

StepsInv(x) ==
  /\ StepsLeft(x) \in 0 .. StepLimit
  /\ step[x] \in Running => StepsLeft(x) > 0
  /\ step[x] = "reading" => StepsLeft(x) >= 3

LEMMA StepsAreNatural == FiniteInv => \A x \in Executions : StepsInv(x)
<1> SUFFICES ASSUME FiniteInv, NEW x \in Executions PROVE StepsInv(x)
  OBVIOUS
<1>1. /\ Cardinality(Projects) \in Nat
      /\ Cardinality(Projects \ visited[x]) \in Nat
      /\ Cardinality(found[x]) \in Nat
      /\ Cardinality(Projects \ visited[x]) + Cardinality(found[x]) <= Cardinality(Projects)
      /\ Cardinality(Projects \ visited[x]) <= Cardinality(Projects)
  BY ToVisit, FiniteFolder, FS_Subset DEF FiniteInv, FiniteX
<1> QED BY <1>1 DEF StepsInv, StepsLeft, StepLimit, Running

LEMMA StepsAreNaturalNext == FiniteInv' => (\A x \in Executions : StepsInv(x))'
BY StepsAreNatural, PTL

LEMMA WorkFalls ==
  ASSUME FiniteInv, NEW x \in Executions, Work(x)
  PROVE  StepsLeft(x)' < StepsLeft(x)
<1>0. TypeOK /\ IsFiniteSet(found[x]) /\ StepsInv(x)
  BY StepsAreNatural DEF FiniteInv, FiniteX, IInv
<1>a. /\ StepsLeft(x) \in Nat
      /\ step[x] \in Running => StepsLeft(x) > 0
      /\ step[x] = "reading" => StepsLeft(x) >= 3
  BY <1>0 DEF StepsInv
<1>n. /\ Cardinality(Projects) \in Nat
      /\ Cardinality(Projects \ visited[x]) \in Nat
      /\ Cardinality(found[x]) \in Nat
  BY <1>0, ToVisit
<1>1. ASSUME NEW p \in Projects, FindProject(x, p)
      PROVE  StepsLeft(x)' < StepsLeft(x)
  <2>1. step[x] = "reading" /\ step'[x] = "reading"
    BY <1>1 DEF FindProject
  <2>2. /\ Cardinality(Projects \ visited'[x]) = Cardinality(Projects \ visited[x]) - 1
        /\ Cardinality(found'[x]) \in Nat
        /\ Cardinality(found'[x]) <= Cardinality(found[x]) + 1
    BY <1>0, <1>1, FindProjectCounts
  <2> QED BY <1>n, <2>1, <2>2 DEF StepsLeft
<1>2. ASSUME NEW f \in found[x], List(x, f[1], f[2])
      PROVE  StepsLeft(x)' < StepsLeft(x)
  <2>1. step[x] = "reading" /\ step'[x] = "reading"
    BY <1>2 DEF List
  <2>2. /\ visited'[x] = visited[x]
        /\ Cardinality(found'[x]) = Cardinality(found[x]) - 1
    BY <1>0, <1>2, ListCounts
  <2> QED BY <1>n, <2>1, <2>2 DEF StepsLeft
<1>3. ASSUME NEW s \in {"succeeded", "failed"}, End(x, s), step[x] \in Running
      PROVE  StepsLeft(x)' < StepsLeft(x)
  <2>1. step'[x] = s
    BY <1>0, <1>3 DEF End, Goto, TypeOK
  <2> QED BY <1>3, <2>1, <1>a DEF StepsLeft
<1>4. CASE BeginScan(x)
  <2>1. step[x] = "reading" /\ step'[x] = "scanning"
    BY <1>0, <1>4 DEF BeginScan, HasRead, Goto, TypeOK
  <2> QED BY <2>1, <1>a DEF StepsLeft
<1>5. ASSUME NEW keys, EndScan(x, keys)
      PROVE  StepsLeft(x)' < StepsLeft(x)
  <2>1. CASE Goto(x, "committing")
    BY <1>0, <1>5, <2>1 DEF EndScan, Goto, StepsLeft, TypeOK
  <2> QED BY <1>3, <1>5, <2>1 DEF EndScan, Running
<1> QED
  BY <1>1, <1>2, <1>3, <1>4, <1>5
     DEF Work, Prepare, Publish, SkipUpdate, HasRead, Commit, CommitUnanswered, Exec, Running

LEMMA OthersDoNotHinder ==
  ASSUME FiniteInv, [Next]_vars, NEW x \in Executions, step[x] \in Running
  PROVE  StepsLeft(x)' <= StepsLeft(x)
<1>0. TypeOK /\ StepsInv(x) /\ StepsInv(x)'
  BY StepsAreNatural, StepsAreNaturalNext, NextFiniteInv DEF FiniteInv, IInv
<1>a. StepsLeft(x) \in Nat
  BY <1>0 DEF StepsInv
<1>b. StepsLeft(x)' \in 0 .. StepLimit'
  BY <1>0 DEF StepsInv
<1>c. StepsLeft(x)' \in Int
  BY <1>b
<1>1. CASE Work(x)
  BY <1>1, <1>a, <1>c, WorkFalls
<1>2. CASE UNCHANGED <<step[x], visited[x], found[x]>>
  <2>1. StepsLeft(x)' = StepsLeft(x)
    BY <1>2 DEF StepsLeft
  <2> QED BY <2>1, <1>a
<1>3. CASE Fail(x)
  <2>1. step'[x] = "failed"
    BY <1>0, <1>3 DEF Fail, End, Goto, TypeOK
  <2>2. StepsLeft(x)' = 0
    BY <2>1 DEF StepsLeft
  <2> QED BY <2>2, <1>a
<1>4. ASSUME NEW w \in Worlds, Change(w) PROVE UNCHANGED <<step[x], visited[x], found[x]>>
  BY <1>4 DEF Change, reading
<1>5. ~Start(x)
  BY DEF Start
<1>6. ASSUME NEW y \in Executions, y # x, Start(y) \/ Work(y) \/ Fail(y)
      PROVE  UNCHANGED <<step[x], visited[x], found[x]>>
  BY <1>0, <1>6 DEF Start, Work, Prepare, Publish, FindProject, List, SkipUpdate, BeginScan,
                    EndScan, Commit, CommitUnanswered, Fail, Exec, End, Goto, reading, TypeOK
<1>7. CASE UNCHANGED vars
  BY <1>2, <1>7 DEF vars, reading
<1> QED BY <1>1, <1>2, <1>3, <1>4, <1>5, <1>6, <1>7 DEF Next

(* An execution has at most two calls for each project before it and three *)
(* to write; each of its steps uses one up, and neither the other          *)
(* executions nor the folder give any back (Run).                          *)
THEOREM ExecutionsMakeProgress ==
  Spec => ExecutionsProgress /\ [](\A x \in Executions : StepsLeft(x) \in 0 .. StepLimit)
<1>1. FiniteInv /\ [Next]_vars =>
        [\A x \in Executions :
           /\ Work(x) => StepsLeft(x)' < StepsLeft(x)
           /\ step[x] \in Running => StepsLeft(x)' <= StepsLeft(x)]_vars
  BY WorkFalls, OthersDoNotHinder
<1>2. FiniteInv => \A x \in Executions : StepsLeft(x) \in 0 .. StepLimit
  BY StepsAreNatural DEF StepsInv
<1> QED BY <1>1, <1>2, SpecFiniteInv, PTL DEF Spec, ExecutionsProgress

-----------------------------------------------------------------------------
(* Where executions never overlap, no key is set behind another's back,    *)
(* and each transaction leaves what it set and nothing else.               *)
Alone == \A x, y \in Executions : x = y

LoneInv == TransactionReplacesRegistry /\ \A x \in Executions : late[x] = {}

LEMMA NextLoneInv ==
  ASSUME Alone, IInv, LoneInv, [Next]_vars
  PROVE  LoneInv'
<1>1. CASE Quiescent
  <2>1. registry' = published'
    BY <1>1 DEF Quiescent, LoneInv, TransactionReplacesRegistry
  <2>2. \/ late' = late
        \/ \E x \in Executions : late' = [late EXCEPT ![x] = {}]
        \/ \E x \in Executions : Exec(x)
    BY DEF Next, Work, Prepare, Publish, Change, Start, FindProject, List, SkipUpdate,
           BeginScan, EndScan, Commit, CommitUnanswered, Fail, vars, history
  <2>3. ASSUME NEW x \in Executions PROVE late'[x] = {}
    BY <2>2 DEF Alone, LoneInv, IInv, TypeOK, Exec
  <2> QED BY <2>1, <2>3 DEF LoneInv, TransactionReplacesRegistry
<1>2. ASSUME NEW x \in Executions, Exec(x) PROVE LoneInv'
  <2>1. /\ step[x] = "committing" /\ registry' = Replaced(x) /\ published' = built[x]
        /\ \A y \in Executions : late'[y] = {}
    BY <1>2 DEF Exec, Alone
  <2>2. KeysOf(registry) \subseteq stale[x]
    BY <2>1 DEF IInv, XInv, KeysInv, LoneInv
  <2>3. Replaced(x) = built[x]
    BY <2>2 DEF Replaced, KeysOf
  <2> QED BY <2>1, <2>3 DEF LoneInv, TransactionReplacesRegistry
<1> QED BY <1>1, <1>2, StepOfRegistry

(* "Atomically delete stale keys and set new keys": true of executions     *)
(* that do not overlap (updateRegistry); discovery_stale shows it is not   *)
(* of others.                                                              *)
THEOREM LoneTransactionsReplace ==
  ASSUME Alone
  PROVE  Spec => []TransactionReplacesRegistry
<1>1. Init => LoneInv
  BY DEF Init, LoneInv, TransactionReplacesRegistry
<1>2. IInv /\ LoneInv /\ [Next]_vars => LoneInv'
  BY NextLoneInv
<1>3. LoneInv => TransactionReplacesRegistry
  BY DEF LoneInv
<1> QED BY <1>1, <1>2, <1>3, SpecIInv, PTL DEF Spec
=============================================================================
