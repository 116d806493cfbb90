--------------------------- MODULE Startup_proofs ---------------------------
(***************************************************************************)
(* What holds of label resolution and of start-up, for any labels and any  *)
(* environment: the alias loop of resolveAndValidateRunnerLabel agrees     *)
(* with the reference definition, and the server provisions exactly the    *)
(* labels that end in a supported one; that is not disturbed by what comes *)
(* before it, and the settings that Validate lets through are enough for   *)
(* all that is done with them.                                             *)
(*                                                                         *)
(* The inductive invariant says what the loop knows half-way: the incoming *)
(* label leads to the current one, and the visited labels are aliases each *)
(* of whose targets has been visited or is the current label.              *)
(***************************************************************************)
EXTENDS Startup, FiniteSetTheorems, TLAPS

(* The settings of a server that runs. *)
ServingInv ==
  phase \in {"serving", "resolving", "resolved", "cycle"} =>
    /\ LabelsValid
    /\ allowed = DOMAIN aliases \cup {aliases[k] : k \in DOMAIN aliases}
                   \cup supported

(* What the loop has established about the labels behind it. *)
ChainInv ==
  phase \in {"resolving", "resolved", "cycle"} =>
    /\ LeadsTo(aliases, incoming, current)
    /\ incoming \in visited \cup {current}
    /\ current = incoming \/ current \in supported
    /\ visited \ {current} \subseteq DOMAIN aliases
    /\ \A k \in visited \cap DOMAIN aliases :
         aliases[k] \in visited \cup {current}

(* What made it stop. *)
OutcomeInv ==
  /\ phase = "resolving" => visited \subseteq DOMAIN aliases
  /\ phase = "cycle" => visited \subseteq DOMAIN aliases /\ current \in visited
  /\ phase = "resolved" =>
       /\ current \in visited /\ current \notin DOMAIN aliases
       /\ canHandle = (current \in allowed)

IInv == TypeOK /\ ServingInv /\ ChainInv /\ OutcomeInv

-----------------------------------------------------------------------------
LEMMA TablesAreFunctions ==
  ASSUME NEW from, NEW to, NEW t
  PROVE  t \in Tables(from, to) <=>
           DOMAIN t \subseteq from /\ t \in [DOMAIN t -> to]
BY DEF Tables

(* Following an alias from a label one leads to leads one label further. *)
LEMMA LeadsToStep ==
  ASSUME NEW table, NEW from, NEW to \in DOMAIN table, LeadsTo(table, from, to)
  PROVE  LeadsTo(table, from, table[to])
BY DEF LeadsTo, Closed

LEMMA InitIInv == Init => IInv
<1> SUFFICES ASSUME Init PROVE IInv
  OBVIOUS
<1>1. aliases \in Tables(Labels, supported)
  BY TablesAreFunctions DEF Init
<1> QED BY <1>1 DEF Init, IInv, TypeOK, ServingInv, ChainInv, OutcomeInv, Phases

LEMMA NextIInv == IInv /\ [Next]_vars => IInv'
<1> SUFFICES ASSUME IInv, [Next]_vars PROVE IInv'
  OBVIOUS
<1> USE DEF IInv, Phases
<1>0. DOMAIN aliases \subseteq Labels /\ aliases \in [DOMAIN aliases -> supported]
  BY TablesAreFunctions DEF TypeOK
<1>1. CASE RejectLabels
  BY <1>1 DEF RejectLabels, settings, loop, TypeOK, ServingInv, ChainInv, OutcomeInv
<1>2. CASE RejectAlias
  BY <1>2 DEF RejectAlias, settings, loop, TypeOK, ServingInv, ChainInv, OutcomeInv
<1>3. CASE Serve
  <2>1. allowed' \in SUBSET Labels
    BY <1>0, <1>3 DEF Serve, TypeOK
  <2> QED
    BY <1>3, <2>1 DEF Serve, settings, loop, TypeOK, LabelsValid, ServingInv,
                 ChainInv, OutcomeInv
<1>4. ASSUME NEW key \in Labels, NEW target \in Labels, DeclareAlias(key, target)
      PROVE  IInv'
  <2>1. aliases' \in Tables(Labels, supported')
    <3>1. DOMAIN aliases' \subseteq Labels /\ aliases' \in [DOMAIN aliases' -> supported']
      BY <1>0, <1>4 DEF DeclareAlias
    <3> QED BY <3>1, TablesAreFunctions
  <2> QED
    BY <1>4, <2>1 DEF DeclareAlias, loop, TypeOK, ServingInv, ChainInv, OutcomeInv
<1>5. ASSUME NEW label \in Labels, Arrive(label)
      PROVE  IInv'
  <2>1. LeadsTo(aliases', incoming', current')
    BY <1>5 DEF Arrive, LeadsTo
  <2> QED
    BY <1>5, <2>1 DEF Arrive, settings, TypeOK, LabelsValid, ServingInv,
                      ChainInv, OutcomeInv
<1>6. CASE FollowAlias
  <2> USE <1>6 DEF FollowAlias, settings
  <2>1. aliases[current] \in supported
    BY <1>0
  <2>2. LeadsTo(aliases, incoming, aliases[current])
    BY LeadsToStep DEF ChainInv
  <2>3. LeadsTo(aliases', incoming', current')
    BY <2>2
  <2>4. TypeOK'
    BY <2>1 DEF TypeOK
  <2>5. ServingInv'
    BY DEF ServingInv, LabelsValid
  <2>6. OutcomeInv'
    BY DEF OutcomeInv
  <2>7. ChainInv'
    BY <2>1, <2>3 DEF ChainInv, OutcomeInv
  <2> QED BY <2>4, <2>5, <2>6, <2>7
<1>7. CASE DetectCycle
  <2>1. LeadsTo(aliases', incoming', current')
    BY <1>7 DEF DetectCycle, settings, loop, ChainInv
  <2> QED
    BY <1>7, <2>1 DEF DetectCycle, settings, loop, TypeOK, LabelsValid,
                      ServingInv, ChainInv, OutcomeInv
<1>8. CASE Settle
  <2> USE <1>8 DEF Settle, settings
  <2>1. LeadsTo(aliases', incoming', current')
    BY DEF ChainInv
  <2>2. ChainInv'
    BY <2>1 DEF ChainInv, OutcomeInv
  <2> QED BY <2>2 DEF TypeOK, LabelsValid, ServingInv, OutcomeInv
<1>9. CASE UNCHANGED vars
  <2>1. phase \in {"resolving", "resolved", "cycle"} =>
          LeadsTo(aliases', incoming', current')
    BY <1>9 DEF vars, settings, loop, ChainInv
  <2> QED
    BY <1>9, <2>1 DEF vars, settings, loop, TypeOK, LabelsValid, ServingInv,
                      ChainInv, OutcomeInv
<1> QED
  BY <1>1, <1>2, <1>3, <1>4, <1>5, <1>6, <1>7, <1>8, <1>9 DEF Next, Resolve

LEMMA SpecIInv == Spec => []IInv
BY InitIInv, NextIInv, PTL DEF Spec

-----------------------------------------------------------------------------
(* A closed set of labels that holds the incoming one holds all its ends. *)
LEMMA EndsInClosedSet ==
  ASSUME NEW table, NEW from, NEW S \in SUBSET Labels,
         Closed(table, S), from \in S
  PROVE  Ends(table, from) \subseteq S
BY DEF Ends, LeadsTo

LEMMA IInvImpliesReference == IInv => LoopMeetsReference
<1> SUFFICES ASSUME IInv PROVE LoopMeetsReference
  OBVIOUS
<1>1. ASSUME phase \in {"resolved", "cycle"}
      PROVE  Ends(aliases, incoming) \subseteq visited
  <2>1. Closed(aliases, visited) /\ incoming \in visited
    BY <1>1 DEF IInv, ChainInv, OutcomeInv, Closed
  <2> QED BY <2>1, EndsInClosedSet DEF IInv, TypeOK
<1>2. ASSUME phase = "resolved" PROVE Ends(aliases, incoming) = {current}
  <2>1. current \in Ends(aliases, incoming)
    BY <1>2 DEF IInv, TypeOK, ChainInv, OutcomeInv, Ends
  <2>2. Ends(aliases, incoming) \subseteq {current}
    BY <1>1, <1>2 DEF IInv, ChainInv, Ends
  <2> QED BY <2>1, <2>2
<1>3. ASSUME phase = "cycle" PROVE Ends(aliases, incoming) = {}
  BY <1>1, <1>3 DEF IInv, OutcomeInv, Ends
<1> QED BY <1>2, <1>3 DEF LoopMeetsReference

(* Type correctness of the label settings and the alias loop: in           *)
(* particular every alias target is a supported label.                     *)
THEOREM TypeCorrect == Spec => []TypeOK
BY SpecIInv, PTL DEF IInv

(* The loop of resolveAndValidateRunnerLabel stops at the end of the       *)
(* incoming label's alias chain, or reports a cycle when there is none.    *)
THEOREM LoopIsCorrect == Spec => []LoopMeetsReference
BY SpecIInv, IInvImpliesReference, PTL

(* The allow list of NewServer lets in the labels that end in a supported  *)
(* one and no other.                                                       *)
THEOREM AllowListIsExact == Spec => []CanHandleIffSupported
<1>1. IInv => CanHandleIffSupported
  <2> SUFFICES ASSUME IInv, phase = "resolved"
               PROVE  canHandle <=> current \in supported
    BY DEF CanHandleIffSupported
  <2>1. aliases \in [DOMAIN aliases -> supported]
    BY TablesAreFunctions DEF IInv, TypeOK
  <2> QED BY <2>1 DEF IInv, ServingInv, OutcomeInv
<1> QED BY SpecIInv, <1>1, PTL

(* A job that names an alias is provisioned, whatever the alias chain, or  *)
(* the aliases run in a circle.                                            *)
THEOREM AliasesAreProvisioned == Spec => []AliasLeadsToSupported
<1>1. IInv => AliasLeadsToSupported
  <2> SUFFICES ASSUME IInv, phase = "resolved", incoming \in DOMAIN aliases
               PROVE  canHandle /\ current \notin ignored
    BY DEF AliasLeadsToSupported
  <2>1. current \in supported
    BY DEF IInv, ChainInv, OutcomeInv
  <2> QED BY <2>1 DEF IInv, ServingInv, OutcomeInv, LabelsValid
<1> QED BY SpecIInv, <1>1, PTL

-----------------------------------------------------------------------------
(* Why the loop ends: the aliases are finitely many, however they are      *)
(* declared, and each iteration visits one more of them or is the last.    *)
LookupsLeft ==
  IF phase = "resolving" THEN 1 + Cardinality(DOMAIN aliases \ visited) ELSE 0

FiniteTable == IsFiniteSet(DOMAIN aliases)

LEMMA SpecFiniteTable == Spec => []FiniteTable
<1>1. Init => FiniteTable
  BY FS_EmptySet DEF Init, FiniteTable
<1>2. FiniteTable /\ [Next]_vars => FiniteTable'
  <2> SUFFICES ASSUME FiniteTable, [Next]_vars
               PROVE  FiniteTable'
    OBVIOUS
  <2>1. ASSUME NEW key \in Labels, NEW target \in Labels, DeclareAlias(key, target)
        PROVE  FiniteTable'
    <3>1. DOMAIN aliases' = DOMAIN aliases \cup {key}
      BY <2>1 DEF DeclareAlias
    <3> QED BY <3>1, FS_AddElement DEF FiniteTable
  <2>2. CASE aliases' = aliases
    BY <2>2 DEF FiniteTable
  <2> QED
    BY <2>1, <2>2 DEF Next, vars, settings, RejectLabels, RejectAlias, Serve, Arrive,
                      Resolve, FollowAlias, DetectCycle, Settle
<1> QED BY <1>1, <1>2, PTL DEF Spec

(* A label costs the loop of resolveAndValidateRunnerLabel at most one     *)
(* iteration for each alias and one more, whichever cycles the table has:  *)
(* what EveryLabelSettles rests on.                                        *)
THEOREM LoopMakesProgress ==
  Spec => /\ [][Resolve => LookupsLeft' < LookupsLeft]_vars
          /\ [](LookupsLeft \in 0 .. 1 + Cardinality(DOMAIN aliases))
<1>1. ASSUME FiniteTable
      PROVE  /\ IsFiniteSet(DOMAIN aliases \ visited)
             /\ Cardinality(DOMAIN aliases \ visited) \in Nat
             /\ Cardinality(DOMAIN aliases) \in Nat
             /\ Cardinality(DOMAIN aliases \ visited) <= Cardinality(DOMAIN aliases)
  <2>1. /\ IsFiniteSet(DOMAIN aliases \ visited)
        /\ Cardinality(DOMAIN aliases \ visited) <= Cardinality(DOMAIN aliases)
    BY <1>1, FS_Subset DEF FiniteTable
  <2> QED BY <1>1, <2>1, FS_CardinalityType DEF FiniteTable
<1>2. ASSUME FiniteTable, Resolve
      PROVE  LookupsLeft' < LookupsLeft
  <2>1. phase = "resolving" /\ aliases' = aliases
    BY <1>2 DEF Resolve, FollowAlias, DetectCycle, Settle, settings
  <2>2. CASE FollowAlias
    <3>1. /\ phase' = "resolving" /\ current \in DOMAIN aliases \ visited
          /\ DOMAIN aliases \ visited' = (DOMAIN aliases \ visited) \ {current}
      BY <2>2 DEF FollowAlias
    <3>2. Cardinality(DOMAIN aliases \ visited') = Cardinality(DOMAIN aliases \ visited) - 1
      BY <1>1, <1>2, <3>1, FS_RemoveElement
    <3> QED BY <1>1, <1>2, <2>1, <3>1, <3>2 DEF LookupsLeft
  <2>3. CASE phase' \in {"resolved", "cycle"}
    BY <1>1, <1>2, <2>1, <2>3 DEF LookupsLeft
  <2> QED BY <1>2, <2>2, <2>3 DEF Resolve, DetectCycle, Settle
<1>3. FiniteTable /\ [Next]_vars =>
        [Resolve => LookupsLeft' < LookupsLeft]_vars
  BY <1>2
<1>4. FiniteTable => LookupsLeft \in 0 .. 1 + Cardinality(DOMAIN aliases)
  BY <1>1 DEF LookupsLeft
<1> QED BY <1>3, <1>4, SpecFiniteTable, PTL DEF Spec

-----------------------------------------------------------------------------
(* Start-up. *)

(* From here on settings have been validated. *)
Accepted  == {"labels"} \cup {"connecting", "making", "made", "listening"}
Validly   == {"connecting", "making", "made", "listening"}
AllowList == DOMAIN aliases \cup {aliases[k] : k \in DOMAIN aliases} \cup supported

BootInv ==
  /\ BootTypeOK
  /\ boot \in Accepted => SettingsValid(cfg)
  /\ boot \in Validly => LabelsValid
  /\ boot \in {"made", "listening"} => allowed = AllowList

-----------------------------------------------------------------------------
LEMMA StartStep == [StartNext]_startvars => [Next]_vars
BY DEF StartNext, startvars, ParseFlags, ValidateSettings, RefuseSettings, ValidateAlias,
       RefuseLabels, Validated, Connect, MakePart, MakeServer, Listen, Fail, Answer,
       Reach, Next

(* Start-up is one way to come by the settings of LabelResolution; what is *)
(* proved of those holds of the server's (RunUnstarted).                   *)
THEOREM StartupImplementsLabels == StartSpec => Spec
BY StartStep, PTL DEF StartSpec, StartInit, Spec

LEMMA ParsedType ==
  ASSUME NEW e \in Environment
  PROVE  Parsed(e) \in Config
<1>1. DefaultNumber \in [Numbers -> Int]
  BY DEF DefaultNumber, DefaultExtraRunnerCount, DefaultMaxRetryAttempts, Numbers
<1>2. (e.given \cup (Defaulted \ e.blank)) \ Numbers \subseteq Strings
  BY DEF Environment, Strings
<1>3. [n \in Numbers |-> IF n \in e.given THEN e.numbers[n] ELSE DefaultNumber[n]]
        \in [Numbers -> Int]
  BY <1>1 DEF Environment
<1>4. (IF e.tier = "unset" THEN "production" ELSE e.tier) \in Tiers \cup {"", "other"}
  BY DEF Environment, Tiers
<1>5. e.on \in SUBSET Switches
  BY DEF Environment
<1> QED BY <1>2, <1>3, <1>4, <1>5 DEF Parsed, Config

LEMMA InitBootInv == StartInit => BootInv
<1> SUFFICES ASSUME StartInit PROVE BootInv
  OBVIOUS
<1>1. cfg \in Config
  <2>1. [n \in Numbers |-> 0] \in [Numbers -> Int]
    OBVIOUS
  <2>2. {} \in SUBSET Strings /\ {} \in SUBSET Switches /\ "" \in Tiers \cup {"", "other"}
    OBVIOUS
  <2> HIDE DEF Numbers
  <2> QED BY <2>1, <2>2 DEF StartInit, Config
<1>2. 0 \in 0 .. Len(Parts)
  BY DEF Parts
<1> QED BY <1>1, <1>2 DEF StartInit, BootInv, BootTypeOK, Boots, Accepted, Validly

LEMMA NextBootInv == BootInv /\ [StartNext]_startvars => BootInv'
<1> SUFFICES ASSUME BootInv, [StartNext]_startvars PROVE BootInv'
  OBVIOUS
<1> USE DEF Accepted, Validly, Boots
<1>1. CASE ParseFlags
  <2>1. cfg' \in Config
    BY <1>1, Started, ParsedType DEF ParseFlags, BootInv, BootTypeOK
  <2> QED BY <1>1, <2>1 DEF ParseFlags, Reach, BootInv, BootTypeOK
<1>2. CASE ValidateSettings \/ RefuseSettings
  BY <1>2 DEF ValidateSettings, RefuseSettings, Reach, BootInv, BootTypeOK
<1>3. ASSUME NEW key \in Labels, NEW target \in Labels, ValidateAlias(key, target)
      PROVE  BootInv'
  BY <1>3 DEF ValidateAlias, starting, BootInv, BootTypeOK
<1>4. CASE RefuseLabels
  BY <1>4 DEF RefuseLabels, BootInv, BootTypeOK
<1>5. CASE Validated
  BY <1>5 DEF Validated, Reach, vars, settings, BootInv, BootTypeOK,
              LabelsValid
<1>6. CASE Connect
  BY <1>6 DEF Connect, Reach, vars, settings, BootInv, BootTypeOK,
              LabelsValid
<1>7. CASE MakePart
  BY <1>7 DEF MakePart, Parts, vars, settings, BootInv, BootTypeOK,
              LabelsValid
<1>8. CASE MakeServer
  BY <1>8 DEF MakeServer, Serve, BootInv, BootTypeOK, LabelsValid,
              AllowList
<1>9. CASE Listen
  BY <1>9 DEF Listen, Reach, vars, settings, BootInv, BootTypeOK, LabelsValid, AllowList
<1>10. CASE Fail
  BY <1>10 DEF Fail, Reach, BootInv, BootTypeOK
<1>11. CASE UNCHANGED <<starting, settings>>
  BY <1>11 DEF starting, settings, BootInv, BootTypeOK, LabelsValid,
               AllowList
<1>12. ASSUME NEW label \in Labels, Arrive(label), UNCHANGED starting PROVE BootInv'
  BY <1>11, <1>12 DEF Arrive
<1>13. CASE Answer
  BY <1>11, <1>13 DEF Answer, Resolve, FollowAlias, DetectCycle, Settle, loop, settings
<1>14. CASE UNCHANGED startvars
  BY <1>11, <1>14 DEF startvars, vars
<1> QED BY <1>1, <1>2, <1>3, <1>4, <1>5, <1>6, <1>7, <1>8, <1>9, <1>10, <1>12, <1>13,
           <1>14 DEF StartNext

LEMMA StartBootInv == StartSpec => []BootInv
BY InitBootInv, NextBootInv, PTL DEF StartSpec

-----------------------------------------------------------------------------
(* Types of start-up. *)
THEOREM StartTypeCorrect == StartSpec => []StartTypeOK
<1>1. TypeOK /\ BootInv => StartTypeOK
  BY DEF BootInv, StartTypeOK
<1> QED BY <1>1, StartBootInv, StartupImplementsLabels, TypeCorrect, PTL

(* Every setting a build request needs is one that Validate asks for, but  *)
(* for the image's name and tag (buildCloudBuildRequest).                  *)
THEOREM ValidSettingsSuffice == StartSpec => []RequestsAreComplete
<1>1. BootInv => RequestsAreComplete
  BY DEF BootInv, Accepted, SettingsValid, Required, Required404, RequestsAreComplete,
         PoolRequest, Request404, Field, Fields
<1> QED BY <1>1, StartBootInv, PTL

(* What Dispatcher assumes of its settings, and no more, is what start-up  *)
(* hands over, and the time-outs of builds are within their bounds         *)
(* (Validate, NewServer).                                                  *)
THEOREM AssumedSettings == StartSpec => []HandlersGetTheirSettings
<1>1. TypeOK /\ BootInv => HandlersGetTheirSettings
  <2> SUFFICES ASSUME TypeOK, BootInv, boot = "listening" PROVE HandlersGetTheirSettings
    BY DEF HandlersGetTheirSettings
  <2>1. /\ SettingsValid(cfg) /\ LabelsValid /\ allowed = AllowList
        /\ cfg \in Config /\ client \in BOOLEAN
    BY DEF BootInv, Accepted, Validly, BootTypeOK
  <2>2. GoodLabels(supported, ignored, aliases)
    BY <2>1 DEF GoodLabels, TypeOK, LabelsValid
  <2>3. Handed \in ConfigType
    <3>1. "ExtraRunnerCount" \in Numbers /\ "MaxRetryAttempts" \in Numbers
      BY DEF Numbers, DefaultNumber
    <3>2. cfg.numbers \in [Numbers -> Int]
      BY <2>1 DEF Config
    <3>3. cfg.numbers["ExtraRunnerCount"] \in Int /\ cfg.numbers["MaxRetryAttempts"] \in Int
      BY <3>1, <3>2
    <3>4. cfg.numbers["ExtraRunnerCount"] >= 0
      BY <2>1 DEF SettingsValid
    <3>5. cfg.numbers["ExtraRunnerCount"] \in Nat
      BY <3>3, <3>4
    <3> QED BY <2>1, <3>3, <3>5 DEF Handed, ConfigType
  <2>4. Handed.enabled404 => Handed.has404Pool
    BY <2>1 DEF Handed, SettingsValid, Required404
  <2> QED
    BY <2>1, <2>2, <2>3, <2>4
       DEF HandlersGetTheirSettings, GoodSettings, LabelsValid, SettingsValid, AllowList
<1> QED BY <1>1, StartBootInv, StartupImplementsLabels, TypeCorrect, PTL
=============================================================================
