---------------------------- MODULE PipelineProofs ----------------------------
(***************************************************************************)
(* Proofs about Pipeline for every set of commands, targets, tools,        *)
(* outputs and names, and every choice of faults.                          *)
(*                                                                         *)
(* Nothing is proved twice.  Of each agent the modules of its own proofs   *)
(* show what its steps do to the tables (SharedStep: they touch no row but *)
(* the run's own) and what it can rely on while others step (SharedKept).  *)
(* Here the three are instantiated over one set of tables: a step of one   *)
(* is, to the others, a step for a scan that is not theirs.  What is left  *)
(* is the order of the phases (Phases), on which one of the others rests:  *)
(* an analysis that was given a scan can rely on its findings being all    *)
(* there because the attack that filed them has returned.                  *)
(***************************************************************************)
EXTENDS Pipeline, ScanStoreProofs

ReconP == INSTANCE ReconAgentProofs WITH
    pc <- reconPc, scanId <- reconScan, task <- reconTask, output <- reconOutput,
    ToolScope <- [i \in 1 .. ReconTools |-> {Authorized}], Outputs <- ReconOutputs,
    Overlap <- TRUE

AttackP == INSTANCE AttackAgentProofs WITH
    pc <- attackPc, targets <- attackTargets, scanId <- attackScan, task <- attackTask,
    output <- attackOutput, ToolScope <- [i \in 1 .. AttackTools |-> Authorized],
    Outputs <- AttackOutputs, CalledWith <- [p \in Runs |-> {}]

AnalyzeP == INSTANCE AnalyzeAgentProofs WITH
    pc <- analyzePc, scanId <- analyzeScan, CalledWith <- [p \in Runs |-> {}],
    PastScans <- <<>>, PastFindings <- {}

\* What the agents may rely on while they share the tables.
Shared ==
    /\ ReconP!SharedInv /\ AttackP!SharedInv /\ AnalyzeP!SharedInv
    /\ IsFiniteSet(assets)

Stages == {"idle", "recon", "attack", "analyze", "failed"}

\* What command p has behind it, given the agents it has started.
Phases(p) ==
    /\ attackPc[p] # "idle" =>
           reconPc[p] = "returned" /\ Range(attackTargets[p]) = AttackNames(p)
    /\ attackScan[p] # NoScan => reconScan[p] < attackScan[p]
    /\ analyzePc[p] # "idle" /\ command[p] = "full" =>
           attackPc[p] = "returned" /\ given[p] = attackScan[p]
    /\ given[p] # NoScan => analyzePc[p] # "idle" /\ command[p] = "full"
    /\ analyzeScan[p] # NoScan /\ command[p] = "full" => attackScan[p] < analyzeScan[p]

IInv ==
    /\ Shared
    /\ command \in [Runs -> Commands] /\ stage \in [Runs -> Stages]
    /\ \A p \in Runs : Phases(p)

-----------------------------------------------------------------------------
(* The instances *)

\* Finite is finite in each.
LEMMA SameFinite ==
    ASSUME NEW S
    PROVE  /\ ReconP!IsFiniteSet(S) <=> IsFiniteSet(S)
           /\ AttackP!IsFiniteSet(S) <=> IsFiniteSet(S)
           /\ AnalyzeP!IsFiniteSet(S) <=> IsFiniteSet(S)
BY DEF IsFiniteSet, ReconP!IsFiniteSet, AttackP!IsFiniteSet, AnalyzeP!IsFiniteSet

\* The assumptions of the agents' modules, of their instances.
LEMMA ReconAssumed ==
    /\ KeyOf \in [Assets -> Keys] /\ TargetOf \in [Runs -> Targets]
    /\ Authorized \subseteq Targets
    /\ [i \in 1 .. ReconTools |-> {Authorized}] \in Seq((SUBSET SUBSET Targets) \ {{}})
    /\ ReconOutputs \subseteq Seq(Assets) /\ <<>> \in ReconOutputs
    /\ "recon" \in Agents
<1>1. [i \in 1 .. ReconTools |-> {Authorized}] \in
          [1 .. ReconTools -> (SUBSET SUBSET Targets) \ {{}}]
  BY AuthorizedType
<1>2. [i \in 1 .. ReconTools |-> {Authorized}] \in Seq((SUBSET SUBSET Targets) \ {{}})
  BY <1>1, ToolsType, SeqDef
<1> QED  BY <1>2, TargetOfType, AuthorizedType, ToolsType, AgentsType, KeyOfType

\* Likewise for attack.
LEMMA AttackAssumed ==
    /\ KeyOf \in [Assets -> Keys] /\ Authorized \subseteq Targets
    /\ [p \in Runs |-> {}] \in [Runs -> SUBSET Seq(Targets)] /\ "unknown" \in Targets
    /\ [i \in 1 .. AttackTools |-> Authorized] \in Seq(SUBSET Targets)
    /\ AttackOutputs \subseteq [assets : Seq(Assets), findings : Seq(Findings)]
    /\ [assets |-> <<>>, findings |-> <<>>] \in AttackOutputs
    /\ Urgent \subseteq Findings /\ "attack" \in Agents
<1>1. [i \in 1 .. AttackTools |-> Authorized] \in [1 .. AttackTools -> SUBSET Targets]
  BY AuthorizedType
<1>2. [i \in 1 .. AttackTools |-> Authorized] \in Seq(SUBSET Targets)
  BY <1>1, ToolsType, SeqDef
<1>3. [p \in Runs |-> {}] \in [Runs -> SUBSET Seq(Targets)]
  OBVIOUS
<1> QED
  BY <1>2, <1>3, TargetOfType, AuthorizedType, ToolsType, UrgentType, AgentsType, KeyOfType

\* Likewise for analyze, which finds the tables empty.
LEMMA AnalyzeAssumed ==
    /\ KeyOf \in [Assets -> Keys] /\ TargetOf \in [Runs -> Targets]
    /\ [p \in Runs |-> {}] \in [Runs -> SUBSET Nat]
    /\ BatchSize \in Nat \ {0} /\ Sound \subseteq Items /\ Answers \subseteq Seq(Items)
    /\ <<>> \in Seq(AnalyzeP!ScanRow) /\ {} \subseteq AnalyzeP!FindingRow
    /\ AnalyzeP!IsFiniteSet({})
    /\ "analyze" \in Agents
<1>1. <<>> \in Seq(AnalyzeP!ScanRow)
  BY EmptySeq
<1>2. AnalyzeP!IsFiniteSet({})
  BY FS_EmptySet, SameFinite
<1>3. [p \in Runs |-> {}] \in [Runs -> SUBSET Nat]
  OBVIOUS
<1> QED  BY <1>1, <1>2, <1>3, TargetOfType, BatchSizeType, AnswersType, AgentsType, KeyOfType

\* The instances of the agents and those of their proofs are the same agents.
LEMMA SameRecon ==
    ASSUME NEW p
    PROVE  /\ Recon!Init <=> ReconP!Init
           /\ Recon!Begin(p) => ReconP!StepOf(p)
           /\ Recon!Step(p) => ReconP!StepOf(p)
           /\ \A i \in 1 .. ReconTools : Recon!FinishTool(p, i) => ReconP!StepOf(p)
           /\ Recon!TypeOK <=> ReconP!TypeOK
           /\ Recon!AlertIsExact <=> ReconP!AlertIsExact
<1>1. Recon!Init <=> ReconP!Init
  BY DEF Recon!Init, ReconP!Init, Recon!StoreInit, ReconP!StoreInit, Recon!NoScan, ReconP!NoScan,
     Recon!Tools, ReconP!Tools, Recon!NoDiff, ReconP!NoDiff
<1>2. Recon!Begin(p) <=> ReconP!Begin(p)
  BY DEF Recon!Begin, ReconP!Begin, Recon!MayBegin, ReconP!MayBegin, Recon!Goto, ReconP!Goto,
     Recon!store, ReconP!store, Recon!Working, ReconP!Working
<1>3. Recon!Step(p) <=> ReconP!Step(p)
  BY DEF Recon!Step, ReconP!Step, Recon!Refuse, ReconP!Refuse, Recon!Create, ReconP!Create,
     Recon!Start, ReconP!Start, Recon!LaunchTools, ReconP!LaunchTools, Recon!GatherReturns,
     ReconP!GatherReturns, Recon!GatherRaises, ReconP!GatherRaises, Recon!Persist,
     ReconP!Persist, Recon!Finalise, ReconP!Finalise, Recon!Summarise, ReconP!Summarise,
     Recon!ReadCurrent, ReconP!ReadCurrent, Recon!FindPrevious, ReconP!FindPrevious,
     Recon!Compare, ReconP!Compare, Recon!SendSummary, ReconP!SendSummary, Recon!SendChangeAlert,
     ReconP!SendChangeAlert, Recon!HandleViolation, ReconP!HandleViolation, Recon!HandleFailure,
     ReconP!HandleFailure, Recon!ReportFailure, ReconP!ReportFailure, Recon!Goto, ReconP!Goto,
     Recon!store, ReconP!store, Recon!CreateScan, ReconP!CreateScan, Recon!NextScanId,
     ReconP!NextScanId, Recon!DatabaseFails, ReconP!DatabaseFails, Recon!SetStatus,
     ReconP!SetStatus, Recon!Tools, ReconP!Tools, Recon!PersistAssets, ReconP!PersistAssets,
     Recon!Places, ReconP!Places, Recon!Index, ReconP!Index, Recon!PreviousCompletedScan,
     ReconP!PreviousCompletedScan, Recon!NoScan, ReconP!NoScan, Recon!ShouldAlert,
     ReconP!ShouldAlert, Recon!NotifierRaises, ReconP!NotifierRaises, Recon!agent, ReconP!agent,
     Recon!AssetRowsOf, ReconP!AssetRowsOf, Recon!ListAssets, ReconP!ListAssets,
     Recon!DoneScansBefore, ReconP!DoneScansBefore, Recon!HasChanges, ReconP!HasChanges,
     Recon!IsBaseline, ReconP!IsBaseline, Recon!FirstOfEachKey, ReconP!FirstOfEachKey,
     Recon!Before, ReconP!Before, Recon!Max, ReconP!Max
<1>4. ASSUME NEW i PROVE Recon!FinishTool(p, i) <=> ReconP!FinishTool(p, i)
  BY DEF Recon!FinishTool, ReconP!FinishTool, Recon!store, ReconP!store
<1>5. ReconP!Tools = 1 .. ReconTools
  BY DEF ReconP!Tools
<1>6. Recon!TypeOK <=> ReconP!TypeOK
  BY DEF Recon!TypeOK, ReconP!TypeOK, Recon!StoreTypeOK, ReconP!StoreTypeOK, Recon!PCs, ReconP!PCs,
     Recon!Tools, ReconP!Tools, Recon!TaskStates, ReconP!TaskStates, Recon!Diff, ReconP!Diff,
     Recon!ScanRow, ReconP!ScanRow, Recon!AssetRow, ReconP!AssetRow, Recon!FindingRow,
     ReconP!FindingRow, Recon!Working, ReconP!Working, Recon!Ended, ReconP!Ended, Recon!agent,
     ReconP!agent, Recon!Statuses, ReconP!Statuses
<1>7. Recon!AlertIsExact <=> ReconP!AlertIsExact
  BY DEF Recon!AlertIsExact, ReconP!AlertIsExact, Recon!IsComparison, ReconP!IsComparison,
     Recon!HasChanges, ReconP!HasChanges, Recon!Index, ReconP!Index, Recon!ListAssets,
     ReconP!ListAssets, Recon!Max, ReconP!Max
<1> QED  BY <1>1, <1>2, <1>3, <1>4, <1>5, <1>6, <1>7 DEF ReconP!StepOf

\* Likewise for attack, whatever it is called with.
LEMMA SameAttack ==
    ASSUME NEW p
    PROVE  /\ Attack!AgentInit <=> AttackP!AgentInit
           /\ \A list \in Seq(Targets) : Attack!Begin(p, list) => AttackP!StepOf(p)
           /\ Attack!Step(p) => AttackP!StepOf(p)
           /\ \A j \in Attack!Jobs(p) : Attack!FinishTool(p, j) => AttackP!StepOf(p)
           /\ Attack!TypeOK <=> AttackP!TypeOK
<1>1. Attack!AgentInit <=> AttackP!AgentInit
  BY DEF Attack!AgentInit, AttackP!AgentInit, Attack!NoScan, AttackP!NoScan
<1>2. ASSUME NEW list PROVE Attack!Begin(p, list) <=> AttackP!Begin(p, list)
  BY DEF Attack!Begin, AttackP!Begin, Attack!Goto, AttackP!Goto, Attack!Elements, AttackP!Elements,
     Attack!CallWith, AttackP!CallWith, Attack!JobsFor, AttackP!JobsFor, Attack!Nothing,
     AttackP!Nothing, Attack!store, AttackP!store
<1>3. Attack!Step(p) <=> AttackP!Step(p)
  BY DEF Attack!Step, AttackP!Step, Attack!Create, AttackP!Create, Attack!Start, AttackP!Start,
     Attack!LaunchTools, AttackP!LaunchTools, Attack!GatherReturns, AttackP!GatherReturns,
     Attack!GatherRaises, AttackP!GatherRaises, Attack!SaveFindings, AttackP!SaveFindings,
     Attack!SaveAssets, AttackP!SaveAssets, Attack!Finalise, AttackP!Finalise, Attack!Summarise,
     AttackP!Summarise, Attack!SendCriticalAlert, AttackP!SendCriticalAlert, Attack!SendSummary,
     AttackP!SendSummary, Attack!HandleViolation, AttackP!HandleViolation, Attack!HandleFailure,
     AttackP!HandleFailure, Attack!Goto, AttackP!Goto, Attack!CreateScan, AttackP!CreateScan,
     Attack!PrimaryTarget, AttackP!PrimaryTarget, Attack!NextScanId, AttackP!NextScanId,
     Attack!DatabaseFails, AttackP!DatabaseFails, Attack!SetStatus, AttackP!SetStatus,
     Attack!Jobs, AttackP!Jobs, Attack!JobTarget, AttackP!JobTarget, Attack!JobScope,
     AttackP!JobScope, Attack!store, AttackP!store, Attack!PersistFindings,
     AttackP!PersistFindings, Attack!FindingLists, AttackP!FindingLists, Attack!Places,
     AttackP!Places, Attack!PersistAssets, AttackP!PersistAssets, Attack!AssetLists,
     AttackP!AssetLists, Attack!ToPage, AttackP!ToPage, Attack!Before, AttackP!Before,
     Attack!Page, AttackP!Page, Attack!NotifierRaises, AttackP!NotifierRaises, Attack!agent,
     AttackP!agent, Attack!JobsFor, AttackP!JobsFor, Attack!FindingRowsOf, AttackP!FindingRowsOf,
     Attack!AssetRowsOf, AttackP!AssetRowsOf, Attack!UrgentPlaces, AttackP!UrgentPlaces,
     Attack!FirstOfEachKey, AttackP!FirstOfEachKey
<1>4. ASSUME NEW j PROVE Attack!FinishTool(p, j) <=> AttackP!FinishTool(p, j)
  BY DEF Attack!FinishTool, AttackP!FinishTool, Attack!store, AttackP!store
<1>5. Attack!Jobs(p) = AttackP!Jobs(p)
  BY DEF Attack!Jobs, AttackP!Jobs, Attack!JobsFor, AttackP!JobsFor
<1>6. Attack!TypeOK <=> AttackP!TypeOK
  BY DEF Attack!TypeOK, AttackP!TypeOK, Attack!StoreTypeOK, AttackP!StoreTypeOK, Attack!PCs,
     AttackP!PCs, Attack!Jobs, AttackP!Jobs, Attack!TaskStates, AttackP!TaskStates,
     Attack!Places, AttackP!Places, Attack!FindingLists, AttackP!FindingLists, Attack!ScanRow,
     AttackP!ScanRow, Attack!AssetRow, AttackP!AssetRow, Attack!FindingRow, AttackP!FindingRow,
     Attack!Working, AttackP!Working, Attack!Ended, AttackP!Ended, Attack!JobsFor,
     AttackP!JobsFor, Attack!agent, AttackP!agent, Attack!Statuses, AttackP!Statuses
<1> QED  BY <1>1, <1>2, <1>3, <1>4, <1>5, <1>6 DEF AttackP!StepOf

\* Likewise for analyze.
LEMMA SameAnalyze ==
    ASSUME NEW p
    PROVE  /\ Analyze!AgentInit <=> AnalyzeP!AgentInit
           /\ \A scan \in Nat : Analyze!Begin(p, scan) => AnalyzeP!StepOf(p)
           /\ Analyze!Step(p) => AnalyzeP!StepOf(p)
           /\ Analyze!TypeOK <=> AnalyzeP!TypeOK
<1>1. Analyze!AgentInit <=> AnalyzeP!AgentInit
  BY DEF Analyze!AgentInit, AnalyzeP!AgentInit, Analyze!NoScan, AnalyzeP!NoScan
<1>2. ASSUME NEW scan PROVE Analyze!Begin(p, scan) <=> AnalyzeP!Begin(p, scan)
  BY DEF Analyze!Begin, AnalyzeP!Begin, Analyze!Goto, AnalyzeP!Goto, Analyze!store, AnalyzeP!store
<1>3. Analyze!Step(p) <=> AnalyzeP!Step(p)
  BY DEF Analyze!Step, AnalyzeP!Step, Analyze!Create, AnalyzeP!Create, Analyze!Start, AnalyzeP!Start,
     Analyze!Lookup, AnalyzeP!Lookup, Analyze!Fetch, AnalyzeP!Fetch, Analyze!TriageBatch,
     AnalyzeP!TriageBatch, Analyze!ProduceReport, AnalyzeP!ProduceReport, Analyze!Save,
     AnalyzeP!Save, Analyze!Finalise, AnalyzeP!Finalise, Analyze!SendSummary,
     AnalyzeP!SendSummary, Analyze!HandleFailure, AnalyzeP!HandleFailure, Analyze!Goto,
     AnalyzeP!Goto, Analyze!CreateScan, AnalyzeP!CreateScan, Analyze!NextScanId,
     AnalyzeP!NextScanId, Analyze!Raises, AnalyzeP!Raises, Analyze!NoScan, AnalyzeP!NoScan,
     Analyze!SetStatus, AnalyzeP!SetStatus, Analyze!LatestCompletedScan,
     AnalyzeP!LatestCompletedScan, Analyze!store, AnalyzeP!store, Analyze!Chunked,
     AnalyzeP!Chunked, Analyze!Rows, AnalyzeP!Rows, Analyze!ListFindings, AnalyzeP!ListFindings,
     Analyze!BuildReport, AnalyzeP!BuildReport, Analyze!ToSet, AnalyzeP!ToSet, Analyze!Batch, AnalyzeP!Batch, Analyze!Report,
     AnalyzeP!Report, Analyze!agent, AnalyzeP!agent, Analyze!PreviousCompletedScan,
     AnalyzeP!PreviousCompletedScan, Analyze!DoneScansBefore, AnalyzeP!DoneScansBefore,
     Analyze!Max, AnalyzeP!Max, Analyze!Min, AnalyzeP!Min, Analyze!SetToSeq, AnalyzeP!SetToSeq,
     Analyze!IsInjective, AnalyzeP!IsInjective, Analyze!Cardinality, AnalyzeP!Cardinality,
     Analyze!IsFiniteSet, AnalyzeP!IsFiniteSet
<1>4. Analyze!TypeOK <=> AnalyzeP!TypeOK
  BY DEF Analyze!TypeOK, AnalyzeP!TypeOK, Analyze!StoreTypeOK, AnalyzeP!StoreTypeOK, Analyze!PCs,
     AnalyzeP!PCs, Analyze!FindingRow, AnalyzeP!FindingRow, Analyze!ScanRow, AnalyzeP!ScanRow,
     Analyze!AssetRow, AnalyzeP!AssetRow, Analyze!Working, AnalyzeP!Working, Analyze!Ended,
     AnalyzeP!Ended, Analyze!agent, AnalyzeP!agent, Analyze!Statuses, AnalyzeP!Statuses
<1> QED  BY <1>1, <1>2, <1>3, <1>4 DEF AnalyzeP!StepOf

\* So are the instances of the tables.
LEMMA SameTouches ==
    ASSUME NEW id
    PROVE  /\ ReconP!Touches(id) <=> Touches(id)
           /\ AttackP!Touches(id) <=> Touches(id)
           /\ AnalyzeP!Touches(id) <=> Touches(id)
BY DEF Touches, ReconP!Touches, AttackP!Touches, AnalyzeP!Touches,
       IsFiniteSet, ReconP!IsFiniteSet, AttackP!IsFiniteSet, AnalyzeP!IsFiniteSet,
       Closed, ReconP!Closed, AttackP!Closed, AnalyzeP!Closed,
       NoScan, ReconP!NoScan, AttackP!NoScan, AnalyzeP!NoScan,
       StoreTypeOK, ReconP!StoreTypeOK, AttackP!StoreTypeOK, AnalyzeP!StoreTypeOK,
       ScanRow, ReconP!ScanRow, AttackP!ScanRow, AnalyzeP!ScanRow,
       Statuses, ReconP!Statuses, AttackP!Statuses, AnalyzeP!Statuses,
       AssetRow, ReconP!AssetRow, AttackP!AssetRow, AnalyzeP!AssetRow,
       FindingRow, ReconP!FindingRow, AttackP!FindingRow, AnalyzeP!FindingRow

-----------------------------------------------------------------------------
(* The targets of an attack *)

\* A name has a place of its own among finitely many, from 1 up to their number.
LEMMA PlacesAreDistinct ==
    ASSUME NEW names \in SUBSET Targets, IsFiniteSet(names)
    PROVE  [t \in names |-> PlaceIn(names, t)] \in Bijection(names, 1 .. Cardinality(names))
<1> DEFINE UpTo(t) == {s \in names : Rank[s] <= Rank[t]}
           n == Cardinality(names)
           place == [t \in names |-> PlaceIn(names, t)]
<1>1. n \in Nat
  BY FS_CardinalityType
<1>2. ASSUME NEW t \in names
      PROVE  IsFiniteSet(UpTo(t)) /\ Cardinality(UpTo(t)) \in 1 .. n
  <2>1. UpTo(t) \subseteq names /\ t \in UpTo(t)
    BY RankType
  <2>2. IsFiniteSet(UpTo(t)) /\ Cardinality(UpTo(t)) <= n
    BY <2>1, FS_Subset
  <2>3. Cardinality(UpTo(t)) \in Nat /\ Cardinality(UpTo(t)) # 0
    BY <2>1, <2>2, FS_CardinalityType, FS_EmptySet
  <2> QED  BY <1>1, <2>2, <2>3
<1>3. ASSUME NEW s \in names, NEW t \in names, Rank[s] < Rank[t]
      PROVE  Cardinality(UpTo(s)) # Cardinality(UpTo(t))
  <2>1. UpTo(s) \subseteq UpTo(t) /\ t \in UpTo(t) /\ t \notin UpTo(s)
    BY <1>3, RankType
  <2>2. Cardinality(UpTo(t)) = Cardinality(UpTo(s)) => UpTo(t) = UpTo(s)
    BY <1>2, <2>1, FS_Subset
  <2> QED  BY <2>1, <2>2
<1>4. ASSUME NEW s \in names, NEW t \in names, s # t
      PROVE  Cardinality(UpTo(s)) # Cardinality(UpTo(t))
  <2>1. Rank[s] \in Nat /\ Rank[t] \in Nat /\ Rank[s] # Rank[t]
    BY <1>4, RankType
  <2>2. Rank[s] < Rank[t] \/ Rank[t] < Rank[s]
    BY <2>1
  <2> QED  BY <1>3, <2>2
<1>5. \A t \in names : place[t] = Cardinality(UpTo(t))
  BY DEF PlaceIn
<1>6. place \in Injection(names, 1 .. n)
  <2>1. place \in [names -> 1 .. n]
    BY <1>2, <1>5
  <2>2. \A a, b \in names : place[a] = place[b] => a = b
    BY <1>4, <1>5
  <2> HIDE DEF place
  <2> QED  BY <2>1, <2>2 DEF Injection, IsInjective
<1>7. IsFiniteSet(1 .. n) /\ Cardinality(1 .. n) = n
  BY <1>1, FS_Interval
<1>8. place \in Surjection(names, 1 .. n)
  <2> HIDE DEF place
  <2> QED  BY <1>6, <1>7, FS_Injection
<1> QED  BY <1>6, <1>8 DEF Bijection

\* _extract_targets gives the attack a list of targets, with every name once.
LEMMA AttackTargetsAreTargets ==
    ASSUME IInv, NEW p \in Runs
    PROVE  AttackTargets(p) \in Seq(Targets) /\ Range(AttackTargets(p)) = AttackNames(p)
<1> DEFINE names == AttackNames(p)
           rows == {row \in assets : row.scan = reconScan[p]}
           name == [row \in rows |-> row.asset]
<1>1. assets \in SUBSET AssetRow /\ IsFiniteSet(assets)
  BY DEF IInv, Shared, ReconP!SharedInv, ReconP!TypeOK, ReconP!StoreTypeOK, ReconP!AssetRow, AssetRow
<1>2. IsFiniteSet(ListAssets(reconScan[p])) /\ ListAssets(reconScan[p]) \subseteq Assets
  <2>1. IsFiniteSet(rows) /\ DOMAIN name = rows
    BY <1>1, FS_Subset
  <2>2. IsFiniteSet({name[row] : row \in rows})
    <3> HIDE DEF rows, name
    <3> QED  BY <2>1, ImageOfPlacesIsFinite
  <2>3. {name[row] : row \in rows} = ListAssets(reconScan[p])
    BY DEF ListAssets
  <2>4. ListAssets(reconScan[p]) \subseteq Assets
    BY <1>1 DEF ListAssets, AssetRow
  <2> QED  BY <2>2, <2>3, <2>4
<1>3. IsFiniteSet(Subdomains(p)) /\ Subdomains(p) \subseteq Targets
  <2> DEFINE found == ListAssets(reconScan[p]) \cap DOMAIN NameOf
             nameOf == [a \in found |-> NameOf[a]]
  <2>1. IsFiniteSet(found) /\ DOMAIN nameOf = found
    <3>1. found \subseteq ListAssets(reconScan[p])
      OBVIOUS
    <3> QED  BY <1>2, <3>1, FS_Subset
  <2>2. IsFiniteSet({nameOf[a] : a \in found})
    <3> HIDE DEF found, nameOf
    <3> QED  BY <2>1, ImageOfPlacesIsFinite
  <2>3. {nameOf[a] : a \in found} = Subdomains(p)
    BY DEF Subdomains
  <2>4. Subdomains(p) \subseteq Targets
    BY NameOfType DEF Subdomains
  <2> QED  BY <2>2, <2>3, <2>4
<1>4. IsFiniteSet(names) /\ names \in SUBSET Targets
  <2>1. IsFiniteSet({TargetOf[p]})
    BY FS_Singleton
  <2>2. IsFiniteSet({TargetOf[p]} \cup Subdomains(p))
    BY <1>3, <2>1, FS_Union
  <2> QED  BY <1>3, <2>2, TargetOfType DEF AttackNames
<1>5. Cardinality(names) \in Nat
  BY <1>4, FS_CardinalityType
<1>6. ASSUME NEW k \in 1 .. Cardinality(names)
      PROVE  \E t \in names : PlaceIn(names, t) = k
  <2> HIDE DEF names
  <2>1. [t \in names |-> PlaceIn(names, t)] \in Surjection(names, 1 .. Cardinality(names))
    BY <1>4, PlacesAreDistinct DEF Bijection
  <2> QED  BY <2>1 DEF Surjection
<1>7. ASSUME NEW k \in 1 .. Cardinality(names)
      PROVE  (CHOOSE t \in names : PlaceIn(names, t) = k) \in Targets
  BY <1>4, <1>6
<1>8. AttackTargets(p) \in [1 .. Cardinality(names) -> Targets]
  BY <1>7 DEF AttackTargets
<1>9. Range(AttackTargets(p)) = names
  <2> DEFINE size == Cardinality(names)
             At(k) == CHOOSE t \in names : PlaceIn(names, t) = k
  <2>1. AttackTargets(p) = [k \in 1 .. size |-> At(k)]
    BY DEF AttackTargets
  <2>2. \A k \in 1 .. size : At(k) \in names /\ PlaceIn(names, At(k)) = k
    <3> HIDE DEF names
    <3> QED  BY <1>6
  <2>3. ASSUME NEW t \in names PROVE \E k \in 1 .. size : At(k) = t
    <3> DEFINE k == PlaceIn(names, t)
    <3> HIDE DEF names
    <3>1. [s \in names |-> PlaceIn(names, s)] \in Injection(names, 1 .. Cardinality(names))
      BY <1>4, PlacesAreDistinct DEF Bijection
    <3>2. k \in 1 .. size /\ \A s \in names : PlaceIn(names, s) = k => s = t
      BY <3>1 DEF Injection, IsInjective
    <3>3. At(k) \in names /\ PlaceIn(names, At(k)) = k
      BY <2>2, <3>2
    <3> QED  BY <3>2, <3>3
  <2> HIDE DEF names, At
  <2> QED  BY <2>1, <2>2, <2>3 DEF Range
<1> QED  BY <1>5, <1>8, <1>9, SeqDef

-----------------------------------------------------------------------------
(* A step of one agent and what the others know *)

\* The tables of the instances are the tables, and no id stands for no scan.
LEMMA SameStore ==
    /\ ReconP!StoreTypeOK <=> StoreTypeOK
    /\ AttackP!StoreTypeOK <=> StoreTypeOK
    /\ AnalyzeP!StoreTypeOK <=> StoreTypeOK
    /\ ReconP!NoScan = 0 /\ AttackP!NoScan = 0 /\ AnalyzeP!NoScan = 0 /\ NoScan = 0
BY DEF StoreTypeOK, ReconP!StoreTypeOK, AttackP!StoreTypeOK, AnalyzeP!StoreTypeOK,
       ScanRow, ReconP!ScanRow, AttackP!ScanRow, AnalyzeP!ScanRow,
       Statuses, ReconP!Statuses, AttackP!Statuses, AnalyzeP!Statuses,
       AssetRow, ReconP!AssetRow, AttackP!AssetRow, AnalyzeP!AssetRow,
       FindingRow, ReconP!FindingRow, AttackP!FindingRow, AnalyzeP!FindingRow,
       NoScan, ReconP!NoScan, AttackP!NoScan, AnalyzeP!NoScan

\* No two agents work for one scan: the rows of the table are of one agent each.
LEMMA RowsAreApart ==
    ASSUME Shared, NEW p \in Runs, NEW q \in Runs
    PROVE  /\ reconScan[p] \in 0 .. Len(scans) /\ attackScan[p] \in 0 .. Len(scans)
           /\ analyzeScan[p] \in 0 .. Len(scans)
           /\ reconScan[p] # 0 => reconScan[p] # attackScan[q] /\ reconScan[p] # analyzeScan[q]
           /\ attackScan[p] # 0 => attackScan[p] # reconScan[q] /\ attackScan[p] # analyzeScan[q]
           /\ analyzeScan[p] # 0 => analyzeScan[p] # reconScan[q] /\ analyzeScan[p] # attackScan[q]
<1>1. /\ reconScan[p] \in 0 .. Len(scans) /\ attackScan[p] \in 0 .. Len(scans)
      /\ analyzeScan[p] \in 0 .. Len(scans)
  BY DEF Shared, ReconP!SharedInv, ReconP!TypeOK, AttackP!SharedInv, AttackP!Typed, AttackP!TypeOK,
         AnalyzeP!SharedInv, AnalyzeP!Typed, AnalyzeP!TypeOK
<1>2. \A r \in Runs : reconScan[r] # 0 => scans[reconScan[r]].agent = "recon"
  BY SameStore DEF Shared, ReconP!SharedInv, ReconP!OwnRows
<1>3. \A r \in Runs : attackScan[r] # 0 => scans[attackScan[r]].agent = "attack"
  BY SameStore DEF Shared, AttackP!SharedInv, AttackP!OwnRows
<1>4. \A r \in Runs : analyzeScan[r] # 0 => scans[analyzeScan[r]].agent = "analyze"
  BY SameStore DEF Shared, AnalyzeP!SharedInv, AnalyzeP!RunInv, AnalyzeP!RowIsNew
<1> QED  BY <1>1, <1>2, <1>3, <1>4

\* The findings of a scan that an analysis has taken are all there: what it was
\* given is an attack that is done, and what it chose had completed.
LEMMA SourceIsOver ==
    ASSUME IInv, NEW p \in Runs, NEW q \in Runs, Touches(attackScan[p])
    PROVE  {f \in findings' : f.scan = source[q]} = AnalyzeP!Rows(source[q])
<1> DEFINE id == attackScan[p]
<1>1. findings \subseteq findings'
      /\ \A row \in findings' :
             row \in findings \/ (row.scan = id /\ id # 0 /\ scans[id].status = "running")
  BY SameStore DEF Touches
<1>2. AnalyzeP!SourceFollowsPc(q) /\ AttackP!RowFollowsPc(q) /\ Phases(q)
  BY DEF IInv, Shared, AnalyzeP!SharedInv, AnalyzeP!RunInv, AttackP!SharedInv, AttackP!RunInv
<1>3. ASSUME source[q] # 0, given[q] = 0
      PROVE  scans[source[q]].status # "running"
  BY <1>2, <1>3, SameStore DEF AnalyzeP!SourceFollowsPc, AnalyzeP!Closed
<1>4. ASSUME source[q] # 0, given[q] # 0
      PROVE  scans[source[q]].status # "running"
  <2>1. source[q] = given[q]
    BY <1>2, <1>4, SameStore DEF AnalyzeP!SourceFollowsPc, AnalyzeP!TakesGiven
  <2>2. given[q] = attackScan[q] /\ attackPc[q] = "returned"
    BY <1>2, <1>4, SameStore DEF Phases
  <2>3. scans[attackScan[q]].status = "done"
    BY <1>2, <2>2 DEF AttackP!RowFollowsPc
  <2> QED  BY <2>1, <2>2, <2>3
<1> QED  BY <1>1, <1>3, <1>4 DEF AnalyzeP!Rows

\* A step of a recon agent.
LEMMA ReconMoves ==
    ASSUME Shared, NEW p \in Runs, ReconP!StepOf(p), UNCHANGED <<attackVars, analyzeVars>>
    PROVE  Shared' /\ Touches(reconScan[p]) /\ findings' = findings
<1>1. ReconP!SharedInv' /\ Touches(reconScan[p])
  <2>1. ReconP!SharedInv
    BY DEF Shared
  <2>2. ReconP!SharedInv' /\ ReconP!Touches(reconScan[p])
    BY <2>1, ReconP!SharedStep, ReconAssumed
  <2> QED  BY <2>2, SameTouches
<1>2. findings' = findings
  BY ReconP!WritesNoFindings, ReconAssumed
<1>3. AttackP!SharedInv'
  <2>1. AttackP!SharedInv /\ UNCHANGED AttackP!agent
    BY DEF Shared, attackVars, AttackP!agent
  <2>2. AttackP!Touches(reconScan[p]) /\ reconScan[p] \in 0 .. Len(scans)
    BY <1>1, SameTouches, RowsAreApart
  <2>3. \A q \in Runs : attackScan[q] = AttackP!NoScan \/ attackScan[q] # reconScan[p]
    BY RowsAreApart, SameStore
  <2> QED  BY <2>1, <2>2, <2>3, AttackP!SharedKept, AttackAssumed
<1>4. AnalyzeP!SharedInv'
  <2>1. AnalyzeP!SharedInv /\ UNCHANGED <<reports, AnalyzeP!agent>>
    BY DEF Shared, analyzeVars, AnalyzeP!agent
  <2>2. AnalyzeP!Touches(reconScan[p]) /\ reconScan[p] \in 0 .. Len(scans)
    BY <1>1, SameTouches, RowsAreApart
  <2>3. \A q \in Runs : analyzeScan[q] = AnalyzeP!NoScan \/ analyzeScan[q] # reconScan[p]
    BY RowsAreApart, SameStore
  <2>4. \A q \in Runs : {f \in findings' : f.scan = source[q]} = AnalyzeP!Rows(source[q])
    BY <1>2 DEF AnalyzeP!Rows
  <2>5. reconScan[p] = AnalyzeP!NoScan \/ reconScan[p] > Len(<<>>)
    BY <2>2, SameStore
  <2> QED  BY <2>1, <2>2, <2>3, <2>4, <2>5, AnalyzeP!SharedKept, AnalyzeAssumed
<1>5. IsFiniteSet(assets')
  BY <1>1 DEF Shared, Touches
<1> QED  BY <1>1, <1>2, <1>3, <1>4, <1>5 DEF Shared

\* A step of an attack agent.
LEMMA AttackMoves ==
    ASSUME IInv, NEW p \in Runs, AttackP!StepOf(p), UNCHANGED <<reconVars, analyzeVars>>
    PROVE  Shared' /\ Touches(attackScan[p])
<1>1. AttackP!SharedInv' /\ Touches(attackScan[p])
  <2>1. AttackP!SharedInv
    BY DEF IInv, Shared
  <2>2. AttackP!SharedInv' /\ AttackP!Touches(attackScan[p])
    BY <2>1, AttackP!SharedStep, AttackAssumed
  <2> QED  BY <2>2, SameTouches
<1>2. Shared
  BY DEF IInv
<1>3. ReconP!SharedInv'
  <2>1. ReconP!SharedInv /\ UNCHANGED ReconP!agent
    BY <1>2 DEF Shared, reconVars, ReconP!agent
  <2>2. ReconP!Touches(attackScan[p]) /\ attackScan[p] \in 0 .. Len(scans)
    BY <1>1, <1>2, SameTouches, RowsAreApart
  <2>3. \A q \in Runs : reconScan[q] = ReconP!NoScan \/ reconScan[q] # attackScan[p]
    BY <1>2, RowsAreApart, SameStore
  <2> QED  BY <2>1, <2>2, <2>3, ReconP!SharedKept, ReconAssumed
<1>4. AnalyzeP!SharedInv'
  <2>1. AnalyzeP!SharedInv /\ UNCHANGED <<reports, AnalyzeP!agent>>
    BY <1>2 DEF Shared, analyzeVars, AnalyzeP!agent
  <2>2. AnalyzeP!Touches(attackScan[p]) /\ attackScan[p] \in 0 .. Len(scans)
    BY <1>1, <1>2, SameTouches, RowsAreApart
  <2>3. \A q \in Runs : analyzeScan[q] = AnalyzeP!NoScan \/ analyzeScan[q] # attackScan[p]
    BY <1>2, RowsAreApart, SameStore
  <2>4. \A q \in Runs : {f \in findings' : f.scan = source[q]} = AnalyzeP!Rows(source[q])
    BY <1>1, SourceIsOver
  <2>5. attackScan[p] = AnalyzeP!NoScan \/ attackScan[p] > Len(<<>>)
    BY <2>2, SameStore
  <2> QED  BY <2>1, <2>2, <2>3, <2>4, <2>5, AnalyzeP!SharedKept, AnalyzeAssumed
<1>5. IsFiniteSet(assets')
  BY <1>1, <1>2 DEF Shared, Touches
<1> QED  BY <1>1, <1>3, <1>4, <1>5 DEF Shared

\* A step of an analyze agent.
LEMMA AnalyzeMoves ==
    ASSUME Shared, NEW p \in Runs, AnalyzeP!StepOf(p), UNCHANGED <<reconVars, attackVars>>
    PROVE  Shared' /\ Touches(analyzeScan[p])
<1>1. AnalyzeP!SharedInv' /\ Touches(analyzeScan[p])
  <2>1. AnalyzeP!SharedInv
    BY DEF Shared
  <2>2. AnalyzeP!SharedInv' /\ AnalyzeP!Touches(analyzeScan[p])
    BY <2>1, AnalyzeP!SharedStep, AnalyzeAssumed
  <2> QED  BY <2>2, SameTouches
<1>2. ReconP!SharedInv'
  <2>1. ReconP!SharedInv /\ UNCHANGED ReconP!agent
    BY DEF Shared, reconVars, ReconP!agent
  <2>2. ReconP!Touches(analyzeScan[p]) /\ analyzeScan[p] \in 0 .. Len(scans)
    BY <1>1, SameTouches, RowsAreApart
  <2>3. \A q \in Runs : reconScan[q] = ReconP!NoScan \/ reconScan[q] # analyzeScan[p]
    BY RowsAreApart, SameStore
  <2> QED  BY <2>1, <2>2, <2>3, ReconP!SharedKept, ReconAssumed
<1>3. AttackP!SharedInv'
  <2>1. AttackP!SharedInv /\ UNCHANGED AttackP!agent
    BY DEF Shared, attackVars, AttackP!agent
  <2>2. AttackP!Touches(analyzeScan[p]) /\ analyzeScan[p] \in 0 .. Len(scans)
    BY <1>1, SameTouches, RowsAreApart
  <2>3. \A q \in Runs : attackScan[q] = AttackP!NoScan \/ attackScan[q] # analyzeScan[p]
    BY RowsAreApart, SameStore
  <2> QED  BY <2>1, <2>2, <2>3, AttackP!SharedKept, AttackAssumed
<1>4. IsFiniteSet(assets')
  BY <1>1 DEF Shared, Touches
<1> QED  BY <1>1, <1>2, <1>3, <1>4 DEF Shared

-----------------------------------------------------------------------------
(* A step of one agent and the phases of a command *)

\* The names that recon found stay what they are, once it has returned: its scan
\* is done, and nobody files assets under it any more.
LEMMA NamesKept ==
    ASSUME IInv, NEW id, Touches(id), NEW q \in Runs, reconPc[q] = "returned",
           reconScan'[q] = reconScan[q]
    PROVE  AttackNames(q)' = AttackNames(q)
<1>1. scans[reconScan[q]].status = "done"
  BY DEF IInv, Shared, ReconP!SharedInv, ReconP!RunInv, ReconP!RowFollowsPc
<1>2. \A row : row.scan = reconScan[q] => (row \in assets' <=> row \in assets)
  BY <1>1 DEF Touches
<1>3. {row \in assets' : row.scan = reconScan[q]} = {row \in assets : row.scan = reconScan[q]}
  BY <1>2
<1> QED  BY <1>3 DEF AttackNames, Subdomains, ListAssets

\* A step of recon leaves the phases in order: nothing follows it before it
\* has returned, and then it stays there.
LEMMA ReconPhases ==
    ASSUME IInv, NEW p \in Runs, ReconP!StepOf(p), UNCHANGED <<command, attackVars, analyzeVars>>
    PROVE  \A q \in Runs : Phases(q)'
<1>1. /\ ReconP!TypeOK /\ ReconP!RunInv(p)
      /\ \A q \in Runs : Phases(q)
      /\ \A q \in Runs : AttackP!RowFollowsPc(q)
  BY DEF IInv, Shared, ReconP!SharedInv, AttackP!SharedInv, AttackP!RunInv
<1>2. reconPc[p] = "returned" => reconPc'[p] = "returned"
  BY <1>1, ReconP!PcStep, ReconAssumed
<1>3. reconPc[p] = "returned" => reconScan' = reconScan
  BY <1>1, ReconP!ScanIdStep, ReconAssumed
<1>4. \A q \in Runs \ {p} : reconPc'[q] = reconPc[q] /\ reconScan'[q] = reconScan[q]
  BY <1>1, ReconP!LocalFrameHolds, ReconAssumed DEF ReconP!LocalFrame
<1>5. \A q \in Runs : attackScan[q] # NoScan => attackPc[q] # "idle"
  BY <1>1, SameStore DEF AttackP!RowFollowsPc
<1>6. ASSUME NEW q \in Runs, attackPc[q] # "idle"
      PROVE  AttackNames(q)' = AttackNames(q)
  <2>1. reconPc[q] = "returned" /\ reconScan'[q] = reconScan[q]
    BY <1>1, <1>3, <1>4, <1>6 DEF Phases
  <2>2. Touches(reconScan[p])
    BY ReconMoves DEF IInv
  <2> QED  BY <2>1, <2>2, NamesKept
<1> QED  BY <1>1, <1>2, <1>3, <1>4, <1>5, <1>6 DEF Phases, attackVars, analyzeVars, NoScan

\* The attack begins when recon has returned.
LEMMA AttackPhases ==
    ASSUME IInv, NEW p \in Runs, AttackP!StepOf(p), UNCHANGED <<command, reconVars, analyzeVars>>,
           attackPc'[p] # "idle" =>
               reconPc[p] = "returned" /\ Range(attackTargets'[p]) = AttackNames(p)
    PROVE  \A q \in Runs : Phases(q)'
<1>1. /\ AttackP!Typed /\ AttackP!RunInv(p)
      /\ \A q \in Runs : Phases(q)
      /\ \A q \in Runs : AnalyzeP!RowFollowsPc(q)
  BY DEF IInv, Shared, AttackP!SharedInv, AnalyzeP!SharedInv, AnalyzeP!RunInv
<1>2. attackPc[p] = "returned" => attackPc'[p] = "returned"
  BY <1>1, AttackP!PcStep, AttackAssumed
<1>3. \/ attackScan' = attackScan
      \/ /\ attackPc[p] = "create" /\ attackScan' = [attackScan EXCEPT ![p] = Len(scans) + 1]
         /\ Len(scans) \in Nat /\ reconScan[p] \in 0 .. Len(scans)
  <2>1. \/ attackScan' = attackScan
        \/ attackPc[p] = "create" /\ attackScan' = [attackScan EXCEPT ![p] = Len(scans) + 1]
    BY <1>1, AttackP!ScanIdStep, AttackAssumed
  <2>2. reconScan[p] \in 0 .. Len(scans)
    BY RowsAreApart DEF IInv
  <2>3. Len(scans) \in Nat
    BY <1>1, ScansAreRows, SameStore DEF AttackP!Typed, AttackP!TypeOK
  <2> QED  BY <2>1, <2>2, <2>3
<1>4. \A q \in Runs \ {p} : /\ attackPc'[q] = attackPc[q] /\ attackScan'[q] = attackScan[q]
                             /\ attackTargets'[q] = attackTargets[q]
  BY <1>1, AttackP!LocalFrameHolds, AttackAssumed DEF AttackP!LocalFrame
<1>5. \A q \in Runs : analyzeScan[q] # NoScan => analyzePc[q] # "idle"
  BY <1>1, SameStore DEF AnalyzeP!RowFollowsPc
<1>6. attackScan \in [Runs -> Nat]
  <2>1. attackScan \in [Runs -> 0 .. Len(scans)]
    BY <1>1 DEF AttackP!Typed, AttackP!TypeOK
  <2> QED  BY <2>1
<1>7. ASSUME NEW q \in Runs, reconPc[q] = "returned"
      PROVE  AttackNames(q)' = AttackNames(q)
  BY <1>7, AttackMoves, NamesKept DEF reconVars
<1>8. ASSUME NEW q \in Runs, q # p
      PROVE  Phases(q)'
  BY <1>1, <1>4, <1>8, <1>7 DEF Phases, reconVars, analyzeVars, NoScan
<1>9. Phases(p)'
  <2>1. attackPc'[p] # "idle" =>
            reconPc'[p] = "returned" /\ Range(attackTargets'[p]) = AttackNames(p)'
    BY <1>7 DEF reconVars
  <2>2. attackScan'[p] # NoScan => reconScan'[p] < attackScan'[p]
    BY <1>1, <1>3, <1>6 DEF reconVars, Phases, NoScan
  <2>3. attackPc[p] = "returned" => attackScan' = attackScan
    BY <1>3
  <2> QED
    BY <1>1, <1>2, <1>5, <2>1, <2>2, <2>3 DEF Phases, analyzeVars, NoScan
<1> QED  BY <1>8, <1>9

\* The analysis of a pipeline begins when the attack has returned, with its scan.
LEMMA AnalyzePhases ==
    ASSUME IInv, NEW p \in Runs, AnalyzeP!StepOf(p), UNCHANGED <<command, reconVars, attackVars>>,
           analyzePc'[p] # "idle" /\ command[p] = "full" =>
               attackPc[p] = "returned" /\ given'[p] = attackScan[p],
           given'[p] # NoScan => analyzePc'[p] # "idle" /\ command[p] = "full"
    PROVE  \A q \in Runs : Phases(q)'
<1>1. /\ AnalyzeP!Typed /\ AnalyzeP!RunInv(p)
      /\ \A q \in Runs : Phases(q)
  BY DEF IInv, Shared, AnalyzeP!SharedInv
<1>2. \/ analyzeScan' = analyzeScan
      \/ /\ analyzePc[p] = "create" /\ analyzeScan' = [analyzeScan EXCEPT ![p] = Len(scans) + 1]
         /\ Len(scans) \in Nat /\ attackScan[p] \in 0 .. Len(scans)
  <2>1. \/ analyzeScan' = analyzeScan
        \/ analyzePc[p] = "create" /\ analyzeScan' = [analyzeScan EXCEPT ![p] = Len(scans) + 1]
    BY <1>1, AnalyzeP!ScanIdStep, AnalyzeAssumed
  <2>2. attackScan[p] \in 0 .. Len(scans)
    BY RowsAreApart DEF IInv
  <2>3. Len(scans) \in Nat
    BY <1>1, ScansAreRows, SameStore DEF AnalyzeP!Typed, AnalyzeP!TypeOK
  <2> QED  BY <2>1, <2>2, <2>3
<1>3. \A q \in Runs \ {p} : /\ analyzePc'[q] = analyzePc[q] /\ analyzeScan'[q] = analyzeScan[q]
                             /\ given'[q] = given[q]
  BY <1>1, AnalyzeP!LocalFrameHolds, AnalyzeAssumed DEF AnalyzeP!LocalFrame
<1>4. analyzeScan \in [Runs -> Nat]
  <2>1. analyzeScan \in [Runs -> 0 .. Len(scans)]
    BY <1>1 DEF AnalyzeP!Typed, AnalyzeP!TypeOK
  <2> QED  BY <2>1
<1>5. ASSUME NEW q \in Runs, reconPc[q] = "returned"
      PROVE  AttackNames(q)' = AttackNames(q)
  BY <1>5, AnalyzeMoves, NamesKept DEF IInv, reconVars
<1>6. ASSUME NEW q \in Runs, q # p
      PROVE  Phases(q)'
  BY <1>1, <1>3, <1>6, <1>5 DEF Phases, reconVars, attackVars, NoScan
<1>7. Phases(p)'
  <2>1. analyzeScan'[p] # NoScan /\ command'[p] = "full" => attackScan'[p] < analyzeScan'[p]
    BY <1>1, <1>2, <1>4 DEF Phases, attackVars, NoScan
  <2> QED  BY <1>1, <1>5, <2>1 DEF Phases, reconVars, attackVars, NoScan
<1> QED  BY <1>6, <1>7

-----------------------------------------------------------------------------
(* The invariant *)

\* With the tables empty and nothing begun, all of it holds.
LEMMA InitIInv == Init => IInv
<1> SUFFICES ASSUME Init PROVE IInv
  OBVIOUS
<1>1. scans = <<>> /\ assets = {} /\ findings = {}
  BY DEF Init, Recon!Init, Recon!StoreInit
<1>2. ReconP!SharedInv
  <2>1. ReconP!Init
    BY SameRecon DEF Init
  <2> QED  BY <2>1, ReconP!InitShared, ReconAssumed
<1>3. AttackP!SharedInv
  <2>1. AttackP!Init
    BY <1>1, SameAttack DEF Init, AttackP!Init, AttackP!StoreInit
  <2> QED  BY <2>1, AttackP!InitShared, AttackAssumed
<1>4. AnalyzeP!SharedInv
  <2>1. AnalyzeP!Init
    BY <1>1, SameAnalyze DEF Init, AnalyzeP!Init
  <2> QED  BY <2>1, AnalyzeP!InitShared, AnalyzeAssumed
<1>5. Shared
  BY <1>1, <1>2, <1>3, <1>4, FS_EmptySet DEF Shared
<1>6. command \in [Runs -> Commands] /\ stage \in [Runs -> Stages]
  BY GivenType DEF Init, Stages
<1>7. \A p \in Runs : Phases(p)
  BY SameStore DEF Phases, Init, Attack!AgentInit, Analyze!AgentInit, Attack!NoScan, Analyze!NoScan
<1> QED  BY <1>5, <1>6, <1>7 DEF IInv

\* Where no agent moves, what each of them knows stays.
LEMMA NothingMoves ==
    ASSUME IInv, UNCHANGED <<store, command, reconVars, attackVars, analyzeVars>>
    PROVE  Shared' /\ \A q \in Runs : Phases(q)'
<1>1. StoreTypeOK
  BY SameStore DEF IInv, Shared, ReconP!SharedInv, ReconP!TypeOK
<1>2. Touches(0) /\ 0 \in 0 .. Len(scans)
  BY <1>1, NothingTouches, ScansAreRows
<1>3. UNCHANGED <<ReconP!agent, AttackP!agent, AnalyzeP!agent, reports>>
  BY DEF reconVars, attackVars, analyzeVars, ReconP!agent, AttackP!agent, AnalyzeP!agent
<1>4. ReconP!SharedInv'
  <2>1. ReconP!Touches(0) /\ ReconP!SharedInv
    BY <1>2, SameTouches DEF IInv, Shared
  <2>2. \A q \in Runs : reconScan[q] = ReconP!NoScan \/ reconScan[q] # 0
    BY SameStore
  <2> QED  BY <1>2, <1>3, <2>1, <2>2, ReconP!SharedKept, ReconAssumed
<1>5. AttackP!SharedInv'
  <2>1. AttackP!Touches(0) /\ AttackP!SharedInv
    BY <1>2, SameTouches DEF IInv, Shared
  <2>2. \A q \in Runs : attackScan[q] = AttackP!NoScan \/ attackScan[q] # 0
    BY SameStore
  <2> QED  BY <1>2, <1>3, <2>1, <2>2, AttackP!SharedKept, AttackAssumed
<1>6. AnalyzeP!SharedInv'
  <2>1. AnalyzeP!Touches(0) /\ AnalyzeP!SharedInv
    BY <1>2, SameTouches DEF IInv, Shared
  <2>2. \A q \in Runs : /\ analyzeScan[q] = AnalyzeP!NoScan \/ analyzeScan[q] # 0
                        /\ {f \in findings' : f.scan = source[q]} = AnalyzeP!Rows(source[q])
    BY SameStore DEF AnalyzeP!Rows, store
  <2>3. 0 = AnalyzeP!NoScan
    BY SameStore
  <2> QED  BY <1>2, <1>3, <2>1, <2>2, <2>3, AnalyzeP!SharedKept, AnalyzeAssumed
<1>7. Shared'
  BY <1>4, <1>5, <1>6 DEF IInv, Shared, store
<1>8. ASSUME NEW q \in Runs, attackPc[q] # "idle"
      PROVE  AttackNames(q)' = AttackNames(q)
  BY <1>2, <1>8, NamesKept DEF IInv, Phases, reconVars
<1> QED  BY <1>7, <1>8 DEF IInv, Phases, reconVars, attackVars, analyzeVars

\* An agent that steps has been called.
LEMMA StepsFollowACall ==
    ASSUME NEW p \in Runs
    PROVE  /\ Attack!Step(p) => attackPc[p] # "idle"
           /\ Analyze!Step(p) => analyzePc[p] # "idle" /\ given' = given
<1>1. Attack!Step(p) => attackPc[p] # "idle"
  BY DEF Attack!Step, Attack!Create, Attack!Start, Attack!LaunchTools, Attack!GatherReturns,
         Attack!GatherRaises, Attack!SaveFindings, Attack!SaveAssets, Attack!Finalise,
         Attack!Summarise, Attack!SendCriticalAlert, Attack!SendSummary, Attack!HandleViolation,
         Attack!HandleFailure, Attack!Goto, Attack!DatabaseFails, Attack!NotifierRaises
<1>2. Analyze!Step(p) => analyzePc[p] # "idle" /\ given' = given
  BY DEF Analyze!Step, Analyze!Create, Analyze!Start, Analyze!Lookup, Analyze!Fetch,
         Analyze!TriageBatch, Analyze!ProduceReport, Analyze!Save, Analyze!Finalise,
         Analyze!SendSummary, Analyze!HandleFailure, Analyze!Goto, Analyze!Raises,
         Analyze!BuildReport
<1> QED  BY <1>1, <1>2

\* What a step of the system is to the agent that takes it, and when the agents
\* that wait for another can take one.
LEMMA StepsAreSteps ==
    ASSUME IInv, NEW p \in Runs
    PROVE  /\ StartRecon(p) \/ ReconStep(p) =>
                  ReconP!StepOf(p) /\ UNCHANGED <<command, attackVars, analyzeVars>>
           /\ Extract(p) \/ AttackStep(p) =>
                  /\ AttackP!StepOf(p) \/ UNCHANGED <<store, attackVars>>
                  /\ UNCHANGED <<command, reconVars, analyzeVars>>
                  /\ attackPc'[p] # "idle" =>
                         reconPc[p] = "returned" /\ Range(attackTargets'[p]) = AttackNames(p)
           /\ StartAnalyze(p) \/ HandOver(p) \/ AnalyzeStep(p) =>
                  /\ AnalyzeP!StepOf(p) /\ UNCHANGED <<command, reconVars, attackVars>>
                  /\ analyzePc'[p] # "idle" /\ command[p] = "full" =>
                         attackPc[p] = "returned" /\ given'[p] = attackScan[p]
                  /\ given'[p] # NoScan => analyzePc'[p] # "idle" /\ command[p] = "full"
<1>1. Phases(p)
  BY DEF IInv
<1>2. StartRecon(p) \/ ReconStep(p) =>
          ReconP!StepOf(p) /\ UNCHANGED <<command, attackVars, analyzeVars>>
  BY SameRecon DEF StartRecon, ReconStep, Move
<1>3. Extract(p) =>
          /\ AttackP!StepOf(p) \/ UNCHANGED <<store, attackVars>>
          /\ UNCHANGED <<command, reconVars, analyzeVars>>
          /\ reconPc[p] = "returned"
          /\ attackPc'[p] # "idle" => Range(attackTargets'[p]) = AttackNames(p)
  <2>1. Attack!Begin(p, AttackTargets(p)) => AttackP!StepOf(p)
    BY SameAttack, AttackTargetsAreTargets
  <2>2. Attack!Begin(p, AttackTargets(p)) => attackTargets'[p] = AttackTargets(p)
    <3>1. DOMAIN attackTargets = Runs
      BY DEF IInv, Shared, AttackP!SharedInv, AttackP!Typed, AttackP!TypeOK
    <3> QED  BY <3>1 DEF Attack!Begin, Attack!CallWith
  <2>3. UNCHANGED attackVars /\ attackPc'[p] # "idle" =>
            Range(attackTargets'[p]) = AttackNames(p)
    BY <1>1 DEF attackVars, Phases
  <2> QED  BY <2>1, <2>2, <2>3, AttackTargetsAreTargets DEF Extract, Move, ReconReturned
<1>4. AttackStep(p) =>
          /\ AttackP!StepOf(p) /\ UNCHANGED <<command, reconVars, analyzeVars>>
          /\ attackPc'[p] # "idle" =>
                 reconPc[p] = "returned" /\ Range(attackTargets'[p]) = AttackNames(p)
  <2>1. AttackStep(p) => AttackP!StepOf(p) /\ UNCHANGED <<command, reconVars, analyzeVars>>
    BY SameAttack DEF AttackStep
  <2>2. AttackStep(p) => attackPc[p] # "idle" \/ attackPc' = attackPc
    BY StepsFollowACall DEF AttackStep, Attack!FinishTool
  <2>3. AttackStep(p) => attackTargets' = attackTargets
    <3>1. AttackStep(p) /\ attackPc[p] # "idle" => attackTargets' = attackTargets
      BY <2>1, AttackP!ListIsKept, AttackAssumed
    <3>2. AttackStep(p) /\ attackPc[p] = "idle" => attackTargets' = attackTargets
      BY StepsFollowACall DEF AttackStep, Attack!FinishTool
    <3> QED  BY <3>1, <3>2
  <2> QED  BY <1>1, <2>1, <2>2, <2>3 DEF Phases
<1>5. given \in [Runs -> Nat] /\ analyzePc \in [Runs -> AnalyzeP!PCs]
      /\ AnalyzeP!Typed /\ attackScan[p] \in Nat
  <2>1. AnalyzeP!Typed
    BY DEF IInv, Shared, AnalyzeP!SharedInv
  <2>2. attackScan[p] \in Nat
    BY RowsAreApart DEF IInv
  <2> QED  BY <2>1, <2>2 DEF AnalyzeP!Typed, AnalyzeP!TypeOK
<1>6. ASSUME NEW scan \in Nat, Analyze!Begin(p, scan)
      PROVE  AnalyzeP!StepOf(p) /\ given'[p] = scan /\ analyzePc'[p] = "create"
  <2>1. AnalyzeP!StepOf(p)
    BY <1>6, SameAnalyze
  <2> QED  BY <1>5, <1>6, <2>1 DEF Analyze!Begin, Analyze!Goto
<1>7. StartAnalyze(p) =>
          /\ AnalyzeP!StepOf(p) /\ UNCHANGED <<command, reconVars, attackVars>>
          /\ command[p] # "full" /\ given'[p] = NoScan
  BY <1>6 DEF StartAnalyze, Move, NoScan
<1>8. HandOver(p) =>
          /\ AnalyzeP!StepOf(p) /\ UNCHANGED <<command, reconVars, attackVars>>
          /\ command[p] = "full" /\ analyzePc'[p] = "create"
          /\ attackPc[p] = "returned" /\ given'[p] = attackScan[p]
  BY <1>5, <1>6 DEF HandOver, Move
<1>9. AnalyzeStep(p) =>
          /\ AnalyzeP!StepOf(p) /\ UNCHANGED <<command, reconVars, attackVars>>
          /\ analyzePc[p] # "idle" /\ analyzePc'[p] # "idle" /\ given' = given
  <2>1. AnalyzeStep(p) => AnalyzeP!StepOf(p)
    BY SameAnalyze DEF AnalyzeStep
  <2>2. AnalyzeP!StepOf(p) => analyzePc'[p] # "idle"
    BY <1>5, AnalyzeP!PcStep, AnalyzeAssumed
  <2> QED  BY <2>1, <2>2, StepsFollowACall DEF AnalyzeStep
<1> QED  BY <1>1, <1>2, <1>3, <1>4, <1>7, <1>8, <1>9 DEF Phases

\* Every step of the system keeps it.
LEMMA StepIInv == IInv /\ [Next]_vars => IInv'
<1> SUFFICES ASSUME IInv, [Next]_vars
             PROVE  IInv'
  OBVIOUS
<1>1. ASSUME UNCHANGED vars
      PROVE  IInv'
  <2>1. Shared' /\ \A q \in Runs : Phases(q)'
    BY <1>1, NothingMoves DEF vars
  <2> QED  BY <1>1, <2>1 DEF IInv, vars
<1>2. ASSUME NEW p \in Runs,
             \/ StartRecon(p) \/ StartAnalyze(p) \/ Extract(p) \/ HandOver(p)
             \/ ReconStep(p) \/ AttackStep(p) \/ AnalyzeStep(p)
      PROVE  IInv'
  <2>1. command' = command /\ stage' \in [Runs -> Stages]
    BY <1>2 DEF IInv, Stages, StartRecon, StartAnalyze, Extract, HandOver, ReconStep, AttackStep,
                AnalyzeStep, Move
  <2>2. Shared' /\ \A q \in Runs : Phases(q)'
    <3>1. CASE StartRecon(p) \/ ReconStep(p)
      BY <3>1, StepsAreSteps, ReconMoves, ReconPhases DEF IInv
    <3>2. CASE Extract(p) \/ AttackStep(p)
      BY <3>2, StepsAreSteps, AttackMoves, AttackPhases, NothingMoves
    <3>3. CASE StartAnalyze(p) \/ HandOver(p) \/ AnalyzeStep(p)
      BY <3>3, StepsAreSteps, AnalyzeMoves, AnalyzePhases DEF IInv
    <3> QED  BY <1>2, <3>1, <3>2, <3>3
  <2> QED  BY <2>1, <2>2 DEF IInv
<1> QED  BY <1>1, <1>2 DEF Next

\* The strengthening that carries every invariant below.
THEOREM Invariance == Spec => []IInv
<1>1. Init => IInv
  BY InitIInv
<1>2. IInv /\ [Next]_vars => IInv'
  BY StepIInv
<1> QED  BY <1>1, <1>2, PTL DEF Spec

-----------------------------------------------------------------------------
(* What the invariant says of the commands *)

\* Sharing the tables with the other agents breaks the types of none: every
\* scan id a command keeps is the id of a row, whatever else is written.
THEOREM TypeCorrectness == Spec => []TypeOK
<1>1. IInv => TypeOK
  <2> SUFFICES ASSUME IInv PROVE TypeOK
    OBVIOUS
  <2>1. ReconP!TypeOK /\ AttackP!TypeOK /\ AnalyzeP!TypeOK
    BY DEF IInv, Shared, ReconP!SharedInv, AttackP!SharedInv, AttackP!Typed, AnalyzeP!SharedInv,
           AnalyzeP!Typed
  <2>2. Recon!TypeOK /\ Attack!TypeOK /\ Analyze!TypeOK
    BY <2>1, SameRecon, SameAttack, SameAnalyze
  <2> QED  BY <2>2 DEF IInv, TypeOK, Stages
<1> QED  BY <1>1, Invariance, PTL

\* PipelineOrchestrator.run goes on only from a phase that returned, and a phase
\* returns only with its scan done.
THEOREM PhasesFollowCompletedOnes == Spec => []PhasesRestOnCompletedOnes
<1>1. IInv => PhasesRestOnCompletedOnes
  <2> SUFFICES ASSUME IInv, NEW p \in Runs
               PROVE  /\ attackScan[p] # NoScan =>
                             /\ reconScan[p] \in 1 .. (attackScan[p] - 1)
                             /\ scans[reconScan[p]].status = "done"
                      /\ analyzeScan[p] # NoScan /\ command[p] = "full" =>
                             /\ attackScan[p] \in 1 .. (analyzeScan[p] - 1)
                             /\ scans[attackScan[p]].status = "done"
    BY DEF PhasesRestOnCompletedOnes
  <2>1. ReconP!RowFollowsPc(p) /\ AttackP!RowFollowsPc(p) /\ AnalyzeP!RowFollowsPc(p) /\ Phases(p)
    BY DEF IInv, Shared, ReconP!SharedInv, ReconP!RunInv, AttackP!SharedInv, AttackP!RunInv,
           AnalyzeP!SharedInv, AnalyzeP!RunInv
  <2>2. /\ reconScan[p] \in Nat /\ attackScan[p] \in Nat /\ analyzeScan[p] \in Nat
    <3>1. StoreTypeOK
      BY SameStore DEF IInv, Shared, ReconP!SharedInv, ReconP!TypeOK
    <3> QED  BY <3>1, RowsAreApart, ScansAreRows DEF IInv
  <2>3. reconPc[p] = "returned" => reconScan[p] # 0 /\ scans[reconScan[p]].status = "done"
    BY <2>1, SameStore DEF ReconP!RowFollowsPc
  <2>4. attackPc[p] = "returned" => attackScan[p] # 0 /\ scans[attackScan[p]].status = "done"
    BY <2>1, SameStore DEF AttackP!RowFollowsPc
  <2>5. attackScan[p] # 0 => attackPc[p] # "idle"
    BY <2>1, SameStore DEF AttackP!RowFollowsPc
  <2>6. analyzeScan[p] # 0 => analyzePc[p] # "idle"
    BY <2>1, SameStore DEF AnalyzeP!RowFollowsPc
  <2> QED  BY <2>1, <2>2, <2>3, <2>4, <2>5, <2>6 DEF Phases, NoScan
<1> QED  BY <1>1, Invariance, PTL

\* The report of a pipeline is about the findings its own attack tools returned:
\* the scan id handed over is kept, its findings were all stored when the attack
\* returned, nobody adds to them, and the model is asked about each of them.
THEOREM ReportsAreOfOwnAttack == Spec => []ReportIsOfOwnAttack
<1>1. IInv => ReportIsOfOwnAttack
  <2> DEFINE found(p) == Attack!FindingRowsOf(attackScan[p], Attack!FindingLists(p))
  <2> SUFFICES ASSUME IInv, NEW p \in Runs, command[p] = "full",
                      NEW g \in reports, g.scan = analyzeScan[p]
               PROVE  ToSet(asked[p]) = found(p) /\ g.findings_analyzed = Cardinality(found(p))
    BY DEF ReportIsOfOwnAttack
  <2>1. /\ AnalyzeP!SharedInv /\ AnalyzeP!TypeOK /\ AnalyzeP!RowFollowsPc(p) /\ Phases(p)
        /\ AttackP!RowFollowsPc(p) /\ AttackP!StoredByPc(p)
    BY DEF IInv, Shared, AnalyzeP!SharedInv, AnalyzeP!RunInv, AnalyzeP!Typed,
           AttackP!SharedInv, AttackP!RunInv
  <2>2. analyzePc[p] # "idle"
    <3>1. g.scan \in 1 .. Len(scans)
      BY <2>1 DEF AnalyzeP!TypeOK
    <3> QED  BY <2>1, <3>1, SameStore DEF AnalyzeP!RowFollowsPc
  <2>3. /\ given[p] = attackScan[p] /\ attackScan[p] # 0
        /\ scans[attackScan[p]].status = "done"
    BY <2>1, <2>2, SameStore DEF Phases, AttackP!RowFollowsPc
  <2>4. /\ AnalyzeP!TakesGiven(p) /\ asked[p] = AnalyzeP!ListFindings(source[p])
        /\ g.findings_analyzed = AnalyzeP!Cardinality(AnalyzeP!Rows(source[p]))
    BY <2>1, AnalyzeP!ReportIsOfSource, AnalyzeAssumed
  <2>5. source[p] = attackScan[p]
    BY <2>3, <2>4, SameStore DEF AnalyzeP!TakesGiven
  <2>6. AnalyzeP!StoreTypeOK /\ AnalyzeP!IsFiniteSet(findings)
    BY <2>1 DEF AnalyzeP!SharedInv, AnalyzeP!TypeOK
  <2>7. \A f : f \in AnalyzeP!Rows(attackScan[p]) <=>
              \E k \in DOMAIN AnalyzeP!ListFindings(attackScan[p]) :
                  f = AnalyzeP!ListFindings(attackScan[p])[k]
    BY <2>6, AnalyzeP!FindingsAreListed, AnalyzeAssumed
  <2>8. ToSet(asked[p]) = AnalyzeP!Rows(attackScan[p])
    BY <2>4, <2>5, <2>7 DEF ToSet
  <2>9. AnalyzeP!Rows(attackScan[p]) = AttackP!FindingRowsOf(attackScan[p], AttackP!FindingLists(p))
    BY <2>1, <2>3, SameStore DEF AttackP!StoredByPc, AttackP!FindingsAreIn, AnalyzeP!Rows
  <2>10. AttackP!FindingRowsOf(attackScan[p], AttackP!FindingLists(p)) = found(p)
    BY DEF Attack!FindingRowsOf, AttackP!FindingRowsOf, Attack!FindingLists, AttackP!FindingLists,
           Attack!Places, AttackP!Places, Attack!Jobs, AttackP!Jobs, Attack!JobsFor, AttackP!JobsFor
  <2>11. AnalyzeP!Cardinality(found(p)) = Cardinality(found(p))
    BY DEF Cardinality, AnalyzeP!Cardinality, IsFiniteSet, AnalyzeP!IsFiniteSet
  <2> HIDE DEF found
  <2> QED  BY <2>4, <2>5, <2>8, <2>9, <2>10, <2>11
<1> QED  BY <1>1, Invariance, PTL

\* An alert stays true of the rows it compared while attacks file assets of their
\* own in the table it was read from.
THEOREM AlertsAreExact == Spec => []AlertIsExact
<1>1. IInv => AlertIsExact
  <2>1. ASSUME IInv PROVE ReconP!AlertIsExact
    BY <2>1 DEF IInv, Shared, ReconP!SharedInv
  <2> QED  BY <2>1, SameRecon DEF AlertIsExact
<1> QED  BY <1>1, Invariance, PTL

\* The names recon's scan holds are those its tools returned: deduplication
\* keeps an asset of every identity, and an identity has one name.
LEMMA SubdomainsAreReturned ==
    ASSUME IInv, NEW p \in Runs, reconPc[p] = "returned"
    PROVE  Subdomains(p) =
               {NameOf[a] : a \in DOMAIN NameOf \cap
                                  UNION {Range(reconOutput[p][i]) : i \in 1 .. ReconTools}}
<1> DEFINE lists == reconOutput[p]
           returned == UNION {Range(lists[i]) : i \in 1 .. ReconTools}
           first == FirstOfEachKey(lists)
<1>1. ListAssets(reconScan[p]) = first
  <2>1. /\ reconScan[p] # ReconP!NoScan /\ scans[reconScan[p]].status = "done"
        /\ ReconP!RowsByPc(p)
    BY DEF IInv, Shared, ReconP!SharedInv, ReconP!RunInv, ReconP!RowFollowsPc
  <2>2. ReconP!ListAssets(reconScan[p]) = ReconP!FirstOfEachKey(lists)
    BY <2>1 DEF ReconP!RowsByPc
  <2> QED  BY <2>2 DEF ReconP!ListAssets, ReconP!FirstOfEachKey, ReconP!Places, ReconP!Before,
                       ListAssets, FirstOfEachKey, Places, Before
<1>2. lists \in [1 .. ReconTools -> Seq(Assets)] /\ 1 .. ReconTools \in SUBSET Nat
  <2>1. lists \in [ReconP!Tools -> ReconOutputs]
    BY DEF IInv, Shared, ReconP!SharedInv, ReconP!TypeOK
  <2>2. ReconP!Tools = 1 .. ReconTools
    BY ToolsType DEF ReconP!Tools
  <2> QED  BY <2>1, <2>2, ToolsType
<1>3. ASSUME NEW q \in Places(lists)
      PROVE  lists[q[1]][q[2]] \in returned
  <2>1. PICK i \in 1 .. ReconTools : q \in {<<i, j>> : j \in DOMAIN lists[i]}
    <3>1. DOMAIN lists = 1 .. ReconTools
      BY <1>2
    <3> HIDE DEF lists
    <3> QED  BY <1>3, <3>1 DEF Places
  <2>2. q[1] = i /\ q[2] \in DOMAIN lists[i]
    BY <2>1
  <2>3. lists[q[1]][q[2]] \in Range(lists[i])
    BY <2>2 DEF Range
  <2> QED  BY <2>3
<1>4. ASSUME NEW a \in returned
      PROVE  a \in Assets /\ \E b \in first : KeyOf[b] = KeyOf[a]
  <2>1. PICK i \in 1 .. ReconTools : a \in Range(lists[i])
    BY <1>4
  <2>2. PICK j \in DOMAIN lists[i] : a = lists[i][j]
    BY <2>1 DEF Range
  <2>3. <<i, j>> \in Places(lists)
    <3>1. DOMAIN lists = 1 .. ReconTools
      BY <1>2
    <3>2. <<i, j>> \in {<<i, k>> : k \in DOMAIN lists[i]}
      BY <2>2
    <3> HIDE DEF lists
    <3> QED  BY <3>1, <3>2 DEF Places
  <2>4. \E b \in first : KeyOf[b] = KeyOf[lists[i][j]]
    <3> HIDE DEF lists
    <3>1. \E b \in FirstOfEachKey(lists) :
              KeyOf[b] = KeyOf[lists[<<i, j>>[1]][<<i, j>>[2]]]
      BY <1>2, <2>3, FirstCoversEveryKey
    <3> QED  BY <3>1
  <2>5. a \in Assets
    <3>1. lists[i] \in Seq(Assets)
      BY <1>2
    <3>2. j \in 1 .. Len(lists[i])
      BY <2>2, <3>1, LenProperties
    <3> HIDE DEF lists
    <3> QED  BY <2>2, <3>1, <3>2, ElementOfSeq
  <2> QED  BY <2>2, <2>4, <2>5
<1>5. first \subseteq returned
  BY <1>3 DEF FirstOfEachKey
<1>6. ASSUME NEW a \in returned \cap DOMAIN NameOf
      PROVE  \E b \in first \cap DOMAIN NameOf : NameOf[b] = NameOf[a]
  BY <1>4, <1>5, <1>6, NamesFollowKeys
<1> HIDE DEF returned, first
<1>7. {NameOf[a] : a \in first \cap DOMAIN NameOf} = {NameOf[a] : a \in DOMAIN NameOf \cap returned}
  BY <1>5, <1>6
<1> QED  BY <1>1, <1>7 DEF Subdomains, returned

\* What is attacked is what this pipeline's own recon tools reported: nothing is
\* lost when results are deduplicated and stored, and between the storing and
\* the extraction nobody files an asset under that scan.
THEOREM AttacksOwnFinds == Spec => []AttacksWhatItsReconFound
<1>1. IInv => AttacksWhatItsReconFound
  BY SubdomainsAreReturned DEF IInv, Phases, AttacksWhatItsReconFound, AttackNames
<1> QED  BY <1>1, Invariance, PTL

-----------------------------------------------------------------------------
(* The refinement *)

\* A step of an agent is a step of the log, with the rows of the other agents
\* put beside its own.
LEMMA ReconRefines ==
    ASSUME IInv, NEW p \in Runs, ReconP!StepOf(p), UNCHANGED analyzeVars
    PROVE  [History!Next]_<<scans, assets \cup findings \cup reports>>
<1>1. [ReconP!History!Next]_<<scans, assets>>
  BY ReconP!StepRefines, ReconAssumed DEF IInv, Shared, ReconP!SharedInv
<1>2. findings' = findings /\ reports' = reports
  BY ReconP!WritesNoFindings, ReconAssumed DEF analyzeVars
<1> QED
  BY <1>1, <1>2 DEF History!Next, History!Create, History!Begin, History!Write, History!Finish,
     History!Revoke, History!Move, History!Final, ReconP!History!Next, ReconP!History!Create,
     ReconP!History!Begin, ReconP!History!Write, ReconP!History!Finish, ReconP!History!Revoke,
     ReconP!History!Move, ReconP!History!Final

\* Likewise for attack.
LEMMA AttackRefines ==
    ASSUME IInv, NEW p \in Runs, AttackP!StepOf(p), UNCHANGED analyzeVars
    PROVE  [History!Next]_<<scans, assets \cup findings \cup reports>>
<1>1. [AttackP!History!Next]_<<scans, assets \cup findings>>
  BY AttackP!StepRefines, AttackAssumed DEF IInv, Shared, AttackP!SharedInv
<1>2. reports' = reports
  BY DEF analyzeVars
<1> QED
  BY <1>1, <1>2 DEF History!Next, History!Create, History!Begin, History!Write, History!Finish,
     History!Revoke, History!Move, History!Final, AttackP!History!Next, AttackP!History!Create,
     AttackP!History!Begin, AttackP!History!Write, AttackP!History!Finish, AttackP!History!Revoke,
     AttackP!History!Move, AttackP!History!Final

\* An analysis adds its report to them.
LEMMA AnalyzeRefines ==
    ASSUME IInv, NEW p \in Runs, AnalyzeP!StepOf(p)
    PROVE  [History!Next]_<<scans, assets \cup findings \cup reports>>
<1> DEFINE id == analyzeScan[p]
<1>1. AnalyzeP!Typed /\ AnalyzeP!RunInv(p) /\ TargetOf[p] \in Targets /\ "analyze" \in Agents
  BY TargetOfType, AgentsType DEF IInv, Shared, AnalyzeP!SharedInv
<1>2. id # 0 => id \in DOMAIN scans
  <2>1. StoreTypeOK
    BY SameStore DEF IInv, Shared, ReconP!SharedInv, ReconP!TypeOK
  <2> QED  BY <2>1, RowsAreApart, ScansAreRows DEF IInv
<1>3. \/ UNCHANGED <<store, reports>>
      \/ AnalyzeP!CreateScan(TargetOf[p], "analyze") /\ reports' = reports
      \/ /\ id # 0 /\ reports' = reports
         /\ \/ AnalyzeP!SetStatus(id, "running") /\ scans[id].status = "pending"
            \/ AnalyzeP!SetStatus(id, "done") /\ scans[id].status = "running"
            \/ AnalyzeP!SetStatus(id, "failed") /\ scans[id].status \in {"running", "done"}
      \/ /\ id # 0 /\ UNCHANGED store /\ scans[id].status = "running"
         /\ reports' = reports \cup {AnalyzeP!Report(p)}
  <2>1. /\ UNCHANGED AnalyzeP!store => UNCHANGED store
        /\ UNCHANGED <<AnalyzeP!store, reports>> => UNCHANGED <<store, reports>>
    BY DEF store, AnalyzeP!store
  <2>2. \/ UNCHANGED <<AnalyzeP!store, reports>>
        \/ AnalyzeP!CreateScan(TargetOf[p], "analyze") /\ reports' = reports
        \/ /\ id # AnalyzeP!NoScan /\ reports' = reports
           /\ \/ AnalyzeP!SetStatus(id, "running") /\ scans[id].status = "pending"
              \/ AnalyzeP!SetStatus(id, "done") /\ scans[id].status = "running"
              \/ AnalyzeP!SetStatus(id, "failed") /\ scans[id].status \in {"running", "done"}
        \/ /\ id # AnalyzeP!NoScan /\ UNCHANGED AnalyzeP!store
           /\ scans[id].status = "running" /\ reports' = reports \cup {AnalyzeP!Report(p)}
    BY <1>1, AnalyzeP!StoreStep, AnalyzeAssumed
  <2>3. AnalyzeP!NoScan = 0
    BY SameStore
  <2> QED  BY <2>1, <2>2, <2>3
<1>4. CASE UNCHANGED <<store, reports>>
  BY <1>4 DEF store
<1>5. CASE AnalyzeP!CreateScan(TargetOf[p], "analyze") /\ reports' = reports
  <2>1. History!Create(TargetOf[p], "analyze")
    BY <1>5 DEF AnalyzeP!CreateScan, History!Create
  <2> QED  BY <1>1, <2>1 DEF History!Next
<1>6. CASE id # 0 /\ reports' = reports /\ AnalyzeP!SetStatus(id, "running")
           /\ scans[id].status = "pending"
  BY <1>2, <1>6 DEF AnalyzeP!SetStatus, History!Next, History!Begin, History!Move
<1>7. CASE id # 0 /\ reports' = reports /\ AnalyzeP!SetStatus(id, "done")
           /\ scans[id].status = "running"
  BY <1>2, <1>7 DEF AnalyzeP!SetStatus, History!Next, History!Finish, History!Move, History!Final
<1>8. CASE id # 0 /\ reports' = reports /\ AnalyzeP!SetStatus(id, "failed")
           /\ scans[id].status \in {"running", "done"}
  BY <1>2, <1>8
     DEF AnalyzeP!SetStatus, History!Next, History!Finish, History!Revoke, History!Move, History!Final
<1>9. CASE id # 0 /\ UNCHANGED store /\ scans[id].status = "running"
           /\ reports' = reports \cup {AnalyzeP!Report(p)}
  <2>1. AnalyzeP!Report(p).scan = id
    BY DEF AnalyzeP!Report
  <2>2. History!Write(id)
    BY <1>9, <2>1 DEF History!Write, store
  <2> QED  BY <1>2, <1>9, <2>2 DEF History!Next
<1> QED  BY <1>3, <1>4, <1>5, <1>6, <1>7, <1>8, <1>9

\* The rows of all agents together are the log ScanHistory describes: whatever
\* commands run side by side, each of their steps is a step of it, or none.
THEOREM PipelineImplementsHistory == Spec => ImplementsHistory
<1>1. Init => History!Init
  <2> SUFFICES ASSUME Init PROVE History!Init
    OBVIOUS
  <2>1. scans = <<>> /\ assets = {} /\ findings = {} /\ reports = {}
    BY DEF Init, Recon!Init, Recon!StoreInit, Analyze!AgentInit
  <2> QED  BY <2>1 DEF History!Init
<1>2. IInv /\ [Next]_vars => [History!Next]_History!history
  <2> SUFFICES ASSUME IInv, [Next]_vars
               PROVE  [History!Next]_<<scans, assets \cup findings \cup reports>>
    BY DEF History!history
  <2>1. CASE UNCHANGED vars
    BY <2>1 DEF vars, store, analyzeVars
  <2>2. ASSUME NEW p \in Runs,
               \/ StartRecon(p) \/ StartAnalyze(p) \/ Extract(p) \/ HandOver(p)
               \/ ReconStep(p) \/ AttackStep(p) \/ AnalyzeStep(p)
        PROVE  [History!Next]_<<scans, assets \cup findings \cup reports>>
    <3>1. CASE StartRecon(p) \/ ReconStep(p)
      BY <3>1, StepsAreSteps, ReconRefines
    <3>2. CASE Extract(p) \/ AttackStep(p)
      <4>1. CASE AttackP!StepOf(p)
        BY <3>2, <4>1, StepsAreSteps, AttackRefines
      <4>2. CASE UNCHANGED <<store, attackVars>>
        BY <3>2, <4>2, StepsAreSteps DEF store, analyzeVars
      <4> QED  BY <3>2, <4>1, <4>2, StepsAreSteps
    <3>3. CASE StartAnalyze(p) \/ HandOver(p) \/ AnalyzeStep(p)
      BY <3>3, StepsAreSteps, AnalyzeRefines
    <3> QED  BY <2>2, <3>1, <3>2, <3>3
  <2> QED  BY <2>1, <2>2 DEF Next
<1> QED  BY <1>1, <1>2, Invariance, PTL DEF Spec, ImplementsHistory, History!Spec

=============================================================================
