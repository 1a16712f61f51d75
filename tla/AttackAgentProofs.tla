--------------------------- MODULE AttackAgentProofs ---------------------------
(***************************************************************************)
(* Proofs about AttackAgent for every set of runs, tools, targets and      *)
(* outputs, and every choice of faults.                                    *)
(*                                                                         *)
(* The argument is that of ReconAgentProofs: a step of run r touches no    *)
(* row but its own (Touches), and what a run may assume of its own row     *)
(* follows from where it is (RunInv).  What is new is that the results are *)
(* written in two transactions, so the run has to know that the lists it   *)
(* writes second, and pages from later still, are those it wrote first.    *)
(***************************************************************************)
EXTENDS AttackAgent, ScanStoreProofs

Refused(r) == ~(Elements(targets[r]) \subseteq Authorized)

\* A run that has not been called has no argument, and a refused one is over.
CallFollowsPc(r) ==
    /\ pc[r] = "idle" => targets[r] = <<>>
    /\ Refused(r) => /\ pc[r] = "raised" /\ scanId[r] = NoScan
                     /\ \A j \in Jobs(r) : task[r][j] = "none"

\* The row of run r, given the await it is at.
RowFollowsPc(r) ==
    /\ pc[r] \in {"idle", "create"} => scanId[r] = NoScan
    /\ pc[r] \notin {"idle", "create", "raised", "interrupted"} => scanId[r] # NoScan
    /\ pc[r] = "start" => scans[scanId[r]].status = "pending"
    /\ pc[r] \in {"gather", "waiting", "persist_findings", "persist_assets",
                  "finalise", "violation"} =>
           scans[scanId[r]].status = "running"
    /\ pc[r] \in {"summarise", "page", "notify", "returned"} =>
           scans[scanId[r]].status = "done"
    /\ pc[r] = "fail" => scans[scanId[r]].status \in {"running", "done"}

Settled(r) == \A j \in Jobs(r) : task[r][j] \in {"done", "failed"}

\* The results are in once the agent writes them, and stay so.
ResultsByPc(r) ==
    /\ pc[r] \in {"persist_findings", "persist_assets", "finalise", "fail"} => Settled(r)
    /\ scanId[r] # NoScan => (scans[scanId[r]].status \in Closed => Settled(r))

FindingsAreIn(r) ==
    {f \in findings : f.scan = scanId[r]} = FindingRowsOf(scanId[r], FindingLists(r))

AssetsAreIn(r) ==
    \A p \in Places(AssetLists(r)) :
        KeyOf[AssetLists(r)[p[1]][p[2]]] \in Index(scanId[r])

\* What is stored under the row of run r, given the await it is at.
StoredByPc(r) ==
    /\ pc[r] \in {"start", "gather", "waiting", "persist_findings"} =>
           \A f \in findings : f.scan # scanId[r]
    /\ pc[r] \in {"persist_assets", "finalise"} => FindingsAreIn(r)
    /\ pc[r] = "finalise" => AssetsAreIn(r)
    /\ scanId[r] # NoScan =>
           (scans[scanId[r]].status = "done" => FindingsAreIn(r) /\ AssetsAreIn(r))

\* Urgent findings are handled once the scan is done, and all of them before
\* the summary is sent.
HandledByPc(r) ==
    /\ handled[r] # {} => scanId[r] # NoScan /\ scans[scanId[r]].status \in Closed
    /\ pc[r] \in {"notify", "returned"} => ToPage(r) = {}

RunInv(r) ==
    CallFollowsPc(r) /\ RowFollowsPc(r) /\ ResultsByPc(r) /\ StoredByPc(r) /\ HandledByPc(r)

\* Rows of the tables belong to scans.
References ==
    /\ \A row \in assets : row.scan \in 1 .. Len(scans)
    /\ \A row \in findings : row.scan \in 1 .. Len(scans)

Domains == DOMAIN task = Runs /\ DOMAIN output = Runs /\ DOMAIN handled = Runs

\* TypeOK, and that what is kept per run is kept for every run.
Typed == TypeOK /\ Domains

\* OwnRow without "every row belongs to a run", which is true only where no
\* other agent writes to the table.
OwnRows ==
    /\ \A r \in Runs : scanId[r] # NoScan =>
           scans[scanId[r]].target = PrimaryTarget(r) /\ scans[scanId[r]].agent = "attack"
    /\ \A q, r \in Runs : q # r /\ scanId[q] = scanId[r] => scanId[r] = NoScan

\* What holds also where other agents write to the tables.
SharedInv ==
    /\ Typed
    /\ OwnRows
    /\ References
    /\ PagesAreStored
    /\ \A r \in Runs : RunInv(r)

IInv ==
    /\ Typed
    /\ OwnRow
    /\ References
    /\ PagesAreStored
    /\ \A r \in Runs : RunInv(r)

\* A step of run r, of its tools or of its environment, whatever list it is
\* called with.
StepOf(r) ==
    \/ \E list \in Seq(Targets) : Begin(r, list)
    \/ Step(r)
    \/ \E j \in Jobs(r) : FinishTool(r, j)
    \/ Interrupt(r)

-----------------------------------------------------------------------------
(* Types *)

\* The lists a run has collected are lists, one per job.
LEMMA ResultsAreLists ==
    ASSUME TypeOK, NEW r \in Runs
    PROVE  /\ Jobs(r) \in SUBSET Nat
           /\ FindingLists(r) \in [Jobs(r) -> Seq(Findings)]
           /\ AssetLists(r) \in [Jobs(r) -> Seq(Assets)]
<1>1. Jobs(r) \in SUBSET Nat
  BY DEF Jobs, JobsFor
<1>2. output[r] \in [Jobs(r) -> Outputs]
  BY DEF TypeOK
<1>3. \A j \in Jobs(r) : output[r][j] \in [assets : Seq(Assets), findings : Seq(Findings)]
  BY <1>2, OutputsType
<1> HIDE DEF Jobs
<1> QED  BY <1>1, <1>3 DEF FindingLists, AssetLists

\* What a run without results has reported has no places.
LEMMA NothingHasNoPlaces ==
    ASSUME NEW D, NEW batches \in [D -> {<<>>}]
    PROVE  Places(batches) = {}
  BY DEF Places

\* A scan is filed under a target.
LEMMA PrimaryIsTarget ==
    ASSUME TypeOK, NEW r \in Runs
    PROVE  PrimaryTarget(r) \in Targets
<1>1. targets[r] \in Seq(Targets)
  BY DEF TypeOK
<1>2. CASE targets[r] = <<>>
  BY <1>2, CalledWithType DEF PrimaryTarget
<1>3. CASE targets[r] # <<>>
  <2>1. Len(targets[r]) \in Nat \ {0}
    BY <1>1, <1>3, EmptySeq, LenProperties
  <2>2. targets[r][1] \in Targets
    BY <1>1, <2>1, ElementOfSeq
  <2> QED  BY <1>3, <2>2 DEF PrimaryTarget
<1> QED  BY <1>2, <1>3

\* What is kept for one run, apart from its row.
RunTypeOK(r) ==
    /\ task[r] \in [Jobs(r) -> TaskStates]
    /\ output[r] \in [Jobs(r) -> Outputs]
    /\ handled[r] \subseteq Places(FindingLists(r))

\* The first state is typed.
LEMMA InitTyped == Init => Typed
<1> SUFFICES ASSUME Init PROVE Typed
  OBVIOUS
<1>1. StoreTypeOK /\ Len(scans) = 0
  BY EmptySeq DEF Init, StoreInit, StoreTypeOK
<1>2. \A r \in Runs : Jobs(r) = {}
  <2> TAKE r \in Runs
  <2>1. Len(targets[r]) = 0
    BY EmptySeq DEF Init, AgentInit
  <2>2. Len(ToolScope) \in Nat
    BY ToolScopeType, LenProperties
  <2> QED  BY <2>1, <2>2 DEF Jobs, JobsFor
<1>3. \A r \in Runs : RunTypeOK(r)
  BY <1>2 DEF Init, AgentInit, RunTypeOK
<1>4. \A r \in Runs : <<>> \in Seq(Targets)
  BY EmptySeq
<1> QED  BY <1>1, <1>3, <1>4 DEF Init, AgentInit, Typed, TypeOK, Domains, PCs, RunTypeOK, NoScan

\* The results of a run and its messages survive what does not change them.
LEMMA RunTypeKept ==
    ASSUME TypeOK, NEW q \in Runs, targets'[q] = targets[q], task'[q] = task[q],
           output'[q] = output[q], handled'[q] = handled[q]
    PROVE  RunTypeOK(q)'
<1>1. Jobs(q)' = Jobs(q)
  BY DEF Jobs
<1>2. FindingLists(q)' = FindingLists(q)
  BY <1>1 DEF FindingLists
<1> QED  BY <1>1, <1>2 DEF TypeOK, RunTypeOK

\* A step of run r leaves what is kept for the others.
LocalFrame(r) ==
    \A q \in Runs \ {r} :
        /\ pc'[q] = pc[q] /\ targets'[q] = targets[q] /\ scanId'[q] = scanId[q]
        /\ task'[q] = task[q] /\ output'[q] = output[q] /\ handled'[q] = handled[q]

\* A step of run r changes the locals of no other run.
LEMMA LocalFrameHolds ==
    ASSUME Typed, NEW r \in Runs, StepOf(r)
    PROVE  LocalFrame(r)
<1> USE DEF LocalFrame, Goto, DatabaseFails, NotifierRaises
<1>0. /\ DOMAIN pc = Runs /\ DOMAIN targets = Runs /\ DOMAIN scanId = Runs
      /\ DOMAIN task = Runs /\ DOMAIN output = Runs /\ DOMAIN handled = Runs
  BY DEF Typed, TypeOK, Domains
<1>1. ASSUME NEW list, Begin(r, list)
      PROVE  LocalFrame(r)
  BY <1>0, <1>1 DEF Begin, CallWith
<1>2. CASE Create(r)
  BY <1>0, <1>2 DEF Create
<1>3. CASE Start(r) \/ GatherReturns(r) \/ GatherRaises(r) \/ SaveFindings(r) \/ SaveAssets(r)
           \/ Finalise(r) \/ Summarise(r) \/ SendSummary(r) \/ HandleViolation(r)
           \/ HandleFailure(r)
  BY <1>0, <1>3 DEF Start, GatherReturns, GatherRaises, SaveFindings, SaveAssets, Finalise,
                    Summarise, SendSummary, HandleViolation, HandleFailure
<1>4. CASE LaunchTools(r)
  BY <1>0, <1>4 DEF LaunchTools
<1>5. ASSUME NEW j, FinishTool(r, j)
      PROVE  LocalFrame(r)
  <2>1. \E st : task' = [task EXCEPT ![r][j] = st]
    BY <1>5 DEF FinishTool
  <2>2. UNCHANGED output \/ \E out : output' = [output EXCEPT ![r][j] = out]
    BY <1>5 DEF FinishTool
  <2>3. \A q \in Runs \ {r} : task'[q] = task[q] /\ output'[q] = output[q]
    BY <1>0, <2>1, <2>2
  <2> QED  BY <1>5, <2>3 DEF FinishTool
<1>6. CASE SendCriticalAlert(r)
  BY <1>0, <1>6 DEF SendCriticalAlert
<1>7. CASE Interrupt(r)
  BY <1>0, <1>7 DEF Interrupt
<1> QED
  BY <1>1, <1>2, <1>3, <1>4, <1>5, <1>6, <1>7 DEF StepOf, Step

\* What is kept for the run that steps keeps its type.
LEMMA OwnTypeStep ==
    ASSUME Typed, NEW r \in Runs, RunInv(r), StepOf(r)
    PROVE  /\ RunTypeOK(r)' /\ Domains'
           /\ pc' \in [Runs -> PCs] /\ targets' \in [Runs -> Seq(Targets)]
<1> USE DEF Goto, DatabaseFails, NotifierRaises
<1>0. /\ DOMAIN task = Runs /\ DOMAIN output = Runs /\ DOMAIN handled = Runs
      /\ pc \in [Runs -> PCs] /\ targets \in [Runs -> Seq(Targets)]
      /\ RunTypeOK(r) /\ TypeOK
  BY DEF Typed, TypeOK, Domains, RunTypeOK
<1>1. CASE UNCHANGED <<targets, task, output, handled>>
  <2>1. \E to \in PCs : pc' = [pc EXCEPT ![r] = to] \/ pc' = pc
    BY <1>1 DEF StepOf, Step, Begin, Create, Start, LaunchTools, FinishTool, GatherReturns,
         GatherRaises, SaveFindings, SaveAssets, Finalise, Summarise, SendCriticalAlert,
         SendSummary, HandleViolation, HandleFailure, Interrupt, PCs, Working, Ended
  <2> QED  BY <1>0, <1>1, <2>1, RunTypeKept DEF Domains
<1>2. ASSUME NEW list \in Seq(Targets), Begin(r, list)
      PROVE  /\ RunTypeOK(r)' /\ Domains'
             /\ pc' \in [Runs -> PCs] /\ targets' \in [Runs -> Seq(Targets)]
  <2>1. list \in Seq(Targets)
    BY CalledWithType
  <2>2. targets'[r] = list /\ targets' \in [Runs -> Seq(Targets)]
    BY <1>0, <1>2, <2>1 DEF Begin, CallWith
  <2>3. Jobs(r)' = JobsFor(list)
    BY <2>2 DEF Jobs
  <2>4. /\ task'[r] = [j \in JobsFor(list) |-> "none"]
        /\ output'[r] = [j \in JobsFor(list) |-> Nothing]
        /\ handled' = handled
    BY <1>0, <1>2 DEF Begin, CallWith
  <2>5. handled[r] = {}
    <3>1. targets[r] = <<>>
      BY <1>2 DEF Begin, RunInv, CallFollowsPc
    <3>2. Len(targets[r]) = 0 /\ Len(ToolScope) \in Nat
      BY <3>1, EmptySeq, ToolScopeType, LenProperties
    <3>3. Jobs(r) = {}
      BY <3>2 DEF Jobs, JobsFor
    <3> QED  BY <1>0, <3>3 DEF RunTypeOK, FindingLists, Places
  <2>6. RunTypeOK(r)'
    BY <2>3, <2>4, <2>5, OutputsType DEF RunTypeOK, Nothing, TaskStates
  <2>7. pc' \in [Runs -> PCs]
    BY <1>0, <1>2 DEF Begin, PCs, Working, Ended
  <2> QED  BY <1>0, <1>2, <2>2, <2>6, <2>7 DEF Begin, CallWith, Domains
<1>3. ASSUME NEW new \in [Jobs(r) -> TaskStates], task' = [task EXCEPT ![r] = new],
             UNCHANGED <<targets, output, handled>>
      PROVE  RunTypeOK(r)' /\ Domains'
  <2>1. Jobs(r)' = Jobs(r) /\ task'[r] = new
    BY <1>0, <1>3 DEF Jobs
  <2>2. FindingLists(r)' = FindingLists(r)
    BY <1>3, <2>1 DEF FindingLists
  <2> QED  BY <1>0, <1>3, <2>1, <2>2 DEF RunTypeOK, Domains
<1>4. CASE LaunchTools(r)
  <2> DEFINE new == [j \in Jobs(r) |->
                        IF JobTarget(r, j) \in JobScope(j) THEN "executing" ELSE "violation"]
  <2>1. new \in [Jobs(r) -> TaskStates]
    BY DEF TaskStates
  <2>2. task' = [task EXCEPT ![r] = new] /\ UNCHANGED <<targets, output, handled>>
    BY <1>4 DEF LaunchTools
  <2>3. RunTypeOK(r)' /\ Domains'
    <3> HIDE DEF new
    <3> QED  BY <1>3, <2>1, <2>2
  <2> QED  BY <1>0, <1>4, <2>3 DEF LaunchTools, PCs, Working
<1>5. ASSUME NEW j \in Jobs(r), FinishTool(r, j)
      PROVE  /\ RunTypeOK(r)' /\ Domains'
             /\ pc' \in [Runs -> PCs] /\ targets' \in [Runs -> Seq(Targets)]
  <2>1. PICK st \in {"done", "failed"} : task' = [task EXCEPT ![r][j] = st]
    BY <1>5 DEF FinishTool
  <2>2. UNCHANGED output \/ \E out \in Outputs : output' = [output EXCEPT ![r][j] = out]
    BY <1>5 DEF FinishTool
  <2>3. Jobs(r)' = Jobs(r)
    BY <1>5 DEF FinishTool, Jobs
  <2>4. task'[r] \in [Jobs(r) -> TaskStates] /\ DOMAIN task' = Runs
    BY <1>0, <2>1 DEF RunTypeOK, TaskStates
  <2>5. output'[r] \in [Jobs(r) -> Outputs] /\ DOMAIN output' = Runs
    BY <1>0, <2>2 DEF RunTypeOK
  <2>6. handled[r] = {}
    <3>1. ~Settled(r)
      BY <1>5 DEF FinishTool, Settled
    <3> QED  BY <3>1 DEF RunInv, HandledByPc, ResultsByPc
  <2> QED  BY <1>0, <1>5, <2>3, <2>4, <2>5, <2>6 DEF FinishTool, RunTypeOK, Domains
<1>6. CASE SendCriticalAlert(r)
  <2>1. \A p \in ToPage(r) : p \in Places(FindingLists(r))
    BY DEF ToPage, UrgentPlaces
  <2>2. handled'[r] \subseteq Places(FindingLists(r)) /\ DOMAIN handled' = Runs
    BY <1>0, <1>6, <2>1 DEF SendCriticalAlert, RunTypeOK
  <2>3. UNCHANGED <<targets, task, output>>
    BY <1>6 DEF SendCriticalAlert
  <2>4. Jobs(r)' = Jobs(r) /\ FindingLists(r)' = FindingLists(r)
    BY <2>3 DEF Jobs, FindingLists
  <2>5. pc' \in [Runs -> PCs]
    BY <1>0, <1>6 DEF SendCriticalAlert, PCs, Working
  <2> QED  BY <1>0, <2>2, <2>3, <2>4, <2>5 DEF RunTypeOK, Domains
<1>7. CASE Interrupt(r) /\ task' = [task EXCEPT ![r] = StoppedTasks(r)]
  <2>1. StoppedTasks(r) \in [Jobs(r) -> TaskStates]
    BY <1>0 DEF StoppedTasks, RunTypeOK, TaskStates
  <2>2. RunTypeOK(r)' /\ Domains'
    BY <1>3, <1>7, <2>1 DEF Interrupt
  <2> QED  BY <1>0, <1>7, <2>2 DEF Interrupt, PCs, Ended
<1>8. CASE \/ Create(r) \/ Start(r) \/ GatherReturns(r) \/ GatherRaises(r) \/ SaveFindings(r)
           \/ SaveAssets(r) \/ Finalise(r) \/ Summarise(r) \/ SendSummary(r)
           \/ HandleViolation(r) \/ HandleFailure(r)
           \/ Interrupt(r) /\ task' # [task EXCEPT ![r] = StoppedTasks(r)]
  <2>1. UNCHANGED <<targets, task, output, handled>>
    BY <1>8 DEF Create, Start, GatherReturns, GatherRaises, SaveFindings, SaveAssets,
                Finalise, Summarise, SendSummary, HandleViolation, HandleFailure, Interrupt
  <2> QED  BY <1>1, <2>1
<1> QED
  BY <1>2, <1>4, <1>5, <1>6, <1>7, <1>8 DEF StepOf, Step

-----------------------------------------------------------------------------
(* What a step does to the store *)

\* A new status for the run's row.
LEMMA StatusFrame ==
    ASSUME TypeOK, NEW r \in Runs, scanId[r] # NoScan, NEW status \in Statuses,
           SetStatus(scanId[r], status),
           scans[scanId[r]].status \in Closed => status \in Closed
    PROVE  /\ Touches(scanId[r]) /\ Len(scans') = Len(scans)
           /\ scans'[scanId[r]].status = status
           /\ assets' = assets /\ findings' = findings
<1>1. scanId[r] \in 1 .. Len(scans) /\ StoreTypeOK
  BY ScansAreRows DEF TypeOK, NoScan
<1> QED  BY <1>1, SetStatusEffect, SetStatusTouches DEF SetStatus

\* A new row.
LEMMA CreateFrame ==
    ASSUME TypeOK, NEW r \in Runs, CreateScan(PrimaryTarget(r), "attack")
    PROVE  /\ Touches(scanId[r]) /\ Len(scans') = Len(scans) + 1
           /\ \A i \in 1 .. Len(scans) : scans'[i] = scans[i]
           /\ scans'[Len(scans) + 1].target = PrimaryTarget(r)
           /\ scans'[Len(scans) + 1].agent = "attack"
           /\ scans'[Len(scans) + 1].status = "pending"
<1> DEFINE row == [target |-> PrimaryTarget(r), agent |-> "attack", status |-> "pending"]
<1>1. /\ StoreTypeOK' /\ Len(scans') = Len(scans) + 1
      /\ \A i \in 1 .. Len(scans) : scans'[i] = scans[i]
      /\ scans'[Len(scans) + 1] = row
  BY CreateScanEffect, PrimaryIsTarget, AttackIsAnAgent DEF TypeOK
<1>2. Touches(scanId[r])
  BY CreateTouches, PrimaryIsTarget, AttackIsAnAgent DEF TypeOK
<1> QED  BY <1>1, <1>2

\* Every step works for the run's own scan only.
LEMMA TouchesOwnScan ==
    ASSUME Typed, NEW r \in Runs, RunInv(r), StepOf(r)
    PROVE  Touches(scanId[r])
<1> USE DEF Goto, DatabaseFails, NotifierRaises, store
<1>0. /\ TypeOK /\ StoreTypeOK /\ Len(scans) \in Nat /\ scanId[r] \in 0 .. Len(scans)
      /\ IsFiniteSet(Jobs(r))
  <2>1. TypeOK /\ targets[r] \in Seq(Targets)
    BY DEF Typed, TypeOK
  <2>2. Len(targets[r]) * Len(ToolScope) \in Nat
    BY <2>1, ToolScopeType, LenProperties
  <2>3. IsFiniteSet(Jobs(r))
    <3>1. 1 \in Int /\ Len(targets[r]) * Len(ToolScope) \in Int
      BY <2>2
    <3> QED  BY <3>1, FS_Interval DEF Jobs, JobsFor
  <2> QED  BY <2>1, <2>3, ScansAreRows DEF TypeOK
<1>1. CASE UNCHANGED store
  BY <1>0, <1>1, NothingTouches
<1>2. CASE Create(r)
  BY <1>0, <1>1, <1>2, CreateFrame DEF Create
<1>3. CASE Start(r)
  BY <1>0, <1>1, <1>3, StatusFrame DEF Start, RunInv, RowFollowsPc, Statuses, Closed
<1>4. CASE Finalise(r)
  BY <1>0, <1>1, <1>4, StatusFrame DEF Finalise, RunInv, RowFollowsPc, Statuses, Closed
<1>5. CASE HandleViolation(r)
  BY <1>0, <1>1, <1>5, StatusFrame DEF HandleViolation, RunInv, RowFollowsPc, Statuses, Closed
<1>6. CASE HandleFailure(r)
  BY <1>0, <1>1, <1>6, StatusFrame DEF HandleFailure, RunInv, RowFollowsPc, Statuses, Closed
<1>7. CASE SaveFindings(r) /\ PersistFindings(scanId[r], FindingLists(r))
  <2>1. scanId[r] \in Nat \ {0} /\ scanId[r] # NoScan /\ scans[scanId[r]].status = "running"
    BY <1>0, <1>7 DEF SaveFindings, RunInv, RowFollowsPc, NoScan
  <2> QED  BY <1>0, <1>7, <2>1, ResultsAreLists, PersistFindingsTouches
<1>8. CASE SaveAssets(r) /\ PersistAssets(scanId[r], AssetLists(r))
  <2>1. scanId[r] \in Nat \ {0} /\ scanId[r] # NoScan /\ scans[scanId[r]].status = "running"
    BY <1>0, <1>8 DEF SaveAssets, RunInv, RowFollowsPc, NoScan
  <2> QED  BY <1>0, <1>8, <2>1, ResultsAreLists, PersistAssetsTouches
<1>9. CASE \/ \E list \in Seq(Targets) : Begin(r, list)
           \/ LaunchTools(r) \/ GatherReturns(r) \/ GatherRaises(r) \/ Summarise(r)
           \/ SendCriticalAlert(r) \/ SendSummary(r) \/ Interrupt(r)
           \/ \E j \in Jobs(r) : FinishTool(r, j)
  <2>1. UNCHANGED store
    BY <1>9 DEF Begin, CallWith, LaunchTools, GatherReturns, GatherRaises, Summarise,
                SendCriticalAlert, SendSummary, Interrupt, FinishTool
  <2> QED  BY <1>1, <2>1
<1>10. CASE SaveFindings(r) \/ SaveAssets(r)
  BY <1>1, <1>7, <1>8, <1>10 DEF SaveFindings, SaveAssets
<1> QED
  BY <1>2, <1>3, <1>4, <1>5, <1>6, <1>9, <1>10 DEF StepOf, Step

\* The id a run keeps is written once, when its row is.
LEMMA ScanIdStep ==
    ASSUME Typed, NEW r \in Runs, RunInv(r), StepOf(r)
    PROVE  \/ scanId' = scanId /\ Len(scans') = Len(scans)
           \/ /\ pc[r] = "create" /\ scanId[r] = NoScan
              /\ scanId' = [scanId EXCEPT ![r] = Len(scans) + 1]
              /\ CreateScan(PrimaryTarget(r), "attack")
<1> USE DEF Goto, DatabaseFails, NotifierRaises, store
<1>1. CASE Create(r)
  BY <1>1 DEF Create, NextScanId, RunInv, RowFollowsPc
<1>2. CASE ~Create(r)
  <2>1. scanId' = scanId /\ (scans' = scans \/ \E st \in Statuses : SetStatus(scanId[r], st))
    BY <1>2 DEF StepOf, Step, Begin, CallWith, Start, LaunchTools, FinishTool, GatherReturns,
                GatherRaises, SaveFindings, PersistFindings, SaveAssets, PersistAssets,
                Finalise, Summarise, SendCriticalAlert, SendSummary, HandleViolation,
                HandleFailure, Interrupt, Statuses
  <2>2. ASSUME NEW st \in Statuses, SetStatus(scanId[r], st)
        PROVE  Len(scans') = Len(scans)
    <3>1. StoreTypeOK /\ scanId[r] \in 1 .. Len(scans)
      BY <2>2, ScansAreRows DEF SetStatus, Typed, TypeOK
    <3> QED  BY <2>2, <3>1, SetStatusEffect
  <2> QED  BY <2>1, <2>2
<1> QED  BY <1>1, <1>2

\* A new page is about an urgent finding of the run, which it is about to send.
LEMMA PageSource ==
    ASSUME Typed, NEW r \in Runs, StepOf(r)
    PROVE  \A g \in pages' :
               \/ g \in pages
               \/ pc[r] = "page" /\ \E p \in ToPage(r) : g = Page(r, p)
<1>1. CASE SendCriticalAlert(r)
  BY <1>1 DEF SendCriticalAlert, Goto, NotifierRaises
<1>2. CASE ~SendCriticalAlert(r)
  <2>1. pages' = pages
    BY <1>2 DEF StepOf, Step, Begin, CallWith, Create, Start, LaunchTools, FinishTool,
         GatherReturns, GatherRaises, SaveFindings, SaveAssets, Finalise, Summarise, SendSummary,
         HandleViolation, HandleFailure, Interrupt, DatabaseFails, NotifierRaises
  <2> QED  BY <2>1
<1> QED  BY <1>1, <1>2

\* A step of a run keeps every variable within its type.
LEMMA TypeStep ==
    ASSUME Typed, NEW r \in Runs, RunInv(r), StepOf(r)
    PROVE  Typed'
<1> USE DEF NoScan
<1>0. /\ TypeOK /\ Len(scans) \in Nat /\ scanId \in [Runs -> 0 .. Len(scans)]
  BY ScansAreRows DEF Typed, TypeOK
<1>1. StoreTypeOK' /\ Len(scans') \in Nat /\ Len(scans) <= Len(scans')
  BY TouchesOwnScan, LenProperties DEF Touches, StoreTypeOK
<1>2. scanId' \in [Runs -> 0 .. Len(scans')]
  <2>1. CASE scanId' = scanId /\ Len(scans') = Len(scans)
    BY <1>0, <2>1
  <2>2. CASE /\ scanId' = [scanId EXCEPT ![r] = Len(scans) + 1]
             /\ CreateScan(PrimaryTarget(r), "attack")
    <3>1. Len(scans') = Len(scans) + 1
      BY <1>0, <2>2, CreateFrame
    <3> QED  BY <1>0, <2>2, <3>1
  <2> QED  BY <2>1, <2>2, ScanIdStep
<1>3. \A q \in Runs : RunTypeOK(q)'
  <2> TAKE q \in Runs
  <2>1. CASE q = r
    BY <2>1, OwnTypeStep
  <2>2. CASE q # r
    BY <1>0, <2>2, LocalFrameHolds, RunTypeKept DEF LocalFrame
  <2> QED  BY <2>1, <2>2
<1>4. pages' \subseteq [scan : 1 .. Len(scans'), batch : Nat, place : Nat]
  <2>1. \A g \in pages : g \in [scan : 1 .. Len(scans'), batch : Nat, place : Nat]
    BY <1>0, <1>1 DEF TypeOK
  <2>2. ASSUME NEW p \in ToPage(r), pc[r] = "page"
        PROVE  Page(r, p) \in [scan : 1 .. Len(scans'), batch : Nat, place : Nat]
    <3>1. p[1] \in Nat /\ p[2] \in Nat
      <4>1. p \in Places(FindingLists(r))
        BY DEF ToPage, UrgentPlaces
      <4>2. p[1] \in Jobs(r) /\ p[2] \in Nat
        BY <1>0, <4>1, ResultsAreLists, PlacesHoldElements
      <4> QED  BY <1>0, <4>2, ResultsAreLists
    <3>2. scanId[r] \in 1 .. Len(scans')
      BY <1>0, <1>1, <2>2 DEF RunInv, RowFollowsPc
    <3> QED  BY <3>1, <3>2 DEF Page
  <2> QED  BY <2>1, <2>2, PageSource
<1> QED
  BY <1>1, <1>2, <1>3, <1>4, OwnTypeStep DEF Typed, TypeOK, RunTypeOK

-----------------------------------------------------------------------------
(* The parts of the invariant that are about all runs *)

\* An argument is given once, before there is a row.
LEMMA TargetsStep ==
    ASSUME Typed, NEW r \in Runs, RunInv(r), StepOf(r)
    PROVE  \/ UNCHANGED targets
           \/ pc[r] = "idle" /\ scanId[r] = NoScan /\ scanId' = scanId
<1>1. CASE \E list \in Seq(Targets) : Begin(r, list)
  BY <1>1 DEF Begin, CallWith, Goto, RunInv, RowFollowsPc
<1>2. CASE ~\E list \in Seq(Targets) : Begin(r, list)
  BY <1>2 DEF StepOf, Step, Create, Start, LaunchTools, FinishTool, GatherReturns,
              GatherRaises, SaveFindings, SaveAssets, Finalise, Summarise, SendCriticalAlert,
              SendSummary, HandleViolation, HandleFailure, Interrupt, DatabaseFails,
              NotifierRaises
<1> QED  BY <1>1, <1>2

\* The only row a step can add is the stepping run's own.
LEMMA OwnRowsStep ==
    ASSUME Typed, OwnRows, NEW r \in Runs, RunInv(r), StepOf(r)
    PROVE  OwnRows'
<1> USE DEF NoScan
<1>0. /\ TypeOK /\ Len(scans) \in Nat /\ scanId \in [Runs -> 0 .. Len(scans)]
  BY ScansAreRows DEF Typed, TypeOK
<1>1. Touches(scanId[r])
  BY TouchesOwnScan
<1>2. \A q \in Runs : scanId'[q] # NoScan => PrimaryTarget(q)' = PrimaryTarget(q)
  <2> TAKE q \in Runs
  <2>1. CASE UNCHANGED targets
    BY <2>1 DEF PrimaryTarget
  <2>2. CASE scanId[r] = NoScan /\ scanId' = scanId
    BY <2>2, LocalFrameHolds DEF LocalFrame, PrimaryTarget
  <2> QED  BY <2>1, <2>2, TargetsStep
<1>3. CASE scanId' = scanId /\ Len(scans') = Len(scans)
  BY <1>0, <1>1, <1>2, <1>3 DEF OwnRows, Touches
<1>4. CASE /\ scanId' = [scanId EXCEPT ![r] = Len(scans) + 1] /\ scanId[r] = NoScan
           /\ CreateScan(PrimaryTarget(r), "attack")
  <2>1. /\ Len(scans') = Len(scans) + 1
        /\ \A i \in 1 .. Len(scans) : scans'[i] = scans[i]
        /\ scans'[Len(scans) + 1].target = PrimaryTarget(r)
        /\ scans'[Len(scans) + 1].agent = "attack"
    BY <1>0, <1>4, CreateFrame
  <2>2. scanId'[r] = Len(scans) + 1 /\ \A q \in Runs \ {r} : scanId'[q] = scanId[q]
    BY <1>0, <1>4
  <2>3. \A q \in Runs : scanId'[q] # NoScan =>
            scans'[scanId'[q]].target = PrimaryTarget(q)' /\ scans'[scanId'[q]].agent = "attack"
    BY <1>0, <1>2, <2>1, <2>2 DEF OwnRows
  <2>4. \A q, p \in Runs : q # p /\ scanId'[q] = scanId'[p] => scanId'[p] = NoScan
    BY <1>0, <2>2 DEF OwnRows
  <2> QED  BY <2>3, <2>4 DEF OwnRows
<1> QED  BY <1>3, <1>4, ScanIdStep

\* A row keeps its one run, and a row that is opened has the run that opened it.
LEMMA OwnRowStep ==
    ASSUME Typed, OwnRow, NEW r \in Runs, RunInv(r), StepOf(r)
    PROVE  OwnRow'
<1> USE DEF NoScan
<1>0. /\ TypeOK /\ Len(scans) \in Nat /\ DOMAIN scans = 1 .. Len(scans)
      /\ scanId \in [Runs -> 0 .. Len(scans)]
  BY ScansAreRows DEF Typed, TypeOK
<1>1. OwnRows' /\ DOMAIN scans' = 1 .. Len(scans')
  BY OwnRowsStep, TouchesOwnScan, LenProperties DEF OwnRow, OwnRows, Touches, StoreTypeOK
<1>2. \A i \in 1 .. Len(scans') : \E q \in Runs : scanId'[q] = i
  <2>1. CASE scanId' = scanId /\ Len(scans') = Len(scans)
    BY <1>0, <2>1 DEF OwnRow
  <2>2. CASE /\ scanId' = [scanId EXCEPT ![r] = Len(scans) + 1] /\ scanId[r] = NoScan
             /\ CreateScan(PrimaryTarget(r), "attack")
    <3> SUFFICES ASSUME NEW i \in 1 .. Len(scans')
                 PROVE  \E q \in Runs : scanId'[q] = i
      OBVIOUS
    <3>1. /\ Len(scans') = Len(scans) + 1
          /\ scanId'[r] = Len(scans) + 1 /\ \A q \in Runs \ {r} : scanId'[q] = scanId[q]
      BY <1>0, <2>2, CreateFrame
    <3>2. CASE i = Len(scans) + 1
      BY <3>1, <3>2
    <3>3. CASE i \in 1 .. Len(scans)
      <4>1. PICK q \in Runs : scanId[q] = i
        BY <1>0, <3>3 DEF OwnRow
      <4> QED  BY <2>2, <3>1, <3>3, <4>1
    <3> QED  BY <1>0, <3>1, <3>2, <3>3
  <2> QED  BY <2>1, <2>2, ScanIdStep
<1> QED  BY <1>1, <1>2 DEF OwnRow, OwnRows

\* Whatever a step stores is filed under a scan that exists.
LEMMA ReferencesStep ==
    ASSUME Typed, References, NEW r \in Runs, RunInv(r), StepOf(r)
    PROVE  References'
<1>1. /\ Len(scans) \in Nat /\ scanId[r] \in 0 .. Len(scans)
  BY ScansAreRows DEF Typed, TypeOK
<1>2. Touches(scanId[r])
  BY TouchesOwnScan
<1> QED  BY <1>1, <1>2 DEF References, Touches, NoScan

\* A page sent is about a row that was written before, and stays.
LEMMA PagesStep ==
    ASSUME Typed, PagesAreStored, NEW r \in Runs, RunInv(r), StepOf(r)
    PROVE  PagesAreStored'
<1>0. /\ TypeOK /\ Len(scans) \in Nat /\ scanId[r] \in 0 .. Len(scans)
  BY ScansAreRows DEF Typed, TypeOK
<1>1. Touches(scanId[r])
  BY TouchesOwnScan
<1>2. ASSUME NEW p \in ToPage(r), pc[r] = "page"
      PROVE  \E f \in findings : /\ f.scan = scanId[r] /\ f.batch = p[1] /\ f.place = p[2]
                                 /\ f.finding \in Urgent
  <2>1. FindingsAreIn(r)
    BY <1>0, <1>2 DEF RunInv, RowFollowsPc, StoredByPc, NoScan
  <2>2. p \in Places(FindingLists(r)) /\ FindingLists(r)[p[1]][p[2]] \in Urgent
    BY DEF ToPage, UrgentPlaces
  <2> DEFINE row == [scan |-> scanId[r], batch |-> p[1], place |-> p[2],
                     finding |-> FindingLists(r)[p[1]][p[2]]]
  <2>3. row \in FindingRowsOf(scanId[r], FindingLists(r))
    BY <2>2 DEF FindingRowsOf
  <2>4. row \in findings
    BY <2>1, <2>3 DEF FindingsAreIn
  <2> QED  BY <2>2, <2>4
<1>3. ASSUME NEW g \in pages'
      PROVE  \E f \in findings : /\ f.scan = g.scan /\ f.batch = g.batch
                                 /\ f.place = g.place /\ f.finding \in Urgent
  <2>1. CASE g \in pages
    BY <2>1 DEF PagesAreStored
  <2>2. CASE pc[r] = "page" /\ \E p \in ToPage(r) : g = Page(r, p)
    BY <1>2, <2>2 DEF Page
  <2> QED  BY <2>1, <2>2, PageSource
<1>4. findings \subseteq findings'
  BY <1>1 DEF Touches
<1> QED  BY <1>3, <1>4 DEF PagesAreStored

-----------------------------------------------------------------------------
(* The run that steps and the others *)

\* What a run knows of its own row survives a step that works for another scan,
\* whichever agent takes it.
LEMMA OthersKept ==
    ASSUME Typed, NEW id, Touches(id), NEW q \in Runs, RunInv(q),
           scanId[q] = NoScan \/ scanId[q] # id,
           pc'[q] = pc[q], targets'[q] = targets[q], scanId'[q] = scanId[q],
           task'[q] = task[q], output'[q] = output[q], handled'[q] = handled[q]
    PROVE  RunInv(q)'
<1> USE DEF NoScan
<1>0. /\ Len(scans) \in Nat /\ scanId[q] \in 0 .. Len(scans)
      /\ pc'[q] = pc[q] /\ targets'[q] = targets[q] /\ scanId'[q] = scanId[q]
      /\ task'[q] = task[q] /\ output'[q] = output[q] /\ handled'[q] = handled[q]
  BY ScansAreRows DEF Typed, TypeOK
<1>1. /\ Jobs(q)' = Jobs(q) /\ Refused(q)' = Refused(q) /\ Settled(q)' = Settled(q)
      /\ FindingLists(q)' = FindingLists(q) /\ AssetLists(q)' = AssetLists(q)
      /\ ToPage(q)' = ToPage(q)
  BY <1>0 DEF Jobs, Refused, Settled, FindingLists, AssetLists, ToPage, UrgentPlaces
<1>2. CallFollowsPc(q)'
  BY <1>0, <1>1 DEF RunInv, CallFollowsPc
<1>3. CASE scanId[q] = NoScan
  BY <1>0, <1>1, <1>2, <1>3 DEF RunInv, RowFollowsPc, ResultsByPc, StoredByPc, HandledByPc
<1>4. CASE scanId[q] # NoScan
  <2> DEFINE i == scanId[q]
  <2>1. i \in 1 .. Len(scans) /\ i # id
    BY <1>0, <1>4
  <2>2. scans'[i] = scans[i]
    BY <2>1 DEF Touches
  <2>3. \A row : row.scan = i => /\ row \in assets' <=> row \in assets
                                 /\ row \in findings' <=> row \in findings
    BY <2>1 DEF Touches
  <2>4. RowFollowsPc(q)' /\ ResultsByPc(q)' /\ HandledByPc(q)'
    BY <1>0, <1>1, <2>2 DEF RunInv, RowFollowsPc, ResultsByPc, HandledByPc
  <2>5. FindingsAreIn(q)' = FindingsAreIn(q)
    <3>1. {f \in findings' : f.scan = i} = {f \in findings : f.scan = i}
      BY <2>3
    <3> QED  BY <1>0, <1>1, <3>1 DEF FindingsAreIn, FindingRowsOf
  <2>6. AssetsAreIn(q)' = AssetsAreIn(q)
    <3>1. {row \in assets' : row.scan = scanId'[q]} = {row \in assets : row.scan = scanId[q]}
      BY <1>0, <2>3
    <3>2. Index(scanId[q])' = Index(scanId[q])
      BY <3>1 DEF Index, ListAssets
    <3> QED  BY <1>0, <1>1, <3>2 DEF AssetsAreIn
  <2>7. StoredByPc(q)'
    BY <1>0, <2>2, <2>3, <2>5, <2>6 DEF RunInv, StoredByPc
  <2> QED  BY <1>2, <2>4, <2>7 DEF RunInv
<1> QED  BY <1>3, <1>4

\* The argument is checked before anything else, and a refusal is the end.
LEMMA CallStep ==
    ASSUME Typed, NEW r \in Runs, RunInv(r), StepOf(r)
    PROVE  CallFollowsPc(r)'
<1> USE DEF Goto, DatabaseFails, NotifierRaises
<1>0. /\ DOMAIN pc = Runs /\ DOMAIN targets = Runs /\ DOMAIN task = Runs
  BY DEF Typed, TypeOK, Domains
<1>1. ASSUME NEW list \in Seq(Targets), Begin(r, list)
      PROVE  CallFollowsPc(r)'
  <2>1. /\ targets'[r] = list /\ task'[r] = [j \in JobsFor(list) |-> "none"]
        /\ pc'[r] = IF Elements(list) \subseteq Authorized THEN "create" ELSE "raised"
        /\ scanId'[r] = NoScan
    BY <1>0, <1>1 DEF Begin, CallWith, RunInv, RowFollowsPc
  <2>2. Jobs(r)' = JobsFor(list) /\ Refused(r)' = ~(Elements(list) \subseteq Authorized)
    BY <2>1 DEF Jobs, Refused
  <2> QED  BY <2>1, <2>2 DEF CallFollowsPc
<1>2. CASE ~\E list \in Seq(Targets) : Begin(r, list)
  <2>1. ~Refused(r)
    <3>1. ASSUME pc[r] = "raised", \A j \in Jobs(r) : task[r][j] = "none" PROVE FALSE
      BY <1>2, <3>1 DEF StepOf, Step, Create, Start, LaunchTools, FinishTool, GatherReturns,
           GatherRaises, SaveFindings, SaveAssets, Finalise, Summarise, SendCriticalAlert,
           SendSummary, HandleViolation, HandleFailure, Interrupt, Working
    <3> QED  BY <3>1 DEF RunInv, CallFollowsPc
  <2>2. UNCHANGED targets
    BY <1>2 DEF StepOf, Step, Create, Start, LaunchTools, FinishTool, GatherReturns,
         GatherRaises, SaveFindings, SaveAssets, Finalise, Summarise, SendCriticalAlert,
         SendSummary, HandleViolation, HandleFailure, Interrupt
  <2>3. pc'[r] = "idle" => pc[r] = "idle"
    BY <1>0, <1>2 DEF StepOf, Step, Create, Start, LaunchTools, FinishTool, GatherReturns,
         GatherRaises, SaveFindings, SaveAssets, Finalise, Summarise, SendCriticalAlert,
         SendSummary, HandleViolation, HandleFailure, Interrupt
  <2>4. Refused(r)' = Refused(r)
    BY <2>2 DEF Refused
  <2> QED  BY <2>1, <2>2, <2>3, <2>4 DEF RunInv, CallFollowsPc
<1> QED  BY <1>1, <1>2

\* What the run knows of its row but for what is stored under it.
StatusInv(r) == RowFollowsPc(r) /\ ResultsByPc(r)

\* The status of a run's row stays what the place of the run says.
LEMMA StatusStep ==
    ASSUME Typed, NEW r \in Runs, RunInv(r), StepOf(r)
    PROVE  StatusInv(r)'
<1> USE DEF Goto, store, NoScan
<1>0. /\ TypeOK /\ Len(scans) \in Nat /\ scanId[r] \in 0 .. Len(scans)
      /\ DOMAIN pc = Runs /\ DOMAIN scanId = Runs /\ DOMAIN task = Runs
      /\ StatusInv(r)
  BY ScansAreRows DEF Typed, TypeOK, Domains, RunInv, StatusInv
<1> USE DEF StatusInv, RowFollowsPc, ResultsByPc
<1>1. ASSUME UNCHANGED <<scans, scanId, targets>>, task'[r] = task[r],
             \/ pc[r] = "create" /\ pc'[r] = "raised"
             \/ pc[r] = "start" /\ pc'[r] = "raised"
             \/ pc[r] = "waiting" /\ pc'[r] = "violation"
             \/ pc[r] = "waiting" /\ pc'[r] = "persist_findings" /\ Settled(r)
             \/ pc[r] = "persist_findings" /\ pc'[r] \in {"persist_assets", "fail"}
             \/ pc[r] = "persist_assets" /\ pc'[r] \in {"finalise", "fail"}
             \/ pc[r] = "finalise" /\ pc'[r] = "fail"
             \/ /\ pc[r] \in {"summarise", "page", "notify"}
                /\ pc'[r] \in {"page", "notify", "returned", "fail"}
             \/ pc[r] \in {"violation", "fail"} /\ pc'[r] = "raised"
      PROVE  StatusInv(r)'
  <2>1. Settled(r)' = Settled(r)
    BY <1>1 DEF Settled, Jobs
  <2> QED  BY <1>0, <1>1, <2>1 DEF Closed
<1>2. ASSUME NEW status \in Statuses, SetStatus(scanId[r], status),
             UNCHANGED <<scanId, task, targets>>,
             \/ pc[r] = "start" /\ pc'[r] = "gather" /\ status = "running"
             \/ pc[r] = "finalise" /\ pc'[r] = "summarise" /\ status = "done"
             \/ pc[r] = "violation" /\ pc'[r] = "raised" /\ status = "scope_violation"
             \/ pc[r] = "fail" /\ pc'[r] = "raised" /\ status = "failed"
      PROVE  StatusInv(r)'
  <2>1. scans'[scanId[r]].status = status
    BY <1>0, <1>2, StatusFrame DEF Closed
  <2>2. Settled(r)' = Settled(r)
    BY <1>2 DEF Settled, Jobs
  <2> QED  BY <1>0, <1>2, <2>1, <2>2 DEF Closed
<1>3. CASE \E list \in Seq(Targets) : Begin(r, list)
  BY <1>0, <1>3 DEF Begin, CallWith
<1>4. CASE Create(r)
  <2>1. CASE DatabaseFails(r, "create", "raised")
    BY <1>0, <1>1, <2>1 DEF DatabaseFails
  <2>2. CASE ~DatabaseFails(r, "create", "raised")
    <3>1. /\ CreateScan(PrimaryTarget(r), "attack") /\ scanId'[r] = Len(scans) + 1
          /\ pc'[r] = "start"
      BY <1>0, <1>4, <2>2 DEF Create, NextScanId
    <3>2. scans'[Len(scans) + 1].status = "pending"
      BY <1>0, <3>1, CreateFrame
    <3> QED  BY <1>0, <3>1, <3>2 DEF Closed
  <2> QED  BY <2>1, <2>2
<1>5. CASE Start(r)
  BY <1>0, <1>1, <1>2, <1>5 DEF Start, DatabaseFails, Statuses
<1>6. CASE LaunchTools(r)
  BY <1>0, <1>6 DEF LaunchTools, Closed
<1>7. ASSUME NEW j \in Jobs(r), FinishTool(r, j)
      PROVE  StatusInv(r)'
  <2>1. ~Settled(r)
    BY <1>7 DEF FinishTool, Settled
  <2> QED  BY <1>0, <1>7, <2>1 DEF FinishTool
<1>8. CASE GatherReturns(r)
  BY <1>0, <1>1, <1>8 DEF GatherReturns, Settled
<1>9. CASE GatherRaises(r)
  BY <1>0, <1>1, <1>9 DEF GatherRaises
<1>10. CASE SaveFindings(r)
  BY <1>0, <1>1, <1>10 DEF SaveFindings, PersistFindings, DatabaseFails
<1>11. CASE SaveAssets(r)
  BY <1>0, <1>1, <1>11 DEF SaveAssets, PersistAssets, DatabaseFails
<1>12. CASE Finalise(r)
  BY <1>0, <1>1, <1>2, <1>12 DEF Finalise, DatabaseFails, Statuses
<1>13. CASE Summarise(r)
  BY <1>0, <1>1, <1>13 DEF Summarise, DatabaseFails
<1>14. CASE SendCriticalAlert(r)
  BY <1>0, <1>1, <1>14 DEF SendCriticalAlert, NotifierRaises
<1>15. CASE SendSummary(r)
  BY <1>0, <1>1, <1>15 DEF SendSummary, NotifierRaises
<1>16. CASE HandleViolation(r)
  BY <1>0, <1>1, <1>2, <1>16 DEF HandleViolation, DatabaseFails, Statuses
<1>17. CASE HandleFailure(r)
  BY <1>0, <1>1, <1>2, <1>17 DEF HandleFailure, DatabaseFails, Statuses
<1>18. CASE Interrupt(r)
  <2>1. Jobs(r)' = Jobs(r)
    BY <1>18 DEF Interrupt, Jobs
  <2>2. Settled(r) => Settled(r)'
    BY <1>0, <1>18, <2>1 DEF Interrupt, Settled, StoppedTasks
  <2> QED  BY <1>0, <1>18, <2>2 DEF Interrupt
<1> QED
  BY <1>3, <1>4, <1>5, <1>6, <1>7, <1>8, <1>9, <1>10, <1>11, <1>12, <1>13, <1>14, <1>15,
     <1>16, <1>17, <1>18 DEF StepOf, Step

\* The lists are those the tools returned until a tool returns another.
LEMMA ListsKept ==
    ASSUME NEW r \in Runs, UNCHANGED <<targets, output>>
    PROVE  /\ FindingLists(r)' = FindingLists(r) /\ AssetLists(r)' = AssetLists(r)
           /\ UrgentPlaces(r)' = UrgentPlaces(r)
  BY DEF FindingLists, AssetLists, UrgentPlaces, Jobs

\* No list changes once results are written.
LEMMA StoredStep ==
    ASSUME Typed, References, NEW r \in Runs, RunInv(r), StepOf(r)
    PROVE  StoredByPc(r)'
<1> USE DEF Goto, NoScan
<1>0. /\ TypeOK /\ StoreTypeOK /\ Len(scans) \in Nat /\ scanId[r] \in 0 .. Len(scans)
      /\ DOMAIN pc = Runs /\ DOMAIN scanId = Runs
      /\ StatusInv(r) /\ StoredByPc(r) /\ StatusInv(r)'
  BY ScansAreRows, StatusStep DEF Typed, TypeOK, RunInv, StatusInv
<1>1. ASSUME UNCHANGED <<assets, findings, scanId, targets, output>>
      PROVE  FindingsAreIn(r)' = FindingsAreIn(r) /\ AssetsAreIn(r)' = AssetsAreIn(r)
  BY <1>1, ListsKept DEF FindingsAreIn, AssetsAreIn, FindingRowsOf, Index, ListAssets
<1>2. ASSUME UNCHANGED <<store, scanId, targets, output>>,
             \/ pc'[r] \in {"raised", "interrupted", "fail", "violation", "page", "notify",
                            "returned", "waiting"}
             \/ pc[r] = "waiting" /\ pc'[r] = "persist_findings",
             pc'[r] = "waiting" => pc[r] = "gather"
      PROVE  StoredByPc(r)'
  BY <1>0, <1>1, <1>2 DEF StoredByPc, store
<1>3. ASSUME NEW status \in Statuses, SetStatus(scanId[r], status), scanId[r] # NoScan,
             UNCHANGED <<scanId, targets, output>>,
             scans[scanId[r]].status \in Closed => status \in Closed,
             \/ pc[r] = "start" /\ pc'[r] = "gather" /\ status = "running"
             \/ pc[r] = "finalise" /\ pc'[r] = "summarise" /\ status = "done"
             \/ pc'[r] = "raised" /\ status \in {"scope_violation", "failed"}
      PROVE  StoredByPc(r)'
  <2>1. scans'[scanId[r]].status = status /\ assets' = assets /\ findings' = findings
    BY <1>0, <1>3, StatusFrame
  <2> QED  BY <1>0, <1>1, <1>3, <2>1 DEF StoredByPc
<1>4. ASSUME NEW list \in Seq(Targets), Begin(r, list)
      PROVE  StoredByPc(r)'
  BY <1>0, <1>4 DEF Begin, CallWith, StoredByPc, StatusInv, RowFollowsPc
<1>5. CASE Create(r)
  <2>1. CASE DatabaseFails(r, "create", "raised")
    BY <1>0, <1>2, <2>1 DEF DatabaseFails
  <2>2. CASE ~DatabaseFails(r, "create", "raised")
    <3>1. /\ CreateScan(PrimaryTarget(r), "attack") /\ scanId'[r] = Len(scans) + 1
          /\ pc'[r] = "start"
      BY <1>0, <1>5, <2>2 DEF Create, NextScanId
    <3>2. scans'[Len(scans) + 1].status = "pending" /\ findings' = findings
      BY <1>0, <3>1, CreateFrame DEF CreateScan
    <3>3. \A row \in findings : row.scan # Len(scans) + 1
      BY <1>0 DEF References
    <3> QED  BY <1>0, <3>1, <3>2, <3>3 DEF StoredByPc
  <2> QED  BY <2>1, <2>2
<1>6. CASE Start(r)
  BY <1>0, <1>2, <1>3, <1>6 DEF Start, DatabaseFails, Statuses, StatusInv, RowFollowsPc, Closed
<1>7. CASE LaunchTools(r)
  BY <1>0, <1>2, <1>7 DEF LaunchTools
<1>8. ASSUME NEW j \in Jobs(r), FinishTool(r, j)
      PROVE  StoredByPc(r)'
  <2>1. ~Settled(r)
    BY <1>8 DEF FinishTool, Settled
  <2>2. pc[r] \notin {"persist_assets", "finalise"}
        /\ (scanId[r] # NoScan => scans[scanId[r]].status # "done")
    BY <1>0, <2>1 DEF StatusInv, ResultsByPc, Closed
  <2> QED  BY <1>0, <1>8, <2>2 DEF FinishTool, StoredByPc, store
<1>9. CASE GatherReturns(r)
  BY <1>0, <1>2, <1>9 DEF GatherReturns
<1>10. CASE GatherRaises(r)
  BY <1>0, <1>2, <1>10 DEF GatherRaises
<1>11. CASE SaveFindings(r)
  <2>1. CASE DatabaseFails(r, "persist_findings", "fail")
    BY <1>0, <1>2, <2>1 DEF DatabaseFails
  <2>2. CASE ~DatabaseFails(r, "persist_findings", "fail")
    <3>1. /\ pc[r] = "persist_findings" /\ pc'[r] = "persist_assets"
          /\ findings' = findings \cup FindingRowsOf(scanId[r], FindingLists(r))
          /\ UNCHANGED <<scans, scanId, targets, output>>
      BY <1>0, <1>11, <2>2 DEF SaveFindings, PersistFindings
    <3>2. \A f \in findings : f.scan # scanId[r]
      BY <1>0, <3>1 DEF StoredByPc
    <3>3. \A f \in FindingRowsOf(scanId[r], FindingLists(r)) : f.scan = scanId[r]
      BY DEF FindingRowsOf
    <3>4. {f \in findings' : f.scan = scanId[r]} = FindingRowsOf(scanId[r], FindingLists(r))
      BY <3>1, <3>2, <3>3
    <3>5. FindingsAreIn(r)'
      BY <3>1, <3>4, ListsKept DEF FindingsAreIn, FindingRowsOf
    <3>6. scans'[scanId'[r]].status = "running"
      BY <1>0, <3>1 DEF StatusInv, RowFollowsPc
    <3> QED  BY <3>1, <3>5, <3>6 DEF StoredByPc
  <2> QED  BY <2>1, <2>2
<1>12. CASE SaveAssets(r)
  <2>1. CASE DatabaseFails(r, "persist_assets", "fail")
    BY <1>0, <1>2, <2>1 DEF DatabaseFails
  <2>2. CASE ~DatabaseFails(r, "persist_assets", "fail")
    <3>1. /\ pc[r] = "persist_assets" /\ pc'[r] = "finalise"
          /\ assets' = assets \cup AssetRowsOf(scanId[r], AssetLists(r))
          /\ UNCHANGED <<scans, findings, scanId, targets, output>>
      BY <1>0, <1>12, <2>2 DEF SaveAssets, PersistAssets
    <3>2. FindingsAreIn(r)'
      BY <1>0, <3>1, ListsKept DEF StoredByPc, FindingsAreIn, FindingRowsOf
    <3>3. ASSUME NEW p \in Places(AssetLists(r))
          PROVE  KeyOf[AssetLists(r)[p[1]][p[2]]] \in Index(scanId[r])'
      <4>1. PICK a \in FirstOfEachKey(AssetLists(r)) : KeyOf[a] = KeyOf[AssetLists(r)[p[1]][p[2]]]
        BY <1>0, ResultsAreLists, FirstCoversEveryKey
      <4>2. [scan |-> scanId[r], asset |-> a] \in assets'
        BY <3>1 DEF AssetRowsOf
      <4>3. a \in ListAssets(scanId[r])'
        BY <3>1, <4>2 DEF ListAssets
      <4> QED  BY <4>1, <4>3 DEF Index
    <3>4. AssetsAreIn(r)'
      BY <3>1, <3>3, ListsKept DEF AssetsAreIn
    <3>5. scans'[scanId'[r]].status = "running"
      BY <1>0, <3>1 DEF StatusInv, RowFollowsPc
    <3> QED  BY <3>1, <3>2, <3>4, <3>5 DEF StoredByPc
  <2> QED  BY <2>1, <2>2
<1>13. CASE Finalise(r)
  BY <1>0, <1>2, <1>3, <1>13
     DEF Finalise, DatabaseFails, Statuses, StatusInv, RowFollowsPc, Closed
<1>14. CASE Summarise(r)
  BY <1>0, <1>2, <1>14 DEF Summarise, DatabaseFails
<1>15. CASE SendCriticalAlert(r)
  BY <1>0, <1>2, <1>15 DEF SendCriticalAlert, NotifierRaises
<1>16. CASE SendSummary(r)
  BY <1>0, <1>2, <1>16 DEF SendSummary, NotifierRaises
<1>17. CASE HandleViolation(r)
  BY <1>0, <1>2, <1>3, <1>17
     DEF HandleViolation, DatabaseFails, Statuses, StatusInv, RowFollowsPc, Closed
<1>18. CASE HandleFailure(r)
  BY <1>0, <1>2, <1>3, <1>18
     DEF HandleFailure, DatabaseFails, Statuses, StatusInv, RowFollowsPc, Closed
<1>19. CASE Interrupt(r)
  BY <1>0, <1>2, <1>19 DEF Interrupt
<1> QED
  BY <1>4, <1>5, <1>6, <1>7, <1>8, <1>9, <1>10, <1>11, <1>12, <1>13, <1>14, <1>15,
     <1>16, <1>17, <1>18, <1>19 DEF StepOf, Step

\* Places are handled one by one, and the summary waits for the last.
LEMMA HandledStep ==
    ASSUME Typed, NEW r \in Runs, RunInv(r), StepOf(r)
    PROVE  HandledByPc(r)'
<1> USE DEF Goto, NoScan
<1>0. /\ TypeOK /\ Len(scans) \in Nat /\ scanId[r] \in 0 .. Len(scans)
      /\ DOMAIN pc = Runs /\ DOMAIN scanId = Runs /\ DOMAIN handled = Runs
      /\ Touches(scanId[r]) /\ HandledByPc(r)
  BY ScansAreRows, TouchesOwnScan DEF Typed, TypeOK, Domains, RunInv
<1>1. scanId[r] # NoScan =>
          /\ scanId'[r] = scanId[r]
          /\ scans[scanId[r]].status \in Closed => scans'[scanId'[r]].status \in Closed
  <2>1. scanId[r] # NoScan => scanId'[r] = scanId[r]
    BY ScanIdStep
  <2> QED  BY <1>0, <2>1 DEF Touches
<1>2. CASE SendCriticalAlert(r) /\ pc'[r] # "fail"
  <2>1. PICK p \in ToPage(r) :
            /\ pc[r] = "page" /\ pc'[r] = (IF ToPage(r) = {p} THEN "notify" ELSE "page")
            /\ handled'[r] = handled[r] \cup {p}
            /\ UNCHANGED <<targets, output>>
    BY <1>0, <1>2 DEF SendCriticalAlert, NotifierRaises
  <2>2. scanId[r] # NoScan /\ scans[scanId[r]].status \in Closed
    BY <2>1 DEF RunInv, RowFollowsPc, Closed
  <2>3. pc'[r] \in {"notify", "returned"} => ToPage(r)' = {}
    BY <2>1, ListsKept DEF ToPage
  <2> QED  BY <1>1, <2>2, <2>3 DEF HandledByPc
<1>3. ASSUME UNCHANGED <<handled>>, pc'[r] \in {"notify", "returned"} => ToPage(r)' = {}
      PROVE  HandledByPc(r)'
  BY <1>0, <1>1, <1>3 DEF HandledByPc
<1>4. ASSUME NEW j \in Jobs(r), FinishTool(r, j)
      PROVE  HandledByPc(r)'
  <2>1. ~Settled(r)
    BY <1>4 DEF FinishTool, Settled
  <2>2. pc[r] \notin {"notify", "returned"}
    BY <2>1 DEF RunInv, RowFollowsPc, ResultsByPc, Closed
  <2> QED  BY <1>3, <1>4, <2>2 DEF FinishTool
<1>5. CASE Summarise(r) \/ SendSummary(r)
  <2>1. /\ UNCHANGED <<handled, targets, output>>
        /\ pc'[r] \in {"notify", "returned"} => ToPage(r) = {}
    BY <1>0, <1>5 DEF Summarise, SendSummary, DatabaseFails, NotifierRaises, HandledByPc
  <2> QED  BY <1>3, <2>1, ListsKept DEF ToPage
<1>6. CASE \/ \E list \in Seq(Targets) : Begin(r, list)
           \/ Create(r) \/ Start(r) \/ LaunchTools(r) \/ GatherReturns(r) \/ GatherRaises(r)
           \/ SaveFindings(r) \/ SaveAssets(r) \/ Finalise(r)
           \/ SendCriticalAlert(r) /\ pc'[r] = "fail"
           \/ HandleViolation(r) \/ HandleFailure(r) \/ Interrupt(r)
  <2>1. UNCHANGED <<handled>> /\ pc'[r] \notin {"notify", "returned"}
    BY <1>0, <1>6 DEF Begin, CallWith, Create, Start, LaunchTools, GatherReturns, GatherRaises,
         SaveFindings, SaveAssets, Finalise, SendCriticalAlert, HandleViolation,
         HandleFailure, Interrupt, DatabaseFails, NotifierRaises
  <2> QED  BY <1>3, <2>1
<1> QED  BY <1>2, <1>4, <1>5, <1>6 DEF StepOf, Step

-----------------------------------------------------------------------------
(* Tables that are shared *)

\* A run that returned stays there, and one that began has begun for good.
LEMMA PcStep ==
    ASSUME Typed, NEW r \in Runs, StepOf(r)
    PROVE  /\ pc[r] = "returned" => pc'[r] = "returned"
           /\ pc[r] # "idle" => pc'[r] # "idle"
<1>1. pc'[r] = pc[r] \/ (pc[r] \notin Ended /\ pc'[r] # "idle")
  BY DEF Typed, TypeOK, StepOf, Step, Goto, Begin, CallWith, Create, Start, LaunchTools,
         GatherReturns, GatherRaises, SaveFindings, SaveAssets, Finalise, Summarise,
         SendCriticalAlert, SendSummary, HandleViolation, HandleFailure, Interrupt,
         FinishTool, DatabaseFails, NotifierRaises, Working, Ended
<1> QED  BY <1>1 DEF Ended

\* The list a run was called with is the one it works through.
LEMMA ListIsKept ==
    ASSUME NEW r \in Runs, StepOf(r), pc[r] # "idle"
    PROVE  targets' = targets
BY DEF StepOf, Step, Goto, Begin, Create, Start, LaunchTools, GatherReturns, GatherRaises,
       SaveFindings, SaveAssets, Finalise, Summarise, SendCriticalAlert, SendSummary,
       HandleViolation, HandleFailure, Interrupt, FinishTool, DatabaseFails, NotifierRaises

\* A step of an attack run, whoever else writes to the tables.
LEMMA SharedStep ==
    ASSUME SharedInv, NEW r \in Runs, StepOf(r)
    PROVE  SharedInv' /\ Touches(scanId[r])
<1>1. Typed /\ OwnRows /\ References /\ PagesAreStored /\ RunInv(r)
  BY DEF SharedInv
<1>2. Touches(scanId[r]) /\ LocalFrame(r)
  BY <1>1, TouchesOwnScan, LocalFrameHolds
<1>3. Typed' /\ OwnRows' /\ References' /\ PagesAreStored'
  BY <1>1, TypeStep, OwnRowsStep, ReferencesStep, PagesStep
<1>4. RunInv(r)'
  BY <1>1, CallStep, StatusStep, StoredStep, HandledStep DEF RunInv, StatusInv
<1>5. ASSUME NEW q \in Runs \ {r} PROVE RunInv(q)'
  <2>1. RunInv(q) /\ (scanId[q] = NoScan \/ scanId[q] # scanId[r])
    BY <1>1 DEF SharedInv, OwnRows
  <2> QED  BY <1>1, <1>2, <2>1, OthersKept DEF LocalFrame
<1> QED  BY <1>2, <1>3, <1>4, <1>5 DEF SharedInv

\* A step of another agent, for a scan of its own.
LEMMA SharedKept ==
    ASSUME SharedInv, NEW id \in 0 .. Len(scans), Touches(id), UNCHANGED agent,
           \A q \in Runs : scanId[q] = NoScan \/ scanId[q] # id
    PROVE  SharedInv'
<1> USE DEF NoScan
<1>0. /\ Typed /\ TypeOK /\ OwnRows /\ References /\ PagesAreStored
      /\ Len(scans) \in Nat /\ Len(scans') \in Nat /\ Len(scans) <= Len(scans')
      /\ UNCHANGED <<pc, targets, scanId, task, output, handled, pages>>
  BY ScansAreRows DEF SharedInv, Typed, TypeOK, Touches, agent
<1>1. Typed'
  <2>1. scanId \in [Runs -> 0 .. Len(scans')]
    BY <1>0 DEF TypeOK
  <2>2. pages \subseteq [scan : 1 .. Len(scans'), batch : Nat, place : Nat]
    BY <1>0 DEF TypeOK
  <2>3. \A q \in Runs : RunTypeOK(q)'
    BY <1>0, RunTypeKept
  <2> QED  BY <1>0, <2>1, <2>2, <2>3 DEF Typed, TypeOK, RunTypeOK, Domains, Touches
<1>2. OwnRows'
  <2>1. \A q \in Runs : scanId[q] # NoScan => scanId[q] \in 1 .. Len(scans)
    BY <1>0 DEF TypeOK
  <2>2. \A q \in Runs : PrimaryTarget(q)' = PrimaryTarget(q)
    BY <1>0 DEF PrimaryTarget
  <2> QED  BY <1>0, <2>1, <2>2 DEF OwnRows, Touches
<1>3. References'
  BY <1>0 DEF References, Touches
<1>4. PagesAreStored'
  <2>1. \A g \in pages : g.scan \in 1 .. Len(scans)
    BY <1>0 DEF TypeOK
  <2> QED  BY <1>0, <2>1 DEF PagesAreStored, Touches, Closed
<1>5. \A q \in Runs : RunInv(q)'
  BY <1>0, OthersKept DEF SharedInv
<1> QED  BY <1>1, <1>2, <1>3, <1>4, <1>5 DEF SharedInv

-----------------------------------------------------------------------------
(* The invariant *)

\* Nothing has begun, so the inductive invariant holds at first.
LEMMA InitIInv == Init => IInv
<1> SUFFICES ASSUME Init PROVE IInv
  OBVIOUS
<1> USE DEF NoScan
<1>1. Typed
  BY InitTyped
<1>2. DOMAIN scans = {} /\ assets = {} /\ findings = {} /\ pages = {}
  BY DEF Init, StoreInit, AgentInit
<1>3. \A r \in Runs : pc[r] = "idle" /\ scanId[r] = NoScan /\ handled[r] = {} /\ targets[r] = <<>>
  BY DEF Init, AgentInit
<1>4. OwnRow /\ References /\ PagesAreStored
  BY <1>2, <1>3 DEF OwnRow, References, PagesAreStored
<1>5. \A r \in Runs : ~Refused(r)
  BY <1>3 DEF Refused, Elements
<1>6. \A r \in Runs : RunInv(r)
  BY <1>3, <1>5 DEF RunInv, CallFollowsPc, RowFollowsPc, ResultsByPc, StoredByPc, HandledByPc
<1> QED  BY <1>1, <1>4, <1>6 DEF IInv

\* What is relied on beside other agents holds before any of them starts.
LEMMA InitShared == Init => SharedInv
BY InitIInv DEF IInv, SharedInv, OwnRow, OwnRows

\* Every step of every run keeps the inductive invariant.
LEMMA StepIInv == IInv /\ [Next]_vars => IInv'
<1> SUFFICES ASSUME IInv, [Next]_vars PROVE IInv'
  OBVIOUS
<1>1. CASE Next
  <2>1. PICK r \in Runs : StepOf(r)
    BY <1>1, CalledWithType DEF Next, StepOf
  <2>2. SharedInv /\ RunInv(r)
    BY DEF IInv, SharedInv, OwnRow, OwnRows
  <2>3. SharedInv'
    BY <2>1, <2>2, SharedStep
  <2>4. OwnRow'
    BY <2>1, <2>2, OwnRowStep DEF IInv
  <2> QED  BY <2>3, <2>4 DEF IInv, SharedInv
<1>2. CASE UNCHANGED vars
  <2>1. UNCHANGED <<scans, assets, findings, pc, targets, scanId, task, output, handled, pages>>
    BY <1>2 DEF vars, store, agent
  <2>2. \A r \in Runs :
            /\ Jobs(r)' = Jobs(r) /\ FindingLists(r)' = FindingLists(r)
            /\ AssetLists(r)' = AssetLists(r) /\ PrimaryTarget(r)' = PrimaryTarget(r)
            /\ Refused(r)' = Refused(r) /\ UrgentPlaces(r)' = UrgentPlaces(r)
    BY <2>1, ListsKept DEF Jobs, PrimaryTarget, Refused
  <2>3. Typed'
    BY <2>1, <2>2 DEF IInv, Typed, TypeOK, Domains, StoreTypeOK
  <2>4. OwnRow' /\ References' /\ PagesAreStored'
    BY <2>1, <2>2 DEF IInv, OwnRow, References, PagesAreStored
  <2>5. \A r \in Runs : RunInv(r)'
    BY <2>1, <2>2 DEF IInv, RunInv, CallFollowsPc, RowFollowsPc, ResultsByPc, StoredByPc,
       HandledByPc, Settled, FindingsAreIn, AssetsAreIn, FindingRowsOf, Index, ListAssets, ToPage
  <2> QED  BY <2>3, <2>4, <2>5 DEF IInv
<1> QED  BY <1>1, <1>2

\* The strengthening that carries every invariant below.
THEOREM Invariance == Spec => []IInv
BY InitIInv, StepIInv, PTL DEF Spec

\* Every variable keeps its type, whatever lists of targets the runs are given.
THEOREM TypeCorrectness == Spec => []TypeOK
<1>1. IInv => TypeOK
  BY DEF IInv, Typed
<1> QED  BY <1>1, Invariance, PTL

\* However many runs of create_scan interleave, each writes to a row of its own.
THEOREM RowsAreOwned == Spec => []OwnRow
<1>1. IInv => OwnRow
  BY DEF IInv
<1> QED  BY <1>1, Invariance, PTL

\* The pre-flight check of run() comes before everything: a single refused
\* target, and there is no row and no tool.
THEOREM RefusalsStopTheRun == Spec => []OneRefusalStopsAll
<1>1. IInv => OneRefusalStopsAll
  BY DEF IInv, RunInv, CallFollowsPc, Refused, OneRefusalStopsAll
<1> QED  BY <1>1, Invariance, PTL

\* No scan is marked done between the two transactions of its results, nor with
\* results other than the tools returned.
THEOREM DoneScansAreComplete == Spec => []DoneIsComplete
<1>1. IInv => DoneIsComplete
  BY DEF IInv, RunInv, StoredByPc, FindingsAreIn, AssetsAreIn, DoneIsComplete
<1> QED  BY <1>1, Invariance, PTL

\* No operator is alerted to a finding the database does not have.
THEOREM PagesCanBeLookedUp == Spec => []PagesAreStored
<1>1. IInv => PagesAreStored
  BY DEF IInv
<1> QED  BY <1>1, Invariance, PTL

\* run() returns only after its loop has been through every urgent finding.
THEOREM NoUrgentFindingIsSkipped == Spec => []EveryUrgentFindingIsSent
<1>1. IInv => EveryUrgentFindingIsSent
  <2> SUFFICES ASSUME IInv, NEW r \in Runs, pc[r] = "returned",
                      NEW f \in findings, f.scan = scanId[r], f.finding \in Urgent
               PROVE  <<f.batch, f.place>> \in handled[r]
    BY DEF EveryUrgentFindingIsSent
  <2>1. FindingsAreIn(r) /\ ToPage(r) = {}
    BY DEF IInv, RunInv, RowFollowsPc, StoredByPc, HandledByPc
  <2>2. PICK p \in Places(FindingLists(r)) :
            f = [scan |-> scanId[r], batch |-> p[1], place |-> p[2],
                 finding |-> FindingLists(r)[p[1]][p[2]]]
    BY <2>1 DEF FindingsAreIn, FindingRowsOf
  <2>3. p = <<f.batch, f.place>> /\ p \in UrgentPlaces(r)
    <3>1. p = <<p[1], p[2]>>
      BY ResultsAreLists, PlacesHoldElements DEF IInv, Typed
    <3> QED  BY <2>2, <3>1 DEF UrgentPlaces
  <2> QED  BY <2>1, <2>3 DEF ToPage
<1> QED  BY <1>1, Invariance, PTL

-----------------------------------------------------------------------------
(* The refinement *)

\* A step of a run opens, records in, moves along or leaves a scan of the history.
LEMMA StepRefines ==
    ASSUME Typed, NEW r \in Runs, RunInv(r), StepOf(r)
    PROVE  [History!Next]_<<scans, assets \cup findings>>
<1> USE DEF Goto, store, NoScan
<1>0. TypeOK /\ (scanId[r] # NoScan => scanId[r] \in DOMAIN scans)
  BY ScansAreRows DEF Typed, TypeOK
<1>1. ASSUME NEW status, SetStatus(scanId[r], status), scanId[r] \in DOMAIN scans,
             \/ scans[scanId[r]].status = "pending" /\ status = "running"
             \/ scans[scanId[r]].status = "running" /\ status \in {"done", "failed", "scope_violation"}
             \/ scans[scanId[r]].status = "done" /\ status = "failed"
      PROVE  History!Next
  <2>1. History!Move(scanId[r], scans[scanId[r]].status, status)
    BY <1>1 DEF SetStatus, History!Move
  <2>2. History!Begin(scanId[r]) \/ History!Finish(scanId[r]) \/ History!Revoke(scanId[r])
    BY <1>1, <2>1 DEF History!Begin, History!Finish, History!Revoke, History!Final
  <2> QED  BY <1>1, <2>2 DEF History!Next
<1>2. ASSUME scanId[r] # NoScan, scans[scanId[r]].status = "running",
             PersistFindings(scanId[r], FindingLists(r)) \/ PersistAssets(scanId[r], AssetLists(r))
      PROVE  History!Next
  <2>1. \A row \in AssetRowsOf(scanId[r], AssetLists(r))
                    \cup FindingRowsOf(scanId[r], FindingLists(r)) : row.scan = scanId[r]
    BY DEF AssetRowsOf, FindingRowsOf
  <2>2. History!Write(scanId[r])
    BY <1>2, <2>1 DEF PersistFindings, PersistAssets, History!Write
  <2> QED  BY <1>0, <1>2, <2>2 DEF History!Next
<1>3. CASE Create(r)
  <2>1. CASE UNCHANGED store
    BY <2>1
  <2>2. CASE ~UNCHANGED store
    <3>1. CreateScan(PrimaryTarget(r), "attack")
      BY <1>3, <2>2 DEF Create, DatabaseFails
    <3>2. History!Create(PrimaryTarget(r), "attack")
      BY <3>1 DEF CreateScan, History!Create
    <3> QED  BY <1>0, <3>2, PrimaryIsTarget, AttackIsAnAgent DEF History!Next
  <2> QED  BY <2>1, <2>2
<1>4. CASE Start(r)
  BY <1>0, <1>1, <1>4 DEF Start, DatabaseFails, RunInv, RowFollowsPc
<1>5. CASE Finalise(r)
  BY <1>0, <1>1, <1>5 DEF Finalise, DatabaseFails, RunInv, RowFollowsPc
<1>6. CASE HandleViolation(r)
  BY <1>0, <1>1, <1>6 DEF HandleViolation, DatabaseFails, RunInv, RowFollowsPc
<1>7. CASE HandleFailure(r)
  BY <1>0, <1>1, <1>7 DEF HandleFailure, DatabaseFails, RunInv, RowFollowsPc
<1>8. CASE SaveFindings(r)
  BY <1>2, <1>8 DEF SaveFindings, DatabaseFails, RunInv, RowFollowsPc
<1>9. CASE SaveAssets(r)
  BY <1>2, <1>9 DEF SaveAssets, DatabaseFails, RunInv, RowFollowsPc
<1>10. CASE \/ \E list \in Seq(Targets) : Begin(r, list)
            \/ LaunchTools(r) \/ GatherReturns(r) \/ GatherRaises(r) \/ Summarise(r)
            \/ SendCriticalAlert(r) \/ SendSummary(r) \/ Interrupt(r)
            \/ \E j \in Jobs(r) : FinishTool(r, j)
  BY <1>10 DEF Begin, CallWith, LaunchTools, GatherReturns, GatherRaises, Summarise,
               SendCriticalAlert, SendSummary, Interrupt, FinishTool, DatabaseFails,
               NotifierRaises
<1> QED
  BY <1>3, <1>4, <1>5, <1>6, <1>7, <1>8, <1>9, <1>10 DEF StepOf, Step

\* The scans, assets and findings that any number of attacks write are the log
\* ScanHistory describes: every step of an agent is a step of it, or none.
THEOREM AttackImplementsHistory == Spec => ImplementsHistory
<1>1. Init => History!Init
  BY DEF Init, StoreInit, History!Init
<1>2. IInv /\ [Next]_vars => [History!Next]_History!history
  <2> SUFFICES ASSUME IInv, [Next]_vars PROVE [History!Next]_<<scans, assets \cup findings>>
    BY DEF History!history
  <2>1. CASE Next
    <3>1. PICK r \in Runs : StepOf(r)
      BY <2>1, CalledWithType DEF Next, StepOf
    <3> QED  BY <3>1, StepRefines DEF IInv
  <2>2. CASE UNCHANGED vars
    BY <2>2 DEF vars, store
  <2> QED  BY <2>1, <2>2
<1> QED
  BY <1>1, <1>2, Invariance, PTL DEF Spec, ImplementsHistory, History!Spec

=============================================================================
