--------------------------- MODULE ReconAgentProofs ---------------------------
(***************************************************************************)
(* Proofs about ReconAgent for every set of runs, tools, targets and       *)
(* outputs, and every choice of faults.                                    *)
(*                                                                         *)
(* The argument: a step of run r touches no row but its own (Touches), and *)
(* what a run may assume of its own row follows from where it is           *)
(* (RunInv).  Since a row that is done or failed is written to by nobody,  *)
(* what a comparison read in three transactions stays true.                *)
(*                                                                         *)
(* What a run knows survives any step that works for a scan of another     *)
(* (OthersKept), whoever takes it: PipelineProofs takes the lemmas up to   *)
(* there for runs that share the tables with the other agents.             *)
(***************************************************************************)
EXTENDS ReconAgent, ScanStoreProofs

\* The row of run r, given the await it is at.
RowFollowsPc(r) ==
    /\ pc[r] \in {"idle", "refuse", "create"} => scanId[r] = NoScan
    /\ pc[r] \notin {"idle", "refuse", "create", "raised", "interrupted"} =>
           scanId[r] # NoScan
    /\ pc[r] = "start" => scans[scanId[r]].status = "pending"
    /\ pc[r] \in {"gather", "waiting", "persist", "finalise", "violation"} =>
           scans[scanId[r]].status = "running"
    /\ pc[r] \in {"summarise", "read_current", "find_previous", "compare",
                  "notify", "alert", "returned"} =>
           scans[scanId[r]].status = "done"
    /\ pc[r] = "fail" => scans[scanId[r]].status \in {"running", "done"}
    /\ pc[r] = "report_failure" => scans[scanId[r]].status = "failed"
    /\ pc[r] = "raised" /\ scanId[r] # NoScan =>
           scans[scanId[r]].status \in {"failed", "scope_violation"}

\* Nothing is stored under the row before the results are in.
StoredByPc(r) ==
    scanId[r] # NoScan /\ (\/ pc[r] \in {"start", "gather", "waiting", "persist", "violation"}
                          \/ scans[scanId[r]].status = "scope_violation") =>
        \A row \in assets : row.scan # scanId[r]

\* The results are in once the agent persists them, and stay so.
ResultsByPc(r) ==
    /\ pc[r] \in {"persist", "finalise"} => \A i \in Tools : task[r][i] \in {"done", "failed"}
    /\ scanId[r] # NoScan =>
           (scans[scanId[r]].status = "done" =>
               \A i \in Tools : task[r][i] \in {"done", "failed"})

\* What detect has read so far is what the store still holds.
ReadsAreCurrent(r) ==
    /\ pc[r] \in {"find_previous", "compare"} => current[r] = Index(scanId[r])
    /\ pc[r] = "compare" =>
           /\ previous[r] \in 1 .. (scanId[r] - 1)
           /\ scans[previous[r]].target = TargetOf[r]
           /\ scans[previous[r]].status \in Closed
    /\ pc[r] = "alert" => ShouldAlert(diff[r])
    /\ diff[r].made /\ diff[r].previous # NoScan =>
           /\ scanId[r] # NoScan
           /\ scans[scanId[r]].status \in Closed
           /\ IsComparison(scanId[r], diff[r])

\* Once they are persisted the rows are what the tools returned, one of each key.
RowsByPc(r) ==
    scanId[r] # NoScan /\ (pc[r] = "finalise" \/ scans[scanId[r]].status = "done") =>
        ListAssets(scanId[r]) = FirstOfEachKey(output[r])

RunInv(r) ==
    RowFollowsPc(r) /\ StoredByPc(r) /\ ResultsByPc(r) /\ RowsByPc(r) /\ ReadsAreCurrent(r)

\* Rows of table assets belong to scans, and a scan an alert is about is closed.
References ==
    /\ \A row \in assets : row.scan \in 1 .. Len(scans)
    /\ \A a \in alerts : scans[a.scan].status \in Closed

\* OwnRow without "every row belongs to a run", which is true only where no
\* other agent writes to the table.
OwnRows ==
    /\ \A r \in Runs : scanId[r] # NoScan =>
           scans[scanId[r]].target = TargetOf[r] /\ scans[scanId[r]].agent = "recon"
    /\ \A q, r \in Runs : q # r /\ scanId[q] = scanId[r] => scanId[r] = NoScan

\* What holds also where other agents write to the tables.
SharedInv ==
    /\ TypeOK
    /\ OwnRows
    /\ AlertIsExact
    /\ References
    /\ \A r \in Runs : RunInv(r)

IInv ==
    /\ TypeOK
    /\ OwnRow
    /\ OneRowPerIdentity
    /\ AlertIsExact
    /\ References
    /\ \A r \in Runs : RunInv(r)


\* A step of run r, of its tools or of its environment.
StepOf(r) ==
    \/ Begin(r)
    \/ Step(r)
    \/ \E i \in Tools : FinishTool(r, i)
    \/ Interrupt(r)

-----------------------------------------------------------------------------
(* Types *)

\* The first state is typed.
LEMMA InitTypeOK == Init => TypeOK
<1> SUFFICES ASSUME Init PROVE TypeOK
  OBVIOUS
<1>1. StoreTypeOK
  BY EmptySeq DEF Init, StoreInit, StoreTypeOK
<1>2. Len(scans) = 0
  BY DEF Init, StoreInit
<1>3. NoDiff \in Diff
  BY DEF NoDiff, Diff, NoScan
<1> QED
  BY <1>1, <1>2, <1>3, OutputsType
     DEF Init, TypeOK, PCs, TaskStates, NoScan

\* A step of a run keeps every variable within its type.
LEMMA TypeStep ==
    ASSUME TypeOK, NEW r \in Runs, RunInv(r), StepOf(r)
    PROVE  TypeOK'
<1> USE DEF Goto, store, Tools
<1>0. /\ Len(scans) \in Nat /\ DOMAIN scans = 1 .. Len(scans)
      /\ pc \in [Runs -> PCs] /\ scanId \in [Runs -> 0 .. Len(scans)]
      /\ StoreTypeOK
  BY ScansAreRows DEF TypeOK
<1>1. ASSUME NEW from, NEW to, DatabaseFails(r, from, to), to \in PCs
      PROVE  TypeOK'
  BY <1>1 DEF TypeOK, DatabaseFails, StoreTypeOK
<1>2. ASSUME NEW from, NEW to, NotifierRaises(r, from, to), to \in PCs
      PROVE  TypeOK'
  BY <1>2 DEF TypeOK, NotifierRaises, StoreTypeOK
<1>3. CASE Begin(r)
  BY <1>3 DEF Begin, TypeOK, StoreTypeOK, PCs, Working
<1>4. CASE Refuse(r)
  BY <1>4 DEF Refuse, TypeOK, StoreTypeOK, PCs, Ended
<1>5. CASE Create(r)
  <2>1. CASE DatabaseFails(r, "create", "raised")
    BY <2>1, <1>1 DEF PCs, Ended
  <2>2. CASE ~DatabaseFails(r, "create", "raised")
    <3>1. CreateScan(TargetOf[r], "recon") /\ scanId' = [scanId EXCEPT ![r] = NextScanId]
      BY <1>5, <2>2 DEF Create
    <3>2. StoreTypeOK' /\ Len(scans') = Len(scans) + 1
      BY <1>0, <3>1, CreateScanEffect, TargetOfType, ReconIsAnAgent
    <3>3. scanId' \in [Runs -> 0 .. Len(scans')]
      BY <1>0, <3>1, <3>2 DEF NextScanId
    <3>4. previous \in [Runs -> 0 .. Len(scans')]
      BY <1>0, <3>2 DEF TypeOK
    <3>5. alerts \subseteq [scan : 1 .. Len(scans'), diff : Diff]
      BY <1>0, <3>2 DEF TypeOK
    <3> QED  BY <1>5, <2>2, <3>2, <3>3, <3>4, <3>5 DEF Create, TypeOK, PCs, Working
  <2> QED  BY <2>1, <2>2
<1>6. ASSUME NEW status \in Statuses, NEW to \in PCs, scanId[r] # NoScan,
             SetStatus(scanId[r], status), pc' = [pc EXCEPT ![r] = to],
             UNCHANGED <<scanId, task, output, current, previous, diff, alerts>>
      PROVE  TypeOK'
  <2>1. scanId[r] \in 1 .. Len(scans)
    BY <1>0, <1>6 DEF NoScan
  <2>2. StoreTypeOK' /\ Len(scans') = Len(scans)
    BY <1>0, <1>6, <2>1, SetStatusEffect
  <2> QED  BY <1>6, <2>2 DEF TypeOK
<1>7. CASE Start(r)
  BY <1>1, <1>6, <1>7 DEF Start, RunInv, RowFollowsPc, PCs, Working, Ended, Statuses
<1>8. CASE LaunchTools(r)
  BY <1>8 DEF LaunchTools, TypeOK, StoreTypeOK, PCs, Working, TaskStates
<1>9. ASSUME NEW i \in Tools, FinishTool(r, i)
      PROVE  TypeOK'
  <2>1. task' \in [Runs -> [Tools -> TaskStates]]
    <3>1. PICK st \in {"done", "failed"} : task' = [task EXCEPT ![r][i] = st]
      BY <1>9 DEF FinishTool
    <3> QED  BY <3>1 DEF TypeOK, TaskStates
  <2>2. output' \in [Runs -> [Tools -> Outputs]]
    <3>1. CASE UNCHANGED output
      BY <3>1 DEF TypeOK
    <3>2. CASE \E out \in Outputs : output' = [output EXCEPT ![r][i] = out]
      BY <3>2 DEF TypeOK
    <3> QED  BY <1>9, <3>1, <3>2 DEF FinishTool
  <2> QED  BY <1>9, <2>1, <2>2 DEF FinishTool, TypeOK, StoreTypeOK
<1>10. CASE GatherReturns(r)
  BY <1>10 DEF GatherReturns, TypeOK, StoreTypeOK, PCs, Working
<1>11. CASE GatherRaises(r)
  BY <1>11 DEF GatherRaises, TypeOK, StoreTypeOK, PCs, Working
<1>12. CASE Persist(r)
  <2>1. CASE DatabaseFails(r, "persist", "fail")
    BY <2>1, <1>1 DEF PCs, Working
  <2>2. CASE ~DatabaseFails(r, "persist", "fail")
    <3>1. PersistAssets(scanId[r], output[r])
      BY <1>12, <2>2 DEF Persist
    <3>2. scanId[r] \in Nat \ {0}
      BY <1>0, <1>12 DEF Persist, DatabaseFails, RunInv, RowFollowsPc, NoScan
    <3>3. output[r] \in [Tools -> Seq(Assets)] /\ Tools \subseteq Nat
      BY OutputsType, ToolScopeType, LenProperties DEF TypeOK
    <3>4. StoreTypeOK' /\ scans' = scans
      BY <1>0, <3>1, <3>2, <3>3, PersistAssetsEffect
    <3> QED  BY <1>12, <2>2, <3>4 DEF Persist, TypeOK, PCs, Working
  <2> QED  BY <2>1, <2>2
<1>13. CASE Finalise(r)
  BY <1>1, <1>6, <1>13 DEF Finalise, RunInv, RowFollowsPc, PCs, Working, Statuses
<1>14. CASE Summarise(r)
  BY <1>1, <1>14 DEF Summarise, TypeOK, StoreTypeOK, PCs, Working
<1>15. CASE ReadCurrent(r)
  <2>1. CASE DatabaseFails(r, "read_current", "notify")
    BY <2>1, <1>1 DEF PCs, Working
  <2>2. CASE ~DatabaseFails(r, "read_current", "notify")
    <3>1. Index(scanId[r]) \subseteq Keys
      BY <1>0, IndexType
    <3>2. /\ current' = [current EXCEPT ![r] = Index(scanId[r])]
          /\ UNCHANGED <<store, scanId, task, output, previous, diff, alerts>>
          /\ pc' = [pc EXCEPT ![r] = "find_previous"]
      BY <1>15, <2>2 DEF ReadCurrent
    <3>3. current' \in [Runs -> SUBSET Keys]
      BY <3>1, <3>2 DEF TypeOK
    <3> QED  BY <3>2, <3>3 DEF TypeOK, StoreTypeOK, PCs, Working
  <2> QED  BY <2>1, <2>2
<1>16. CASE FindPrevious(r)
  <2>1. CASE DatabaseFails(r, "find_previous", "notify")
    BY <2>1, <1>1 DEF PCs, Working
  <2>2. CASE ~DatabaseFails(r, "find_previous", "notify")
    <3> DEFINE found == PreviousCompletedScan(TargetOf[r], scanId[r])
               base == [previous |-> NoScan, new |-> current[r], removed |-> {}, made |-> TRUE]
    <3>1. found \in 0 .. Len(scans)
      <4>1. scanId[r] \in Nat
        BY <1>0
      <4>2. found = NoScan \/ found \in DoneScansBefore(TargetOf[r], scanId[r])
        BY <1>0, <4>1, PreviousIsLatest
      <4> QED  BY <1>0, <4>2 DEF DoneScansBefore, NoScan
    <3>2. base \in Diff
      BY DEF Diff, NoScan, TypeOK
    <3>3. /\ previous' = [previous EXCEPT ![r] = found]
          /\ diff' = diff \/ diff' = [diff EXCEPT ![r] = base]
          /\ UNCHANGED <<store, scanId, task, output, current, alerts>>
          /\ \E to \in PCs : pc' = [pc EXCEPT ![r] = to]
      BY <1>16, <2>2 DEF FindPrevious, PCs, Working
    <3>4. previous' \in [Runs -> 0 .. Len(scans)] /\ diff' \in [Runs -> Diff]
      BY <3>1, <3>2, <3>3 DEF TypeOK
    <3> QED  BY <3>3, <3>4 DEF TypeOK, StoreTypeOK
  <2> QED  BY <2>1, <2>2
<1>17. CASE Compare(r)
  <2>1. CASE DatabaseFails(r, "compare", "notify")
    BY <2>1, <1>1 DEF PCs, Working
  <2>2. CASE ~DatabaseFails(r, "compare", "notify")
    <3> DEFINE before == Index(previous[r])
               made == [previous |-> previous[r], new |-> current[r] \ before,
                        removed |-> before \ current[r], made |-> TRUE]
    <3>1. before \subseteq Keys
      BY <1>0, IndexType
    <3>2. made \in Diff
      <4> HIDE DEF before
      <4> QED  BY <1>0, <3>1 DEF Diff, TypeOK
    <3>3. /\ diff' = [diff EXCEPT ![r] = made]
          /\ UNCHANGED <<store, scanId, task, output, current, previous, alerts>>
          /\ pc' = [pc EXCEPT ![r] = "notify"]
      BY <1>17, <2>2 DEF Compare
    <3> HIDE DEF made, before
    <3> QED  BY <3>2, <3>3 DEF TypeOK, StoreTypeOK, PCs, Working
  <2> QED  BY <2>1, <2>2
<1>18. CASE SendSummary(r)
  BY <1>2, <1>18 DEF SendSummary, TypeOK, StoreTypeOK, PCs, Working, Ended
<1>19. CASE SendChangeAlert(r)
  <2>1. CASE NotifierRaises(r, "alert", "fail")
    BY <2>1, <1>2 DEF PCs, Working
  <2>2. CASE ~NotifierRaises(r, "alert", "fail")
    <3>1. scanId[r] \in 1 .. Len(scans) /\ diff[r] \in Diff
      BY <1>0, <1>19, <2>2 DEF SendChangeAlert, RunInv, RowFollowsPc, NoScan, TypeOK
    <3>2. /\ alerts' \subseteq alerts \cup {[scan |-> scanId[r], diff |-> diff[r]]}
          /\ UNCHANGED <<store, scanId, task, output, current, previous, diff>>
          /\ pc' = [pc EXCEPT ![r] = "returned"]
      BY <1>19, <2>2 DEF SendChangeAlert
    <3>3. alerts' \subseteq [scan : 1 .. Len(scans), diff : Diff]
      BY <3>1, <3>2 DEF TypeOK
    <3> QED  BY <3>2, <3>3 DEF TypeOK, StoreTypeOK, PCs, Ended
  <2> QED  BY <2>1, <2>2
<1>20. CASE HandleViolation(r)
  BY <1>1, <1>6, <1>20 DEF HandleViolation, RunInv, RowFollowsPc, PCs, Ended, Statuses
<1>21. CASE HandleFailure(r)
  BY <1>1, <1>6, <1>21 DEF HandleFailure, RunInv, RowFollowsPc, PCs, Working, Ended, Statuses
<1>22. CASE ReportFailure(r)
  BY <1>22 DEF ReportFailure, TypeOK, StoreTypeOK, PCs, Ended
<1>23. CASE Interrupt(r)
  <2>1. StoppedTasks(r) \in [Tools -> TaskStates]
    BY DEF StoppedTasks, TypeOK, TaskStates
  <2>2. task' \in [Runs -> [Tools -> TaskStates]]
    BY <1>23, <2>1 DEF Interrupt, TypeOK
  <2> QED  BY <1>23, <2>2 DEF Interrupt, TypeOK, StoreTypeOK, PCs, Ended
<1> QED
  BY <1>3, <1>4, <1>5, <1>7, <1>8, <1>9, <1>10, <1>11, <1>12, <1>13, <1>14, <1>15,
     <1>16, <1>17, <1>18, <1>19, <1>20, <1>21, <1>22, <1>23
     DEF StepOf, Step

-----------------------------------------------------------------------------
(* What a step leaves alone *)

\* Of the other runs, everything.
LocalFrame(r) ==
    \A q \in Runs \ {r} :
        /\ pc'[q] = pc[q] /\ scanId'[q] = scanId[q]
        /\ task'[q] = task[q] /\ output'[q] = output[q]
        /\ current'[q] = current[q] /\ previous'[q] = previous[q]
        /\ diff'[q] = diff[q]

\* A step of run r changes the locals of no other run.
LEMMA LocalFrameHolds ==
    ASSUME TypeOK, NEW r \in Runs, StepOf(r)
    PROVE  LocalFrame(r)
<1> USE DEF LocalFrame, Goto, DatabaseFails, NotifierRaises
<1>0. /\ DOMAIN pc = Runs /\ DOMAIN scanId = Runs /\ DOMAIN task = Runs
      /\ DOMAIN output = Runs /\ DOMAIN current = Runs /\ DOMAIN previous = Runs /\ DOMAIN diff = Runs
  BY DEF TypeOK
<1>1. CASE Begin(r) \/ Refuse(r) \/ GatherReturns(r) \/ GatherRaises(r) \/ Summarise(r)
           \/ SendSummary(r) \/ SendChangeAlert(r) \/ ReportFailure(r)
  BY <1>0, <1>1 DEF Begin, Refuse, GatherReturns, GatherRaises, Summarise, SendSummary,
                    SendChangeAlert, ReportFailure
<1>2. CASE Create(r)
  BY <1>0, <1>2 DEF Create
<1>3. CASE Start(r) \/ Persist(r) \/ Finalise(r) \/ HandleViolation(r) \/ HandleFailure(r)
  BY <1>0, <1>3 DEF Start, Persist, Finalise, HandleViolation, HandleFailure
<1>4. CASE LaunchTools(r)
  BY <1>0, <1>4 DEF LaunchTools
<1>5. ASSUME NEW i \in Tools, FinishTool(r, i)
      PROVE  LocalFrame(r)
  <2>1. \E st : task' = [task EXCEPT ![r][i] = st]
    BY <1>5 DEF FinishTool
  <2>2. \A q \in Runs \ {r} : task'[q] = task[q]
    BY <1>0, <2>1
  <2>3. output' = output \/ \E out : output' = [output EXCEPT ![r][i] = out]
    BY <1>5 DEF FinishTool
  <2>4. \A q \in Runs \ {r} : output'[q] = output[q]
    BY <1>0, <2>3
  <2> QED  BY <1>5, <2>2, <2>4 DEF FinishTool
<1>6. CASE ReadCurrent(r)
  BY <1>0, <1>6 DEF ReadCurrent
<1>7. CASE FindPrevious(r)
  BY <1>0, <1>7 DEF FindPrevious
<1>8. CASE Compare(r)
  BY <1>0, <1>8 DEF Compare
<1>9. CASE Interrupt(r)
  BY <1>0, <1>9 DEF Interrupt
<1> QED
  BY <1>1, <1>2, <1>3, <1>4, <1>5, <1>6, <1>7, <1>8, <1>9 DEF StepOf, Step

\* Of the store, everything but the run's own row and what is filed under it.
LEMMA TouchesOwnScan ==
    ASSUME TypeOK, NEW r \in Runs, RunInv(r), StepOf(r)
    PROVE  Touches(scanId[r])
<1> USE DEF Goto, DatabaseFails, NotifierRaises, store
<1>0. Len(scans) \in Nat /\ StoreTypeOK /\ scanId[r] \in 0 .. Len(scans)
  BY ScansAreRows DEF TypeOK
<1>1. CASE UNCHANGED store
  BY <1>0, <1>1, NothingTouches
<1>2. CASE CreateScan(TargetOf[r], "recon")
  BY <1>0, <1>2, CreateTouches, TargetOfType, ReconIsAnAgent
<1>3. ASSUME NEW status \in Statuses, scanId[r] # NoScan, SetStatus(scanId[r], status),
             scans[scanId[r]].status \in Closed => status \in Closed
      PROVE  Touches(scanId[r])
  <2>1. scanId[r] \in 1 .. Len(scans)
    BY <1>0, <1>3 DEF NoScan
  <2> QED  BY <1>0, <1>3, <2>1, SetStatusTouches
<1>4. CASE Persist(r)
  <2>1. CASE UNCHANGED store
    BY <1>1, <2>1
  <2>2. CASE ~UNCHANGED store
    <3>1. PersistAssets(scanId[r], output[r])
      BY <1>4, <2>2 DEF Persist
    <3>2. scanId[r] \in Nat \ {0} /\ scans[scanId[r]].status = "running"
      BY <1>0, <1>4 DEF Persist, RunInv, RowFollowsPc, NoScan
    <3>3. output[r] \in [Tools -> Seq(Assets)] /\ Tools \subseteq Nat
      BY OutputsType, ToolScopeType, LenProperties DEF TypeOK, Tools
    <3>4. IsFiniteSet(Tools)
      BY ToolScopeType, LenProperties, FS_Interval DEF Tools
    <3> QED  BY <1>0, <3>1, <3>2, <3>3, <3>4, PersistAssetsTouches
  <2> QED  BY <2>1, <2>2
<1>5. CASE Start(r)
  BY <1>1, <1>3, <1>5 DEF Start, RunInv, RowFollowsPc, Statuses, Closed
<1>6. CASE Finalise(r)
  BY <1>1, <1>3, <1>6 DEF Finalise, RunInv, RowFollowsPc, Statuses, Closed
<1>7. CASE HandleViolation(r)
  BY <1>1, <1>3, <1>7 DEF HandleViolation, RunInv, RowFollowsPc, Statuses, Closed
<1>8. CASE HandleFailure(r)
  BY <1>1, <1>3, <1>8 DEF HandleFailure, RunInv, RowFollowsPc, Statuses, Closed
<1>9. CASE Create(r)
  BY <1>1, <1>2, <1>9 DEF Create
<1>10. CASE Begin(r) \/ Refuse(r) \/ LaunchTools(r) \/ GatherReturns(r) \/ GatherRaises(r)
            \/ Summarise(r) \/ ReadCurrent(r) \/ FindPrevious(r) \/ Compare(r)
            \/ SendSummary(r) \/ SendChangeAlert(r) \/ ReportFailure(r) \/ Interrupt(r)
            \/ \E i \in Tools : FinishTool(r, i)
  <2>1. UNCHANGED store
    BY <1>10 DEF Begin, Refuse, LaunchTools, GatherReturns, GatherRaises, Summarise,
                 ReadCurrent, FindPrevious, Compare, SendSummary, SendChangeAlert,
                 ReportFailure, Interrupt, FinishTool
  <2> QED  BY <1>1, <2>1
<1> QED
  BY <1>4, <1>5, <1>6, <1>7, <1>8, <1>9, <1>10 DEF StepOf, Step

\* A comparison of closed scans stays true.
LEMMA ComparisonKept ==
    ASSUME TypeOK, NEW id, Touches(id), NEW i \in 1 .. Len(scans), NEW d,
           scans[i].status \in Closed, IsComparison(i, d)
    PROVE  IsComparison(i, d)'
<1>1. Len(scans) \in Nat
  BY ScansAreRows DEF TypeOK
<1>2. d.previous \in 1 .. Len(scans) /\ scans[d.previous].status \in Closed
  BY <1>1 DEF IsComparison, Closed
<1>3. ASSUME NEW k \in 1 .. Len(scans), scans[k].status \in Closed
      PROVE  /\ Index(k)' = Index(k)
             /\ scans'[k].target = scans[k].target
             /\ scans'[k].status \in Closed
  <2>1. k # id \/ scans[id].status # "running"
    BY <1>3 DEF Closed
  <2> QED  BY <1>3, <2>1, IndexKept DEF Touches
<1> QED  BY <1>2, <1>3 DEF IsComparison, Closed

-----------------------------------------------------------------------------
(* The parts of the invariant *)

\* The id a run keeps is written once, when its row is.
LEMMA ScanIdStep ==
    ASSUME TypeOK, NEW r \in Runs, RunInv(r), StepOf(r)
    PROVE  \/ scanId' = scanId /\ Len(scans') = Len(scans)
           \/ /\ pc[r] = "create" /\ scanId[r] = NoScan
              /\ scanId' = [scanId EXCEPT ![r] = Len(scans) + 1]
              /\ CreateScan(TargetOf[r], "recon")
<1> USE DEF Goto, NoScan
<1>0. /\ Len(scans) \in Nat /\ DOMAIN scans = 1 .. Len(scans) /\ StoreTypeOK
      /\ scanId \in [Runs -> 0 .. Len(scans)]
  BY ScansAreRows DEF TypeOK
<1>1. CASE Create(r)
  BY <1>1 DEF Create, DatabaseFails, RunInv, RowFollowsPc, NextScanId, store
<1>2. CASE ~Create(r)
  <2>1. scanId' = scanId /\ (scans' = scans \/ \E st \in Statuses : SetStatus(scanId[r], st))
    BY <1>2 DEF StepOf, Step, Begin, Refuse, Start, LaunchTools, FinishTool, GatherReturns,
                GatherRaises, Persist, PersistAssets, Finalise, Summarise, ReadCurrent,
                FindPrevious, Compare, SendSummary, SendChangeAlert, HandleViolation,
                HandleFailure, ReportFailure, Interrupt, DatabaseFails, NotifierRaises,
                store, Statuses
  <2>2. ASSUME NEW st \in Statuses, SetStatus(scanId[r], st)
        PROVE  Len(scans') = Len(scans)
    <3>1. scanId[r] \in 1 .. Len(scans)
      BY <1>0, <2>2 DEF SetStatus
    <3> QED  BY <1>0, <2>2, <3>1, SetStatusEffect
  <2> QED  BY <2>1, <2>2
<1> QED  BY <1>1, <1>2

\* What create_scan adds for run r.
LEMMA CreateEffect ==
    ASSUME TypeOK, NEW r \in Runs, CreateScan(TargetOf[r], "recon")
    PROVE  /\ StoreTypeOK' /\ Len(scans') = Len(scans) + 1
           /\ \A i \in 1 .. Len(scans) : scans'[i] = scans[i]
           /\ scans'[Len(scans) + 1].target = TargetOf[r]
           /\ scans'[Len(scans) + 1].agent = "recon"
<1> DEFINE row == [target |-> TargetOf[r], agent |-> "recon", status |-> "pending"]
<1>1. row.target = TargetOf[r] /\ row.agent = "recon"
  OBVIOUS
<1>2. /\ StoreTypeOK' /\ Len(scans') = Len(scans) + 1
      /\ \A i \in 1 .. Len(scans) : scans'[i] = scans[i]
      /\ scans'[Len(scans) + 1] = row
  BY CreateScanEffect, TargetOfType, ReconIsAnAgent DEF TypeOK
<1> QED  BY <1>1, <1>2

\* The only row a step can add is the stepping run's own.
LEMMA OwnRowsStep ==
    ASSUME TypeOK, OwnRows, NEW r \in Runs, RunInv(r), StepOf(r)
    PROVE  OwnRows'
<1> USE DEF NoScan
<1>0. Len(scans) \in Nat /\ scanId \in [Runs -> 0 .. Len(scans)]
  BY ScansAreRows DEF TypeOK
<1>1. CASE scanId' = scanId /\ Len(scans') = Len(scans)
  <2>1. \A i \in 1 .. Len(scans) :
            scans'[i].target = scans[i].target /\ scans'[i].agent = scans[i].agent
    BY TouchesOwnScan DEF Touches
  <2> QED  BY <1>0, <1>1, <2>1 DEF OwnRows
<1>2. CASE /\ scanId' = [scanId EXCEPT ![r] = Len(scans) + 1]
           /\ CreateScan(TargetOf[r], "recon")
  <2>1. scanId'[r] = Len(scans) + 1 /\ \A q \in Runs \ {r} : scanId'[q] = scanId[q]
    BY <1>0, <1>2
  <2>2. \A q \in Runs : scanId'[q] # NoScan =>
            scans'[scanId'[q]].target = TargetOf[q] /\ scans'[scanId'[q]].agent = "recon"
    BY <1>0, <1>2, <2>1, CreateEffect DEF OwnRows
  <2>3. \A q, p \in Runs : q # p /\ scanId'[q] = scanId'[p] => scanId'[p] = NoScan
    BY <1>0, <2>1 DEF OwnRows
  <2> QED  BY <2>2, <2>3 DEF OwnRows
<1> QED  BY <1>1, <1>2, ScanIdStep

\* A row keeps its one run, and a row that is opened has the run that opened it.
LEMMA OwnRowStep ==
    ASSUME TypeOK, OwnRow, NEW r \in Runs, RunInv(r), StepOf(r)
    PROVE  OwnRow'
<1> USE DEF NoScan
<1>0. /\ Len(scans) \in Nat /\ DOMAIN scans = 1 .. Len(scans)
      /\ scanId \in [Runs -> 0 .. Len(scans)]
  BY ScansAreRows DEF TypeOK
<1>1. OwnRows'
  BY OwnRowsStep DEF OwnRow, OwnRows
<1>2. Len(scans') \in Nat /\ DOMAIN scans' = 1 .. Len(scans')
  BY TypeStep, LenProperties DEF TypeOK, StoreTypeOK
<1>3. \A i \in 1 .. Len(scans') : \E q \in Runs : scanId'[q] = i
  <2>1. CASE scanId' = scanId /\ Len(scans') = Len(scans)
    BY <1>0, <2>1 DEF OwnRow
  <2>2. CASE /\ scanId[r] = NoScan /\ scanId' = [scanId EXCEPT ![r] = Len(scans) + 1]
             /\ CreateScan(TargetOf[r], "recon")
    <3> SUFFICES ASSUME NEW i \in 1 .. Len(scans')
                 PROVE  \E q \in Runs : scanId'[q] = i
      OBVIOUS
    <3>1. scanId'[r] = Len(scans) + 1 /\ \A q \in Runs \ {r} : scanId'[q] = scanId[q]
      BY <1>0, <2>2
    <3>2. CASE i = Len(scans) + 1
      BY <3>1, <3>2
    <3>3. CASE i \in 1 .. Len(scans)
      <4>1. PICK q \in Runs : scanId[q] = i
        BY <1>0, <3>3 DEF OwnRow
      <4> QED  BY <2>2, <3>1, <3>3, <4>1
    <3>4. Len(scans') = Len(scans) + 1
      BY <2>2, CreateEffect
    <3> QED  BY <1>0, <3>2, <3>3, <3>4
  <2> QED  BY <2>1, <2>2, ScanIdStep
<1> QED  BY <1>1, <1>2, <1>3 DEF OwnRow, OwnRows

\* A new alert is the one the run is about to send.
LEMMA AlertSource ==
    ASSUME NEW r \in Runs, RunInv(r), StepOf(r)
    PROVE  \A a \in alerts' :
               \/ a \in alerts
               \/ /\ pc[r] = "alert" /\ scanId[r] # NoScan
                  /\ a.scan = scanId[r] /\ a.diff = diff[r]
  BY DEF StepOf, Step, Begin, Refuse, Create, Start, LaunchTools, FinishTool, GatherReturns,
         GatherRaises, Persist, Finalise, Summarise, ReadCurrent,
         FindPrevious, Compare, SendSummary, SendChangeAlert, HandleViolation,
         HandleFailure, ReportFailure, Interrupt, DatabaseFails, NotifierRaises,
         Goto, RunInv, RowFollowsPc

\* Whatever a step stores is filed under a scan that exists.
LEMMA ReferencesStep ==
    ASSUME TypeOK, References, NEW r \in Runs, RunInv(r), StepOf(r)
    PROVE  References'
<1> USE DEF Goto, NoScan
<1>0. /\ Len(scans) \in Nat /\ scanId \in [Runs -> 0 .. Len(scans)]
      /\ Len(scans') \in Nat /\ Len(scans) <= Len(scans')
  <2>1. StoreTypeOK'
    BY TypeStep DEF TypeOK
  <2>2. Len(scans') \in Nat
    BY <2>1, LenProperties DEF StoreTypeOK
  <2> QED  BY <2>2, ScansAreRows, TouchesOwnScan DEF TypeOK, Touches
<1>1. \A row \in assets' : row.scan \in 1 .. Len(scans')
  <2>1. \A row \in assets' : row \in assets \/ (row.scan = scanId[r] /\ scanId[r] # NoScan)
    BY TouchesOwnScan DEF Touches
  <2>2. scanId[r] # NoScan => scanId[r] \in 1 .. Len(scans')
    BY <1>0
  <2>3. \A row \in assets : row.scan \in 1 .. Len(scans')
    BY <1>0 DEF References
  <2> QED  BY <2>1, <2>2, <2>3
<1>2. \A a \in alerts' : a \in alerts \/ (a.scan = scanId[r] /\ pc[r] = "alert")
  BY AlertSource
<1>3. \A a \in alerts' : a.scan \in 1 .. Len(scans) /\ scans[a.scan].status \in Closed
  <2>1. pc[r] = "alert" => scanId[r] \in 1 .. Len(scans) /\ scans[scanId[r]].status = "done"
    BY <1>0 DEF RunInv, RowFollowsPc
  <2> QED  BY <1>2, <2>1 DEF References, TypeOK, Closed
<1> QED  BY <1>1, <1>3, TouchesOwnScan DEF References, Touches

\* An alert is exact when it is sent, and no step changes the rows it compared.
LEMMA AlertStep ==
    ASSUME TypeOK, References, AlertIsExact, NEW r \in Runs, RunInv(r), StepOf(r)
    PROVE  AlertIsExact'
<1>1. Touches(scanId[r])
  BY TouchesOwnScan
<1>2. \A a \in alerts' :
          \/ a \in alerts
          \/ /\ pc[r] = "alert" /\ scanId[r] # NoScan
             /\ a.scan = scanId[r] /\ a.diff = diff[r]
  BY AlertSource
<1>3. ASSUME NEW a \in alerts'
      PROVE  /\ IsComparison(a.scan, a.diff) /\ HasChanges(a.diff)
             /\ a.scan \in 1 .. Len(scans) /\ scans[a.scan].status \in Closed
  <2>1. CASE a \in alerts
    BY <2>1 DEF AlertIsExact, References, TypeOK
  <2>2. CASE a \notin alerts
    <3>1. /\ pc[r] = "alert" /\ scanId[r] # NoScan
          /\ a.scan = scanId[r] /\ a.diff = diff[r]
      BY <1>2, <2>2
    <3>2. ShouldAlert(diff[r])
      BY <3>1 DEF RunInv, ReadsAreCurrent
    <3>3. diff[r].made /\ diff[r].previous # NoScan /\ HasChanges(diff[r])
      BY <3>2 DEF ShouldAlert, IsBaseline
    <3>4. scans[scanId[r]].status \in Closed /\ IsComparison(scanId[r], diff[r])
      BY <3>3 DEF RunInv, ReadsAreCurrent
    <3>5. scanId[r] \in 1 .. Len(scans)
      BY <3>1, ScansAreRows DEF TypeOK, NoScan
    <3> QED  BY <3>1, <3>3, <3>4, <3>5
  <2> QED  BY <2>1, <2>2
<1>4. ASSUME NEW a \in alerts'
      PROVE  IsComparison(a.scan, a.diff)'
  BY <1>1, <1>3, ComparisonKept
<1> QED  BY <1>3, <1>4 DEF AlertIsExact, HasChanges

\* A step stores no asset whose key the scan already has.
LEMMA OneRowStep ==
    ASSUME TypeOK, OneRowPerIdentity, NEW r \in Runs, RunInv(r), StepOf(r)
    PROVE  OneRowPerIdentity'
<1>1. CASE assets' = assets
  BY <1>1 DEF OneRowPerIdentity
<1>2. CASE assets' # assets
  <2>1. Persist(r) /\ PersistAssets(scanId[r], output[r]) /\ pc[r] = "persist"
    BY <1>2 DEF StepOf, Step, Begin, Refuse, Create, CreateScan, Start, SetStatus, LaunchTools,
         FinishTool, GatherReturns, GatherRaises, Persist, Finalise, Summarise, ReadCurrent,
         FindPrevious, Compare, SendSummary, SendChangeAlert, HandleViolation,
         HandleFailure, ReportFailure, Interrupt, DatabaseFails, NotifierRaises, Goto, store
  <2>2. scanId[r] \in Nat \ {0} /\ \A row \in assets : row.scan # scanId[r]
    BY <2>1, ScansAreRows DEF TypeOK, RunInv, RowFollowsPc, StoredByPc, NoScan
  <2>3. output[r] \in [Tools -> Seq(Assets)] /\ Tools \subseteq Nat
    BY OutputsType, ToolScopeType, LenProperties DEF TypeOK, Tools
  <2>4. \A a, b \in FirstOfEachKey(output[r]) : KeyOf[a] = KeyOf[b] => a = b
    BY <2>3, FirstOfEachKeyIsUnique
  <2>5. assets' = assets \cup {[scan |-> scanId[r], asset |-> a] : a \in FirstOfEachKey(output[r])}
    BY <2>1 DEF PersistAssets, AssetRowsOf
  <2> QED  BY <2>2, <2>4, <2>5 DEF OneRowPerIdentity
<1> QED  BY <1>1, <1>2

-----------------------------------------------------------------------------
(* The run that steps and the others *)

\* What a run knows of its own row survives a step that works for another scan,
\* whichever agent takes it.
LEMMA OthersKept ==
    ASSUME TypeOK, NEW id, Touches(id), NEW q \in Runs, RunInv(q),
           scanId[q] = NoScan \/ scanId[q] # id,
           pc'[q] = pc[q], scanId'[q] = scanId[q],
           task'[q] = task[q], output'[q] = output[q],
           current'[q] = current[q], previous'[q] = previous[q], diff'[q] = diff[q]
    PROVE  RunInv(q)'
<1> USE DEF NoScan
<1>0. /\ Len(scans) \in Nat /\ scanId[q] \in 0 .. Len(scans)
      /\ pc'[q] = pc[q] /\ scanId'[q] = scanId[q]
      /\ task'[q] = task[q] /\ output'[q] = output[q]
      /\ current'[q] = current[q] /\ previous'[q] = previous[q] /\ diff'[q] = diff[q]
  BY ScansAreRows DEF TypeOK
<1>1. CASE scanId[q] = NoScan
  <2>1. diff[q].made => diff[q].previous = NoScan
    BY <1>1 DEF RunInv, ReadsAreCurrent
  <2> QED
    BY <1>0, <1>1, <2>1 DEF RunInv, RowFollowsPc, StoredByPc, ResultsByPc, RowsByPc,
       ReadsAreCurrent
<1>2. CASE scanId[q] # NoScan
  <2> DEFINE i == scanId[q]
  <2>1. i \in 1 .. Len(scans) /\ i # id
    BY <1>0, <1>2
  <2>2. scans'[i] = scans[i]
    BY <2>1 DEF Touches
  <2>3. \A row \in assets' : row.scan = i => row \in assets
    BY <2>1 DEF Touches
  <2>4. \A j : j = i => Index(j)' = Index(j)
    <3> SUFFICES ASSUME NEW j, j = i PROVE Index(j)' = Index(j)
      OBVIOUS
    <3> QED  BY <2>1, IndexKept
  <2>5. RowFollowsPc(q)'
    BY <1>0, <1>2, <2>2 DEF RunInv, RowFollowsPc
  <2>6. StoredByPc(q)'
    BY <1>0, <2>2, <2>3 DEF RunInv, StoredByPc
  <2>7. ResultsByPc(q)'
    BY <1>0, <2>2 DEF RunInv, ResultsByPc
  <2>8. pc[q] = "compare" => /\ scans'[previous[q]].target = TargetOf[q]
                             /\ scans'[previous[q]].status \in Closed
    <3>1. pc[q] = "compare" => previous[q] \in 1 .. Len(scans)
      BY <1>0 DEF RunInv, ReadsAreCurrent
    <3> QED  BY <3>1 DEF RunInv, ReadsAreCurrent, Touches
  <2>9. diff[q].made /\ diff[q].previous # NoScan => IsComparison(i, diff[q])'
    <3> SUFFICES ASSUME diff[q].made, diff[q].previous # NoScan
                 PROVE  IsComparison(i, diff[q])'
      OBVIOUS
    <3>1. scans[i].status \in Closed /\ IsComparison(i, diff[q])
      BY DEF RunInv, ReadsAreCurrent
    <3>2. ASSUME NEW d, d = diff[q] PROVE IsComparison(i, d)'
      <4> DEFINE k == scanId[q]
      <4>1. ASSUME NEW j \in 1 .. Len(scans), j = i, IsComparison(j, d) PROVE IsComparison(j, d)'
        BY <3>1, <4>1, ComparisonKept
      <4> QED  BY <1>0, <2>1, <3>1, <3>2, <4>1
    <3> QED  BY <1>0, <3>2
  <2>10. ReadsAreCurrent(q)'
    BY <1>0, <1>2, <2>2, <2>4, <2>8, <2>9 DEF RunInv, ReadsAreCurrent, ShouldAlert, IsBaseline,
       HasChanges
  <2>11. RowsByPc(q)'
    <3>1. {row \in assets' : row.scan = i} = {row \in assets : row.scan = i}
      BY <2>1 DEF Touches
    <3>2. scanId[q] # NoScan /\ (pc[q] = "finalise" \/ scans'[i].status = "done") =>
              {row.asset : row \in {x \in assets' : x.scan = i}} = FirstOfEachKey(output[q])
      BY <2>2, <3>1 DEF RunInv, RowsByPc, ListAssets
    <3> QED  BY <1>0, <3>2 DEF RowsByPc, ListAssets
  <2> QED  BY <2>5, <2>6, <2>7, <2>10, <2>11 DEF RunInv
<1> QED  BY <1>1, <1>2

\* The comparison a run holds survives every step, its own included.
LEMMA DiffKept ==
    ASSUME TypeOK, NEW id, Touches(id), NEW q \in Runs, RunInv(q),
           diff'[q] = diff[q], scanId[q] # NoScan => scanId'[q] = scanId[q]
    PROVE  diff'[q].made /\ diff'[q].previous # NoScan =>
               /\ scanId'[q] # NoScan
               /\ scans'[scanId'[q]].status \in Closed
               /\ IsComparison(scanId[q], diff[q])'
<1> SUFFICES ASSUME diff[q].made, diff[q].previous # NoScan
             PROVE  /\ scanId'[q] # NoScan
                    /\ scans'[scanId'[q]].status \in Closed
                    /\ IsComparison(scanId[q], diff[q])'
  OBVIOUS
<1>1. /\ scanId[q] # NoScan /\ scanId'[q] = scanId[q]
      /\ scanId[q] \in 1 .. Len(scans)
      /\ scans[scanId[q]].status \in Closed
      /\ IsComparison(scanId[q], diff[q])
  BY ScansAreRows DEF TypeOK, RunInv, ReadsAreCurrent, NoScan
<1>2. \A i, d : i = scanId[q] /\ d = diff[q] => IsComparison(i, d)'
  <2> SUFFICES ASSUME NEW i, NEW d, i = scanId[q], d = diff[q]
               PROVE  IsComparison(i, d)'
    OBVIOUS
  <2>1. i \in 1 .. Len(scans) /\ scans[i].status \in Closed /\ IsComparison(i, d)
    BY <1>1
  <2> QED  BY <2>1, ComparisonKept
<1>3. IsComparison(scanId[q], diff[q])'
  BY <1>1, <1>2
<1>4. scans'[scanId[q]].status \in Closed
  BY <1>1 DEF Touches
<1> QED  BY <1>1, <1>3, <1>4

\* What the run knows of its row, after a step of its own.
StatusInv(r) == RowFollowsPc(r) /\ StoredByPc(r) /\ ResultsByPc(r)

\* The status of a run's row stays what the place of the run says.
LEMMA StatusStep ==
    ASSUME TypeOK, References, NEW r \in Runs, RunInv(r), StepOf(r)
    PROVE  StatusInv(r)'
<1> USE DEF Goto, store, NoScan
<1>0. /\ Len(scans) \in Nat /\ StoreTypeOK
      /\ scanId[r] \in 0 .. Len(scans)
      /\ DOMAIN pc = Runs /\ DOMAIN scanId = Runs /\ DOMAIN task = Runs
      /\ task[r] \in [Tools -> TaskStates] /\ pc[r] \in PCs
      /\ StatusInv(r)
  BY ScansAreRows DEF TypeOK, RunInv, StatusInv
<1>1. ASSUME NEW from, NEW to, DatabaseFails(r, from, to),
             \/ from = "create" /\ to = "raised"
             \/ from = "start" /\ to = "abandoned"
             \/ from \in {"persist", "finalise", "summarise"} /\ to = "fail"
             \/ from \in {"read_current", "find_previous", "compare"} /\ to = "notify"
             \/ from \in {"violation", "fail"} /\ to = "abandoned"
      PROVE  StatusInv(r)'
  BY <1>0, <1>1 DEF DatabaseFails, StatusInv, RowFollowsPc, StoredByPc, ResultsByPc
<1>2. ASSUME NEW from \in {"notify", "alert"}, NotifierRaises(r, from, "fail")
      PROVE  StatusInv(r)'
  BY <1>0, <1>2 DEF NotifierRaises, StatusInv, RowFollowsPc, StoredByPc, ResultsByPc
<1>3. ASSUME UNCHANGED <<store, scanId, task>>, pc'[r] # pc[r],
             \/ pc[r] = "idle" /\ pc'[r] \in {"create", "refuse"}
             \/ pc[r] = "refuse" /\ pc'[r] = "raised"
             \/ pc[r] = "waiting" /\ pc'[r] = "violation"
             \/ /\ pc[r] = "waiting" /\ pc'[r] = "persist"
                /\ \A i \in Tools : task[r][i] \in {"done", "failed"}
             \/ /\ pc[r] \in {"summarise", "read_current", "find_previous", "compare",
                              "notify", "alert"}
                /\ pc'[r] \in {"read_current", "find_previous", "compare", "notify",
                               "alert", "returned"}
             \/ pc[r] = "report_failure" /\ pc'[r] = "raised"
      PROVE  StatusInv(r)'
  BY <1>0, <1>3 DEF StatusInv, RowFollowsPc, StoredByPc, ResultsByPc
<1>4. ASSUME NEW status \in Statuses, SetStatus(scanId[r], status),
             UNCHANGED <<scanId, task>>,
             \/ pc[r] = "start" /\ pc'[r] = "gather" /\ status = "running"
             \/ pc[r] = "finalise" /\ pc'[r] = "summarise" /\ status = "done"
             \/ pc[r] = "violation" /\ pc'[r] = "raised" /\ status = "scope_violation"
             \/ pc[r] = "fail" /\ pc'[r] = "report_failure" /\ status = "failed"
      PROVE  StatusInv(r)'
  <2>1. scanId[r] \in 1 .. Len(scans)
    BY <1>0, <1>4 DEF StatusInv, RowFollowsPc
  <2>2. scans'[scanId[r]].status = status /\ assets' = assets
    BY <1>0, <1>4, <2>1, SetStatusEffect DEF SetStatus
  <2> QED
    BY <1>0, <1>4, <2>1, <2>2 DEF StatusInv, RowFollowsPc, StoredByPc, ResultsByPc
<1>5. CASE Begin(r)
  BY <1>0, <1>3, <1>5 DEF Begin
<1>6. CASE Refuse(r)
  BY <1>0, <1>3, <1>6 DEF Refuse
<1>7. CASE Create(r)
  <2>1. CASE DatabaseFails(r, "create", "raised")
    BY <2>1, <1>1
  <2>2. CASE ~DatabaseFails(r, "create", "raised")
    <3>1. /\ CreateScan(TargetOf[r], "recon") /\ scanId'[r] = Len(scans) + 1
          /\ pc'[r] = "start" /\ UNCHANGED task
      BY <1>0, <1>7, <2>2 DEF Create, NextScanId
    <3>2. scans'[Len(scans) + 1].status = "pending" /\ assets' = assets
      BY <1>0, <3>1, CreateScanEffect, TargetOfType, ReconIsAnAgent DEF CreateScan
    <3>3. \A row \in assets : row.scan # Len(scans) + 1
      BY <1>0 DEF References
    <3> QED
      BY <1>0, <3>1, <3>2, <3>3 DEF StatusInv, RowFollowsPc, StoredByPc, ResultsByPc
  <2> QED  BY <2>1, <2>2
<1>8. CASE Start(r)
  BY <1>0, <1>1, <1>4, <1>8 DEF Start, Statuses
<1>9. CASE LaunchTools(r)
  BY <1>0, <1>9 DEF LaunchTools, StatusInv, RowFollowsPc, StoredByPc, ResultsByPc
<1>10. ASSUME NEW i \in Tools, FinishTool(r, i)
       PROVE  StatusInv(r)'
  <2>1. \A j \in Tools : task[r][j] \in {"done", "failed"} => task'[r][j] \in {"done", "failed"}
    BY <1>0, <1>10 DEF FinishTool
  <2> QED
    BY <1>0, <1>10, <2>1 DEF FinishTool, StatusInv, RowFollowsPc, StoredByPc, ResultsByPc
<1>11. CASE GatherReturns(r)
  BY <1>0, <1>3, <1>11 DEF GatherReturns
<1>12. CASE GatherRaises(r)
  BY <1>0, <1>3, <1>12 DEF GatherRaises
<1>13. CASE Persist(r)
  <2>1. CASE DatabaseFails(r, "persist", "fail")
    BY <2>1, <1>1
  <2>2. CASE ~DatabaseFails(r, "persist", "fail")
    BY <1>0, <1>13, <2>2 DEF Persist, PersistAssets, StatusInv, RowFollowsPc, StoredByPc,
                            ResultsByPc
  <2> QED  BY <2>1, <2>2
<1>14. CASE Finalise(r)
  BY <1>0, <1>1, <1>4, <1>14 DEF Finalise, Statuses
<1>15. CASE Summarise(r)
  BY <1>0, <1>1, <1>3, <1>15 DEF Summarise
<1>16. CASE ReadCurrent(r)
  BY <1>0, <1>1, <1>3, <1>16 DEF ReadCurrent
<1>17. CASE FindPrevious(r)
  BY <1>0, <1>1, <1>3, <1>17 DEF FindPrevious
<1>18. CASE Compare(r)
  BY <1>0, <1>1, <1>3, <1>18 DEF Compare
<1>19. CASE SendSummary(r)
  BY <1>0, <1>2, <1>3, <1>19 DEF SendSummary
<1>20. CASE SendChangeAlert(r)
  BY <1>0, <1>2, <1>3, <1>20 DEF SendChangeAlert
<1>21. CASE HandleViolation(r)
  BY <1>0, <1>1, <1>4, <1>21 DEF HandleViolation, Statuses
<1>22. CASE HandleFailure(r)
  BY <1>0, <1>1, <1>4, <1>22 DEF HandleFailure, Statuses
<1>23. CASE ReportFailure(r)
  BY <1>0, <1>3, <1>23 DEF ReportFailure
<1>24. CASE Interrupt(r)
  <2>1. \A i \in Tools : task[r][i] \in {"done", "failed"} => task'[r][i] \in {"done", "failed"}
    BY <1>0, <1>24 DEF Interrupt, StoppedTasks
  <2> QED
    BY <1>0, <1>24, <2>1 DEF Interrupt, StatusInv, RowFollowsPc, StoredByPc, ResultsByPc
<1> QED
  BY <1>5, <1>6, <1>7, <1>8, <1>9, <1>10, <1>11, <1>12, <1>13, <1>14, <1>15,
     <1>16, <1>17, <1>18, <1>19, <1>20, <1>21, <1>22, <1>23, <1>24
     DEF StepOf, Step

\* What is stored under its row, after a step of its own: no tool is executing
\* any more when the results are persisted, so that none can change them after.
LEMMA RowsStep ==
    ASSUME TypeOK, NEW r \in Runs, RunInv(r), StepOf(r)
    PROVE  RowsByPc(r)'
<1> USE DEF Goto, store, NoScan
<1> DEFINE Stored == scanId[r] # NoScan /\ (pc[r] = "finalise" \/ scans[scanId[r]].status = "done")
<1>0. /\ Len(scans) \in Nat /\ StoreTypeOK
      /\ scanId[r] \in 0 .. Len(scans)
      /\ DOMAIN pc = Runs /\ DOMAIN scanId = Runs /\ DOMAIN output = Runs
      /\ RowsByPc(r)
  BY ScansAreRows DEF TypeOK, RunInv
<1>1. ASSUME output'[r] = output[r], assets' = assets, Stored' => Stored,
             Stored' => scanId'[r] = scanId[r]
      PROVE  RowsByPc(r)'
  BY <1>0, <1>1 DEF RowsByPc, ListAssets
<1>2. ASSUME UNCHANGED <<store, scanId, output>>, pc'[r] # "finalise"
      PROVE  RowsByPc(r)'
  BY <1>1, <1>2
<1>3. ASSUME NEW status \in Statuses, SetStatus(scanId[r], status),
             UNCHANGED <<scanId, output>>, pc'[r] # "finalise",
             status = "done" => pc[r] = "finalise" /\ scanId[r] # NoScan
      PROVE  RowsByPc(r)'
  <2>1. CASE scanId[r] = NoScan
    BY <1>3, <2>1 DEF RowsByPc
  <2>2. CASE scanId[r] # NoScan
    <3>1. scanId[r] \in 1 .. Len(scans)
      BY <1>0, <2>2
    <3>2. scans'[scanId[r]].status = status /\ assets' = assets
      BY <1>0, <1>3, <3>1, SetStatusEffect DEF SetStatus
    <3> QED  BY <1>1, <1>3, <3>2
  <2> QED  BY <2>1, <2>2
<1>4. CASE Create(r)
  <2>1. CASE DatabaseFails(r, "create", "raised")
    BY <1>0, <1>2, <2>1 DEF DatabaseFails
  <2>2. CASE ~DatabaseFails(r, "create", "raised")
    <3>1. /\ CreateScan(TargetOf[r], "recon") /\ scanId'[r] = Len(scans) + 1
          /\ pc'[r] = "start"
      BY <1>0, <1>4, <2>2 DEF Create, NextScanId
    <3>2. scans'[Len(scans) + 1].status = "pending"
      BY <1>0, <3>1, CreateScanEffect, TargetOfType, ReconIsAnAgent DEF CreateScan
    <3> QED  BY <3>1, <3>2 DEF RowsByPc
  <2> QED  BY <2>1, <2>2
<1>5. CASE Start(r)
  BY <1>0, <1>2, <1>3, <1>5 DEF Start, DatabaseFails, Statuses
<1>6. CASE Finalise(r)
  BY <1>0, <1>2, <1>3, <1>6 DEF Finalise, DatabaseFails, Statuses, RunInv, RowFollowsPc
<1>7. CASE HandleViolation(r)
  BY <1>0, <1>2, <1>3, <1>7 DEF HandleViolation, DatabaseFails, Statuses
<1>8. CASE HandleFailure(r)
  BY <1>0, <1>2, <1>3, <1>8 DEF HandleFailure, DatabaseFails, Statuses
<1>9. CASE Persist(r)
  <2>1. CASE DatabaseFails(r, "persist", "fail")
    BY <1>0, <1>2, <2>1 DEF DatabaseFails
  <2>2. CASE ~DatabaseFails(r, "persist", "fail")
    <3> DEFINE i == scanId[r]
               first == FirstOfEachKey(output[r])
    <3>1. /\ PersistAssets(i, output[r]) /\ UNCHANGED <<scanId, output>>
          /\ pc[r] = "persist" /\ i # NoScan
      BY <1>9, <2>2 DEF Persist, RunInv, RowFollowsPc
    <3>2. \A row \in assets : row.scan # i
      BY <3>1 DEF RunInv, StoredByPc
    <3>3. assets' = assets \cup {[scan |-> i, asset |-> a] : a \in first}
      BY <3>1 DEF PersistAssets, AssetRowsOf
    <3>4. {row.asset : row \in {x \in assets' : x.scan = i}} = first
      <4> HIDE DEF i, first
      <4>1. {x \in assets' : x.scan = i} = {[scan |-> i, asset |-> a] : a \in first}
        BY <3>2, <3>3
      <4> DEFINE rows == {x \in assets' : x.scan = i}
      <4>2. \A row \in rows : row.asset \in first
        BY <4>1
      <4>3. ASSUME NEW a \in first PROVE \E row \in rows : row.asset = a
        <5>1. [scan |-> i, asset |-> a] \in rows
          BY <4>1
        <5> QED  BY <5>1
      <4> HIDE DEF rows
      <4>4. {row.asset : row \in rows} = first
        BY <4>2, <4>3
      <4> QED  BY <4>4 DEF rows
    <3> QED  BY <3>1, <3>4 DEF RowsByPc, ListAssets
  <2> QED  BY <2>1, <2>2
<1>10. ASSUME NEW i \in Tools, FinishTool(r, i)
       PROVE  RowsByPc(r)'
  <2>1. CASE Stored
    BY <1>10, <2>1 DEF FinishTool, RunInv, ResultsByPc
  <2>2. CASE ~Stored
    BY <1>10, <2>2 DEF FinishTool, RowsByPc
  <2> QED  BY <2>1, <2>2
<1>11. CASE Begin(r) \/ Refuse(r) \/ LaunchTools(r) \/ GatherReturns(r) \/ GatherRaises(r)
            \/ Summarise(r) \/ ReadCurrent(r) \/ FindPrevious(r) \/ Compare(r)
            \/ SendSummary(r) \/ SendChangeAlert(r) \/ ReportFailure(r) \/ Interrupt(r)
  <2>1. UNCHANGED <<store, scanId, output>> /\ pc'[r] # "finalise"
    BY <1>0, <1>11 DEF Begin, Refuse, LaunchTools, GatherReturns, GatherRaises, Summarise,
         ReadCurrent, FindPrevious, Compare, SendSummary, SendChangeAlert, ReportFailure,
         Interrupt, DatabaseFails, NotifierRaises
  <2> QED  BY <1>2, <2>1
<1> QED
  BY <1>4, <1>5, <1>6, <1>7, <1>8, <1>9, <1>10, <1>11 DEF StepOf, Step

\* What detect has read so far, after a step of the run.
LEMMA ReadsStep ==
    ASSUME TypeOK, OwnRows, NEW r \in Runs, RunInv(r), StepOf(r)
    PROVE  ReadsAreCurrent(r)'
<1> USE DEF Goto, NoScan
<1>0. /\ Len(scans) \in Nat /\ scanId[r] \in 0 .. Len(scans) /\ DOMAIN scans = 1 .. Len(scans)
      /\ DOMAIN pc = Runs /\ DOMAIN scanId = Runs /\ DOMAIN current = Runs
      /\ DOMAIN previous = Runs /\ DOMAIN diff = Runs
      /\ Touches(scanId[r])
  BY ScansAreRows, TouchesOwnScan DEF TypeOK
<1>1. CASE \E i \in Tools : FinishTool(r, i)
  BY <1>1 DEF FinishTool, store, RunInv, ReadsAreCurrent, Index, ListAssets, ShouldAlert,
              IsComparison, IsBaseline, HasChanges
<1>2. ASSUME diff'[r] = diff[r], scanId[r] # NoScan => scanId'[r] = scanId[r],
             pc'[r] \notin {"find_previous", "compare"},
             pc'[r] = "alert" => ShouldAlert(diff[r])
      PROVE  ReadsAreCurrent(r)'
  <2>1. diff'[r].made /\ diff'[r].previous # NoScan =>
            /\ scanId'[r] # NoScan
            /\ scans'[scanId'[r]].status \in Closed
            /\ IsComparison(scanId[r], diff[r])'
    BY <1>0, <1>2, DiffKept
  <2> QED
    BY <1>2, <2>1 DEF ReadsAreCurrent, ShouldAlert, IsBaseline, HasChanges
<1>3. CASE ReadCurrent(r) /\ ~DatabaseFails(r, "read_current", "notify")
  <2>1. /\ current'[r] = Index(scanId[r]) /\ diff' = diff /\ scanId' = scanId
        /\ UNCHANGED store /\ pc'[r] = "find_previous"
    BY <1>0, <1>3 DEF ReadCurrent
  <2>2. diff'[r].made /\ diff'[r].previous # NoScan =>
            /\ scanId'[r] # NoScan
            /\ scans'[scanId'[r]].status \in Closed
            /\ IsComparison(scanId[r], diff[r])'
    BY <1>0, <2>1, DiffKept
  <2>3. current'[r] = Index(scanId[r])'
    BY <2>1 DEF Index, ListAssets, store
  <2> QED  BY <2>1, <2>2, <2>3 DEF ReadsAreCurrent
<1>4. CASE FindPrevious(r) /\ ~DatabaseFails(r, "find_previous", "notify")
  <2> DEFINE found == PreviousCompletedScan(TargetOf[r], scanId[r])
  <2>1. /\ scanId' = scanId /\ current' = current /\ UNCHANGED store
        /\ pc[r] = "find_previous" /\ previous'[r] = found
    BY <1>0, <1>4 DEF FindPrevious
  <2>2. CASE found = NoScan
    <3>1. pc'[r] = "notify" /\ diff'[r].previous = NoScan
      BY <1>0, <1>4, <2>2 DEF FindPrevious
    <3> QED  BY <3>1 DEF ReadsAreCurrent
  <2>3. CASE found # NoScan
    <3>1. pc'[r] = "compare" /\ diff' = diff
      BY <1>0, <1>4, <2>3 DEF FindPrevious
    <3>2. found \in DoneScansBefore(TargetOf[r], scanId[r])
      BY <1>0, <2>3, PreviousIsLatest DEF TypeOK
    <3>3. /\ found \in 1 .. (scanId[r] - 1)
          /\ scans[found].target = TargetOf[r] /\ scans[found].status \in Closed
      BY <1>0, <3>2 DEF DoneScansBefore, Closed
    <3>4. current'[r] = Index(scanId[r])'
      BY <2>1 DEF RunInv, ReadsAreCurrent, Index, ListAssets, store
    <3>5. diff'[r].made /\ diff'[r].previous # NoScan =>
              /\ scanId'[r] # NoScan
              /\ scans'[scanId'[r]].status \in Closed
              /\ IsComparison(scanId[r], diff[r])'
      BY <1>0, <2>1, <3>1, DiffKept
    <3> HIDE DEF found
    <3> QED  BY <2>1, <3>1, <3>3, <3>4, <3>5 DEF ReadsAreCurrent, store
  <2> QED  BY <2>2, <2>3
<1>5. CASE Compare(r) /\ ~DatabaseFails(r, "compare", "notify")
  <2>1. /\ UNCHANGED <<store, scanId>> /\ pc[r] = "compare" /\ pc'[r] = "notify"
        /\ diff'[r].previous = previous[r]
        /\ diff'[r].new = current[r] \ Index(previous[r])
        /\ diff'[r].removed = Index(previous[r]) \ current[r]
    BY <1>0, <1>5 DEF Compare
  <2>2. /\ current[r] = Index(scanId[r])
        /\ previous[r] \in 1 .. (scanId[r] - 1)
        /\ scans[previous[r]].target = TargetOf[r]
        /\ scans[previous[r]].status \in Closed
        /\ scanId[r] # NoScan /\ scans[scanId[r]].status = "done"
    BY <2>1 DEF RunInv, ReadsAreCurrent, RowFollowsPc
  <2>3. scans[scanId[r]].target = TargetOf[r]
    BY <2>2 DEF OwnRows
  <2>4. IsComparison(scanId[r], diff[r])'
    BY <2>1, <2>2, <2>3 DEF IsComparison, Closed, Index, ListAssets, store
  <2> QED  BY <2>1, <2>2, <2>4 DEF ReadsAreCurrent, Closed, store
<1>6. CASE ReadCurrent(r) \/ FindPrevious(r) \/ Compare(r)
  <2>1. CASE DatabaseFails(r, "read_current", "notify") \/ DatabaseFails(r, "find_previous", "notify")
             \/ DatabaseFails(r, "compare", "notify")
    BY <1>0, <1>2, <2>1 DEF DatabaseFails
  <2> QED  BY <1>3, <1>4, <1>5, <1>6, <2>1
<1>7. CASE Begin(r) \/ Refuse(r) \/ Create(r) \/ Start(r) \/ LaunchTools(r)
           \/ GatherReturns(r) \/ GatherRaises(r) \/ Persist(r) \/ Finalise(r)
           \/ Summarise(r) \/ SendSummary(r) \/ SendChangeAlert(r)
           \/ HandleViolation(r) \/ HandleFailure(r) \/ ReportFailure(r) \/ Interrupt(r)
  <2>1. diff'[r] = diff[r] /\ pc'[r] \notin {"find_previous", "compare"}
    BY <1>0, <1>7 DEF Begin, Refuse, Create, Start, LaunchTools, GatherReturns, GatherRaises,
         Persist, Finalise, Summarise, SendSummary, SendChangeAlert, HandleViolation,
         HandleFailure, ReportFailure, Interrupt, DatabaseFails, NotifierRaises
  <2>2. pc'[r] = "alert" => ShouldAlert(diff[r])
    BY <1>0, <1>7 DEF Begin, Refuse, Create, Start, LaunchTools, GatherReturns, GatherRaises,
         Persist, Finalise, Summarise, SendSummary, SendChangeAlert, HandleViolation,
         HandleFailure, ReportFailure, Interrupt, DatabaseFails, NotifierRaises
  <2>3. scanId[r] # NoScan => scanId'[r] = scanId[r]
    BY <1>0, <1>7 DEF Begin, Refuse, Create, Start, LaunchTools, GatherReturns, GatherRaises,
         Persist, Finalise, Summarise, SendSummary, SendChangeAlert, HandleViolation,
         HandleFailure, ReportFailure, Interrupt, DatabaseFails, NotifierRaises,
         RunInv, RowFollowsPc
  <2> QED  BY <1>2, <2>1, <2>2, <2>3
<1> QED
  BY <1>1, <1>6, <1>7 DEF StepOf, Step

-----------------------------------------------------------------------------
(* Tables that are shared *)

\* A run that returned stays there, and one that began has begun for good.
LEMMA PcStep ==
    ASSUME TypeOK, NEW r \in Runs, StepOf(r)
    PROVE  /\ pc[r] = "returned" => pc'[r] = "returned"
           /\ pc[r] # "idle" => pc'[r] # "idle"
<1>1. pc'[r] = pc[r] \/ (pc[r] \notin Ended /\ pc'[r] # "idle")
  BY DEF TypeOK, StepOf, Step, Goto, Begin, Refuse, Create, Start, LaunchTools, GatherReturns,
         GatherRaises, Persist, Finalise, Summarise, ReadCurrent, FindPrevious, Compare,
         SendSummary, SendChangeAlert, HandleViolation, HandleFailure, ReportFailure, Interrupt,
         FinishTool, DatabaseFails, NotifierRaises, Working, Ended
<1> QED  BY <1>1 DEF Ended

\* The findings are the attack agent's.
LEMMA WritesNoFindings ==
    ASSUME NEW r \in Runs, StepOf(r)
    PROVE  findings' = findings
BY DEF StepOf, Step, Begin, Refuse, Create, Start, LaunchTools, GatherReturns, GatherRaises,
       Persist, Finalise, Summarise, ReadCurrent, FindPrevious, Compare, SendSummary,
       SendChangeAlert, HandleViolation, HandleFailure, ReportFailure, Interrupt, FinishTool,
       DatabaseFails, NotifierRaises, store, CreateScan, SetStatus, PersistAssets

\* A step of a recon run, whoever else writes to the tables.
LEMMA SharedStep ==
    ASSUME SharedInv, NEW r \in Runs, StepOf(r)
    PROVE  SharedInv' /\ Touches(scanId[r])
<1>1. TypeOK /\ OwnRows /\ AlertIsExact /\ References /\ RunInv(r)
  BY DEF SharedInv
<1>2. Touches(scanId[r]) /\ LocalFrame(r)
  BY <1>1, TouchesOwnScan, LocalFrameHolds
<1>3. TypeOK' /\ OwnRows' /\ AlertIsExact' /\ References'
  BY <1>1, TypeStep, OwnRowsStep, AlertStep, ReferencesStep
<1>4. RunInv(r)'
  BY <1>1, StatusStep, RowsStep, ReadsStep DEF RunInv, StatusInv
<1>5. ASSUME NEW q \in Runs \ {r} PROVE RunInv(q)'
  <2>1. RunInv(q) /\ (scanId[q] = NoScan \/ scanId[q] # scanId[r])
    BY <1>1 DEF SharedInv, OwnRows
  <2> QED  BY <1>1, <1>2, <2>1, OthersKept DEF LocalFrame
<1> QED  BY <1>2, <1>3, <1>4, <1>5 DEF SharedInv

\* A step of another agent, for a scan of its own.
LEMMA SharedKept ==
    ASSUME SharedInv, NEW id \in 0 .. Len(scans), Touches(id), UNCHANGED agent,
           \A q \in Runs : scanId[q] = NoScan \/ scanId[q] # id
    PROVE  SharedInv'
<1> USE DEF NoScan
<1>0. /\ TypeOK /\ OwnRows /\ AlertIsExact /\ References
      /\ Len(scans) \in Nat /\ Len(scans') \in Nat /\ Len(scans) <= Len(scans')
      /\ UNCHANGED <<pc, scanId, task, output, current, previous, diff, alerts>>
  BY ScansAreRows DEF SharedInv, TypeOK, Touches, agent
<1>1. TypeOK'
  <2>1. scanId \in [Runs -> 0 .. Len(scans')] /\ previous \in [Runs -> 0 .. Len(scans')]
    BY <1>0 DEF TypeOK
  <2>2. alerts \subseteq [scan : 1 .. Len(scans'), diff : Diff]
    BY <1>0 DEF TypeOK
  <2> QED  BY <1>0, <2>1, <2>2 DEF TypeOK, Touches
<1>2. OwnRows'
  <2>1. \A q \in Runs : scanId[q] # NoScan => scanId[q] \in 1 .. Len(scans)
    BY <1>0 DEF TypeOK
  <2> QED  BY <1>0, <2>1 DEF OwnRows, Touches
<1>3. \A a \in alerts : /\ a.scan \in 1 .. Len(scans) /\ scans[a.scan].status \in Closed
                        /\ IsComparison(a.scan, a.diff) /\ HasChanges(a.diff)
  BY <1>0 DEF AlertIsExact, References, TypeOK
<1>4. AlertIsExact'
  <2>1. ASSUME NEW a \in alerts PROVE IsComparison(a.scan, a.diff)'
    BY <1>0, <1>3, ComparisonKept
  <2> QED  BY <1>0, <1>3, <2>1 DEF AlertIsExact, HasChanges
<1>5. References'
  <2>1. \A row \in assets' : row.scan \in 1 .. Len(scans')
    BY <1>0 DEF References, Touches
  <2> QED  BY <1>0, <1>3, <2>1 DEF References, Touches
<1>6. \A q \in Runs : RunInv(q)'
  BY <1>0, OthersKept DEF SharedInv
<1> QED  BY <1>1, <1>2, <1>4, <1>5, <1>6 DEF SharedInv

-----------------------------------------------------------------------------
(* The invariant *)

\* Nothing has begun, so the inductive invariant holds at first.
LEMMA InitIInv == Init => IInv
<1> SUFFICES ASSUME Init PROVE IInv
  OBVIOUS
<1> USE DEF NoScan
<1>1. TypeOK
  BY InitTypeOK
<1>2. Len(scans) = 0 /\ DOMAIN scans = {} /\ assets = {} /\ alerts = {}
  BY DEF Init, StoreInit
<1>3. \A r \in Runs : pc[r] = "idle" /\ scanId[r] = NoScan /\ diff[r] = NoDiff
  BY DEF Init
<1>4. OwnRow /\ OneRowPerIdentity /\ AlertIsExact /\ References
  BY <1>2, <1>3 DEF OwnRow, OneRowPerIdentity, AlertIsExact, References
<1>5. \A r \in Runs : RunInv(r)
  BY <1>3 DEF RunInv, RowFollowsPc, StoredByPc, ResultsByPc, RowsByPc, ReadsAreCurrent, NoDiff
<1> QED  BY <1>1, <1>4, <1>5 DEF IInv

\* What is relied on beside other agents holds before any of them starts.
LEMMA InitShared == Init => SharedInv
BY InitIInv DEF IInv, SharedInv, OwnRow, OwnRows

\* Every step of every run keeps the inductive invariant.
LEMMA StepIInv == IInv /\ [Next]_vars => IInv'
<1> SUFFICES ASSUME IInv, [Next]_vars PROVE IInv'
  OBVIOUS
<1>1. CASE Next
  <2>1. PICK r \in Runs : StepOf(r)
    BY <1>1 DEF Next, StepOf
  <2>2. SharedInv /\ RunInv(r)
    BY DEF IInv, SharedInv, OwnRow, OwnRows
  <2>3. SharedInv'
    BY <2>1, <2>2, SharedStep
  <2>4. OwnRow'
    BY <2>1, <2>2, OwnRowStep DEF IInv
  <2>5. OneRowPerIdentity'
    BY <2>1, <2>2, OneRowStep DEF IInv
  <2> QED  BY <2>3, <2>4, <2>5 DEF IInv, SharedInv
<1>2. CASE UNCHANGED vars
  <2>1. UNCHANGED <<scans, assets, findings, pc, scanId, task, output, current, previous, diff,
                    alerts>>
    BY <1>2 DEF vars, store, agent
  <2>2. TypeOK' /\ OwnRow' /\ OneRowPerIdentity' /\ References'
    BY <2>1 DEF IInv, TypeOK, StoreTypeOK, OwnRow, OneRowPerIdentity, References
  <2>3. AlertIsExact'
    BY <2>1 DEF IInv, AlertIsExact, IsComparison, HasChanges, Index, ListAssets
  <2>4. \A r \in Runs : RunInv(r)'
    BY <2>1 DEF IInv, RunInv, RowFollowsPc, StoredByPc, ResultsByPc, RowsByPc,
                ReadsAreCurrent, ShouldAlert, IsBaseline, HasChanges, IsComparison, Index, ListAssets
  <2> QED  BY <2>2, <2>3, <2>4 DEF IInv
<1> QED  BY <1>1, <1>2

\* The strengthening that carries every invariant below.
THEOREM Invariance == Spec => []IInv
BY InitIInv, StepIInv, PTL DEF Spec

\* Every variable keeps its type and every scan id is the id of a row that
\* exists: no handler of run() writes through an id it was not given.
THEOREM TypeCorrectness == Spec => []TypeOK
<1>1. IInv => TypeOK
  BY DEF IInv
<1> QED  BY <1>1, Invariance, PTL

\* However many runs of create_scan interleave, each writes to a row of its own.
THEOREM RowsAreOwned == Spec => []OwnRow
<1>1. IInv => OwnRow
  BY DEF IInv
<1> QED  BY <1>1, Invariance, PTL

\* persist_assets stores each identity of a scan once, for every list the
\* tools can return.
THEOREM NoDuplicateAssets == Spec => []OneRowPerIdentity
<1>1. IInv => OneRowPerIdentity
  BY DEF IInv
<1> QED  BY <1>1, Invariance, PTL

\* The three reads of detect add up to a comparison that holds when the alert
\* is sent and ever after, with any number of scans going on beside it.
THEOREM AlertsAreExact == Spec => []AlertIsExact
<1>1. IInv => AlertIsExact
  BY DEF IInv
<1> QED  BY <1>1, Invariance, PTL

\* No run reaches mark_done while a tool of it executes or has refused, and a
\* run that marks a scope violation has stored nothing.
THEOREM DoneScansAreComplete == Spec => []DoneMeansEveryToolRan
<1>1. IInv => DoneMeansEveryToolRan
  BY DEF IInv, RunInv, ResultsByPc, StoredByPc, DoneMeansEveryToolRan, ListAssets
<1> QED  BY <1>1, Invariance, PTL

\* A done scan holds what its tools returned, all of it and nothing else: of every
\* key the first asset, whatever came from other runs and from late tools.
THEOREM DoneScansHoldTheResults ==
    Spec => [](\A r \in Runs : scanId[r] # NoScan /\ scans[scanId[r]].status = "done" =>
                   ListAssets(scanId[r]) = FirstOfEachKey(output[r]))
<1>1. IInv => \A r \in Runs : scanId[r] # NoScan /\ scans[scanId[r]].status = "done" =>
                   ListAssets(scanId[r]) = FirstOfEachKey(output[r])
  BY DEF IInv, RunInv, RowsByPc
<1> QED  BY <1>1, Invariance, PTL

\* The status the operator sees agrees with how run() ended.
THEOREM OutcomeIsRecorded == Spec => []RowMatchesOutcome
<1>1. IInv => RowMatchesOutcome
  BY DEF IInv, RunInv, RowFollowsPc, RowMatchesOutcome
<1> QED  BY <1>1, Invariance, PTL

\* No step of any run changes the assets of a scan that has left running.
THEOREM HistoryIsFrozen == Spec => ClosedScansAreFrozen
<1>1. IInv /\ [Next]_vars =>
          [\A i \in DOMAIN scans :
               scans[i].status \notin {"pending", "running"} => ListAssets(i)' = ListAssets(i)]_vars
  <2> SUFFICES ASSUME IInv, Next, NEW i \in DOMAIN scans,
                      scans[i].status \notin {"pending", "running"}
               PROVE  ListAssets(i)' = ListAssets(i)
    OBVIOUS
  <2>1. PICK r \in Runs : StepOf(r)
    BY DEF Next, StepOf
  <2>2. Touches(scanId[r])
    BY <2>1, TouchesOwnScan DEF IInv
  <2>3. \A row : row.scan = i => (row \in assets' <=> row \in assets)
    BY <2>2 DEF Touches
  <2> QED  BY <2>3 DEF ListAssets
<1> QED  BY <1>1, Invariance, PTL DEF Spec, ClosedScansAreFrozen

-----------------------------------------------------------------------------
(* The refinement *)

\* A step of a run opens, records in, moves along or leaves a scan of the history.
LEMMA StepRefines ==
    ASSUME TypeOK, NEW r \in Runs, RunInv(r), StepOf(r)
    PROVE  [History!Next]_<<scans, assets>>
<1> USE DEF Goto, store, NoScan
<1>0. scanId[r] # NoScan => scanId[r] \in DOMAIN scans
  BY ScansAreRows DEF TypeOK
<1>1. ASSUME NEW status, SetStatus(scanId[r], status), scanId[r] \in DOMAIN scans,
             \/ scans[scanId[r]].status = "pending" /\ status = "running"
             \/ scans[scanId[r]].status = "running" /\ status \in {"done", "failed", "scope_violation"}
             \/ scans[scanId[r]].status = "done" /\ status = "failed"
      PROVE  History!Next
  <2>1. History!Move(scanId[r], scans[scanId[r]].status, status)
    BY <1>1 DEF SetStatus, History!Move
  <2>2. History!Begin(scanId[r]) \/ History!Finish(scanId[r]) \/ History!Revoke(scanId[r])
    BY <1>1, <2>1 DEF History!Begin, History!Finish, History!Revoke, History!Final
  <2> QED  BY <1>1, <2>2 DEF History!Next
<1>2. CASE Create(r)
  <2>1. CASE UNCHANGED store
    BY <2>1
  <2>2. CASE ~UNCHANGED store
    <3>1. CreateScan(TargetOf[r], "recon")
      BY <1>2, <2>2 DEF Create, DatabaseFails
    <3>2. History!Create(TargetOf[r], "recon")
      BY <3>1 DEF CreateScan, History!Create
    <3> QED  BY <3>2, TargetOfType, ReconIsAnAgent DEF History!Next
  <2> QED  BY <2>1, <2>2
<1>3. CASE Start(r)
  BY <1>0, <1>1, <1>3 DEF Start, DatabaseFails, RunInv, RowFollowsPc
<1>4. CASE Finalise(r)
  BY <1>0, <1>1, <1>4 DEF Finalise, DatabaseFails, RunInv, RowFollowsPc
<1>5. CASE HandleViolation(r)
  BY <1>0, <1>1, <1>5 DEF HandleViolation, DatabaseFails, RunInv, RowFollowsPc
<1>6. CASE HandleFailure(r)
  BY <1>0, <1>1, <1>6 DEF HandleFailure, DatabaseFails, RunInv, RowFollowsPc
<1>7. CASE Persist(r)
  <2>1. CASE UNCHANGED store
    BY <2>1
  <2>2. CASE ~UNCHANGED store
    <3>1. PersistAssets(scanId[r], output[r]) /\ pc[r] = "persist"
      BY <1>7, <2>2 DEF Persist, DatabaseFails
    <3>2. scanId[r] \in DOMAIN scans /\ scans[scanId[r]].status = "running"
      BY <1>0, <3>1 DEF RunInv, RowFollowsPc
    <3>3. History!Write(scanId[r])
      BY <3>1, <3>2 DEF PersistAssets, AssetRowsOf, History!Write
    <3> QED  BY <3>2, <3>3 DEF History!Next
  <2> QED  BY <2>1, <2>2
<1>8. CASE Begin(r) \/ Refuse(r) \/ LaunchTools(r) \/ GatherReturns(r) \/ GatherRaises(r)
           \/ Summarise(r) \/ ReadCurrent(r) \/ FindPrevious(r) \/ Compare(r)
           \/ SendSummary(r) \/ SendChangeAlert(r) \/ ReportFailure(r) \/ Interrupt(r)
           \/ \E i \in Tools : FinishTool(r, i)
  BY <1>8 DEF Begin, Refuse, LaunchTools, GatherReturns, GatherRaises, Summarise,
              ReadCurrent, FindPrevious, Compare, SendSummary, SendChangeAlert,
              ReportFailure, Interrupt, FinishTool, DatabaseFails, NotifierRaises
<1> QED
  BY <1>2, <1>3, <1>4, <1>5, <1>6, <1>7, <1>8 DEF StepOf, Step

\* The rows that any number of recon runs write are the log ScanHistory
\* describes: every step of an agent is a step of it, or none.
THEOREM ReconImplementsHistory == Spec => ImplementsHistory
<1>1. Init => History!Init
  BY DEF Init, StoreInit, History!Init
<1>2. IInv /\ [Next]_vars => [History!Next]_History!history
  <2> SUFFICES ASSUME IInv, [Next]_vars PROVE [History!Next]_<<scans, assets>>
    BY DEF History!history
  <2>1. CASE Next
    <3>1. PICK r \in Runs : StepOf(r)
      BY <2>1 DEF Next, StepOf
    <3> QED  BY <3>1, StepRefines DEF IInv
  <2>2. CASE UNCHANGED vars
    BY <2>2 DEF vars, store
  <2> QED  BY <2>1, <2>2
<1> QED
  BY <1>1, <1>2, Invariance, PTL DEF Spec, ImplementsHistory, History!Spec


-----------------------------------------------------------------------------
(* Runs that do not overlap *)

\* With one run of a target at a time, a run that works is alone at it, and
\* the scans before its own are of runs that are over.
Sequential ==
    /\ \A q, r \in Runs : q # r /\ TargetOf[q] = TargetOf[r] =>
           ~(pc[q] \in Working /\ pc[r] \in Working)
    /\ \A q, r \in Runs :
           TargetOf[q] = TargetOf[r] /\ scanId[q] # NoScan /\ scanId[q] < scanId[r] =>
               pc[q] \in Ended

Predecessor(r) == PreviousCompletedScan(TargetOf[r], scanId[r])

\* A run compares with what is still the last completed scan before its own,
\* and has sent the alert that is due when it returns.
ComparesWithLast(r) ==
    /\ pc[r] = "compare" => previous[r] = Predecessor(r)
    /\ diff[r].made => scanId[r] # NoScan /\ diff[r].previous = Predecessor(r)
    /\ pc[r] = "returned" /\ ShouldAlert(diff[r]) /\ "notifier" \notin Faults =>
           [scan |-> scanId[r], diff |-> diff[r]] \in alerts

AlertsCompareWithLast ==
    \A a \in alerts : \E r \in Runs :
        scanId[r] = a.scan /\ a.diff.previous = Predecessor(r)

SequentialInv ==
    Sequential /\ AlertsCompareWithLast /\ \A r \in Runs : ComparesWithLast(r)

\* A run that is over does nothing but let a tool finish.
LEMMA EndedIsOver ==
    ASSUME NEW r \in Runs, StepOf(r), pc[r] \in Ended
    PROVE  UNCHANGED <<store, pc, scanId, current, previous, diff, alerts>>
<1>1. \E i \in Tools : FinishTool(r, i)
  BY DEF StepOf, Step, Begin, Refuse, Create, Start, LaunchTools, GatherReturns,
         GatherRaises, Persist, Finalise, Summarise, ReadCurrent, FindPrevious, Compare,
         SendSummary, SendChangeAlert, HandleViolation, HandleFailure, ReportFailure,
         Interrupt, DatabaseFails, NotifierRaises, Goto, Ended, Working
<1> QED  BY <1>1 DEF FinishTool

\* A run gets to work by beginning only, and to a row by creating it only.
LEMMA WorkAndRow ==
    ASSUME TypeOK, NEW r \in Runs, RunInv(r), StepOf(r)
    PROVE  /\ pc'[r] \in Working => pc[r] \in Working \/ MayBegin(r)
           /\ pc[r] \in Ended => pc'[r] \in Ended
           /\ \/ scanId' = scanId
              \/ /\ pc[r] = "create" /\ scanId[r] = NoScan /\ pc'[r] = "start"
                 /\ scanId' = [scanId EXCEPT ![r] = Len(scans) + 1]
                 /\ UNCHANGED <<diff, alerts>>
<1>0. DOMAIN pc = Runs
  BY DEF TypeOK
<1> USE DEF Goto, DatabaseFails, NotifierRaises
<1>1. pc'[r] \in Working => pc[r] \in Working \/ MayBegin(r)
  BY <1>0 DEF StepOf, Step, Begin, Refuse, Create, Start, LaunchTools, FinishTool, GatherReturns,
         GatherRaises, Persist, Finalise, Summarise, ReadCurrent, FindPrevious, Compare,
         SendSummary, SendChangeAlert, HandleViolation, HandleFailure, ReportFailure,
         Interrupt, Working
<1>2. \/ scanId' = scanId
      \/ /\ pc[r] = "create" /\ scanId[r] = NoScan /\ pc'[r] = "start"
         /\ scanId' = [scanId EXCEPT ![r] = Len(scans) + 1]
         /\ UNCHANGED <<diff, alerts>>
  BY <1>0 DEF StepOf, Step, Begin, Refuse, Create, Start, LaunchTools, FinishTool, GatherReturns,
         GatherRaises, Persist, Finalise, Summarise, ReadCurrent, FindPrevious, Compare,
         SendSummary, SendChangeAlert, HandleViolation, HandleFailure, ReportFailure,
         Interrupt, NextScanId, RunInv, RowFollowsPc
<1> QED  BY <1>1, <1>2, EndedIsOver

\* A run begins only when the target is free, so the runs before it are over.
LEMMA SequentialStep ==
    ASSUME ~Overlap, IInv, Sequential, NEW r \in Runs, StepOf(r)
    PROVE  Sequential'
<1> USE DEF NoScan
<1>0. /\ TypeOK /\ RunInv(r) /\ Len(scans) \in Nat /\ scanId \in [Runs -> 0 .. Len(scans)]
      /\ \A q \in Runs : pc[q] \in PCs /\ RowFollowsPc(q)
      /\ LocalFrame(r)
  BY ScansAreRows, LocalFrameHolds DEF IInv, TypeOK, RunInv
<1>1. ASSUME NEW q \in Runs, NEW p \in Runs, q # p, TargetOf[q] = TargetOf[p],
             pc'[q] \in Working, pc'[p] \in Working
      PROVE  FALSE
  BY <1>0, <1>1, WorkAndRow DEF LocalFrame, MayBegin, Sequential
<1>2. CASE scanId' = scanId
  BY <1>0, <1>1, <1>2, WorkAndRow DEF LocalFrame, Sequential
<1>3. CASE pc[r] = "create" /\ scanId' = [scanId EXCEPT ![r] = Len(scans) + 1]
  <2>1. ASSUME NEW q \in Runs, NEW p \in Runs, TargetOf[q] = TargetOf[p],
               scanId'[q] # NoScan, scanId'[q] < scanId'[p]
        PROVE  pc'[q] \in Ended
    <3>1. q # r /\ scanId'[q] = scanId[q] /\ pc'[q] = pc[q]
      BY <1>0, <1>3, <2>1 DEF LocalFrame
    <3>2. CASE p = r
      <4>1. pc[q] \notin Working
        BY <1>3, <2>1, <3>1, <3>2 DEF Sequential, Working
      <4>2. pc[q] # "idle"
        BY <1>0, <2>1, <3>1 DEF RowFollowsPc
      <4> QED  BY <1>0, <3>1, <4>1, <4>2 DEF PCs
    <3>3. CASE p # r
      BY <1>0, <1>3, <2>1, <3>1, <3>3 DEF Sequential
    <3> QED  BY <3>2, <3>3
  <2> QED  BY <1>1, <2>1 DEF Sequential
<1> QED  BY <1>0, <1>2, <1>3, WorkAndRow

\* What counts as the last completed scan before one's own is settled when one
\* begins: the rows before it are of runs that are over.
LEMMA PredecessorKept ==
    ASSUME IInv, Sequential, NEW s \in Runs, StepOf(s), NEW r \in Runs, scanId[r] # NoScan
    PROVE  scanId'[r] = scanId[r] /\ Predecessor(r)' = Predecessor(r)
<1> USE DEF NoScan
<1>0. /\ TypeOK /\ OwnRow /\ RunInv(s)
      /\ Len(scans) \in Nat /\ DOMAIN scans = 1 .. Len(scans)
      /\ scanId \in [Runs -> 0 .. Len(scans)]
      /\ LocalFrame(s) /\ Touches(scanId[s])
  BY ScansAreRows, LocalFrameHolds, TouchesOwnScan DEF IInv, TypeOK
<1>1. scanId'[r] = scanId[r]
  BY <1>0, WorkAndRow DEF LocalFrame
<1>2. Len(scans') \in Nat /\ DOMAIN scans' = 1 .. Len(scans') /\ Len(scans) <= Len(scans')
  <2>1. TypeOK'
    BY <1>0, TypeStep
  <2> QED  BY <1>0, <2>1, LenProperties DEF TypeOK, StoreTypeOK, Touches
<1> DEFINE t == TargetOf[r]
           n == scanId[r]
<1>3. \A i \in 1 .. (n - 1) : scans[i].target = t => scans'[i] = scans[i]
  <2> TAKE i \in 1 .. (n - 1)
  <2>1. i \in 1 .. Len(scans)
    BY <1>0
  <2>2. CASE i # scanId[s]
    BY <1>0, <2>1, <2>2 DEF Touches
  <2>3. CASE i = scanId[s] /\ scans[i].target = t
    <3>1. TargetOf[s] = t
      BY <1>0, <2>1, <2>3 DEF OwnRow
    <3>2. pc[s] \in Ended
      BY <1>0, <2>1, <2>3, <3>1 DEF Sequential
    <3> QED  BY <3>2, EndedIsOver DEF store
  <2> QED  BY <2>2, <2>3
<1>4. \A i \in 1 .. (n - 1) : scans'[i].target = scans[i].target
  BY <1>0 DEF Touches
<1>5. \A u, k : u = t /\ k = n => DoneScansBefore(u, k)' = DoneScansBefore(u, k)
  <2> SUFFICES ASSUME NEW u, NEW k, u = t, k = n
               PROVE  DoneScansBefore(u, k)' = DoneScansBefore(u, k)
    OBVIOUS
  <2>1. /\ \A i \in DOMAIN scans : i < k <=> i \in 1 .. (n - 1)
        /\ \A i \in DOMAIN scans' : i < k <=> i \in 1 .. (n - 1)
        /\ 1 .. (n - 1) \subseteq DOMAIN scans /\ 1 .. (n - 1) \subseteq DOMAIN scans'
    BY <1>0, <1>2
  <2>2. /\ DoneScansBefore(u, k) =
               {i \in 1 .. (n - 1) : scans[i].target = t /\ scans[i].status = "done"}
        /\ DoneScansBefore(u, k)' =
               {i \in 1 .. (n - 1) : scans'[i].target = t /\ scans'[i].status = "done"}
    BY <2>1 DEF DoneScansBefore
  <2> QED  BY <1>3, <1>4, <2>2
<1>6. \A u, k : u = t /\ k = n => PreviousCompletedScan(u, k)' = PreviousCompletedScan(u, k)
  BY <1>5 DEF PreviousCompletedScan
<1> QED  BY <1>1, <1>6 DEF Predecessor

\* The run that steps compares with the last, and sends what it owes.
LEMMA ComparesStep ==
    ASSUME IInv, Sequential, NEW r \in Runs, ComparesWithLast(r), StepOf(r)
    PROVE  ComparesWithLast(r)'
<1> USE DEF Goto, DatabaseFails, NotifierRaises
<1>0. /\ TypeOK /\ RunInv(r) /\ DOMAIN pc = Runs /\ DOMAIN previous = Runs /\ DOMAIN diff = Runs
      /\ scanId[r] # NoScan => scanId'[r] = scanId[r] /\ Predecessor(r)' = Predecessor(r)
  BY PredecessorKept DEF IInv, TypeOK
<1>1. CASE FindPrevious(r) /\ pc'[r] = "compare"
  <2>1. /\ previous'[r] = Predecessor(r) /\ diff' = diff /\ scanId[r] # NoScan
    BY <1>0, <1>1 DEF FindPrevious, Predecessor, RunInv, RowFollowsPc
  <2> QED  BY <1>0, <1>1, <2>1 DEF ComparesWithLast
<1>2. CASE FindPrevious(r) /\ pc'[r] # "compare" /\ diff'[r] # diff[r]
  <2>1. /\ scanId[r] # NoScan /\ pc'[r] = "notify"
        /\ Predecessor(r) = NoScan /\ diff'[r].previous = NoScan
    BY <1>0, <1>2 DEF FindPrevious, Predecessor, RunInv, RowFollowsPc
  <2> QED  BY <1>0, <2>1 DEF ComparesWithLast
<1>3. CASE Compare(r) /\ diff'[r] # diff[r]
  <2>1. /\ scanId[r] # NoScan /\ pc'[r] = "notify"
        /\ diff'[r].previous = previous[r] /\ previous[r] = Predecessor(r)
    BY <1>0, <1>3 DEF Compare, RunInv, RowFollowsPc, ComparesWithLast
  <2> QED  BY <1>0, <2>1 DEF ComparesWithLast
<1>4. CASE SendChangeAlert(r)
  <2>1. UNCHANGED <<scanId, diff>> /\ pc'[r] # "compare"
    BY <1>0, <1>4 DEF SendChangeAlert
  <2>2. pc'[r] = "returned" /\ "notifier" \notin Faults =>
            [scan |-> scanId[r], diff |-> diff[r]] \in alerts'
    BY <1>0, <1>4 DEF SendChangeAlert
  <2> QED  BY <1>0, <2>1, <2>2 DEF ComparesWithLast
<1>5. ASSUME diff'[r] = diff[r], alerts' = alerts, pc'[r] # "compare",
             pc'[r] = "returned" => ~ShouldAlert(diff[r])
      PROVE  ComparesWithLast(r)'
  BY <1>0, <1>5 DEF ComparesWithLast, ShouldAlert, HasChanges, IsBaseline
<1>6. CASE \E i \in Tools : FinishTool(r, i)
  <2>1. UNCHANGED <<store, pc, scanId, previous, diff, alerts>>
    BY <1>6 DEF FinishTool
  <2> QED
    BY <2>1 DEF ComparesWithLast, ShouldAlert, HasChanges, IsBaseline, Predecessor,
                PreviousCompletedScan, DoneScansBefore, store
<1>7. CASE (FindPrevious(r) \/ Compare(r)) /\ pc'[r] # "compare" /\ diff'[r] = diff[r]
  BY <1>0, <1>5, <1>7 DEF FindPrevious, Compare
<1>8. CASE \/ Begin(r) \/ Refuse(r) \/ Create(r) \/ Start(r) \/ LaunchTools(r)
           \/ GatherReturns(r) \/ GatherRaises(r) \/ Persist(r) \/ Finalise(r)
           \/ Summarise(r) \/ ReadCurrent(r) \/ SendSummary(r)
           \/ HandleViolation(r) \/ HandleFailure(r) \/ ReportFailure(r) \/ Interrupt(r)
  <2>1. /\ diff' = diff /\ alerts' = alerts /\ pc'[r] # "compare"
        /\ pc'[r] = "returned" => ~ShouldAlert(diff[r])
    BY <1>0, <1>8 DEF Begin, Refuse, Create, Start, LaunchTools, GatherReturns, GatherRaises,
         Persist, Finalise, Summarise, ReadCurrent, SendSummary, HandleViolation,
         HandleFailure, ReportFailure, Interrupt
  <2> QED  BY <1>5, <2>1
<1>9. CASE Compare(r)
  <2>1. pc'[r] # "compare"
    BY <1>0, <1>9 DEF Compare
  <2> QED  BY <1>3, <1>7, <1>9, <2>1
<1> QED
  BY <1>1, <1>2, <1>4, <1>6, <1>7, <1>8, <1>9 DEF StepOf, Step

\* Every step keeps all of that.
LEMMA SequentialInvStep ==
    ASSUME ~Overlap
    PROVE  IInv /\ SequentialInv /\ [Next]_vars => SequentialInv'
<1> SUFFICES ASSUME IInv, SequentialInv, [Next]_vars PROVE SequentialInv'
  OBVIOUS
<1>1. CASE Next
  <2>1. PICK s \in Runs : StepOf(s)
    BY <1>1 DEF Next, StepOf
  <2>2. Sequential /\ AlertsCompareWithLast /\ \A r \in Runs : ComparesWithLast(r)
    BY DEF SequentialInv
  <2>3. \A r \in Runs : scanId[r] # NoScan =>
            scanId'[r] = scanId[r] /\ Predecessor(r)' = Predecessor(r)
    BY <2>1, <2>2, PredecessorKept
  <2>4. ComparesWithLast(s)'
    BY <2>1, <2>2, ComparesStep
  <2>5. \A r \in Runs \ {s} : ComparesWithLast(r)'
    <3> TAKE r \in Runs \ {s}
    <3>1. /\ pc'[r] = pc[r] /\ scanId'[r] = scanId[r]
          /\ previous'[r] = previous[r] /\ diff'[r] = diff[r]
      BY <2>1, LocalFrameHolds DEF LocalFrame, IInv
    <3>2. alerts \subseteq alerts'
      BY <2>1 DEF StepOf, Step, Begin, Refuse, Create, Start, LaunchTools, FinishTool,
           GatherReturns, GatherRaises, Persist, Finalise, Summarise, ReadCurrent,
           FindPrevious, Compare, SendSummary, SendChangeAlert, HandleViolation,
           HandleFailure, ReportFailure, Interrupt, DatabaseFails, NotifierRaises
    <3>3. pc[r] = "compare" => scanId[r] # NoScan
      BY DEF IInv, RunInv, RowFollowsPc
    <3> QED
      BY <2>2, <2>3, <3>1, <3>2, <3>3
         DEF ComparesWithLast, ShouldAlert, HasChanges, IsBaseline
  <2>6. AlertsCompareWithLast'
    <3> SUFFICES ASSUME NEW a \in alerts'
                 PROVE  \E r \in Runs : scanId'[r] = a.scan /\ a.diff.previous = Predecessor(r)'
      BY DEF AlertsCompareWithLast
    <3>1. PICK r \in Runs : /\ scanId[r] = a.scan /\ scanId[r] # NoScan
                            /\ a.diff.previous = Predecessor(r)
      <4>1. CASE a \in alerts
        BY <2>2, <4>1 DEF AlertsCompareWithLast, IInv, TypeOK, NoScan
      <4>2. CASE a \notin alerts
        <5>1. pc[s] = "alert" /\ scanId[s] # NoScan /\ a.scan = scanId[s] /\ a.diff = diff[s]
          BY <2>1, <4>2, AlertSource DEF IInv
        <5>2. diff[s].made
          BY <5>1 DEF IInv, RunInv, ReadsAreCurrent, ShouldAlert
        <5> QED  BY <2>2, <5>1, <5>2 DEF ComparesWithLast
      <4> QED  BY <4>1, <4>2
    <3> QED  BY <2>3, <3>1
  <2> QED  BY <2>1, <2>2, <2>4, <2>5, <2>6, SequentialStep DEF SequentialInv
<1>2. CASE UNCHANGED vars
  <2>1. UNCHANGED <<scans, pc, scanId, previous, diff, alerts>>
    BY <1>2 DEF vars, store, agent
  <2>2. \A r : Predecessor(r)' = Predecessor(r)
    BY <2>1 DEF Predecessor, PreviousCompletedScan, DoneScansBefore
  <2>3. Sequential' /\ AlertsCompareWithLast'
    BY <2>1, <2>2 DEF SequentialInv, Sequential, AlertsCompareWithLast
  <2>4. \A r \in Runs : ComparesWithLast(r)'
    BY <2>1, <2>2 DEF SequentialInv, ComparesWithLast, ShouldAlert, HasChanges, IsBaseline
  <2> QED  BY <2>3, <2>4 DEF SequentialInv
<1> QED  BY <1>1, <1>2

\* With one run of a target at a time, all of that holds in every state.
THEOREM SequentialInvariance ==
    ASSUME ~Overlap
    PROVE  Spec => [](IInv /\ SequentialInv)
<1>1. Init => SequentialInv
  <2> SUFFICES ASSUME Init PROVE SequentialInv
    OBVIOUS
  <2>1. /\ \A r \in Runs : pc[r] = "idle" /\ scanId[r] = NoScan /\ ~diff[r].made
        /\ alerts = {}
    BY DEF Init, NoDiff
  <2> QED
    BY <2>1 DEF SequentialInv, Sequential, AlertsCompareWithLast, ComparesWithLast, Working
<1>2. IInv /\ SequentialInv /\ [Next]_vars => SequentialInv'
  BY SequentialInvStep
<1> QED  BY <1>1, <1>2, Invariance, PTL DEF Spec

\* The alert of a scan is about its immediate predecessor among the scans that
\* count, whatever runs of other targets do meanwhile.
THEOREM AlertsPassOverNoScan ==
    ASSUME ~Overlap
    PROVE  Spec => []ComparesWithPredecessor
<1>1. IInv /\ SequentialInv => ComparesWithPredecessor
  <2> SUFFICES ASSUME IInv, SequentialInv, NEW a \in alerts,
                      NEW i \in (a.diff.previous + 1) .. (a.scan - 1),
                      scans[i].target = scans[a.scan].target, scans[i].status = "done"
               PROVE  FALSE
    BY DEF ComparesWithPredecessor
  <2>1. PICK r \in Runs : scanId[r] = a.scan /\ a.diff.previous = Predecessor(r)
    BY DEF SequentialInv, AlertsCompareWithLast
  <2>2. /\ Len(scans) \in Nat /\ DOMAIN scans = 1 .. Len(scans) /\ StoreTypeOK
        /\ a.scan \in 1 .. Len(scans)
    BY ScansAreRows DEF IInv, TypeOK
  <2>3. scans[a.scan].target = TargetOf[r]
    BY <2>1, <2>2 DEF IInv, OwnRow, NoScan
  <2>4. /\ Predecessor(r) \in Nat
        /\ \A k \in DoneScansBefore(TargetOf[r], a.scan) : k <= Predecessor(r)
    BY <2>1, <2>2, PreviousIsLatest DEF Predecessor, DoneScansBefore, NoScan
  <2>5. i \in DoneScansBefore(TargetOf[r], a.scan)
    BY <2>1, <2>2, <2>3, <2>4 DEF DoneScansBefore
  <2> QED  BY <2>1, <2>2, <2>4, <2>5
<1> QED  BY <1>1, SequentialInvariance, PTL

\* A run that returned with a comparison, while no message is lost, has told
\* the operator whatever changed since the last completed scan.
THEOREM ChangesAreTold ==
    ASSUME ~Overlap
    PROVE  Spec => []EveryChangeIsTold
<1>1. IInv /\ SequentialInv => EveryChangeIsTold
  <2> SUFFICES ASSUME IInv, SequentialInv, NEW r \in Runs, pc[r] = "returned", diff[r].made,
                      "notifier" \notin Faults, Predecessor(r) # NoScan,
                      Index(Predecessor(r)) # Index(scanId[r])
               PROVE  \E a \in alerts : a.scan = scanId[r] /\ a.diff.previous = Predecessor(r)
    BY DEF EveryChangeIsTold, Predecessor
  <2>1. diff[r].previous = Predecessor(r) /\ ComparesWithLast(r)
    BY DEF SequentialInv, ComparesWithLast
  <2>2. IsComparison(scanId[r], diff[r])
    BY <2>1 DEF IInv, RunInv, ReadsAreCurrent
  <2>3. ShouldAlert(diff[r])
    BY <2>1, <2>2 DEF IsComparison, ShouldAlert, HasChanges, IsBaseline
  <2>4. [scan |-> scanId[r], diff |-> diff[r]] \in alerts
    BY <2>1, <2>3 DEF ComparesWithLast
  <2> QED  BY <2>1, <2>4
<1> QED  BY <1>1, SequentialInvariance, PTL

=============================================================================
