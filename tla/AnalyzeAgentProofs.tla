--------------------------- MODULE AnalyzeAgentProofs ---------------------------
(***************************************************************************)
(* Proofs about AnalyzeAgent for every set of runs, every batch size,      *)
(* every content of the tables when the first run starts, and every choice *)
(* of faults.                                                              *)
(*                                                                         *)
(* As in the proofs about the other agents, a step of run r touches no row *)
(* but its own (Touches), and what a run may assume follows from where     *)
(* it is (RunInv).  What is new is the loop over the batches: at every     *)
(* turn the model has been asked about the findings up to the one at which *)
(* the next batch starts, in order (Collected), whatever it answered.      *)
(***************************************************************************)
EXTENDS AnalyzeAgent, ScanStoreProofs

\* The row of run r, given the await it is at.
RowFollowsPc(r) ==
    /\ pc[r] \in {"idle", "create"} => scanId[r] = NoScan
    /\ pc[r] \notin {"idle", "create", "raised", "interrupted"} => scanId[r] # NoScan
    /\ pc[r] = "start" => scans[scanId[r]].status = "pending"
    /\ pc[r] \in {"lookup", "fetch", "triage", "report", "save", "finalise"} =>
           scans[scanId[r]].status = "running"
    /\ pc[r] \in {"notify", "returned"} => scans[scanId[r]].status = "done"
    /\ pc[r] = "fail" => scans[scanId[r]].status \in {"running", "done"}

\* The row of run r is of its target, and newer than all there were before.
RowIsNew(r) ==
    scanId[r] # NoScan => /\ scans[scanId[r]].target = TargetOf[r]
                          /\ scans[scanId[r]].agent = "analyze"
                          /\ scanId[r] > Len(PastScans)

DistinctRows ==
    \A r, q \in Runs : scanId[r] = scanId[q] /\ scanId[r] # NoScan => r = q

\* The rows there were are as they were.
PastIsKept ==
    /\ Len(PastScans) <= Len(scans)
    /\ \A i \in 1 .. Len(PastScans) : scans[i] = PastScans[i]

\* A run takes the scan it was given, if it was.
TakesGiven(r) == given[r] = NoScan \/ source[r] = given[r]

\* A run that was left to choose chose a scan of its target that had completed.
SourceFollowsPc(r) ==
    /\ pc[r] \in {"idle", "create", "start"} => source[r] = NoScan
    /\ pc[r] = "lookup" => given[r] = NoScan
    /\ source[r] # NoScan => TakesGiven(r)
    /\ pc[r] \notin {"idle", "create", "start", "raised", "interrupted"} => TakesGiven(r)
    /\ given[r] = NoScan /\ source[r] # NoScan =>
           /\ source[r] # scanId[r]
           /\ source[r] \in 1 .. Len(scans)
           /\ scans[source[r]].target = TargetOf[r]
           /\ scans[source[r]].status \in Closed
           /\ source[r] \in DOMAIN PastScans => PastScans[source[r]].status = "done"

\* All findings of the scan the report is about were asked about, and no item
\* of the answers made the report impossible.
Whole(r) ==
    /\ TakesGiven(r)
    /\ material[r] = ListFindings(source[r]) /\ Len(asked[r]) = Len(material[r])
    /\ ToSet(triage[r]) \subseteq Sound

\* The model was asked about the first findings, in their order.
Collected(r) ==
    /\ Len(asked[r]) <= Len(material[r])
    /\ \A k \in 1 .. Len(asked[r]) : asked[r][k] = material[r][k]

\* What run r has fetched and asked about, given the await it is at.
MaterialByPc(r) ==
    /\ pc[r] \in {"idle", "create", "start", "lookup", "fetch"} =>
           material[r] = <<>> /\ asked[r] = <<>> /\ sent[r] = 0
    /\ pc[r] \in {"triage", "report", "save"} => material[r] = ListFindings(source[r])
    /\ pc[r] = "triage" => /\ Chunked(Len(material[r]))
                           /\ Len(asked[r]) = sent[r] /\ sent[r] < Len(material[r])
    /\ pc[r] = "report" /\ Chunked(Len(material[r])) => Len(asked[r]) = Len(material[r])
    /\ pc[r] = "save" => /\ Len(asked[r]) = Len(material[r])
                         /\ ToSet(triage[r]) \subseteq Sound

OwnReports(r) == {g \in reports : g.scan = scanId[r]}

\* The report of run r, given the await it is at.
ReportByPc(r) ==
    /\ pc[r] \in {"idle", "create", "start", "lookup", "fetch", "triage", "report", "save"} =>
           OwnReports(r) = {}
    /\ pc[r] = "finalise" => OwnReports(r) = {Report(r)}
    /\ scanId[r] # NoScan => (scans[scanId[r]].status = "done" => OwnReports(r) = {Report(r)})
    /\ OwnReports(r) # {} => OwnReports(r) = {Report(r)} /\ Whole(r)

RunInv(r) ==
    /\ RowFollowsPc(r) /\ RowIsNew(r) /\ SourceFollowsPc(r)
    /\ Collected(r) /\ MaterialByPc(r) /\ ReportByPc(r)

\* A report is the report of a run.
ReportsAreOwned == \A g \in reports : \E r \in Runs : scanId[r] = g.scan

Domains ==
    /\ DOMAIN material = Runs /\ DOMAIN sent = Runs
    /\ DOMAIN triage = Runs /\ DOMAIN asked = Runs

\* TypeOK, and that what is kept per run is kept for every run.
Typed == TypeOK /\ Domains

\* Nothing here rests on the analyses being alone with the tables.
SharedInv ==
    /\ Typed /\ IsFiniteSet(findings)
    /\ PastIsKept /\ DistinctRows /\ ReportsAreOwned
    /\ \A r \in Runs : RunInv(r)

\* A step of run r or of its environment, whatever scan it is called with.
StepOf(r) ==
    \/ \E scan \in Nat : Begin(r, scan)
    \/ Step(r)
    \/ Interrupt(r)

-----------------------------------------------------------------------------
(* Lists and batches *)

\* SetToSeq lists every element of a finite set, each once.
LEMMA SetToSeqLists ==
    ASSUME NEW T, NEW S \in SUBSET T, IsFiniteSet(S)
    PROVE  /\ SetToSeq(S) \in Seq(T)
           /\ Len(SetToSeq(S)) = Cardinality(S)
           /\ \A x : x \in S <=> \E k \in DOMAIN SetToSeq(S) : x = SetToSeq(S)[k]
<1>1. Cardinality(S) \in Nat /\ ExistsBijection(1 .. Cardinality(S), S)
  BY FS_CardinalityType
<1>2. \E f \in [1 .. Cardinality(S) -> S] : IsInjective(f)
  BY <1>1 DEF ExistsBijection, Bijection, Injection
<1>3. SetToSeq(S) \in [1 .. Cardinality(S) -> S] /\ IsInjective(SetToSeq(S))
  BY <1>2, Zenon DEF SetToSeq
<1>4. SetToSeq(S) \in [1 .. Cardinality(S) -> T]
  BY <1>3
<1>5. SetToSeq(S) \in Seq(T)
  BY <1>1, <1>4, SeqDef
<1>6. DOMAIN SetToSeq(S) = 1 .. Cardinality(S)
  BY <1>3
<1>7. DOMAIN SetToSeq(S) = 1 .. Len(SetToSeq(S)) /\ Len(SetToSeq(S)) \in Nat
  BY <1>5, LenProperties
<1>8. SetToSeq(S) \in Surjection(1 .. Cardinality(S), S)
  <2> DEFINE f == SetToSeq(S)
             I == 1 .. Cardinality(S)
  <2>1. IsFiniteSet(I) /\ Cardinality(I) = Cardinality(S)
    BY <1>1, FS_Interval
  <2>2. f \in Injection(I, S)
    BY <1>3 DEF Injection, IsInjective
  <2> HIDE DEF f, I
  <2>3. f \in Surjection(I, S)
    BY <2>1, <2>2, FS_Injection
  <2> QED  BY <2>3 DEF f, I
<1>9. ASSUME NEW x
      PROVE  x \in S <=> \E k \in DOMAIN SetToSeq(S) : x = SetToSeq(S)[k]
  BY <1>3, <1>6, <1>8 DEF Surjection
<1> QED  BY <1>1, <1>5, <1>6, <1>7, <1>9

\* The findings of a scan are listed as there are.
LEMMA FindingsAreListed ==
    ASSUME StoreTypeOK, IsFiniteSet(findings), NEW id
    PROVE  /\ ListFindings(id) \in Seq(FindingRow)
           /\ Len(ListFindings(id)) = Cardinality(Rows(id))
           /\ \A f : f \in Rows(id) <=> \E k \in DOMAIN ListFindings(id) : f = ListFindings(id)[k]
<1>1. Rows(id) \in SUBSET FindingRow /\ IsFiniteSet(Rows(id))
  <2>1. Rows(id) \subseteq findings
    BY DEF Rows
  <2>2. findings \subseteq FindingRow
    BY DEF StoreTypeOK
  <2> QED  BY <2>1, <2>2, FS_Subset
<1> QED  BY <1>1, SetToSeqLists DEF ListFindings

\* No scan has the id that stands for none, so there is nothing to list.
LEMMA NoScanHasNoFindings ==
    ASSUME StoreTypeOK, IsFiniteSet(findings)
    PROVE  ListFindings(NoScan) = <<>>
<1>1. Rows(NoScan) = {}
  BY DEF Rows, StoreTypeOK, FindingRow, NoScan
<1>2. Len(ListFindings(NoScan)) = 0
  BY <1>1, FindingsAreListed, FS_EmptySet
<1> QED  BY <1>2, FindingsAreListed, EmptySeq

\* The smaller of two numbers.
LEMMA MinOfTwo ==
    ASSUME NEW a \in Nat, NEW b \in Nat
    PROVE  Min({a, b}) = IF a <= b THEN a ELSE b
<1>1. \E x \in {a, b} : \A y \in {a, b} : x =< y
  OBVIOUS
<1>2. Min({a, b}) \in {a, b} /\ \A y \in {a, b} : Min({a, b}) =< y
  BY <1>1, Zenon DEF Min
<1> QED  BY <1>2

\* A batch is the next findings of the list, BatchSize of them or what is left.
LEMMA BatchProperties ==
    ASSUME NEW list \in Seq(FindingRow), NEW i \in Nat, i < Len(list)
    PROVE  /\ Batch(list, i) \in Seq(FindingRow)
           /\ Len(Batch(list, i)) = IF i + BatchSize < Len(list) THEN BatchSize ELSE Len(list) - i
           /\ \A k \in 1 .. Len(Batch(list, i)) : Batch(list, i)[k] = list[i + k]
<1> DEFINE m == i + 1
           n == Min({i + BatchSize, Len(list)})
<1>1. Len(list) \in Nat /\ BatchSize \in Nat \ {0}
  BY LenProperties, BatchSizeType
<1>2. n = IF i + BatchSize <= Len(list) THEN i + BatchSize ELSE Len(list)
  BY <1>1, MinOfTwo
<1>3. m \in Int /\ n \in Int /\ m <= n /\ n <= Len(list) /\ 1 <= m
  BY <1>1, <1>2
<1>4. \A k \in m .. n : list[k] \in FindingRow
  <2> TAKE k \in m .. n
  <2>1. k \in 1 .. Len(list)
    BY <1>1, <1>3
  <2> QED  BY <2>1, ElementOfSeq
<1>5. /\ SubSeq(list, m, n) \in Seq(FindingRow)
      /\ Len(SubSeq(list, m, n)) = n - m + 1
      /\ \A k \in 1 .. n - m + 1 : SubSeq(list, m, n)[k] = list[m + k - 1]
  <2> HIDE DEF m, n
  <2> QED  BY <1>3, <1>4, SubSeqProperties
<1>6. Batch(list, i) = SubSeq(list, m, n)
  BY DEF Batch
<1>7. \A k \in 1 .. n - m + 1 : Batch(list, i)[k] = list[i + k]
  <2>1. \A k \in 1 .. n - m + 1 : m + k - 1 = i + k
    BY <1>1, <1>3
  <2> HIDE DEF m, n
  <2> QED  BY <1>5, <1>6, <2>1
<1>8. n - m + 1 = IF i + BatchSize < Len(list) THEN BatchSize ELSE Len(list) - i
  BY <1>1, <1>2
<1> HIDE DEF m, n
<1> QED  BY <1>5, <1>6, <1>7, <1>8

\* The loop variable goes from one multiple of the batch size to the next.
LEMMA NextMultiple ==
    ASSUME NEW i \in Nat, i % BatchSize = 0
    PROVE  (i + BatchSize) % BatchSize = 0
<1>1. BatchSize \in Nat \ {0} /\ i + BatchSize \in Nat
  BY BatchSizeType
<1>2. (i + BatchSize) \div BatchSize = (i \div BatchSize) + 1
  BY <1>1
<1>3. i = BatchSize * (i \div BatchSize) + (i % BatchSize) /\ i \div BatchSize \in Nat
  BY <1>1
<1>4. i + BatchSize = BatchSize * ((i + BatchSize) \div BatchSize) + ((i + BatchSize) % BatchSize)
  BY <1>1
<1>5. (i + BatchSize) % BatchSize \in Nat
  BY <1>1
<1>6. BatchSize * ((i \div BatchSize) + 1) = BatchSize * (i \div BatchSize) + BatchSize
  BY <1>1, <1>3
<1> QED  BY <1>1, <1>2, <1>3, <1>4, <1>5, <1>6

-----------------------------------------------------------------------------
(* What a step does to the store, and what it leaves of the other runs *)

\* A step of run r leaves what is kept for the others.
LocalFrame(r) ==
    \A q \in Runs \ {r} :
        /\ pc'[q] = pc[q] /\ given'[q] = given[q] /\ scanId'[q] = scanId[q]
        /\ source'[q] = source[q] /\ material'[q] = material[q]
        /\ sent'[q] = sent[q] /\ triage'[q] = triage[q] /\ asked'[q] = asked[q]

\* A step of run r changes the locals of no other run.
LEMMA LocalFrameHolds ==
    ASSUME Typed, NEW r \in Runs, StepOf(r)
    PROVE  LocalFrame(r)
<1> USE DEF LocalFrame, Goto, Raises
<1>0. /\ DOMAIN pc = Runs /\ DOMAIN given = Runs /\ DOMAIN scanId = Runs /\ DOMAIN source = Runs
      /\ DOMAIN material = Runs /\ DOMAIN sent = Runs /\ DOMAIN triage = Runs
      /\ DOMAIN asked = Runs
  BY DEF Typed, TypeOK, Domains
<1>1. ASSUME NEW scan, Begin(r, scan)
      PROVE  LocalFrame(r)
  BY <1>0, <1>1 DEF Begin
<1>2. CASE Create(r) \/ Start(r) \/ Lookup(r) \/ Fetch(r)
  BY <1>0, <1>2 DEF Create, Start, Lookup, Fetch
<1>3. CASE TriageBatch(r)
  <2>1. /\ \E new : triage' = [triage EXCEPT ![r] = new] \/ triage' = triage
        /\ \E new : asked' = [asked EXCEPT ![r] = new] \/ asked' = asked
        /\ \E new : sent' = [sent EXCEPT ![r] = new] \/ sent' = sent
        /\ \E to : pc' = [pc EXCEPT ![r] = to]
        /\ UNCHANGED <<given, scanId, source, material>>
    BY <1>3 DEF TriageBatch
  <2> QED  BY <1>0, <2>1
<1>4. CASE ProduceReport(r)
  <2>1. /\ \E new : triage' = [triage EXCEPT ![r] = new] \/ triage' = triage
        /\ \E new : asked' = [asked EXCEPT ![r] = new] \/ asked' = asked
        /\ \E to : pc' = [pc EXCEPT ![r] = to]
        /\ UNCHANGED <<given, scanId, source, material, sent>>
    BY <1>4 DEF ProduceReport, BuildReport
  <2> QED  BY <1>0, <2>1
<1>5. CASE Save(r) \/ Finalise(r) \/ SendSummary(r) \/ HandleFailure(r) \/ Interrupt(r)
  BY <1>0, <1>5 DEF Save, Finalise, SendSummary, HandleFailure, Interrupt
<1> QED
  BY <1>1, <1>2, <1>3, <1>4, <1>5 DEF StepOf, Step

\* A new status for the run's row.
LEMMA StatusFrame ==
    ASSUME TypeOK, NEW r \in Runs, scanId[r] # NoScan, NEW status \in Statuses,
           SetStatus(scanId[r], status),
           scans[scanId[r]].status \in Closed => status \in Closed
    PROVE  /\ Touches(scanId[r]) /\ Len(scans') = Len(scans)
           /\ scans'[scanId[r]].status = status
<1>1. scanId[r] \in 1 .. Len(scans) /\ StoreTypeOK
  BY ScansAreRows DEF TypeOK, NoScan
<1> QED  BY <1>1, SetStatusEffect, SetStatusTouches

\* A new row.
LEMMA CreateFrame ==
    ASSUME TypeOK, NEW r \in Runs, CreateScan(TargetOf[r], "analyze")
    PROVE  /\ Touches(scanId[r]) /\ Len(scans') = Len(scans) + 1
           /\ scans'[Len(scans) + 1].target = TargetOf[r]
           /\ scans'[Len(scans) + 1].agent = "analyze"
           /\ scans'[Len(scans) + 1].status = "pending"
<1>1. TargetOf[r] \in Targets /\ StoreTypeOK
  BY TargetOfType DEF TypeOK
<1>2. Touches(scanId[r])
  BY <1>1, CreateTouches, AnalyzeIsAnAgent
<1>3. /\ Len(scans') = Len(scans) + 1
      /\ scans'[Len(scans) + 1] =
             [target |-> TargetOf[r], agent |-> "analyze", status |-> "pending"]
  BY <1>1, CreateScanEffect, AnalyzeIsAnAgent
<1> QED  BY <1>2, <1>3

\* Every step works for the run's own scan only, and none adds to the findings.
LEMMA TouchesOwnScan ==
    ASSUME Typed, NEW r \in Runs, RunInv(r), StepOf(r)
    PROVE  Touches(scanId[r]) /\ findings' = findings
<1> USE DEF Goto, Raises, store
<1>0. TypeOK /\ StoreTypeOK
  BY DEF Typed, TypeOK
<1>1. CASE UNCHANGED store
  BY <1>0, <1>1, NothingTouches
<1>2. CASE Create(r)
  BY <1>0, <1>1, <1>2, CreateFrame DEF Create, CreateScan
<1>3. CASE Start(r)
  BY <1>0, <1>1, <1>3, StatusFrame DEF Start, SetStatus, RunInv, RowFollowsPc, Statuses, Closed
<1>4. CASE Finalise(r)
  BY <1>0, <1>1, <1>4, StatusFrame DEF Finalise, SetStatus, RunInv, RowFollowsPc, Statuses, Closed
<1>5. CASE HandleFailure(r)
  BY <1>0, <1>1, <1>5, StatusFrame
     DEF HandleFailure, SetStatus, RunInv, RowFollowsPc, Statuses, Closed
<1>6. CASE \/ \E scan \in Nat : Begin(r, scan)
           \/ Lookup(r) \/ Fetch(r) \/ TriageBatch(r) \/ ProduceReport(r) \/ Save(r)
           \/ SendSummary(r) \/ Interrupt(r)
  <2>1. UNCHANGED store
    BY <1>6 DEF Begin, Lookup, Fetch, TriageBatch, ProduceReport, Save, SendSummary, Interrupt
  <2> QED  BY <1>1, <2>1
<1> QED
  BY <1>2, <1>3, <1>4, <1>5, <1>6 DEF StepOf, Step

\* The id a run keeps is written once, when its row is.
LEMMA ScanIdStep ==
    ASSUME Typed, NEW r \in Runs, RunInv(r), StepOf(r)
    PROVE  \/ scanId' = scanId /\ Len(scans') = Len(scans)
           \/ /\ pc[r] = "create" /\ scanId[r] = NoScan /\ reports' = reports
              /\ scanId' = [scanId EXCEPT ![r] = Len(scans) + 1]
              /\ CreateScan(TargetOf[r], "analyze")
<1> USE DEF Goto, Raises, store
<1>1. CASE Create(r)
  BY <1>1 DEF Create, NextScanId, RunInv, RowFollowsPc
<1>2. CASE ~Create(r)
  <2>1. scanId' = scanId /\ (scans' = scans \/ \E st \in Statuses : SetStatus(scanId[r], st))
    BY <1>2 DEF StepOf, Step, Begin, Start, Lookup, Fetch, TriageBatch, ProduceReport, Save,
                Finalise, SendSummary, HandleFailure, Interrupt, Statuses
  <2>2. ASSUME NEW st \in Statuses, SetStatus(scanId[r], st)
        PROVE  Len(scans') = Len(scans)
    <3>1. StoreTypeOK /\ scanId[r] \in 1 .. Len(scans)
      BY <2>2, ScansAreRows DEF SetStatus, Typed, TypeOK
    <3> QED  BY <2>2, <3>1, SetStatusEffect
  <2> QED  BY <2>1, <2>2
<1> QED  BY <1>1, <1>2

\* A new report is the run's own.
LEMMA ReportSource ==
    ASSUME NEW r \in Runs, StepOf(r)
    PROVE  \/ reports' = reports
           \/ Save(r) /\ pc[r] = "save" /\ reports' = reports \cup {Report(r)}
<1>1. CASE Save(r)
  BY <1>1 DEF Save, Goto, Raises
<1>2. CASE ~Save(r)
  BY <1>2 DEF StepOf, Step, Begin, Create, Start, Lookup, Fetch, TriageBatch, ProduceReport,
              Finalise, SendSummary, HandleFailure, Interrupt, Raises
<1> QED  BY <1>1, <1>2

-----------------------------------------------------------------------------
(* Types, and the findings and answers of a run *)

\* What is kept for one run of what it fetched and collected.
RunTypeOK(r) ==
    /\ material[r] \in Seq(FindingRow)
    /\ sent[r] \in 0 .. (Len(material[r]) + BatchSize - 1)
    /\ sent[r] % BatchSize = 0
    /\ triage[r] \in Seq(Items)
    /\ asked[r] \in Seq(FindingRow)

\* The first state is typed.
LEMMA InitTyped == Init => Typed
<1> SUFFICES ASSUME Init PROVE Typed
  OBVIOUS
<1>1. StoreTypeOK
  BY PastType DEF Init, StoreTypeOK
<1>2. Len(scans) \in Nat
  BY <1>1, ScansAreRows
<1>3. 0 % BatchSize = 0 /\ BatchSize \in Nat \ {0}
  BY BatchSizeType
<1>4. <<>> \in Seq(FindingRow) /\ <<>> \in Seq(Items) /\ Len(<<>>) = 0
  BY EmptySeq
<1>5. \A r \in Runs : RunTypeOK(r)
  BY <1>3, <1>4 DEF Init, AgentInit, RunTypeOK
<1>6. reports = {}
  BY DEF Init, AgentInit
<1> QED
  BY <1>1, <1>2, <1>5, <1>6 DEF Init, AgentInit, Typed, TypeOK, Domains, PCs, RunTypeOK, NoScan

\* One more batch: what was asked about grows by the next findings.
LEMMA AskedGrows ==
    ASSUME Typed, NEW r \in Runs, Collected(r), MaterialByPc(r), pc[r] = "triage"
    PROVE  LET new == asked[r] \o Batch(material[r], sent[r])
               next == sent[r] + BatchSize
           IN  /\ new \in Seq(FindingRow)
               /\ Len(new) = IF next < Len(material[r]) THEN next ELSE Len(material[r])
               /\ \A k \in 1 .. Len(new) : new[k] = material[r][k]
<1> DEFINE list == material[r]
           i == sent[r]
           old == asked[r]
           more == Batch(list, i)
           new == old \o more
<1>1. list \in Seq(FindingRow) /\ old \in Seq(FindingRow)
  BY DEF Typed, TypeOK
<1>2. Len(list) \in Nat /\ BatchSize \in Nat \ {0} /\ i \in Nat
  BY <1>1, LenProperties, BatchSizeType DEF Typed, TypeOK
<1>3. i < Len(list) /\ Len(old) = i /\ \A k \in 1 .. i : old[k] = list[k]
  BY DEF MaterialByPc, Collected
<1>4. /\ more \in Seq(FindingRow)
      /\ Len(more) = IF i + BatchSize < Len(list) THEN BatchSize ELSE Len(list) - i
      /\ \A k \in 1 .. Len(more) : more[k] = list[i + k]
  BY <1>1, <1>2, <1>3, BatchProperties
<1> HIDE DEF list, i, old, more
<1>5. new \in Seq(FindingRow)
  BY <1>1, <1>4, ConcatProperties
<1>6. /\ Len(new) = Len(old) + Len(more)
      /\ \A k \in 1 .. Len(old) + Len(more) :
             new[k] = IF k <= Len(old) THEN old[k] ELSE more[k - Len(old)]
  <2>1. Len(old \o more) = Len(old) + Len(more)
    BY <1>1, <1>4, ConcatProperties
  <2>2. \A k \in 1 .. Len(old) + Len(more) :
             (old \o more)[k] = IF k <= Len(old) THEN old[k] ELSE more[k - Len(old)]
    BY <1>1, <1>4, ConcatProperties
  <2> QED  BY <2>1, <2>2 DEF new
<1> HIDE DEF new
<1>7. Len(new) = IF i + BatchSize < Len(list) THEN i + BatchSize ELSE Len(list)
  BY <1>2, <1>3, <1>4, <1>6
<1>8. ASSUME NEW k \in 1 .. Len(new)
      PROVE  new[k] = list[k]
  <2>1. CASE k <= i
    BY <1>2, <1>3, <1>6, <1>8, <2>1
  <2>2. CASE k > i
    <3>1. k - i \in 1 .. Len(more)
      BY <1>2, <1>3, <1>4, <1>6, <1>8, <2>2
    <3>2. new[k] = more[k - i] /\ more[k - i] = list[i + (k - i)]
      BY <1>2, <1>3, <1>4, <1>6, <1>8, <2>2, <3>1
    <3>3. k \in Int /\ i \in Int /\ i + (k - i) = k
      BY <1>2, <1>7, <1>8
    <3> QED  BY <3>2, <3>3
  <2> QED  BY <1>2, <1>7, <2>1, <2>2
<1> QED  BY <1>5, <1>7, <1>8 DEF new, list, i, old, more

\* What is fetched is all of it, and stays so; what is collected is a prefix.
LEMMA MaterialStep ==
    ASSUME Typed, IsFiniteSet(findings), NEW r \in Runs, RunInv(r), StepOf(r)
    PROVE  RunTypeOK(r)' /\ Collected(r)' /\ MaterialByPc(r)'
<1> USE DEF Goto, NoScan
<1>0. /\ DOMAIN pc = Runs /\ DOMAIN source = Runs
      /\ DOMAIN material = Runs /\ DOMAIN sent = Runs /\ DOMAIN triage = Runs
      /\ DOMAIN asked = Runs
      /\ TypeOK /\ RunTypeOK(r) /\ Collected(r) /\ MaterialByPc(r)
      /\ BatchSize \in Nat \ {0} /\ Len(material[r]) \in Nat
  BY LenProperties, BatchSizeType DEF Typed, TypeOK, Domains, RunTypeOK, RunInv
<1>1. \A id : ListFindings(id)' = ListFindings(id)
  <2>1. findings' = findings
    BY TouchesOwnScan
  <2> QED  BY <2>1 DEF ListFindings, Rows
<1>2. Len(<<>>) = 0
  OBVIOUS
<1>3. ASSUME UNCHANGED <<material, sent, triage, asked>>
      PROVE  RunTypeOK(r)' /\ Collected(r)'
  BY <1>0, <1>3 DEF RunTypeOK, Collected
<1>4. ASSUME NEW scan, Begin(r, scan)
      PROVE  RunTypeOK(r)' /\ Collected(r)' /\ MaterialByPc(r)'
  BY <1>0, <1>3, <1>4 DEF Begin, MaterialByPc
<1>5. CASE Create(r) \/ Start(r)
  BY <1>0, <1>3, <1>5 DEF Create, Start, Raises, MaterialByPc
<1>6. CASE Lookup(r)
  <2>1. CASE Raises("database", r, "lookup", "fail")
    BY <1>0, <1>3, <2>1 DEF Raises, MaterialByPc
  <2>2. CASE ~Raises("database", r, "lookup", "fail")
    <3>1. /\ pc[r] = "lookup" /\ UNCHANGED <<material, sent, triage, asked>>
          /\ pc'[r] \in {"fetch", "report"}
          /\ pc'[r] = "report" => source'[r] = NoScan
      BY <1>0, <1>6, <2>2 DEF Lookup
    <3>2. ListFindings(NoScan)' = <<>>
      BY <1>0, <1>1, NoScanHasNoFindings DEF TypeOK
    <3>3. material[r] = <<>> /\ asked[r] = <<>> /\ sent[r] = 0
      BY <1>0, <3>1 DEF MaterialByPc
    <3>4. ~Chunked(Len(material'[r]))
      BY <1>0, <1>2, <3>1, <3>3 DEF Chunked
    <3>5. pc'[r] = "report" => material'[r] = ListFindings(source[r])'
      BY <3>1, <3>2, <3>3 DEF ListFindings, Rows
    <3> QED  BY <1>3, <3>1, <3>3, <3>4, <3>5 DEF MaterialByPc
  <2> QED  BY <2>1, <2>2
<1>7. CASE Fetch(r)
  <2>1. CASE Raises("database", r, "fetch", "fail")
    BY <1>0, <1>3, <2>1 DEF Raises, MaterialByPc
  <2>2. CASE ~Raises("database", r, "fetch", "fail")
    <3> DEFINE list == ListFindings(source[r])
    <3>1. /\ pc[r] = "fetch" /\ UNCHANGED <<source, sent, triage, asked>>
          /\ pc'[r] = (IF Chunked(Cardinality(Rows(source[r]))) THEN "triage" ELSE "report")
          /\ material'[r] = list
      BY <1>0, <1>7, <2>2 DEF Fetch
    <3>2. list \in Seq(FindingRow) /\ Len(list) = Cardinality(Rows(source[r]))
      BY <1>0, FindingsAreListed DEF TypeOK
    <3>3. Len(list) \in Nat
      BY <3>2, LenProperties
    <3>4. asked[r] = <<>> /\ sent[r] = 0
      BY <1>0, <3>1 DEF MaterialByPc
    <3>5. list = ListFindings(source[r])'
      BY <1>1, <3>1 DEF ListFindings, Rows
    <3> HIDE DEF list
    <3>6. RunTypeOK(r)' /\ Collected(r)'
      BY <1>0, <1>2, <3>1, <3>2, <3>3, <3>4 DEF RunTypeOK, Collected
    <3>7. MaterialByPc(r)'
      BY <1>0, <1>2, <3>1, <3>2, <3>3, <3>4, <3>5 DEF MaterialByPc, Chunked
    <3> QED  BY <3>6, <3>7
  <2> QED  BY <2>1, <2>2
<1>8. CASE TriageBatch(r)
  <2>1. CASE Raises("model", r, "triage", "fail")
    BY <1>0, <1>3, <2>1 DEF Raises, MaterialByPc
  <2>2. CASE ~Raises("model", r, "triage", "fail")
    <3>1. PICK answer \in Answers :
              /\ pc[r] = "triage" /\ UNCHANGED <<source, material>>
              /\ pc' = [pc EXCEPT ![r] =
                           IF sent[r] + BatchSize < Len(material[r]) THEN "triage" ELSE "report"]
              /\ triage' = [triage EXCEPT ![r] = triage[r] \o answer]
              /\ asked' = [asked EXCEPT ![r] = asked[r] \o Batch(material[r], sent[r])]
              /\ sent' = [sent EXCEPT ![r] = sent[r] + BatchSize]
      BY <1>8, <2>2 DEF TriageBatch
    <3> DEFINE new == asked[r] \o Batch(material[r], sent[r])
               next == sent[r] + BatchSize
    <3>2. /\ new \in Seq(FindingRow)
          /\ Len(new) = IF next < Len(material[r]) THEN next ELSE Len(material[r])
          /\ \A k \in 1 .. Len(new) : new[k] = material[r][k]
      BY <1>0, <3>1, AskedGrows
    <3>3. /\ Chunked(Len(material[r])) /\ sent[r] < Len(material[r])
          /\ material[r] = ListFindings(source[r])
      BY <1>0, <3>1 DEF MaterialByPc
    <3>4. /\ asked'[r] = new /\ sent'[r] = next /\ material'[r] = material[r]
          /\ triage'[r] = triage[r] \o answer
          /\ pc'[r] = IF next < Len(material[r]) THEN "triage" ELSE "report"
      BY <1>0, <3>1
    <3>5. ListFindings(source[r])' = ListFindings(source[r])
      BY <1>1, <3>1 DEF ListFindings, Rows
    <3>6. next % BatchSize = 0 /\ sent[r] \in Nat
      BY <1>0, NextMultiple DEF RunTypeOK
    <3>7. triage'[r] \in Seq(Items)
      <4>1. triage[r] \in Seq(Items) /\ answer \in Seq(Items)
        BY <1>0, AnswersType DEF RunTypeOK
      <4> QED  BY <3>4, <4>1, ConcatProperties
    <3> HIDE DEF new, next
    <3>8. next \in 0 .. (Len(material[r]) + BatchSize - 1)
      BY <1>0, <3>3, <3>6 DEF next
    <3>9. RunTypeOK(r)'
      BY <1>0, <3>2, <3>4, <3>6, <3>7, <3>8 DEF RunTypeOK
    <3>10. Collected(r)'
      BY <1>0, <3>2, <3>4, <3>8 DEF Collected
    <3>11. MaterialByPc(r)'
      BY <1>0, <3>2, <3>3, <3>4, <3>5 DEF MaterialByPc
    <3> QED  BY <3>9, <3>10, <3>11
  <2> QED  BY <2>1, <2>2
<1>9. CASE ProduceReport(r)
  <2>1. CASE Raises("model", r, "report", "fail")
    BY <1>0, <1>3, <2>1 DEF Raises, MaterialByPc
  <2>2. CASE ~Raises("model", r, "report", "fail")
    <3>1. PICK items :
              /\ items \in Seq(Items) /\ pc[r] = "report"
              /\ pc'[r] = IF ToSet(items) \subseteq Sound THEN "save" ELSE "fail"
              /\ triage' = [triage EXCEPT ![r] = items]
              /\ UNCHANGED <<source, material, sent>>
              /\ \/ Chunked(Len(material[r])) /\ asked' = asked
                 \/ asked' = [asked EXCEPT ![r] = material[r]]
      <4>1. CASE Chunked(Len(material[r]))
        <5>1. triage[r] \in Seq(Items)
          BY <1>0 DEF RunTypeOK
        <5> QED  BY <1>0, <1>9, <2>2, <4>1, <5>1 DEF ProduceReport, BuildReport
      <4>2. CASE ~Chunked(Len(material[r]))
        BY <1>0, <1>9, <2>2, <4>2, AnswersType DEF ProduceReport, BuildReport
      <4> QED  BY <4>1, <4>2
    <3>2. /\ asked'[r] \in Seq(FindingRow) /\ Len(asked'[r]) = Len(material[r])
          /\ \A k \in 1 .. Len(asked'[r]) : asked'[r][k] = material[r][k]
      <4>1. CASE Chunked(Len(material[r])) /\ asked' = asked
        BY <1>0, <3>1, <4>1 DEF RunTypeOK, Collected, MaterialByPc
      <4>2. CASE asked' = [asked EXCEPT ![r] = material[r]]
        BY <1>0, <4>2 DEF RunTypeOK
      <4> QED  BY <3>1, <4>1, <4>2
    <3>3. triage'[r] = items /\ material'[r] = material[r] /\ sent'[r] = sent[r]
      BY <1>0, <3>1
    <3>4. ListFindings(source[r])' = material[r]
      <4>1. source'[r] = source[r] /\ material[r] = ListFindings(source[r])
        BY <1>0, <3>1 DEF MaterialByPc
      <4>2. ListFindings(source[r])' = ListFindings(source[r])
        BY <1>1, <4>1 DEF ListFindings, Rows
      <4> QED  BY <4>1, <4>2
    <3>5. RunTypeOK(r)' /\ Collected(r)'
      BY <1>0, <3>1, <3>2, <3>3 DEF RunTypeOK, Collected
    <3>6. MaterialByPc(r)'
      BY <1>0, <3>1, <3>2, <3>3, <3>4 DEF MaterialByPc
    <3> QED  BY <3>5, <3>6
  <2> QED  BY <2>1, <2>2
<1>10. CASE Save(r) \/ Finalise(r) \/ SendSummary(r) \/ HandleFailure(r) \/ Interrupt(r)
  <2>1. /\ UNCHANGED <<material, sent, triage, asked>>
        /\ pc'[r] \in {"finalise", "notify", "returned", "fail", "raised", "interrupted"}
    BY <1>0, <1>10 DEF Save, Finalise, SendSummary, HandleFailure, Interrupt, Raises
  <2> QED  BY <1>3, <2>1 DEF MaterialByPc
<1> QED
  BY <1>4, <1>5, <1>6, <1>7, <1>8, <1>9, <1>10 DEF StepOf, Step

\* A step of a run keeps every variable within its type.
LEMMA TypeStep ==
    ASSUME Typed, IsFiniteSet(findings), NEW r \in Runs, RunInv(r), StepOf(r)
    PROVE  Typed'
<1> USE DEF NoScan
<1>0. /\ TypeOK /\ Len(scans) \in Nat /\ scanId \in [Runs -> 0 .. Len(scans)]
      /\ pc \in [Runs -> PCs] /\ given \in [Runs -> Nat] /\ source \in [Runs -> Nat]
  BY ScansAreRows DEF Typed, TypeOK
<1>1. StoreTypeOK' /\ Len(scans') \in Nat /\ Len(scans) <= Len(scans')
  BY TouchesOwnScan DEF Touches
<1>2. scanId' \in [Runs -> 0 .. Len(scans')]
  <2>1. CASE scanId' = scanId
    BY <1>0, <1>1, <2>1
  <2>2. CASE scanId' = [scanId EXCEPT ![r] = Len(scans) + 1] /\ CreateScan(TargetOf[r], "analyze")
    <3>1. Len(scans') = Len(scans) + 1
      BY <1>0, <2>2, CreateFrame
    <3> QED  BY <1>0, <1>1, <2>2, <3>1
  <2> QED  BY <2>1, <2>2, ScanIdStep
<1>3. /\ pc' \in [Runs -> PCs] /\ given' \in [Runs -> Nat] /\ source' \in [Runs -> Nat]
      /\ Domains'
  <2>1. \E to \in PCs : pc' = [pc EXCEPT ![r] = to]
    BY DEF StepOf, Step, Begin, Create, Start, Lookup, Fetch, TriageBatch, ProduceReport, Save,
           Finalise, SendSummary, HandleFailure, Interrupt, BuildReport, Goto, Raises,
           PCs, Working, Ended
  <2>2. given' = given \/ \E scan \in Nat : given' = [given EXCEPT ![r] = scan]
    BY DEF StepOf, Step, Begin, Create, Start, Lookup, Fetch, TriageBatch, ProduceReport, Save,
           Finalise, SendSummary, HandleFailure, Interrupt, Raises
  <2>3. source' = source \/ \E id \in Nat : source' = [source EXCEPT ![r] = id]
    <3>1. LatestCompletedScan(TargetOf[r]) \in Nat
      BY <1>0, LatestIsCompleted DEF TypeOK
    <3>2. given[r] \in Nat
      BY <1>0
    <3>3. CASE Lookup(r)
      BY <3>1, <3>3 DEF Lookup, Raises
    <3>4. CASE Start(r)
      BY <3>2, <3>4 DEF Start, Raises
    <3>5. CASE ~Lookup(r) /\ ~Start(r)
      BY <3>5 DEF StepOf, Step, Begin, Create, Fetch, TriageBatch, ProduceReport, Save,
                  Finalise, SendSummary, HandleFailure, Interrupt, Raises
    <3> QED  BY <3>3, <3>4, <3>5
  <2>4. Domains'
    <3>1. /\ material' = material \/ \E new : material' = [material EXCEPT ![r] = new]
          /\ sent' = sent \/ \E new : sent' = [sent EXCEPT ![r] = new]
          /\ triage' = triage \/ \E new : triage' = [triage EXCEPT ![r] = new]
          /\ asked' = asked \/ \E new : asked' = [asked EXCEPT ![r] = new]
      BY DEF StepOf, Step, Begin, Create, Start, Lookup, Fetch, TriageBatch, ProduceReport,
             BuildReport, Save, Finalise, SendSummary, HandleFailure, Interrupt, Raises
    <3> QED  BY <3>1 DEF Typed, Domains
  <2> QED  BY <1>0, <2>1, <2>2, <2>3, <2>4
<1>4. \A q \in Runs : RunTypeOK(q)'
  <2>1. \A q \in Runs \ {r} : RunTypeOK(q)'
    BY LocalFrameHolds DEF LocalFrame, Typed, TypeOK, RunTypeOK
  <2>2. RunTypeOK(r)'
    BY MaterialStep
  <2> QED  BY <2>1, <2>2
<1>5. reports' \subseteq [scan : 1 .. Len(scans'), target : Targets,
                          findings_analyzed : Nat, triage : Seq(Items)]
  <2>1. \A g \in reports : g \in [scan : 1 .. Len(scans'), target : Targets,
                                  findings_analyzed : Nat, triage : Seq(Items)]
    BY <1>0, <1>1 DEF TypeOK
  <2>2. CASE reports' = reports
    BY <2>1, <2>2
  <2>3. CASE pc[r] = "save" /\ reports' = reports \cup {Report(r)}
    <3>1. scanId[r] \in 1 .. Len(scans')
      BY <1>0, <1>1, <2>3 DEF RunInv, RowFollowsPc
    <3>2. TargetOf[r] \in Targets
      BY TargetOfType
    <3>3. material[r] \in Seq(FindingRow) /\ triage[r] \in Seq(Items)
      BY <1>0 DEF TypeOK
    <3>4. Len(material[r]) \in Nat
      BY <3>3, LenProperties
    <3>5. Report(r) \in [scan : 1 .. Len(scans'), target : Targets,
                         findings_analyzed : Nat, triage : Seq(Items)]
      BY <3>1, <3>2, <3>3, <3>4 DEF Report
    <3> QED  BY <2>1, <2>3, <3>5
  <2> QED  BY <2>2, <2>3, ReportSource
<1> QED
  BY <1>1, <1>2, <1>3, <1>4, <1>5 DEF Typed, TypeOK, RunTypeOK

-----------------------------------------------------------------------------
(* Rows *)

\* The status of a run's row stays what the place of the run says.
LEMMA StatusStep ==
    ASSUME Typed, NEW r \in Runs, RunInv(r), StepOf(r)
    PROVE  RowFollowsPc(r)'
<1> USE DEF Goto, NoScan
<1>0. /\ TypeOK /\ Len(scans) \in Nat /\ scanId[r] \in 0 .. Len(scans)
      /\ DOMAIN pc = Runs /\ DOMAIN scanId = Runs
      /\ RowFollowsPc(r)
  BY ScansAreRows DEF Typed, TypeOK, RunInv
<1>1. ASSUME NEW status \in Statuses, SetStatus(scanId[r], status), scanId[r] # NoScan,
             scans[scanId[r]].status \in Closed => status \in Closed
      PROVE  scans'[scanId[r]].status = status
  BY <1>0, <1>1, StatusFrame
<1>2. ASSUME UNCHANGED <<scans, scanId>>, pc'[r] = pc[r] \/ pc'[r] \in {"raised", "interrupted"}
      PROVE  RowFollowsPc(r)'
  BY <1>0, <1>2 DEF RowFollowsPc
<1>3. ASSUME NEW scan, Begin(r, scan)
      PROVE  RowFollowsPc(r)'
  BY <1>0, <1>3 DEF Begin, RowFollowsPc, store
<1>4. CASE Create(r)
  <2>1. CASE Raises("database", r, "create", "raised")
    BY <1>0, <1>2, <2>1 DEF Raises, store
  <2>2. CASE ~Raises("database", r, "create", "raised")
    <3>1. /\ pc'[r] = "start" /\ scanId'[r] = Len(scans) + 1
          /\ CreateScan(TargetOf[r], "analyze")
      BY <1>0, <1>4, <2>2 DEF Create, NextScanId
    <3>2. scans'[Len(scans) + 1].status = "pending"
      BY <1>0, <3>1, CreateFrame
    <3> QED  BY <1>0, <3>1, <3>2 DEF RowFollowsPc
  <2> QED  BY <2>1, <2>2
<1>5. CASE Start(r)
  <2>1. CASE Raises("database", r, "start", "raised")
    BY <1>0, <1>2, <2>1 DEF Raises, store
  <2>2. CASE ~Raises("database", r, "start", "raised")
    <3>1. /\ pc[r] = "start" /\ pc'[r] \in {"lookup", "fetch"} /\ scanId'[r] = scanId[r]
          /\ SetStatus(scanId[r], "running")
      BY <1>0, <1>5, <2>2 DEF Start
    <3>2. scans'[scanId[r]].status = "running"
      BY <1>0, <1>1, <3>1 DEF RowFollowsPc, Statuses, Closed
    <3> QED  BY <1>0, <3>1, <3>2 DEF RowFollowsPc
  <2> QED  BY <2>1, <2>2
<1>6. CASE Lookup(r) \/ Fetch(r) \/ TriageBatch(r) \/ ProduceReport(r) \/ Save(r)
  <2>1. /\ UNCHANGED <<scans, scanId>>
        /\ pc[r] \in {"lookup", "fetch", "triage", "report", "save"}
        /\ pc'[r] \in {"fetch", "triage", "report", "save", "finalise", "fail"}
    BY <1>0, <1>6 DEF Lookup, Fetch, TriageBatch, ProduceReport, BuildReport, Save, Raises, store
  <2> QED  BY <1>0, <2>1 DEF RowFollowsPc
<1>7. CASE Finalise(r)
  <2>1. CASE Raises("database", r, "finalise", "fail")
    BY <1>0, <2>1 DEF Raises, store, RowFollowsPc
  <2>2. CASE ~Raises("database", r, "finalise", "fail")
    <3>1. /\ pc[r] = "finalise" /\ pc'[r] = "notify" /\ scanId'[r] = scanId[r]
          /\ SetStatus(scanId[r], "done")
      BY <1>0, <1>7, <2>2 DEF Finalise
    <3>2. scans'[scanId[r]].status = "done"
      BY <1>0, <1>1, <3>1 DEF RowFollowsPc, Statuses, Closed
    <3> QED  BY <1>0, <3>1, <3>2 DEF RowFollowsPc
  <2> QED  BY <2>1, <2>2
<1>8. CASE SendSummary(r)
  BY <1>0, <1>8 DEF SendSummary, Raises, store, RowFollowsPc
<1>9. CASE HandleFailure(r)
  BY <1>0, <1>9 DEF HandleFailure, Raises, RowFollowsPc
<1>10. CASE Interrupt(r)
  BY <1>0, <1>2, <1>10 DEF Interrupt, Raises, store
<1> QED
  BY <1>3, <1>4, <1>5, <1>6, <1>7, <1>8, <1>9, <1>10 DEF StepOf, Step

\* A new row is of the run's target, and no other run has it.
LEMMA RowsStep ==
    ASSUME Typed, PastIsKept, DistinctRows, ReportsAreOwned, NEW r \in Runs, RunInv(r), StepOf(r)
    PROVE  RowIsNew(r)' /\ DistinctRows' /\ PastIsKept' /\ ReportsAreOwned'
<1> USE DEF NoScan
<1>0. /\ TypeOK /\ Len(scans) \in Nat /\ scanId \in [Runs -> 0 .. Len(scans)]
      /\ Touches(scanId[r]) /\ RowIsNew(r)
      /\ Len(PastScans) \in Nat
  BY ScansAreRows, TouchesOwnScan, PastType, LenProperties DEF Typed, TypeOK, RunInv
<1>1. ASSUME scanId[r] # NoScan
      PROVE  scanId[r] \in 1 .. Len(scans) /\ scanId[r] > Len(PastScans)
  BY <1>0, <1>1 DEF RowIsNew
<1>2. PastIsKept'
  <2>1. ASSUME NEW i \in 1 .. Len(PastScans)
        PROVE  scans'[i] = PastScans[i]
    <3>1. i \in 1 .. Len(scans) /\ i # scanId[r]
      BY <1>0, <1>1, <2>1 DEF PastIsKept
    <3> QED  BY <1>0, <3>1 DEF Touches, PastIsKept
  <2> QED  BY <1>0, <2>1 DEF Touches, PastIsKept
<1>3. CASE scanId' = scanId
  <2>1. RowIsNew(r)'
    BY <1>0, <1>1, <1>3 DEF RowIsNew, Touches
  <2>2. DistinctRows'
    BY <1>3 DEF DistinctRows
  <2>3. ReportsAreOwned'
    BY <1>3, ReportSource DEF ReportsAreOwned, Report
  <2> QED  BY <1>2, <2>1, <2>2, <2>3
<1>4. CASE scanId[r] = NoScan /\ reports' = reports
           /\ scanId' = [scanId EXCEPT ![r] = Len(scans) + 1] /\ CreateScan(TargetOf[r], "analyze")
  <2>1. /\ scans'[Len(scans) + 1].target = TargetOf[r]
        /\ scans'[Len(scans) + 1].agent = "analyze"
    BY <1>0, <1>4, CreateFrame
  <2>2. scanId'[r] = Len(scans) + 1 /\ \A q \in Runs \ {r} : scanId'[q] = scanId[q]
    BY <1>0, <1>4
  <2>3. RowIsNew(r)'
    BY <1>0, <2>1, <2>2 DEF RowIsNew, PastIsKept
  <2>4. DistinctRows'
    BY <1>0, <2>2 DEF DistinctRows
  <2>5. ReportsAreOwned'
    <3> SUFFICES ASSUME NEW g \in reports
                 PROVE  \E q \in Runs : scanId'[q] = g.scan
      BY <1>4 DEF ReportsAreOwned
    <3>1. PICK q \in Runs : scanId[q] = g.scan
      BY DEF ReportsAreOwned
    <3>2. g.scan # NoScan
      BY <1>0 DEF TypeOK
    <3>3. q # r
      BY <1>4, <3>1, <3>2
    <3> QED  BY <2>2, <3>1, <3>3
  <2> QED  BY <1>2, <2>3, <2>4, <2>5
<1> QED  BY <1>3, <1>4, ScanIdStep

-----------------------------------------------------------------------------
(* The scan a run takes, and its report *)

\* A run keeps what it knows of the scan it is about.
LEMMA SourceStep ==
    ASSUME Typed, PastIsKept, NEW r \in Runs, RunInv(r), StepOf(r)
    PROVE  SourceFollowsPc(r)'
<1> USE DEF Goto, NoScan
<1>0. /\ TypeOK /\ StoreTypeOK /\ Len(scans) \in Nat /\ scanId[r] \in 0 .. Len(scans)
      /\ DOMAIN pc = Runs /\ DOMAIN given = Runs /\ DOMAIN scanId = Runs /\ DOMAIN source = Runs
      /\ Touches(scanId[r]) /\ SourceFollowsPc(r)
  BY ScansAreRows, TouchesOwnScan DEF Typed, TypeOK, RunInv
<1>1. ASSUME NEW i \in 1 .. Len(scans), scans[i].status \in Closed
      PROVE  /\ i \in 1 .. Len(scans') /\ scans'[i].status \in Closed
             /\ scans'[i].target = scans[i].target
  BY <1>0, <1>1 DEF Touches
<1>2. ASSUME UNCHANGED <<given, scanId, source>>,
             pc'[r] \notin {"idle", "create", "start", "lookup"},
             \/ pc[r] \notin {"idle", "create", "start", "raised", "interrupted"}
             \/ pc'[r] \in {"raised", "interrupted"}
      PROVE  SourceFollowsPc(r)'
  BY <1>0, <1>1, <1>2 DEF SourceFollowsPc, TakesGiven
<1>3. ASSUME NEW scan, Begin(r, scan)
      PROVE  SourceFollowsPc(r)'
  BY <1>0, <1>3 DEF Begin, SourceFollowsPc, TakesGiven
<1>4. CASE Create(r)
  BY <1>0, <1>4 DEF Create, Raises, SourceFollowsPc, TakesGiven
<1>5. CASE Start(r)
  BY <1>0, <1>5 DEF Start, Raises, SourceFollowsPc, TakesGiven
<1>6. CASE Lookup(r)
  <2>1. CASE Raises("database", r, "lookup", "fail")
    BY <1>0, <1>2, <2>1 DEF Raises
  <2>2. CASE ~Raises("database", r, "lookup", "fail")
    <3> DEFINE latest == LatestCompletedScan(TargetOf[r])
    <3>1. /\ pc[r] = "lookup" /\ pc'[r] \in {"report", "fetch"}
          /\ source'[r] = latest /\ given'[r] = NoScan /\ UNCHANGED <<scans, given, scanId>>
      BY <1>0, <1>6, <2>2 DEF Lookup, store, SourceFollowsPc
    <3>2. CASE latest = NoScan
      BY <3>1, <3>2 DEF SourceFollowsPc, TakesGiven
    <3>3. CASE latest # NoScan
      <4>1. /\ latest \in 1 .. Len(scans)
            /\ scans[latest].target = TargetOf[r] /\ scans[latest].status = "done"
        BY <1>0, <3>3, LatestIsCompleted
      <4>2. scans[scanId[r]].status = "running"
        BY <3>1 DEF RunInv, RowFollowsPc
      <4>3. latest \in DOMAIN PastScans => PastScans[latest].status = "done"
        <5>1. DOMAIN PastScans = 1 .. Len(PastScans)
          BY PastType, LenProperties
        <5> QED  BY <4>1, <5>1 DEF PastIsKept
      <4> HIDE DEF latest
      <4> QED  BY <3>1, <4>1, <4>2, <4>3 DEF SourceFollowsPc, TakesGiven, Closed
    <3> QED  BY <3>2, <3>3
  <2> QED  BY <2>1, <2>2
<1>7. CASE \/ Fetch(r) \/ TriageBatch(r) \/ ProduceReport(r) \/ Save(r)
           \/ Finalise(r) \/ SendSummary(r) \/ HandleFailure(r) \/ Interrupt(r)
  <2>1. /\ UNCHANGED <<given, scanId, source>>
        /\ pc'[r] \notin {"idle", "create", "start", "lookup"}
        /\ \/ pc[r] \notin {"idle", "create", "start", "raised", "interrupted"}
           \/ pc'[r] \in {"raised", "interrupted"}
    BY <1>0, <1>7 DEF Fetch, TriageBatch, ProduceReport, BuildReport, Save, Finalise, SendSummary,
                      HandleFailure, Interrupt, Raises
  <2> QED  BY <1>2, <2>1
<1> QED
  BY <1>3, <1>4, <1>5, <1>6, <1>7 DEF StepOf, Step

\* The report is written once, before the scan is marked done, from what no
\* later step changes.
LEMMA ReportStep ==
    ASSUME Typed, ReportsAreOwned, NEW r \in Runs, RunInv(r), StepOf(r)
    PROVE  ReportByPc(r)'
<1> USE DEF Goto, NoScan
<1>0. /\ TypeOK /\ StoreTypeOK /\ Len(scans) \in Nat /\ scanId[r] \in 0 .. Len(scans)
      /\ DOMAIN pc = Runs /\ DOMAIN scanId = Runs
      /\ findings' = findings
      /\ RowFollowsPc(r) /\ SourceFollowsPc(r) /\ ReportByPc(r) /\ MaterialByPc(r)
  BY ScansAreRows, TouchesOwnScan DEF Typed, TypeOK, RunInv
<1>1. \A id : ListFindings(id)' = ListFindings(id)
  BY <1>0 DEF ListFindings, Rows
<1>2. ASSUME UNCHANGED <<scanId, reports>>
      PROVE  OwnReports(r)' = OwnReports(r)
  BY <1>2 DEF OwnReports
<1>3. ASSUME UNCHANGED <<scanId, material, triage>>
      PROVE  Report(r)' = Report(r)
  BY <1>3 DEF Report
<1>4. ASSUME UNCHANGED <<scanId, reports>>, OwnReports(r) = {},
             pc'[r] # "finalise",
             scanId[r] # NoScan => scans'[scanId[r]].status # "done"
      PROVE  ReportByPc(r)'
  BY <1>2, <1>4 DEF ReportByPc
<1>5. ASSUME UNCHANGED <<scanId, reports, given, source, material, triage, asked>>,
             pc'[r] \in {"notify", "returned", "fail", "raised", "interrupted"},
             scanId[r] # NoScan =>
                 (scans'[scanId[r]].status = "done" => OwnReports(r) = {Report(r)})
      PROVE  ReportByPc(r)'
  <2>1. Whole(r)' = Whole(r)
    <3>1. ListFindings(source[r])' = ListFindings(source[r])
      BY <1>1, <1>5 DEF ListFindings, Rows
    <3> QED  BY <1>5, <3>1 DEF Whole, TakesGiven
  <2> QED  BY <1>0, <1>2, <1>3, <1>5, <2>1 DEF ReportByPc
<1>6. ASSUME NEW status \in Statuses, SetStatus(scanId[r], status), scanId[r] # NoScan,
             scans[scanId[r]].status \in Closed => status \in Closed
      PROVE  scans'[scanId[r]].status = status
  BY <1>0, <1>6, StatusFrame
<1>7. CASE \E scan \in Nat : Begin(r, scan)
  BY <1>0, <1>4, <1>7 DEF Begin, RowFollowsPc, ReportByPc
<1>8. CASE Create(r)
  <2>1. CASE Raises("database", r, "create", "raised")
    BY <1>0, <1>4, <2>1 DEF Raises, RowFollowsPc, ReportByPc
  <2>2. CASE ~Raises("database", r, "create", "raised")
    <3>1. /\ pc'[r] = "start" /\ scanId'[r] = Len(scans) + 1 /\ reports' = reports
          /\ CreateScan(TargetOf[r], "analyze")
      BY <1>0, <1>8, <2>2 DEF Create, NextScanId
    <3>2. scans'[Len(scans) + 1].status = "pending"
      BY <1>0, <3>1, CreateFrame
    <3>3. OwnReports(r)' = {}
      <4>1. \A g \in reports : g.scan \in 1 .. Len(scans)
        BY <1>0 DEF TypeOK
      <4> QED  BY <1>0, <3>1, <4>1 DEF OwnReports
    <3> QED  BY <3>1, <3>2, <3>3 DEF ReportByPc
  <2> QED  BY <2>1, <2>2
<1>9. CASE Start(r)
  <2>1. CASE Raises("database", r, "start", "raised")
    BY <1>0, <1>4, <2>1 DEF Raises, store, RowFollowsPc, ReportByPc
  <2>2. CASE ~Raises("database", r, "start", "raised")
    <3>1. /\ pc[r] = "start" /\ pc'[r] \in {"lookup", "fetch"}
          /\ SetStatus(scanId[r], "running") /\ UNCHANGED <<scanId, reports>>
      BY <1>0, <1>9, <2>2 DEF Start
    <3>2. scans'[scanId[r]].status = "running"
      BY <1>0, <1>6, <3>1 DEF RowFollowsPc, Statuses, Closed
    <3> QED  BY <1>0, <1>4, <3>1, <3>2 DEF ReportByPc
  <2> QED  BY <2>1, <2>2
<1>10. CASE Lookup(r) \/ Fetch(r) \/ TriageBatch(r) \/ ProduceReport(r)
  <2>1. /\ UNCHANGED <<scans, scanId, reports>>
        /\ pc[r] \in {"lookup", "fetch", "triage", "report"} /\ pc'[r] # "finalise"
    BY <1>0, <1>10 DEF Lookup, Fetch, TriageBatch, ProduceReport, BuildReport, Raises, store
  <2> QED  BY <1>0, <1>4, <2>1 DEF RowFollowsPc, ReportByPc
<1>11. CASE Save(r)
  <2>1. CASE Raises("database", r, "save", "fail")
    BY <1>0, <1>4, <2>1 DEF Raises, store, RowFollowsPc, ReportByPc
  <2>2. CASE ~Raises("database", r, "save", "fail")
    <3>1. /\ pc[r] = "save" /\ pc'[r] = "finalise" /\ reports' = reports \cup {Report(r)}
          /\ UNCHANGED <<scans, scanId, given, source, material, triage, asked>>
      BY <1>0, <1>11, <2>2 DEF Save, store
    <3>2. OwnReports(r)' = {Report(r)}
      BY <1>0, <3>1 DEF ReportByPc, OwnReports, Report
    <3>3. Whole(r)'
      <4>1. ListFindings(source[r])' = ListFindings(source[r])
        BY <1>1, <3>1 DEF ListFindings, Rows
      <4> QED  BY <1>0, <3>1, <4>1 DEF Whole, MaterialByPc, SourceFollowsPc, TakesGiven
    <3>4. Report(r)' = Report(r)
      BY <1>3, <3>1
    <3> QED  BY <3>1, <3>2, <3>3, <3>4 DEF ReportByPc
  <2> QED  BY <2>1, <2>2
<1>12. CASE Finalise(r)
  <2>1. CASE Raises("database", r, "finalise", "fail")
    BY <1>0, <1>5, <2>1 DEF Raises, store, ReportByPc
  <2>2. CASE ~Raises("database", r, "finalise", "fail")
    <3>1. /\ pc[r] = "finalise" /\ pc'[r] = "notify"
          /\ UNCHANGED <<scanId, reports, given, source, material, triage, asked>>
      BY <1>0, <1>12, <2>2 DEF Finalise
    <3> QED  BY <1>0, <1>5, <3>1 DEF ReportByPc
  <2> QED  BY <2>1, <2>2
<1>13. CASE SendSummary(r)
  BY <1>0, <1>5, <1>13 DEF SendSummary, Raises, store, ReportByPc
<1>14. CASE HandleFailure(r)
  <2>1. CASE Raises("database", r, "fail", "raised")
    BY <1>0, <1>5, <2>1 DEF Raises, store, ReportByPc
  <2>2. CASE ~Raises("database", r, "fail", "raised")
    <3>1. /\ pc[r] = "fail" /\ pc'[r] = "raised" /\ SetStatus(scanId[r], "failed")
          /\ UNCHANGED <<scanId, reports, given, source, material, triage, asked>>
      BY <1>0, <1>14, <2>2 DEF HandleFailure
    <3>2. scans'[scanId[r]].status = "failed"
      BY <1>0, <1>6, <3>1 DEF RowFollowsPc, Statuses, Closed
    <3> QED  BY <1>5, <3>1, <3>2
  <2> QED  BY <2>1, <2>2
<1>15. CASE Interrupt(r)
  BY <1>0, <1>5, <1>15 DEF Interrupt, Raises, store, ReportByPc
<1> QED
  BY <1>7, <1>8, <1>9, <1>10, <1>11, <1>12, <1>13, <1>14, <1>15 DEF StepOf, Step

-----------------------------------------------------------------------------
(* The invariant *)

\* What a run knows of its own row and of the scan it is about survives a step
\* that works for another scan, whichever agent takes it, and leaves the
\* findings of the one it is about.
LEMMA OthersKept ==
    ASSUME Typed, NEW id, Touches(id), NEW q \in Runs, RunInv(q),
           scanId[q] = NoScan \/ scanId[q] # id,
           pc'[q] = pc[q], given'[q] = given[q], scanId'[q] = scanId[q],
           source'[q] = source[q], material'[q] = material[q], triage'[q] = triage[q],
           sent'[q] = sent[q], asked'[q] = asked[q], OwnReports(q)' = OwnReports(q),
           {f \in findings' : f.scan = source[q]} = Rows(source[q])
    PROVE  RunInv(q)'
<1> USE DEF NoScan
<1>0. Len(scans) \in Nat /\ scanId[q] \in 0 .. Len(scans)
  BY ScansAreRows DEF Typed, TypeOK
<1>1. scanId[q] # NoScan => scans'[scanId[q]] = scans[scanId[q]]
  BY <1>0 DEF Touches
<1>2. ListFindings(source[q])' = ListFindings(source[q])
  BY DEF ListFindings, Rows
<1>3. RowFollowsPc(q)'
  BY <1>1 DEF RunInv, RowFollowsPc
<1>4. RowIsNew(q)'
  BY <1>1 DEF RunInv, RowIsNew
<1>5. SourceFollowsPc(q)'
  BY DEF RunInv, SourceFollowsPc, TakesGiven, Touches
<1>6. Collected(q)' /\ MaterialByPc(q)'
  BY <1>2 DEF RunInv, Collected, MaterialByPc
<1>7. ReportByPc(q)'
  <2>1. Report(q)' = Report(q) /\ (Whole(q)' <=> Whole(q))
    BY <1>2 DEF Report, Whole, TakesGiven
  <2> QED  BY <1>1, <2>1 DEF RunInv, ReportByPc
<1> QED  BY <1>3, <1>4, <1>5, <1>6, <1>7 DEF RunInv

\* A run that began has begun for good.
LEMMA PcStep ==
    ASSUME Typed, NEW r \in Runs, StepOf(r)
    PROVE  pc'[r] # "idle"
BY DEF Typed, TypeOK, StepOf, Step, Goto, Begin, Create, Start, Lookup, Fetch, TriageBatch,
       ProduceReport, BuildReport, Save, Finalise, SendSummary, HandleFailure, Interrupt, Raises, Working

\* What a step writes: nothing, the run's row, its status, or its report.
LEMMA StoreStep ==
    ASSUME Typed, NEW r \in Runs, RunInv(r), StepOf(r)
    PROVE  \/ UNCHANGED <<store, reports>>
           \/ CreateScan(TargetOf[r], "analyze") /\ reports' = reports
           \/ /\ scanId[r] # NoScan /\ reports' = reports
              /\ LET old == scans[scanId[r]].status
                 IN  \/ SetStatus(scanId[r], "running") /\ old = "pending"
                     \/ SetStatus(scanId[r], "done") /\ old = "running"
                     \/ SetStatus(scanId[r], "failed") /\ old \in {"running", "done"}
           \/ /\ scanId[r] # NoScan /\ UNCHANGED store
              /\ scans[scanId[r]].status = "running"
              /\ reports' = reports \cup {Report(r)}
<1> USE DEF Goto, Raises, RunInv, RowFollowsPc
<1>1. CASE Create(r)
  BY <1>1 DEF Create
<1>2. CASE Start(r)
  BY <1>2 DEF Start
<1>3. CASE Finalise(r)
  BY <1>3 DEF Finalise
<1>4. CASE HandleFailure(r)
  BY <1>4 DEF HandleFailure
<1>5. CASE Save(r)
  BY <1>5 DEF Save
<1>6. CASE \/ \E scan \in Nat : Begin(r, scan)
           \/ Lookup(r) \/ Fetch(r) \/ TriageBatch(r) \/ ProduceReport(r)
           \/ SendSummary(r) \/ Interrupt(r)
  BY <1>6 DEF Begin, Lookup, Fetch, TriageBatch, ProduceReport, SendSummary, Interrupt
<1> QED
  BY <1>1, <1>2, <1>3, <1>4, <1>5, <1>6 DEF StepOf, Step

\* A stored report is about the scan its run takes: the model was asked about
\* all its findings, and the report counts them.
LEMMA ReportIsOfSource ==
    ASSUME SharedInv, NEW r \in Runs, NEW g \in reports, g.scan = scanId[r]
    PROVE  /\ TakesGiven(r)
           /\ asked[r] = ListFindings(source[r])
           /\ g.findings_analyzed = Cardinality(Rows(source[r]))
           /\ ToSet(g.triage) \subseteq Sound
<1>1. g = Report(r) /\ Whole(r)
  BY DEF SharedInv, RunInv, ReportByPc, OwnReports
<1>2. /\ material[r] \in Seq(FindingRow) /\ asked[r] \in Seq(FindingRow)
      /\ Collected(r) /\ StoreTypeOK /\ IsFiniteSet(findings)
  BY DEF SharedInv, Typed, TypeOK, RunInv
<1>3. /\ asked[r] \in [1 .. Len(asked[r]) -> FindingRow]
      /\ material[r] \in [1 .. Len(material[r]) -> FindingRow]
  BY <1>2, LenProperties
<1>4. asked[r] = material[r]
  BY <1>1, <1>2, <1>3 DEF Whole, Collected
<1>5. g.findings_analyzed = Cardinality(Rows(source[r]))
  <2>1. g.findings_analyzed = Len(material[r])
    BY <1>1 DEF Report
  <2> QED  BY <1>1, <1>2, <2>1, FindingsAreListed DEF Whole
<1>6. ToSet(g.triage) \subseteq Sound
  BY <1>1 DEF Report, Whole
<1> QED  BY <1>1, <1>4, <1>5, <1>6 DEF Whole

\* A run leaves the reports of the others.
LEMMA OthersReports ==
    ASSUME Typed, DistinctRows, NEW r \in Runs, NEW q \in Runs \ {r}, StepOf(r), RunInv(r),
           scanId'[q] = scanId[q]
    PROVE  OwnReports(q)' = OwnReports(q)
<1>1. CASE reports' = reports
  BY <1>1 DEF OwnReports
<1>2. CASE pc[r] = "save" /\ reports' = reports \cup {Report(r)}
  <2>1. scanId[r] # NoScan
    BY <1>2 DEF RunInv, RowFollowsPc
  <2>2. Report(r).scan # scanId[q]
    BY <2>1 DEF Report, DistinctRows
  <2> QED  BY <1>2, <2>2 DEF OwnReports
<1> QED  BY <1>1, <1>2, ReportSource

\* A step of an analysis, whoever else writes to the tables.
LEMMA SharedStep ==
    ASSUME SharedInv, NEW r \in Runs, StepOf(r)
    PROVE  SharedInv' /\ Touches(scanId[r]) /\ findings' = findings
<1>1. /\ Typed /\ IsFiniteSet(findings) /\ PastIsKept /\ DistinctRows /\ ReportsAreOwned
      /\ RunInv(r)
  BY DEF SharedInv
<1>2. Touches(scanId[r]) /\ findings' = findings /\ LocalFrame(r)
  BY <1>1, TouchesOwnScan, LocalFrameHolds
<1>3. Typed' /\ PastIsKept' /\ DistinctRows' /\ ReportsAreOwned' /\ RowIsNew(r)'
  BY <1>1, TypeStep, RowsStep
<1>4. RunInv(r)'
  BY <1>1, <1>3, StatusStep, SourceStep, MaterialStep, ReportStep DEF RunInv
<1>5. ASSUME NEW q \in Runs \ {r} PROVE RunInv(q)'
  <2>1. RunInv(q) /\ (scanId[q] = NoScan \/ scanId[q] # scanId[r])
    BY <1>1 DEF SharedInv, DistinctRows
  <2>2. OwnReports(q)' = OwnReports(q)
    BY <1>1, <1>2, OthersReports DEF LocalFrame
  <2>3. {f \in findings' : f.scan = source[q]} = Rows(source[q])
    BY <1>2 DEF Rows
  <2> QED  BY <1>1, <1>2, <2>1, <2>2, <2>3, OthersKept DEF LocalFrame
<1>6. IsFiniteSet(findings')
  BY <1>1, <1>2
<1> QED  BY <1>2, <1>3, <1>4, <1>5, <1>6 DEF SharedInv

\* A step of another agent, for a scan that is no analysis and not from before.
LEMMA SharedKept ==
    ASSUME SharedInv, NEW id \in 0 .. Len(scans), Touches(id), UNCHANGED <<reports, agent>>,
           id = NoScan \/ id > Len(PastScans),
           \A q \in Runs : /\ scanId[q] = NoScan \/ scanId[q] # id
                           /\ {f \in findings' : f.scan = source[q]} = Rows(source[q])
    PROVE  SharedInv'
<1> USE DEF NoScan
<1>0. /\ Typed /\ TypeOK /\ PastIsKept /\ DistinctRows /\ ReportsAreOwned
      /\ Len(scans) \in Nat /\ Len(scans') \in Nat /\ Len(scans) <= Len(scans')
      /\ Len(PastScans) \in Nat
      /\ UNCHANGED <<reports, pc, given, scanId, source, material, sent, triage, asked>>
  BY ScansAreRows, PastType, LenProperties DEF SharedInv, Typed, TypeOK, Touches, agent
<1>1. Typed'
  <2>1. scanId \in [Runs -> 0 .. Len(scans')]
    BY <1>0 DEF TypeOK
  <2>2. reports \subseteq [scan : 1 .. Len(scans'), target : Targets,
                           findings_analyzed : Nat, triage : Seq(Items)]
    BY <1>0 DEF TypeOK
  <2> QED  BY <1>0, <2>1, <2>2 DEF Typed, TypeOK, Domains, Touches
<1>2. DistinctRows' /\ ReportsAreOwned'
  BY <1>0 DEF DistinctRows, ReportsAreOwned
<1>3. PastIsKept'
  BY <1>0 DEF PastIsKept, Touches
<1>4. \A q \in Runs : RunInv(q)'
  <2> SUFFICES ASSUME NEW q \in Runs PROVE RunInv(q)'
    OBVIOUS
  <2>1. OwnReports(q)' = OwnReports(q)
    BY <1>0 DEF OwnReports
  <2> QED  BY <1>0, <2>1, OthersKept DEF SharedInv
<1>5. IsFiniteSet(findings')
  BY DEF SharedInv, Touches
<1> QED  BY <1>1, <1>2, <1>3, <1>4, <1>5 DEF SharedInv

\* What is relied on beside other agents holds before any of them starts.
LEMMA InitShared == Init => SharedInv
<1> SUFFICES ASSUME Init PROVE SharedInv
  OBVIOUS
<1> USE DEF NoScan
<1>1. Typed
  BY InitTyped
<1>2. scans = PastScans /\ findings = PastFindings /\ reports = {}
  BY DEF Init, AgentInit
<1>3. \A r \in Runs : /\ pc[r] = "idle" /\ scanId[r] = NoScan /\ source[r] = NoScan
                      /\ material[r] = <<>> /\ asked[r] = <<>> /\ sent[r] = 0
  BY DEF Init, AgentInit
<1>4. PastIsKept /\ DistinctRows /\ ReportsAreOwned
  <2>1. Len(PastScans) \in Nat
    BY PastType, LenProperties
  <2> QED  BY <1>2, <1>3, <2>1 DEF PastIsKept, DistinctRows, ReportsAreOwned
<1>5. Len(<<>>) = 0
  OBVIOUS
<1>6. \A r \in Runs : RunInv(r)
  BY <1>2, <1>3, <1>5 DEF RunInv, RowFollowsPc, RowIsNew, SourceFollowsPc, TakesGiven, Collected,
     MaterialByPc, ReportByPc, OwnReports
<1>7. IsFiniteSet(findings)
  BY <1>2, PastType
<1> QED  BY <1>1, <1>4, <1>6, <1>7 DEF SharedInv

\* Every step of every run keeps what is relied on beside other agents.
LEMMA StepShared == SharedInv /\ [Next]_vars => SharedInv'
<1> SUFFICES ASSUME SharedInv, [Next]_vars PROVE SharedInv'
  OBVIOUS
<1>1. CASE Next
  <2>1. PICK r \in Runs : StepOf(r)
    BY <1>1, CalledWithType DEF Next, StepOf
  <2> QED  BY <2>1, SharedStep
<1>2. CASE UNCHANGED vars
  <2>1. UNCHANGED <<scans, assets, findings, reports, pc, given, scanId, source, material,
                    sent, triage, asked>>
    BY <1>2 DEF vars, store, agent
  <2>2. \A r \in Runs :
            /\ Report(r)' = Report(r) /\ OwnReports(r)' = OwnReports(r)
            /\ ListFindings(source[r])' = ListFindings(source[r])
    BY <2>1 DEF Report, OwnReports, ListFindings, Rows
  <2>3. Typed'
    BY <2>1 DEF SharedInv, Typed, TypeOK, Domains, StoreTypeOK
  <2>4. PastIsKept' /\ DistinctRows' /\ ReportsAreOwned'
    BY <2>1 DEF SharedInv, PastIsKept, DistinctRows, ReportsAreOwned
  <2>5. ASSUME NEW r \in Runs
        PROVE  RunInv(r)'
    <3>1. RunInv(r)
      BY DEF SharedInv
    <3>2. RowFollowsPc(r)' /\ RowIsNew(r)' /\ SourceFollowsPc(r)'
      BY <2>1, <3>1 DEF RunInv, RowFollowsPc, RowIsNew, SourceFollowsPc, TakesGiven
    <3>3. Collected(r)' /\ MaterialByPc(r)' /\ ReportByPc(r)'
      BY <2>1, <2>2, <3>1 DEF RunInv, Collected, MaterialByPc, ReportByPc, Whole, TakesGiven
    <3> QED  BY <3>2, <3>3 DEF RunInv
  <2>6. IsFiniteSet(findings')
    BY <2>1 DEF SharedInv
  <2> QED  BY <2>3, <2>4, <2>5, <2>6 DEF SharedInv
<1> QED  BY <1>1, <1>2

\* The strengthening that carries every invariant below.
THEOREM Invariance == Spec => []SharedInv
BY InitShared, StepShared, PTL DEF Spec

\* Every variable keeps its type, and the loop over the batches stops at the
\* one that holds the last finding, whatever the size of a batch.
THEOREM TypeCorrectness == Spec => []TypeOK
<1>1. SharedInv => TypeOK
  BY DEF SharedInv, Typed
<1> QED  BY <1>1, Invariance, PTL

\* _chunked_analysis leaves out no finding, repeats none and changes no order:
\* what the model was asked about before a report is stored are all the findings
\* of its scan, for every number of them, every size of a batch and whatever
\* lists the model answers with.
THEOREM StoredReportsCoverTheirScan == Spec => []ReportsCoverTheirScan
<1>1. SharedInv => ReportsCoverTheirScan
  <2> SUFFICES ASSUME SharedInv, NEW g \in reports
               PROVE  \E r \in Runs :
                          /\ scanId[r] = g.scan
                          /\ asked[r] = ListFindings(source[r])
                          /\ g.findings_analyzed = Cardinality(Rows(source[r]))
                          /\ ToSet(g.triage) \subseteq Sound
    BY DEF ReportsCoverTheirScan
  <2>1. PICK r \in Runs : scanId[r] = g.scan
    BY DEF SharedInv, ReportsAreOwned
  <2> QED  BY <2>1, ReportIsOfSource DEF SharedInv
<1> QED  BY <1>1, Invariance, PTL

\* run() marks no scan done that has no report, and stores none for a scan that
\* is not about to be.
THEOREM DoneScansHaveAReport == Spec => []DoneHasItsReport
<1>1. SharedInv => DoneHasItsReport
  <2> SUFFICES ASSUME SharedInv, NEW r \in Runs, scanId[r] # NoScan
               PROVE  /\ scans[scanId[r]].status = "done" =>
                             \E g \in OwnReports(r) : OwnReports(r) = {g} /\ g.target = TargetOf[r]
                      /\ pc[r] \in {"start", "lookup", "fetch", "triage", "report", "save"} =>
                             OwnReports(r) = {}
    BY DEF DoneHasItsReport, OwnReports
  <2>1. ReportByPc(r)
    BY DEF SharedInv, RunInv
  <2>2. Report(r).target = TargetOf[r]
    BY DEF Report
  <2> QED  BY <2>1, <2>2 DEF ReportByPc
<1> QED  BY <1>1, Invariance, PTL

\* get_latest_completed_scan_id never picks the row the analysis itself has
\* just created, nor a scan that was cut off, whatever else is being analysed.
THEOREM ChosenScansHadCompleted == Spec => []SourceHadCompleted
<1>1. SharedInv => SourceHadCompleted
  BY DEF SharedInv, RunInv, SourceFollowsPc, SourceHadCompleted, Closed
<1> QED  BY <1>1, Invariance, PTL

=============================================================================
