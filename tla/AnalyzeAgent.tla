----------------------------- MODULE AnalyzeAgent -----------------------------
(***************************************************************************)
(* AnalyzeAgent.run (src/vanguard_x/agents/analyze.py): the findings of    *)
(* one scan are sent to a language model, in one call or, when there are   *)
(* more than BatchSize, in batches followed by a synthesis, and the report *)
(* is stored before the scan is marked done.                               *)
(*                                                                         *)
(* Runs is a set of invocations over one database; the code between two    *)
(* awaits is one action.  The model answers what it likes: a triage list   *)
(* of any length, missing and empty ones among them, whose items may name  *)
(* any finding or none; an item that is not sound raises, but only when    *)
(* the report is built.                                                    *)
(***************************************************************************)
EXTENDS ScanStore, SequencesExt

CONSTANTS
    Runs,         \* invocations of AnalyzeAgent.run
    TargetOf,     \* the target each is given
    CalledWith,   \* the scan ids each may be given; NoScan stands for None
    BatchSize,    \* _BATCH_SIZE
    Items,        \* what the model may say of a finding
    Sound,        \* the items that _build_report accepts
    Answers,      \* the triage lists the model may give; a missing one counts as <<>>
    PastScans,    \* the tables when the first run starts
    PastFindings,
    Faults        \* which failures occur: "database", "model", "notifier", "interrupt"

ASSUME TargetOfType == TargetOf \in [Runs -> Targets]
ASSUME CalledWithType == CalledWith \in [Runs -> SUBSET Nat]
ASSUME BatchSizeType == BatchSize \in Nat \ {0}
ASSUME AnswersType == Sound \subseteq Items /\ Answers \subseteq Seq(Items)
ASSUME PastType ==
    /\ PastScans \in Seq(ScanRow)
    /\ PastFindings \subseteq FindingRow /\ IsFiniteSet(PastFindings)
ASSUME AnalyzeIsAnAgent == "analyze" \in Agents

VARIABLES
    reports,    \* rows of table analysis_reports
    pc,         \* pc[r]: the await run r is at
    given,      \* given[r]: its argument scan_id
    scanId,     \* scanId[r]: the id of its own row
    source,     \* source[r]: the scan whose findings it takes
    material,   \* material[r]: those findings, in list order
    sent,       \* sent[r]: the loop variable, how many were sent in batches
    triage,     \* triage[r]: all_triage
    asked       \* asked[r]: the findings in the prompts the model answered, in order

agent == <<pc, given, scanId, source, material, sent, triage, asked>>
vars == <<store, reports, agent>>

Working == {"create", "start", "lookup", "fetch", "triage", "report", "save",
            "finalise", "notify", "fail"}
Ended == {"returned", "raised", "interrupted"}
PCs == {"idle"} \cup Working \cup Ended

AgentInit ==
    /\ reports = {}
    /\ pc = [r \in Runs |-> "idle"]
    /\ given = [r \in Runs |-> NoScan]
    /\ scanId = [r \in Runs |-> NoScan]
    /\ source = [r \in Runs |-> NoScan]
    /\ material = [r \in Runs |-> <<>>]
    /\ sent = [r \in Runs |-> 0]
    /\ triage = [r \in Runs |-> <<>>]
    /\ asked = [r \in Runs |-> <<>>]

Init ==
    /\ scans = PastScans /\ assets = {} /\ findings = PastFindings
    /\ AgentInit

Goto(r, from, to) == pc[r] = from /\ pc' = [pc EXCEPT ![r] = to]

\* A call at `from` to the database, the model or the notifier raises.
Raises(fault, r, from, to) ==
    /\ fault \in Faults
    /\ Goto(r, from, to)
    /\ UNCHANGED <<store, reports, given, scanId, source, material, sent, triage, asked>>

-----------------------------------------------------------------------------
(* Outside the try block *)

Begin(r, scan) ==
    /\ Goto(r, "idle", "create")
    /\ given' = [given EXCEPT ![r] = scan]
    /\ UNCHANGED <<store, reports, scanId, source, material, sent, triage, asked>>

Create(r) ==
    \/ /\ Goto(r, "create", "start")
       /\ CreateScan(TargetOf[r], "analyze")
       /\ scanId' = [scanId EXCEPT ![r] = NextScanId]
       /\ UNCHANGED <<reports, given, source, material, sent, triage, asked>>
    \/ Raises("database", r, "create", "raised")

\* With a scan id no lookup is made: the scan is taken as it is, whatever its
\* target, agent and status, and one that does not exist has no findings.
Start(r) ==
    \/ /\ Goto(r, "start", IF given[r] = NoScan THEN "lookup" ELSE "fetch")
       /\ SetStatus(scanId[r], "running")
       /\ source' = [source EXCEPT ![r] = given[r]]
       /\ UNCHANGED <<reports, given, scanId, material, sent, triage, asked>>
    \/ Raises("database", r, "start", "raised")

-----------------------------------------------------------------------------
(* _fetch_findings: two transactions when no scan id is given *)

Rows(id) == {f \in findings : f.scan = id}

\* list_findings asks for no order: the rows come in some order, the same for
\* the same rows.
ListFindings(id) == SetToSeq(Rows(id))

\* Without a completed scan there is nothing to fetch: one call about nothing.
Lookup(r) ==
    LET latest == LatestCompletedScan(TargetOf[r])
    IN  \/ /\ Goto(r, "lookup", IF latest = NoScan THEN "report" ELSE "fetch")
           /\ source' = [source EXCEPT ![r] = latest]
           /\ UNCHANGED <<store, reports, given, scanId, material, sent, triage, asked>>
        \/ Raises("database", r, "lookup", "fail")

\* Whether the findings fit one call.
Chunked(n) == n > BatchSize

Fetch(r) ==
    \/ /\ Goto(r, "fetch", IF Chunked(Cardinality(Rows(source[r]))) THEN "triage" ELSE "report")
       /\ material' = [material EXCEPT ![r] = ListFindings(source[r])]
       /\ UNCHANGED <<store, reports, given, scanId, source, sent, triage, asked>>
    \/ Raises("database", r, "fetch", "fail")

-----------------------------------------------------------------------------
(* _analyze_findings *)

\* Mistake: the slice runs one past the batch.
LongBatch(list, i) == SubSeq(list, i + 1, Min({i + BatchSize + 1, Len(list)}))

Batch(list, i) == SubSeq(list, i + 1, Min({i + BatchSize, Len(list)}))

\* One turn of the loop.  A truncated answer, one without the tool block and an
\* error of the API raise here; whatever list the model gives goes into all_triage.
TriageBatch(r) ==
    LET batch == Batch(material[r], sent[r])
        next == sent[r] + BatchSize
    IN  \/ \E answer \in Answers :
               /\ Goto(r, "triage", IF next < Len(material[r]) THEN "triage" ELSE "report")
               /\ triage' = [triage EXCEPT ![r] = @ \o answer]
               /\ asked' = [asked EXCEPT ![r] = @ \o batch]
               /\ sent' = [sent EXCEPT ![r] = next]
               /\ UNCHANGED <<store, reports, given, scanId, source, material>>
        \/ Raises("model", r, "triage", "fail")

\* _build_report raises on any item that is not sound.
BuildReport(r, items) ==
    /\ Goto(r, "report", IF ToSet(items) \subseteq Sound THEN "save" ELSE "fail")
    /\ triage' = [triage EXCEPT ![r] = items]

\* The only call for a small set, the synthesis for a large one, which is given
\* the triage and no finding; the report is built in the same step.
ProduceReport(r) ==
    \/ /\ Chunked(Len(material[r]))
       /\ BuildReport(r, triage[r])
       /\ UNCHANGED <<store, reports, given, scanId, source, material, sent, asked>>
    \/ /\ ~Chunked(Len(material[r]))
       /\ \E answer \in Answers : BuildReport(r, answer)
       /\ asked' = [asked EXCEPT ![r] = material[r]]
       /\ UNCHANGED <<store, reports, given, scanId, source, material, sent>>
    \/ Raises("model", r, "report", "fail")

-----------------------------------------------------------------------------
(* Save, finalise, notify *)

\* The report's row names the analysis, never the scan it is about.
Report(r) ==
    [scan |-> scanId[r],
     target |-> TargetOf[r],
     findings_analyzed |-> Len(material[r]),
     triage |-> triage[r]]

\* Mistake: the report cannot be written and the scan is marked done.
SaveIfPossible(r) ==
    \/ /\ Goto(r, "save", "finalise")
       /\ reports' = reports \cup {Report(r)}
       /\ UNCHANGED <<store, given, scanId, source, material, sent, triage, asked>>
    \/ Raises("database", r, "save", "finalise")

Save(r) ==
    \/ /\ Goto(r, "save", "finalise")
       /\ reports' = reports \cup {Report(r)}
       /\ UNCHANGED <<store, given, scanId, source, material, sent, triage, asked>>
    \/ Raises("database", r, "save", "fail")

Finalise(r) ==
    \/ /\ Goto(r, "finalise", "notify")
       /\ SetStatus(scanId[r], "done")
       /\ UNCHANGED <<reports, given, scanId, source, material, sent, triage, asked>>
    \/ Raises("database", r, "finalise", "fail")

SendSummary(r) ==
    \/ /\ Goto(r, "notify", "returned")
       /\ UNCHANGED <<store, reports, given, scanId, source, material, sent, triage, asked>>
    \/ Raises("notifier", r, "notify", "fail")

-----------------------------------------------------------------------------
(* The except handler, and what it does not see *)

HandleFailure(r) ==
    \/ /\ Goto(r, "fail", "raised")
       /\ SetStatus(scanId[r], "failed")
       /\ UNCHANGED <<reports, given, scanId, source, material, sent, triage, asked>>
    \/ Raises("database", r, "fail", "raised")

Interrupt(r) ==
    /\ pc[r] \in Working
    /\ Raises("interrupt", r, pc[r], "interrupted")

-----------------------------------------------------------------------------

Step(r) ==
    \/ Create(r) \/ Start(r) \/ Lookup(r) \/ Fetch(r)
    \/ TriageBatch(r) \/ ProduceReport(r)
    \/ Save(r) \/ Finalise(r) \/ SendSummary(r) \/ HandleFailure(r)

Next ==
    \E r \in Runs :
        \/ \E scan \in CalledWith[r] : Begin(r, scan)
        \/ Step(r)
        \/ Interrupt(r)

Spec == Init /\ [][Next]_vars

-----------------------------------------------------------------------------
(* Properties *)

\* Every variable holds a value of its kind; the loop never runs past the batch
\* that holds the last finding (analyze.py run, _chunked_analysis).
TypeOK ==
    /\ StoreTypeOK
    /\ pc \in [Runs -> PCs]
    /\ given \in [Runs -> Nat]
    /\ scanId \in [Runs -> 0 .. Len(scans)]
    /\ source \in [Runs -> Nat]
    /\ \A r \in Runs : /\ material[r] \in Seq(FindingRow)
                       /\ sent[r] \in 0 .. (Len(material[r]) + BatchSize - 1)
                       /\ sent[r] % BatchSize = 0
                       /\ triage[r] \in Seq(Items)
                       /\ asked[r] \in Seq(FindingRow)
    /\ reports \subseteq [scan : 1 .. Len(scans), target : Targets,
                         findings_analyzed : Nat, triage : Seq(Items)]

\* Nothing is reported on that was not looked at: when a report is stored, the
\* prompts the model answered held every finding of the scan it is about once,
\* in the order the query gave them, however they were cut into batches, and the
\* report counts them; an item that is not sound, even of the first of several
\* answers, leaves no report.  What the model said of them, if anything, is its own.
ReportsCoverTheirScan ==
    \A g \in reports : \E r \in Runs :
        /\ scanId[r] = g.scan
        /\ asked[r] = ListFindings(source[r])
        /\ g.findings_analyzed = Cardinality(Rows(source[r]))
        /\ ToSet(g.triage) \subseteq Sound

\* The report is stored before the scan is marked done: a scan that is done has
\* one, of its own target, and one that never got that far has none.
DoneHasItsReport ==
    \A r \in Runs : scanId[r] # NoScan =>
        LET own == {g \in reports : g.scan = scanId[r]}
        IN  /\ scans[scanId[r]].status = "done" =>
                   \E g \in own : own = {g} /\ g.target = TargetOf[r]
            /\ pc[r] \in {"start", "lookup", "fetch", "triage", "report", "save"} => own = {}

\* Left to choose, a run takes a scan of its target that had completed: never
\* its own row, which is the newest of the target and still running.
SourceHadCompleted ==
    \A r \in Runs : given[r] = NoScan /\ source[r] # NoScan =>
        /\ source[r] # scanId[r]
        /\ scans[source[r]].target = TargetOf[r]
        /\ scans[source[r]].status \in {"done", "failed"}
        /\ source[r] \in DOMAIN PastScans => PastScans[source[r]].status = "done"

\* "Run LLM-based analysis on scan findings for a target": when an earlier scan
\* of the target that is done has findings, an analysis left to choose finds
\* some.
AnalysisFindsFindings ==
    \A r \in Runs :
        pc[r] = "returned" /\ given[r] = NoScan
            /\ (\E i \in DOMAIN PastScans : /\ PastScans[i].target = TargetOf[r]
                                           /\ PastScans[i].status = "done"
                                           /\ Rows(i) # {})
        => material[r] # <<>>

=============================================================================
