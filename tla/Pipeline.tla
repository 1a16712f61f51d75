------------------------------- MODULE Pipeline -------------------------------
(***************************************************************************)
(* The commands of VANGUARD-X over one database: PipelineOrchestrator.run  *)
(* (src/vanguard_x/pipeline.py), which runs recon, attacks what recon      *)
(* stored and may have the findings analysed, next to scans and analyses   *)
(* started on their own (src/vanguard_x/__main__.py).                      *)
(*                                                                         *)
(* The agents are the modules ReconAgent, AttackAgent and AnalyzeAgent, a  *)
(* step of the system is a step of one of them or a hand-over between two, *)
(* and all of them share the tables.  Interrupts are left to the modules   *)
(* of the agents: an interrupted phase is one that never returns.          *)
(***************************************************************************)
EXTENDS ScanStore, SequencesExt

CONSTANTS
    Runs,           \* commands
    Given,          \* which they may be together: "full" is a pipeline with --analyze
    TargetOf,       \* the target each is given
    Authorized,     \* targets the ScopeEnforcer of the process authorises
    ReconTools,     \* the number of recon tools
    AttackTools,    \* the number of attack tools
    ReconOutputs,   \* what a recon tool can return
    AttackOutputs,  \* what an attack tool can return
    Urgent,         \* the findings of severity HIGH or CRITICAL
    BatchSize,      \* _BATCH_SIZE of the analyze agent
    Items, Sound, Answers,  \* what the model may answer, as in AnalyzeAgent
    NameOf,         \* the names of the assets that are subdomains
    Rank,           \* the order of names that sorted() follows
    Faults          \* which failures occur

Commands == {"pipeline", "full", "scan", "analyze"}

ASSUME TargetOfType == TargetOf \in [Runs -> Targets] /\ "unknown" \in Targets
ASSUME AuthorizedType == Authorized \subseteq Targets
ASSUME AgentsType == {"recon", "attack", "analyze"} \subseteq Agents
ASSUME ToolsType ==
    /\ ReconTools \in Nat /\ ReconOutputs \subseteq Seq(Assets) /\ <<>> \in ReconOutputs
    /\ AttackTools \in Nat
    /\ AttackOutputs \subseteq [assets : Seq(Assets), findings : Seq(Findings)]
    /\ [assets |-> <<>>, findings |-> <<>>] \in AttackOutputs
ASSUME UrgentType == Urgent \subseteq Findings
ASSUME BatchSizeType == BatchSize \in Nat \ {0}
ASSUME AnswersType == Sound \subseteq Items /\ Answers \subseteq Seq(Items)
ASSUME GivenType == Given \subseteq [Runs -> Commands]
ASSUME NameOfType == DOMAIN NameOf \subseteq Assets /\ \A a \in DOMAIN NameOf : NameOf[a] \in Targets
\* The tools return the names of subdomains in lower case, so two that are one
\* identity are one name.
ASSUME NamesFollowKeys ==
    \A a \in DOMAIN NameOf, b \in Assets :
        KeyOf[a] = KeyOf[b] => b \in DOMAIN NameOf /\ NameOf[a] = NameOf[b]
ASSUME RankType == Rank \in [Targets -> Nat] /\ \A s, t \in Targets : Rank[s] = Rank[t] => s = t

VARIABLES
    command,        \* command[p]: what p is
    stage,          \* stage[p]: the agent command p awaits
    reconPc, reconScan, reconTask, reconOutput, current, previous, diff, alerts,
    attackPc, attackTargets, attackScan, attackTask, attackOutput, handled, pages,
    reports, analyzePc, given, analyzeScan, source, material, sent, triage, asked

reconVars == <<reconPc, reconScan, reconTask, reconOutput, current, previous, diff, alerts>>
attackVars == <<attackPc, attackTargets, attackScan, attackTask, attackOutput, handled, pages>>
analyzeVars == <<reports, analyzePc, given, analyzeScan, source, material, sent, triage, asked>>
vars == <<store, command, stage, reconVars, attackVars, analyzeVars>>

\* As wired by the command line, agents and tools share one ScopeEnforcer.
Recon == INSTANCE ReconAgent WITH
    pc <- reconPc, scanId <- reconScan, task <- reconTask, output <- reconOutput,
    ToolScope <- [i \in 1 .. ReconTools |-> {Authorized}], Outputs <- ReconOutputs,
    Overlap <- TRUE

Attack == INSTANCE AttackAgent WITH
    pc <- attackPc, targets <- attackTargets, scanId <- attackScan, task <- attackTask,
    output <- attackOutput, ToolScope <- [i \in 1 .. AttackTools |-> Authorized],
    Outputs <- AttackOutputs, CalledWith <- [p \in Runs |-> {}]

Analyze == INSTANCE AnalyzeAgent WITH
    pc <- analyzePc, scanId <- analyzeScan, CalledWith <- [p \in Runs |-> {}],
    PastScans <- <<>>, PastFindings <- {}

Init ==
    /\ command \in Given
    /\ stage = [p \in Runs |-> "idle"]
    /\ Recon!Init /\ Attack!AgentInit /\ Analyze!AgentInit

Move(p, from, to) ==
    /\ stage[p] = from
    /\ stage' = [stage EXCEPT ![p] = to]
    /\ UNCHANGED command

-----------------------------------------------------------------------------
(* Commands *)

\* Every command but analyze begins with the recon agent.
StartRecon(p) ==
    /\ command[p] # "analyze"
    /\ Move(p, "idle", "recon")
    /\ Recon!Begin(p)
    /\ UNCHANGED <<attackVars, analyzeVars>>

\* analyze without --run-id
StartAnalyze(p) ==
    /\ command[p] = "analyze"
    /\ Move(p, "idle", "analyze")
    /\ Analyze!Begin(p, NoScan)
    /\ UNCHANGED <<reconVars, attackVars>>

-----------------------------------------------------------------------------
(* PipelineOrchestrator.run *)

\* Mistake: the subdomains of the newest scan of the target.
SubdomainsOfLatest(p) ==
    {NameOf[a] : a \in ListAssets(LatestCompletedScan(TargetOf[p])) \cap DOMAIN NameOf}

Subdomains(p) == {NameOf[a] : a \in ListAssets(reconScan[p]) \cap DOMAIN NameOf}

\* The target itself is always there, so the list is never empty.
AttackNames(p) == {TargetOf[p]} \cup Subdomains(p)

\* sorted(): the place of a name is the number of names up to it.
PlaceIn(names, t) == Cardinality({s \in names : Rank[s] <= Rank[t]})

AttackTargets(p) ==
    [k \in 1 .. Cardinality(AttackNames(p)) |->
        CHOOSE t \in AttackNames(p) : PlaceIn(AttackNames(p), t) = k]

\* Mistake: an error of the recon agent is swallowed.
ReconIsOver(p) == reconPc[p] \in {"returned", "raised"} /\ reconScan[p] # NoScan

ReconReturned(p) == reconPc[p] = "returned"

\* _extract_targets and the attack agent's scope checks, which follow without
\* an await.
Extract(p) ==
    /\ command[p] \in {"pipeline", "full"}
    /\ ReconReturned(p)
    /\ \/ Move(p, "recon", "attack") /\ Attack!Begin(p, AttackTargets(p))
       \/ "database" \in Faults /\ Move(p, "recon", "failed") /\ UNCHANGED <<store, attackVars>>
    /\ UNCHANGED <<reconVars, analyzeVars>>

\* Mistake: the scan id is not handed on.
HandOverTarget(p) ==
    /\ command[p] = "full"
    /\ attackPc[p] = "returned"
    /\ Move(p, "attack", "analyze")
    /\ Analyze!Begin(p, NoScan)
    /\ UNCHANGED <<reconVars, attackVars>>

HandOver(p) ==
    /\ command[p] = "full"
    /\ attackPc[p] = "returned"
    /\ Move(p, "attack", "analyze")
    /\ Analyze!Begin(p, attackScan[p])
    /\ UNCHANGED <<reconVars, attackVars>>

-----------------------------------------------------------------------------
(* Steps of the agents a command awaits, and of the tools it has started *)

ReconStep(p) ==
    /\ \/ Recon!Step(p)
       \/ \E i \in 1 .. ReconTools : Recon!FinishTool(p, i)
    /\ UNCHANGED <<command, stage, attackVars, analyzeVars>>

AttackStep(p) ==
    /\ \/ Attack!Step(p)
       \/ \E j \in Attack!Jobs(p) : Attack!FinishTool(p, j)
    /\ UNCHANGED <<command, stage, reconVars, analyzeVars>>

AnalyzeStep(p) ==
    /\ Analyze!Step(p)
    /\ UNCHANGED <<command, stage, reconVars, attackVars>>

Next ==
    \E p \in Runs :
        \/ StartRecon(p) \/ StartAnalyze(p)
        \/ Extract(p) \/ HandOver(p)
        \/ ReconStep(p) \/ AttackStep(p) \/ AnalyzeStep(p)

Spec == Init /\ [][Next]_vars

-----------------------------------------------------------------------------
(* Properties *)

\* Every variable of the agents holds a value of its kind when they share the
\* tables, and a command awaits one agent at a time (pipeline.py run).
TypeOK ==
    /\ Recon!TypeOK /\ Attack!TypeOK /\ Analyze!TypeOK
    /\ command \in [Runs -> Commands]
    /\ stage \in [Runs -> {"idle", "recon", "attack", "analyze", "failed"}]

\* "AttackAgent receives discovered targets": the attack of a pipeline is given
\* the target and every subdomain a recon tool of that same pipeline returned,
\* and no other, whatever is scanned beside it and between the two phases.
AttacksWhatItsReconFound ==
    \A p \in Runs : attackPc[p] # "idle" =>
        Range(attackTargets[p]) =
            {TargetOf[p]} \cup
            {NameOf[a] : a \in DOMAIN NameOf \cap UNION {Range(reconOutput[p][i]) : i \in 1 .. ReconTools}}

\* A phase rests on a completed one: an attack scan of a pipeline has a recon
\* scan before it that is done, an analysis an attack scan that is done.
PhasesRestOnCompletedOnes ==
    \A p \in Runs :
        /\ attackScan[p] # NoScan =>
               /\ reconScan[p] \in 1 .. (attackScan[p] - 1)
               /\ scans[reconScan[p]].status = "done"
        /\ analyzeScan[p] # NoScan /\ command[p] = "full" =>
               /\ attackScan[p] \in 1 .. (analyzeScan[p] - 1)
               /\ scans[attackScan[p]].status = "done"

\* The report of a pipeline is about its own attack: the model was asked about
\* all the findings this pipeline's attack tools returned, about no other, and
\* the report counts as many, whatever other attacks and analyses of the target
\* finish meanwhile.
ReportIsOfOwnAttack ==
    \A p \in Runs : command[p] = "full" =>
        LET found == Attack!FindingRowsOf(attackScan[p], Attack!FindingLists(p))
        IN  \A g \in reports : g.scan = analyzeScan[p] =>
                ToSet(asked[p]) = found /\ g.findings_analyzed = Cardinality(found)

\* Change alerts stay true when the other agents write to the tables as well.
AlertIsExact == Recon!AlertIsExact

\* The rows of all three agents together are one ScanHistory.
History == INSTANCE ScanHistory WITH records <- assets \cup findings \cup reports

ImplementsHistory == History!Spec

\* "... tells the operator what changed between runs - a fresh subdomain that
\* wasn't there yesterday": what an alert calls new, the last completed recon
\* of the target before it had not found.
NewAssetsAreFresh ==
    \A a \in alerts :
        LET recons == {i \in DoneScansBefore(scans[a.scan].target, a.scan) :
                           scans[i].agent = "recon"}
        IN  recons # {} => a.diff.new \cap Index(Max(recons)) = {}

=============================================================================
