----------------------------- MODULE AttackAgent -----------------------------
(***************************************************************************)
(* AttackAgent.run (src/vanguard_x/agents/attack.py): every attack tool    *)
(* against every target, the results stored in two transactions, the scan  *)
(* finalised, and only then a message per urgent finding.                  *)
(*                                                                         *)
(* Runs is a set of invocations over one database.  As in ReconAgent, the  *)
(* code between two awaits is one action.                                  *)
(***************************************************************************)
EXTENDS ScanStore

CONSTANTS
    Runs,         \* invocations of AttackAgent.run
    CalledWith,   \* the lists of targets each may be given
    Authorized,   \* targets the agent's ScopeEnforcer authorises
    ToolScope,    \* tool i's own enforcer authorises ToolScope[i]
    Outputs,      \* what a tool can return: its assets and its findings
    Urgent,       \* the findings of severity HIGH or CRITICAL
    Faults        \* which failures occur: "database", "notifier", "interrupt"

ASSUME CalledWithType == CalledWith \in [Runs -> SUBSET Seq(Targets)] /\ "unknown" \in Targets
ASSUME AuthorizedType == Authorized \subseteq Targets
ASSUME ToolScopeType == ToolScope \in Seq(SUBSET Targets)
ASSUME OutputsType ==
    /\ Outputs \subseteq [assets : Seq(Assets), findings : Seq(Findings)]
    /\ [assets |-> <<>>, findings |-> <<>>] \in Outputs
ASSUME UrgentType == Urgent \subseteq Findings
ASSUME AttackIsAnAgent == "attack" \in Agents

VARIABLES
    pc,         \* pc[r]: the await run r is at
    targets,    \* targets[r]: its argument, once it is called
    scanId,     \* scanId[r]: its local scan_id
    task,       \* task[r][j]: the task of job j
    output,     \* output[r][j]: what that task returned
    handled,    \* handled[r]: places of urgent findings already sent or lost
    pages       \* critical alerts that reached the operator

agent == <<pc, targets, scanId, task, output, handled, pages>>
vars == <<store, agent>>

\* A job is a tool run against a target: targets in the outer loop.
JobsFor(list) == 1 .. (Len(list) * Len(ToolScope))
Jobs(r) == JobsFor(targets[r])
JobTarget(r, j) == targets[r][((j - 1) \div Len(ToolScope)) + 1]
JobScope(j) == ToolScope[((j - 1) % Len(ToolScope)) + 1]

PrimaryTarget(r) == IF targets[r] = <<>> THEN "unknown" ELSE targets[r][1]

Working == {"create", "start", "gather", "waiting", "persist_findings",
            "persist_assets", "finalise", "summarise", "page", "notify",
            "fail", "violation"}
Ended == {"returned", "raised", "interrupted"}
PCs == {"idle"} \cup Working \cup Ended

TaskStates == {"none", "executing", "done", "failed", "violation", "cancelled"}

Nothing == [assets |-> <<>>, findings |-> <<>>]

AgentInit ==
    /\ pc = [r \in Runs |-> "idle"]
    /\ targets = [r \in Runs |-> <<>>]
    /\ scanId = [r \in Runs |-> NoScan]
    /\ task = [r \in Runs |-> <<>>]
    /\ output = [r \in Runs |-> <<>>]
    /\ handled = [r \in Runs |-> {}]
    /\ pages = {}

Init == StoreInit /\ AgentInit

Goto(r, from, to) == pc[r] = from /\ pc' = [pc EXCEPT ![r] = to]

DatabaseFails(r, from, to) ==
    /\ "database" \in Faults
    /\ Goto(r, from, to)
    /\ UNCHANGED <<store, targets, scanId, task, output, handled, pages>>

NotifierRaises(r, from, to) ==
    /\ "notifier" \in Faults
    /\ Goto(r, from, to)
    /\ UNCHANGED <<store, targets, scanId, task, output, handled, pages>>

-----------------------------------------------------------------------------
(* Before the try block *)

Elements(list) == {list[k] : k \in DOMAIN list}

CallWith(r, list) ==
    /\ targets' = [targets EXCEPT ![r] = list]
    /\ task' = [task EXCEPT ![r] = [j \in JobsFor(list) |-> "none"]]
    /\ output' = [output EXCEPT ![r] = [j \in JobsFor(list) |-> Nothing]]
    /\ UNCHANGED <<store, scanId, handled, pages>>

\* Mistake: only the primary target is checked before any work.
BeginCheckingPrimary(r, list) ==
    /\ Goto(r, "idle", IF list = <<>> \/ list[1] \in Authorized THEN "create" ELSE "raised")
    /\ CallWith(r, list)

\* assert_authorized on every target; a refusal raises without a message.
Begin(r, list) ==
    /\ Goto(r, "idle", IF Elements(list) \subseteq Authorized THEN "create" ELSE "raised")
    /\ CallWith(r, list)

Create(r) ==
    \/ /\ Goto(r, "create", "start")
       /\ CreateScan(PrimaryTarget(r), "attack")
       /\ scanId' = [scanId EXCEPT ![r] = NextScanId]
       /\ UNCHANGED <<targets, task, output, handled, pages>>
    \/ DatabaseFails(r, "create", "raised")

Start(r) ==
    \/ /\ Goto(r, "start", "gather")
       /\ SetStatus(scanId[r], "running")
       /\ UNCHANGED <<targets, scanId, task, output, handled, pages>>
    \/ DatabaseFails(r, "start", "raised")

-----------------------------------------------------------------------------
(* asyncio.gather over _run_tool, for every target and tool *)

LaunchTools(r) ==
    /\ Goto(r, "gather", "waiting")
    /\ task' = [task EXCEPT ![r] =
           [j \in Jobs(r) |->
               IF JobTarget(r, j) \in JobScope(j) THEN "executing" ELSE "violation"]]
    /\ UNCHANGED <<store, targets, scanId, output, handled, pages>>

FinishTool(r, j) ==
    /\ task[r][j] = "executing"
    /\ \/ \E out \in Outputs :
           /\ output' = [output EXCEPT ![r][j] = out]
           /\ task' = [task EXCEPT ![r][j] = "done"]
       \/ /\ task' = [task EXCEPT ![r][j] = "failed"]
          /\ UNCHANGED output
    /\ UNCHANGED <<store, pc, targets, scanId, handled, pages>>

GatherReturns(r) ==
    /\ Goto(r, "waiting", "persist_findings")
    /\ \A j \in Jobs(r) : task[r][j] \in {"done", "failed"}
    /\ UNCHANGED <<store, targets, scanId, task, output, handled, pages>>

GatherRaises(r) ==
    /\ Goto(r, "waiting", "violation")
    /\ \E j \in Jobs(r) : task[r][j] = "violation"
    /\ UNCHANGED <<store, targets, scanId, task, output, handled, pages>>

-----------------------------------------------------------------------------
(* save_attack_result, mark_done, scan_summary *)

FindingLists(r) == [j \in Jobs(r) |-> output[r][j].findings]
AssetLists(r) == [j \in Jobs(r) |-> output[r][j].assets]

\* Mistake: an error while the findings are written is swallowed.
SaveFindingsIfPossible(r) ==
    \/ /\ Goto(r, "persist_findings", "persist_assets")
       /\ PersistFindings(scanId[r], FindingLists(r))
       /\ UNCHANGED <<targets, scanId, task, output, handled, pages>>
    \/ DatabaseFails(r, "persist_findings", "persist_assets")

\* Findings and assets are two transactions; each opens a session only when it
\* has something to write.
SaveFindings(r) ==
    \/ /\ Goto(r, "persist_findings", "persist_assets")
       /\ PersistFindings(scanId[r], FindingLists(r))
       /\ UNCHANGED <<targets, scanId, task, output, handled, pages>>
    \/ /\ Places(FindingLists(r)) # {}
       /\ DatabaseFails(r, "persist_findings", "fail")

SaveAssets(r) ==
    \/ /\ Goto(r, "persist_assets", "finalise")
       /\ PersistAssets(scanId[r], AssetLists(r))
       /\ UNCHANGED <<targets, scanId, task, output, handled, pages>>
    \/ /\ Places(AssetLists(r)) # {}
       /\ DatabaseFails(r, "persist_assets", "fail")

Finalise(r) ==
    \/ /\ Goto(r, "finalise", "summarise")
       /\ SetStatus(scanId[r], "done")
       /\ UNCHANGED <<targets, scanId, task, output, handled, pages>>
    \/ DatabaseFails(r, "finalise", "fail")

\* Mistake: a page is sent for the first urgent finding of every list only.
FirstUrgentPlaces(r) ==
    {p \in Places(FindingLists(r)) :
        /\ FindingLists(r)[p[1]][p[2]] \in Urgent
        /\ \A k \in 1 .. (p[2] - 1) : FindingLists(r)[p[1]][k] \notin Urgent}

\* The loop over all_findings stops at the urgent ones, in list order.
UrgentPlaces(r) ==
    {p \in Places(FindingLists(r)) : FindingLists(r)[p[1]][p[2]] \in Urgent}

ToPage(r) == UrgentPlaces(r) \ handled[r]

Summarise(r) ==
    \/ /\ Goto(r, "summarise", IF ToPage(r) = {} THEN "notify" ELSE "page")
       /\ UNCHANGED <<store, targets, scanId, task, output, handled, pages>>
    \/ DatabaseFails(r, "summarise", "fail")

-----------------------------------------------------------------------------
(* Messages *)

Page(r, p) == [scan |-> scanId[r], batch |-> p[1], place |-> p[2]]

\* The message about one urgent finding reaches the operator or is lost, or
\* the client raises and the findings after it are never sent.
SendCriticalAlert(r) ==
    \E p \in ToPage(r) :
        /\ \A q \in ToPage(r) : q # p => Before(p, q)
        /\ \/ /\ Goto(r, "page", IF ToPage(r) = {p} THEN "notify" ELSE "page")
              /\ handled' = [handled EXCEPT ![r] = @ \cup {p}]
              /\ \/ pages' = pages \cup {Page(r, p)}
                 \/ "notifier" \in Faults /\ UNCHANGED pages
              /\ UNCHANGED <<store, targets, scanId, task, output>>
           \/ NotifierRaises(r, "page", "fail")

SendSummary(r) ==
    \/ /\ Goto(r, "notify", "returned")
       /\ UNCHANGED <<store, targets, scanId, task, output, handled, pages>>
    \/ NotifierRaises(r, "notify", "fail")

-----------------------------------------------------------------------------
(* The except handlers, and what no handler sees *)

HandleViolation(r) ==
    \/ /\ Goto(r, "violation", "raised")
       /\ SetStatus(scanId[r], "scope_violation")
       /\ UNCHANGED <<targets, scanId, task, output, handled, pages>>
    \/ DatabaseFails(r, "violation", "raised")

HandleFailure(r) ==
    \/ /\ Goto(r, "fail", "raised")
       /\ SetStatus(scanId[r], "failed")
       /\ UNCHANGED <<targets, scanId, task, output, handled, pages>>
    \/ DatabaseFails(r, "fail", "raised")

StoppedTasks(r) ==
    [j \in Jobs(r) |-> IF task[r][j] = "executing" THEN "cancelled" ELSE task[r][j]]

GatherIsPending(r) ==
    pc[r] = "waiting" /\ \A j \in Jobs(r) : task[r][j] # "violation"

\* A crash stops the tools; a cancellation does so only while gather waits.
Interrupt(r) ==
    /\ "interrupt" \in Faults
    /\ pc[r] \in Working
    /\ pc' = [pc EXCEPT ![r] = "interrupted"]
    /\ \/ task' = [task EXCEPT ![r] = StoppedTasks(r)]
       \/ ~GatherIsPending(r) /\ UNCHANGED task
    /\ UNCHANGED <<store, targets, scanId, output, handled, pages>>

-----------------------------------------------------------------------------

Step(r) ==
    \/ Create(r) \/ Start(r) \/ LaunchTools(r)
    \/ GatherReturns(r) \/ GatherRaises(r)
    \/ SaveFindings(r) \/ SaveAssets(r) \/ Finalise(r) \/ Summarise(r)
    \/ SendCriticalAlert(r) \/ SendSummary(r)
    \/ HandleViolation(r) \/ HandleFailure(r)

Next ==
    \E r \in Runs :
        \/ \E list \in CalledWith[r] : Begin(r, list)
        \/ Step(r)
        \/ \E j \in Jobs(r) : FinishTool(r, j)
        \/ Interrupt(r)

Spec == Init /\ [][Next]_vars

-----------------------------------------------------------------------------
(* Properties *)

\* Every variable holds a value of its kind, and every scan id a run keeps is
\* the id of a row that exists (attack.py run).
TypeOK ==
    /\ StoreTypeOK
    /\ pc \in [Runs -> PCs]
    /\ targets \in [Runs -> Seq(Targets)]
    /\ scanId \in [Runs -> 0 .. Len(scans)]
    /\ \A r \in Runs : /\ task[r] \in [Jobs(r) -> TaskStates]
                       /\ output[r] \in [Jobs(r) -> Outputs]
                       /\ handled[r] \subseteq Places(FindingLists(r))
    /\ pages \subseteq [scan : 1 .. Len(scans), batch : Nat, place : Nat]

\* A run writes to a row of its own, filed under its first target.
OwnRow ==
    /\ \A r \in Runs : scanId[r] # NoScan =>
           scans[scanId[r]].target = PrimaryTarget(r) /\ scans[scanId[r]].agent = "attack"
    /\ \A q, r \in Runs : q # r /\ scanId[q] = scanId[r] => scanId[r] = NoScan
    /\ \A i \in DOMAIN scans : \E r \in Runs : scanId[r] = i

\* "Pre-flight: scope check ALL targets before any work": one target outside
\* the scope anywhere in the list, and the run leaves no row and starts no tool.
OneRefusalStopsAll ==
    \A r \in Runs : ~(Elements(targets[r]) \subseteq Authorized) =>
        /\ scanId[r] = NoScan
        /\ \A j \in Jobs(r) : task[r][j] = "none"

\* The results of a scan are written in two transactions, yet a scan that is
\* done holds all of them: every finding at its place, and every identity among
\* the assets, of every tool against every target.
DoneIsComplete ==
    \A r \in Runs : scanId[r] # NoScan =>
        (scans[scanId[r]].status = "done" =>
            /\ {f \in findings : f.scan = scanId[r]} = FindingRowsOf(scanId[r], FindingLists(r))
            /\ \A p \in Places(AssetLists(r)) :
                   KeyOf[AssetLists(r)[p[1]][p[2]]] \in Index(scanId[r]))

\* A critical alert is about an urgent finding that the database has: it was
\* stored before the message went out, and can be looked up whatever becomes of
\* the scan afterwards (attack.py run, save_attack_result).
PagesAreStored ==
    \A g \in pages :
        \E f \in findings : /\ f.scan = g.scan
                           /\ f.batch = g.batch /\ f.place = g.place
                           /\ f.finding \in Urgent

\* A run that returned has sent a message for every urgent finding it stored.
EveryUrgentFindingIsSent ==
    \A r \in Runs : pc[r] = "returned" =>
        \A f \in findings : f.scan = scanId[r] /\ f.finding \in Urgent =>
            <<f.batch, f.place>> \in handled[r]

\* "This ensures the security team is notified in real time for urgent issues,
\* without waiting for the full scan to complete": once the scan is done, no
\* urgent finding of it is still to be sent.
UrgentFindingsDoNotWait ==
    \A r \in Runs : scanId[r] # NoScan /\ scans[scanId[r]].status = "done" => ToPage(r) = {}

\* The agents' rows are a ScanHistory, assets and findings alike.
History == INSTANCE ScanHistory WITH records <- assets \cup findings

ImplementsHistory == History!Spec

=============================================================================
