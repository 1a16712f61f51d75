------------------------------ MODULE ReconAgent ------------------------------
(***************************************************************************)
(* ReconAgent.run (src/vanguard_x/agents/recon.py) with the change         *)
(* detection it calls (core/changes.py), the tools it runs                 *)
(* (tools/__init__.py), and the notifier it reports to                     *)
(* (notifications/telegram.py).                                            *)
(*                                                                         *)
(* Runs is a set of invocations of ReconAgent.run, in one process or in    *)
(* several, over one database.  Every await of the method is a place where *)
(* other runs may step, so the code between two awaits is one action.      *)
(*                                                                         *)
(* Not covered here: the subprocess a tool starts, the text of messages,   *)
(* and the summary's numbers.                                              *)
(***************************************************************************)
EXTENDS ScanStore

CONSTANTS
    Runs,         \* invocations of ReconAgent.run
    TargetOf,     \* the target each is given
    Authorized,   \* targets the agent's ScopeEnforcer authorises
    ToolScope,    \* ToolScope[i]: the scopes that tool i's own enforcer may have
    Outputs,      \* asset lists a tool can return; a timeout returns <<>>
    Overlap,      \* FALSE: a target is scanned by one run at a time
    Faults        \* which failures occur: "database", "notifier", "interrupt"

ASSUME TargetOfType == TargetOf \in [Runs -> Targets]
ASSUME AuthorizedType == Authorized \subseteq Targets
ASSUME ToolScopeType == ToolScope \in Seq((SUBSET SUBSET Targets) \ {{}})
ASSUME OutputsType == Outputs \subseteq Seq(Assets) /\ <<>> \in Outputs
ASSUME ReconIsAnAgent == "recon" \in Agents

VARIABLES
    pc,         \* pc[r]: the await run r is at
    scanId,     \* scanId[r]: its local scan_id
    task,       \* task[r][i]: the task that runs tool i
    output,     \* output[r][i]: the asset list that task returned
    current,    \* current[r]: keys of current_index in detect
    previous,   \* previous[r]: previous.id in detect
    diff,       \* diff[r]: the ScanDiff, or NoDiff
    alerts      \* change alerts that reached the operator

agent == <<pc, scanId, task, output, current, previous, diff, alerts>>
vars == <<store, agent>>

Tools == DOMAIN ToolScope

Working == {"refuse", "create", "start", "gather", "waiting", "persist",
            "finalise", "summarise", "read_current", "find_previous", "compare",
            "notify", "alert", "fail", "report_failure", "violation"}
\* "abandoned": raised, with the row as it was, for the database refused the write.
Ended == {"returned", "raised", "abandoned", "interrupted"}
PCs == {"idle"} \cup Working \cup Ended

TaskStates == {"none", "executing", "done", "failed", "violation", "cancelled"}

NoDiff == [previous |-> NoScan, new |-> {}, removed |-> {}, made |-> FALSE]
Diff == [previous : Nat, new : SUBSET Keys, removed : SUBSET Keys, made : BOOLEAN]

Init ==
    /\ StoreInit
    /\ pc = [r \in Runs |-> "idle"]
    /\ scanId = [r \in Runs |-> NoScan]
    /\ task = [r \in Runs |-> [i \in Tools |-> "none"]]
    /\ output = [r \in Runs |-> [i \in Tools |-> <<>>]]
    /\ current = [r \in Runs |-> {}]
    /\ previous = [r \in Runs |-> NoScan]
    /\ diff = [r \in Runs |-> NoDiff]
    /\ alerts = {}

Goto(r, from, to) == pc[r] = from /\ pc' = [pc EXCEPT ![r] = to]

\* A call at `from` raises instead of doing its work.
DatabaseFails(r, from, to) ==
    /\ "database" \in Faults
    /\ Goto(r, from, to)
    /\ UNCHANGED <<store, scanId, task, output, current, previous, diff, alerts>>

NotifierRaises(r, from, to) ==
    /\ "notifier" \in Faults
    /\ Goto(r, from, to)
    /\ UNCHANGED <<store, scanId, task, output, current, previous, diff, alerts>>

-----------------------------------------------------------------------------
(* Before the try block *)

\* With Overlap = FALSE the scheduler's max_instances=1 is assumed.
MayBegin(r) ==
    Overlap \/ \A q \in Runs : TargetOf[q] = TargetOf[r] => pc[q] \notin Working

\* assert_authorized(target), before any database write
Begin(r) ==
    /\ MayBegin(r)
    /\ Goto(r, "idle", IF TargetOf[r] \in Authorized THEN "create" ELSE "refuse")
    /\ UNCHANGED <<store, scanId, task, output, current, previous, diff, alerts>>

\* send_alert, then raise: an error of the notifier leaves the run as well
Refuse(r) ==
    /\ Goto(r, "refuse", "raised")
    /\ UNCHANGED <<store, scanId, task, output, current, previous, diff, alerts>>

Create(r) ==
    \/ /\ Goto(r, "create", "start")
       /\ CreateScan(TargetOf[r], "recon")
       /\ scanId' = [scanId EXCEPT ![r] = NextScanId]
       /\ UNCHANGED <<task, output, current, previous, diff, alerts>>
    \/ DatabaseFails(r, "create", "raised")

\* Outside the try block: a failure here leaves the row pending.
Start(r) ==
    \/ /\ Goto(r, "start", "gather")
       /\ SetStatus(scanId[r], "running")
       /\ UNCHANGED <<scanId, task, output, current, previous, diff, alerts>>
    \/ DatabaseFails(r, "start", "abandoned")

-----------------------------------------------------------------------------
(* asyncio.gather over _run_tool *)

\* gather creates the tasks together, and the event loop runs the first step
\* of each (the tool's own scope check, up to the subprocess) before the agent
\* can see any of their results.  A tool is built with an enforcer of its own,
\* so it may refuse a target that the agent was authorised to scan.
LaunchTools(r) ==
    /\ Goto(r, "gather", "waiting")
    /\ \E scope \in [Tools -> SUBSET Targets] :
           /\ \A i \in Tools : scope[i] \in ToolScope[i]
           /\ task' = [task EXCEPT ![r] =
                  [i \in Tools |-> IF TargetOf[r] \in scope[i] THEN "executing" ELSE "violation"]]
    /\ UNCHANGED <<store, scanId, output, current, previous, diff, alerts>>

\* The tool returns a list (empty after a timeout or a parser failure), or the
\* runner raises and _run_tool returns None.  The run may have ended already.
FinishTool(r, i) ==
    /\ task[r][i] = "executing"
    /\ \/ \E out \in Outputs :
           /\ output' = [output EXCEPT ![r][i] = out]
           /\ task' = [task EXCEPT ![r][i] = "done"]
       \/ /\ task' = [task EXCEPT ![r][i] = "failed"]
          /\ UNCHANGED output
    /\ UNCHANGED <<store, pc, scanId, current, previous, diff, alerts>>

\* Mistake: the row is marked done before the results are persisted.
GatherReturnsDone(r) ==
    /\ Goto(r, "waiting", "persist")
    /\ \A i \in Tools : task[r][i] \in {"done", "failed"}
    /\ SetStatus(scanId[r], "done")
    /\ UNCHANGED <<scanId, task, output, current, previous, diff, alerts>>

\* Mistake: return_exceptions=True, a refusal counts as no result.
GatherReturnsExceptions(r) ==
    /\ Goto(r, "waiting", "persist")
    /\ \A i \in Tools : task[r][i] # "executing"
    /\ UNCHANGED <<store, scanId, task, output, current, previous, diff, alerts>>

\* Mistake: the task of a tool that raised is never resolved.
GatherReturnsSuccesses(r) ==
    /\ Goto(r, "waiting", "persist")
    /\ \A i \in Tools : task[r][i] = "done"
    /\ UNCHANGED <<store, scanId, task, output, current, previous, diff, alerts>>

GatherReturns(r) ==
    /\ Goto(r, "waiting", "persist")
    /\ \A i \in Tools : task[r][i] \in {"done", "failed"}
    /\ UNCHANGED <<store, scanId, task, output, current, previous, diff, alerts>>

\* gather propagates the first exception and leaves the other tasks alone.
GatherRaises(r) ==
    /\ Goto(r, "waiting", "violation")
    /\ \E i \in Tools : task[r][i] = "violation"
    /\ UNCHANGED <<store, scanId, task, output, current, previous, diff, alerts>>

-----------------------------------------------------------------------------
(* Persist, finalise, summarise *)

\* With nothing to write persist_assets returns before it opens a session.
Persist(r) ==
    \/ /\ Goto(r, "persist", "finalise")
       /\ PersistAssets(scanId[r], output[r])
       /\ UNCHANGED <<scanId, task, output, current, previous, diff, alerts>>
    \/ /\ Places(output[r]) # {}
       /\ DatabaseFails(r, "persist", "fail")

Finalise(r) ==
    \/ /\ Goto(r, "finalise", "summarise")
       /\ SetStatus(scanId[r], "done")
       /\ UNCHANGED <<scanId, task, output, current, previous, diff, alerts>>
    \/ DatabaseFails(r, "finalise", "fail")

Summarise(r) ==
    \/ /\ Goto(r, "summarise", "read_current")
       /\ UNCHANGED <<store, scanId, task, output, current, previous, diff, alerts>>
    \/ DatabaseFails(r, "summarise", "fail")

-----------------------------------------------------------------------------
(* ChangeDetector.detect: its three reads are three transactions.  The     *)
(* agent absorbs an error of any of them and goes on without a diff.       *)

ReadCurrent(r) ==
    \/ /\ Goto(r, "read_current", "find_previous")
       /\ current' = [current EXCEPT ![r] = Index(scanId[r])]
       /\ UNCHANGED <<store, scanId, task, output, previous, diff, alerts>>
    \/ DatabaseFails(r, "read_current", "notify")

\* No earlier completed scan: the baseline diff, everything new.
FindPrevious(r) ==
    LET found == PreviousCompletedScan(TargetOf[r], scanId[r])
    IN  \/ /\ Goto(r, "find_previous", IF found = NoScan THEN "notify" ELSE "compare")
           /\ previous' = [previous EXCEPT ![r] = found]
           /\ diff' = IF found = NoScan
                      THEN [diff EXCEPT ![r] = [previous |-> NoScan, new |-> current[r],
                                                removed |-> {}, made |-> TRUE]]
                      ELSE diff
           /\ UNCHANGED <<store, scanId, task, output, current, alerts>>
        \/ DatabaseFails(r, "find_previous", "notify")

Compare(r) ==
    LET before == Index(previous[r])
    IN  \/ /\ Goto(r, "compare", "notify")
           /\ diff' = [diff EXCEPT ![r] = [previous |-> previous[r],
                                           new |-> current[r] \ before,
                                           removed |-> before \ current[r],
                                           made |-> TRUE]]
           /\ UNCHANGED <<store, scanId, task, output, current, previous, alerts>>
        \/ DatabaseFails(r, "compare", "notify")

-----------------------------------------------------------------------------
(* Notify.  The notifier absorbs transport errors (the message is lost);   *)
(* any other exception of the client reaches the agent.                    *)

IsBaseline(d) == d.previous = NoScan
HasChanges(d) == d.new # {} \/ d.removed # {}

\* Mistake: only additions count as a change.
AlertsOnAdditions(d) == d.made /\ d.new # {} /\ ~IsBaseline(d)

ShouldAlert(d) == d.made /\ HasChanges(d) /\ ~IsBaseline(d)

SendSummary(r) ==
    \/ /\ Goto(r, "notify", IF ShouldAlert(diff[r]) THEN "alert" ELSE "returned")
       /\ UNCHANGED <<store, scanId, task, output, current, previous, diff, alerts>>
    \/ NotifierRaises(r, "notify", "fail")

SendChangeAlert(r) ==
    \/ /\ Goto(r, "alert", "returned")
       /\ alerts' = alerts \cup {[scan |-> scanId[r], diff |-> diff[r]]}
       /\ UNCHANGED <<store, scanId, task, output, current, previous, diff>>
    \/ /\ Goto(r, "alert", "returned")
       /\ "notifier" \in Faults
       /\ UNCHANGED <<store, scanId, task, output, current, previous, diff, alerts>>
    \/ NotifierRaises(r, "alert", "fail")

-----------------------------------------------------------------------------
(* The except handlers, and what no handler sees *)

HandleViolation(r) ==
    \/ /\ Goto(r, "violation", "raised")
       /\ SetStatus(scanId[r], "scope_violation")
       /\ UNCHANGED <<scanId, task, output, current, previous, diff, alerts>>
    \/ DatabaseFails(r, "violation", "abandoned")

\* Mistake: the handler reports and re-raises without mark_failed.
HandleFailureUnmarked(r) ==
    /\ Goto(r, "fail", "report_failure")
    /\ UNCHANGED <<store, scanId, task, output, current, previous, diff, alerts>>

\* Whatever the row said, done included, it now says failed.
HandleFailure(r) ==
    \/ /\ Goto(r, "fail", "report_failure")
       /\ SetStatus(scanId[r], "failed")
       /\ UNCHANGED <<scanId, task, output, current, previous, diff, alerts>>
    \/ DatabaseFails(r, "fail", "abandoned")

ReportFailure(r) ==
    /\ Goto(r, "report_failure", "raised")
    /\ UNCHANGED <<store, scanId, task, output, current, previous, diff, alerts>>

\* The process dies, or the run's task is cancelled: `except Exception` sees
\* neither.  Only a cancellation while gather waits reaches the tools' tasks,
\* so a cancelled run can leave them executing once gather is over.
StoppedTasks(r) ==
    [i \in Tools |-> IF task[r][i] = "executing" THEN "cancelled" ELSE task[r][i]]

GatherIsPending(r) ==
    pc[r] = "waiting" /\ \A i \in Tools : task[r][i] # "violation"

Interrupt(r) ==
    /\ "interrupt" \in Faults
    /\ pc[r] \in Working
    /\ pc' = [pc EXCEPT ![r] = "interrupted"]
    /\ \/ task' = [task EXCEPT ![r] = StoppedTasks(r)]
       \/ ~GatherIsPending(r) /\ UNCHANGED task
    /\ UNCHANGED <<store, scanId, output, current, previous, diff, alerts>>

-----------------------------------------------------------------------------

Step(r) ==
    \/ Refuse(r) \/ Create(r) \/ Start(r) \/ LaunchTools(r)
    \/ GatherReturns(r) \/ GatherRaises(r)
    \/ Persist(r) \/ Finalise(r) \/ Summarise(r)
    \/ ReadCurrent(r) \/ FindPrevious(r) \/ Compare(r)
    \/ SendSummary(r) \/ SendChangeAlert(r)
    \/ HandleViolation(r) \/ HandleFailure(r) \/ ReportFailure(r)

Next ==
    \E r \in Runs :
        \/ Begin(r)
        \/ Step(r)
        \/ \E i \in Tools : FinishTool(r, i)
        \/ Interrupt(r)

Spec == Init /\ [][Next]_vars

\* A run that has begun is driven by the event loop, its calls return (the
\* database and HTTP clients have timeouts), and a tool ends by itself or is
\* killed when its timeout expires.  Nothing forces a run to begin.
Fairness ==
    \A r \in Runs :
        /\ WF_vars(Step(r))
        /\ \A i \in Tools : WF_vars(FinishTool(r, i))

FairSpec == Spec /\ Fairness

-----------------------------------------------------------------------------
(* Properties *)

\* Every variable holds a value of its kind, and every scan id a run keeps is
\* the id of a row that exists (recon.py run, changes.py detect).
TypeOK ==
    /\ StoreTypeOK
    /\ pc \in [Runs -> PCs]
    /\ scanId \in [Runs -> 0 .. Len(scans)]
    /\ task \in [Runs -> [Tools -> TaskStates]]
    /\ output \in [Runs -> [Tools -> Outputs]]
    /\ current \in [Runs -> SUBSET Keys]
    /\ previous \in [Runs -> 0 .. Len(scans)]
    /\ diff \in [Runs -> Diff]
    /\ alerts \subseteq [scan : 1 .. Len(scans), diff : Diff]

\* A run writes to a row of its own: no other run, of this process or another,
\* ever has the same scan id, every row belongs to a run, and it names the
\* run's target (create_scan takes the id from the flushed row).
OwnRow ==
    /\ \A r \in Runs : scanId[r] # NoScan =>
           scans[scanId[r]].target = TargetOf[r] /\ scans[scanId[r]].agent = "recon"
    /\ \A q, r \in Runs : q # r /\ scanId[q] = scanId[r] => scanId[r] = NoScan
    /\ \A i \in DOMAIN scans : \E r \in Runs : scanId[r] = i

\* "The same asset is never duplicated within a single scan" (schema.py): at
\* most one row per identity, whatever the tools report and however they spell
\* it, although the table's constraint compares spellings only.
OneRowPerIdentity ==
    \A a, b \in assets :
        a.scan = b.scan /\ KeyOf[a.asset] = KeyOf[b.asset] => a = b

\* A scan is done only if every tool finished and none refused the target, and
\* a scan closed as a scope violation kept nothing of what its tools returned.
DoneMeansEveryToolRan ==
    \A r \in Runs : scanId[r] # NoScan =>
        /\ scans[scanId[r]].status = "done" =>
               \A i \in Tools : task[r][i] \in {"done", "failed"}
        /\ scans[scanId[r]].status = "scope_violation" => ListAssets(scanId[r]) = {}

\* The identities by which scan i differs from an earlier one, as d says.
IsComparison(i, d) ==
    /\ d.previous \in 1 .. (i - 1)
    /\ scans[d.previous].target = scans[i].target
    /\ scans[d.previous].status \in {"done", "failed"}
    /\ d.new = Index(i) \ Index(d.previous)
    /\ d.removed = Index(d.previous) \ Index(i)

\* What the operator is told is what the store says: a change alert compares
\* the scan with an earlier scan of the same target that had completed, and
\* names exactly the identities by which the rows of the two scans differ, in
\* every later state as well (detect reads them in three transactions).
AlertIsExact ==
    \A a \in alerts : IsComparison(a.scan, a.diff) /\ HasChanges(a.diff)

\* The row agrees with how run() ended.  A run that returned is done for good,
\* and one that raised left a failed or scope_violation row, or none at all; only
\* when the write that says so fails as well is the row left as it was.
RowMatchesOutcome ==
    \A r \in Runs : scanId[r] # NoScan =>
        /\ pc[r] = "returned" => scans[scanId[r]].status = "done"
        /\ pc[r] = "raised" =>
               scans[scanId[r]].status \in {"failed", "scope_violation"}

\* Once a row has left running, its assets are history: no late tool, retry or
\* handler adds to them or takes from them.  The diffs of later scans rest on it.
ClosedScansAreFrozen ==
    [][\A i \in DOMAIN scans :
           scans[i].status \notin {"pending", "running"} => ListAssets(i)' = ListAssets(i)]_vars

\* When runs of a target do not overlap, the alert of a scan compares it with
\* its immediate predecessor among the scans of the target that count, so no
\* completed scan is passed over.  Runs that ended badly are skipped.
ComparesWithPredecessor ==
    \A a \in alerts :
        \A i \in (a.diff.previous + 1) .. (a.scan - 1) :
            scans[i].target = scans[a.scan].target => scans[i].status # "done"

\* "Change-alerts are sent via Telegram when new or removed assets are detected
\* against the previous scan": a run that returned with its comparison made has
\* told the operator of every difference from the last completed scan before
\* it, provided no message is lost and runs of the target do not overlap.
EveryChangeIsTold ==
    \A r \in Runs : pc[r] = "returned" /\ diff[r].made /\ "notifier" \notin Faults =>
        LET last == PreviousCompletedScan(TargetOf[r], scanId[r])
        IN  last # NoScan /\ Index(last) # Index(scanId[r]) =>
                \E a \in alerts : a.scan = scanId[r] /\ a.diff.previous = last

\* Whatever fails, a run that has created a row ends, and unless it was cut off
\* (a crash, a cancellation, or a database that refuses the very write that
\* closes the row) the row then has a final status: tools that fail, refuse the
\* target or hang until their timeout, and a notifier that raises, are no reason
\* for a scan that stays running.
EveryRowSettles ==
    \A r \in Runs : scanId[r] # NoScan ~>
        /\ scanId[r] # NoScan
        /\ pc[r] \in Ended
        /\ pc[r] \in {"returned", "raised"} =>
               scans[scanId[r]].status \in {"done", "failed", "scope_violation"}

\* The agents' rows are a ScanHistory: one row per run, moved forward only along
\* the lifecycle, written to only while it is running.
History == INSTANCE ScanHistory WITH records <- assets

ImplementsHistory == History!Spec

\* "cancels the other tasks the moment one raises ScopeViolation": once the run
\* is over because of a violation, no tool of it is executing.
ViolationStopsTheTools ==
    \A r \in Runs :
        scanId[r] # NoScan /\ scans[scanId[r]].status = "scope_violation" =>
            \A i \in Tools : task[r][i] # "executing"

=============================================================================
