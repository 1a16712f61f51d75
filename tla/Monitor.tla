------------------------------- MODULE Monitor -------------------------------
(***************************************************************************)
(* ContinuousMonitor (src/vanguard_x/scheduler.py) and the command that    *)
(* drives it (src/vanguard_x/__main__.py, _run_monitor): one job per       *)
(* target, fired at an interval, each firing one run of the recon agent    *)
(* and then a callback, until a signal stops the process.                  *)
(*                                                                         *)
(* APScheduler is external and modelled from how scheduler.py uses it: a   *)
(* firing that is due while another is pending is merged with it           *)
(* (coalesce), one that finds max_instances runs of the job is skipped,    *)
(* shutdown takes effect in a later turn of the event loop, and the        *)
(* asyncio executor then cancels the runs in flight, whatever `wait` says. *)
(* Of a recon run only its row is kept: see ReconAgent for the rest.       *)
(***************************************************************************)
EXTENDS Naturals, FiniteSets

CONSTANTS
    Targets,        \* the monitored targets, without duplicates
    Slots,          \* places for runs of one job, one more than may be taken
    MaxInstances,   \* max_instances
    Callback        \* whether on_scan_complete is given

ASSUME SlotsType == IsFiniteSet(Slots) /\ MaxInstances \in 1 .. Cardinality(Slots)
ASSUME CallbackType == Callback \in BOOLEAN

VARIABLES
    main,       \* where _run_monitor is
    scheduler,  \* the state of the scheduler
    stopAsked,  \* a call of shutdown the event loop has yet to execute
    due,        \* due[t]: the job of t is due
    run,        \* run[t][s]: a run of that job
    row         \* row[t][s]: the row of the last scan that run made

vars == <<main, scheduler, stopAsked, due, run, row>>

Phases == {"none", "begun", "scanning", "callback", "cut"}
Active == {"begun", "scanning", "callback"}
InFlight(t) == {s \in Slots : run[t][s] \in Active}

Init ==
    /\ main = "starting"
    /\ scheduler = "stopped"
    /\ stopAsked = FALSE
    /\ due = [t \in Targets |-> FALSE]
    /\ run = [t \in Targets |-> [s \in Slots |-> "none"]]
    /\ row = [t \in Targets |-> [s \in Slots |-> "none"]]

-----------------------------------------------------------------------------
(* start, shutdown and the end of the process *)

\* next_run_time=now: every job is due at once.
Start ==
    /\ main = "starting"
    /\ main' = "monitoring"
    /\ scheduler' = "running"
    /\ due' = [t \in Targets |-> TRUE]
    /\ UNCHANGED <<stopAsked, run, row>>

\* Mistake: the early return of shutdown is for a scheduler that runs.
ShutdownOfStopped ==
    /\ main = "monitoring"
    /\ main' = "closing"
    /\ stopAsked' = (scheduler # "running")
    /\ UNCHANGED <<scheduler, due, run, row>>

\* A signal sets stop_event; shutdown(wait=True) only asks, and returns.
Shutdown ==
    /\ main = "monitoring"
    /\ main' = "closing"
    /\ stopAsked' = (scheduler = "running")
    /\ UNCHANGED <<scheduler, due, run, row>>

\* Runs that are cancelled where they stand: no handler of theirs sees it.
Cancelled == [t \in Targets |-> [s \in Slots |-> IF s \in InFlight(t) THEN "cut" ELSE run[t][s]]]

SchedulerStops ==
    /\ stopAsked
    /\ stopAsked' = FALSE
    /\ scheduler' = "stopped"
    /\ run' = Cancelled
    /\ UNCHANGED <<main, due, row>>

\* The notifier is closed, the engine disposed, and asyncio.run cancels the
\* tasks that are left once it has run the callbacks that were ready.
Exit ==
    /\ main = "closing"
    /\ ~stopAsked
    /\ main' = "exited"
    /\ run' = Cancelled
    /\ UNCHANGED <<scheduler, stopAsked, due, row>>

-----------------------------------------------------------------------------
(* Jobs *)

\* Mistake: the job is added without its interval, and such a job is due once.
TickOfDate(t) == scheduler = "running" /\ due[t] /\ UNCHANGED vars

\* The interval has passed; with coalesce a job that is due stays due once.
Tick(t) ==
    /\ scheduler = "running"
    /\ due' = [due EXCEPT ![t] = TRUE]
    /\ UNCHANGED <<main, scheduler, stopAsked, run, row>>

\* "We never queue overlapping runs": ReconAgent's Overlap = FALSE rests on it.
Room(t) == Cardinality(InFlight(t)) < MaxInstances

Fire(t) ==
    /\ scheduler = "running"
    /\ due[t] /\ Room(t)
    /\ due' = [due EXCEPT ![t] = FALSE]
    /\ \E s \in Slots :
           /\ run[t][s] = "none"
           /\ run' = [run EXCEPT ![t][s] = "begun"]
           /\ row' = [row EXCEPT ![t][s] = "none"]
    /\ UNCHANGED <<main, scheduler, stopAsked>>

\* The firing is dropped, not queued.
Skip(t) ==
    /\ scheduler = "running"
    /\ due[t] /\ ~Room(t)
    /\ due' = [due EXCEPT ![t] = FALSE]
    /\ UNCHANGED <<main, scheduler, stopAsked, run, row>>

-----------------------------------------------------------------------------
(* _scan_once *)

Advance(t, s, from, to) ==
    /\ run[t][s] = from
    /\ run' = [run EXCEPT ![t][s] = to]
    /\ UNCHANGED <<main, scheduler, stopAsked, due>>

\* Mistake: the tools start before the row is written.
OpenRowLate(t, s) ==
    /\ Advance(t, s, "begun", "scanning")
    /\ UNCHANGED row

OpenRow(t, s) ==
    /\ Advance(t, s, "begun", "scanning")
    /\ row' = [row EXCEPT ![t][s] = "open"]

ScanReturns(t, s) ==
    /\ Advance(t, s, "scanning", IF Callback THEN "callback" ELSE "none")
    /\ row' = [row EXCEPT ![t][s] = "done"]

\* Every exception of the agent is absorbed; the database may have refused to
\* record the failure, or even to open the row.
ScanRaises(t, s) ==
    \/ /\ Advance(t, s, "scanning", "none")
       /\ \E end \in {"failed", "open"} : row' = [row EXCEPT ![t][s] = end]
    \/ Advance(t, s, "begun", "none") /\ UNCHANGED row

\* Returned or raised: the error is absorbed as well.
CallbackEnds(t, s) == Advance(t, s, "callback", "none") /\ UNCHANGED row

-----------------------------------------------------------------------------

RunStep(t, s) ==
    OpenRow(t, s) \/ ScanReturns(t, s) \/ ScanRaises(t, s) \/ CallbackEnds(t, s)

Next ==
    \/ Start \/ Shutdown \/ SchedulerStops \/ Exit
    \/ \E t \in Targets :
           \/ Tick(t) \/ Fire(t) \/ Skip(t)
           \/ \E s \in Slots : RunStep(t, s)

Spec == Init /\ [][Next]_vars

\* The event loop executes what is ready: the command's own steps (but no
\* signal is promised), the scheduler's wake-ups and the runs, whose calls
\* all return in the end.
Fairness ==
    /\ WF_vars(Start) /\ WF_vars(SchedulerStops) /\ WF_vars(Exit)
    /\ \A t \in Targets :
           /\ WF_vars(Tick(t)) /\ WF_vars(Fire(t))
           /\ \A s \in Slots : WF_vars(RunStep(t, s))

FairSpec == Spec /\ Fairness

-----------------------------------------------------------------------------
(* Properties *)

\* Every variable holds a value of its kind, and a run has opened a row once it
\* scans (scheduler.py start, _scan_once).
TypeOK ==
    /\ main \in {"starting", "monitoring", "closing", "exited"}
    /\ scheduler \in {"stopped", "running"}
    /\ stopAsked \in BOOLEAN
    /\ due \in [Targets -> BOOLEAN]
    /\ run \in [Targets -> [Slots -> Phases]]
    /\ row \in [Targets -> [Slots -> {"none", "open", "done", "failed"}]]
    /\ \A t \in Targets, s \in Slots : run[t][s] = "scanning" => row[t][s] = "open"

\* Once the process has gone on from shutdown to its end, nothing is left that
\* could fire a job or go on scanning with a closed notifier.
NothingRunsOn ==
    main = "exited" => /\ scheduler = "stopped" /\ ~stopAsked
                       /\ \A t \in Targets : InFlight(t) = {}

\* "Absorbs all errors so the schedule survives": whatever its scans and
\* callbacks do, every target is scanned again and again until the signal comes.
EveryTargetIsRescanned ==
    \A t \in Targets : []<>(main \in {"closing", "exited"} \/ \E s \in Slots : run[t][s] = "begun")

\* "shutdown(wait=True) lets in-flight scans finish before the process exits,
\* preventing torn DB writes": no scan is cut off with its row open.
NoScanIsTorn ==
    \A t \in Targets, s \in Slots : ~(run[t][s] = "cut" /\ row[t][s] = "open")

=============================================================================
