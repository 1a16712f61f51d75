----------------------------- MODULE MonitorProofs -----------------------------
(***************************************************************************)
(* Proofs about Monitor: nothing is left running when the process has      *)
(* ended.                                                                  *)
(***************************************************************************)
EXTENDS Monitor, TLAPS

\* What the command and the scheduler know of each other: the scheduler runs
\* while the command monitors, and after that until it has heard of the shutdown,
\* which the command waits for before it exits.
StoppingIsOrdered ==
    /\ scheduler = "running" <=> main = "monitoring" \/ stopAsked
    /\ stopAsked => main = "closing"

IInv == TypeOK /\ StoppingIsOrdered /\ NothingRunsOn

-----------------------------------------------------------------------------

\* Runs cancelled where they stand are in flight no more.
LEMMA CancelledLeavesNone ==
    ASSUME TypeOK, run' = Cancelled
    PROVE  /\ run' \in [Targets -> [Slots -> Phases]]
           /\ \A t \in Targets, s \in Slots : run'[t][s] # "scanning"
           /\ \A t \in Targets : InFlight(t)' = {}
<1>1. \A t \in Targets, s \in Slots : run'[t][s] = IF s \in InFlight(t) THEN "cut" ELSE run[t][s]
  BY DEF Cancelled
<1>2. run' \in [Targets -> [Slots -> Phases]]
  BY DEF Cancelled, TypeOK, Phases
<1>3. \A t \in Targets, s \in Slots : run'[t][s] \notin Active
  BY <1>1 DEF InFlight, Active
<1>. QED
  BY <1>2, <1>3 DEF InFlight, Active

\* One step of one run, away from the await it was at.
LEMMA AdvanceEffect ==
    ASSUME TypeOK, NEW t \in Targets, NEW s \in Slots,
           NEW from \in Active, NEW to \in Phases, Advance(t, s, from, to)
    PROVE  /\ run' \in [Targets -> [Slots -> Phases]]
           /\ \A u \in Targets, v \in Slots :
                  run'[u][v] = IF u = t /\ v = s THEN to ELSE run[u][v]
           /\ \A u \in Targets : InFlight(u)' \subseteq InFlight(u)
           /\ main # "exited" \/ ~NothingRunsOn
<1>1. run' = [run EXCEPT ![t][s] = to] /\ run[t][s] = from
  BY DEF Advance
<1>2. /\ run' \in [Targets -> [Slots -> Phases]]
      /\ \A u \in Targets, v \in Slots :
             run'[u][v] = IF u = t /\ v = s THEN to ELSE run[u][v]
  BY <1>1 DEF TypeOK
<1>3. s \in InFlight(t)
  BY <1>1 DEF InFlight
<1>4. \A u \in Targets : InFlight(u)' \subseteq InFlight(u)
  BY <1>2, <1>3 DEF InFlight
<1>. QED
  BY <1>2, <1>3, <1>4 DEF NothingRunsOn

-----------------------------------------------------------------------------

\* No job has run yet, so the inductive invariant holds at first.
LEMMA InitInv == Init => IInv
<1>. SUFFICES ASSUME Init PROVE IInv
  OBVIOUS
<1>1. TypeOK
  BY DEF Init, TypeOK, Phases
<1>. QED
  BY <1>1 DEF Init, IInv, StoppingIsOrdered, NothingRunsOn

\* A firing adds a run, and only a scheduler that runs fires.
LEMMA FireStep ==
    ASSUME IInv, NEW t \in Targets, Fire(t)
    PROVE  IInv'
<1>. USE DEF IInv
<1>1. PICK s \in Slots :
          /\ run[t][s] = "none"
          /\ run' = [run EXCEPT ![t][s] = "begun"]
          /\ row' = [row EXCEPT ![t][s] = "none"]
  BY DEF Fire
<1>2. \A u \in Targets, v \in Slots :
          run'[u][v] = IF u = t /\ v = s THEN "begun" ELSE run[u][v]
  BY <1>1 DEF TypeOK
<1>3. TypeOK'
  BY <1>1, <1>2 DEF TypeOK, Fire, Phases
<1>. QED
  BY <1>3 DEF Fire, StoppingIsOrdered, NothingRunsOn

\* A run's own step ends it or takes it further.
LEMMA RunStepKeeps ==
    ASSUME IInv, NEW t \in Targets, NEW s \in Slots, RunStep(t, s)
    PROVE  IInv'
<1>. USE DEF IInv
<1>1. PICK from \in Active, to \in Phases :
          /\ Advance(t, s, from, to)
          /\ row' \in [Targets -> [Slots -> {"none", "open", "done", "failed"}]]
          /\ \A u \in Targets, v \in Slots :
                 ~(u = t /\ v = s) => row'[u][v] = row[u][v]
          /\ to = "scanning" => row'[t][s] = "open"
  <2>1. CASE OpenRow(t, s)
    BY <2>1 DEF OpenRow, TypeOK, Active, Phases
  <2>2. CASE ScanReturns(t, s)
    BY <2>2 DEF ScanReturns, TypeOK, Active, Phases
  <2>3. CASE ScanRaises(t, s)
    <3>1. CASE /\ Advance(t, s, "scanning", "none")
               /\ \E end \in {"failed", "open"} : row' = [row EXCEPT ![t][s] = end]
      BY <3>1 DEF TypeOK, Active, Phases
    <3>2. CASE Advance(t, s, "begun", "none") /\ UNCHANGED row
      BY <3>2 DEF TypeOK, Active, Phases
    <3>. QED
      BY <2>3, <3>1, <3>2 DEF ScanRaises
  <2>4. CASE CallbackEnds(t, s)
    BY <2>4 DEF CallbackEnds, TypeOK, Active, Phases
  <2>. QED
    BY <2>1, <2>2, <2>3, <2>4 DEF RunStep
<1>2. /\ run' \in [Targets -> [Slots -> Phases]]
      /\ \A u \in Targets, v \in Slots :
             run'[u][v] = IF u = t /\ v = s THEN to ELSE run[u][v]
      /\ \A u \in Targets : InFlight(u)' \subseteq InFlight(u)
      /\ main # "exited"
  BY <1>1, AdvanceEffect
<1>3. UNCHANGED <<main, scheduler, stopAsked, due>>
  BY <1>1 DEF Advance
<1>4. TypeOK'
  BY <1>1, <1>2, <1>3 DEF TypeOK
<1>. QED
  BY <1>2, <1>3, <1>4 DEF StoppingIsOrdered, NothingRunsOn

\* Every step of the command, the scheduler and the runs keeps it.
LEMMA NextInv == IInv /\ [Next]_vars => IInv'
<1>. SUFFICES ASSUME IInv, [Next]_vars PROVE IInv'
  OBVIOUS
<1>. USE DEF IInv
<1>1. CASE Start
  <2>1. \A t \in Targets : InFlight(t)' = InFlight(t)
    BY <1>1 DEF Start, InFlight
  <2>2. TypeOK'
    BY <1>1 DEF Start, TypeOK
  <2>. QED
    BY <1>1, <2>1, <2>2 DEF Start, StoppingIsOrdered, NothingRunsOn
<1>2. CASE Shutdown
  <2>1. \A t \in Targets : InFlight(t)' = InFlight(t)
    BY <1>2 DEF Shutdown, InFlight
  <2>2. TypeOK'
    BY <1>2 DEF Shutdown, TypeOK
  <2>. QED
    BY <1>2, <2>1, <2>2 DEF Shutdown, StoppingIsOrdered, NothingRunsOn
<1>3. CASE SchedulerStops
  <2>1. /\ run' \in [Targets -> [Slots -> Phases]]
        /\ \A t \in Targets, s \in Slots : run'[t][s] # "scanning"
        /\ \A t \in Targets : InFlight(t)' = {}
    BY <1>3, CancelledLeavesNone DEF SchedulerStops
  <2>2. TypeOK'
    BY <1>3, <2>1 DEF SchedulerStops, TypeOK
  <2>. QED
    BY <1>3, <2>1, <2>2 DEF SchedulerStops, StoppingIsOrdered, NothingRunsOn
<1>4. CASE Exit
  <2>1. /\ run' \in [Targets -> [Slots -> Phases]]
        /\ \A t \in Targets, s \in Slots : run'[t][s] # "scanning"
        /\ \A t \in Targets : InFlight(t)' = {}
    BY <1>4, CancelledLeavesNone DEF Exit
  <2>2. TypeOK'
    BY <1>4, <2>1 DEF Exit, TypeOK
  <2>3. scheduler # "running"
    BY <1>4 DEF Exit, StoppingIsOrdered
  <2>. QED
    BY <1>4, <2>1, <2>2, <2>3 DEF Exit, StoppingIsOrdered, NothingRunsOn, TypeOK
<1>5. CASE \E t \in Targets : Tick(t) \/ Skip(t)
  <2>1. \A t \in Targets : InFlight(t)' = InFlight(t)
    BY <1>5 DEF Tick, Skip, InFlight
  <2>2. TypeOK'
    BY <1>5 DEF Tick, Skip, TypeOK
  <2>. QED
    BY <1>5, <2>1, <2>2 DEF Tick, Skip, StoppingIsOrdered, NothingRunsOn
<1>6. CASE \E t \in Targets : Fire(t)
  BY <1>6, FireStep
<1>7. CASE \E t \in Targets, s \in Slots : RunStep(t, s)
  BY <1>7, RunStepKeeps
<1>8. CASE UNCHANGED vars
  <2>1. \A t \in Targets : InFlight(t)' = InFlight(t)
    BY <1>8 DEF vars, InFlight
  <2>2. TypeOK'
    BY <1>8 DEF vars, TypeOK
  <2>. QED
    BY <1>8, <2>1, <2>2 DEF vars, StoppingIsOrdered, NothingRunsOn
<1>. QED
  BY <1>1, <1>2, <1>3, <1>4, <1>5, <1>6, <1>7, <1>8 DEF Next

-----------------------------------------------------------------------------

\* The inductive invariant holds throughout.
LEMMA Invariance == Spec => []IInv
<1>. QED
  BY InitInv, NextInv, PTL DEF Spec

\* The monitor's variables hold values of their kind, and a run that scans has
\* opened its row (scheduler.py start, _scan_once).
THEOREM TypeCorrectness == Spec => []TypeOK
<1>1. IInv => TypeOK
  BY DEF IInv
<1>. QED
  BY <1>1, Invariance, PTL

\* When the command has returned from shutdown and ended, the scheduler has
\* stopped and no run is in flight, whenever the signal came
\* (scheduler.py shutdown, __main__.py _run_monitor).
THEOREM NothingOutlivesTheProcess == Spec => []NothingRunsOn
<1>1. IInv => NothingRunsOn
  BY DEF IInv
<1>. QED
  BY <1>1, Invariance, PTL

=============================================================================
