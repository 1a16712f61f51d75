----------------------------- MODULE ScanHistory -----------------------------
(***************************************************************************)
(* What the scan database promises to whoever reads it, whichever agents   *)
(* write to it and in whatever order: a log of scans, "one row per agent   *)
(* run" (db/schema.py), each with a life of its own (models.py,            *)
(* ScanStatus), and the rows recorded under each.                          *)
(*                                                                         *)
(*     pending --> running --> done --> failed                             *)
(*                    |----> failed                                        *)
(*                    |----> scope_violation                               *)
(*                                                                         *)
(* It is an abstract specification: the agents' modules implement it with  *)
(* records standing for all the rows that carry a scan_id.                 *)
(***************************************************************************)
EXTENDS Integers, Sequences

CONSTANTS Targets, Agents

VARIABLES
    scans,      \* the scans, in id order
    records     \* the rows recorded under them, each with the scan's id

history == <<scans, records>>

Final == {"done", "failed", "scope_violation"}

Under(i) == {rec \in records : rec.scan = i}

Init == scans = <<>> /\ records = {}

Create(target, agent) ==
    /\ scans' = Append(scans, [target |-> target, agent |-> agent, status |-> "pending"])
    /\ UNCHANGED records

Move(i, from, to) ==
    /\ scans[i].status = from
    /\ scans' = [scans EXCEPT ![i].status = to]
    /\ UNCHANGED records

Begin(i) == Move(i, "pending", "running")

\* Rows are recorded only while the scan runs, and never taken back.
Write(i) ==
    /\ scans[i].status = "running"
    /\ records \subseteq records'
    /\ \A rec \in records' \ records : rec.scan = i
    /\ UNCHANGED scans

Finish(i) == \E to \in Final : Move(i, "running", to)

\* A scan that was done is declared failed when what follows it fails: its
\* summary, or the messages about it.
Revoke(i) == Move(i, "done", "failed")

Next ==
    \/ \E t \in Targets, a \in Agents : Create(t, a)
    \/ \E i \in DOMAIN scans : Begin(i) \/ Write(i) \/ Finish(i) \/ Revoke(i)

Spec == Init /\ [][Next]_history

=============================================================================
