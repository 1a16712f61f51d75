------------------------------ MODULE ScanStore ------------------------------
(***************************************************************************)
(* The scan database as the agents use it: the tables `scans`, `assets`    *)
(* and `findings`, and the operations of ScanRepository on them            *)
(* (src/vanguard_x/db/database.py, db/schema.py).                          *)
(*                                                                         *)
(* Every method of ScanRepository opens one session, that is one database  *)
(* transaction, so each operator below is one atomic step of its caller.   *)
(* A method that raises has rolled its transaction back: the caller models *)
(* that by leaving the tables unchanged.                                   *)
(*                                                                         *)
(* Abstracted: an asset is a value of Assets; KeyOf maps it to the         *)
(* identity Asset.dedupe_key() computes, (type, lower-cased value), so two *)
(* spellings of one host are two assets with one key.  Timestamps, the     *)
(* error text and the JSON columns are left out.  Rows are never deleted   *)
(* by the program, so the id of a scan is its position.                    *)
(***************************************************************************)
EXTENDS Integers, Sequences, FiniteSets, FiniteSetsExt

CONSTANTS
    Targets,    \* what a scan can be started against
    Agents,     \* the values of the column scans.agent
    Assets,     \* what a tool can report: type, spelling and source tool
    Keys,       \* asset identities
    KeyOf,      \* Asset.dedupe_key()
    Findings    \* what an attack tool can report

ASSUME KeyOfType == KeyOf \in [Assets -> Keys]

VARIABLES
    scans,      \* rows of table scans, in id order
    assets,     \* rows of table assets
    findings    \* rows of table findings

store == <<scans, assets, findings>>

Statuses == {"pending", "running", "done", "failed", "scope_violation"}

\* The column value None of ScanDiff.previous_scan_id; ids start at 1.
NoScan == 0

ScanRow == [target : Targets, agent : Agents, status : Statuses]
AssetRow == [scan : Nat \ {0}, asset : Assets]

\* The two integers of a finding row tell apart equal findings of one scan:
\* which tool run reported it and at which place of that tool's list.
FindingRow == [scan : Nat \ {0}, batch : Nat, place : Nat, finding : Findings]

StoreTypeOK ==
    /\ scans \in Seq(ScanRow)
    /\ assets \in SUBSET AssetRow
    /\ findings \in SUBSET FindingRow

StoreInit == scans = <<>> /\ assets = {} /\ findings = {}

-----------------------------------------------------------------------------
(* Writes *)

\* Mistake: the id is read before the row is inserted.
LastScanId == Len(scans)

\* Mistake: one past the row that is inserted.
SkippedScanId == Len(scans) + 2

NextScanId == Len(scans) + 1

CreateScan(target, agent) ==
    /\ scans' = Append(scans, [target |-> target, agent |-> agent, status |-> "pending"])
    /\ UNCHANGED <<assets, findings>>

\* Mistake: UPDATE ... WHERE target instead of WHERE id.
SetStatusOfTarget(id, status) ==
    /\ id \in DOMAIN scans
    /\ scans' = [i \in DOMAIN scans |-> IF scans[i].target = scans[id].target
                                       THEN [scans[i] EXCEPT !.status = status]
                                       ELSE scans[i]]
    /\ UNCHANGED <<assets, findings>>

\* _update_status and _finalise differ in completed_at and error only.
SetStatus(id, status) ==
    /\ id \in DOMAIN scans
    /\ scans' = [scans EXCEPT ![id].status = status]
    /\ UNCHANGED <<assets, findings>>

\* The places of a list of lists, and their order once it is flattened.
Places(batches) ==
    UNION {{<<i, j>> : j \in DOMAIN batches[i]} : i \in DOMAIN batches}

Before(p, q) == p[1] < q[1] \/ (p[1] = q[1] /\ p[2] < q[2])

\* Mistake: no deduplication.
EveryAsset(batches) == {batches[p[1]][p[2]] : p \in Places(batches)}

\* setdefault over the flattened list: the first asset of every key is kept.
FirstOfEachKey(batches) ==
    {batches[p[1]][p[2]] : p \in
        {q \in Places(batches) :
            \A e \in Places(batches) :
                Before(e, q) => KeyOf[batches[e[1]][e[2]]] # KeyOf[batches[q[1]][q[2]]]}}

AssetRowsOf(id, batches) ==
    {[scan |-> id, asset |-> a] : a \in FirstOfEachKey(batches)}

\* Mistake: the rows are filed under the newest scan.
FindingRowsOfNewest(id, batches) ==
    {[scan |-> Len(scans), batch |-> p[1], place |-> p[2], finding |-> batches[p[1]][p[2]]]
        : p \in Places(batches)}

FindingRowsOf(id, batches) ==
    {[scan |-> id, batch |-> p[1], place |-> p[2], finding |-> batches[p[1]][p[2]]]
        : p \in Places(batches)}

PersistAssets(id, batches) ==
    /\ assets' = assets \cup AssetRowsOf(id, batches)
    /\ UNCHANGED <<scans, findings>>

PersistFindings(id, batches) ==
    /\ findings' = findings \cup FindingRowsOf(id, batches)
    /\ UNCHANGED <<scans, assets>>

-----------------------------------------------------------------------------
(* Reads *)

ListAssets(id) == {row.asset : row \in {r \in assets : r.scan = id}}

\* changes._index: the identities of a scan's assets.
Index(id) == {KeyOf[a] : a \in ListAssets(id)}

\* Mistake: the filter on the status is missing.
ScansBefore(target, before) ==
    {i \in DOMAIN scans : scans[i].target = target /\ i < before}

DoneScansBefore(target, before) ==
    {i \in DOMAIN scans :
        scans[i].target = target /\ scans[i].status = "done" /\ i < before}

\* Mistake: ascending order.
OldestCompletedScan(target, before) ==
    IF DoneScansBefore(target, before) = {}
    THEN NoScan
    ELSE Min(DoneScansBefore(target, before))

PreviousCompletedScan(target, before) ==
    IF DoneScansBefore(target, before) = {}
    THEN NoScan
    ELSE Max(DoneScansBefore(target, before))

\* get_latest_completed_scan_id: no agent is asked for, and no bound on the id.
LatestCompletedScan(target) == PreviousCompletedScan(target, NextScanId)

=============================================================================
