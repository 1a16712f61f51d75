---------------------------- MODULE MCAnalyzeAgent ----------------------------
(* Small instances of AnalyzeAgent. *)
EXTENDS AnalyzeAgent

CONSTANTS r1, r2

Attack(target, status) == [target |-> target, agent |-> "attack", status |-> status]

\* A scan with two batches of findings and one more, from two tools; one that
\* fills a batch; and one that was cut off when half its results were written.
MCPastScans == <<Attack("site", "done"), Attack("annex", "done"), Attack("site", "running")>>

Found(scan, batch, places) ==
    {[scan |-> scan, batch |-> batch, place |-> p, finding |-> "low"] : p \in places}

MCPastFindings ==
    Found(1, 1, 1 .. 3) \cup Found(1, 2, 1 .. 2) \cup Found(2, 1, 1 .. 2) \cup Found(3, 1, {1})

\* Too few items for a batch of two, too many, none, and one that raises.
MCItems == {"item", "odd"}
MCAnswers == {<<>>, <<"item">>, <<"item", "item", "item">>, <<"odd">>}

NoKeys == <<>>

MCTargets == {"site", "annex"}
MCTargetOf == [r \in Runs |-> "site"]
MCCalledWith == [r \in Runs |-> IF r = r1 THEN {NoScan, 2} ELSE {NoScan, 3, 9}]
LeftToChoose == [r \in Runs |-> {NoScan}]
=============================================================================
