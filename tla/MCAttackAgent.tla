---------------------------- MODULE MCAttackAgent ----------------------------
(* Small instances of AttackAgent. *)
EXTENDS AttackAgent

CONSTANTS r1, r2, r3

MCAssets == {"path"}
MCKeyOf == [a \in MCAssets |-> a]
MCFindings == {"low", "high"}
MCUrgent == {"high"}
MCOutputs == {Nothing, [assets |-> <<"path">>, findings |-> <<"high", "low", "high">>]}

\* The agent may attack all but "alien".
MCTargets == {"site", "annex", "lab", "alien", "unknown"}
MCAuthorized == {"site", "annex", "lab"}

\* One run works, one is refused at its second target, and the tool of the last
\* refuses its first target.
MCCalledWith ==
    [r \in Runs |-> CASE r = r1 -> {<<"site", "annex">>}
                      [] r = r2 -> {<<"site", "alien">>}
                      [] r = r3 -> {<<"lab", "site">>}]

\* The tool was built with a narrower scope than the agent.
NarrowTool == <<{"site", "annex"}>>
=============================================================================
