------------------------------ MODULE MCPipeline ------------------------------
(* Small instances of Pipeline. *)
EXTENDS Pipeline

CONSTANTS p1, p2

\* "web_1" is a subdomain that ScopeEnforcer does not take for a host name
\* because of its underscore; "site" sorts before the names under it.  "www again"
\* is what a second tool reports of the same host: one identity and one name.
MCAssets == {"www", "www again", "web_1", "/admin"}
MCKeyOf == [a \in MCAssets |-> IF a = "www again" THEN "www" ELSE a]
MCNameOf == [a \in {"www", "www again", "web_1"} |-> MCKeyOf[a]]
MCTargets == {"web_1", "site", "www", "unknown"}
MCAuthorized == {"site", "www"}
MCRank ==
    [t \in MCTargets |-> CASE t = "site" -> 1 [] t = "unknown" -> 2
                           [] t = "web_1" -> 3 [] t = "www" -> 4]

\* The list of the one tool stands for the lists of all, one after the other.
MCReconOutputs == {<<>>, <<"www", "www again">>, <<"web_1">>}
MCAttackOutputs ==
    {[assets |-> <<>>, findings |-> <<>>], [assets |-> <<"/admin">>, findings |-> <<"flaw">>]}

\* An answer about a finding, and one that leaves it out.
MCAnswers == {<<>>, <<"item">>}

SameTarget == [p \in Runs |-> "site"]

Pair(first, second) == [p \in Runs |-> IF p = p1 THEN first ELSE second]

PipelineAndScan == {Pair("pipeline", "scan")}
MCGiven == {Pair("pipeline", "scan"), Pair("full", "analyze")}
=============================================================================
