----------------------------- MODULE MCReconAgent -----------------------------
(* Small instances of ReconAgent. *)
EXTENDS ReconAgent, TLC

CONSTANTS r1, r2, r3, r4

\* "host" and "HOST" are two spellings of one identity.
MCAssets == {"host", "HOST", "port"}
MCKeys == {"host", "port"}
MCKeyOf == [a \in MCAssets |-> IF a = "port" THEN "port" ELSE "host"]
MCOutputs == {<<>>, <<"host">>, <<"HOST", "port">>}
FewOutputs == {<<>>, <<"host">>}
\* One list with both spellings of an identity, or nothing.
TwoSpellings == {<<>>, <<"HOST", "port", "host">>}

\* The agent may scan "site" and "annex"; nobody authorised "alien".
MCTargets == {"site", "annex", "alien"}
MCAuthorized == {"site", "annex"}
SameTarget == [r \in Runs |-> "site"]
\* The last run is given a target that is refused before it writes anything.
LastIsRefused == [r \in Runs |-> IF r = r4 THEN "alien" ELSE "site"]
ThreeTargets ==
    [r \in Runs |-> CASE r = r1 -> "site" [] r = r2 -> "annex" [] r = r3 -> "alien"]

OneTool == <<{MCAuthorized}>>

\* The second tool has the agent's scope, or one without "site".
MayRefuseSite == <<{MCAuthorized}, {MCAuthorized, {"annex"}}>>

\* The second tool was built with a narrower scope than the agent.
NarrowSecondTool == <<{MCAuthorized}, {{"site"}}>>

RunSymmetry == Permutations({r1, r2, r3})
=============================================================================
