------------------------------- MODULE ToolCall -------------------------------
(***************************************************************************)
(* One call of BaseTool.run (src/vanguard_x/tools/__init__.py): the scope  *)
(* check, LocalRunner.run or DockerExecRunner.run (core/runners.py) with   *)
(* the process it starts, its timeout and its cancellation, and the parse  *)
(* of what the process wrote.                                              *)
(*                                                                         *)
(* The code between two awaits is one action.  What asyncio and the        *)
(* operating system do is as runners.py uses them, on the Python 3.12 the  *)
(* project requires.  With docker the process is the client and the tool   *)
(* runs inside the container.                                              *)
(***************************************************************************)
EXTENDS Parsers

CONSTANTS
    Calls,     \* what a call is given: [authorized, target, tool, docker]
    Outputs    \* Outputs[t]: what tool t can write

ASSUME CallsType ==
    \A c \in Calls : /\ c.tool \in Tools /\ c.docker \in BOOLEAN
                     /\ c.authorized \subseteq EntryRecords /\ c.target \in TargetRecords
ASSUME OutputsOfTools ==
    \A t \in Tools : t \in DOMAIN Outputs /\ Outputs[t] \subseteq OutputsOf(t)

VARIABLES
    call,       \* what this call is given
    pc,         \* the await it is at, or how it ended
    process,    \* the subprocess: its life as the operating system sees it
    inside,     \* with docker, the tool inside the container
    stdout,     \* what the process wrote, once it has exited by itself
    exitCode,   \* its exit code; -1, that of SIGHUP, stands for the signals
    cancelled,  \* the await at which the task was cancelled, or "no"
    result      \* the ToolRunResult, or NoResult, with what CommandResult had
                \* in timed_out, which the wrappers do not hand on

callVars == <<call, pc, process, inside, stdout, exitCode, cancelled, result>>

Awaits == {"spawning", "communicate", "expired", "reap"}
CallEnds == {"invalid", "refused", "raised", "cancelled", "returned"}
ProcessStates == {"none", "running", "exited", "killed", "dead"}

NoCall == [authorized |-> {}, target |-> NameOfHost(<<>>), tool |-> "none", docker |-> FALSE]
NoOutput == [shape |-> "lines", lines |-> <<>>]
NoResult == [made |-> FALSE, assets |-> {}, findings |-> {}, code |-> 0, timedOut |-> FALSE]

CallInit(c) ==
    /\ call = c
    /\ pc = IF c = NoCall THEN "idle" ELSE "construct"
    /\ process = "none"
    /\ inside = "none"
    /\ stdout = NoOutput
    /\ exitCode = 0
    /\ cancelled = "no"
    /\ result = NoResult

Ends(how) == pc' = how /\ UNCHANGED <<call, process, inside, stdout, exitCode, cancelled, result>>

-----------------------------------------------------------------------------
(* The call *)

\* The enforcer is built at start-up, and an entry that is no rule ends it.
BuildEnforcer ==
    /\ pc = "construct"
    /\ Ends(IF Constructs(call.authorized) THEN "begin" ELSE "invalid")

Allowed == IsAuthorized(Rules(call.authorized), call.target)

\* assert_authorized raises before any command line is built.
Refuse == pc = "begin" /\ ~Allowed /\ Ends("refused")

\* create_subprocess_exec has forked when it first waits; a binary that is not
\* there raises ToolExecutionError.
Spawn ==
    /\ pc = "begin" /\ Allowed
    /\ \/ /\ pc' = "spawning"
          /\ process' = "running"
          /\ UNCHANGED <<call, inside, stdout, exitCode, cancelled, result>>
       \/ Ends("raised")

Connected == pc = "spawning" /\ Ends("communicate")

\* A parse that fails leaves a result with the exit code and nothing else.
RunResult(found, code, timedOut) ==
    [made |-> TRUE, code |-> code, timedOut |-> timedOut,
     assets |-> IF found.raised THEN {} ELSE found.assets,
     findings |-> IF found.raised THEN {} ELSE found.findings]

ReturnParsed(output, code, timedOut) ==
    /\ pc' = "returned"
    /\ result' = RunResult(Parse(call.tool, call.target, output), code, timedOut)

\* communicate has the whole output of a process that exited; it is parsed
\* whatever the exit code.
Communicated ==
    /\ pc = "communicate" /\ process = "exited"
    /\ ReturnParsed(stdout, exitCode, FALSE)
    /\ UNCHANGED <<call, process, inside, stdout, exitCode, cancelled>>

\* Mistake: wait_for is given no timeout.
NeverExpires == FALSE /\ UNCHANGED callVars

\* The timer of wait_for cancels communicate; the task resumes in a later turn.
TimerExpires == pc = "communicate" /\ Ends("expired")

\* Mistake: the process is waited for but not killed.
WaitWithoutKill == pc = "expired" /\ Ends("reap")

\* except TimeoutError.  A process that has exited in the meantime is either
\* still known to the transport, or gone: kill raises ProcessLookupError then.
Kill ==
    /\ pc = "expired"
    /\ \/ /\ pc' = "reap"
          /\ process' = IF process = "running" THEN "killed" ELSE process
          /\ UNCHANGED <<call, inside, stdout, exitCode, cancelled, result>>
       \/ process = "exited" /\ Ends("raised")

\* Mistake: the timed-out command is returned as it is, never parsed.
ReapedUnparsed ==
    /\ pc = "reap" /\ process \in {"exited", "dead"}
    /\ Ends("returned")

\* Mistake: what the process had written by the time of the kill is handed on.
ReapedWithOutput ==
    /\ pc = "reap" /\ process \in {"exited", "dead"}
    /\ ReturnParsed(stdout, -1, TRUE)
    /\ UNCHANGED <<call, process, inside, stdout, exitCode, cancelled>>

\* A command that timed out has return code -1 and an empty stdout.
Reaped ==
    /\ pc = "reap" /\ process \in {"exited", "dead"}
    /\ ReturnParsed(NoOutput, -1, TRUE)
    /\ UNCHANGED <<call, process, inside, stdout, exitCode, cancelled>>

\* The task is cancelled at an await: while the process is being connected the
\* transport is closed, which kills it; at communicate nothing handles it, nor
\* when the timer has expired as well; at wait it is suppressed.
Cancel ==
    /\ pc \in Awaits /\ cancelled = "no"
    /\ cancelled' = pc
    /\ CASE pc = "spawning" ->
              /\ pc' = "cancelled"
              /\ process' = IF process = "running" THEN "dead" ELSE process
              /\ UNCHANGED result
         [] pc = "reap" -> ReturnParsed(NoOutput, -1, TRUE) /\ UNCHANGED process
         [] OTHER -> pc' = "cancelled" /\ UNCHANGED <<process, result>>
    /\ UNCHANGED <<call, inside, stdout, exitCode>>

-----------------------------------------------------------------------------
(* The process, and the tool in a container *)

ToolStarts ==
    /\ call.docker /\ process = "running" /\ inside = "none"
    /\ inside' = "running"
    /\ UNCHANGED <<call, pc, process, stdout, exitCode, cancelled, result>>

\* It exits by itself, or by a signal from outside; a client whose container is
\* not there writes nothing, and one that a signal ends leaves the tool running.
ProcessExits ==
    /\ process = "running"
    /\ process' = "exited"
    /\ IF call.docker /\ inside = "none"
       THEN stdout' = NoOutput /\ exitCode' \in {-1, 1}
       ELSE stdout' \in Outputs[call.tool] /\ exitCode' \in {-1, 0, 1}
    /\ inside' = IF inside = "running" /\ exitCode' # -1 THEN "ended" ELSE inside
    /\ UNCHANGED <<call, pc, cancelled, result>>

ProcessDies ==
    /\ process = "killed" /\ process' = "dead"
    /\ UNCHANGED <<call, pc, inside, stdout, exitCode, cancelled, result>>

\* SIGKILL reaches the client only: the tool ends when it ends.
ToolEnds ==
    /\ inside = "running" /\ process # "running"
    /\ inside' = "ended"
    /\ UNCHANGED <<call, pc, process, stdout, exitCode, cancelled, result>>

-----------------------------------------------------------------------------

CallStep ==
    \/ BuildEnforcer \/ Refuse \/ Spawn \/ Connected
    \/ Communicated \/ Kill \/ Reaped

CallNext ==
    \/ CallStep \/ TimerExpires \/ Cancel
    \/ ToolStarts \/ ProcessExits \/ ProcessDies \/ ToolEnds

\* The event loop runs what is ready, timers expire, and what is killed dies;
\* nothing makes a process exit by itself.
CallFairness ==
    /\ WF_callVars(CallStep)
    /\ WF_callVars(TimerExpires)
    /\ WF_callVars(ProcessDies)

-----------------------------------------------------------------------------
(* Properties *)

Results ==
    [made : BOOLEAN, assets : SUBSET [type : AssetTypes, value : Seq(STRING)],
     findings : SUBSET [severity : Severities, title : STRING, at : STRING],
     code : -1 .. 1, timedOut : BOOLEAN]

\* Every variable holds a value of its kind; a call that returned has a result
\* and no other has (tools/__init__.py run).
CallTypeOK ==
    /\ pc \in {"idle", "construct", "begin"} \cup Awaits \cup CallEnds
    /\ process \in ProcessStates
    /\ inside \in {"none", "running", "ended"} /\ (inside # "none" => call.docker)
    /\ cancelled \in {"no"} \cup Awaits
    /\ result = NoResult \/ result \in Results
    /\ pc = "returned" <=> result.made

\* "The hard safety boundary": a process is started for a target only when an
\* entry covers it by its labels or its range of addresses, a refusal is
\* raised only when none does, and entries that are no rule start nothing
\* (scope.py, tools/__init__.py 62).
OnlyAuthorizedRun ==
    /\ process # "none" => Permitted(call.authorized, call.target)
    /\ pc = "refused" => ~Permitted(call.authorized, call.target)
    /\ pc = "invalid" => process = "none"

ToolIsRunning ==
    IF call.docker THEN inside = "running" ELSE process = "running"

\* A tool that runs on after its call has ended was left by a cancellation
\* while its output was awaited, or is in a container, where neither the kill
\* nor a signal to the client reaches; the kill at the timeout leaves nothing
\* else (runners.py 108-115).
OrphansHaveACause ==
    pc \in CallEnds /\ ToolIsRunning =>
        \/ cancelled \in {"communicate", "expired"}
        \/ call.docker /\ (process \in {"killed", "dead"} \/ exitCode = -1)

Alone(line) == Parse(call.tool, call.target, [stdout EXCEPT !.lines = <<line>>])

\* What a call returns without a timeout is of the whole output of a process that
\* has exited, under its exit code, -1 included: nothing but what its lines yield,
\* and all they yield unless one of them raises.  A call that timed out, cancelled
\* while it was reaped or not, returns nothing of what the process had written
\* (tools/__init__.py 76-88, the parsers, runners.py 106-131).  What else a line
\* that raises may cost is left open here.
ResultIsOfItsOutput ==
    pc = "returned" =>
        LET parts == {Alone(l) : l \in ToSet(stdout.lines)}
            assets == UNION {p.assets : p \in parts}
            findings == UNION {p.findings : p \in parts} IN
        IF result.timedOut
        THEN result.code = -1 /\ result.assets = {} /\ result.findings = {}
        ELSE /\ process = "exited" /\ cancelled = "no" /\ result.code = exitCode
             /\ result.assets \subseteq assets /\ result.findings \subseteq findings
             /\ \/ \E p \in parts : p.raised
                \/ result.assets = assets /\ result.findings = findings

\* "Stay strictly in scope": a subdomain a tool reports lies below the target's
\* text by its labels.  Below a host name, what reads as a host name is permitted
\* by the entries that permitted the target (subfinder.py 67-72, harvester.py
\* 69-74); so the attack that follows is refused only over what is no host name,
\* or over what lies below an address.
SubdomainsStayInScope ==
    \A a \in result.assets : a.type = "subdomain" =>
        /\ IsStrictSuffix(Labels(Lower(call.target.text)), Labels(a.value))
        /\ call.target.family = 0 /\ IsHostName(a.value) =>
               Permitted(call.authorized, NameOfHost(a.value))

=============================================================================
