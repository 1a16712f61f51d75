----------------------------- MODULE OutsideCalls -----------------------------
(***************************************************************************)
(* The calls by which an agent reaches outside its process: one call of a  *)
(* tool, or one change alert.  The two share no state and an agent awaits  *)
(* the one before it makes the other, so a behaviour has one of them.      *)
(***************************************************************************)
EXTENDS ToolCall, ChangeAlert

vars == <<callVars, alertVars>>

Init ==
    \/ (\E c \in Calls : CallInit(c)) /\ AlertInit(NoComparison)
    \/ CallInit(NoCall) /\ (\E c \in Comparisons : AlertInit(c))

Next ==
    \/ CallNext /\ UNCHANGED alertVars
    \/ AlertNext /\ UNCHANGED callVars

Spec == Init /\ [][Next]_vars /\ CallFairness

-----------------------------------------------------------------------------
(* Properties *)

\* Every variable holds a value of its kind, and a call has a result exactly
\* when it returned (tools/__init__.py run, telegram.py send_change_alert).
TypeOK == CallTypeOK /\ AlertTypeOK

\* "Every runner enforces a timeout": a call that is made ends, although the
\* process may never exit, and unless the call was cancelled, what runs on
\* then is in a container.
EveryCallEnds ==
    [](pc = "begin" => <>(/\ pc \in CallEnds
                          /\ ToolIsRunning => call.docker \/ cancelled # "no"))

=============================================================================
