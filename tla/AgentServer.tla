---------------------------- MODULE AgentServer ----------------------------
(* The two things the agent server does for a desk: the tools of a turn and   *)
(* the calls rail.  They share no state, so what they do side by side is a    *)
(* shuffle of what each does alone, and a behaviour here is one of the two.   *)
EXTENDS AgentTools, CallOutcome

Init == ToolsInit /\ CallInit

Next ==
    \/ desk = Nothing /\ ToolsNext /\ UNCHANGED callVars
    \/ request = <<>> /\ CallNext /\ UNCHANGED toolVars

Spec == Init /\ [][Next]_<<toolVars, callVars>>

\* Types of the tools' answers and of the call.
TypeOK == ToolsTypeOK /\ CallTypeOK
=============================================================================
