------------------------------ MODULE BulkOnly ------------------------------
(***************************************************************************)
(* What a bulk-only mass storage device promises its host: a command gets  *)
(* an answer, and the answer is a right one.  The host may have to give a  *)
(* command up, which it does by resetting the device, but not a command of *)
(* Reliable while nothing has disturbed the device.                        *)
(***************************************************************************)
CONSTANTS
    Ops,        \* the commands
    Reliable,   \* those the device always answers
    None,       \* no command, no answer
    Right(_)    \* the right answers to a command

VARIABLES
    op,         \* the command the host waits for
    answer,     \* the answer to the last command
    calm        \* nothing has disturbed the device so far

vars == <<op, answer, calm>>

Init == op = None /\ answer = None /\ calm = TRUE

Command(o) ==
    /\ op = None
    /\ op' = o
    /\ answer' = None
    /\ UNCHANGED calm

Answer ==
    /\ op # None
    /\ answer' \in Right(op)
    /\ op' = None
    /\ UNCHANGED calm

GiveUp ==
    /\ op # None
    /\ op \notin Reliable \/ ~calm \/ ~calm'
    /\ op' = None
    /\ calm' \in {calm, FALSE}
    /\ UNCHANGED answer

Disturb ==
    /\ calm' = FALSE
    /\ UNCHANGED <<op, answer>>

Next == (\E o \in Ops : Command(o)) \/ Answer \/ GiveUp \/ Disturb

Spec == Init /\ [][Next]_vars

\* No command keeps its host for ever.
Ends == []<>(op = None)
=============================================================================
