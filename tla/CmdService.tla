----------------------------- MODULE CmdService -----------------------------
(***************************************************************************)
(* What the command queue of the driver promises its callers: a queue in   *)
(* which each command stands once, whose head is the one that is worked    *)
(* on, and an answer to every caller that waits.                           *)
(***************************************************************************)
EXTENDS Sequences

CONSTANTS
  Cmds,     \* the commands, each with its own caller
  WaitCmds  \* those whose callers wait for the answer

VARIABLES
  todo,     \* the commands accepted and not finished, in order
  fate,     \* what became of each command
  answer,   \* the result each caller was given, or "none"
  returned  \* whether the caller has returned, with an answer or without

svars == <<todo, fate, answer, returned>>

Init ==
  /\ todo = <<>>
  /\ fate = [c \in Cmds |-> "new"]
  /\ answer = [c \in Cmds |-> "none"]
  /\ returned = [c \in Cmds |-> FALSE]

(***************************************************************************)
(* A command is accepted, or refused and gone before its caller waits.     *)
(***************************************************************************)
Accept(c) ==
  /\ fate[c] = "new"
  /\ fate' = [fate EXCEPT ![c] = "accepted"]
  /\ todo' = Append(todo, c)
  /\ UNCHANGED <<answer, returned>>

Refuse(c) ==
  /\ fate[c] = "new"
  /\ fate' = [fate EXCEPT ![c] = "gone"]
  /\ returned' = [returned EXCEPT ![c] = TRUE]
  /\ UNCHANGED <<todo, answer>>

(***************************************************************************)
(* The caller of the command at the head gets the one answer it ever gets. *)
(***************************************************************************)
Tell(c, r) ==
  /\ todo # <<>> /\ c = Head(todo)
  /\ c \in WaitCmds /\ ~returned[c] /\ answer[c] = "none"
  /\ answer' = [answer EXCEPT ![c] = r]
  /\ UNCHANGED <<todo, fate, returned>>

(***************************************************************************)
(* The command at the head is done with.  Nobody still waits for it.       *)
(***************************************************************************)
Finish(c) ==
  /\ todo # <<>> /\ c = Head(todo)
  /\ c \in WaitCmds => returned[c] \/ answer[c] # "none"
  /\ todo' = Tail(todo)
  /\ fate' = [fate EXCEPT ![c] = "gone"]
  /\ UNCHANGED <<answer, returned>>

(***************************************************************************)
(* The caller goes its way, answered or not.                               *)
(***************************************************************************)
Return(c) ==
  /\ fate[c] # "new" /\ ~returned[c]
  /\ returned' = [returned EXCEPT ![c] = TRUE]
  /\ UNCHANGED <<todo, fate, answer>>

Next ==
  \E c \in Cmds :
    \/ Accept(c) \/ Refuse(c) \/ Finish(c) \/ Return(c)
    \/ \E r \in {"SUCCESS", "ERROR", "DROP"} : Tell(c, r)

Spec == Init /\ [][Next]_svars

=============================================================================
