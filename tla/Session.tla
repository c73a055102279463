------------------------------ MODULE Session ------------------------------
(***************************************************************************)
(* What the handshake of one session promises, whatever the messages look  *)
(* like and however TCP cuts them: the session understands one target, the *)
(* far proxy reaches that target or none, and the client is told once, of  *)
(* success only when the far proxy has reached it.                         *)
(***************************************************************************)
CONSTANTS
  Targets,  \* what a client may ask for
  NoTarget  \* none of them

VARIABLES
  target,   \* what the session has understood the client to ask for
  reached,  \* what the far proxy has reached for it
  told      \* what the client has been told: "nothing" as yet, "success", "refusal",
            \* or that it never will be, "silence"

vars == << target, reached, told >>

Init == target = NoTarget /\ reached = NoTarget /\ told = "nothing"

Understand ==
  /\ told = "nothing" /\ target = NoTarget
  /\ target' \in Targets
  /\ UNCHANGED << reached, told >>

\* Possibly when the session has already given up.
Reach ==
  /\ told # "success" /\ target # NoTarget /\ reached = NoTarget
  /\ reached' = target
  /\ UNCHANGED << target, told >>

Succeed ==
  /\ told = "nothing" /\ reached # NoTarget
  /\ told' = "success"
  /\ UNCHANGED << target, reached >>

Fail ==
  /\ told = "nothing"
  /\ told' \in {"refusal", "silence"}
  /\ UNCHANGED << target, reached >>

Next == Understand \/ Reach \/ Succeed \/ Fail

Spec == Init /\ [][Next]_vars
=============================================================================
