-------------------------- MODULE PlaygroundTasks --------------------------
(***************************************************************************)
(* What the playground promises about tasks, as if it kept them in one     *)
(* place: a task appears whole, with its policy, at the start of its       *)
(* workflow; it moves by events of the workflow; its policy never changes; *)
(* and a conversation turn is saved once, for a task that is not finished. *)
(***************************************************************************)
EXTENDS TaskMachine

CONSTANTS Tasks, Architectures, Sends

VARIABLE tasks      \* of each task that has appeared: its policy, state and saved turns

Init == tasks = [t \in {} |-> Initial]

Appear(t) ==
  /\ t \notin DOMAIN tasks
  /\ \E policy \in Architectures :
       tasks' = [u \in DOMAIN tasks \cup {t} |->
                   IF u = t THEN [policy |-> policy, state |-> Initial, turns |-> {}]
                   ELSE tasks[u]]

Move(t, event) ==
  /\ t \in DOMAIN tasks
  /\ event \in AllowedEvents(tasks[t].state)
  /\ tasks' = [tasks EXCEPT ![t].state = Resolved(@, event)]

SaveTurn(t, m) ==
  /\ t \in DOMAIN tasks /\ tasks[t].state.node \notin TerminalNodes
  /\ \A u \in DOMAIN tasks : m \notin tasks[u].turns
  /\ tasks' = [tasks EXCEPT ![t].turns = @ \cup {m}]

Next == \E t \in Tasks :
  \/ Appear(t)
  \/ \E event \in Events : Move(t, event)
  \/ \E m \in Sends : SaveTurn(t, m)

Spec == Init /\ [][Next]_tasks
=============================================================================
