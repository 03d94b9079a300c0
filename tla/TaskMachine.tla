---------------------------- MODULE TaskMachine ----------------------------
(***************************************************************************)
(* Task states and the pure resolution of events (task_state.py), for any  *)
(* definition of a workflow; CheckoutV1 and CheckoutV2 are the ones the    *)
(* program ships.                                                          *)
(***************************************************************************)
EXTENDS Naturals

CONSTANTS Nodes, InitialNode, TerminalNodes, Transitions

(* TaskStateDefinition.valid_definition.                                   *)
ASSUME ValidDefinition ==
  /\ InitialNode \in Nodes /\ TerminalNodes \subseteq Nodes
  /\ \A t \in Transitions :
       /\ t.source \in Nodes \ TerminalNodes /\ t.target \in Nodes
       /\ t.event \notin {"PAUSE", "RESUME"}
       /\ \A u \in Transitions : u.source = t.source /\ u.event = t.event => u = t

Events == {t.event : t \in Transitions} \cup {"PAUSE", "RESUME"}

State == [node : Nodes, status : {"ACTIVE", "PAUSED"}, revision : Nat]

(* validate_state: a finished task is not paused.                          *)
IsValid(state) == state.node \in TerminalNodes => state.status = "ACTIVE"

Initial == [node |-> InitialNode, status |-> "ACTIVE", revision |-> 0]

AllowedEvents(state) ==
  IF state.node \in TerminalNodes THEN {}
  ELSE IF state.status = "PAUSED" THEN {"RESUME"}
  ELSE {t.event : t \in {u \in Transitions : u.source = state.node}} \cup {"PAUSE"}

(* resolve, of an allowed event.                                           *)
Resolved(state, event) ==
  IF event \in {"PAUSE", "RESUME"}
  THEN [state EXCEPT !.status = IF event = "PAUSE" THEN "PAUSED" ELSE "ACTIVE",
                     !.revision = @ + 1]
  ELSE [state EXCEPT !.node = (CHOOSE t \in Transitions :
                                 t.source = state.node /\ t.event = event).target,
                     !.revision = @ + 1]

-----------------------------------------------------------------------------
(* The workflows of the program: checkout_workflow.py, playground_workflow.py *)
CheckoutNodes == {"PLANNING_REQUIREMENTS", "PLANNING_APPROVAL", "EXECUTION_IMPLEMENT",
                  "VALIDATION_CHECK", "DONE"}

Edge(source, event, target) == [source |-> source, event |-> event, target |-> target]

CheckoutV1 == {
  Edge("PLANNING_REQUIREMENTS", "REQUIREMENTS_READY", "PLANNING_APPROVAL"),
  Edge("PLANNING_APPROVAL", "PLAN_APPROVED", "EXECUTION_IMPLEMENT"),
  Edge("EXECUTION_IMPLEMENT", "IMPLEMENTATION_READY", "VALIDATION_CHECK"),
  Edge("VALIDATION_CHECK", "VALIDATION_CONFIRMED", "DONE")}

CheckoutV2 == CheckoutV1 \cup {
  Edge("PLANNING_APPROVAL", "REQUIREMENTS_REVISION_REQUIRED", "PLANNING_REQUIREMENTS"),
  Edge("VALIDATION_CHECK", "VALIDATION_FAILED", "EXECUTION_IMPLEMENT")}
=============================================================================
