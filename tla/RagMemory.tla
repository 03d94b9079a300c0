------------------------------ MODULE RagMemory ------------------------------
(***************************************************************************)
(* The task memory of a stateful RAG dialog (day 25): literal quotes of the*)
(* user, each with the turn it comes from.  The model proposes a patch of  *)
(* changes; reduce_memory accepts all of it or none, and the store accepts *)
(* a dialog only when every item can be found again in its source turn.    *)
(***************************************************************************)
EXTENDS Naturals, Sequences, FiniteSets

CONSTANTS
  Quotes,       \* fragments of user messages
  Messages,     \* user messages
  QuotesOf,     \* per message, the quotes that occur in it
  GroupSize,    \* longest list of one field: 6, 4 and 6 in the code
  NoItem, TheGoal   \* marks: no item_id, the identity of the one goal

ASSUME RagMemoryAssumption ==
  QuotesOf \in [Messages -> SUBSET Quotes] /\ GroupSize \in Nat

Fields == {"goal", "terms"}

Change(ids) ==
  [field : Fields, action : {"set", "remove"}, item : ids \cup {NoItem}, quote : Quotes]

OfField(items, f) == {x \in items : x.field = f}

(* Changes of one patch are told apart by what they touch.                 *)
Identity(c) ==
  <<c.field, IF c.item # NoItem THEN c.item
             ELSE IF c.field = "goal" THEN TheGoal ELSE c.quote>>

(* The validation of TaskMemory: one goal, short lists, ids and texts told *)
(* apart.                                                                  *)
TaskMemoryIsValid(items) ==
  /\ Cardinality(OfField(items, "goal")) <= 1
  /\ Cardinality(OfField(items, "terms")) <= GroupSize
  /\ \A x, y \in items : x.id = y.id => x = y
  /\ \A x, y \in items : x.field = y.field /\ x.text = y.text => x = y

Refused(previous, message, seen, c) ==
  LET old == {x \in OfField(previous, c.field) : x.id = c.item} IN
  \/ c.quote \notin QuotesOf[message]
  \/ c.item # NoItem /\ old = {}
  \/ c.action = "remove" /\ old = {}
  \/ c.field = "goal" /\ OfField(previous, "goal") # {} /\ old = {}
  \/ Identity(c) \in seen

(* One change on the items collected so far; its place in the patch names  *)
(* a new item.                                                             *)
Applied(previous, message, turn, state, c, place) ==
  LET old == {x \in OfField(previous, c.field) : x.id = c.item}
      same == {x \in OfField(state.items, c.field) : x.text = c.quote}
      id == IF c.item = NoItem THEN <<turn, place>> ELSE c.item
      item == [id |-> id, field |-> c.field, text |-> c.quote, turn |-> turn]
      kept == {x \in state.items : ~(x.field = c.field /\ x.id = c.item)}
      next(items) == [ok |-> TRUE, items |-> items, seen |-> state.seen \cup {Identity(c)}]
      no == [state EXCEPT !.ok = FALSE]
  IN IF ~state.ok \/ Refused(previous, message, state.seen, c) THEN no
     ELSE IF c.action = "remove" THEN next(kept)
     ELSE IF same # {}
          THEN IF old # {} /\ \A x \in same : x.id # c.item THEN no
               ELSE next(state.items)
     ELSE next(kept \cup {item})

(* The changes of a patch, one after the other.                            *)
AllApplied(previous, patch, message, turn) ==
  LET after[i \in 0..Len(patch)] ==
        IF i = 0 THEN [ok |-> TRUE, items |-> previous, seen |-> {}]
        ELSE Applied(previous, message, turn, after[i - 1], patch[i], i)
  IN after[Len(patch)]

(* Seeded fault: items are dated with the revision before the turn.        *)
ReduceMemoryLate(previous, patch, message, turn) ==
  LET end == AllApplied(previous, patch, message, turn - 1)
  IN [ok |-> end.ok /\ TaskMemoryIsValid(end.items), items |-> end.items]

(* reduce_memory: every change in order, then the whole.                   *)
ReduceMemory(previous, patch, message, turn) ==
  LET end == AllApplied(previous, patch, message, turn)
  IN [ok |-> end.ok /\ TaskMemoryIsValid(end.items), items |-> end.items]

(* Store.read: what a saved dialog must satisfy to be read at all.         *)
IsReadable(users, items) ==
  /\ TaskMemoryIsValid(items)
  /\ \A x \in items : x.turn \in 1..Len(users) /\ x.text \in QuotesOf[users[x.turn]]
=============================================================================
