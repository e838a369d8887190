---------------------------- MODULE ActionQueue ----------------------------
(***************************************************************************)
(* The queue of pending actions of the monitor (src/init).  It is the      *)
(* intrusive doubly linked list of include/cutils/list.h: every action     *)
(* owns exactly one node (act->qlist), the queue is a head node, and the   *)
(* list is circular.  Nothing records whether a node is already linked.    *)
(*                                                                         *)
(* A list is a record [next, prev] of two functions on nodes.              *)
(***************************************************************************)
EXTENDS Naturals, Sequences

CONSTANTS Action,    \* the actions of the rc file and the builtin ones
          QHead,     \* the head node, action_queue
          NoNode     \* a pointer that was never set: the nodes are calloc'ed

ASSUME QHeadAssumption == QHead \notin Action /\ NoNode \notin Action \cup {QHead}

Node == Action \cup {QHead}

List == [next : [Node -> Node \cup {NoNode}], prev : [Node -> Node \cup {NoNode}]]

(***************************************************************************)
(* The operations, assignment by assignment.                               *)
(***************************************************************************)
ListInit ==
  [next |-> [n \in Node |-> IF n = QHead THEN QHead ELSE NoNode],
   prev |-> [n \in Node |-> IF n = QHead THEN QHead ELSE NoNode]]

ListEmpty(l) == l.next[QHead] = QHead

\* item->next = head; item->prev = head->prev; head->prev->next = item;
\* head->prev = item.  The third line reads head->prev before the fourth.
AddTail(l, item) ==
  [next |-> [[l.next EXCEPT ![item] = QHead] EXCEPT ![l.prev[QHead]] = item],
   prev |-> [[l.prev EXCEPT ![item] = l.prev[QHead]] EXCEPT ![QHead] = item]]

\* item->next->prev = item->prev; item->prev->next = item->next.  The second
\* line reads item->prev after the first one may have changed it.
Unlink(l, item) ==
  LET prev1 == [l.prev EXCEPT ![l.next[item]] = l.prev[item]]
  IN  [next |-> [l.next EXCEPT ![prev1[item]] = l.next[item]], prev |-> prev1]

HeadOf(l) == l.next[QHead]

RemoveHead(l) == Unlink(l, HeadOf(l))

(***************************************************************************)
(* What the list stands for: the sequence of actions a walk along the next *)
(* pointers visits.  Outside 1..Len(q) a position is the head node.        *)
(***************************************************************************)
At(q, i) == IF i \in 1..Len(q) THEN q[i] ELSE QHead

Distinct(q) == \A i, j \in 1..Len(q) : q[i] = q[j] => i = j

Represents(l, q) ==
  /\ q \in Seq(Action)
  /\ Distinct(q)
  /\ \A i \in 0..Len(q) : /\ l.next[At(q, i)] = At(q, i + 1)
                          /\ l.prev[At(q, i + 1)] = At(q, i)

Linked(q, a) == \E i \in 1..Len(q) : q[i] = a
=============================================================================
