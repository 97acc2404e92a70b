------------------------------ MODULE Chunking ------------------------------
(***************************************************************************)
(* How the recipients of a bulk email are cut into the lists of its        *)
(* subtasks: _get_number_of_subtasks and _generate_items_for_subtask of    *)
(* lms/djangoapps/instructor_task/subtasks.py.  The recipients are         *)
(* numbered 1, 2, ... in the order in which the query yields them.         *)
(***************************************************************************)
EXTENDS Integers, Sequences, FiniteSets

CONSTANTS
  Counted,    \* total_num_items: the result of the query's COUNT
  PerTask     \* BULK_EMAIL_EMAILS_PER_TASK

ASSUME CountedAssumption == Counted \in Nat
ASSUME PerTaskAssumption == PerTask \in Nat \ {0}

_get_number_of_subtasks(items) ==
  items \div PerTask + (IF items % PerTask > 0 THEN 1 ELSE 0)

NumSubtasks == _get_number_of_subtasks(Counted)

\* Mutants: a list is only full with one item too many, ...
AdvancedLate(gen, i) ==
  IF Cardinality(gen.items) > PerTask /\ Len(gen.yielded) < NumSubtasks - 1
  THEN [yielded |-> Append(gen.yielded, gen.items), items |-> {i}]
  ELSE [gen EXCEPT !.items = @ \cup {i}]

\* ... the list is not emptied when it was yielded.
AdvancedUnreset(gen, i) ==
  IF Cardinality(gen.items) = PerTask /\ Len(gen.yielded) < NumSubtasks - 1
  THEN [yielded |-> Append(gen.yielded, gen.items), items |-> gen.items \cup {i}]
  ELSE [gen EXCEPT !.items = @ \cup {i}]

\* The generator before it looks at item i: the lists it has yielded and the
\* one it is filling.  A list that is full is only yielded when another item
\* comes, and never the last one: that takes whatever is left.
Advanced(gen, i) ==
  IF Cardinality(gen.items) = PerTask /\ Len(gen.yielded) < NumSubtasks - 1
  THEN [yielded |-> Append(gen.yielded, gen.items), items |-> {i}]
  ELSE [gen EXCEPT !.items = @ \cup {i}]

\* What the generator yields of n items, the remainder included.
Chunks(n) ==
  LET gen[i \in 0..n] == IF i = 0 THEN [yielded |-> <<>>, items |-> {}]
                         ELSE Advanced(gen[i - 1], i)
  IN IF gen[n].items = {} THEN gen[n].yielded
     ELSE Append(gen[n].yielded, gen[n].items)
=============================================================================
