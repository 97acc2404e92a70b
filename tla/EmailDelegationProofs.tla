----------------------- MODULE EmailDelegationProofs -----------------------
(***************************************************************************)
(* Proofs about EmailDelegation, in three parts.                           *)
(*                                                                         *)
(* The lists: by induction over the items that the generator has seen, its *)
(* lists fit the ids that were set up and share no recipient (ChunksFit).  *)
(*                                                                         *)
(* The row and the subtasks: DelegationInv, for one delivery of the parent *)
(* (DeliveredOnce; the celery message of the parent is acknowledged when   *)
(* it is received).  It says that a subtask is at work once it is queued   *)
(* and on its own list, and that neither the row nor the copy that the     *)
(* parent is about to save says of a subtask with a token that it is over. *)
(* What the subtasks do is known from SubtasksProofs: StepKeepsTokens.     *)
(*                                                                         *)
(* The lists again, of however many deliveries: ListsFitIds.               *)
(***************************************************************************)
EXTENDS EmailDelegation, SubtasksProofs, FiniteSums

-----------------------------------------------------------------------------
(* The lists of the subtasks, for any number of recipients.                *)

\* Rounding up: there are as many subtasks as it takes.
LEMMA NumSubtasksType == NumSubtasks \in Nat \ {0}
<1>1. Counted \div PerTask \in Nat /\ Counted % PerTask \in Nat
  BY CountedAssumption, PerTaskAssumption
<1>2. NumSubtasks \in Nat
  BY <1>1 DEF NumSubtasks, _get_number_of_subtasks
<1>3. NumSubtasks # 0
  <2>1. NumSubtasks = 0 => 1..NumSubtasks = {}
    BY <1>2
  <2> QED
    BY <2>1, SubtaskAssumption, SubtaskIdAssumption
<1> QED
  BY <1>2, <1>3

\* The generator before its first item, and its states from item to item.
GenStart == [yielded |-> <<>>, items |-> {}]
IsGen(g, n) ==
  g = [i \in 0..n |-> IF i = 0 THEN GenStart ELSE Advanced(g[i - 1], i)]

\* There are such states for every number of items.
LEMMA GenExists == \A n \in Nat : \E g : IsGen(g, n)
<1> DEFINE S == {n \in Nat : \E g : IsGen(g, n)}
<1>1. 0 \in S
  <2> DEFINE g == [i \in 0..0 |-> GenStart]
  <2>1. IsGen(g, 0)
    BY DEF IsGen
  <2> QED
    BY <2>1
<1>2. ASSUME NEW n \in Nat, n \in S
      PROVE  n + 1 \in S
  <2>1. PICK g : IsGen(g, n)
    BY <1>2
  <2> DEFINE h == [i \in 0..(n + 1) |-> IF i = n + 1 THEN Advanced(g[n], n + 1)
                                        ELSE g[i]]
  <2>2. ASSUME NEW i \in 0..(n + 1)
        PROVE  h[i] = IF i = 0 THEN GenStart ELSE Advanced(h[i - 1], i)
    <3>1. CASE i = n + 1
      <4>1. h[n] = g[n] /\ i - 1 = n /\ i # 0
        BY <3>1
      <4>2. h[i] = Advanced(g[n], i)
        BY <3>1
      <4> HIDE DEF h
      <4> QED
        BY <4>1, <4>2
    <3>2. CASE i # n + 1
      <4>1. i \in 0..n /\ h[i] = g[i]
        BY <3>2
      <4>2. i # 0 => i - 1 \in 0..(n + 1) /\ i - 1 # n + 1
        BY <4>1
      <4>3. i # 0 => h[i - 1] = g[i - 1]
        BY <4>2
      <4>4. g[i] = IF i = 0 THEN GenStart ELSE Advanced(g[i - 1], i)
        BY <2>1, <4>1 DEF IsGen
      <4> HIDE DEF h
      <4> QED
        BY <4>1, <4>3, <4>4
    <3> QED
      BY <3>1, <3>2
  <2>3. h = [i \in 0..(n + 1) |-> h[i]]
    OBVIOUS
  <2> HIDE DEF h
  <2>4. IsGen(h, n + 1)
    BY <2>2, <2>3 DEF IsGen
  <2> QED
    BY <2>4
<1> HIDE DEF S
<1>3. Nat \subseteq S
  BY <1>1, <1>2, NatSetInduction
<1> QED
  BY <1>3 DEF S

\* What the generator yields, in terms of its states.
LEMMA ChunksOfGen ==
  ASSUME NEW n \in Nat
  PROVE  \E g : /\ IsGen(g, n)
                /\ Chunks(n) = IF g[n].items = {} THEN g[n].yielded
                               ELSE Append(g[n].yielded, g[n].items)
<1> DEFINE g == CHOOSE f : IsGen(f, n)
<1>1. IsGen(g, n)
  BY GenExists
<1>2. Chunks(n) = IF g[n].items = {} THEN g[n].yielded
                  ELSE Append(g[n].yielded, g[n].items)
  BY DEF Chunks, IsGen, GenStart
<1> QED
  BY <1>1, <1>2

\* The lists yielded so far, and the one that is being filled, when the first
\* i items have been seen.
GenOK(gs, i) ==
  /\ gs.yielded \in Seq(SUBSET (1..i))
  /\ gs.items \in SUBSET (1..i)
  /\ i > 0 => gs.items # {}
  /\ Len(gs.yielded) <= NumSubtasks - 1
  /\ Len(gs.yielded) < NumSubtasks - 1 => Cardinality(gs.items) <= PerTask
  /\ \A j \in 1..Len(gs.yielded) :
       /\ gs.yielded[j] # {}
       /\ Cardinality(gs.yielded[j]) <= PerTask
       /\ gs.yielded[j] \cap gs.items = {}
       /\ \A k \in 1..Len(gs.yielded) :
            j # k => gs.yielded[j] \cap gs.yielded[k] = {}

\* An item that is added to a list that is not full, or to the last one.
LEMMA AdvancedOK ==
  ASSUME NEW i \in Nat, NEW gs \in [yielded : Seq(SUBSET (1..i)), items : SUBSET (1..i)],
         GenOK(gs, i)
  PROVE  /\ Advanced(gs, i + 1) \in [yielded : Seq(SUBSET (1..(i + 1))),
                                     items : SUBSET (1..(i + 1))]
         /\ GenOK(Advanced(gs, i + 1), i + 1)
<1> DEFINE a == Advanced(gs, i + 1)
           Y == gs.yielded
           I == gs.items
<1>1. /\ Y \in Seq(SUBSET (1..(i + 1))) /\ I \in SUBSET (1..i)
      /\ I \in SUBSET (1..(i + 1))
      /\ i + 1 \in 1..(i + 1) /\ i + 1 \notin 1..i
      /\ \A j \in 1..Len(Y) : Y[j] \in SUBSET (1..i)
      /\ Len(Y) \in Nat
  BY DEF GenOK
<1>2. /\ IsFiniteSet(I) /\ Cardinality(I) \in Nat
      /\ NumSubtasks \in Nat \ {0} /\ PerTask \in Nat \ {0}
  <2>1. IsFiniteSet(1..i)
    BY FS_Interval
  <2> QED
    BY <1>1, <2>1, FS_Subset, FS_CardinalityType, NumSubtasksType, PerTaskAssumption
<1> HIDE DEF Y, I
<1>3. CASE Cardinality(I) = PerTask /\ Len(Y) < NumSubtasks - 1
  <2> DEFINE Z == Append(Y, I)
  <2>1. a = [yielded |-> Z, items |-> {i + 1}]
    BY <1>3 DEF Advanced, Y, I
  <2>2. /\ Z \in Seq(SUBSET (1..(i + 1))) /\ Len(Z) = Len(Y) + 1
        /\ \A j \in 1..Len(Y) : Z[j] = Y[j]
        /\ Z[Len(Y) + 1] = I
    BY <1>1
  <2>3. Cardinality({i + 1}) = 1
    BY FS_Singleton
  <2>4. I # {}
    BY <1>2, <1>3, FS_EmptySet
  <2>5. \A j \in 1..Len(Y) : /\ Y[j] # {} /\ Cardinality(Y[j]) <= PerTask
                             /\ Y[j] \cap I = {}
                             /\ \A k \in 1..Len(Y) : j # k => Y[j] \cap Y[k] = {}
    BY DEF GenOK, Y, I
  <2> HIDE DEF Z
  <2>6. \A j \in 1..Len(Z) : j \in 1..Len(Y) \/ j = Len(Y) + 1
    BY <1>1, <2>2
  <2>7. \A j \in 1..Len(Z) :
          /\ Z[j] # {} /\ Cardinality(Z[j]) <= PerTask
          /\ Z[j] \cap {i + 1} = {}
          /\ \A k \in 1..Len(Z) : j # k => Z[j] \cap Z[k] = {}
    <3>1. SUFFICES ASSUME NEW j \in 1..Len(Z)
                   PROVE  /\ Z[j] # {} /\ Cardinality(Z[j]) <= PerTask
                          /\ Z[j] \cap {i + 1} = {}
                          /\ \A k \in 1..Len(Z) : j # k => Z[j] \cap Z[k] = {}
      OBVIOUS
    <3>2. CASE j \in 1..Len(Y)
      <4>1. Z[j] = Y[j] /\ Y[j] \in SUBSET (1..i)
        BY <1>1, <2>2, <3>2
      <4>2. Z[j] # {} /\ Cardinality(Z[j]) <= PerTask /\ Z[j] \cap {i + 1} = {}
        <5>1. Z[j] # {} /\ Cardinality(Z[j]) <= PerTask
          BY <2>5, <3>2, <4>1, Zenon
        <5>2. i + 1 \notin 1..i
          BY <1>1
        <5>3. Z[j] \cap {i + 1} = {}
          BY <4>1, <5>2, Zenon
        <5> QED
          BY <5>1, <5>3
      <4>3. ASSUME NEW k \in 1..Len(Z), j # k
            PROVE  Z[j] \cap Z[k] = {}
        <5>1. CASE k \in 1..Len(Y)
          BY <2>2, <2>5, <3>2, <4>1, <4>3, <5>1
        <5>2. CASE k = Len(Y) + 1
          BY <2>2, <2>5, <3>2, <4>1, <5>2
        <5> QED
          BY <2>6, <5>1, <5>2
      <4> QED
        BY <4>2, <4>3
    <3>3. CASE j = Len(Y) + 1
      <4>1. Z[j] = I /\ Cardinality(I) <= PerTask
        BY <1>2, <1>3, <2>2, <3>3
      <4>2. \A k \in 1..Len(Z) : j # k => Z[k] = Y[k] /\ k \in 1..Len(Y)
        BY <2>2, <2>6, <3>3
      <4>3. Z[j] \cap {i + 1} = {}
        <5>1. I \subseteq 1..i /\ i + 1 \notin 1..i
          BY <1>1
        <5> QED
          BY <4>1, <5>1, Zenon
      <4>4. ASSUME NEW k \in 1..Len(Z), j # k
            PROVE  Z[j] \cap Z[k] = {}
        <5>1. Z[k] = Y[k] /\ k \in 1..Len(Y)
          BY <4>2, <4>4, Zenon
        <5>2. Y[k] \cap I = {}
          BY <2>5, <5>1, Zenon
        <5> QED
          BY <4>1, <5>1, <5>2, Zenon
      <4> QED
        BY <2>4, <4>1, <4>3, <4>4
    <3> QED
      BY <2>6, <3>2, <3>3
  <2>8. /\ a.yielded = Z /\ a.items = {i + 1}
        /\ Len(Z) <= NumSubtasks - 1
    BY <1>1, <1>2, <1>3, <2>1, <2>2
  <2> HIDE DEF a
  <2>9. GenOK(a, i + 1)
    BY <1>1, <1>2, <2>2, <2>3, <2>7, <2>8 DEF GenOK
  <2>10. a \in [yielded : Seq(SUBSET (1..(i + 1))), items : SUBSET (1..(i + 1))]
    BY <1>1, <2>1, <2>2
  <2> QED
    BY <2>9, <2>10 DEF a
<1>4. CASE ~(Cardinality(I) = PerTask /\ Len(Y) < NumSubtasks - 1)
  <2> DEFINE J == I \cup {i + 1}
  <2>1. a = [yielded |-> Y, items |-> J]
    BY <1>4 DEF Advanced, Y, I
  <2>2. Cardinality(J) = Cardinality(I) + 1
    BY <1>1, <1>2, FS_AddElement
  <2>3. /\ Len(Y) <= NumSubtasks - 1
        /\ Len(Y) < NumSubtasks - 1 => Cardinality(I) <= PerTask
    BY DEF GenOK, Y, I
  <2>4. Len(Y) < NumSubtasks - 1 => Cardinality(J) <= PerTask
    BY <1>2, <1>4, <2>2, <2>3
  <2>5. \A j \in 1..Len(Y) : /\ Y[j] # {} /\ Cardinality(Y[j]) <= PerTask
                             /\ Y[j] \cap J = {}
                             /\ \A k \in 1..Len(Y) : j # k => Y[j] \cap Y[k] = {}
    <3>1. \A j \in 1..Len(Y) : /\ Y[j] # {} /\ Cardinality(Y[j]) <= PerTask
                               /\ Y[j] \cap I = {}
                               /\ \A k \in 1..Len(Y) : j # k => Y[j] \cap Y[k] = {}
      BY DEF GenOK, Y, I
    <3> QED
      BY <1>1, <3>1
  <2>6. J \in SUBSET (1..(i + 1)) /\ J # {}
    BY <1>1
  <2> HIDE DEF J
  <2>7. a.yielded = Y /\ a.items = J
    BY <2>1
  <2> HIDE DEF a
  <2>8. GenOK(a, i + 1)
    BY <1>1, <2>3, <2>4, <2>5, <2>6, <2>7 DEF GenOK
  <2>9. a \in [yielded : Seq(SUBSET (1..(i + 1))), items : SUBSET (1..(i + 1))]
    BY <1>1, <2>1, <2>6
  <2> QED
    BY <2>8, <2>9 DEF a
<1> QED
  BY <1>3, <1>4

\* So it is from the first item to the last.
LEMMA GenStaysOK ==
  ASSUME NEW n \in Nat, NEW g, IsGen(g, n)
  PROVE  \A i \in 0..n : GenOK(g[i], i)
<1> DEFINE Typed(i) == g[i] \in [yielded : Seq(SUBSET (1..i)), items : SUBSET (1..i)]
           S == {i \in Nat : i <= n => Typed(i) /\ GenOK(g[i], i)}
<1>1. Typed(0) /\ GenOK(g[0], 0)
  <2>1. g[0] = GenStart
    BY DEF IsGen
  <2>2. Cardinality({}) = 0
    BY FS_EmptySet
  <2>3. NumSubtasks \in Nat \ {0} /\ PerTask \in Nat \ {0}
    BY NumSubtasksType, PerTaskAssumption
  <2>4. GenStart \in [yielded : Seq(SUBSET (1..0)), items : SUBSET (1..0)]
    BY DEF GenStart
  <2>5. GenStart.yielded = <<>> /\ GenStart.items = {} /\ Len(<<>>) = 0
    BY DEF GenStart
  <2>6. GenOK(GenStart, 0)
    BY <2>2, <2>3, <2>5 DEF GenOK
  <2> QED
    BY <2>1, <2>4, <2>6
<1>2. ASSUME NEW i \in Nat, Typed(i) /\ GenOK(g[i], i), i + 1 <= n
      PROVE  Typed(i + 1) /\ GenOK(g[i + 1], i + 1)
  <2>1. i + 1 \in 0..n /\ i + 1 # 0 /\ (i + 1) - 1 = i
    BY <1>2
  <2>2. g[i + 1] = Advanced(g[i], i + 1)
    BY <2>1 DEF IsGen
  <2> QED
    BY <1>2, <2>2, AdvancedOK
<1> HIDE DEF Typed
<1>3. 0 \in S
  BY <1>1
<1>4. \A i \in Nat : i \in S => i + 1 \in S
  <2>1. SUFFICES ASSUME NEW i \in Nat, i \in S, i + 1 <= n
                 PROVE  Typed(i + 1) /\ GenOK(g[i + 1], i + 1)
    OBVIOUS
  <2>2. i <= n
    BY <2>1
  <2> QED
    BY <1>2, <2>1, <2>2
<1> HIDE DEF S
<1>5. Nat \subseteq S
  BY <1>3, <1>4, NatSetInduction
<1>6. ASSUME NEW i \in 0..n
      PROVE  GenOK(g[i], i)
  <2>1. i \in S /\ i <= n
    BY <1>5
  <2> QED
    BY <2>1 DEF S
<1> QED
  BY <1>6

\* The lists fit the ids, share no recipient, and only the last may be long.
LEMMA ChunksFit ==
  ASSUME NEW n \in Nat
  PROVE  LET chunks == Chunks(n) IN
           /\ chunks \in Seq(SUBSET (1..n))
           /\ Len(chunks) <= NumSubtasks
           /\ \A i, j \in DOMAIN chunks : i # j => chunks[i] \cap chunks[j] = {}
           /\ \A i \in DOMAIN chunks : /\ chunks[i] # {}
                                       /\ i < NumSubtasks =>
                                            Cardinality(chunks[i]) <= PerTask
<1>1. PICK g : /\ IsGen(g, n)
               /\ Chunks(n) = IF g[n].items = {} THEN g[n].yielded
                              ELSE Append(g[n].yielded, g[n].items)
  BY ChunksOfGen
<1>2. GenOK(g[n], n)
  BY <1>1, GenStaysOK
<1> DEFINE Y == g[n].yielded
           I == g[n].items
<1>3. /\ Y \in Seq(SUBSET (1..n)) /\ I \in SUBSET (1..n)
      /\ Len(Y) \in Nat /\ NumSubtasks \in Nat
      /\ Len(Y) <= NumSubtasks - 1
      /\ Len(Y) < NumSubtasks - 1 => Cardinality(I) <= PerTask
  BY <1>2, NumSubtasksType DEF GenOK
<1>4. \A j \in 1..Len(Y) : /\ Y[j] # {} /\ Cardinality(Y[j]) <= PerTask
                           /\ Y[j] \cap I = {}
                           /\ \A k \in 1..Len(Y) : j # k => Y[j] \cap Y[k] = {}
  BY <1>2 DEF GenOK
<1>5. Chunks(n) = IF I = {} THEN Y ELSE Append(Y, I)
  BY <1>1
<1> HIDE DEF Y, I
<1>6. CASE I = {}
  BY <1>3, <1>4, <1>5, <1>6
<1>7. CASE I # {}
  <2> DEFINE Z == Append(Y, I)
  <2>1. /\ Z \in Seq(SUBSET (1..n)) /\ Len(Z) = Len(Y) + 1
        /\ DOMAIN Z = 1..(Len(Y) + 1)
        /\ \A j \in 1..Len(Y) : Z[j] = Y[j]
        /\ Z[Len(Y) + 1] = I
    BY <1>3
  <2>2. Chunks(n) = Z
    BY <1>5, <1>7
  <2> HIDE DEF Z
  <2>3. \A j \in DOMAIN Z : j \in 1..Len(Y) \/ j = Len(Y) + 1
    BY <1>3, <2>1
  <2>4. \A i, j \in DOMAIN Z : i # j => Z[i] \cap Z[j] = {}
    BY <1>4, <2>1, <2>3
  <2>5. \A i \in DOMAIN Z : Z[i] # {} /\ (i < NumSubtasks => Cardinality(Z[i]) <= PerTask)
    BY <1>3, <1>4, <1>7, <2>1, <2>3
  <2> QED
    BY <1>3, <2>1, <2>2, <2>4, <2>5
<1> QED
  BY <1>6, <1>7

-----------------------------------------------------------------------------
(* The inductive invariant, when the parent is delivered once.             *)

RowType == [task_state : {"QUEUING", "PROGRESS", "SUCCESS", "FAILURE"},
            total : Nat, succeeded : Nat, failed : Nat,
            status : {NoSubtasks} \cup [Subtask -> Status], output : Output]

\* A row whose subtasks are not defined yet.
NewRow(e) ==
  /\ e \in RowType
  /\ e.status = NoSubtasks
  /\ e.total = 0 /\ e.succeeded = 0 /\ e.failed = 0
  /\ e.task_state # "SUCCESS"

\* A row with its subtasks, none of which is over and has a token.  The copy
\* that the parent saves after a failure may be behind the row: a subtask
\* that is over in the row may not be over in the copy, but whatever is over
\* in the copy stays without a token.
SetUpRow(e) ==
  /\ e \in RowType
  /\ CountedRow(e)
  /\ e.task_state = "SUCCESS" => \A s \in Subtask : Done(e.status[s])
  /\ \A s \in Subtask : Done(e.status[s]) => ~HasToken(s)

\* A row of which every copy is one.
KnownRow(e) == NewRow(e) \/ CountedRow(e)

\* No subtask has been queued.
NothingYet ==
  /\ queue = {}
  /\ \A w \in Worker : At(w, "idle")
  /\ \A s \in Subtask, r \in Recipient : sent[s][r] = 0

ListsFit(chunks) ==
  /\ chunks \in Seq(SUBSET Recipient)
  /\ Len(chunks) <= NumSubtasks
  /\ \A i, j \in DOMAIN chunks : i # j => chunks[i] \cap chunks[j] = {}

\* A subtask is at work once it is queued, and on the recipients of the list
\* of its number.
Shares(pp) ==
  /\ ListsFit(pp.chunks)
  /\ pp.queued <= Len(pp.chunks)
  /\ \A s \in Subtask : HasToken(s) \/ Touched(s) # {} =>
       /\ s[2] \in 1..pp.queued
       /\ Touched(s) \subseteq pp.chunks[s[2]]

\* What the row and the parent's copy of it are at each step of the parent.
Rows(pp) ==
  /\ (NewRow(entry) /\ NothingYet) \/ SetUpRow(entry)
  /\ pp.pc \in {"waiting", "mark", "check", "define"} => NewRow(entry)
  /\ NewRow(entry) => pp.queued = 0
  /\ pp.pc \in {"queue", "succeed"} => SetUpRow(entry)
  /\ pp.pc = "queue" => \A s \in Subtask : Done(entry.status[s]) => s[2] <= pp.queued
  /\ pp.pc \in {"mark", "define", "save"} /\ NewRow(entry) => NewRow(pp.row)
  /\ pp.pc = "save" /\ SetUpRow(entry) => SetUpRow(pp.row)
  /\ KnownRow(pp.row)

ParentType == [pc : ParentPC, row : RowType,
               found : {"QUEUING", "PROGRESS", "SUCCESS", "FAILURE"},
               chunks : Seq(SUBSET Recipient), queued : Nat]

DelegationInv ==
  /\ TokensKept
  /\ redelivered \in Nat
  /\ parent \in [Parent -> ParentType]
  /\ \A p \in Parent : Shares(parent[p]) /\ Rows(parent[p])

\* There is one delivery of the parent.
DeliveredOnce == \A p, q \in Parent : p = q

-----------------------------------------------------------------------------
(* Lemmas about the rows.                                                  *)

\* The ids, when the parent is delivered once: as many as there are subtasks.
LEMMA OneParent ==
  ASSUME DeliveredOnce
  PROVE  \E p \in Parent :
           /\ Parent = {p}
           /\ Subtask = {p} \X (1..NumSubtasks)
           /\ Cardinality(Subtask) = NumSubtasks
<1>1. Parent # {}
  BY SubtaskAssumption, SubtaskIdAssumption
<1>2. PICK p \in Parent : Parent = {p}
  BY <1>1 DEF DeliveredOnce
<1>3. Subtask = {p} \X (1..NumSubtasks)
  BY <1>2, SubtaskIdAssumption
<1>4. /\ IsFiniteSet({p}) /\ Cardinality({p}) = 1
      /\ IsFiniteSet(1..NumSubtasks) /\ Cardinality(1..NumSubtasks) = NumSubtasks
  <2>1. NumSubtasks \in Nat \ {0} /\ 1 \in Int /\ NumSubtasks \in Int
    BY NumSubtasksType
  <2>2. /\ IsFiniteSet(1..NumSubtasks)
        /\ Cardinality(1..NumSubtasks) =
             IF 1 > NumSubtasks THEN 0 ELSE NumSubtasks - 1 + 1
    BY <2>1, FS_Interval, Zenon
  <2> QED
    BY <2>1, <2>2, FS_Singleton
<1>5. Cardinality({p} \X (1..NumSubtasks)) =
         Cardinality({p}) * Cardinality(1..NumSubtasks)
  BY <1>4, FS_Product, Zenon
<1>6. Cardinality(Subtask) = 1 * NumSubtasks
  BY <1>3, <1>4, <1>5, Zenon
<1>7. 1 * NumSubtasks = NumSubtasks
  BY NumSubtasksType
<1> QED
  BY <1>2, <1>3, <1>6, <1>7, Zenon

\* Every subtask has the parent's id and a number of its own.
LEMMA SubtaskIds ==
  ASSUME DeliveredOnce, NEW s \in Subtask, NEW t \in Subtask
  PROVE  /\ s[2] \in 1..NumSubtasks
         /\ s[2] = t[2] => s = t
BY OneParent

\* A new status is in order, and of a subtask that is not over.
LEMMA NewStatusOK ==
  /\ NewStatus \in Status
  /\ NewStatus.state = "QUEUING"
  /\ ~Done(NewStatus)
BY DEF NewStatus, Status, SubtaskState, Done, READY_STATES

\* A row whose subtasks are not defined does not count as one with subtasks.
LEMMA RowsDiffer ==
  ASSUME NEW e, CountedRow(e)
  PROVE  e.status # NoSubtasks /\ ~NewRow(e) /\ DOMAIN e.status = Subtask
<1>1. DOMAIN e.status = Subtask /\ DOMAIN NoSubtasks = {}
  BY DEF CountedRow, NoSubtasks
<1> QED
  BY <1>1, SubtaskAssumption DEF NewRow

\* The row that _reserve_task creates.
LEMMA NewEntryOK == NewRow(NewEntry)
BY DEF NewRow, NewEntry, RowType, Output, NoOutput

\* A new row stays one when its state or its output is set.
LEMMA NewRowSet ==
  ASSUME NEW e, NewRow(e),
         NEW state \in {"PROGRESS", "FAILURE"}, NEW output \in Output
  PROVE  /\ NewRow([e EXCEPT !.task_state = state])
         /\ NewRow([e EXCEPT !.task_state = state, !.output = output])
BY DEF NewRow, RowType

\* A row with subtasks stays one when it is marked as a failure.
LEMMA SetUpRowFails ==
  ASSUME NEW e, SetUpRow(e), NEW output \in Output
  PROVE  SetUpRow([e EXCEPT !.task_state = "FAILURE", !.output = output])
<1> PICK f : f = [e EXCEPT !.task_state = "FAILURE", !.output = output]
  OBVIOUS
<1>1. /\ f \in RowType
      /\ f.task_state = "FAILURE"
      /\ f.status = e.status
      /\ f.total = e.total
      /\ f.succeeded = e.succeeded
      /\ f.failed = e.failed
  BY DEF SetUpRow, RowType
<1> QED
  BY <1>1 DEF SetUpRow, CountedRow, StateIn

\* A step that invents no token keeps a row that knows of none.
LEMMA RowKept ==
  ASSUME WorkKept, NEW e, SetUpRow(e)
  PROVE  SetUpRow(e)'
BY DEF WorkKept, SetUpRow, CountedRow, StateIn

-----------------------------------------------------------------------------
(* Preservation of DelegationInv.                                          *)

\* What DelegationInv says of a delivery.
LEMMA ParentFacts ==
  ASSUME DelegationInv, NEW p \in Parent
  PROVE  /\ parent[p] \in ParentType
         /\ Shares(parent[p])
         /\ Rows(parent[p])
         /\ TokensKept
         /\ redelivered \in Nat
         /\ entry \in RowType
BY DEF DelegationInv, Rows, NewRow, SetUpRow

\* A step of the parent, by what it becomes.
LEMMA ParentMoves ==
  ASSUME DelegationInv, DeliveredOnce, NEW p \in Parent, NEW pp \in ParentType,
         ParentBecomes(p, pp), TokensKept', redelivered' \in Nat,
         Shares(pp)', Rows(pp)'
  PROVE  DelegationInv'
<1>1. parent' \in [Parent -> ParentType] /\ parent'[p] = pp
  BY DEF DelegationInv, ParentBecomes
<1>2. \A q \in Parent : q = p
  BY DEF DeliveredOnce
<1>3. \A q \in Parent : Shares(parent[q])' /\ Rows(parent[q])'
  BY <1>1, <1>2
<1> QED
  BY <1>1, <1>3 DEF DelegationInv

\* A step that leaves the subtasks alone leaves their tokens alone.
LEMMA TokensSame ==
  ASSUME TokensKept, UNCHANGED <<queue, locked, worker, sent>>
  PROVE  /\ TokensKept'
         /\ \A s \in Subtask : /\ HasToken(s)' <=> HasToken(s)
                               /\ Touched(s)' = Touched(s)
         /\ NothingYet' <=> NothingYet
BY DEF TokensKept, WorkersTyped, OneToken, ListedAreUnmailed, WorkerConsistent,
       NoDuplicateMail, HasToken, Touched, NothingYet, At

\* ... and so does what the rows and the parent know of them.
LEMMA RowsSame ==
  ASSUME TokensKept, UNCHANGED <<queue, locked, worker, sent>>
  PROVE  /\ \A e : SetUpRow(e)' <=> SetUpRow(e)
         /\ \A pp : Shares(pp)' <=> Shares(pp)
<1>1. \A e : SetUpRow(e)' <=> SetUpRow(e)
  BY TokensSame DEF SetUpRow, CountedRow, StateIn
<1>2. \A pp : Shares(pp)' <=> Shares(pp)
  BY TokensSame DEF Shares
<1> QED
  BY <1>1, <1>2

\* A step of the parent that only changes what it has in mind.
LEMMA ThinkingPreserves ==
  ASSUME DelegationInv, DeliveredOnce, NEW p \in Parent, NEW pp \in ParentType,
         ParentBecomes(p, pp), UNCHANGED vars, Shares(pp), Rows(pp)
  PROVE  DelegationInv'
<1>1. TokensKept /\ redelivered \in Nat
  BY DEF DelegationInv
<1>2. UNCHANGED <<entry, queue, locked, worker, sent, redelivered>>
  BY DEF vars
<1>3. TokensKept' /\ Shares(pp)'
  BY <1>1, <1>2, TokensSame, RowsSame
<1>4. Rows(pp)'
  BY <1>1, <1>2, TokensSame, RowsSame DEF Rows
<1> QED
  BY <1>1, <1>2, <1>3, <1>4, ParentMoves
\* run_main_task: the delivery reads the row, which is new.
LEMMA ReadEntryPreserves ==
  ASSUME DelegationInv, DeliveredOnce, NEW p \in Parent, ReadEntry(p)
  PROVE  DelegationInv'
<1> PICK old \in ParentType, e \in RowType : old = parent[p] /\ e = entry
  BY ParentFacts
<1>1. PICK pp : pp = [old EXCEPT !.pc = "mark",
                        !.row = [e EXCEPT !.task_state = "PROGRESS"],
                        !.found = e.task_state]
  OBVIOUS
<1>2. /\ old.pc = "waiting" /\ ParentBecomes(p, pp) /\ UNCHANGED vars
  BY <1>1 DEF ReadEntry, ParentAt
<1>3. NewRow(e) /\ NewRow([e EXCEPT !.task_state = "PROGRESS"])
  BY <1>2, ParentFacts, NewRowSet, NewEntryOK DEF Rows, NewRow, RowType
<1>4. /\ pp \in ParentType
      /\ pp.pc = "mark" /\ NewRow(pp.row)
      /\ pp.chunks = old.chunks /\ pp.queued = old.queued
  BY <1>1, <1>3 DEF ParentType, ParentPC, NewRow, RowType
<1>5. Shares(pp) /\ Rows(pp)
  BY <1>3, <1>4, ParentFacts, RowsDiffer DEF Shares, Rows, SetUpRow, KnownRow
<1> QED
  BY <1>2, <1>4, <1>5, ThinkingPreserves

\* perform_delegate_email_batches: the row is read again, and still new.
LEMMA CheckEntryPreserves ==
  ASSUME DelegationInv, DeliveredOnce, NEW p \in Parent, CheckEntry(p)
  PROVE  DelegationInv'
<1> PICK old \in ParentType, e \in RowType : old = parent[p] /\ e = entry
  BY ParentFacts
<1>1. PICK pp : pp = [old EXCEPT !.row = e,
                        !.pc = IF AlreadyDefined(e) THEN "succeed" ELSE "define"]
  OBVIOUS
<1>2. /\ old.pc = "check" /\ ParentBecomes(p, pp) /\ UNCHANGED vars
  BY <1>1 DEF CheckEntry, ParentAt
<1>3. NewRow(e) /\ ~AlreadyDefined(e)
  BY <1>2, ParentFacts DEF Rows, NewRow, AlreadyDefined
<1>4. /\ pp \in ParentType
      /\ pp.pc = "define" /\ pp.row = e
      /\ pp.chunks = old.chunks /\ pp.queued = old.queued
  BY <1>1, <1>3 DEF ParentType, ParentPC
<1>5. Shares(pp) /\ Rows(pp)
  BY <1>3, <1>4, ParentFacts, RowsDiffer DEF Shares, Rows, SetUpRow, KnownRow
<1> QED
  BY <1>2, <1>4, <1>5, ThinkingPreserves

\* Moving on, or giving up, without a look at the row.
LEMMA MovingOnPreserves ==
  ASSUME DelegationInv, DeliveredOnce, NEW p \in Parent,
         DelegationRaises(p) \/ AllQueued(p) \/ QueueRaises(p)
  PROVE  DelegationInv'
<1> PICK old \in ParentType : old = parent[p]
  BY ParentFacts
<1>1. PICK pc \in {"fail", "succeed"} :
        /\ ParentBecomes(p, [old EXCEPT !.pc = pc])
        /\ UNCHANGED vars
        /\ pc = "succeed" => old.pc = "queue"
  BY DEF DelegationRaises, AllQueued, QueueRaises, ParentAt
<1>2. PICK pp : pp = [old EXCEPT !.pc = pc]
  OBVIOUS
<1>3. /\ pp \in ParentType
      /\ pp.pc = pc /\ pp.row = old.row
      /\ pp.chunks = old.chunks /\ pp.queued = old.queued
  BY <1>2 DEF ParentType, ParentPC
<1>4. Shares(pp) /\ Rows(pp)
  BY <1>1, <1>3, ParentFacts DEF Shares, Rows
<1> QED
  BY <1>1, <1>2, <1>3, <1>4, ThinkingPreserves

\* on_success: a task with subtasks is left to them.
LEMMA OnSuccessPreserves ==
  ASSUME DelegationInv, DeliveredOnce, NEW p \in Parent, OnSuccess(p)
  PROVE  DelegationInv'
<1> PICK old \in ParentType : old = parent[p]
  BY ParentFacts
<1>1. PICK pp : pp = [old EXCEPT !.pc = "over"]
  OBVIOUS
<1>2. old.pc = "succeed" /\ UNCHANGED vars
  BY DEF OnSuccess, ParentAt
<1>3. SetUpRow(entry) /\ entry.status # NoSubtasks
  BY <1>2, ParentFacts, RowsDiffer DEF Rows, SetUpRow
<1>4. ParentBecomes(p, pp)
  BY <1>1, <1>3 DEF OnSuccess
<1>5. /\ pp \in ParentType
      /\ pp.pc = "over" /\ pp.row = old.row
      /\ pp.chunks = old.chunks /\ pp.queued = old.queued
  BY <1>1 DEF ParentType, ParentPC
<1>6. Shares(pp) /\ Rows(pp)
  BY <1>5, ParentFacts DEF Shares, Rows
<1> QED
  BY <1>2, <1>4, <1>5, <1>6, ThinkingPreserves

\* on_failure: a copy of the row is marked as a failure.
LEMMA OnFailurePreserves ==
  ASSUME DelegationInv, DeliveredOnce, NEW p \in Parent, OnFailure(p)
  PROVE  DelegationInv'
<1> PICK old \in ParentType, e \in RowType : old = parent[p] /\ e = entry
  BY ParentFacts
<1> DEFINE output == [NoOutput EXCEPT !.kind = "exception"]
<1>1. PICK row : row = [e EXCEPT !.task_state = "FAILURE", !.output = output]
  OBVIOUS
<1>2. PICK pp : pp = [old EXCEPT !.pc = "save", !.row = row]
  OBVIOUS
<1>3. UNCHANGED vars /\ ParentBecomes(p, pp)
  BY <1>1, <1>2 DEF OnFailure
<1>4. output \in Output
  BY DEF NoOutput, Output
<1> HIDE DEF output
<1>5. /\ NewRow(e) => NewRow(row)
      /\ SetUpRow(e) => SetUpRow(row)
  BY <1>1, <1>4, NewRowSet, SetUpRowFails
<1>6. row \in RowType
  BY <1>5, ParentFacts DEF Rows, NewRow, SetUpRow
<1>7. /\ pp \in ParentType
      /\ pp.pc = "save" /\ pp.row = row
      /\ pp.chunks = old.chunks /\ pp.queued = old.queued
  BY <1>2, <1>6 DEF ParentType, ParentPC
<1>8. Shares(pp) /\ Rows(pp)
  BY <1>5, <1>7, ParentFacts DEF Shares, Rows, KnownRow, SetUpRow
<1> QED
  BY <1>3, <1>7, <1>8, ThinkingPreserves

\* A row that the parent saves is of the kind that it replaces.
LEMMA SavingPreserves ==
  ASSUME DelegationInv, DeliveredOnce, NEW p \in Parent,
         MarkProgress(p) \/ SaveResult(p)
  PROVE  DelegationInv'
<1> PICK old \in ParentType, e \in RowType : old = parent[p] /\ e = old.row
  BY DEF DelegationInv, ParentType
<1>1. PICK pc \in {"check", "over"} :
        /\ entry' = e
        /\ ParentBecomes(p, [old EXCEPT !.pc = pc])
        /\ UNCHANGED <<queue, locked, worker, sent, redelivered>>
        /\ pc = "check" => old.pc = "mark"
        /\ old.pc \in {"mark", "save"}
        /\ pc = "over" => old.pc = "save"
  BY DEF MarkProgress, SaveResult, ParentAt, workerVars
<1>2. PICK pp : pp = [old EXCEPT !.pc = pc]
  OBVIOUS
<1>3. /\ pp \in ParentType
      /\ pp.pc = pc /\ pp.row = old.row
      /\ pp.chunks = old.chunks /\ pp.queued = old.queued
  BY <1>2 DEF ParentType, ParentPC
<1>4. /\ NewRow(entry) /\ NothingYet => NewRow(e)
      /\ NewRow(entry) => old.queued = 0
      /\ old.pc = "mark" => NewRow(entry)
      /\ SetUpRow(entry) => SetUpRow(e) \/ old.pc = "mark"
      /\ (NewRow(entry) /\ NothingYet) \/ SetUpRow(entry)
      /\ KnownRow(old.row)
  BY <1>1, ParentFacts DEF Rows
<1>5. TokensKept /\ TokensKept' /\ redelivered' \in Nat
  BY <1>1, ParentFacts, TokensSame
<1>6. Shares(pp)'
  <2>1. Shares(pp)
    BY <1>3, ParentFacts DEF Shares
  <2> QED
    BY <1>1, <1>5, <2>1, RowsSame
<1>7. /\ SetUpRow(e)' <=> SetUpRow(e)
      /\ NothingYet' <=> NothingYet
      /\ NewRow(entry)' <=> NewRow(e)
  BY <1>1, <1>5, TokensSame, RowsSame
<1>8. \A f : ~(NewRow(f) /\ SetUpRow(f))
  BY RowsDiffer DEF SetUpRow
<1>9. Rows(pp)'
  BY <1>1, <1>3, <1>4, <1>7, <1>8 DEF Rows
<1> QED
  BY <1>1, <1>2, <1>3, <1>5, <1>6, <1>9, ParentMoves
\* Before anything is queued, nobody has a token and nobody is mailed.
LEMMA NothingTouched ==
  ASSUME NothingYet, TokensKept, NEW s \in Subtask
  PROVE  ~HasToken(s) /\ Touched(s) = {}
BY DEF NothingYet, HasToken, Touched, HoldsToken, At

\* initialize_subtask_info: the row is set up before the first is queued.
LEMMA DefineSubtasksPreserves ==
  ASSUME DelegationInv, DeliveredOnce, NEW p \in Parent, DefineSubtasks(p)
  PROVE  DelegationInv'
<1> PICK old \in ParentType, row \in RowType : old = parent[p] /\ row = old.row
  BY DEF DelegationInv, ParentType
<1> DEFINE status == [s \in {Id(p, c) : c \in 1..NumSubtasks} |-> NewStatus]
           output == [NoOutput EXCEPT !.kind = "progress"]
<1>1. PICK e : e = [row EXCEPT !.task_state = "PROGRESS", !.total = NumSubtasks,
                      !.succeeded = 0, !.failed = 0,
                      !.status = status, !.output = output]
  OBVIOUS
<1>2. PICK n \in Yielded :
        ParentBecomes(p, [old EXCEPT !.pc = "queue", !.chunks = Chunks(n)])
  BY DEF DefineSubtasks
<1>3. PICK pp : pp = [old EXCEPT !.pc = "queue", !.chunks = Chunks(n)]
  OBVIOUS
<1>4. /\ entry' = e
      /\ old.pc = "define"
      /\ UNCHANGED <<queue, locked, worker, sent, redelivered>>
  BY <1>1 DEF DefineSubtasks, ParentAt, workerVars
<1>5. status = [s \in Subtask |-> NewStatus]
  <2>1. Parent = {p}
    BY DEF DeliveredOnce
  <2>2. {Id(p, c) : c \in 1..NumSubtasks} = Subtask
    BY <2>1, SubtaskIdAssumption DEF Id
  <2> QED
    BY <2>2
<1>6. status \in [Subtask -> Status] /\ \A s \in Subtask : status[s] = NewStatus
  BY <1>5, NewStatusOK
<1>7. output \in Output
  BY DEF NoOutput, Output
<1>8. NumSubtasks \in Nat /\ NumSubtasks = Cardinality(Subtask)
  BY NumSubtasksType, OneParent
<1> HIDE DEF status, output
<1>9. /\ e \in RowType
      /\ e.task_state = "PROGRESS"
      /\ e.total = NumSubtasks
      /\ e.succeeded = 0 /\ e.failed = 0
      /\ e.status = status
  BY <1>1, <1>6, <1>7, <1>8 DEF RowType
<1>10. CountedRow(e)
  <2>1. StateIn(e, "SUCCESS") = {} /\ StateIn(e, "FAILURE") = {}
    BY <1>6, <1>9, NewStatusOK DEF StateIn
  <2> QED
    BY <1>6, <1>8, <1>9, <2>1, FS_EmptySet DEF CountedRow
<1>11. \A s \in Subtask : ~Done(e.status[s])
  BY <1>6, <1>9, NewStatusOK
<1>12. SetUpRow(e)
  BY <1>9, <1>10, <1>11 DEF SetUpRow
<1>13. /\ NewRow(entry) /\ NothingYet
       /\ old.queued = 0
       /\ TokensKept
  <2>1. NewRow(entry) /\ old.queued = 0 /\ TokensKept
    BY <1>4, ParentFacts DEF Rows
  <2> QED
    BY <2>1, ParentFacts, RowsDiffer DEF Rows, SetUpRow
<1>14. ListsFit(Chunks(n))
  <2>1. n \in Nat /\ 1..n \subseteq Recipient
    BY YieldedAssumption
  <2>2. Chunks(n) \in Seq(SUBSET Recipient)
    <3>1. Chunks(n) \in Seq(SUBSET (1..n))
      BY <2>1, ChunksFit
    <3> QED
      BY <2>1, <3>1
  <2> QED
    BY <2>1, <2>2, ChunksFit DEF ListsFit
<1>15. /\ pp \in ParentType
       /\ pp.pc = "queue" /\ pp.chunks = Chunks(n) /\ pp.queued = 0
       /\ KnownRow(pp.row)
  BY <1>3, <1>13, <1>14, ParentFacts DEF ParentType, ParentPC, ListsFit, Rows
<1>16. Shares(pp)
  <2>1. 0 <= Len(pp.chunks)
    BY <1>15 DEF ParentType
  <2> QED
    BY <1>13, <1>14, <1>15, <2>1, NothingTouched DEF Shares
<1>17. TokensKept' /\ Shares(pp)' /\ SetUpRow(e)'
  BY <1>4, <1>12, <1>13, <1>16, TokensSame, RowsSame
<1>18. Rows(pp)'
  BY <1>4, <1>10, <1>11, <1>15, <1>17, RowsDiffer DEF Rows
<1>19. redelivered' \in Nat
  BY <1>4, ParentFacts
<1> QED
  BY <1>2, <1>3, <1>15, <1>17, <1>18, <1>19, ParentMoves

\* queue_subtasks_for_query: the next list gets a token of its own, which
\* nobody on the list has been mailed for.
LEMMA QueueSubtaskPreserves ==
  ASSUME DelegationInv, DeliveredOnce, NEW p \in Parent, QueueSubtask(p)
  PROVE  DelegationInv'
<1> PICK old \in ParentType : old = parent[p]
  BY ParentFacts
<1>1. PICK c : c = old.queued + 1
  OBVIOUS
<1>2. PICK s, list : s = Id(p, c) /\ list = old.chunks[c]
  OBVIOUS
<1>3. PICK m : m = [sub |-> s, to_list |-> list, status |-> NewStatus, retries |-> 0]
  OBVIOUS
<1>4. PICK pp : pp = [old EXCEPT !.queued = c]
  OBVIOUS
<1>5. /\ old.pc = "queue" /\ old.queued < Len(old.chunks)
      /\ queue' = queue \cup {m}
      /\ ParentBecomes(p, pp)
      /\ UNCHANGED <<entry, locked, worker, sent, redelivered>>
  BY <1>1, <1>2, <1>3, <1>4 DEF QueueSubtask, ParentAt, workerVars
<1>6. /\ Shares(old) /\ Rows(old) /\ TokensKept
      /\ SetUpRow(entry)
      /\ old.queued \in Nat /\ Len(old.chunks) \in Nat /\ NumSubtasks \in Nat
      /\ ListsFit(old.chunks)
  BY <1>5, ParentFacts, NumSubtasksType DEF Rows, Shares, ParentType
<1>7. /\ c \in 1..Len(old.chunks)
      /\ c \in 1..NumSubtasks
      /\ list \in SUBSET Recipient
  BY <1>1, <1>2, <1>5, <1>6 DEF ListsFit
<1>8. s \in Subtask /\ s[2] = c
  BY <1>2, <1>7, SubtaskIdAssumption DEF Id
<1>9. /\ m \in Message /\ m.sub = s /\ m.to_list = list /\ m.status = NewStatus
      /\ ~Done(m.status)
  BY <1>3, <1>7, <1>8, NewStatusOK DEF Message
<1>10. ~HasToken(s) /\ Touched(s) = {}
  BY <1>1, <1>6, <1>8 DEF Shares
<1>11. \A r \in Recipient : sent[s][r] = 0
  <2>1. \A r \in Recipient : ~(sent[s][r] > 0) /\ sent[s][r] \in Nat
    BY <1>6, <1>8, <1>10 DEF Touched, TokensKept
  <2> QED
    BY <2>1
<1>12. OneToken'
  BY <1>5, <1>6, <1>9, <1>10 DEF TokensKept, OneToken, HasToken
<1>13. ListedAreUnmailed'
  BY <1>5, <1>6, <1>7, <1>9, <1>11 DEF TokensKept, ListedAreUnmailed
<1>14. TokensKept'
  BY <1>5, <1>6, <1>9, <1>12, <1>13
     DEF TokensKept, WorkersTyped, WorkerConsistent, NoDuplicateMail
<1>15. \A t \in Subtask : /\ HasToken(t)' <=> HasToken(t) \/ t = s
                          /\ Touched(t)' = IF t = s THEN list ELSE Touched(t)
  <2>1. \A t \in Subtask : HasToken(t)' <=> HasToken(t) \/ t = s
    BY <1>5, <1>9 DEF HasToken
  <2>2. Touched(s)' = list
    BY <1>5, <1>7, <1>9, <1>10 DEF Touched
  <2>3. \A t \in Subtask : t # s => Touched(t)' = Touched(t)
    BY <1>5, <1>9 DEF Touched
  <2> QED
    BY <2>1, <2>2, <2>3
<1>16. /\ pp \in ParentType
       /\ pp.pc = "queue" /\ pp.chunks = old.chunks /\ pp.queued = c
       /\ KnownRow(pp.row)
  BY <1>1, <1>4, <1>5, <1>6, <1>7 DEF ParentType, Rows
<1>17. Shares(pp)'
  <2>1. ASSUME NEW t \in Subtask, HasToken(t)' \/ Touched(t)' # {}
        PROVE  t[2] \in 1..c /\ Touched(t)' \subseteq old.chunks[t[2]]
    <3>1. CASE t = s
      BY <1>2, <1>7, <1>8, <1>15, <3>1
    <3>2. CASE t # s
      <4>1. HasToken(t) \/ Touched(t) # {}
        BY <1>15, <2>1, <3>2
      <4>2. t[2] \in 1..old.queued /\ Touched(t) \subseteq old.chunks[t[2]]
        BY <1>6, <4>1 DEF Shares
      <4> QED
        BY <1>1, <1>6, <1>15, <3>2, <4>2
    <3> QED
      BY <3>1, <3>2
  <2> QED
    BY <1>6, <1>7, <1>16, <2>1 DEF Shares
<1>18. SetUpRow(entry)'
  <2>1. ~Done(entry.status[s])
    BY <1>1, <1>5, <1>6, <1>8 DEF Rows
  <2> QED
    BY <1>5, <1>6, <1>15, <2>1 DEF SetUpRow, CountedRow, StateIn
<1>19. Rows(pp)'
  <2>1. \A t \in Subtask : Done(entry'.status[t]) => t[2] <= pp.queued
    <3>1. \A t \in Subtask : Done(entry.status[t]) => t[2] <= old.queued /\ t[2] \in Int
      BY <1>5, <1>6, DeliveredOnce, SubtaskIds DEF Rows
    <3> QED
      BY <1>1, <1>5, <1>6, <1>16, <3>1
  <2>2. ~NewRow(entry)'
    BY <1>5, <1>6, RowsDiffer DEF SetUpRow
  <2> QED
    BY <1>16, <1>18, <2>1, <2>2 DEF Rows
<1>20. redelivered' \in Nat
  BY <1>5, ParentFacts
<1> QED
  BY <1>5, <1>14, <1>16, <1>17, <1>19, <1>20, ParentMoves

\* Every step of the parent preserves the invariant.
LEMMA ParentStepPreserves ==
  ASSUME DelegationInv, DeliveredOnce, NEW p \in Parent, ParentStep(p)
  PROVE  DelegationInv'
BY ReadEntryPreserves, CheckEntryPreserves, MovingOnPreserves, OnSuccessPreserves,
   OnFailurePreserves, SavingPreserves, DefineSubtasksPreserves,
   QueueSubtaskPreserves DEF ParentStep

\* A step of the subtasks that leaves the row alone.
LEMMA WorkPreserves ==
  ASSUME DelegationInv, DeliveredOnce, WorkKept,
         NothingYet => NothingYet',
         UNCHANGED <<entry, parent>>, redelivered' \in Nat
  PROVE  DelegationInv'
<1> SUFFICES ASSUME NEW p \in Parent
             PROVE  Shares(parent[p])' /\ Rows(parent[p])'
  BY DEF DelegationInv, WorkKept
<1> PICK pp \in ParentType : pp = parent[p]
  BY ParentFacts
<1>1. Shares(pp) /\ Rows(pp)
  BY ParentFacts
<1>2. Shares(pp)'
  BY <1>1 DEF Shares, WorkKept
<1>3. Rows(pp)'
  <2>1. SetUpRow(entry) => SetUpRow(entry)'
    <3>1. PICK e : e = entry
      OBVIOUS
    <3> QED
      BY <3>1, RowKept
  <2>2. SetUpRow(pp.row) => SetUpRow(pp.row)'
    BY RowKept
  <2>3. SetUpRow(entry)' => ~NewRow(entry)
    BY RowsDiffer DEF SetUpRow
  <2> QED
    BY <1>1, <2>1, <2>2, <2>3, RowsDiffer DEF Rows, SetUpRow
<1> QED
  BY <1>2, <1>3

\* A worker can only be at work on a row that is set up.
LEMMA WorkNeedsRow ==
  ASSUME DelegationInv, NEW p \in Parent, NEW w \in Worker,
         Step(w) \/ UpdateFails(w) \/ UpdateRaises(w) \/ WorkerDies(w)
  PROVE  SetUpRow(entry) /\ ~NothingYet
<1>1. ~NothingYet
  BY DEF NothingYet, At, Step, Deliver, CheckRow, AcquireLock, FilterOptouts,
     PrepareRaises, OpenConnection, EmailSent, EmailFails, RateLimited,
     TransientError, BulkFailure, AllProcessed, UpdateCommits, ReleaseLock,
     RetryPublished, RetryFails, CloseConnection, UpdateFails, UpdateRaises,
     WorkerDies
<1> QED
  BY <1>1, ParentFacts DEF Rows

\* Recording the status of a subtask that has the token.
LEMMA CommitPreservesDelegation ==
  ASSUME DelegationInv, DeliveredOnce, NEW w \in Worker, UpdateCommits(w),
         UNCHANGED parent
  PROVE  DelegationInv'
<1> PICK p \in Parent : Parent = {p}
  BY OneParent
<1> PICK pp \in ParentType : pp = parent[p]
  BY ParentFacts
<1>0. TokensKept /\ Shares(pp) /\ Rows(pp) /\ redelivered \in Nat
  BY ParentFacts
<1> PICK s \in Subtask, st \in Status :
      s = worker[w].sub /\ st = worker[w].status /\ st.state \in SubtaskState
  BY <1>0, KeptWorker
<1> PICK e \in RowType : e = entry
  BY ParentFacts
<1> PICK f : f = entry'
  OBVIOUS
<1>1. SetUpRow(e)
  BY WorkNeedsRow DEF Step
<1>2. /\ f = Recorded(s, st)
      /\ redelivered' = redelivered
      /\ e.output.kind = "progress"
  BY DEF UpdateCommits, Updatable
<1>3. /\ WorkKept
      /\ HasToken(s)
      /\ Done(st) => ~HasToken(s)'
  BY <1>0, CommitKeepsTokens
<1>4. ~Done(e.status[s]) /\ CountedRow(e)
  BY <1>1, <1>3 DEF SetUpRow
<1>5. /\ CountedRow(f)
      /\ f.status = [e.status EXCEPT ![s] = st]
      /\ f.task_state = IF \A t \in Subtask : Done(f.status[t])
                        THEN "SUCCESS" ELSE e.task_state
      /\ f.output = IF Done(st) THEN Added(e.output, st) ELSE e.output
      /\ f.succeeded \in Nat /\ f.failed \in Nat /\ f.total \in Nat
  BY <1>2, <1>4, RecordedCounts
<1>6. /\ f.status \in [Subtask -> Status]
      /\ f.status[s] = st
      /\ \A t \in Subtask : t # s => f.status[t] = e.status[t]
  BY <1>4, <1>5 DEF CountedRow
<1>7. f.output \in Output
  BY <1>2, <1>5 DEF Added, Output, RowType, Status
<1>8. f.task_state \in {"QUEUING", "PROGRESS", "SUCCESS", "FAILURE"}
  BY <1>5 DEF RowType
<1>9. f \in RowType
  <2>1. f = [task_state |-> f.task_state, total |-> f.total,
             succeeded |-> f.succeeded, failed |-> f.failed,
             status |-> f.status, output |-> f.output]
    BY <1>2 DEF Recorded
  <2> QED
    BY <1>5, <1>6, <1>7, <1>8, <2>1 DEF RowType
<1>10. f.task_state = "SUCCESS" => \A t \in Subtask : Done(f.status[t])
  <2>1. e.task_state # "SUCCESS"
    BY <1>1, <1>4 DEF SetUpRow
  <2> QED
    BY <1>5, <2>1
<1>11. \A t \in Subtask : Done(f.status[t]) => ~HasToken(t)'
  BY <1>1, <1>3, <1>6 DEF SetUpRow, WorkKept
<1>12. SetUpRow(f)'
  BY <1>5, <1>9, <1>10, <1>11 DEF SetUpRow, CountedRow, StateIn
<1>13. Shares(pp)'
  BY <1>0, <1>3 DEF Shares, WorkKept
<1>14. Rows(pp)'
  <2>1. ~NewRow(e) /\ ~NewRow(f)
    BY <1>4, <1>5, RowsDiffer
  <2>2. s[2] \in 1..pp.queued
    BY <1>0, <1>3 DEF Shares
  <2>3. pp.pc = "queue" => \A t \in Subtask : Done(f.status[t]) => t[2] <= pp.queued
    BY <1>0, <1>6, <2>2 DEF Rows
  <2>4. pp.pc = "save" => SetUpRow(pp.row)'
    BY <1>0, <1>1, <1>3, RowKept DEF Rows
  <2> QED
    BY <1>0, <1>12, <2>1, <2>3, <2>4 DEF Rows
<1>15. \A q \in Parent : q = p /\ parent'[q] = pp
  OBVIOUS
<1> QED
  BY <1>0, <1>2, <1>3, <1>13, <1>14, <1>15 DEF DelegationInv, WorkKept

\* Every step preserves the invariant.
LEMMA DelegationPreserves ==
  ASSUME DelegationInv, DeliveredOnce, [DelegationNext]_delegationVars
  PROVE  DelegationInv'
<1> PICK p \in Parent : Parent = {p}
  BY OneParent
<1>0. TokensKept /\ redelivered \in Nat
  BY ParentFacts
<1>1. CASE \E q \in Parent : ParentStep(q)
  BY <1>1, ParentStepPreserves
<1>2. ASSUME NEW w \in Worker,
             Step(w) \/ UpdateFails(w) \/ UpdateRaises(w) \/ WorkerDies(w),
             UNCHANGED parent
      PROVE  DelegationInv'
  <2>1. WorkKept /\ (UpdateCommits(w) \/ UNCHANGED <<entry, redelivered>>)
    BY <1>0, <1>2, StepKeepsTokens
  <2>2. ~NothingYet
    BY <1>2, WorkNeedsRow
  <2> QED
    BY <1>0, <1>2, <2>1, <2>2, WorkPreserves, CommitPreservesDelegation
<1>3. ASSUME NEW s \in Subtask, LockExpires(s), UNCHANGED parent
      PROVE  DelegationInv'
  <2>1. WorkKept
    BY <1>0, <1>3, ExpiryKeepsTokens
  <2>2. NothingYet => NothingYet'
    BY <1>3 DEF NothingYet, LockExpires, At
  <2> QED
    BY <1>0, <1>3, <2>1, <2>2, WorkPreserves DEF LockExpires
<1>4. CASE UNCHANGED delegationVars
  <2>1. UNCHANGED <<entry, queue, locked, worker, sent, redelivered, parent>>
    BY <1>4 DEF delegationVars, vars
  <2>2. WorkKept /\ (NothingYet => NothingYet')
    BY <1>0, <2>1, TokensSame DEF WorkKept
  <2> QED
    BY <1>0, <2>1, <2>2, WorkPreserves
<1> QED
  BY <1>1, <1>2, <1>3, <1>4 DEF DelegationNext, Next
\* The invariant holds before the parent is delivered.
LEMMA DelegationStarts ==
  ASSUME DelegationInit
  PROVE  DelegationInv
<1>1. NewRow(entry) /\ entry = NewEntry
  BY NewEntryOK DEF DelegationInit
<1>2. NothingYet
  <2>1. \A w \in Worker : worker[w] = Idle /\ Idle.pc = "idle"
    BY DEF DelegationInit, Idle
  <2>2. \A s \in Subtask, r \in Recipient : sent[s][r] = 0
    BY DEF DelegationInit
  <2> QED
    BY <2>1, <2>2 DEF DelegationInit, NothingYet, At
<1>3. TokensKept
  <2>1. WorkersTyped
    BY IdleWorker DEF DelegationInit, WorkersTyped
  <2>2. OneToken /\ ListedAreUnmailed
    BY IdleWorker DEF DelegationInit, OneToken, ListedAreUnmailed
  <2>3. WorkerConsistent /\ NoDuplicateMail
    BY IdleWorker DEF DelegationInit, WorkerConsistent, NoDuplicateMail
  <2> QED
    BY <2>1, <2>2, <2>3 DEF DelegationInit, TokensKept
<1>4. /\ NotDelivered \in ParentType
      /\ NotDelivered.pc = "waiting" /\ NotDelivered.row = NewEntry
      /\ NotDelivered.chunks = <<>> /\ NotDelivered.queued = 0
  BY NewEntryOK DEF NotDelivered, ParentType, ParentPC, NewRow
<1>5. ListsFit(<<>>) /\ Len(<<>>) = 0
  BY NumSubtasksType DEF ListsFit
<1>6. Shares(NotDelivered)
  BY <1>2, <1>3, <1>4, <1>5, NothingTouched DEF Shares
<1>7. Rows(NotDelivered)
  BY <1>1, <1>2, <1>4, RowsDiffer DEF Rows, SetUpRow, KnownRow
<1>8. /\ parent \in [Parent -> ParentType]
      /\ \A p \in Parent : parent[p] = NotDelivered
      /\ redelivered = 0
  BY <1>4 DEF DelegationInit
<1> QED
  BY <1>3, <1>6, <1>7, <1>8 DEF DelegationInv

-----------------------------------------------------------------------------
(* What follows of the invariant.                                          *)

\* A counted row is one that IsRow describes.
LEMMA KnownRowIsRow ==
  ASSUME DeliveredOnce, NEW e \in RowType, KnownRow(e)
  PROVE  IsRow(e)
<1>1. CASE NewRow(e)
  <2>1. DOMAIN e.status = {}
    BY <1>1 DEF NewRow, NoSubtasks
  <2> QED
    BY <1>1, <2>1 DEF NewRow, RowType, IsRow
<1>2. CASE CountedRow(e)
  <2>1. NumSubtasks \in Nat /\ Cardinality(Subtask) = NumSubtasks
    BY NumSubtasksType, OneParent
  <2>2. ASSUME NEW state
        PROVE  Cardinality(StateIn(e, state)) \in 0..NumSubtasks
    <3>1. StateIn(e, state) \in SUBSET Subtask
      BY DEF StateIn
    <3>2. /\ Cardinality(StateIn(e, state)) \in Nat
          /\ Cardinality(StateIn(e, state)) <= NumSubtasks
      BY <2>1, <3>1, SubtaskAssumption, FS_Subset, FS_CardinalityType
    <3> QED
      BY <2>1, <3>2
  <2>3. e.total = NumSubtasks /\ e.succeeded \in 0..e.total /\ e.failed \in 0..e.total
    BY <1>2, <2>1, <2>2 DEF CountedRow
  <2>4. DOMAIN e.status = Subtask /\ \A s \in Subtask : e.status[s] \in Status
    BY <1>2 DEF CountedRow
  <2> QED
    BY <2>3, <2>4 DEF IsRow, RowType
<1> QED
  BY <1>1, <1>2 DEF KnownRow

\* The row and the parent's copy have their types.
LEMMA DelegationTyped ==
  ASSUME DelegationInv, DeliveredOnce
  PROVE  DelegationTypeOK
<1> PICK p \in Parent : Parent = {p}
  BY OneParent
<1>1. IsRow(entry)
  BY ParentFacts, KnownRowIsRow DEF Rows, SetUpRow, KnownRow
<1>2. ASSUME NEW q \in Parent
      PROVE  /\ parent[q].pc \in ParentPC
             /\ IsRow(parent[q].row)
             /\ parent[q].queued <= Len(parent[q].chunks)
  <2>1. parent[q].pc \in ParentPC /\ parent[q].row \in RowType
    BY ParentFacts DEF ParentType
  <2> QED
    BY <2>1, ParentFacts, KnownRowIsRow DEF Rows, Shares
<1>3. queue \in SUBSET Message /\ worker \in [Worker -> WorkerState]
  BY DEF DelegationInv, TokensKept, WorkersTyped
<1> QED
  BY <1>1, <1>2, <1>3 DEF DelegationTypeOK

\* No subtask is queued or at work before the row knows it, and the row says
\* SUCCESS only with all of them over.
LEMMA RowKnowsSubtasks ==
  ASSUME DelegationInv, DeliveredOnce
  PROVE  SubtasksAreKnown /\ NoEarlySuccess
<1> PICK p \in Parent : Parent = {p}
  BY OneParent
<1>1. /\ \A m \in queue : m.sub \in Subtask
      /\ \A w \in Worker : worker[w].sub \in Subtask
  BY ParentFacts, KeptWorker DEF TokensKept, Message
<1>2. CASE NewRow(entry) /\ NothingYet
  BY <1>2 DEF NewRow, NothingYet, SubtasksAreKnown, NoEarlySuccess
<1>3. CASE SetUpRow(entry)
  BY <1>1, <1>3, RowsDiffer DEF SetUpRow, SubtasksAreKnown, NoEarlySuccess
<1> QED
  BY <1>2, <1>3, ParentFacts DEF Rows

\* The number of times that a recipient was mailed by the subtasks of D.
Mails(f, r, D) == MapThenSumSet(LAMBDA s : f[s][r], D)

\* It is the sum of a function.
LEMMA MailsSum ==
  ASSUME NEW f, NEW r, NEW D
  PROVE  Mails(f, r, D) = SumOver([s \in D |-> f[s][r]], D)
<1> DEFINE h == [s \in D |-> f[s][r]]
           A(g) == g = [s \in SUBSET D |-> IF s = {} THEN 0
                                           ELSE f[Picked(s)][r] + g[Rest(s)]]
<1>1. ASSUME NEW g
      PROVE  A(g) <=> AddsUp(g, h, D)
  <2>1. ASSUME NEW s \in SUBSET D, s # {}
        PROVE  h[Picked(s)] = f[Picked(s)][r]
    BY <2>1, RestSmaller
  <2> HIDE DEF h
  <2> QED
    BY <2>1 DEF AddsUp
<1> HIDE DEF h
<1>2. (CHOOSE g : A(g)) = CHOOSE g : AddsUp(g, h, D)
  <2> HIDE DEF A
  <2> QED
    BY <1>1, Zenon
<1>3. Mails(f, r, D) = (CHOOSE g : A(g))[D]
  BY DEF Mails, MapThenSumSet, MapThenFoldSet, Picked, Rest
<1>4. Mails(f, r, D) = Sums(h, D)[D]
  BY <1>2, <1>3 DEF Sums
<1> QED
  BY <1>4, SumOverIsSums DEF h

\* A recipient is on the list of one subtask, which mails it at most once.
LEMMA OneMailEach ==
  ASSUME DelegationInv, DeliveredOnce
  PROVE  MailedByOneSubtask
<1> PICK p \in Parent : Parent = {p}
  BY OneParent
<1> PICK pp \in ParentType : pp = parent[p]
  BY ParentFacts
<1>1. /\ ListsFit(pp.chunks) /\ Shares(pp) /\ TokensKept
      /\ pp.chunks \in Seq(SUBSET Recipient) /\ pp.queued \in Nat
      /\ pp.queued <= Len(pp.chunks)
  BY ParentFacts DEF Shares, ListsFit, ParentType
<1>2. ASSUME NEW r \in Recipient
      PROVE  Mails(sent, r, Subtask) <= 1
  <2> DEFINE f == [s \in Subtask |-> sent[s][r]]
  <2>1. \A s \in Subtask : f[s] \in {0, 1}
    BY <1>1 DEF TokensKept, NoDuplicateMail
  <2>2. ASSUME NEW s \in Subtask, NEW t \in Subtask, f[s] = 1, f[t] = 1
        PROVE  s = t
    <3>1. r \in Touched(s) /\ r \in Touched(t)
      BY <2>2 DEF Touched
    <3>2. /\ s[2] \in 1..pp.queued /\ r \in pp.chunks[s[2]]
          /\ t[2] \in 1..pp.queued /\ r \in pp.chunks[t[2]]
      BY <1>1, <3>1 DEF Shares
    <3>3. s[2] \in DOMAIN pp.chunks /\ t[2] \in DOMAIN pp.chunks
      BY <1>1, <3>2
    <3>4. s[2] = t[2]
      BY <1>1, <3>2, <3>3 DEF ListsFit
    <3> QED
      BY <3>4, SubtaskIds
  <2> HIDE DEF f
  <2>3. SumOver(f, Subtask) \in {0, 1}
    BY <2>1, <2>2, SubtaskAssumption, SumAtMostOne
  <2>4. Mails(sent, r, Subtask) = SumOver(f, Subtask)
    BY MailsSum DEF f
  <2> QED
    BY <2>3, <2>4
<1> QED
  BY <1>2 DEF Mails, MailedByOneSubtask

-----------------------------------------------------------------------------
(* The theorems.                                                           *)

\* DelegationInv is an invariant when the broker delivers the parent once.
THEOREM DelegationHolds ==
  ASSUME DeliveredOnce
  PROVE  DelegationSpec => []DelegationInv
<1>1. DelegationInit => DelegationInv
  BY DelegationStarts
<1>2. DelegationInv /\ [DelegationNext]_delegationVars => DelegationInv'
  BY DelegationPreserves
<1> QED
  BY <1>1, <1>2, PTL DEF DelegationSpec

\* The row in the database and the parent's copy of it have their types, and
\* count no more subtasks than there are.
THEOREM DelegationTypes ==
  ASSUME DeliveredOnce
  PROVE  DelegationSpec => []DelegationTypeOK
<1>1. DelegationInv => DelegationTypeOK
  BY DelegationTyped
<1> QED
  BY <1>1, DelegationHolds, PTL

\* Every subtask that is waiting or at work is known to the row, whatever the
\* parent saves meanwhile (initialize_subtask_info, SaveResult).
THEOREM SubtasksStayKnown ==
  ASSUME DeliveredOnce
  PROVE  DelegationSpec => []SubtasksAreKnown
<1>1. DelegationInv => SubtasksAreKnown
  BY RowKnowsSubtasks
<1> QED
  BY <1>1, DelegationHolds, PTL

\* The task is not a SUCCESS before its last subtask is over, although the
\* subtasks run while the parent still queues and saves.
THEOREM SuccessIsNotEarly ==
  ASSUME DeliveredOnce
  PROVE  DelegationSpec => []NoEarlySuccess
<1>1. DelegationInv => NoEarlySuccess
  BY RowKnowsSubtasks
<1> QED
  BY <1>1, DelegationHolds, PTL

\* Nobody is mailed twice by the subtasks of the task together.
THEOREM MailedOnceByAll ==
  ASSUME DeliveredOnce
  PROVE  DelegationSpec => []MailedByOneSubtask
<1>1. DelegationInv => MailedByOneSubtask
  BY OneMailEach
<1> QED
  BY <1>1, DelegationHolds, PTL
-----------------------------------------------------------------------------
(* The lists of every delivery, however many there are.                    *)

\* A record with the fields of a delivery and lists that the generator made.
HasLists(pp) ==
  /\ DOMAIN pp = {"pc", "row", "found", "chunks", "queued"}
  /\ pp = [field \in DOMAIN pp |-> pp[field]]
  /\ pp.chunks = <<>> \/ \E n \in Yielded : pp.chunks = Chunks(n)

ListsInv ==
  /\ DOMAIN parent = Parent /\ parent = [p \in Parent |-> parent[p]]
  /\ \A p \in Parent : HasLists(parent[p])

\* Only DefineSubtasks makes lists, and it takes those of the generator.
LEMMA ParentKeepsLists ==
  ASSUME ListsInv, NEW p \in Parent, ParentStep(p)
  PROVE  ListsInv'
<1> PICK old : old = parent[p]
  OBVIOUS
<1>1. HasLists(old)
  BY DEF ListsInv
<1>2. ASSUME NEW pp, HasLists(pp), ParentBecomes(p, pp)
      PROVE  ListsInv'
  BY <1>2 DEF ListsInv, ParentBecomes
<1>3. ASSUME NEW pc
      PROVE  HasLists([old EXCEPT !.pc = pc])
  BY <1>1 DEF HasLists
<1>4. ASSUME NEW pc, NEW row
      PROVE  /\ HasLists([old EXCEPT !.pc = pc, !.row = row])
             /\ HasLists([old EXCEPT !.row = row, !.pc = pc])
  BY <1>1 DEF HasLists
<1>5. ASSUME NEW row, NEW found
      PROVE  HasLists([old EXCEPT !.pc = "mark", !.row = row, !.found = found])
  BY <1>1 DEF HasLists
<1>6. ASSUME NEW n \in Yielded
      PROVE  HasLists([old EXCEPT !.pc = "queue", !.chunks = Chunks(n)])
  BY <1>1 DEF HasLists
<1>7. ASSUME NEW c
      PROVE  HasLists([old EXCEPT !.queued = c])
  BY <1>1 DEF HasLists
<1>8. CASE ReadEntry(p)
  BY <1>2, <1>5, <1>8 DEF ReadEntry
<1>9. CASE MarkProgress(p) \/ DelegationRaises(p) \/ AllQueued(p)
           \/ QueueRaises(p) \/ SaveResult(p)
  BY <1>2, <1>3, <1>9
     DEF MarkProgress, DelegationRaises, AllQueued, QueueRaises, SaveResult
<1>10. CASE CheckEntry(p) \/ OnFailure(p)
  BY <1>2, <1>4, <1>10 DEF CheckEntry, OnFailure
<1>11. CASE OnSuccess(p)
  BY <1>2, <1>3, <1>4, <1>11 DEF OnSuccess
<1>12. CASE DefineSubtasks(p)
  BY <1>2, <1>6, <1>12 DEF DefineSubtasks
<1>13. CASE QueueSubtask(p)
  BY <1>2, <1>7, <1>13 DEF QueueSubtask
<1> QED
  BY <1>8, <1>9, <1>10, <1>11, <1>12, <1>13 DEF ParentStep

\* There is an id for each list, no recipient is on two, and only the last
\* may be longer than PerTask: for any number of recipients, of any size of
\* subtask, whatever the query yields, however often the parent is delivered.
THEOREM ListsFitIds == DelegationSpec => []ChunksFitIds
<1>1. DelegationInit => ListsInv
  <2>1. HasLists(NotDelivered)
    BY DEF NotDelivered, HasLists
  <2> QED
    BY <2>1 DEF DelegationInit, ListsInv
<1>2. ListsInv /\ [DelegationNext]_delegationVars => ListsInv'
  BY ParentKeepsLists DEF DelegationNext, delegationVars, ListsInv
<1>3. ListsInv => ChunksFitIds
  <2> SUFFICES ASSUME ListsInv, NEW p \in Parent
               PROVE  LET chunks == parent[p].chunks IN
                        /\ Len(chunks) <= NumSubtasks
                        /\ \A i, j \in DOMAIN chunks :
                             i # j => chunks[i] \cap chunks[j] = {}
                        /\ \A i \in DOMAIN chunks :
                             /\ chunks[i] # {}
                             /\ i < NumSubtasks => Cardinality(chunks[i]) <= PerTask
    BY DEF ChunksFitIds
  <2>1. CASE parent[p].chunks = <<>>
    BY <2>1, NumSubtasksType
  <2>2. CASE \E n \in Yielded : parent[p].chunks = Chunks(n)
    BY <2>2, YieldedAssumption, ChunksFit
  <2> QED
    BY <2>1, <2>2 DEF ListsInv, HasLists
<1> QED
  BY <1>1, <1>2, <1>3, PTL DEF DelegationSpec
=============================================================================
