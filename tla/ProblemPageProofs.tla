------------------------- MODULE ProblemPageProofs --------------------------
(***************************************************************************)
(* Theorems about ProblemPage: as long as the learner waits for the answer *)
(* of a check, save or reset and the answers to the calls of one problem   *)
(* arrive in order, problems run one operation at a time, the sequence     *)
(* keeps what the server has, and the page never goes back to an earlier   *)
(* attempt; for any problems, tabs, attempts and polls, and whatever calls *)
(* are lost.  If no two code problems share a tab and the tab that is open *)
(* is not clicked, problems that wait for the grader are polled as well.   *)
(***************************************************************************)
EXTENDS ProblemPage, FiniteSetTheorems, SequenceTheorems, TLAPS

\* The learner waits, and the answers of a problem come in order.
Orderly == Allows \cap {"hurry", "reorder"} = {}

(***************************************************************************)
(* The inductive invariant.                                                *)
(***************************************************************************)

IsOp(c) == c.op # "problem_get"

OpSent(p) == \E c \in sent : c.p = p /\ IsOp(c)
OpAnswered(p) == \E i \in DOMAIN replies[p] : IsOp(replies[p][i].call)

\* An operation is one of the page, and the only one of its problem.
OpsInv ==
  /\ \A c \in sent : IsOp(c) =>
       /\ c.live /\ Tab[c.p] = position /\ ~OpAnswered(c.p)
       /\ \A d \in sent : d.p = c.p /\ IsOp(d) => d = c
  /\ \A p \in Problem : \A i \in DOMAIN replies[p] : IsOp(replies[p][i].call) =>
       /\ replies[p][i].call.live /\ Tab[p] = position
       /\ \A j \in DOMAIN replies[p] : IsOp(replies[p][j].call) => j = i

\* While an operation is under way the buttons are disabled; those of code
\* problems may be rendered anew by a poll.
ButtonsInv ==
  \A p \in Problem \ CodeGraded :
    OpSent(p) \/ OpAnswered(p) => ~view[p].submit /\ ~view[p].others

\* Only code problems wait for the grader and are polled.
KeysInv ==
  /\ \A p \in Problem : is_queued(lcp[p]) \/ is_queued(latest[p]) => p \in CodeGraded
  /\ \A t \in timers : t.p \in CodeGraded
  /\ \A c \in sent : ~IsOp(c) => c.p \in CodeGraded
  /\ \A p \in Problem : \A i \in DOMAIN replies[p] :
       /\ ~IsOp(replies[p][i].call) => p \in CodeGraded
       /\ replies[p][i].reply.kind = "html" /\ is_queued(replies[p][i].reply.content) =>
            p \in CodeGraded

\* The sequence knows what has been handed in and saved, or is about to be
\* told.
TracksOf(c, l) ==
  /\ c.attempts = l.attempts /\ c.done = l.done
  /\ l.key \in {0, c.key}
  /\ l.saved => c.answer = l.answer

Tracks(c, p) == TracksOf(c, lcp[p])

Brings(e) == IsOp(e.call) /\ e.reply.kind = "html"

LatestInv ==
  \A p \in Problem \ lost :
    /\ (\A i \in DOMAIN replies[p] : ~Brings(replies[p][i])) => Tracks(latest[p], p)
    /\ \A i \in DOMAIN replies[p] : Brings(replies[p][i]) => Tracks(replies[p][i].reply.content, p)

\* Attempts only go up, from the page to the answers, in their order, and on
\* to the server.
AttemptsOf(p) ==
  /\ view[p].shown.attempts <= lcp[p].attempts
  /\ \A i \in DOMAIN replies[p] : replies[p][i].reply.kind = "html" =>
       /\ replies[p][i].reply.content.attempts <= lcp[p].attempts
       /\ replies[p][i].call.live =>
            view[p].shown.attempts <= replies[p][i].reply.content.attempts
       /\ \A j \in DOMAIN replies[p] : j > i /\ replies[p][j].reply.kind = "html" =>
            replies[p][i].reply.content.attempts <= replies[p][j].reply.content.attempts

AttemptsInv == \A p \in Problem \ lost : AttemptsOf(p)

FiniteInv == IsFiniteSet(sent) /\ IsFiniteSet(timers)

IInv == TypeOK /\ OpsInv /\ ButtonsInv /\ KeysInv /\ LatestInv /\ AttemptsInv /\ FiniteInv
-----------------------------------------------------------------------------
(* Facts about the operators of the model.                                 *)

\* Finitely many records have finitely many identifiers.
LEMMA IdsFinite ==
  ASSUME NEW S, IsFiniteSet(S)
  PROVE  IsFiniteSet({s.id : s \in S})
<1>. DEFINE T == {s.id : s \in S}
            f == [s \in S |-> s.id]
<1>1. f \in Surjection(S, T)  BY DEF Surjection
<1>. QED  BY <1>1, FS_Surjection

\* There is always an identifier that is not in use.
LEMMA NewIdNat ==
  ASSUME TypeOK, FiniteInv
  PROVE  NewId \in Nat
<1>1. ASSUME NEW p \in Problem PROVE IsFiniteSet(Answered(p))
  <2>. DEFINE f == [i \in DOMAIN replies[p] |-> replies[p][i].call]
              n == Len(replies[p])
  <2>1. DOMAIN replies[p] = 1 .. n /\ n \in Nat  BY DEF TypeOK
  <2>2. IsFiniteSet(1 .. n)  BY <2>1, FS_Interval
  <2>3. f \in Surjection(1 .. n, Answered(p))  BY <2>1 DEF Surjection, Answered, Range
  <2>. QED  BY <2>2, <2>3, FS_Surjection
<1>2. IsFiniteSet(UNION {Answered(p) : p \in Problem})
  <2>. DEFINE T == {Answered(p) : p \in Problem}
              f == [p \in Problem |-> Answered(p)]
  <2>1. f \in Surjection(Problem, T)  BY DEF Surjection
  <2>2. IsFiniteSet(T)  BY <2>1, PageAssumption, FS_Surjection
  <2>3. \A S \in T : IsFiniteSet(S)  BY <1>1
  <2>. QED  BY <2>2, <2>3, FS_UNION
<1>3. IsFiniteSet(Pending)  BY <1>2, FS_Union DEF Pending, FiniteInv
<1>. DEFINE C == {c.id : c \in Pending}
            T == {t.id : t \in timers}
<1>4. IsFiniteSet(C) /\ IsFiniteSet(T)  BY <1>3, IdsFinite DEF FiniteInv
<1>5. IsFiniteSet(UsedIds)  BY <1>4, FS_Union, FS_Singleton DEF UsedIds
<1>. DEFINE n == Cardinality(UsedIds)
<1>6. n \in Nat  BY <1>5, FS_CardinalityType
<1>7. \E i \in 1 .. n + 1 : i \notin UsedIds
  <2>. SUFFICES ASSUME 1 .. n + 1 \subseteq UsedIds PROVE FALSE  OBVIOUS
  <2>1. Cardinality(1 .. n + 1) <= n  BY <1>5, FS_Subset
  <2>2. Cardinality(1 .. n + 1) = n + 1  BY <1>6, FS_Interval
  <2>. QED  BY <1>6, <2>1, <2>2
<1>. QED  BY <1>6, <1>7 DEF NewId

\* What the answers of the server are made of.
LEMMA HtmlContent ==
  /\ \A c : Html(c).kind = "html" /\ Html(c).content = c
  /\ Alert.kind # "html" /\ Failed.kind # "html"
  /\ \A r \in Reply : r.kind = "html" => r.content \in Content
  /\ Alert \in Reply /\ Failed \in Reply /\ \A c \in Content : Html(c) \in Reply
<1>1. \A c : Html(c).kind = "html" /\ Html(c).content = c  BY DEF Html
<1>2. Alert.kind # "html" /\ Failed.kind # "html"  BY DEF Alert, Failed
<1>. QED  BY <1>1, <1>2 DEF Reply

\* What a view shows and the server knows, with its attempts.
LEMMA AttemptsNat ==
  ASSUME TypeOK, NEW p \in Problem
  PROVE  /\ view[p] \in View /\ lcp[p] \in Content /\ view[p].shown \in Content
         /\ view[p].shown.attempts \in Nat /\ lcp[p].attempts \in Nat
<1>1. view[p] \in View /\ lcp[p] \in Content  BY DEF TypeOK
<1>2. view[p].shown \in Content  BY <1>1 DEF View
<1>3. \A c \in Content : c.attempts \in Nat  BY PageAssumption DEF Content
<1>. QED  BY <1>1, <1>2, <1>3

\* What is in an answer on its way to a problem.
LEMMA AnswerTypes ==
  ASSUME TypeOK, NEW p \in Problem, NEW i \in DOMAIN replies[p]
  PROVE  /\ replies[p][i].call \in Call /\ replies[p][i].call.p = p
         /\ replies[p][i].reply \in Reply
<1>. DEFINE R == [call : Call, reply : Reply]
            s == replies[p]
<1>1. s \in Seq(R) /\ i \in DOMAIN s  BY DEF TypeOK
<1>2. s[i].call.p = p  BY DEF TypeOK
<1>. HIDE DEF s, R
<1>3. s[i] \in R  BY <1>1, LenProperties, ElementOfSeq
<1>. QED  BY <1>2, <1>3 DEF R, s

\* What the server does to the state of a problem, and what it says of it.
LEMMA HandledRight ==
  ASSUME TypeOK, NEW c \in Call, NEW o \in handle_ajax(c)
  PROVE  /\ o[1] \in Content /\ o[2] \in Reply
         /\ o[1].attempts >= lcp[c.p].attempts
         /\ is_queued(o[1]) => is_queued(lcp[c.p]) \/ c.p \in CodeGraded
         /\ o[1].key \in {0, lcp[c.p].key} \/ o[1].key \in 1 .. MaxAttempts
         /\ ~IsOp(c) => o[1] = lcp[c.p]
         /\ o[2].kind = "html" => o[2].content = o[1]
         /\ o[2].kind # "html" =>
              /\ o[1].attempts = lcp[c.p].attempts /\ o[1].done = lcp[c.p].done
              /\ o[1].key = lcp[c.p].key
              /\ o[1].saved => lcp[c.p].saved /\ o[1].answer = lcp[c.p].answer
<1>. DEFINE l == lcp[c.p]
<1>1. l \in Content /\ c.p \in Problem /\ c.answer \in Entry  BY DEF TypeOK, Call
<1>2. /\ l.attempts \in 0 .. MaxAttempts /\ l.key \in 0 .. MaxAttempts /\ MaxAttempts \in Nat \ {0}
      /\ l.done \in BOOLEAN /\ l.answer \in Entry /\ l.saved \in BOOLEAN
  BY <1>1, PageAssumption DEF Content
<1>. DEFINE S == Submitted(c.p, c.answer)
            K == [l EXCEPT !.answer = c.answer, !.saved = FALSE]
            V == [l EXCEPT !.answer = c.answer, !.saved = TRUE]
            U == [Untouched EXCEPT !.attempts = l.attempts]
<1>3. ~closed(l) => /\ S \in Content /\ S.attempts >= l.attempts
                    /\ is_queued(S) => c.p \in CodeGraded
                    /\ S.key \in {0} \cup 1 .. MaxAttempts
  BY <1>1, <1>2 DEF Submitted, Content, closed, is_queued
<1>4. /\ K \in Content /\ K.attempts = l.attempts /\ K.done = l.done /\ K.key = l.key
      /\ ~K.saved
  BY <1>1, <1>2 DEF Content
<1>5. /\ V \in Content /\ V.attempts = l.attempts /\ V.key = l.key
  BY <1>1, <1>2 DEF Content
<1>6. U \in Content /\ U.attempts = l.attempts /\ U.key = 0
  <2>1. Untouched \in Content /\ Untouched.key = 0
    <3>1. Blank \in Entry  BY DEF Entry
    <3>. QED  BY <1>2, <3>1 DEF Untouched, Content
  <2>2. \A r \in Content : \A x \in 0 .. MaxAttempts :
          /\ [r EXCEPT !.attempts = x] \in Content
          /\ [r EXCEPT !.attempts = x].attempts = x
          /\ [r EXCEPT !.attempts = x].key = r.key
    BY DEF Content
  <2>. QED  BY <1>2, <2>1, <2>2
<1>7. CASE c.op = "problem_check"
  <2>1. o \in submit_problem(c.p, c.answer) /\ IsOp(c)  BY <1>7 DEF handle_ajax, IsOp
  <2>2. \/ o = <<l, Failed>>
        \/ ~closed(l) /\ o = <<S, Html(S)>>
        \/ o = <<l, Alert>>
        \/ o = <<K, Alert>>
    BY <2>1 DEF submit_problem
  <2>. HIDE DEF l, S, K, V, U
  <2>. QED  BY <2>1, <2>2, <1>1, <1>2, <1>3, <1>4, HtmlContent DEF l, is_queued
<1>8. CASE c.op = "problem_save"
  <2>1. o \in save_problem(c.p, c.answer) /\ IsOp(c)  BY <1>8 DEF handle_ajax, IsOp
  <2>2. o = <<l, Alert>> \/ o = <<V, Html(V)>>  BY <2>1 DEF save_problem
  <2>. HIDE DEF l, S, K, V, U
  <2>. QED  BY <2>1, <2>2, <1>1, <1>2, <1>5, HtmlContent DEF l, is_queued
<1>9. CASE c.op = "problem_reset"
  <2>1. o \in reset_problem(c.p) /\ IsOp(c)  BY <1>9 DEF handle_ajax, IsOp
  <2>2. o = <<l, Alert>> \/ o = <<U, Html(U)>>  BY <2>1 DEF reset_problem
  <2>. HIDE DEF l, S, K, V, U
  <2>. QED  BY <2>1, <2>2, <1>1, <1>2, <1>6, HtmlContent DEF l, is_queued
<1>10. CASE c.op = "problem_get"
  <2>1. o \in get_problem(c.p) /\ ~IsOp(c)  BY <1>10 DEF handle_ajax, IsOp
  <2>2. o = <<l, Html(l)>>  BY <2>1 DEF get_problem
  <2>. HIDE DEF l, S, K, V, U
  <2>. QED  BY <2>1, <2>2, <1>1, <1>2, HtmlContent DEF l, is_queued
<1>. QED  BY <1>7, <1>8, <1>9, <1>10 DEF Call

\* The answers that are left when the first one was handled.
LEMMA RestRight ==
  ASSUME TypeOK, NEW p \in Problem, 1 \in DOMAIN replies[p]
  PROVE  /\ Rest(p, 1) \in Seq([call : Call, reply : Reply])
         /\ DOMAIN Rest(p, 1) = 1 .. Len(replies[p]) - 1
         /\ \A j \in DOMAIN Rest(p, 1) : /\ j + 1 \in DOMAIN replies[p]
                                         /\ Rest(p, 1)[j] = replies[p][j + 1]
         /\ Len(replies[p]) \in Nat \ {0}
<1>. DEFINE R == [call : Call, reply : Reply]
            s == replies[p]
            t == SubSeq(s, 2, Len(s))
<1>1. s \in Seq(R) /\ 1 \in DOMAIN s  BY DEF TypeOK
<1>. HIDE DEF R, s
<1>2. Len(s) \in Nat \ {0} /\ DOMAIN s = 1 .. Len(s)  BY <1>1, LenProperties
<1>3. \A i \in 2 .. Len(s) : s[i] \in R  BY <1>1, <1>2, ElementOfSeq
<1>4. /\ t \in Seq(R) /\ Len(t) = Len(s) - 1
      /\ \A j \in 1 .. Len(s) - 1 : t[j] = s[j + 1]
  <2>1. 2 \in Int /\ Len(s) \in Int  BY <1>2
  <2>2. t \in Seq(R) /\ Len(t) = (IF 2 <= Len(s) THEN Len(s) - 2 + 1 ELSE 0)
        /\ \A j \in 1 .. Len(s) - 2 + 1 : t[j] = s[2 + j - 1]
    BY <1>3, <2>1, SubSeqProperties
  <2>. HIDE DEF t
  <2>3. Len(t) = Len(s) - 1
    <3>1. CASE Len(s) = 1  BY <2>2, <3>1
    <3>2. CASE Len(s) >= 2  BY <1>2, <2>2, <3>2
    <3>3. Len(s) = 1 \/ Len(s) >= 2
      <4>1. \A k \in Nat \ {0} : k = 1 \/ k >= 2  OBVIOUS
      <4>. QED  BY <1>2, <4>1
    <3>. QED  BY <3>1, <3>2, <3>3
  <2>4. ASSUME NEW j \in 1 .. Len(s) - 1 PROVE t[j] = s[j + 1]
    <3>1. 2 + j - 1 = j + 1 /\ j \in 1 .. Len(s) - 2 + 1  BY <1>2
    <3>2. t[j] = s[2 + j - 1]  BY <2>2, <3>1
    <3>. QED  BY <3>1, <3>2
  <2>. QED  BY <2>2, <2>3, <2>4
<1>5. SubSeq(s, 1, 0) = <<>>  BY SubSeqEmpty
<1>6. Rest(p, 1) = SubSeq(s, 1, 0) \o t  BY <1>2 DEF Rest, RemoveAt, s
<1>. HIDE DEF t
<1>7. Rest(p, 1) = t  BY <1>4, <1>5, <1>6, ConcatEmptySeq
<1>8. DOMAIN t = 1 .. Len(s) - 1  BY <1>2, <1>4, LenProperties
<1>9. \A j \in 1 .. Len(s) - 1 : j + 1 \in DOMAIN s  BY <1>2
<1>. QED  BY <1>2, <1>4, <1>7, <1>8, <1>9 DEF R, s
-----------------------------------------------------------------------------
(* The server.                                                             *)

\* A call of p is answered with r.
LEMMA RespondInv ==
  ASSUME IInv, NEW c \in sent, NEW r \in Reply, Respond(c, r),
         lcp' \in [Problem -> Content], grader' \subseteq Problem \X (1 .. MaxAttempts),
         \A q \in Problem : q # c.p => lcp'[q] = lcp[q],
         is_queued(lcp'[c.p]) => c.p \in CodeGraded,
         r.kind = "html" => r.content = lcp'[c.p],
         lost' \in {lost, lost \cup {c.p}},
         c.p \notin lost' =>
           /\ lcp'[c.p].attempts >= lcp[c.p].attempts
           /\ ~IsOp(c) => lcp'[c.p] = lcp[c.p]
           /\ r.kind # "html" =>
                /\ lcp'[c.p].attempts = lcp[c.p].attempts /\ lcp'[c.p].done = lcp[c.p].done
                /\ lcp'[c.p].key = lcp[c.p].key
                /\ lcp'[c.p].saved => lcp[c.p].saved /\ lcp'[c.p].answer = lcp[c.p].answer
  PROVE  IInv'
<1>. USE DEF IInv
<1>. DEFINE p == c.p
            e == [call |-> c, reply |-> r]
            n == Len(replies[p]) + 1
<1>1. c \in Call /\ p \in Problem /\ e \in [call : Call, reply : Reply]
  BY DEF TypeOK, Call
<1>2. /\ sent' = sent \ {c} /\ replies' = [replies EXCEPT ![p] = Append(@, e)]
      /\ UNCHANGED <<position, latest, view, timers, queuePollerID, moves, clicks>>
  BY DEF Respond
<1>3. /\ replies' \in [Problem -> Seq([call : Call, reply : Reply])]
      /\ \A q \in Problem : q # p => replies'[q] = replies[q]
      /\ DOMAIN replies'[p] = DOMAIN replies[p] \cup {n} /\ replies'[p][n] = e
      /\ \A i \in DOMAIN replies[p] : replies'[p][i] = replies[p][i] /\ i < n /\ n > i /\ ~(i > n)
      /\ DOMAIN replies[p] \subseteq Nat /\ n \in Nat
      /\ n \notin DOMAIN replies[p]
  <2>. DEFINE R == [call : Call, reply : Reply]
              s == replies[p]
              t == Append(s, e)
  <2>1. s \in Seq(R) /\ e \in R  BY <1>1 DEF TypeOK
  <2>2. replies'[p] = t /\ \A q \in Problem : q # p => replies'[q] = replies[q]
    BY <1>1, <1>2 DEF TypeOK
  <2>. HIDE DEF R, s, e, p
  <2>3. Len(s) \in Nat /\ DOMAIN s = 1 .. Len(s)  BY <2>1, LenProperties
  <2>4. /\ t \in Seq(R) /\ Len(t) = Len(s) + 1 /\ t[Len(s) + 1] = e
        /\ \A i \in 1 .. Len(s) : t[i] = s[i]
    BY <2>1, AppendProperties
  <2>. HIDE DEF t
  <2>5. DOMAIN t = 1 .. Len(s) + 1  BY <2>3, <2>4, LenProperties
  <2>6. n = Len(s) + 1  BY DEF s
  <2>7. replies' \in [Problem -> Seq(R)]
    <3>1. replies \in [Problem -> Seq(R)]  BY DEF TypeOK, R
    <3>2. replies' = [replies EXCEPT ![p] = t]  BY <1>2 DEF s, t
    <3>. QED  BY <2>4, <3>1, <3>2
  <2>. HIDE DEF n
  <2>8. DOMAIN t = DOMAIN s \cup {n} /\ n \notin DOMAIN s /\ n \in Nat
        /\ DOMAIN s \subseteq Nat /\ \A i \in DOMAIN s : i < n /\ n > i /\ ~(i > n)
    BY <2>3, <2>5, <2>6
  <2>. QED  BY <2>2, <2>3, <2>4, <2>6, <2>7, <2>8 DEF R, s
<1>4. e.call = c /\ e.reply = r  OBVIOUS
<1>. HIDE DEF e, n
<1>5. TypeOK'
  <2>1. \A q \in Problem : \A i \in DOMAIN replies'[q] : replies'[q][i].call.p = q
    <3>. SUFFICES ASSUME NEW q \in Problem, NEW i \in DOMAIN replies'[q]
                  PROVE  replies'[q][i].call.p = q
      OBVIOUS
    <3>1. CASE q = p /\ i = n  BY <3>1, <1>3, <1>4
    <3>2. CASE ~(q = p /\ i = n)
      <4>1. i \in DOMAIN replies[q] /\ replies'[q][i] = replies[q][i]  BY <3>2, <1>3
      <4>. QED  BY <4>1 DEF TypeOK
    <3>. QED  BY <3>1, <3>2
  <2>2. lost' \subseteq Problem  BY <1>1 DEF TypeOK
  <2>. QED  BY <1>2, <1>3, <2>1, <2>2 DEF TypeOK
<1>6. IsOp(c) => /\ c.live /\ Tab[p] = position /\ ~OpAnswered(p)
                 /\ \A d \in sent : d.p = p /\ IsOp(d) => d = c
  BY DEF OpsInv
<1>7. \A q \in Problem : OpSent(q)' \/ OpAnswered(q)' => OpSent(q) \/ OpAnswered(q)
  <2>. SUFFICES ASSUME NEW q \in Problem, OpSent(q)' \/ OpAnswered(q)'
                PROVE  OpSent(q) \/ OpAnswered(q)
    OBVIOUS
  <2>1. CASE OpSent(q)'  BY <2>1, <1>2 DEF OpSent
  <2>2. CASE OpAnswered(q)'
    <3>1. CASE q = p  BY <2>2, <3>1, <1>3, <1>4 DEF OpAnswered, OpSent
    <3>2. CASE q # p  BY <2>2, <3>2, <1>3 DEF OpAnswered
    <3>. QED  BY <3>1, <3>2
  <2>. QED  BY <2>1, <2>2
<1>8. OpsInv'
  <2>1. ASSUME NEW d \in sent', IsOp(d)
        PROVE  /\ d.live /\ Tab[d.p] = position /\ ~OpAnswered(d.p)'
               /\ \A b \in sent' : b.p = d.p /\ IsOp(b) => b = d
    <3>1. d \in sent /\ d # c /\ d.p \in Problem  BY <1>2 DEF TypeOK, Call
    <3>2. /\ d.live /\ Tab[d.p] = position /\ ~OpAnswered(d.p)
          /\ \A b \in sent : b.p = d.p /\ IsOp(b) => b = d
      BY <2>1, <3>1 DEF OpsInv
    <3>3. IsOp(c) => d.p # p  BY <2>1, <3>1, <1>6
    <3>4. ~OpAnswered(d.p)'
      <4>1. CASE d.p # p  BY <4>1, <3>1, <3>2, <1>3 DEF OpAnswered
      <4>2. CASE d.p = p  BY <4>2, <3>2, <3>3, <1>3, <1>4 DEF OpAnswered
      <4>. QED  BY <4>1, <4>2
    <3>. QED  BY <3>2, <3>4, <1>2
  <2>2. ASSUME NEW q \in Problem, NEW i \in DOMAIN replies'[q], IsOp(replies'[q][i].call)
        PROVE  /\ replies'[q][i].call.live /\ Tab[q] = position
               /\ \A j \in DOMAIN replies'[q] : IsOp(replies'[q][j].call) => j = i
    <3>1. CASE q # p  BY <2>2, <3>1, <1>3 DEF OpsInv
    <3>2. CASE q = p /\ i = n
      BY <2>2, <3>2, <1>3, <1>4, <1>6 DEF OpAnswered
    <3>3. CASE q = p /\ i # n
      <4>1. i \in DOMAIN replies[p] /\ IsOp(replies[p][i].call)  BY <2>2, <3>3, <1>3
      <4>2. ~IsOp(c)  BY <4>1, <1>6 DEF OpAnswered
      <4>. QED  BY <3>3, <4>1, <4>2, <1>1, <1>3, <1>4 DEF OpsInv
    <3>. QED  BY <3>1, <3>2, <3>3
  <2>. QED  BY <2>1, <2>2, <1>2 DEF OpsInv
<1>9. ButtonsInv'  BY <1>2, <1>7 DEF ButtonsInv
<1>10. KeysInv'
  <2>1. ~IsOp(c) => p \in CodeGraded  BY DEF KeysInv
  <2>2. \A q \in Problem : is_queued(lcp'[q]) => q \in CodeGraded
    BY <1>1 DEF KeysInv
  <2>3. ASSUME NEW q \in Problem, NEW i \in DOMAIN replies'[q]
        PROVE  /\ ~IsOp(replies'[q][i].call) => q \in CodeGraded
               /\ replies'[q][i].reply.kind = "html" /\ is_queued(replies'[q][i].reply.content) =>
                    q \in CodeGraded
    <3>1. CASE q = p /\ i = n  BY <3>1, <2>1, <1>3, <1>4
    <3>2. CASE ~(q = p /\ i = n)  BY <3>2, <1>3 DEF KeysInv
    <3>. QED  BY <3>1, <3>2
  <2>. QED  BY <2>2, <2>3, <1>2 DEF KeysInv
<1>11. LatestInv'
  <2>. SUFFICES ASSUME NEW q \in Problem \ lost'
                PROVE  /\ (\A i \in DOMAIN replies'[q] : ~Brings(replies'[q][i])) =>
                            TracksOf(latest[q], lcp'[q])
                       /\ \A i \in DOMAIN replies'[q] :
                            Brings(replies'[q][i]) => TracksOf(replies'[q][i].reply.content, lcp'[q])
    BY <1>2 DEF LatestInv, Tracks
  <2>1. q \notin lost
        /\ ((\A i \in DOMAIN replies[q] : ~Brings(replies[q][i])) => TracksOf(latest[q], lcp[q]))
        /\ \A i \in DOMAIN replies[q] :
             Brings(replies[q][i]) => TracksOf(replies[q][i].reply.content, lcp[q])
    BY DEF LatestInv, Tracks
  <2>2. CASE q # p
    <3>1. replies'[q] = replies[q] /\ lcp'[q] = lcp[q]  BY <2>2, <1>3
    <3>. QED  BY <2>1, <3>1 DEF Brings
  <2>3. CASE q = p
    <3>1. /\ DOMAIN replies'[q] = DOMAIN replies[q] \cup {n}
          /\ \A i \in DOMAIN replies[q] : (Brings(replies'[q][i]) <=> Brings(replies[q][i])) /\ replies'[q][i] = replies[q][i]
          /\ Brings(replies'[q][n]) <=> IsOp(c) /\ r.kind = "html"
          /\ replies'[q][n].reply = r
      BY <2>3, <1>3, <1>4 DEF Brings
    <3>2. CASE ~IsOp(c)
      <4>1. lcp'[q] = lcp[q]  BY <2>3, <3>2
      <4>. QED  BY <2>1, <3>1, <3>2, <4>1
    <3>3. CASE IsOp(c)
      <4>1. \A i \in DOMAIN replies[q] : ~Brings(replies[q][i])
        BY <2>3, <3>3, <1>6 DEF OpAnswered, Brings
      <4>2. TracksOf(latest[q], lcp[q])  BY <2>1, <4>1
      <4>3. CASE r.kind = "html"
        <5>1. TracksOf(lcp'[q], lcp'[q])  BY DEF TracksOf
        <5>. QED  BY <2>3, <3>1, <3>3, <4>1, <4>3, <5>1
      <4>4. CASE r.kind # "html"
        <5>1. /\ lcp'[q].attempts = lcp[q].attempts /\ lcp'[q].done = lcp[q].done
              /\ lcp'[q].key = lcp[q].key
              /\ lcp'[q].saved => lcp[q].saved /\ lcp'[q].answer = lcp[q].answer
          BY <2>3, <4>4
        <5>2. TracksOf(latest[q], lcp'[q])  BY <4>2, <5>1 DEF TracksOf
        <5>. QED  BY <3>1, <4>1, <4>4, <5>2
      <4>. QED  BY <4>3, <4>4
    <3>. QED  BY <3>2, <3>3
  <2>. QED  BY <2>2, <2>3
<1>12. AttemptsInv'
  <2>. SUFFICES ASSUME NEW q \in Problem \ lost'
                PROVE  AttemptsOf(q)'
    BY DEF AttemptsInv
  <2>1. q \notin lost /\ q \in Problem /\ AttemptsOf(q)  BY DEF AttemptsInv
  <2>2. CASE q # p
    <3>1. replies'[q] = replies[q] /\ lcp'[q] = lcp[q] /\ view' = view  BY <2>2, <1>2, <1>3
    <3>. QED  BY <2>1, <3>1 DEF AttemptsOf
  <2>3. CASE q = p
    <3>1. /\ DOMAIN replies'[q] = DOMAIN replies[q] \cup {n}
          /\ \A i \in DOMAIN replies[q] : replies'[q][i] = replies[q][i] /\ ~(i > n)
          /\ replies'[q][n].reply = r /\ ~(n > n)
      BY <2>3, <1>3, <1>4
    <3>2. view' = view /\ lcp'[q].attempts >= lcp[q].attempts /\ (r.kind = "html" => r.content = lcp'[q])
      BY <2>3, <1>2
    <3>3. /\ lcp[q].attempts \in Nat /\ lcp'[q].attempts \in Nat /\ view[q].shown.attempts \in Nat
          /\ \A i \in DOMAIN replies[q] : replies[q][i].reply.kind = "html" =>
               replies[q][i].reply.content.attempts \in Nat
      <4>1. \A i \in DOMAIN replies[q] : replies[q][i].reply \in Reply  BY <2>1, AnswerTypes
      <4>2. \A b \in Content : b.attempts \in Nat  BY PageAssumption DEF Content
      <4>3. lcp[q] \in Content /\ lcp'[q] \in Content /\ view[q].shown \in Content
        BY <2>1 DEF TypeOK, View
      <4>. QED  BY <4>1, <4>2, <4>3, HtmlContent
    <3>. QED  BY <2>1, <3>1, <3>2, <3>3 DEF AttemptsOf
  <2>. QED  BY <2>2, <2>3
<1>13. FiniteInv'  BY <1>2, FS_Subset DEF FiniteInv
<1>. QED  BY <1>5, <1>8, <1>9, <1>10, <1>11, <1>12, <1>13

\* The state of p is set to what handle_ajax has made of it.
LEMMA ProcessedRight ==
  ASSUME IInv, NEW c \in sent, NEW o \in handle_ajax(c), Processed(c, o[1])
  PROVE  /\ lcp' \in [Problem -> Content] /\ lcp'[c.p] = o[1]
         /\ \A q \in Problem : q # c.p => lcp'[q] = lcp[q]
         /\ grader' \subseteq Problem \X (1 .. MaxAttempts)
         /\ is_queued(lcp'[c.p]) => c.p \in CodeGraded
<1>. USE DEF IInv
<1>1. c \in Call /\ c.p \in Problem  BY DEF TypeOK, Call
<1>2. o[1] \in Content /\ (o[1].key \in {0, lcp[c.p].key} \/ o[1].key \in 1 .. MaxAttempts)
      /\ (is_queued(o[1]) => is_queued(lcp[c.p]) \/ c.p \in CodeGraded)
  BY <1>1, HandledRight
<1>3. lcp' = [lcp EXCEPT ![c.p] = o[1]]
      /\ grader' = grader \cup ({<<c.p, o[1].key>>} \ {<<c.p, lcp[c.p].key>>, <<c.p, 0>>})
  BY DEF Processed
<1>4. lcp' \in [Problem -> Content] /\ lcp'[c.p] = o[1]
      /\ \A q \in Problem : q # c.p => lcp'[q] = lcp[q]
  BY <1>1, <1>2, <1>3 DEF TypeOK
<1>5. grader' \subseteq Problem \X (1 .. MaxAttempts)
  <2>1. grader \subseteq Problem \X (1 .. MaxAttempts)  BY DEF TypeOK
  <2>. QED  BY <1>1, <1>2, <1>3, <2>1
<1>6. is_queued(lcp'[c.p]) => c.p \in CodeGraded  BY <1>1, <1>2, <1>4 DEF KeysInv
<1>. QED  BY <1>4, <1>5, <1>6

\* The server handles a call.
LEMMA ServeInv ==
  ASSUME IInv, NEW c \in sent, Serve(c)
  PROVE  IInv'
<1>1. PICK o \in handle_ajax(c) : Processed(c, o[1]) /\ Respond(c, o[2]) /\ UNCHANGED lost
  BY DEF Serve
<1>2. c \in Call  BY DEF IInv, TypeOK
<1>3. /\ o[2] \in Reply
      /\ o[1].attempts >= lcp[c.p].attempts
      /\ ~IsOp(c) => o[1] = lcp[c.p]
      /\ o[2].kind = "html" => o[2].content = o[1]
      /\ o[2].kind # "html" =>
           /\ o[1].attempts = lcp[c.p].attempts /\ o[1].done = lcp[c.p].done
           /\ o[1].key = lcp[c.p].key
           /\ o[1].saved => lcp[c.p].saved /\ o[1].answer = lcp[c.p].answer
  BY <1>2, HandledRight DEF IInv
<1>4. /\ lcp' \in [Problem -> Content] /\ lcp'[c.p] = o[1]
      /\ \A q \in Problem : q # c.p => lcp'[q] = lcp[q]
      /\ grader' \subseteq Problem \X (1 .. MaxAttempts)
      /\ is_queued(lcp'[c.p]) => c.p \in CodeGraded
  BY <1>1, ProcessedRight
<1>5. lost' \in {lost, lost \cup {c.p}}  BY <1>1
<1>. QED  BY <1>1, <1>3, <1>4, <1>5, RespondInv

\* A call or its answer is lost.
LEMMA LoseInv ==
  ASSUME IInv, NEW c \in sent, Lose(c)
  PROVE  IInv'
<1>1. c.p \in lost' /\ lost' = lost \cup {c.p} /\ Respond(c, Failed)  BY DEF Lose
<1>2. Failed \in Reply /\ Failed.kind # "html"  BY HtmlContent
<1>3. c \in Call /\ c.p \in Problem  BY DEF IInv, TypeOK, Call
<1>4. /\ lcp' \in [Problem -> Content]
      /\ \A q \in Problem : q # c.p => lcp'[q] = lcp[q]
      /\ grader' \subseteq Problem \X (1 .. MaxAttempts)
      /\ is_queued(lcp'[c.p]) => c.p \in CodeGraded
  <2>1. CASE UNCHANGED <<lcp, grader>>  BY <1>3, <2>1 DEF IInv, TypeOK, KeysInv
  <2>2. CASE \E o \in handle_ajax(c) : Processed(c, o[1])  BY <2>2, ProcessedRight
  <2>. QED  BY <2>1, <2>2 DEF Lose
<1>. QED  BY <1>1, <1>2, <1>4, RespondInv

\* The grade arrives: the problem does not wait any more.
LEMMA GraderInv ==
  ASSUME IInv, NEW g \in grader, GraderReplies(g)
  PROVE  IInv'
<1>. USE DEF IInv
<1>. DEFINE k == IF lcp[g[1]].key = g[2] THEN 0 ELSE lcp[g[1]].key
<1>1. g[1] \in Problem /\ lcp[g[1]] \in Content  BY DEF TypeOK
<1>2. lcp' = [lcp EXCEPT ![g[1]].key = k]
      /\ UNCHANGED <<position, latest, view, sent, replies, timers, queuePollerID, lost, moves, clicks>>
      /\ grader' \subseteq grader
  BY DEF GraderReplies
<1>3. k \in {0, lcp[g[1]].key} /\ k \in 0 .. MaxAttempts
  BY <1>1, PageAssumption DEF Content
<1>. HIDE DEF k
<1>4. [lcp[g[1]] EXCEPT !.key = k] \in Content
  BY <1>1, <1>3 DEF Content
<1>5. lcp' \in [Problem -> Content]
  <2>1. lcp' = [lcp EXCEPT ![g[1]] = [lcp[g[1]] EXCEPT !.key = k]]  BY <1>2
  <2>. QED  BY <1>1, <1>4, <2>1 DEF TypeOK
<1>6. \A q \in Problem :
        /\ lcp'[q].attempts = lcp[q].attempts /\ lcp'[q].done = lcp[q].done
        /\ lcp'[q].saved = lcp[q].saved /\ lcp'[q].answer = lcp[q].answer
        /\ lcp'[q].key \in {0, lcp[q].key}
  <2>. SUFFICES ASSUME NEW q \in Problem
                PROVE  /\ lcp'[q].attempts = lcp[q].attempts /\ lcp'[q].done = lcp[q].done
                       /\ lcp'[q].saved = lcp[q].saved /\ lcp'[q].answer = lcp[q].answer
                       /\ lcp'[q].key \in {0, lcp[q].key}
    OBVIOUS
  <2>1. CASE q # g[1]  BY <1>1, <1>2, <2>1 DEF TypeOK
  <2>2. CASE q = g[1]
    <3>1. lcp'[q] = [lcp[q] EXCEPT !.key = k]  BY <1>1, <1>2, <2>2 DEF TypeOK
    <3>. QED  BY <1>1, <1>3, <2>2, <3>1 DEF Content
  <2>. QED  BY <2>1, <2>2
<1>7. \A b : \A q \in Problem : TracksOf(b, lcp[q]) => TracksOf(b, lcp'[q])
  BY <1>6 DEF TracksOf
<1>8. TypeOK'  BY <1>2, <1>5 DEF TypeOK
<1>9. OpsInv' /\ ButtonsInv' /\ FiniteInv'
  BY <1>2 DEF OpsInv, ButtonsInv, FiniteInv, OpSent, OpAnswered
<1>10. KeysInv'
  <2>1. \A q \in Problem : is_queued(lcp'[q]) => is_queued(lcp[q])  BY <1>6 DEF is_queued
  <2>. QED  BY <1>2, <2>1 DEF KeysInv
<1>11. LatestInv'  BY <1>2, <1>7 DEF LatestInv, Tracks
<1>12. AttemptsInv'
  <2>1. \A q \in Problem : lcp'[q].attempts = lcp[q].attempts  BY <1>6
  <2>. QED  BY <1>2, <2>1 DEF AttemptsInv, AttemptsOf
<1>. QED  BY <1>8, <1>9, <1>10, <1>11, <1>12
-----------------------------------------------------------------------------
(* The learner at a problem.                                               *)

\* Who waits has no operation under way.
LEMMA NoOps ==
  ASSUME IInv, Orderly, NEW p \in Problem, Waits(p)
  PROVE  ~OpSent(p) /\ ~OpAnswered(p)
<1>. USE DEF IInv
<1>1. Running(p) = {}  BY DEF Orderly, Waits
<1>2. ASSUME NEW c \in sent, c.p = p, IsOp(c) PROVE FALSE
  <2>1. c \in Pending /\ c.live  BY <1>2 DEF Pending, OpsInv
  <2>. QED  BY <1>1, <1>2, <2>1 DEF Running, IsOp
<1>3. ASSUME NEW i \in DOMAIN replies[p], IsOp(replies[p][i].call) PROVE FALSE
  <2>1. replies[p][i].call.live /\ replies[p][i].call.p = p  BY <1>3, AnswerTypes DEF OpsInv
  <2>2. replies[p][i].call \in Pending  BY DEF Pending, Answered, Range
  <2>. QED  BY <1>1, <1>3, <2>1, <2>2 DEF Running, IsOp
<1>. QED  BY <1>2, <1>3 DEF OpSent, OpAnswered

\* A step at p, of which no operation is under way, that changes no more of
\* the page than the input and the buttons of p.
LEMMA InputInv ==
  ASSUME IInv, NEW p \in Problem, ~OpSent(p), ~OpAnswered(p),
         NEW v \in View, view' = [view EXCEPT ![p] = v], v.shown = view[p].shown,
         UNCHANGED <<lcp, grader, position, latest, sent, replies, timers, queuePollerID,
                     lost, moves, clicks>>
  PROVE  IInv'
<1>. USE DEF IInv
<1>1. view' \in [Problem -> View] /\ view'[p] = v /\ \A q \in Problem : q # p => view'[q] = view[q]
  BY DEF TypeOK
<1>2. \A q \in Problem : view'[q].shown = view[q].shown  BY <1>1
<1>3. TypeOK'  BY <1>1 DEF TypeOK
<1>4. OpsInv' /\ KeysInv' /\ LatestInv' /\ FiniteInv'
  BY DEF OpsInv, OpAnswered, KeysInv, LatestInv, Tracks, FiniteInv
<1>5. ButtonsInv'
  <2>1. \A q \in Problem : OpSent(q)' \/ OpAnswered(q)' => q # p /\ (OpSent(q) \/ OpAnswered(q))
    BY DEF OpSent, OpAnswered
  <2>. QED  BY <1>1, <2>1 DEF ButtonsInv
<1>6. AttemptsInv'  BY <1>2 DEF AttemptsInv, AttemptsOf
<1>. QED  BY <1>3, <1>4, <1>5, <1>6

\* An answer is typed in.
LEMMA TypeInv ==
  ASSUME IInv, Orderly, NEW p \in Problem, NEW a \in Entry, Type(p, a)
  PROVE  IInv'
<1>. DEFINE b == IF p \in CodeGraded THEN view[p].submit
                 ELSE answered(p, a) /\ ~closed(view[p].shown)
            v == [view[p] EXCEPT !.input = a, !.submit = b]
<1>1. ~OpSent(p) /\ ~OpAnswered(p)  BY NoOps DEF Type
<1>2. view[p] \in View  BY DEF IInv, TypeOK
<1>3. b \in BOOLEAN
  <2>1. CASE p \in CodeGraded  BY <1>2, <2>1 DEF View
  <2>2. CASE p \notin CodeGraded  BY <2>2
  <2>. QED  BY <2>1, <2>2
<1>4. view' = [view EXCEPT ![p] = v]
  <2>1. view \in [Problem -> View]  BY DEF IInv, TypeOK
  <2>. QED  BY <1>2, <2>1 DEF Type
<1>5. UNCHANGED <<lcp, grader, position, latest, sent, replies, timers, queuePollerID,
                  lost, moves, clicks>>
  BY DEF Type
<1>. HIDE DEF b
<1>6. v \in View /\ v.shown = view[p].shown  BY <1>2, <1>3 DEF View
<1>. HIDE DEF v
<1>. QED  BY <1>1, <1>4, <1>5, <1>6, InputInv

\* A call made on the page joins those under way.
LEMMA SentInv ==
  ASSUME IInv, NEW c \in Call, sent' = sent \cup {c},
         UNCHANGED <<lcp, grader, position, latest, replies, lost, moves>>,
         clicks' \in 0 .. MaxClicks, queuePollerID' \in Nat,
         timers' \subseteq timers,
         view' \in [Problem -> View],
         \A q \in Problem : view'[q].shown = view[q].shown,
         \A q \in Problem \ CodeGraded :
           OpSent(q) \/ OpAnswered(q) => view'[q].submit = view[q].submit
                                         /\ view'[q].others = view[q].others,
         IF IsOp(c)
         THEN /\ c.live /\ Tab[c.p] = position /\ ~OpSent(c.p) /\ ~OpAnswered(c.p)
              /\ ~view'[c.p].submit /\ ~view'[c.p].others
         ELSE c.p \in CodeGraded
  PROVE  IInv'
<1>. USE DEF IInv
<1>1. c.p \in Problem  BY DEF Call
<1>2. TypeOK'
  <2>1. sent' \subseteq Call /\ timers' \subseteq Timer  BY DEF TypeOK
  <2>. QED  BY <2>1 DEF TypeOK
<1>3. OpsInv'
  <2>1. ASSUME NEW d \in sent', IsOp(d)
        PROVE  /\ d.live /\ Tab[d.p] = position /\ ~OpAnswered(d.p)
               /\ \A e \in sent' : e.p = d.p /\ IsOp(e) => e = d
    <3>1. CASE d = c
      <4>1. \A e \in sent : ~(e.p = c.p /\ IsOp(e))  BY <2>1, <3>1 DEF OpSent
      <4>. QED  BY <2>1, <3>1, <4>1
    <3>2. CASE d # c
      <4>1. d \in sent  BY <3>2
      <4>2. ~(c.p = d.p /\ IsOp(c))  BY <2>1, <4>1 DEF OpSent
      <4>. QED  BY <2>1, <4>1, <4>2 DEF OpsInv
    <3>. QED  BY <3>1, <3>2
  <2>2. \A p \in Problem : OpAnswered(p)' <=> OpAnswered(p)  BY DEF OpAnswered
  <2>3. \A d \in sent' : d.p \in Problem  BY <1>2 DEF TypeOK, Call
  <2>. QED  BY <2>1, <2>2, <2>3 DEF OpsInv
<1>4. ButtonsInv'
  <2>. SUFFICES ASSUME NEW q \in Problem \ CodeGraded, OpSent(q)' \/ OpAnswered(q)'
                PROVE  ~view'[q].submit /\ ~view'[q].others
    BY DEF ButtonsInv
  <2>1. OpSent(q) \/ OpAnswered(q) \/ (q = c.p /\ IsOp(c))  BY DEF OpSent, OpAnswered
  <2>. QED  BY <2>1 DEF ButtonsInv
<1>5. KeysInv'  BY DEF KeysInv
<1>6. LatestInv' /\ AttemptsInv'  BY DEF LatestInv, Tracks, AttemptsInv, AttemptsOf
<1>7. FiniteInv'  BY FS_Union, FS_Singleton, FS_Subset DEF FiniteInv
<1>. QED  BY <1>2, <1>3, <1>4, <1>5, <1>6, <1>7

\* A button is clicked.
LEMMA ClickInv ==
  ASSUME IInv, Orderly, NEW p \in Problem, submit(p) \/ save(p) \/ reset(p)
  PROVE  IInv'
<1>1. PICK op \in {"problem_check", "problem_save", "problem_reset"} :
        Click(p, op) /\ (view[p].submit \/ view[p].others)
  BY DEF submit, save, reset
<1>. DEFINE c == [id |-> NewId, op |-> op, p |-> p, live |-> TRUE, answer |-> view[p].input,
                  submit |-> view[p].submit, others |-> view[p].others, n |-> 0]
            v == Disabled(view[p])
<1>2. ~OpSent(p) /\ ~OpAnswered(p)
  <2>1. CASE p \in CodeGraded  BY <1>1, <2>1, NoOps DEF Click
  <2>2. CASE p \notin CodeGraded  BY <1>1, <2>2 DEF IInv, ButtonsInv
  <2>. QED  BY <2>1, <2>2
<1>3. view \in [Problem -> View] /\ view[p] \in View  BY DEF IInv, TypeOK
<1>4. c \in Call
  <2>1. NewId \in Nat  BY NewIdNat DEF IInv
  <2>. QED  BY <1>3, <2>1, PageAssumption DEF Call, View
<1>5. v \in View /\ v.shown = view[p].shown /\ ~v.submit /\ ~v.others
  BY <1>3 DEF Disabled, View
<1>6. /\ sent' = sent \cup {c} /\ view' = [view EXCEPT ![p] = v]
      /\ Tab[p] = position /\ clicks < MaxClicks /\ clicks' = clicks + 1
      /\ UNCHANGED <<lcp, grader, position, latest, replies, timers, queuePollerID, lost, moves>>
  BY <1>1 DEF Click
<1>7. c.p = p /\ c.live /\ IsOp(c)  BY DEF IsOp
<1>. HIDE DEF c, v
<1>8. /\ view' \in [Problem -> View] /\ view'[p] = v
      /\ \A q \in Problem : q # p => view'[q] = view[q]
  BY <1>3, <1>5, <1>6
<1>9. clicks' \in 0 .. MaxClicks /\ queuePollerID' \in Nat /\ timers' \subseteq timers
  BY <1>6, PageAssumption DEF IInv, TypeOK
<1>10. \A q \in Problem : view'[q].shown = view[q].shown  BY <1>5, <1>8
<1>11. \A q \in Problem \ CodeGraded :
         OpSent(q) \/ OpAnswered(q) => view'[q].submit = view[q].submit
                                       /\ view'[q].others = view[q].others
  BY <1>2, <1>8
<1>. QED  BY <1>2, <1>4, <1>5, <1>6, <1>7, <1>8, <1>9, <1>10, <1>11, SentInv

\* A timeout of a poller becomes a call.
LEMMA TimerInv ==
  ASSUME IInv, NEW t \in timers, TimerFires(t)
  PROVE  IInv'
<1>. DEFINE c == [id |-> t.id, op |-> "problem_get", p |-> t.p, live |-> t.live,
                  answer |-> Blank, submit |-> FALSE, others |-> FALSE, n |-> t.n]
<1>1. t \in Timer  BY DEF IInv, TypeOK
<1>2. c \in Call /\ c.p = t.p /\ ~IsOp(c)
  <2>1. Blank \in Entry  BY DEF Entry
  <2>2. t.n \in 0 .. MaxPolls  BY <1>1, PageAssumption DEF Timer
  <2>. QED  BY <1>1, <2>1, <2>2 DEF Timer, Call, IsOp
<1>3. /\ sent' = sent \cup {c} /\ timers' \subseteq timers
      /\ UNCHANGED <<lcp, grader, position, latest, view, replies, queuePollerID, lost, moves, clicks>>
  BY DEF TimerFires
<1>4. t.p \in CodeGraded  BY DEF IInv, KeysInv
<1>. HIDE DEF c
<1>5. view' \in [Problem -> View] /\ clicks' \in 0 .. MaxClicks /\ queuePollerID' \in Nat
  BY <1>3 DEF IInv, TypeOK
<1>. QED  BY <1>2, <1>3, <1>4, <1>5, SentInv
-----------------------------------------------------------------------------
(* Callbacks.                                                              *)

Kept(c, d) == c.op = d.op /\ c.p = d.p /\ c.live = d.live

\* A call whose problem was redrawn is the same call otherwise.
LEMMA RedrawnKept == \A c \in Call : Redrawn(c) \in Call /\ Kept(Redrawn(c), c)
  BY DEF Redrawn, Call, Kept

\* What the callback of the first answer of p leaves of the calls.
LEMMA CallsLeft ==
  ASSUME IInv, NEW p \in Problem, 1 \in DOMAIN replies[p],
         Unrendered(p, 1) \/ Rerendered(p, 1)
  PROVE  /\ sent' \subseteq Call /\ IsFiniteSet(sent')
         /\ \A c \in sent' : \E d \in sent : Kept(c, d)
         /\ \A c, d \in sent' : IsOp(c) /\ IsOp(d) /\ c.p = d.p => c = d
         /\ replies' \in [Problem -> Seq([call : Call, reply : Reply])]
         /\ \A q \in Problem : q # p => replies'[q] = replies[q]
         /\ DOMAIN replies'[p] \subseteq Nat
         /\ \A j \in DOMAIN replies'[p] :
              /\ j + 1 \in DOMAIN replies[p] /\ j + 1 > 1
              /\ replies'[p][j].reply = replies[p][j + 1].reply
              /\ Kept(replies'[p][j].call, replies[p][j + 1].call)
         /\ \A k \in DOMAIN replies[p] : k # 1 =>
              \E j \in DOMAIN replies'[p] : k = j + 1
<1>. USE DEF IInv
<1>. DEFINE R == [call : Call, reply : Reply]
            n == Len(replies[p])
            rest == Rest(p, 1)
<1>1. /\ rest \in Seq(R) /\ DOMAIN rest = 1 .. n - 1 /\ n \in Nat \ {0}
      /\ \A j \in DOMAIN rest : j + 1 \in DOMAIN replies[p] /\ rest[j] = replies[p][j + 1]
  BY RestRight
<1>2. DOMAIN replies[p] = 1 .. n /\ replies \in [Problem -> Seq(R)]
  <2>1. replies[p] \in Seq(R)  BY DEF TypeOK
  <2>. QED  BY <2>1, LenProperties DEF TypeOK
<1>. HIDE DEF R, n, rest
<1>3. /\ \A j \in 1 .. n - 1 : j + 1 > 1 /\ j \in Nat
      /\ \A k \in 1 .. n : k # 1 => \E j \in 1 .. n - 1 : k = j + 1
  <2>1. ASSUME NEW k \in 1 .. n, k # 1 PROVE \E j \in 1 .. n - 1 : k = j + 1
    <3>1. k - 1 \in 1 .. n - 1 /\ k = (k - 1) + 1  BY <1>1, <2>1
    <3>. QED  BY <3>1
  <2>. QED  BY <1>1, <2>1
<1>4. CASE Unrendered(p, 1)
  <2>1. sent' = sent /\ replies' = [replies EXCEPT ![p] = rest]  BY <1>4 DEF Unrendered, rest
  <2>2. replies'[p] = rest /\ replies' \in [Problem -> Seq(R)]
        /\ \A q \in Problem : q # p => replies'[q] = replies[q]
    BY <1>1, <1>2, <2>1
  <2>3. \A c : Kept(c, c)  BY DEF Kept
  <2>4. \A c, d \in sent : IsOp(c) /\ IsOp(d) /\ c.p = d.p => c = d  BY DEF OpsInv
  <2>. QED  BY <1>1, <1>2, <1>3, <2>1, <2>2, <2>3, <2>4 DEF TypeOK, FiniteInv, R
<1>5. CASE Rerendered(p, 1)
  <2>. DEFINE F(c) == IF c.p = p THEN Redrawn(c) ELSE c
              E(e) == [e EXCEPT !.call = Redrawn(@)]
              t == [j \in 1 .. n - 1 |-> E(rest[j])]
  <2>1. sent' = {F(c) : c \in sent} /\ replies' = [replies EXCEPT ![p] = t]
    BY <1>2, <1>5 DEF Rerendered, rest, n
  <2>2. \A c \in sent : c \in Call /\ F(c) \in Call /\ Kept(F(c), c)
    BY RedrawnKept DEF TypeOK, Kept
  <2>3. IsFiniteSet(sent')
    <3>. DEFINE g == [c \in sent |-> F(c)]
    <3>1. g \in [sent -> sent'] /\ \A b \in sent' : \E c \in sent : g[c] = b  BY <2>1
    <3>. HIDE DEF g
    <3>2. g \in Surjection(sent, sent')  BY <3>1 DEF Surjection
    <3>. QED  BY <3>2, FS_Surjection DEF FiniteInv
  <2>4. \A c \in sent' : \E d \in sent : c = F(d) /\ c \in Call /\ Kept(c, d)
    BY <2>1, <2>2
  <2>5. \A c, d \in sent' : IsOp(c) /\ IsOp(d) /\ c.p = d.p => c = d
    <3>. SUFFICES ASSUME NEW c \in sent', NEW d \in sent', IsOp(c), IsOp(d), c.p = d.p
                  PROVE  c = d
      OBVIOUS
    <3>1. PICK b \in sent : c = F(b) /\ Kept(c, b)  BY <2>4
    <3>2. PICK e \in sent : d = F(e) /\ Kept(d, e)  BY <2>4
    <3>3. IsOp(b) /\ IsOp(e) /\ b.p = e.p  BY <3>1, <3>2 DEF Kept, IsOp
    <3>4. b = e  BY <3>3 DEF OpsInv
    <3>. QED  BY <3>1, <3>2, <3>4
  <2>6. \A e \in R : E(e) \in R /\ E(e).reply = e.reply /\ Kept(E(e).call, e.call)
    <3>. SUFFICES ASSUME NEW e \in R
                  PROVE  E(e) \in R /\ E(e).reply = e.reply /\ Kept(E(e).call, e.call)
      OBVIOUS
    <3>1. e.call \in Call /\ Redrawn(e.call) \in Call /\ Kept(Redrawn(e.call), e.call)
      BY RedrawnKept DEF R
    <3>2. E(e).reply = e.reply /\ E(e).call = Redrawn(e.call) /\ E(e) \in R  BY <3>1 DEF R
    <3>. QED  BY <3>1, <3>2
  <2>7. \A j \in 1 .. n - 1 : rest[j] \in R  BY <1>1, LenProperties, ElementOfSeq
  <2>. HIDE DEF E, F
  <2>8. t \in Seq(R) /\ DOMAIN t = 1 .. n - 1 /\ \A j \in 1 .. n - 1 : t[j] = E(rest[j])
    <3>1. t \in [1 .. n - 1 -> R]  BY <2>6, <2>7
    <3>2. n - 1 \in Nat  BY <1>1
    <3>. QED  BY <3>1, <3>2, SeqDef
  <2>. HIDE DEF t
  <2>9. replies'[p] = t /\ replies' \in [Problem -> Seq(R)]
        /\ \A q \in Problem : q # p => replies'[q] = replies[q]
    BY <1>2, <2>1, <2>8
  <2>10. \A j \in 1 .. n - 1 : /\ j + 1 \in DOMAIN replies[p]
                               /\ t[j].reply = replies[p][j + 1].reply
                               /\ Kept(t[j].call, replies[p][j + 1].call)
    BY <1>1, <2>6, <2>7, <2>8
  <2>. QED  BY <1>2, <1>3, <2>3, <2>4, <2>5, <2>8, <2>9, <2>10 DEF R
<1>. QED  BY <1>4, <1>5

\* The callback of the first answer of p has run: the page and the sequence
\* show no other content than before, or that of the answer.
LEMMA HandledInv ==
  ASSUME IInv, NEW p \in Problem, 1 \in DOMAIN replies[p],
         Unrendered(p, 1) \/ Rerendered(p, 1),
         UNCHANGED <<lcp, grader, position, lost, moves, clicks>>,
         timers' \subseteq Timer, IsFiniteSet(timers'), \A t \in timers' : t.p \in CodeGraded,
         queuePollerID' \in Nat,
         view' \in [Problem -> View], \A q \in Problem : q # p => view'[q] = view[q],
         latest' \in [Problem -> Content], \A q \in Problem : q # p => latest'[q] = latest[q],
         latest'[p] = IF Brings(replies[p][1]) THEN replies[p][1].reply.content ELSE latest[p],
         \/ view'[p].shown = view[p].shown
         \/ /\ replies[p][1].reply.kind = "html" /\ replies[p][1].call.live
            /\ view'[p].shown = replies[p][1].reply.content
  PROVE  IInv'
<1>. USE DEF IInv
<1>. DEFINE e == replies[p][1]
            D == DOMAIN replies'[p]
<1>1. /\ sent' \subseteq Call /\ IsFiniteSet(sent')
      /\ \A c \in sent' : \E d \in sent : Kept(c, d)
      /\ \A c, d \in sent' : IsOp(c) /\ IsOp(d) /\ c.p = d.p => c = d
      /\ replies' \in [Problem -> Seq([call : Call, reply : Reply])]
      /\ \A q \in Problem : q # p => replies'[q] = replies[q]
      /\ D \subseteq Nat
      /\ \A k \in DOMAIN replies[p] : k # 1 => \E j \in D : k = j + 1
  BY CallsLeft
<1>2. \A j \in D : /\ j + 1 \in DOMAIN replies[p] /\ j + 1 > 1 /\ j + 1 # 1
                   /\ replies'[p][j].reply = replies[p][j + 1].reply
                   /\ replies'[p][j].call.live = replies[p][j + 1].call.live
                   /\ replies'[p][j].call.p = replies[p][j + 1].call.p
                   /\ IsOp(replies'[p][j].call) <=> IsOp(replies[p][j + 1].call)
                   /\ Brings(replies'[p][j]) <=> Brings(replies[p][j + 1])
  <2>1. \A j \in D : /\ j + 1 \in DOMAIN replies[p] /\ j + 1 > 1
                     /\ replies'[p][j].reply = replies[p][j + 1].reply
                     /\ Kept(replies'[p][j].call, replies[p][j + 1].call)
    BY CallsLeft
  <2>2. \A j \in D : j + 1 # 1  BY <1>1
  <2>. QED  BY <2>1, <2>2 DEF Kept, IsOp, Brings
<1>3. \A c \in sent' : IsOp(c) =>
        \E d \in sent : IsOp(d) /\ d.p = c.p /\ d.live = c.live /\ d.p \in Problem
  <2>1. \A d \in sent : d.p \in Problem  BY DEF TypeOK, Call
  <2>. QED  BY <1>1, <2>1 DEF Kept, IsOp
<1>4. e.call \in Call /\ e.call.p = p /\ e.reply \in Reply  BY AnswerTypes
<1>. HIDE DEF D
<1>5. \A q \in Problem : /\ OpSent(q)' => OpSent(q)
                         /\ OpAnswered(q)' => OpAnswered(q)
  <2>1. \A q \in Problem : OpSent(q)' => OpSent(q)  BY <1>3 DEF OpSent
  <2>2. \A q \in Problem : OpAnswered(q)' => OpAnswered(q)
    <3>1. OpAnswered(p)' => OpAnswered(p)  BY <1>2 DEF OpAnswered, D
    <3>. QED  BY <1>1, <3>1 DEF OpAnswered
  <2>. QED  BY <2>1, <2>2
<1>6. TypeOK'
  <2>1. \A q \in Problem : \A i \in DOMAIN replies'[q] : replies'[q][i].call.p = q
    <3>1. \A j \in D : replies'[p][j].call.p = p
      <4>1. \A k \in DOMAIN replies[p] : replies[p][k].call.p = p  BY AnswerTypes
      <4>. QED  BY <1>2, <4>1
    <3>2. \A q \in Problem : q # p => \A i \in DOMAIN replies'[q] : replies'[q][i].call.p = q
      BY <1>1 DEF TypeOK
    <3>. QED  BY <3>1, <3>2 DEF D
  <2>. QED  BY <1>1, <2>1 DEF TypeOK
<1>7. OpsInv'
  <2>1. ASSUME NEW c \in sent', IsOp(c)
        PROVE  /\ c.live /\ Tab[c.p] = position /\ ~OpAnswered(c.p)'
               /\ \A d \in sent' : d.p = c.p /\ IsOp(d) => d = c
    <3>1. PICK d \in sent : IsOp(d) /\ d.p = c.p /\ d.live = c.live /\ d.p \in Problem
      BY <1>3, <2>1
    <3>2. d.live /\ Tab[d.p] = position /\ ~OpAnswered(d.p)  BY <3>1 DEF OpsInv
    <3>. QED  BY <1>1, <1>5, <2>1, <3>1, <3>2
  <2>2. ASSUME NEW q \in Problem, NEW i \in DOMAIN replies'[q], IsOp(replies'[q][i].call)
        PROVE  /\ replies'[q][i].call.live /\ Tab[q] = position
               /\ \A j \in DOMAIN replies'[q] : IsOp(replies'[q][j].call) => j = i
    <3>1. CASE q # p  BY <1>1, <2>2, <3>1 DEF OpsInv
    <3>2. CASE q = p
      <4>1. i \in D /\ IsOp(replies[p][i + 1].call) /\ i + 1 \in DOMAIN replies[p]
        BY <1>2, <2>2, <3>2 DEF D
      <4>2. /\ replies[p][i + 1].call.live /\ Tab[p] = position
            /\ \A k \in DOMAIN replies[p] : IsOp(replies[p][k].call) => k = i + 1
        BY <4>1 DEF OpsInv
      <4>3. \A j \in D : IsOp(replies'[p][j].call) => j + 1 = i + 1  BY <1>2, <4>2
      <4>4. \A j \in D : j + 1 = i + 1 => j = i  BY <1>1, <4>1
      <4>. QED  BY <1>2, <3>2, <4>1, <4>2, <4>3, <4>4 DEF D
    <3>. QED  BY <3>1, <3>2
  <2>. QED  BY <2>1, <2>2 DEF OpsInv
<1>8. ButtonsInv'
  <2>. SUFFICES ASSUME NEW q \in Problem \ CodeGraded, OpSent(q)' \/ OpAnswered(q)'
                PROVE  ~view'[q].submit /\ ~view'[q].others
    BY DEF ButtonsInv
  <2>1. q # p
    <3>. SUFFICES ASSUME q = p PROVE FALSE  OBVIOUS
    <3>1. IsOp(e.call)  BY DEF KeysInv
    <3>2. OpAnswered(p)  BY <3>1 DEF OpAnswered
    <3>3. ~OpSent(p)  BY <3>2 DEF OpSent, OpsInv
    <3>4. ~OpAnswered(p)'  BY <1>2, <3>1 DEF OpAnswered, OpsInv, D
    <3>. QED  BY <1>5, <3>3, <3>4
  <2>. QED  BY <1>5, <2>1 DEF ButtonsInv
<1>9. KeysInv'
  <2>1. \A c \in sent' : ~IsOp(c) => c.p \in CodeGraded
    <3>1. \A c \in sent' : ~IsOp(c) => \E d \in sent : ~IsOp(d) /\ d.p = c.p
      BY <1>1 DEF Kept, IsOp
    <3>. QED  BY <3>1 DEF KeysInv
  <2>2. ASSUME NEW q \in Problem, NEW i \in DOMAIN replies'[q]
        PROVE  /\ ~IsOp(replies'[q][i].call) => q \in CodeGraded
               /\ replies'[q][i].reply.kind = "html" /\ is_queued(replies'[q][i].reply.content) =>
                    q \in CodeGraded
    <3>1. CASE q # p  BY <1>1, <3>1 DEF KeysInv
    <3>2. CASE q = p
      <4>1. i \in D  BY <3>2 DEF D
      <4>. QED  BY <1>2, <3>2, <4>1 DEF KeysInv
    <3>. QED  BY <3>1, <3>2
  <2>3. \A q \in Problem : is_queued(latest'[q]) => q \in CodeGraded
    <3>1. is_queued(latest'[p]) => p \in CodeGraded  BY DEF KeysInv, Brings
    <3>. QED  BY <3>1 DEF KeysInv
  <2>4. \A q \in Problem : is_queued(lcp'[q]) => q \in CodeGraded  BY DEF KeysInv
  <2>. QED  BY <2>1, <2>2, <2>3, <2>4 DEF KeysInv
<1>10. LatestInv'
  <2>. SUFFICES ASSUME NEW q \in Problem \ lost
                PROVE  /\ (\A i \in DOMAIN replies'[q] : ~Brings(replies'[q][i])) =>
                            TracksOf(latest'[q], lcp[q])
                       /\ \A i \in DOMAIN replies'[q] :
                            Brings(replies'[q][i]) => TracksOf(replies'[q][i].reply.content, lcp[q])
    BY DEF LatestInv, Tracks
  <2>1. /\ ((\A i \in DOMAIN replies[q] : ~Brings(replies[q][i])) => TracksOf(latest[q], lcp[q]))
        /\ \A i \in DOMAIN replies[q] :
             Brings(replies[q][i]) => TracksOf(replies[q][i].reply.content, lcp[q])
    BY DEF LatestInv, Tracks
  <2>2. CASE q # p  BY <1>1, <2>1, <2>2
  <2>3. CASE q = p
    <3>1. \A j \in D : Brings(replies'[p][j]) => TracksOf(replies'[p][j].reply.content, lcp[p])
      BY <1>2, <2>1, <2>3
    <3>2. CASE Brings(e)  BY <2>1, <2>3, <3>1, <3>2 DEF D
    <3>3. CASE ~Brings(e)
      <4>1. (\A j \in D : ~Brings(replies'[p][j])) => \A k \in DOMAIN replies[p] : ~Brings(replies[p][k])
        <5>. SUFFICES ASSUME NEW k \in DOMAIN replies[p], Brings(replies[p][k])
                      PROVE  \E j \in D : Brings(replies'[p][j])
          OBVIOUS
        <5>1. k # 1  BY <3>3
        <5>2. PICK j \in D : k = j + 1  BY <1>1, <5>1
        <5>3. Brings(replies'[p][j])  BY <1>2, <5>2
        <5>. QED  BY <5>3
      <4>. QED  BY <2>1, <2>3, <3>1, <3>3, <4>1 DEF D
    <3>. QED  BY <3>2, <3>3
  <2>. QED  BY <2>2, <2>3
<1>11. AttemptsInv'
  <2>. SUFFICES ASSUME NEW q \in Problem \ lost PROVE AttemptsOf(q)'
    BY DEF AttemptsInv
  <2>1. AttemptsOf(q)  BY DEF AttemptsInv
  <2>2. CASE q # p  BY <1>1, <2>1, <2>2 DEF AttemptsOf
  <2>3. CASE q = p
    <3>1. AttemptsOf(p)  BY <2>1, <2>3
    <3>2. view'[p].shown.attempts <= lcp[p].attempts  BY <3>1 DEF AttemptsOf
    <3>3. ASSUME NEW j \in D, replies'[p][j].reply.kind = "html"
          PROVE  /\ replies'[p][j].reply.content.attempts <= lcp[p].attempts
                 /\ replies'[p][j].call.live =>
                      view'[p].shown.attempts <= replies'[p][j].reply.content.attempts
                 /\ \A k \in D : k > j /\ replies'[p][k].reply.kind = "html" =>
                      replies'[p][j].reply.content.attempts <= replies'[p][k].reply.content.attempts
      <4>1. /\ j + 1 \in DOMAIN replies[p] /\ j + 1 > 1
            /\ replies[p][j + 1].reply = replies'[p][j].reply
            /\ replies[p][j + 1].call.live = replies'[p][j].call.live
        BY <1>2
      <4>2. replies'[p][j].reply.content.attempts <= lcp[p].attempts
        BY <3>1, <3>3, <4>1 DEF AttemptsOf
      <4>3. replies'[p][j].call.live =>
              view'[p].shown.attempts <= replies'[p][j].reply.content.attempts
        <5>1. CASE view'[p].shown = view[p].shown  BY <3>1, <3>3, <4>1, <5>1 DEF AttemptsOf
        <5>2. CASE /\ replies[p][1].reply.kind = "html" /\ replies[p][1].call.live
                   /\ view'[p].shown = replies[p][1].reply.content
          BY <3>1, <3>3, <4>1, <5>2 DEF AttemptsOf
        <5>. QED  BY <5>1, <5>2
      <4>4. ASSUME NEW k \in D, k > j, replies'[p][k].reply.kind = "html"
            PROVE  replies'[p][j].reply.content.attempts <= replies'[p][k].reply.content.attempts
        <5>1. k + 1 \in DOMAIN replies[p] /\ replies[p][k + 1].reply = replies'[p][k].reply
          BY <1>2
        <5>2. k + 1 > j + 1  BY <1>1, <4>4
        <5>. QED  BY <3>1, <3>3, <4>1, <4>4, <5>1, <5>2 DEF AttemptsOf
      <4>. QED  BY <4>2, <4>3, <4>4
    <3>. QED  BY <2>3, <3>2, <3>3 DEF AttemptsOf, D
  <2>. QED  BY <2>2, <2>3
<1>12. FiniteInv'  BY <1>1 DEF FiniteInv
<1>. QED  BY <1>6, <1>7, <1>8, <1>9, <1>10, <1>11, <1>12

\* A new poller of a code problem joins those there are, and may replace some.
LEMMA PollerRight ==
  ASSUME IInv, NEW p \in CodeGraded, NEW live \in BOOLEAN, NEW m \in 1 .. MaxPolls,
         NEW ts, ts \subseteq timers, timers' = ts \cup {Poller(p, live, m)}
  PROVE  /\ timers' \subseteq Timer /\ IsFiniteSet(timers')
         /\ \A t \in timers' : t.p \in CodeGraded
         /\ NewId \in Nat
<1>1. NewId \in Nat  BY NewIdNat DEF IInv
<1>2. Poller(p, live, m) \in Timer /\ Poller(p, live, m).p = p
  BY <1>1, PageAssumption DEF Poller, Timer
<1>3. IsFiniteSet(timers')  BY FS_Subset, FS_Union, FS_Singleton DEF IInv, FiniteInv
<1>. QED  BY <1>1, <1>2, <1>3 DEF IInv, TypeOK, KeysInv

\* Timers that stay as they are.
LEMMA TimersKept ==
  ASSUME IInv, timers' \subseteq timers
  PROVE  timers' \subseteq Timer /\ IsFiniteSet(timers') /\ \A t \in timers' : t.p \in CodeGraded
  BY FS_Subset DEF IInv, TypeOK, KeysInv, FiniteInv

\* Timers are kept only for problems graded by code.
LEMMA QueueingRight ==
  ASSUME IInv, NEW p \in Problem, NEW live \in BOOLEAN, NEW c,
         is_queued(c) => p \in CodeGraded, queueing(p, live, c)
  PROVE  /\ timers' \subseteq Timer /\ IsFiniteSet(timers')
         /\ \A t \in timers' : t.p \in CodeGraded
         /\ queuePollerID' \in Nat
<1>1. CASE is_queued(c)
  <2>1. 1 \in 1 .. MaxPolls  BY PageAssumption
  <2>2. {t \in timers : t.id # queuePollerID} \subseteq timers  OBVIOUS
  <2>. QED  BY <1>1, <2>1, <2>2, PollerRight DEF queueing
<1>2. CASE ~is_queued(c)
  BY <1>2, TimersKept DEF queueing, IInv, TypeOK
<1>. QED  BY <1>1, <1>2

\* A problem drawn from what the server sent.
LEMMA RenderedType ==
  ASSUME NEW p, NEW c \in Content
  PROVE  Rendered(p, c) \in View /\ Rendered(p, c).shown = c
<1>1. c.answer \in Entry  BY DEF Content
<1>. QED  BY <1>1 DEF Rendered, View, answered, closed

\* What the always callback does to the buttons.
LEMMA AlwaysType ==
  ASSUME NEW v \in View, NEW c \in Call
  PROVE  Always(v, c) \in View /\ Always(v, c).shown = v.shown
<1>1. /\ (v.submit \/ (c.submit /\ ~closed(v.shown))) \in BOOLEAN
      /\ (v.others \/ c.others) \in BOOLEAN
  BY DEF View, Call
<1>. QED  BY <1>1 DEF Always, View

\* The content of a problem arrives and is drawn.
LEMMA ContentInv ==
  ASSUME IInv, NEW p \in Problem, 1 \in DOMAIN replies[p], ContentArrives(p, 1)
  PROVE  IInv'
<1>. DEFINE e == replies[p][1]
            c == e.call
            s == e.reply.content
            v == Always(Rendered(p, s), c)
<1>1. /\ c.op \in {"problem_check", "problem_reset"} /\ e.reply.kind = "html"
      /\ contentChanged(p, c, s) /\ queueing(p, c.live, s)
      /\ UNCHANGED <<lcp, grader, position, lost, moves, clicks>>
      /\ IF c.live THEN view' = [view EXCEPT ![p] = v] /\ Rerendered(p, 1)
         ELSE UNCHANGED view /\ Unrendered(p, 1)
  BY DEF ContentArrives, Handles
<1>2. c \in Call /\ c.live \in BOOLEAN /\ s \in Content
  BY <1>1, AnswerTypes, HtmlContent DEF IInv, Call
<1>3. Brings(e) /\ c.live  BY <1>1 DEF Brings, IsOp, IInv, OpsInv
<1>4. v \in View /\ v.shown = s  BY <1>2, RenderedType, AlwaysType
<1>5. is_queued(s) => p \in CodeGraded  BY <1>1 DEF IInv, KeysInv
<1>6. /\ timers' \subseteq Timer /\ IsFiniteSet(timers')
      /\ \A t \in timers' : t.p \in CodeGraded
      /\ queuePollerID' \in Nat
  BY <1>1, <1>2, <1>5, QueueingRight
<1>. HIDE DEF v
<1>7. /\ view' \in [Problem -> View] /\ \A q \in Problem : q # p => view'[q] = view[q]
      /\ view'[p].shown = s
  BY <1>1, <1>3, <1>4 DEF IInv, TypeOK
<1>8. /\ latest' \in [Problem -> Content] /\ latest'[p] = s
      /\ \A q \in Problem : q # p => latest'[q] = latest[q]
  BY <1>1, <1>2, <1>3 DEF contentChanged, IInv, TypeOK
<1>. QED  BY <1>1, <1>3, <1>6, <1>7, <1>8, HandledInv

\* The answer to a save arrives.
LEMMA SavedInv ==
  ASSUME IInv, NEW p \in Problem, 1 \in DOMAIN replies[p], SavedArrives(p, 1)
  PROVE  IInv'
<1>. DEFINE e == replies[p][1]
            c == e.call
            s == e.reply.content
            v == Always(view[p], c)
<1>1. /\ c.op = "problem_save" /\ e.reply.kind = "html"
      /\ contentChanged(p, c, s)
      /\ UNCHANGED <<lcp, grader, position, lost, moves, clicks, timers, queuePollerID>>
      /\ view' = IF c.live THEN [view EXCEPT ![p] = v] ELSE view
      /\ Unrendered(p, 1)
  BY DEF SavedArrives, Handles
<1>2. c \in Call /\ s \in Content  BY <1>1, AnswerTypes, HtmlContent DEF IInv
<1>3. Brings(e) /\ c.live  BY <1>1 DEF Brings, IsOp, IInv, OpsInv
<1>4. v \in View /\ v.shown = view[p].shown  BY <1>2, AlwaysType DEF IInv, TypeOK
<1>. HIDE DEF v
<1>5. /\ timers' \subseteq Timer /\ IsFiniteSet(timers') /\ \A t \in timers' : t.p \in CodeGraded
      /\ queuePollerID' \in Nat
  BY <1>1, TimersKept DEF IInv, TypeOK
<1>6. /\ view' \in [Problem -> View] /\ \A q \in Problem : q # p => view'[q] = view[q]
      /\ view'[p].shown = view[p].shown
  BY <1>1, <1>3, <1>4 DEF IInv, TypeOK
<1>7. /\ latest' \in [Problem -> Content] /\ latest'[p] = s
      /\ \A q \in Problem : q # p => latest'[q] = latest[q]
  BY <1>1, <1>2, <1>3 DEF contentChanged, IInv, TypeOK
<1>. QED  BY <1>1, <1>3, <1>5, <1>6, <1>7, HandledInv

\* A call is refused or fails.
LEMMA RefusalInv ==
  ASSUME IInv, NEW p \in Problem, 1 \in DOMAIN replies[p],
         RefusalArrives(p, 1) \/ PollFails(p, 1)
  PROVE  IInv'
<1>. DEFINE e == replies[p][1]
            c == e.call
            v == Always(view[p], c)
<1>1. /\ e.reply.kind # "html"
      /\ UNCHANGED <<lcp, grader, position, latest, lost, moves, clicks, timers, queuePollerID>>
      /\ view' = view \/ view' = [view EXCEPT ![p] = v]
      /\ Unrendered(p, 1)
  BY DEF RefusalArrives, PollFails, Handles
<1>2. c \in Call  BY AnswerTypes DEF IInv
<1>3. ~Brings(e)  BY <1>1 DEF Brings
<1>4. v \in View /\ v.shown = view[p].shown  BY <1>2, AlwaysType DEF IInv, TypeOK
<1>. HIDE DEF v
<1>5. /\ timers' \subseteq Timer /\ IsFiniteSet(timers') /\ \A t \in timers' : t.p \in CodeGraded
      /\ queuePollerID' \in Nat
  BY <1>1, TimersKept DEF IInv, TypeOK
<1>6. /\ view' \in [Problem -> View] /\ \A q \in Problem : q # p => view'[q] = view[q]
      /\ view'[p].shown = view[p].shown
  BY <1>1, <1>4 DEF IInv, TypeOK
<1>7. /\ latest' \in [Problem -> Content] /\ latest'[p] = latest[p]
      /\ \A q \in Problem : q # p => latest'[q] = latest[q]
  BY <1>1 DEF IInv, TypeOK
<1>. QED  BY <1>1, <1>3, <1>5, <1>6, <1>7, HandledInv

\* The answer to a poll arrives.
LEMMA PollInv ==
  ASSUME IInv, NEW p \in Problem, 1 \in DOMAIN replies[p], PollArrives(p, 1)
  PROVE  IInv'
<1>. DEFINE e == replies[p][1]
            c == e.call
            s == e.reply.content
            changed == c.live /\ StatusChanged(view[p], s)
            told == c.live /\ is_queued(s) /\ ~Due(c.n)
            now == IF changed THEN Rendered(p, s) ELSE view[p]
            v == [now EXCEPT !.told = @ \/ told]
<1>1. /\ c.op = "problem_get" /\ e.reply.kind = "html"
      /\ UNCHANGED <<lcp, grader, position, latest, lost, moves, clicks>>
      /\ Unrendered(p, 1) \/ Rerendered(p, 1)
      /\ view' = [view EXCEPT ![p] = v]
      /\ IF is_queued(s) /\ Due(c.n)
         THEN timers' = timers \cup {Poller(p, c.live, c.n + 1)} /\ queuePollerID' = NewId
         ELSE UNCHANGED timers /\ queuePollerID' = 0
  BY DEF PollArrives, Handles
<1>2. c \in Call /\ c.live \in BOOLEAN /\ c.n \in 0 .. MaxPolls /\ s \in Content
  BY <1>1, AnswerTypes, HtmlContent DEF IInv, Call
<1>3. ~Brings(e) /\ p \in CodeGraded  BY <1>1 DEF Brings, IsOp, IInv, KeysInv
<1>4. v \in View /\ (v.shown = view[p].shown \/ (c.live /\ v.shown = s))
  <2>1. view[p] \in View  BY DEF IInv, TypeOK
  <2>2. now \in View /\ (now.shown = view[p].shown \/ (c.live /\ now.shown = s))
    <3>1. CASE changed  BY <1>2, <3>1, RenderedType
    <3>2. CASE ~changed  BY <2>1, <3>2
    <3>. QED  BY <3>1, <3>2
  <2>3. told \in BOOLEAN  BY <1>2
  <2>. HIDE DEF now, told
  <2>4. now.told \in BOOLEAN  BY <2>2 DEF View
  <2>5. (now.told \/ told) \in BOOLEAN  OBVIOUS
  <2>. QED  BY <2>2, <2>5 DEF View
<1>5. /\ timers' \subseteq Timer /\ IsFiniteSet(timers') /\ \A t \in timers' : t.p \in CodeGraded
      /\ queuePollerID' \in Nat
  <2>1. CASE is_queued(s) /\ Due(c.n)
    <3>1. c.n + 1 \in 1 .. MaxPolls  BY <1>2, <2>1, PageAssumption DEF Due
    <3>2. timers' = timers \cup {Poller(p, c.live, c.n + 1)} /\ queuePollerID' = NewId
      BY <1>1, <2>1
    <3>. HIDE DEF c, e
    <3>. QED  BY <1>2, <1>3, <3>1, <3>2, PollerRight
  <2>2. CASE ~(is_queued(s) /\ Due(c.n))  BY <1>1, <2>2, TimersKept
  <2>. QED  BY <2>1, <2>2
<1>. HIDE DEF v
<1>6. /\ view' \in [Problem -> View] /\ \A q \in Problem : q # p => view'[q] = view[q]
      /\ view'[p] = v
  BY <1>1, <1>4 DEF IInv, TypeOK
<1>7. /\ latest' \in [Problem -> Content] /\ latest'[p] = latest[p]
      /\ \A q \in Problem : q # p => latest'[q] = latest[q]
  BY <1>1 DEF IInv, TypeOK
<1>. QED  BY <1>1, <1>3, <1>4, <1>5, <1>6, <1>7, HandledInv

\* Any of these callbacks.
LEMMA CallbackInv ==
  ASSUME IInv, Orderly, NEW p \in Problem, NEW i \in DOMAIN replies[p], Callback(p, i)
  PROVE  IInv'
<1>1. Handles(p, i)
  BY DEF Callback, ContentArrives, SavedArrives, RefusalArrives, PollArrives, PollFails
<1>2. i = 1  BY <1>1 DEF Handles, Orderly
<1>. QED  BY <1>2, ContentInv, SavedInv, RefusalInv, PollInv DEF Callback

-----------------------------------------------------------------------------
(* The tabs.                                                               *)

\* A call of an object that is not on the page any more.
LEMMA DetachedType ==
  \A c \in Call : Detached(c) \in Call /\ ~Detached(c).live /\ Detached(c).p = c.p
                  /\ Detached(c).op = c.op
  BY DEF Detached, Call

\* Another tab is opened: nothing is under way but polls, and these are of
\* objects that are not on the page any more.
LEMMA RenderInv ==
  ASSUME IInv, Orderly, NEW pos \in 1 .. NumTabs, NEW ts, ts \subseteq timers, NEW id \in Nat,
         Leaves, Render(pos, ts, id)
  PROVE  IInv' /\ \A p \in Problem \ lost : view'[p].shown.attempts >= view[p].shown.attempts
<1>. USE DEF IInv
<1>. DEFINE E(e) == [e EXCEPT !.call = Detached(@)]
            R == [call : Call, reply : Reply]
            kept == {[t EXCEPT !.live = FALSE] : t \in ts}
<1>1. /\ position' = pos
      /\ view' = [p \in Problem |-> Rendered(p, latest[p])]
      /\ sent' = {Detached(c) : c \in sent}
      /\ replies' = [p \in Problem |-> [j \in DOMAIN replies[p] |-> E(replies[p][j])]]
      /\ moves' = moves + 1
      /\ UNCHANGED <<lcp, grader, latest, lost, clicks>>
  BY DEF Render
<1>2. \A p \in Problem : ~OpSent(p) /\ ~OpAnswered(p)
  <2>. SUFFICES ASSUME NEW p \in Problem PROVE ~OpSent(p) /\ ~OpAnswered(p)  OBVIOUS
  <2>1. CASE Tab[p] = position  BY <2>1, NoOps DEF Leaves
  <2>2. CASE Tab[p] # position  BY <2>2 DEF OpsInv, OpSent, OpAnswered
  <2>. QED  BY <2>1, <2>2
<1>3. \A c \in sent : c \in Call /\ ~IsOp(c) /\ c.p \in Problem
  BY <1>2 DEF TypeOK, Call, OpSent
<1>4. \A p \in Problem : \A i \in DOMAIN replies[p] :
        ~IsOp(replies[p][i].call) /\ ~Brings(replies[p][i])
  BY <1>2 DEF OpAnswered, Brings
<1>5. \A c \in sent' : \E d \in sent : c = Detached(d) /\ c \in Call /\ c.p = d.p /\ ~IsOp(c)
  BY <1>1, <1>3, DetachedType DEF IsOp
<1>6. \A e \in R : /\ E(e) \in R /\ E(e).reply = e.reply /\ ~E(e).call.live
                   /\ E(e).call.p = e.call.p /\ (IsOp(E(e).call) <=> IsOp(e.call))
  <2>. SUFFICES ASSUME NEW e \in R
                PROVE  /\ E(e) \in R /\ E(e).reply = e.reply /\ ~E(e).call.live
                       /\ E(e).call.p = e.call.p /\ (IsOp(E(e).call) <=> IsOp(e.call))
    OBVIOUS
  <2>1. e.call \in Call  OBVIOUS
  <2>2. E(e).reply = e.reply /\ E(e).call = Detached(e.call)  OBVIOUS
  <2>3. E(e) \in R  BY <2>1, DetachedType
  <2>. QED  BY <2>1, <2>2, <2>3, DetachedType DEF IsOp
<1>. HIDE DEF E, R
<1>7. ASSUME NEW p \in Problem
      PROVE  /\ replies'[p] \in Seq(R) /\ DOMAIN replies'[p] = DOMAIN replies[p]
             /\ \A i \in DOMAIN replies[p] :
                  /\ replies'[p][i].reply = replies[p][i].reply
                  /\ ~replies'[p][i].call.live /\ replies'[p][i].call.p = p
                  /\ ~IsOp(replies'[p][i].call)
  <2>. DEFINE s == replies[p]
              t == [j \in DOMAIN s |-> E(s[j])]
  <2>1. s \in Seq(R) /\ \A i \in DOMAIN s : s[i].call.p = p /\ ~IsOp(s[i].call)
    BY <1>4 DEF TypeOK, R
  <2>2. replies'[p] = t  BY <1>1
  <2>. HIDE DEF s
  <2>3. Len(s) \in Nat /\ DOMAIN s = 1 .. Len(s) /\ \A i \in DOMAIN s : s[i] \in R
    BY <2>1, LenProperties, ElementOfSeq
  <2>4. t \in [1 .. Len(s) -> R]  BY <1>6, <2>3
  <2>5. t \in Seq(R)  BY <2>3, <2>4, SeqDef
  <2>6. DOMAIN t = DOMAIN s /\ \A i \in DOMAIN s : t[i] = E(s[i])  OBVIOUS
  <2>. HIDE DEF t
  <2>7. \A i \in DOMAIN s : /\ t[i].reply = s[i].reply /\ ~t[i].call.live
                            /\ t[i].call.p = p /\ ~IsOp(t[i].call)
    BY <1>6, <2>1, <2>3, <2>6
  <2>. QED  BY <2>2, <2>5, <2>6, <2>7 DEF s
<1>8. replies' \in [Problem -> Seq(R)]
  <2>. DEFINE h(p) == [j \in DOMAIN replies[p] |-> E(replies[p][j])]
  <2>1. replies' = [p \in Problem |-> h(p)]  BY <1>1
  <2>2. \A p \in Problem : replies'[p] = h(p)  BY <2>1
  <2>. HIDE DEF h
  <2>3. \A p \in Problem : h(p) \in Seq(R)  BY <1>7, <2>2
  <2>. QED  BY <2>1, <2>3
<1>9. /\ view' \in [Problem -> View] /\ \A p \in Problem : view'[p].shown = latest[p]
  <2>1. \A p \in Problem : Rendered(p, latest[p]) \in View /\ Rendered(p, latest[p]).shown = latest[p]
    BY RenderedType DEF TypeOK
  <2>. QED  BY <1>1, <2>1
<1>10. /\ timers' \subseteq Timer /\ IsFiniteSet(timers') /\ \A t \in timers' : t.p \in CodeGraded
       /\ queuePollerID' \in Nat
  <2>1. /\ kept \subseteq Timer /\ \A t \in kept : t.p \in CodeGraded
    <3>1. \A t \in Timer : [t EXCEPT !.live = FALSE] \in Timer /\ [t EXCEPT !.live = FALSE].p = t.p
      BY DEF Timer
    <3>2. \A t \in ts : t \in Timer /\ t.p \in CodeGraded  BY DEF TypeOK, KeysInv
    <3>. QED  BY <3>1, <3>2
  <2>2. IsFiniteSet(kept)
    <3>. DEFINE g == [t \in ts |-> [t EXCEPT !.live = FALSE]]
    <3>1. g \in Surjection(ts, kept)  BY DEF Surjection
    <3>2. IsFiniteSet(ts)  BY FS_Subset DEF FiniteInv
    <3>. QED  BY <3>1, <3>2, FS_Surjection
  <2>. DEFINE waiting == {p \in Problem : Tab[p] = pos /\ is_queued(latest[p])}
  <2>3. IF waiting = {} THEN timers' = kept /\ queuePollerID' = id
        ELSE \E p \in waiting :
               /\ timers' = {t \in kept : t.id # id} \cup {Poller(p, TRUE, 1)}
               /\ queuePollerID' = NewId
    BY DEF Render
  <2>. HIDE DEF kept
  <2>4. CASE waiting = {}  BY <2>1, <2>2, <2>3, <2>4
  <2>5. CASE waiting # {}
    <3>1. PICK p \in waiting : /\ timers' = {t \in kept : t.id # id} \cup {Poller(p, TRUE, 1)}
                               /\ queuePollerID' = NewId
      BY <2>3, <2>5
    <3>2. p \in Problem /\ p \in CodeGraded  BY DEF KeysInv
    <3>3. NewId \in Nat  BY NewIdNat
    <3>4. Poller(p, TRUE, 1) \in Timer /\ Poller(p, TRUE, 1).p = p
      BY <3>2, <3>3, PageAssumption DEF Poller, Timer
    <3>5. IsFiniteSet({t \in kept : t.id # id})  BY <2>2, FS_Subset
    <3>6. IsFiniteSet(timers')  BY <3>1, <3>5, FS_Union, FS_Singleton
    <3>. QED  BY <2>1, <3>1, <3>2, <3>3, <3>4, <3>6
  <2>. QED  BY <2>4, <2>5
<1>11. TypeOK'
  <2>1. sent' \subseteq Call  BY <1>5
  <2>2. \A p \in Problem : \A i \in DOMAIN replies'[p] : replies'[p][i].call.p = p  BY <1>7
  <2>3. moves' \in 0 .. MaxMoves  BY <1>1, PageAssumption DEF Leaves, TypeOK
  <2>. QED  BY <1>1, <1>8, <1>9, <1>10, <2>1, <2>2, <2>3 DEF TypeOK, R
<1>12. OpsInv' /\ ButtonsInv'
  BY <1>5, <1>7 DEF OpsInv, ButtonsInv, OpSent, OpAnswered
<1>13. KeysInv'
  <2>1. \A c \in sent' : c.p \in CodeGraded  BY <1>3, <1>5 DEF KeysInv
  <2>2. ASSUME NEW p \in Problem, NEW i \in DOMAIN replies'[p]
        PROVE  p \in CodeGraded
    BY <1>4, <1>7 DEF KeysInv
  <2>. QED  BY <1>1, <1>10, <2>1, <2>2 DEF KeysInv
<1>14. \A p \in Problem \ lost : TracksOf(latest[p], lcp[p])  BY <1>4 DEF LatestInv, Tracks
<1>15. LatestInv'
  <2>1. \A p \in Problem : \A i \in DOMAIN replies'[p] : ~Brings(replies'[p][i])
    BY <1>7 DEF Brings
  <2>. QED  BY <1>1, <1>14, <2>1 DEF LatestInv, Tracks
<1>16. AttemptsInv'
  <2>. SUFFICES ASSUME NEW p \in Problem \ lost PROVE AttemptsOf(p)'
    BY <1>1 DEF AttemptsInv
  <2>1. AttemptsOf(p)  BY DEF AttemptsInv
  <2>2. view'[p].shown.attempts = lcp[p].attempts  BY <1>9, <1>14 DEF TracksOf
  <2>3. lcp[p].attempts \in Nat  BY AttemptsNat
  <2>4. /\ DOMAIN replies'[p] = DOMAIN replies[p] /\ lcp' = lcp
        /\ \A i \in DOMAIN replies[p] : /\ replies'[p][i].reply = replies[p][i].reply
                                        /\ ~replies'[p][i].call.live
    <3>1. lcp' = lcp  BY <1>1
    <3>2. /\ DOMAIN replies'[p] = DOMAIN replies[p]
          /\ \A i \in DOMAIN replies[p] : /\ replies'[p][i].reply = replies[p][i].reply
                                          /\ ~replies'[p][i].call.live
      BY <1>7
    <3>. QED  BY <3>1, <3>2
  <2>5. view'[p].shown.attempts <= lcp'[p].attempts  BY <2>2, <2>3, <2>4
  <2>. QED  BY <2>1, <2>4, <2>5 DEF AttemptsOf
<1>17. FiniteInv'
  <2>. DEFINE g == [c \in sent |-> Detached(c)]
  <2>1. g \in [sent -> sent'] /\ \A b \in sent' : \E c \in sent : g[c] = b  BY <1>1
  <2>. HIDE DEF g
  <2>2. g \in Surjection(sent, sent')  BY <2>1 DEF Surjection
  <2>. QED  BY <1>10, <2>2, FS_Surjection DEF FiniteInv
<1>18. \A p \in Problem \ lost : view'[p].shown.attempts >= view[p].shown.attempts
  <2>. SUFFICES ASSUME NEW p \in Problem \ lost
                PROVE  view'[p].shown.attempts >= view[p].shown.attempts
    OBVIOUS
  <2>1. view'[p].shown.attempts = lcp[p].attempts  BY <1>9, <1>14 DEF TracksOf
  <2>2. view[p].shown.attempts <= lcp[p].attempts  BY DEF AttemptsInv, AttemptsOf
  <2>3. view[p].shown.attempts \in Nat /\ lcp[p].attempts \in Nat  BY AttemptsNat
  <2>. QED  BY <2>1, <2>2, <2>3
<1>. QED  BY <1>11, <1>12, <1>13, <1>15, <1>16, <1>17, <1>18

\* Another tab is opened.
LEMMA GotoInv ==
  ASSUME IInv, Orderly, NEW pos \in 1 .. NumTabs, goto(pos)
  PROVE  IInv' /\ \A p \in Problem \ lost : view'[p].shown.attempts >= view[p].shown.attempts
<1>. DEFINE ts == {t \in timers : t.id # queuePollerID}
<1>1. Leaves /\ ts \subseteq timers /\ 0 \in Nat  BY DEF goto
<1>2. CASE pos # position
  <2>1. Render(pos, ts, 0)  BY <1>2 DEF goto
  <2>. HIDE DEF ts
  <2>. QED  BY <1>1, <2>1, RenderInv
<1>3. CASE pos = position
  <2>. USE DEF IInv
  <2>1. /\ timers' \subseteq timers /\ queuePollerID' = 0 /\ moves' = moves + 1
        /\ UNCHANGED <<lcp, grader, position, latest, view, sent, replies, lost, clicks>>
    BY <1>3 DEF goto
  <2>2. TypeOK'
    <3>1. moves' \in 0 .. MaxMoves  BY <1>1, <2>1, PageAssumption DEF Leaves, TypeOK
    <3>. QED  BY <2>1, <3>1 DEF TypeOK
  <2>3. OpsInv' /\ ButtonsInv' /\ LatestInv' /\ AttemptsInv'
    BY <2>1 DEF OpsInv, ButtonsInv, OpSent, OpAnswered, LatestInv, Tracks, AttemptsInv, AttemptsOf
  <2>4. KeysInv' /\ FiniteInv'  BY <2>1, FS_Subset DEF KeysInv, FiniteInv
  <2>5. \A p \in Problem : view'[p].shown.attempts >= view[p].shown.attempts
    BY <2>1, PageAssumption DEF TypeOK, View, Content
  <2>. QED  BY <2>2, <2>3, <2>4, <2>5
<1>. QED  BY <1>2, <1>3

-----------------------------------------------------------------------------
\* A page that was just drawn.
LEMMA InitInv == Init => IInv
<1>. SUFFICES ASSUME Init PROVE IInv  OBVIOUS
<1>1. Untouched \in Content
  <2>1. Blank \in Entry  BY DEF Entry
  <2>. QED  BY <2>1, PageAssumption DEF Untouched, Content
<1>2. lcp = [p \in Problem |-> Untouched] /\ latest = lcp /\ lcp \in [Problem -> Content]
  BY <1>1 DEF Init
<1>3. view \in [Problem -> View] /\ \A p \in Problem : view[p].shown = Untouched
  <2>1. \A p \in Problem : /\ Rendered(p, latest[p]) \in View
                           /\ Rendered(p, latest[p]).shown = Untouched
    BY <1>1, <1>2, RenderedType
  <2>. QED  BY <2>1 DEF Init
<1>4. /\ replies = [p \in Problem |-> <<>>] /\ sent = {} /\ timers = {} /\ grader = {}
      /\ position = 1 /\ queuePollerID = 0 /\ lost = {} /\ moves = 0 /\ clicks = 0
  BY DEF Init
<1>5. \A p \in Problem : DOMAIN replies[p] = {}  BY <1>4
<1>6. TypeOK
  <2>1. replies \in [Problem -> Seq([call : Call, reply : Reply])]  BY <1>4
  <2>. QED  BY <1>2, <1>3, <1>4, <1>5, <2>1, PageAssumption DEF TypeOK
<1>7. OpsInv /\ ButtonsInv  BY <1>4, <1>5 DEF OpsInv, ButtonsInv, OpSent, OpAnswered
<1>8. Untouched.key = 0 /\ ~Untouched.saved /\ Untouched.attempts = 0  BY DEF Untouched
<1>9. KeysInv  BY <1>2, <1>4, <1>5, <1>8 DEF KeysInv, is_queued
<1>10. LatestInv  BY <1>2, <1>5, <1>8 DEF LatestInv, Tracks, TracksOf
<1>11. AttemptsInv  BY <1>2, <1>3, <1>5, <1>8 DEF AttemptsInv, AttemptsOf
<1>12. FiniteInv  BY <1>4, FS_EmptySet DEF FiniteInv
<1>. QED  BY <1>6, <1>7, <1>9, <1>10, <1>11, <1>12 DEF IInv

\* Every step of the learner, the page, the server and the grader preserves
\* IInv.
LEMMA NextInv ==
  ASSUME IInv, Orderly, [Next]_vars
  PROVE  IInv'
<1>1. CASE UNCHANGED vars
  <2>. USE <1>1 DEF vars, IInv
  <2>1. TypeOK'  BY DEF TypeOK
  <2>2. OpsInv' /\ ButtonsInv'  BY DEF OpsInv, ButtonsInv, OpSent, OpAnswered
  <2>3. KeysInv' /\ FiniteInv'  BY DEF KeysInv, FiniteInv
  <2>4. LatestInv'  BY DEF LatestInv, Tracks
  <2>5. AttemptsInv'  BY DEF AttemptsInv, AttemptsOf
  <2>. QED  BY <2>1, <2>2, <2>3, <2>4, <2>5
<1>2. ASSUME NEW c \in sent, Serve(c) \/ Lose(c) PROVE IInv'
  BY <1>2, ServeInv, LoseInv
<1>3. ASSUME NEW g \in grader, GraderReplies(g) PROVE IInv'
  BY <1>3, GraderInv
<1>4. ASSUME NEW p \in Problem, NEW a \in Entry, Type(p, a) PROVE IInv'
  BY <1>4, TypeInv
<1>5. ASSUME NEW p \in Problem, submit(p) \/ save(p) \/ reset(p) PROVE IInv'
  BY <1>5, ClickInv
<1>6. ASSUME NEW p \in Problem, NEW i \in DOMAIN replies[p], Callback(p, i) PROVE IInv'
  BY <1>6, CallbackInv
<1>7. ASSUME NEW t \in timers, TimerFires(t) PROVE IInv'
  BY <1>7, TimerInv
<1>8. ASSUME NEW pos \in 1 .. NumTabs, goto(pos) PROVE IInv'
  BY <1>8, GotoInv
<1>9. ASSUME NEW pos \in 1 .. NumTabs, _change_sequential(pos) PROVE IInv'
  <2>1. queuePollerID \in Nat  BY DEF IInv, TypeOK
  <2>. QED  BY <1>9, <2>1, RenderInv DEF _change_sequential
<1>10. CASE Next
  <2>1. CASE \E c \in sent : Serve(c) \/ Lose(c)  BY <1>2, <2>1
  <2>2. CASE \E g \in grader : GraderReplies(g)  BY <1>3, <2>2
  <2>3. CASE \E p \in Problem : \/ \E a \in Entry : Type(p, a)
                                \/ submit(p)
                                \/ save(p)
                                \/ reset(p)
                                \/ \E i \in DOMAIN replies[p] : Callback(p, i)
    BY <1>4, <1>5, <1>6, <2>3
  <2>4. CASE \E t \in timers : TimerFires(t)  BY <1>7, <2>4
  <2>5. CASE \E pos \in 1 .. NumTabs : goto(pos) \/ _change_sequential(pos)  BY <1>8, <1>9, <2>5
  <2>. QED  BY <1>10, <2>1, <2>2, <2>3, <2>4, <2>5 DEF Next
<1>. QED  BY <1>1, <1>10

\* What a callback shows is of no earlier attempt.
LEMMA CallbackForward ==
  ASSUME IInv, Orderly, NEW q \in Problem, NEW i \in DOMAIN replies[q], Callback(q, i),
         NEW p \in Problem \ lost
  PROVE  view'[p].shown.attempts >= view[p].shown.attempts
<1>. DEFINE e == replies[q][i]
            s == e.reply.content
<1>1. view[p].shown.attempts \in Nat /\ view[q].shown.attempts \in Nat
  BY AttemptsNat DEF IInv
<1>2. e.call \in Call /\ e.reply \in Reply  BY AnswerTypes DEF IInv
<1>3. \/ view' = view
      \/ \E v : view' = [view EXCEPT ![q] = v] /\
           \/ v.shown = view[q].shown
           \/ e.reply.kind = "html" /\ e.call.live /\ v.shown = s
  <2>1. CASE ContentArrives(q, i)
    <3>1. s \in Content  BY <1>2, <2>1, HtmlContent DEF ContentArrives
    <3>2. Rendered(q, s) \in View /\ Rendered(q, s).shown = s  BY <3>1, RenderedType
    <3>3. Always(Rendered(q, s), e.call).shown = s  BY <1>2, <3>2, AlwaysType
    <3>. QED  BY <2>1, <3>3 DEF ContentArrives
  <2>2. CASE SavedArrives(q, i) \/ RefusalArrives(q, i)
    <3>1. view[q] \in View  BY DEF IInv, TypeOK
    <3>2. Always(view[q], e.call).shown = view[q].shown  BY <1>2, <3>1, AlwaysType
    <3>3. view' \in {view, [view EXCEPT ![q] = Always(view[q], e.call)]}
      BY <2>2 DEF SavedArrives, RefusalArrives
    <3>. QED  BY <3>2, <3>3
  <2>3. CASE PollArrives(q, i)
    <3>. DEFINE changed == e.call.live /\ StatusChanged(view[q], s)
                now == IF changed THEN Rendered(q, s) ELSE view[q]
                v == [now EXCEPT !.told = @ \/ (e.call.live /\ is_queued(s) /\ ~Due(e.call.n))]
    <3>1. view' = [view EXCEPT ![q] = v] /\ e.reply.kind = "html"
      BY <2>3 DEF PollArrives
    <3>2. s \in Content  BY <1>2, <3>1, HtmlContent
    <3>3. now \in View /\ (now.shown = view[q].shown \/ (e.call.live /\ now.shown = s))
      <4>1. CASE changed  BY <3>2, <4>1, RenderedType
      <4>2. CASE ~changed  BY <4>2 DEF IInv, TypeOK
      <4>. QED  BY <4>1, <4>2
    <3>. HIDE DEF now
    <3>4. v.shown = now.shown  BY <3>3 DEF View
    <3>. HIDE DEF v
    <3>. QED  BY <3>1, <3>3, <3>4
  <2>4. CASE PollFails(q, i)  BY <2>4 DEF PollFails
  <2>. QED  BY <2>1, <2>2, <2>3, <2>4 DEF Callback
<1>4. CASE q # p  BY <1>1, <1>3, <1>4 DEF IInv, TypeOK
<1>5. CASE q = p
  <2>1. e.reply.kind = "html" /\ e.call.live => s.attempts >= view[p].shown.attempts
    <3>1. e.reply.kind = "html" => s.attempts \in Nat
      BY <1>2, HtmlContent, PageAssumption DEF Content
    <3>. QED  BY <1>1, <1>5, <3>1 DEF IInv, AttemptsInv, AttemptsOf
  <2>. QED  BY <1>1, <1>3, <1>5, <2>1 DEF IInv, TypeOK
<1>. QED  BY <1>4, <1>5

\* What the page shows of a problem is never older than it was.
LEMMA NextForward ==
  ASSUME IInv, Orderly, [Next]_vars, NEW p \in Problem \ lost
  PROVE  view'[p].shown.attempts >= view[p].shown.attempts
<1>1. view \in [Problem -> View] /\ view[p].shown.attempts \in Nat
  BY AttemptsNat DEF IInv, TypeOK
<1>2. CASE UNCHANGED view  BY <1>1, <1>2
<1>3. ASSUME NEW q \in Problem, NEW v, view' = [view EXCEPT ![q] = v], v.shown = view[q].shown
      PROVE  view'[p].shown.attempts >= view[p].shown.attempts
  <2>1. view'[p].shown = view[p].shown  BY <1>1, <1>3
  <2>. QED  BY <1>1, <2>1
<1>4. ASSUME NEW q \in Problem, NEW a \in Entry, Type(q, a)
      PROVE  view'[p].shown.attempts >= view[p].shown.attempts
  <2>1. view[q] \in View  BY <1>1
  <2>2. \A r \in View : \A b : [r EXCEPT !.input = a, !.submit = b].shown = r.shown
    BY DEF View
  <2>3. \E b : view' = [view EXCEPT ![q] = [view[q] EXCEPT !.input = a, !.submit = b]]
    BY <1>1, <1>4, <2>1 DEF Type, View
  <2>. QED  BY <1>3, <2>1, <2>2, <2>3
<1>5. ASSUME NEW q \in Problem, submit(q) \/ save(q) \/ reset(q)
      PROVE  view'[p].shown.attempts >= view[p].shown.attempts
  <2>1. view' = [view EXCEPT ![q] = Disabled(view[q])]  BY <1>5 DEF submit, save, reset, Click
  <2>2. Disabled(view[q]).shown = view[q].shown  BY <1>1 DEF Disabled, View
  <2>. QED  BY <1>3, <2>1, <2>2
<1>6. ASSUME NEW q \in Problem, NEW i \in DOMAIN replies[q], Callback(q, i)
      PROVE  view'[p].shown.attempts >= view[p].shown.attempts
  BY <1>6, CallbackForward
<1>7. ASSUME NEW pos \in 1 .. NumTabs, goto(pos) \/ _change_sequential(pos)
      PROVE  view'[p].shown.attempts >= view[p].shown.attempts
  <2>1. queuePollerID \in Nat  BY DEF IInv, TypeOK
  <2>. QED  BY <1>7, <2>1, GotoInv, RenderInv DEF _change_sequential
<1>8. (\E c \in sent : Serve(c) \/ Lose(c)) => UNCHANGED view  BY DEF Serve, Lose, Respond
<1>9. (\E g \in grader : GraderReplies(g)) \/ (\E t \in timers : TimerFires(t)) => UNCHANGED view
  BY DEF GraderReplies, TimerFires
<1>. QED  BY <1>2, <1>4, <1>5, <1>6, <1>7, <1>8, <1>9 DEF Next, vars

\* If the learner waits for answers and these come in order, the inductive
\* invariant holds of every behaviour of the courseware page (display.js),
\* whatever calls are lost.
THEOREM Invariant ==
  ASSUME Orderly
  PROVE  Spec => []IInv
<1>1. IInv /\ [Next]_vars => IInv'  BY NextInv
<1>. QED  BY <1>1, InitInv, PTL DEF Spec

\* The problems of the server and of the page, the calls and the timers keep
\* their types, for any problems, tabs, attempts and polls.
THEOREM TypeCorrect ==
  ASSUME Orderly
  PROVE  Spec => []TypeOK
<1>1. IInv => TypeOK  BY DEF IInv
<1>. QED  BY <1>1, Invariant, PTL

\* The buttons of a problem start one operation at a time: what
\* disableAllButtonsWhileRunning has disabled stays so until its .always(),
\* whatever polls render in between.
THEOREM OneOperationAtATime ==
  ASSUME Orderly
  PROVE  Spec => []OneOperation
<1>1. IInv => OneOperation
  <2>. SUFFICES ASSUME IInv, NEW p \in Problem PROVE Cardinality(Running(p)) <= 1
    BY DEF OneOperation
  <2>1. ASSUME NEW c \in Running(p), NEW d \in Running(p) PROVE c = d
    <3>1. ASSUME NEW b \in Running(p)
          PROVE  /\ b.p = p /\ IsOp(b)
                 /\ b \in sent \/ \E i \in DOMAIN replies[p] : b = replies[p][i].call
      <4>1. b \in Pending /\ b.p = p /\ IsOp(b)  BY <3>1 DEF Running, IsOp
      <4>2. CASE b \in sent  BY <4>1, <4>2
      <4>3. ASSUME NEW q \in Problem, b \in Answered(q)
            PROVE  \E i \in DOMAIN replies[p] : b = replies[p][i].call
        <5>1. PICK i \in DOMAIN replies[q] : b = replies[q][i].call  BY <4>3 DEF Answered, Range
        <5>2. q = p  BY <4>1, <5>1, AnswerTypes DEF IInv
        <5>. QED  BY <5>1, <5>2
      <4>. QED  BY <4>1, <4>2, <4>3 DEF Pending
    <3>2. \A b \in sent : b.p = p /\ IsOp(b) =>
            ~OpAnswered(p) /\ \A e \in sent : e.p = p /\ IsOp(e) => e = b
      BY DEF IInv, OpsInv
    <3>3. CASE c \in sent  BY <3>1, <3>2, <3>3 DEF OpAnswered
    <3>4. CASE c \notin sent
      <4>1. PICK i \in DOMAIN replies[p] : c = replies[p][i].call  BY <3>1, <3>4
      <4>2. OpAnswered(p) /\ IsOp(c)  BY <3>1, <4>1 DEF OpAnswered
      <4>3. d \notin sent  BY <3>1, <3>2, <4>2
      <4>4. PICK j \in DOMAIN replies[p] : d = replies[p][j].call  BY <3>1, <4>3
      <4>5. IsOp(d)  BY <3>1
      <4>6. j = i  BY <4>1, <4>2, <4>4, <4>5 DEF IInv, OpsInv
      <4>. QED  BY <4>1, <4>4, <4>6
    <3>. QED  BY <3>3, <3>4
  <2>2. CASE Running(p) = {}  BY <2>2, FS_EmptySet
  <2>3. CASE Running(p) # {}
    <3>1. PICK c : c \in Running(p)  BY <2>3
    <3>2. Running(p) = {c}  BY <2>1, <3>1
    <3>3. Cardinality({c}) = 1  BY FS_Singleton
    <3>. QED  BY <3>2, <3>3
  <2>. QED  BY <2>2, <2>3
<1>. QED  BY <1>1, Invariant, PTL

\* A tab that is opened again shows what has become of its problems: every
\* operation has told the sequence of its outcome (contentChanged), unless it
\* is under way or a call was lost.
THEOREM LatestStaysCurrent ==
  ASSUME Orderly
  PROVE  Spec => []LatestIsCurrent
<1>1. IInv => LatestIsCurrent
  <2>. SUFFICES ASSUME IInv, NEW p \in Problem \ lost, Running(p) = {}
                PROVE  /\ Agrees(latest[p], p)
                       /\ lcp[p].saved => latest[p].answer = lcp[p].answer
    BY DEF LatestIsCurrent
  <2>1. ASSUME NEW i \in DOMAIN replies[p] PROVE ~IsOp(replies[p][i].call)
    <3>. SUFFICES ASSUME IsOp(replies[p][i].call) PROVE FALSE  OBVIOUS
    <3>1. replies[p][i].call.live /\ replies[p][i].call.p = p
      BY AnswerTypes DEF IInv, OpsInv
    <3>2. replies[p][i].call \in Pending  BY DEF Pending, Answered, Range
    <3>. QED  BY <3>1, <3>2 DEF Running, IsOp
  <2>2. TracksOf(latest[p], lcp[p])  BY <2>1 DEF IInv, LatestInv, Brings, Tracks
  <2>. QED  BY <2>2 DEF TracksOf, Agrees
<1>. QED  BY <1>1, Invariant, PTL

\* The page never goes back to an earlier attempt: neither an answer that
\* comes late (poll, submit_internal) nor a tab that is opened again
\* (Sequence.render) brings one.
THEOREM NeverGoesBack ==
  ASSUME Orderly
  PROVE  Spec => NeverOlder
<1>1. IInv /\ [Next]_vars =>
        [\A p \in Problem \ lost : view'[p].shown.attempts >= view[p].shown.attempts]_vars
  BY NextForward
<1>. QED  BY <1>1, Invariant, PTL DEF Spec, NeverOlder
-----------------------------------------------------------------------------
(***************************************************************************)
(* Polling.  A problem on the page that waits for the grader has a timer   *)
(* or a call of the Problem object on the page: queueing() replaces the    *)
(* timer that window.queuePollerID names by one of its own, and the dead   *)
(* pollers of tabs that were left never stop a live one.                   *)
(***************************************************************************)

\* Two problems of one tab would share window.queuePollerID.
OneCodeProblem == \A p, q \in CodeGraded : Tab[p] = Tab[q] => p = q

PollSent(p) == \E c \in sent : c.p = p /\ c.live /\ ~IsOp(c)
PollAnswered(p) ==
  \E i \in DOMAIN replies[p] : replies[p][i].call.live /\ ~IsOp(replies[p][i].call)
TimerOf(p) == \E t \in timers : t.p = p /\ t.live

Awaited(p) == TimerOf(p) \/ PollSent(p) \/ PollAnswered(p)

PollsSucceed(p) ==
  \A i \in DOMAIN replies[p] : ~IsOp(replies[p][i].call) => replies[p][i].reply.kind = "html"

ShowsQueue(p) == is_queued(view[p].shown)

PolledInv ==
  /\ \A p \in Problem : ShowsQueue(p) => p \in CodeGraded
  /\ \A p \in Problem \ lost :
       /\ PollsSucceed(p)
       /\ OnPage(p) /\ ShowsQueue(p) => Awaited(p) \/ view[p].told

\* A step that tells no problem less of its grading.
LEMMA PollsKept ==
  ASSUME PolledInv, position' = position, lost \subseteq lost',
         \A p \in Problem : view'[p].shown = view[p].shown /\ view'[p].told = view[p].told,
         \A p \in Problem \ lost' : PollsSucceed(p) => PollsSucceed(p)',
         \A p \in Problem \ lost' : Awaited(p) => Awaited(p)'
  PROVE  PolledInv'
  BY DEF PolledInv, ShowsQueue, OnPage

\* The answer of the server to a poll has the state of the problem.
LEMMA PollIsAnswered ==
  ASSUME NEW c \in Call, ~IsOp(c), NEW o \in handle_ajax(c)
  PROVE  o[2].kind = "html"
<1>1. c.op = "problem_get"  BY DEF IsOp
<1>2. o = <<lcp[c.p], Html(lcp[c.p])>>  BY <1>1 DEF handle_ajax, get_problem
<1>. QED  BY <1>2, HtmlContent

\* A call that is answered is still under way.
LEMMA RespondPolls ==
  ASSUME IInv, NEW c \in sent, NEW r \in Reply, Respond(c, r)
  PROVE  /\ \A q \in Problem : Awaited(q) => Awaited(q)'
         /\ \A q \in Problem : PollsSucceed(q) /\ (q = c.p => IsOp(c) \/ r.kind = "html")
              => PollsSucceed(q)'
<1>. DEFINE R == [call : Call, reply : Reply]
            e == [call |-> c, reply |-> r]
<1>1. c \in Call /\ c.p \in Problem /\ replies \in [Problem -> Seq(R)]  BY DEF IInv, TypeOK, Call
<1>2. e \in R  BY <1>1
<1>3. /\ sent' = sent \ {c} /\ replies' = [replies EXCEPT ![c.p] = Append(@, e)]
      /\ timers' = timers
  BY DEF Respond
<1>. PICK s : s = replies[c.p]  OBVIOUS
<1>4. s \in Seq(R) /\ e.call = c /\ e.reply = r  BY <1>1
<1>. HIDE DEF e, R
<1>5. /\ Len(s) \in Nat /\ DOMAIN s = 1 .. Len(s)
      /\ DOMAIN Append(s, e) = 1 .. Len(s) + 1
      /\ \A i \in 1 .. Len(s) : Append(s, e)[i] = s[i]
      /\ Append(s, e)[Len(s) + 1] = e
  BY <1>2, <1>4, AppendProperties, LenProperties
<1>6. /\ \A i \in 1 .. Len(s) : i \in 1 .. Len(s) + 1
      /\ Len(s) + 1 \in 1 .. Len(s) + 1
      /\ \A i \in 1 .. Len(s) + 1 : i \in 1 .. Len(s) \/ i = Len(s) + 1
  BY <1>5
<1>7. /\ \A q \in Problem : q # c.p => replies'[q] = replies[q]
      /\ replies'[c.p] = Append(s, e)
  BY <1>1, <1>3
<1>8. ASSUME NEW q \in Problem, Awaited(q) PROVE Awaited(q)'
  <2>1. TimerOf(q) => TimerOf(q)'  BY <1>3 DEF TimerOf
  <2>2. PollAnswered(q) => PollAnswered(q)'
    <3>1. CASE q # c.p  BY <1>7, <3>1 DEF PollAnswered
    <3>2. CASE q = c.p
      <4>. SUFFICES ASSUME NEW i \in DOMAIN replies[q], replies[q][i].call.live,
                           ~IsOp(replies[q][i].call)
                    PROVE  PollAnswered(q)'
        BY DEF PollAnswered
      <4>1. i \in 1 .. Len(s) /\ replies[q][i] = s[i]  BY <1>5, <3>2
      <4>2. i \in DOMAIN replies'[q] /\ replies'[q][i] = replies[q][i]
        BY <1>5, <1>6, <1>7, <3>2, <4>1
      <4>. QED  BY <4>2 DEF PollAnswered, IsOp
    <3>. QED  BY <3>1, <3>2
  <2>3. PollSent(q) => PollSent(q)' \/ PollAnswered(q)'
    <3>. SUFFICES ASSUME NEW d \in sent, d.p = q, d.live, ~IsOp(d)
                  PROVE  PollSent(q)' \/ PollAnswered(q)'
      BY DEF PollSent
    <3>1. CASE d # c  BY <1>3, <3>1 DEF PollSent, IsOp
    <3>2. CASE d = c
      <4>1. Len(s) + 1 \in DOMAIN replies'[q] /\ replies'[q][Len(s) + 1].call = d
        BY <1>4, <1>5, <1>6, <1>7, <3>2
      <4>. QED  BY <4>1 DEF PollAnswered, IsOp
    <3>. QED  BY <3>1, <3>2
  <2>. QED  BY <1>8, <2>1, <2>2, <2>3 DEF Awaited
<1>9. ASSUME NEW q \in Problem, PollsSucceed(q), q = c.p => IsOp(c) \/ r.kind = "html"
      PROVE  PollsSucceed(q)'
  <2>1. CASE q # c.p  BY <1>7, <1>9, <2>1 DEF PollsSucceed
  <2>2. CASE q = c.p
    <3>. SUFFICES ASSUME NEW i \in DOMAIN replies'[q], ~IsOp(replies'[q][i].call)
                  PROVE  replies'[q][i].reply.kind = "html"
      BY DEF PollsSucceed, IsOp
    <3>1. i \in 1 .. Len(s) + 1 /\ replies'[q][i] = Append(s, e)[i]  BY <1>5, <1>7, <2>2
    <3>2. CASE i \in 1 .. Len(s)
      <4>1. replies'[q][i] = s[i] /\ s = replies[q] /\ i \in DOMAIN replies[q]
        BY <1>5, <2>2, <3>1, <3>2
      <4>. QED  BY <1>9, <4>1 DEF PollsSucceed
    <3>3. CASE i = Len(s) + 1
      <4>1. replies'[q][i] = e  BY <1>5, <3>1, <3>3
      <4>. QED  BY <1>4, <1>9, <2>2, <4>1
    <3>. QED  BY <1>6, <3>1, <3>2, <3>3
  <2>. QED  BY <2>1, <2>2
<1>. QED  BY <1>8, <1>9

\* Serving a request, or losing it: the poll of a problem that has not lost
\* one comes back with its state.
LEMMA ServePolls ==
  ASSUME IInv, PolledInv, NEW c \in sent, Serve(c) \/ Lose(c)
  PROVE  PolledInv'
<1>1. c \in Call  BY DEF IInv, TypeOK
<1>2. PICK r \in Reply : /\ Respond(c, r)
                         /\ lost \subseteq lost'
                         /\ c.p \in lost' \/ IsOp(c) \/ r.kind = "html"
  <2>1. CASE Serve(c)
    <3>1. PICK o \in handle_ajax(c) : Respond(c, o[2]) /\ UNCHANGED lost
      BY <2>1 DEF Serve
    <3>2. o[2] \in Reply /\ (IsOp(c) \/ o[2].kind = "html")
      BY <1>1, HandledRight, PollIsAnswered DEF IInv
    <3>. QED  BY <3>1, <3>2
  <2>2. CASE Lose(c)  BY <2>2, HtmlContent DEF Lose
  <2>. QED  BY <2>1, <2>2
<1>3. position' = position /\ view' = view  BY <1>2 DEF Respond
<1>. QED  BY <1>2, <1>3, RespondPolls, PollsKept

\* What the callback of the first answer of p leaves of the polls.
LEMMA CallbackPolls ==
  ASSUME IInv, NEW p \in Problem, 1 \in DOMAIN replies[p],
         Unrendered(p, 1) \/ Rerendered(p, 1)
  PROVE  /\ \A q \in Problem : PollSent(q) => PollSent(q)'
         /\ \A q \in Problem : PollAnswered(q) =>
              PollAnswered(q)' \/ (/\ q = p /\ replies[p][1].call.live
                                   /\ ~IsOp(replies[p][1].call))
         /\ \A q \in Problem : PollsSucceed(q) => PollsSucceed(q)'
<1>1. /\ \A q \in Problem : q # p => replies'[q] = replies[q]
      /\ DOMAIN replies'[p] \subseteq Nat
      /\ \A j \in DOMAIN replies'[p] :
           /\ j + 1 \in DOMAIN replies[p]
           /\ replies'[p][j].reply = replies[p][j + 1].reply
           /\ Kept(replies'[p][j].call, replies[p][j + 1].call)
      /\ \A k \in DOMAIN replies[p] : k # 1 => \E j \in DOMAIN replies'[p] : k = j + 1
  BY CallsLeft
<1>2. \A c \in sent : \E d \in sent' : Kept(d, c)
  <2>. SUFFICES ASSUME NEW c \in sent PROVE \E d \in sent' : Kept(d, c)  OBVIOUS
  <2>1. c \in Call /\ Kept(c, c)  BY DEF IInv, TypeOK, Kept
  <2>2. CASE Unrendered(p, 1)  BY <2>1, <2>2 DEF Unrendered
  <2>3. CASE Rerendered(p, 1)
    <3>1. (IF c.p = p THEN Redrawn(c) ELSE c) \in sent'  BY <2>3 DEF Rerendered
    <3>2. Kept(Redrawn(c), c)  BY <2>1, RedrawnKept
    <3>. QED  BY <2>1, <3>1, <3>2
  <2>. QED  BY <2>2, <2>3
<1>3. ASSUME NEW q \in Problem, PollSent(q) PROVE PollSent(q)'
  BY <1>2, <1>3 DEF PollSent, Kept, IsOp
<1>4. ASSUME NEW q \in Problem, PollAnswered(q),
             ~(q = p /\ replies[p][1].call.live /\ ~IsOp(replies[p][1].call))
      PROVE  PollAnswered(q)'
  <2>1. CASE q # p  BY <1>1, <1>4, <2>1 DEF PollAnswered
  <2>2. CASE q = p
    <3>1. PICK k \in DOMAIN replies[p] : /\ replies[p][k].call.live /\ ~IsOp(replies[p][k].call)
      BY <1>4, <2>2 DEF PollAnswered
    <3>2. k # 1  BY <1>4, <2>2, <3>1
    <3>3. PICK j \in DOMAIN replies'[p] : k = j + 1  BY <1>1, <3>1, <3>2
    <3>4. Kept(replies'[p][j].call, replies[p][k].call)  BY <1>1, <3>3
    <3>. QED  BY <2>2, <3>1, <3>4 DEF PollAnswered, Kept, IsOp
  <2>. QED  BY <2>1, <2>2
<1>5. ASSUME NEW q \in Problem, PollsSucceed(q) PROVE PollsSucceed(q)'
  <2>1. CASE q # p  BY <1>1, <1>5, <2>1 DEF PollsSucceed
  <2>2. CASE q = p
    <3>. SUFFICES ASSUME NEW j \in DOMAIN replies'[p], ~IsOp(replies'[p][j].call)
                  PROVE  replies'[p][j].reply.kind = "html"
      BY <2>2 DEF PollsSucceed, IsOp
    <3>1. ~IsOp(replies[p][j + 1].call)  BY <1>1 DEF Kept, IsOp
    <3>. QED  BY <1>1, <1>5, <2>2, <3>1 DEF PollsSucceed
  <2>. QED  BY <2>1, <2>2
<1>. QED  BY <1>3, <1>4, <1>5

\* The callback of an operation that renders nothing, or of a poll that
\* failed and so belongs to a problem that has lost a call.
LEMMA QuietPolls ==
  ASSUME IInv, PolledInv, NEW p \in Problem, 1 \in DOMAIN replies[p],
         SavedArrives(p, 1) \/ RefusalArrives(p, 1) \/ PollFails(p, 1)
  PROVE  PolledInv'
<1>. PICK c : c = replies[p][1].call  OBVIOUS
<1>1. c \in Call /\ view[p] \in View /\ view \in [Problem -> View]
  BY AnswerTypes DEF IInv, TypeOK
<1>2. /\ Unrendered(p, 1) /\ UNCHANGED <<position, timers, lost>>
      /\ view' \in {view, [view EXCEPT ![p] = Always(view[p], c)]}
      /\ IsOp(c) \/ PollFails(p, 1)
  BY DEF SavedArrives, RefusalArrives, PollFails, Handles, IsOp
<1>3. Always(view[p], c).shown = view[p].shown /\ Always(view[p], c).told = view[p].told
  BY <1>1 DEF Always, View
<1>4. \A q \in Problem : view'[q].shown = view[q].shown /\ view'[q].told = view[q].told
  BY <1>1, <1>2, <1>3
<1>5. p \in lost \/ IsOp(c)
  <2>1. CASE PollFails(p, 1)
    <3>1. ~IsOp(c) /\ replies[p][1].reply.kind # "html"  BY <2>1 DEF PollFails, IsOp
    <3>. QED  BY <3>1 DEF PolledInv, PollsSucceed
  <2>. QED  BY <1>2, <2>1
<1>6. \A q \in Problem \ lost' : Awaited(q) => Awaited(q)'
  <2>1. \A q \in Problem : TimerOf(q) => TimerOf(q)'  BY <1>2 DEF TimerOf
  <2>. QED  BY <1>2, <1>5, <2>1, CallbackPolls DEF Awaited
<1>7. \A q \in Problem \ lost' : PollsSucceed(q) => PollsSucceed(q)'
  BY <1>2, CallbackPolls
<1>. QED  BY <1>2, <1>4, <1>6, <1>7, PollsKept

\* A step at p on the page: the other problems are shown as they were, and
\* do not lose their pollers, or p is the only one of its tab to have one.
LEMMA OthersPolls ==
  ASSUME IInv, PolledInv, NEW p \in Problem, 1 \in DOMAIN replies[p],
         Unrendered(p, 1) \/ Rerendered(p, 1), UNCHANGED <<position, lost>>,
         \A q \in Problem : q # p => view'[q] = view[q],
         \A q \in Problem : q # p /\ OnPage(q) /\ ShowsQueue(q) => (TimerOf(q) => TimerOf(q)'),
         ShowsQueue(p)' => p \in CodeGraded,
         p \notin lost /\ OnPage(p) /\ ShowsQueue(p)' => Awaited(p)' \/ view'[p].told
  PROVE  PolledInv'
<1>1. ASSUME NEW q \in Problem PROVE ShowsQueue(q)' => q \in CodeGraded
  BY DEF PolledInv, ShowsQueue
<1>2. ASSUME NEW q \in Problem \ lost PROVE PollsSucceed(q)'
  BY CallbackPolls DEF PolledInv
<1>3. ASSUME NEW q \in Problem \ lost, OnPage(q), ShowsQueue(q)'
      PROVE  Awaited(q)' \/ view'[q].told
  <2>1. CASE q # p
    <3>1. ShowsQueue(q) /\ view'[q].told = view[q].told  BY <1>3, <2>1 DEF ShowsQueue
    <3>2. Awaited(q) \/ view[q].told  BY <1>3, <3>1 DEF PolledInv
    <3>3. Awaited(q) => Awaited(q)'  BY <1>3, <2>1, <3>1, CallbackPolls DEF Awaited
    <3>. QED  BY <3>1, <3>2, <3>3
  <2>. QED  BY <1>3, <2>1
<1>. QED  BY <1>1, <1>2, <1>3 DEF PolledInv, OnPage

\* What an operation brings is rendered, and polled if it waits (queueing):
\* the timer that has to give way belongs to nobody on the page but p.
LEMMA ContentPolls ==
  ASSUME IInv, PolledInv, OneCodeProblem, NEW p \in Problem, 1 \in DOMAIN replies[p],
         ContentArrives(p, 1)
  PROVE  PolledInv'
<1>. PICK e : e = replies[p][1]  OBVIOUS
<1>. PICK c, s : c = e.call /\ s = e.reply.content  OBVIOUS
<1>1. /\ e.reply.kind = "html" /\ IsOp(c) /\ UNCHANGED <<position, lost>>
      /\ IF c.live THEN view' = [view EXCEPT ![p] = Always(Rendered(p, s), c)] /\ Rerendered(p, 1)
         ELSE UNCHANGED view /\ Unrendered(p, 1)
      /\ queueing(p, c.live, s)
  BY DEF ContentArrives, Handles, IsOp
<1>2. c \in Call /\ s \in Content  BY <1>1, AnswerTypes, HtmlContent DEF IInv
<1>3. c.live /\ Tab[p] = position  BY <1>1 DEF IInv, OpsInv
<1>4. Always(Rendered(p, s), c).shown = s  BY <1>2, RenderedType, AlwaysType
<1>5. view'[p].shown = s /\ \A q \in Problem : q # p => view'[q] = view[q]
  BY <1>1, <1>3, <1>4 DEF IInv, TypeOK
<1>6. is_queued(s) => p \in CodeGraded  BY <1>1 DEF IInv, KeysInv
<1>7. ASSUME NEW q \in Problem, q # p, OnPage(q), ShowsQueue(q), TimerOf(q)
      PROVE  TimerOf(q)'
  <2>1. q \in CodeGraded  BY <1>7 DEF PolledInv
  <2>2. ~is_queued(s)  BY <1>3, <1>6, <1>7, <2>1 DEF OneCodeProblem, OnPage
  <2>. QED  BY <1>1, <1>7, <2>2 DEF queueing, TimerOf
<1>8. is_queued(s) => TimerOf(p)'
  <2>1. is_queued(s) => Poller(p, TRUE, 1) \in timers'  BY <1>1, <1>2, <1>3 DEF queueing, Call
  <2>. QED  BY <2>1 DEF Poller, TimerOf
<1>9. Rerendered(p, 1)  BY <1>1, <1>3
<1>10. ShowsQueue(p)' <=> is_queued(s)  BY <1>5 DEF ShowsQueue
<1>. QED  BY <1>1, <1>5, <1>6, <1>7, <1>8, <1>9, <1>10, OthersPolls DEF Awaited

\* A poll ends the wait, or the next one is due, or the learner is told; a
\* poll of a Problem object that is not on the page stops nobody's.
LEMMA PollPolls ==
  ASSUME IInv, PolledInv, NEW p \in Problem, 1 \in DOMAIN replies[p], PollArrives(p, 1)
  PROVE  PolledInv'
<1>. PICK e : e = replies[p][1]  OBVIOUS
<1>. PICK c, s : c = e.call /\ s = e.reply.content  OBVIOUS
<1>. DEFINE changed == c.live /\ StatusChanged(view[p], s)
            told == c.live /\ is_queued(s) /\ ~Due(c.n)
            now == IF changed THEN Rendered(p, s) ELSE view[p]
            v == [now EXCEPT !.told = @ \/ told]
<1>1. /\ e.reply.kind = "html" /\ ~IsOp(c) /\ UNCHANGED <<position, lost>>
      /\ Unrendered(p, 1) \/ Rerendered(p, 1)
      /\ view' = [view EXCEPT ![p] = v]
      /\ timers \subseteq timers'
      /\ is_queued(s) /\ Due(c.n) => Poller(p, c.live, c.n + 1) \in timers'
  BY DEF PollArrives, Handles, IsOp
<1>2. c \in Call /\ s \in Content /\ view[p] \in View
  BY <1>1, AnswerTypes, HtmlContent DEF IInv, TypeOK
<1>3. p \in CodeGraded  BY <1>1 DEF IInv, KeysInv
<1>4. now \in View /\ (changed => now.shown = s) /\ (~changed => now = view[p])
  <2>1. CASE changed  BY <1>2, <2>1, RenderedType
  <2>2. CASE ~changed  BY <1>2, <2>2
  <2>. QED  BY <2>1, <2>2
<1>. HIDE DEF now
<1>5. v.shown = now.shown /\ (v.told <=> now.told \/ told)  BY <1>4 DEF View
<1>. HIDE DEF v
<1>6. view'[p] = v /\ \A q \in Problem : q # p => view'[q] = view[q]
  BY <1>1 DEF IInv, TypeOK
<1>7. \A q \in Problem : TimerOf(q) => TimerOf(q)'  BY <1>1 DEF TimerOf
<1>8. ASSUME p \notin lost, OnPage(p), ShowsQueue(p)'
      PROVE  Awaited(p)' \/ view'[p].told
  <2>1. is_queued(now.shown)  BY <1>5, <1>6, <1>8 DEF ShowsQueue
  <2>2. CASE c.live
    <3>1. is_queued(s)  BY <1>4, <2>1, <2>2 DEF StatusChanged
    <3>2. CASE Due(c.n)
      <4>1. Poller(p, c.live, c.n + 1) \in timers'  BY <1>1, <3>1, <3>2
      <4>. QED  BY <2>2, <4>1 DEF Poller, TimerOf, Awaited
    <3>3. CASE ~Due(c.n)  BY <1>5, <1>6, <2>2, <3>1, <3>3
    <3>. QED  BY <3>2, <3>3
  <2>3. CASE ~c.live
    <3>1. ShowsQueue(p) /\ now = view[p]  BY <1>4, <2>1, <2>3 DEF ShowsQueue
    <3>2. Awaited(p) \/ view[p].told  BY <1>8, <3>1 DEF PolledInv
    <3>3. Awaited(p) => Awaited(p)'  BY <1>1, <1>7, <2>3, CallbackPolls DEF Awaited
    <3>. QED  BY <1>5, <1>6, <3>1, <3>2, <3>3
  <2>. QED  BY <2>2, <2>3
<1>. QED  BY <1>1, <1>3, <1>6, <1>7, <1>8, OthersPolls

\* A tab is opened: the one problem of it that waits, if any, gets a timer.
LEMMA RenderPolls ==
  ASSUME IInv, PolledInv, OneCodeProblem, NEW pos, NEW ts, NEW id, Render(pos, ts, id)
  PROVE  PolledInv'
<1>. DEFINE waiting == {p \in Problem : Tab[p] = pos /\ is_queued(latest[p])}
            E(e) == [e EXCEPT !.call = Detached(@)]
<1>1. /\ position' = pos /\ lost' = lost
      /\ view' = [p \in Problem |-> Rendered(p, latest[p])]
      /\ replies' = [p \in Problem |-> [j \in DOMAIN replies[p] |-> E(replies[p][j])]]
      /\ waiting # {} => \E q \in waiting : Poller(q, TRUE, 1) \in timers'
  BY DEF Render
<1>2. \A p \in Problem : view'[p].shown = latest[p] /\ (is_queued(latest[p]) => p \in CodeGraded)
  BY <1>1, RenderedType DEF IInv, TypeOK, KeysInv
<1>3. \A p \in Problem : ShowsQueue(p)' => p \in CodeGraded  BY <1>2 DEF ShowsQueue
<1>4. ASSUME NEW p \in Problem \ lost PROVE PollsSucceed(p)'
  <2>. SUFFICES ASSUME NEW j \in DOMAIN replies'[p], ~IsOp(replies'[p][j].call)
                PROVE  replies'[p][j].reply.kind = "html"
    BY DEF PollsSucceed, IsOp
  <2>1. j \in DOMAIN replies[p] /\ replies'[p][j] = E(replies[p][j])  BY <1>1
  <2>. PICK s : s = replies[p]  OBVIOUS
  <2>2. replies[p][j] \in [call : Call, reply : Reply]
    <3>1. s \in Seq([call : Call, reply : Reply])  BY DEF IInv, TypeOK
    <3>2. j \in 1 .. Len(s)  BY <2>1, <3>1, LenProperties
    <3>. QED  BY <3>1, <3>2, ElementOfSeq
  <2>3. /\ E(replies[p][j]).reply = replies[p][j].reply
        /\ E(replies[p][j]).call = Detached(replies[p][j].call)
    BY <2>2
  <2>4. ~IsOp(replies[p][j].call)  BY <2>1, <2>2, <2>3, DetachedType DEF IsOp
  <2>. QED  BY <2>1, <2>3, <2>4 DEF PolledInv, PollsSucceed
<1>5. ASSUME NEW p \in Problem \ lost, Tab[p] = pos, ShowsQueue(p)'
      PROVE  Awaited(p)'
  <2>1. p \in waiting  BY <1>2, <1>5 DEF ShowsQueue
  <2>2. PICK q \in waiting : Poller(q, TRUE, 1) \in timers'  BY <1>1, <2>1
  <2>3. q = p  BY <1>2, <2>1, <2>2 DEF OneCodeProblem
  <2>. QED  BY <2>2, <2>3 DEF Poller, TimerOf, Awaited
<1>. QED  BY <1>1, <1>3, <1>4, <1>5 DEF PolledInv, OnPage

\* Every step keeps the problems that wait polled.
LEMMA NextPolls ==
  ASSUME IInv, PolledInv, Orderly, OneCodeProblem, "reopen" \notin Allows, [Next]_vars
  PROVE  PolledInv'
<1>1. ASSUME UNCHANGED <<position, lost, replies>>, sent \subseteq sent',
             \A p \in Problem : view'[p].shown = view[p].shown /\ view'[p].told = view[p].told,
             \A p \in Problem : TimerOf(p) => TimerOf(p)' \/ PollSent(p)'
      PROVE  PolledInv'
  <2>1. ASSUME NEW p \in Problem PROVE PollSent(p) => PollSent(p)'
    BY <1>1 DEF PollSent, IsOp
  <2>2. ASSUME NEW p \in Problem PROVE PollAnswered(p) => PollAnswered(p)'
    BY <1>1 DEF PollAnswered, IsOp
  <2>3. ASSUME NEW p \in Problem PROVE PollsSucceed(p) => PollsSucceed(p)'
    BY <1>1 DEF PollsSucceed, IsOp
  <2>. QED  BY <1>1, <2>1, <2>2, <2>3, PollsKept DEF Awaited
<1>. DEFINE Same == \A p \in Problem : view'[p].shown = view[p].shown /\ view'[p].told = view[p].told
<1>2. timers' = timers => \A p \in Problem : TimerOf(p) => TimerOf(p)'  BY DEF TimerOf
<1>3. UNCHANGED vars => PolledInv'  BY <1>1, <1>2 DEF vars
<1>4. ASSUME NEW g \in grader, GraderReplies(g) PROVE PolledInv'
  BY <1>1, <1>2, <1>4 DEF GraderReplies
<1>5. ASSUME NEW p \in Problem, NEW a \in Entry, Type(p, a) PROVE PolledInv'
  <2>1. view \in [Problem -> View]  BY DEF IInv, TypeOK
  <2>2. PICK b : view' = [view EXCEPT ![p] = [view[p] EXCEPT !.input = a, !.submit = b]]
    BY <1>5, <2>1 DEF Type, View
  <2>3. \A r \in View : \A b1 : /\ [r EXCEPT !.input = a, !.submit = b1].shown = r.shown
                                /\ [r EXCEPT !.input = a, !.submit = b1].told = r.told
    BY DEF View
  <2>4. Same  BY <2>1, <2>2, <2>3
  <2>. QED  BY <1>1, <1>2, <1>5, <2>4 DEF Type
<1>6. ASSUME NEW p \in Problem, submit(p) \/ save(p) \/ reset(p) PROVE PolledInv'
  <2>1. PICK op : Click(p, op)  BY <1>6 DEF submit, save, reset
  <2>2. view \in [Problem -> View]  BY DEF IInv, TypeOK
  <2>3. Disabled(view[p]).shown = view[p].shown /\ Disabled(view[p]).told = view[p].told
    BY <2>2 DEF Disabled, View
  <2>4. Same  BY <2>1, <2>2, <2>3 DEF Click
  <2>. QED  BY <1>1, <1>2, <2>1, <2>4 DEF Click
<1>7. ASSUME NEW t \in timers, TimerFires(t) PROVE PolledInv'
  <2>1. PICK c : /\ c.p = t.p /\ c.live = t.live /\ c.op = "problem_get"
                 /\ sent' = sent \cup {c}
    BY <1>7 DEF TimerFires
  <2>2. timers' = timers \ {t}  BY <1>7 DEF TimerFires
  <2>3. ASSUME NEW p \in Problem, TimerOf(p) PROVE TimerOf(p)' \/ PollSent(p)'
    <3>1. PICK u \in timers : u.p = p /\ u.live  BY <2>3 DEF TimerOf
    <3>2. CASE u = t  BY <2>1, <3>1, <3>2 DEF PollSent, IsOp
    <3>3. CASE u # t  BY <2>2, <3>1, <3>3 DEF TimerOf
    <3>. QED  BY <3>2, <3>3
  <2>. QED  BY <1>1, <1>7, <2>1, <2>3 DEF TimerFires
<1>8. ASSUME NEW p \in Problem, NEW i \in DOMAIN replies[p], Callback(p, i) PROVE PolledInv'
  <2>1. Handles(p, i)
    BY <1>8 DEF Callback, ContentArrives, SavedArrives, RefusalArrives, PollArrives, PollFails
  <2>2. i = 1  BY <2>1 DEF Handles, Orderly
  <2>. QED  BY <1>8, <2>2, ContentPolls, QuietPolls, PollPolls DEF Callback
<1>9. ASSUME NEW pos \in 1 .. NumTabs, goto(pos) \/ _change_sequential(pos) PROVE PolledInv'
  <2>1. PICK ts, id : Render(pos, ts, id)  BY <1>9 DEF goto, _change_sequential
  <2>. QED  BY <2>1, RenderPolls
<1>. QED  BY <1>3, <1>4, <1>5, <1>6, <1>7, <1>8, <1>9, ServePolls DEF Next

\* A problem the page shows as waiting for the external grader is polled, or
\* the learner was told to refresh: queueing(), poll() and Sequence.render
\* leave no such problem without a poller, if each tab has one code problem
\* at most and the tab that is open is not clicked (display.js clears the
\* poller then).
THEOREM QueuedProblemsArePolled ==
  ASSUME Orderly, OneCodeProblem, "reopen" \notin Allows
  PROVE  Spec => []QueuedIsPolled
<1>1. Init => PolledInv
  <2>. SUFFICES ASSUME Init PROVE PolledInv  OBVIOUS
  <2>1. IInv  BY InitInv
  <2>2. \A p \in Problem : view[p].shown = latest[p]
    BY <2>1, RenderedType DEF Init, IInv, TypeOK
  <2>3. \A p \in Problem : ~is_queued(latest[p])  BY DEF Init, is_queued, Untouched
  <2>4. \A p \in Problem : ~ShowsQueue(p)  BY <2>2, <2>3 DEF ShowsQueue
  <2>5. \A p \in Problem : PollsSucceed(p)  BY DEF Init, PollsSucceed
  <2>. QED  BY <2>4, <2>5 DEF PolledInv
<1>2. IInv /\ PolledInv /\ [Next]_vars => PolledInv'  BY NextPolls
<1>3. IInv /\ PolledInv => QueuedIsPolled
  <2>. SUFFICES ASSUME IInv, PolledInv, NEW p \in Problem \ lost, OnPage(p),
                       is_queued(view[p].shown), ~view[p].told
                PROVE  Polled(p)
    BY DEF QueuedIsPolled
  <2>1. Awaited(p)  BY DEF PolledInv, ShowsQueue
  <2>2. CASE TimerOf(p)  BY <2>2 DEF TimerOf, Polled
  <2>3. CASE PollSent(p)
    <3>1. PICK c \in sent : c.p = p /\ c.live /\ ~IsOp(c)  BY <2>3 DEF PollSent
    <3>. QED  BY <3>1 DEF Polled, Pending, IsOp
  <2>4. CASE PollAnswered(p)
    <3>1. PICK i \in DOMAIN replies[p] : replies[p][i].call.live /\ ~IsOp(replies[p][i].call)
      BY <2>4 DEF PollAnswered
    <3>2. replies[p][i].call.p = p  BY <3>1, AnswerTypes DEF IInv
    <3>3. replies[p][i].call \in Pending  BY <3>1 DEF Pending, Answered, Range
    <3>. QED  BY <3>1, <3>2, <3>3 DEF Polled, IsOp
  <2>. QED  BY <2>1, <2>2, <2>3, <2>4 DEF Awaited
<1>. QED  BY <1>1, <1>2, <1>3, Invariant, PTL DEF Spec
=============================================================================
