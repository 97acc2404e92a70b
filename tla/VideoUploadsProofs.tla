------------------------- MODULE VideoUploadsProofs -------------------------
(***************************************************************************)
(* Theorems about VideoUploads: types, and, as long as uploads do not go   *)
(* on while the browser asks whether to leave, that no status update says  *)
(* otherwise than an earlier one, what is left behind, and that every file *)
(* is in one of the stages of its upload, so that failures are shown and   *)
(* completed uploads are listed.                                           *)
(***************************************************************************)
EXTENDS VideoUploads, FiniteSetTheorems, SequenceTheorems, TLAPS

\* Taking an element out of a sequence keeps its elements in their set.
LEMMA RemoveAtType ==
  ASSUME NEW S, NEW s \in Seq(S), NEW i \in DOMAIN s
  PROVE  RemoveAt(s, i) \in Seq(S)
  BY DEF RemoveAt

\* Without its first element a sequence is one shorter, each of the others
\* one place nearer.
LEMMA RemoveHeadAt ==
  ASSUME NEW S, NEW s \in Seq(S), s # <<>>
  PROVE  /\ RemoveAt(s, 1) \in Seq(S)
         /\ Len(RemoveAt(s, 1)) = Len(s) - 1
         /\ \A k \in 1..(Len(s) - 1) : RemoveAt(s, 1)[k] = s[k + 1]
<1>1. Len(s) \in Nat /\ Len(s) >= 1  OBVIOUS
<1>2. /\ 0 \in Int /\ 1 \in Int /\ 2 \in Int /\ Len(s) \in Int
      /\ \A i \in 1..0 : s[i] \in S
      /\ \A i \in 2..Len(s) : s[i] \in S
  BY <1>1
<1>. PICK a, b : a = SubSeq(s, 1, 0) /\ b = SubSeq(s, 2, Len(s))  OBVIOUS
<1>3. a \in Seq(S) /\ Len(a) = 0
  <2>1. a = <<>>  BY <1>2, SubSeqEmpty
  <2>. QED  BY <2>1
<1>4. /\ b \in Seq(S) /\ Len(b) = Len(s) - 1
      /\ \A k \in 1..(Len(s) - 1) : b[k] = s[k + 1]
  <2>1. /\ b \in Seq(S)
        /\ Len(b) = IF 2 <= Len(s) THEN Len(s) - 2 + 1 ELSE 0
    BY <1>2, SubSeqProperties
  <2>2. \A k \in 1..(Len(s) - 2 + 1) : b[k] = s[2 + k - 1]
    BY <1>2, SubSeqProperties
  <2>3. Len(b) = Len(s) - 1
    <3>1. CASE 2 <= Len(s)  BY <1>1, <2>1, <3>1
    <3>2. CASE ~(2 <= Len(s))
      <4>1. \A n \in Nat : n >= 1 /\ ~(2 <= n) => n - 1 = 0  OBVIOUS
      <4>2. Len(s) - 1 = 0  BY <1>1, <3>2, <4>1, Zenon
      <4>3. Len(b) = 0  BY <2>1, <3>2, Zenon
      <4>. QED  BY <4>2, <4>3, Zenon
    <3>. QED  BY <3>1, <3>2
  <2>4. \A k \in 1..(Len(s) - 1) : 2 + k - 1 = k + 1
    BY <1>1
  <2>5. Len(s) - 2 + 1 = Len(s) - 1
    BY <1>1
  <2>6. \A k \in 1..(Len(s) - 1) : b[k] = s[k + 1]
    BY <2>2, <2>4, <2>5, Zenon
  <2>. QED  BY <2>1, <2>3, <2>6
<1>5. RemoveAt(s, 1) = a \o b
  <2>1. 1 - 1 = 0 /\ 1 + 1 = 2  OBVIOUS
  <2>2. RemoveAt(s, 1) = SubSeq(s, 1, 1 - 1) \o SubSeq(s, 1 + 1, Len(s))
    BY Zenon DEF RemoveAt
  <2>. QED  BY <2>1, <2>2, Zenon
<1>6. /\ a \o b \in Seq(S)
      /\ Len(a \o b) = Len(a) + Len(b)
      /\ \A k \in 1..(Len(a) + Len(b)) :
            (a \o b)[k] = IF k <= Len(a) THEN a[k] ELSE b[k - Len(a)]
  BY <1>3, <1>4, ConcatProperties, Zenon
<1>. PICK c : c = a \o b  OBVIOUS
<1>7. /\ c \in Seq(S) /\ Len(c) = Len(s) - 1
      /\ \A k \in 1..(Len(s) - 1) : c[k] = s[k + 1]
  BY <1>1, <1>3, <1>4, <1>6
<1>. QED  BY <1>5, <1>7, Zenon

\* The rows once v has one, with what is in it.
LEMMA WithType ==
  ASSUME TypeOK, NEW v \in Video, NEW r \in Row
  PROVE  /\ With(v, r) \in [Listed \cup {v} -> Row]
         /\ DOMAIN With(v, r) = Listed \cup {v}
         /\ Listed \cup {v} \subseteq Video
  BY DEF With, TypeOK, Listed

\* addUploadFailureView draws a row.
LEMMA FailureRowType == FailureRow \in Row
  BY DEF FailureRow, Row

\* What the end of a PUT does to puts, slots and rows.
LEMMA SlotsType ==
  ASSUME TypeOK, NEW v \in Listed, NEW rs \in [Listed -> Row], Slots(v, rs),
         \A i \in DOMAIN slots : slots[i] \in Listed
  PROVE  /\ puts' \subseteq Video
         /\ slots' \in Seq(Video)
         /\ DOMAIN rows' = Listed
         /\ rows' \in [Listed -> Row]
<1>1. CASE slots = <<>>
  BY <1>1 DEF Slots, TypeOK, Listed
<1>2. CASE slots # <<>>
  <2>1. slots \in Seq(Video) /\ Head(slots) = slots[1] /\ 1 \in DOMAIN slots
    BY <1>2 DEF TypeOK
  <2>2. slots[1] \in Listed /\ Tail(slots) \in Seq(Video)
    BY <2>1, <1>2
  <2>3. /\ puts' = (puts \ {v}) \cup {slots[1]} /\ slots' = Tail(slots)
        /\ rows' = [rs EXCEPT ![slots[1]].status = "uploading"]
    BY <1>2, <2>1 DEF Slots
  <2>4. [rs[slots[1]] EXCEPT !.status = "uploading"] \in Row
    <3>1. rs[slots[1]] \in Row  BY <2>2
    <3>2. \A r \in Row : [r EXCEPT !.status = "uploading"] \in Row  BY DEF Row
    <3>. QED  BY <3>1, <3>2
  <2>5. DOMAIN rows' = Listed /\ rows' \in [Listed -> Row]
    BY <2>2, <2>3, <2>4
  <2>6. puts \subseteq Video /\ Listed \subseteq Video  BY DEF TypeOK
  <2>. QED  BY <2>2, <2>3, <2>5, <2>6
<1>. QED  BY <1>1, <1>2

(***************************************************************************)
(* The inductive invariant: an upload has been told of, or is being told   *)
(* of once, or nobody can yet tell of it but the one that holds it: a      *)
(* request for its URL, the queue of the plugin or its PUT.                *)
(***************************************************************************)

\* A status update of v is on its way to the server.
Telling(v) == \E p \in posts : ~p.served /\ v \in p.videos

Untold(v) == server[v] \notin Ends /\ ~Telling(v)

\* Nothing is known of a file that was not chosen.
FreshInv == \A v \in Video \ chosen : server[v] = Absent /\ v \notin Listed /\ ~Telling(v)

AsksInv ==
  \A a \in asks : /\ a.video \in chosen \ Listed
                  /\ server[a.video] = (IF a.answer = "url" THEN "upload" ELSE Absent)
                  /\ ~Telling(a.video)
                  /\ \A b \in asks : b.video = a.video => b = a

SlotsInv ==
  /\ \A i \in DOMAIN slots :
       slots[i] \in Listed /\ rows[slots[i]].status = "queued" /\ Untold(slots[i])
  /\ \A i, j \in DOMAIN slots : slots[i] = slots[j] => i = j

PutsInv == \A v \in puts : v \in Listed /\ rows[v].status = "uploading" /\ Untold(v)

PostsInv ==
  \A p \in posts : \A v \in p.videos :
    IF p.served THEN server[v] = "upload_completed"
    ELSE server[v] \notin Ends /\ \A q \in posts : ~q.served /\ v \in q.videos => q = p

\* As long as the page is there, what counts as uploading has a PUT, and
\* while the browser asks, it is just what is marked.
UploadingInv ==
  /\ page # "left" => \A v \in Listed : uploading(rows[v]) => v \in puts
  /\ page = "asking" => \A v \in Listed : rows[v].uploading = uploading(rows[v])
  /\ page = "left" => puts = {}

\* What failed, and what was uploading when the page was left, is told of.
ToldInv ==
  \A v \in Listed :
    rows[v].status = "failed" \/ (page = "left" /\ uploading(rows[v])) =>
      server[v] # "upload" \/ Telling(v) \/ lost

IInv == /\ TypeOK /\ FreshInv /\ AsksInv /\ SlotsInv /\ PutsInv /\ PostsInv
        /\ UploadingInv /\ ToldInv
-----------------------------------------------------------------------------
(* One lemma per action: it preserves the inductive invariant.             *)

\* A page that was just drawn.
LEMMA InitInv == Init => IInv
<1>. SUFFICES ASSUME Init PROVE IInv  OBVIOUS
<1>1. DOMAIN rows = {} /\ rows \in [{} -> Row]  BY DEF Init
<1>2. slots = <<>> /\ gets = <<>> /\ DOMAIN slots = {}  BY DEF Init
<1>3. TypeOK
  <2>1. previous \in [Video -> Statuses] /\ server \in [Video -> Statuses]
    BY DEF Init, Statuses
  <2>2. slots \in Seq(Video) /\ gets \in Seq(Get)  BY <1>2
  <2>. QED  BY <1>1, <2>1, <2>2 DEF Init, TypeOK, Listed
<1>4. FreshInv /\ AsksInv /\ SlotsInv /\ PutsInv /\ PostsInv
  BY <1>1, <1>2 DEF Init, FreshInv, AsksInv, SlotsInv, PutsInv, PostsInv, Telling, Listed
<1>5. UploadingInv /\ ToldInv  BY <1>1 DEF Init, UploadingInv, ToldInv, Listed
<1>. QED  BY <1>3, <1>4, <1>5 DEF IInv

\* Nothing happens.
LEMMA StutterInv == IInv /\ UNCHANGED vars => IInv'
  BY DEF vars, IInv, TypeOK, FreshInv, AsksInv, SlotsInv, PutsInv, PostsInv, UploadingInv,
         ToldInv, Untold, Telling, Listed, uploading

\* A failed row for a file nobody tells of: it is new, or its request ends.
LEMMA FailureViewInv ==
  ASSUME IInv, NEW v \in chosen' \ Listed, addUploadFailureView(v), ~Telling(v),
         server[v] # "upload" \/ lost', chosen' \in {chosen, chosen \cup {v}},
         v \in Video, lost' \in BOOLEAN, lost => lost',
         asks' \subseteq asks, \A a \in asks' : a.video # v,
         UNCHANGED <<page, puts, slots, posts, gets, previous, server>>
  PROVE  IInv'
<1>. USE DEF IInv
<1>1. rows' = With(v, FailureRow)  BY DEF addUploadFailureView
<1>2. DOMAIN rows' = Listed \cup {v} /\ rows' \in [Listed \cup {v} -> Row]
  BY <1>1, WithType, FailureRowType
<1>3. \A w \in Listed : rows'[w] = rows[w]  BY <1>1 DEF With
<1>4. rows'[v].status = "failed" /\ rows'[v].uploading = FALSE  BY <1>1 DEF With, FailureRow
<1>5. TypeOK'  BY <1>2 DEF TypeOK, Listed
<1>6. FreshInv'  BY <1>2 DEF FreshInv, Telling, Listed
<1>7. AsksInv'  BY <1>2 DEF AsksInv, Telling, Listed
<1>8. SlotsInv'  BY <1>2, <1>3 DEF SlotsInv, Untold, Telling, Listed
<1>9. PutsInv'  BY <1>2, <1>3 DEF PutsInv, Untold, Telling, Listed
<1>10. PostsInv'  BY DEF PostsInv
<1>11. UploadingInv'  BY <1>2, <1>3, <1>4 DEF UploadingInv, uploading, Listed
<1>12. ToldInv'
  BY <1>2, <1>3, <1>4 DEF ToldInv, Telling, uploading, Listed
<1>. QED  BY <1>5, <1>6, <1>7, <1>8, <1>9, <1>10, <1>11, <1>12

\* A file is chosen: its server is asked, or it is refused.
LEMMA AddInv ==
  ASSUME IInv, NEW v \in Video, fileUploadAdd(v)
  PROVE  IInv'
<1>. USE DEF IInv
<1>1. /\ v \notin chosen /\ v \notin Listed /\ server[v] = Absent /\ ~Telling(v)
      /\ chosen' = chosen \cup {v}
      /\ UNCHANGED <<page, puts, slots, posts, gets, previous, server, lost>>
  BY DEF fileUploadAdd, FreshInv
<1>2. CASE addUploadFailureView(v) /\ UNCHANGED asks
  <2>1. \A a \in asks : a.video # v  BY <1>1 DEF AsksInv
  <2>. QED  BY <1>1, <1>2, <2>1, FailureViewInv DEF Absent, TypeOK
<1>3. CASE asks' = asks \cup {[video |-> v, answer |-> "none"]} /\ UNCHANGED rows
  <2>1. TypeOK'  BY <1>1, <1>3 DEF TypeOK, Listed, Ask
  <2>2. FreshInv'  BY <1>1, <1>3 DEF FreshInv, Telling, Listed
  <2>3. AsksInv'  BY <1>1, <1>3 DEF AsksInv, Telling, Listed
  <2>4. (SlotsInv /\ PutsInv /\ PostsInv /\ UploadingInv /\ ToldInv)'
    BY <1>1, <1>3 DEF SlotsInv, PutsInv, PostsInv, UploadingInv, ToldInv, Untold, Telling, Listed,
                      uploading
  <2>. QED  BY <2>1, <2>2, <2>3, <2>4
<1>. QED  BY <1>2, <1>3 DEF fileUploadAdd

\* The server answers the request for a place to upload to.
LEMMA PostInv ==
  ASSUME IInv, NEW a \in asks, videos_post(a)
  PROVE  IInv'
<1>. USE DEF IInv
<1>1. /\ a \in Ask /\ a.answer = "none" /\ a.video \in chosen \ Listed /\ a.video \in Video
      /\ server[a.video] = Absent /\ ~Telling(a.video)
  BY DEF videos_post, AsksInv, TypeOK, Ask
<1>2. UNCHANGED <<page, chosen, rows, puts, slots, posts, gets, previous, lost>>
  BY DEF videos_post
<1>3. PICK b \in Ask : /\ asks' = (asks \ {a}) \cup {b} /\ b.video = a.video
                       /\ \/ b.answer = "url" /\ server' = [server EXCEPT ![a.video] = "upload"]
                          \/ b.answer = "error" /\ UNCHANGED server
  <2>1. [a EXCEPT !.answer = "url"] \in Ask /\ [a EXCEPT !.answer = "error"] \in Ask
    BY <1>1 DEF Ask
  <2>2. /\ [a EXCEPT !.answer = "url"].answer = "url" /\ [a EXCEPT !.answer = "error"].answer = "error"
        /\ [a EXCEPT !.answer = "url"].video = a.video /\ [a EXCEPT !.answer = "error"].video = a.video
    BY <1>1 DEF Ask
  <2>3. CASE /\ server' = [server EXCEPT ![a.video] = "upload"]
             /\ asks' = (asks \ {a}) \cup {[a EXCEPT !.answer = "url"]}
    BY <2>1, <2>2, <2>3
  <2>4. CASE /\ asks' = (asks \ {a}) \cup {[a EXCEPT !.answer = "error"]}
             /\ UNCHANGED server
    BY <2>1, <2>2, <2>4
  <2>. QED  BY <2>3, <2>4 DEF videos_post
<1>4. /\ server' \in [Video -> Statuses]
      /\ \A w \in Video : w # a.video => server'[w] = server[w]
      /\ server'[a.video] = IF b.answer = "url" THEN "upload" ELSE Absent
  BY <1>1, <1>3 DEF TypeOK, Statuses
<1>5. \A w : Telling(w)' <=> Telling(w)  BY <1>2 DEF Telling
<1>6. TypeOK'  BY <1>2, <1>3, <1>4 DEF TypeOK, Listed
<1>7. FreshInv'  BY <1>1, <1>2, <1>4, <1>5 DEF FreshInv, Listed
<1>8. AsksInv'
  BY <1>1, <1>2, <1>3, <1>4, <1>5 DEF AsksInv, Listed, TypeOK, Ask
<1>9. SlotsInv'  BY <1>1, <1>2, <1>4, <1>5 DEF SlotsInv, Untold, Listed, TypeOK
<1>10. PutsInv'  BY <1>1, <1>2, <1>4, <1>5 DEF PutsInv, Untold, Listed, TypeOK
<1>11. PostsInv'
  <2>. SUFFICES ASSUME NEW p \in posts, NEW w \in p.videos
                PROVE  IF p.served THEN server'[w] = "upload_completed"
                       ELSE /\ server'[w] \notin Ends
                            /\ \A q \in posts : ~q.served /\ w \in q.videos => q = p
    BY <1>2 DEF PostsInv
  <2>1. w \in Video  BY DEF TypeOK, Post
  <2>2. w # a.video  BY <1>1 DEF PostsInv, Telling, Absent
  <2>. QED  BY <2>1, <2>2, <1>4 DEF PostsInv
<1>12. UploadingInv'  BY <1>2 DEF UploadingInv, Listed, uploading
<1>13. ToldInv'  BY <1>1, <1>2, <1>4, <1>5 DEF ToldInv, Listed, uploading, TypeOK
<1>. QED  BY <1>6, <1>7, <1>8, <1>9, <1>10, <1>11, <1>12, <1>13

\* The server refused the file.
LEMMA ErrorInv ==
  ASSUME IInv, NEW a \in asks, ErrorArrives(a)
  PROVE  IInv'
<1>. USE DEF IInv
<1>1. /\ a.video \in chosen \ Listed /\ server[a.video] = Absent /\ ~Telling(a.video)
      /\ \A b \in asks' : b.video # a.video
  BY DEF ErrorArrives, AsksInv
<1>2. a.video \in Video /\ lost \in BOOLEAN /\ chosen' = chosen /\ asks' \subseteq asks
  BY DEF ErrorArrives, TypeOK, Ask
<1>. QED  BY <1>1, <1>2, FailureViewInv DEF ErrorArrives, Absent

\* The place to upload to is known: the PUT starts or waits for a slot.
LEMMA UrlInv ==
  ASSUME IInv, "linger" \notin Allows, NEW a \in asks, UrlArrives(a)
  PROVE  IInv'
<1>. USE DEF IInv
<1>. DEFINE v == a.video
            waits == Limit > 0 /\ Cardinality(puts) >= Limit
            r == [videoId |-> TRUE, sent |-> FALSE, uploading |-> FALSE,
                  status |-> IF waits THEN "queued" ELSE "uploading"]
<1>1. /\ v \in chosen \ Listed /\ v \in Video /\ server[v] = "upload" /\ ~Telling(v)
      /\ asks' = asks \ {a} /\ \A b \in asks' : b.video # v
  BY DEF UrlArrives, AsksInv, TypeOK, Ask
<1>2. /\ UNCHANGED <<page, chosen, posts, gets, previous, server, lost>>
      /\ rows' = With(v, r)
      /\ slots' = IF waits THEN Append(slots, v) ELSE slots
      /\ puts' = IF waits THEN puts ELSE puts \cup {v}
  BY DEF UrlArrives
<1>3. r \in Row  BY DEF Row
<1>4. DOMAIN rows' = Listed \cup {v} /\ rows' \in [Listed \cup {v} -> Row]
  BY <1>1, <1>2, <1>3, WithType
<1>5. \A w \in Listed : rows'[w] = rows[w]  BY <1>1, <1>2 DEF With
<1>6. /\ rows'[v].status = (IF waits THEN "queued" ELSE "uploading")
      /\ ~rows'[v].sent /\ ~rows'[v].uploading
  BY <1>2 DEF With
<1>7. \A w : Untold(w)' <=> Untold(w)  BY <1>2 DEF Untold, Telling
<1>8. Untold(v)  BY <1>1 DEF Untold, Ends
<1>9. v \notin puts /\ \A i \in DOMAIN slots : slots[i] # v  BY <1>1 DEF PutsInv, SlotsInv
<1>. HIDE DEF v, waits, r
<1>10. TypeOK'
  <2>1. slots' \in Seq(Video)
    <3>1. Append(slots, v) \in Seq(Video)  BY <1>1 DEF TypeOK
    <3>. QED  BY <3>1, <1>2 DEF TypeOK
  <2>. QED  BY <1>1, <1>2, <1>4, <2>1 DEF TypeOK, Listed
<1>11. FreshInv'  BY <1>1, <1>2, <1>4 DEF FreshInv, Telling, Listed
<1>12. AsksInv'  BY <1>1, <1>2, <1>4 DEF AsksInv, Telling, Listed
<1>13. SlotsInv'
  <2>1. CASE waits
    <3>1. slots \in Seq(Video) /\ slots' = Append(slots, v)  BY <2>1, <1>2 DEF TypeOK
    <3>2. /\ DOMAIN slots' = DOMAIN slots \cup {Len(slots) + 1}
          /\ \A i \in DOMAIN slots : slots'[i] = slots[i]
          /\ slots'[Len(slots) + 1] = v
      BY <3>1
    <3>. QED  BY <2>1, <3>2, <1>4, <1>5, <1>6, <1>7, <1>8, <1>9 DEF SlotsInv, Listed
  <2>2. CASE ~waits
    BY <2>2, <1>2, <1>4, <1>5, <1>7 DEF SlotsInv, Listed
  <2>. QED  BY <2>1, <2>2
<1>14. PutsInv'  BY <1>2, <1>4, <1>5, <1>6, <1>7, <1>8 DEF PutsInv, Listed
<1>15. PostsInv'  BY <1>2 DEF PostsInv
<1>16. UploadingInv'
  BY <1>2, <1>4, <1>5, <1>6 DEF UploadingInv, uploading, Listed, UrlArrives, Open
<1>17. ToldInv'
  <2>1. page' = "open"  BY DEF UrlArrives, Open
  <2>2. rows'[v].status # "failed"  BY <1>6
  <2>. QED  BY <1>2, <1>4, <1>5, <2>1, <2>2 DEF ToldInv, Telling, Listed
<1>. QED  BY <1>10, <1>11, <1>12, <1>13, <1>14, <1>15, <1>16, <1>17

\* Progress of a PUT is reported.
LEMMA ProgressInv ==
  ASSUME IInv, "linger" \notin Allows, NEW v \in Video, fileUploadProgress(v)
  PROVE  IInv'
<1>. USE DEF IInv
<1>1. /\ page = "open" /\ v \in puts /\ v \in Listed /\ rows[v].status = "uploading"
      /\ rows' = [rows EXCEPT ![v].sent = TRUE]
      /\ UNCHANGED <<page, chosen, asks, puts, slots, posts, gets, previous, server, lost>>
  BY DEF fileUploadProgress, Open, PutsInv
<1>2. DOMAIN rows' = Listed /\ rows' \in [Listed -> Row]  BY <1>1 DEF TypeOK, Listed, Row
<1>3. \A w \in Listed : /\ rows'[w].status = rows[w].status
                        /\ rows'[w].uploading = rows[w].uploading
                        /\ rows'[w].sent = (w = v \/ rows[w].sent)
  BY <1>1 DEF TypeOK, Listed, Row
<1>4. \A w : (Untold(w)' <=> Untold(w)) /\ (Telling(w)' <=> Telling(w))  BY <1>1 DEF Untold, Telling
<1>5. TypeOK'  BY <1>1, <1>2 DEF TypeOK, Listed
<1>6. (FreshInv /\ AsksInv)'  BY <1>1, <1>2, <1>4 DEF FreshInv, AsksInv, Listed
<1>7. SlotsInv'  BY <1>1, <1>2, <1>3, <1>4 DEF SlotsInv, Listed
<1>8. PutsInv'  BY <1>1, <1>2, <1>3, <1>4 DEF PutsInv, Listed
<1>9. PostsInv'  BY <1>1 DEF PostsInv
<1>10. UploadingInv'  BY <1>1, <1>2, <1>3 DEF UploadingInv, uploading, Listed
<1>11. ToldInv'  BY <1>1, <1>2, <1>3, <1>4 DEF ToldInv, uploading, Listed
<1>. QED  BY <1>5, <1>6, <1>7, <1>8, <1>9, <1>10, <1>11

\* A PUT ends: its row gets its last status, and a status update is sent.
LEMMA EndInv ==
  ASSUME IInv, page = "open", NEW v \in puts, NEW status \in Ends, NEW rs \in [Listed -> Row],
         sendStatusUpdate({v}, status), Slots(v, rs),
         \A w \in Listed : w # v => rs[w] = rows[w],
         ~uploading(rs[v]),
         UNCHANGED <<page, chosen, asks, gets, previous, server, lost>>
  PROVE  IInv'
<1>. USE DEF IInv
<1>. DEFINE p == [videos |-> {v}, status |-> status, served |-> FALSE]
<1>1. v \in Listed /\ v \in Video /\ rows[v].status = "uploading" /\ Untold(v)
  BY DEF PutsInv, TypeOK
<1>2. p \in Post /\ posts' = posts \cup {p} /\ p.videos = {v} /\ ~p.served
  BY <1>1 DEF Post, sendStatusUpdate
<1>. HIDE DEF p
<1>3. \A w : Telling(w)' <=> Telling(w) \/ w = v  BY <1>2 DEF Telling
<1>4. \A w : w # v => (Untold(w)' <=> Untold(w))  BY <1>3 DEF Untold
<1>5. /\ puts' \subseteq Video /\ slots' \in Seq(Video)
      /\ DOMAIN rows' = Listed /\ rows' \in [Listed -> Row]
  BY <1>1, SlotsType DEF SlotsInv
\* What the plugin does, with the first of its queue if there is one.
<1>. DEFINE next == IF slots = <<>> THEN {} ELSE {Head(slots)}
<1>6. /\ next \subseteq Listed
      /\ puts' = (puts \ {v}) \cup next
      /\ \A w \in next : Untold(w) /\ w # v /\ rows'[w].status = "uploading"
      /\ \A w \in Listed \ next : rows'[w] = rs[w]
      /\ \A w \in next : rows'[w].uploading = rows[w].uploading
      /\ \A i \in DOMAIN slots' : \E j \in DOMAIN slots :
           slots'[i] = slots[j] /\ slots'[i] \notin next
      /\ \A i, j \in DOMAIN slots' : slots'[i] = slots'[j] => i = j
  <2>1. CASE slots = <<>>
    <3>1. puts' = puts \ {v} /\ rows' = rs /\ slots' = slots  BY <2>1 DEF Slots
    <3>2. next = {}  BY <2>1
    <3>. HIDE DEF next
    <3>3. \A i \in DOMAIN slots' : \E j \in DOMAIN slots : slots'[i] = slots[j]  BY <3>1
    <3>4. \A i, j \in DOMAIN slots' : slots'[i] = slots'[j] => i = j  BY <3>1 DEF SlotsInv
    <3>. QED  BY <3>1, <3>2, <3>3, <3>4
  <2>2. CASE slots # <<>>
    <3>. DEFINE h == Head(slots)
    <3>1. /\ puts' = (puts \ {v}) \cup {h} /\ slots' = Tail(slots)
          /\ rows' = [rs EXCEPT ![h].status = "uploading"]
      BY <2>2 DEF Slots
    <3>2. /\ slots \in Seq(Video) /\ 1 \in DOMAIN slots /\ h = slots[1]
          /\ \A i \in DOMAIN Tail(slots) : i + 1 \in DOMAIN slots /\ Tail(slots)[i] = slots[i + 1]
          /\ DOMAIN Tail(slots) \subseteq Nat \ {0}
      BY <2>2 DEF TypeOK
    <3>. HIDE DEF h
    <3>3. h \in Listed /\ rows[h].status = "queued" /\ Untold(h)  BY <3>2 DEF SlotsInv
    <3>4. h # v  BY <3>3, <1>1
    <3>5. /\ rows'[h].status = "uploading" /\ rows'[h].uploading = rows[h].uploading
          /\ \A w \in Listed \ {h} : rows'[w] = rs[w]
      BY <3>1, <3>3, <3>4 DEF Row
    <3>6. \A i \in DOMAIN slots' : \E j \in DOMAIN slots : slots'[i] = slots[j] /\ slots'[i] # h
      <4>. SUFFICES ASSUME NEW i \in DOMAIN slots'
                    PROVE  \E j \in DOMAIN slots : slots'[i] = slots[j] /\ slots'[i] # h
        OBVIOUS
      <4>1. i + 1 \in DOMAIN slots /\ slots'[i] = slots[i + 1] /\ i + 1 # 1
        BY <3>1, <3>2
      <4>. QED  BY <4>1, <3>2 DEF SlotsInv
    <3>7. \A i, j \in DOMAIN slots' : slots'[i] = slots'[j] => i = j
      <4>. SUFFICES ASSUME NEW i \in DOMAIN slots', NEW j \in DOMAIN slots', slots'[i] = slots'[j]
                    PROVE  i = j
        OBVIOUS
      <4>1. /\ i + 1 \in DOMAIN slots /\ slots'[i] = slots[i + 1]
            /\ j + 1 \in DOMAIN slots /\ slots'[j] = slots[j + 1]
            /\ i \in Nat /\ j \in Nat
        BY <3>1, <3>2
      <4>2. i + 1 = j + 1  BY <4>1 DEF SlotsInv
      <4>. QED  BY <4>1, <4>2
    <3>8. next = {h}  BY <2>2 DEF h
    <3>. HIDE DEF next
    <3>. QED  BY <3>8, <3>1, <3>3, <3>4, <3>5, <3>6, <3>7
  <2>. QED  BY <2>1, <2>2
<1>. HIDE DEF next
<1>7. TypeOK'
  BY <1>2, <1>5 DEF TypeOK, Listed
<1>8. FreshInv'  BY <1>1, <1>3, <1>5 DEF FreshInv, Listed
<1>9. AsksInv'  BY <1>1, <1>3, <1>5 DEF AsksInv, Listed
<1>10. SlotsInv'
  <2>1. ASSUME NEW w, NEW j \in DOMAIN slots, w = slots[j], w \notin next
        PROVE  w \in Listed /\ rows'[w].status = "queued" /\ Untold(w)'
    <3>1. w \in Listed /\ rows[w].status = "queued" /\ Untold(w)  BY <2>1 DEF SlotsInv
    <3>2. w # v  BY <3>1, <1>1
    <3>. QED  BY <2>1, <3>1, <3>2, <1>4, <1>6
  <2>. QED  BY <2>1, <1>5, <1>6 DEF SlotsInv, Listed
<1>11. PutsInv'
  <2>. SUFFICES ASSUME NEW w \in puts'
                PROVE  w \in Listed /\ rows'[w].status = "uploading" /\ Untold(w)'
    BY <1>5 DEF PutsInv, Listed
  <2>1. CASE w \in next  BY <2>1, <1>4, <1>6
  <2>2. CASE w \in puts \ {v} /\ w \notin next
    BY <2>2, <1>4, <1>6 DEF PutsInv
  <2>. QED  BY <2>1, <2>2, <1>6
<1>12. PostsInv'
  <2>. SUFFICES ASSUME NEW q \in posts', NEW w \in q.videos
                PROVE  IF q.served THEN server[w] = "upload_completed"
                       ELSE /\ server[w] \notin Ends
                            /\ \A o \in posts' : ~o.served /\ w \in o.videos => o = q
    BY DEF PostsInv
  <2>1. CASE q = p  BY <2>1, <1>1, <1>2 DEF Untold, Telling
  <2>2. CASE q \in posts
    <3>1. CASE q.served  BY <3>1, <2>2 DEF PostsInv
    <3>2. CASE ~q.served
      <4>1. w # v  BY <3>2, <2>2, <1>1 DEF Untold, Telling
      <4>. QED  BY <3>2, <2>2, <4>1, <1>2 DEF PostsInv
    <3>. QED  BY <3>1, <3>2
  <2>. QED  BY <2>1, <2>2, <1>2
<1>13. UploadingInv'
  BY <1>5, <1>6 DEF UploadingInv, Listed
<1>14. ToldInv'
  <2>. SUFFICES ASSUME NEW w \in Listed, rows'[w].status = "failed"
                PROVE  server[w] # "upload" \/ Telling(w)' \/ lost
    BY <1>5 DEF ToldInv, Listed
  <2>1. CASE w = v  BY <2>1, <1>3
  <2>2. CASE w # v  BY <2>2, <1>3, <1>6 DEF ToldInv
  <2>. QED  BY <2>1, <2>2
<1>. QED  BY <1>7, <1>8, <1>9, <1>10, <1>11, <1>12, <1>13, <1>14

\* A PUT succeeds.
LEMMA DoneInv ==
  ASSUME IInv, "linger" \notin Allows, NEW v \in Video, fileUploadDone(v)
  PROVE  IInv'
<1>. DEFINE rs == [rows EXCEPT ![v].sent = TRUE]
<1>1. page = "open" /\ v \in puts /\ v \in Listed
  BY DEF fileUploadDone, Open, IInv, PutsInv
<1>2. /\ rs \in [Listed -> Row] /\ ~uploading(rs[v])
      /\ \A w \in Listed : w # v => rs[w] = rows[w]
  BY <1>1 DEF IInv, TypeOK, Listed, Row, uploading
<1>3. "upload_completed" \in Ends  BY DEF Ends
<1>. QED  BY <1>1, <1>2, <1>3, EndInv DEF fileUploadDone

\* A PUT fails.
LEMMA FailInv ==
  ASSUME IInv, "linger" \notin Allows, NEW v \in Video, fileUploadFail(v)
  PROVE  IInv'
<1>. DEFINE rs == [rows EXCEPT ![v].status = "failed"]
<1>1. page = "open" /\ v \in puts /\ v \in Listed
  BY DEF fileUploadFail, Open, IInv, PutsInv
<1>2. /\ rs \in [Listed -> Row] /\ ~uploading(rs[v])
      /\ \A w \in Listed : w # v => rs[w] = rows[w]
  BY <1>1 DEF IInv, TypeOK, Listed, Row, uploading
<1>3. "upload_failed" \in Ends  BY DEF Ends
<1>. QED  BY <1>1, <1>2, <1>3, EndInv DEF fileUploadFail

\* The server notes a status update.
LEMMA UpdateInv ==
  ASSUME IInv, NEW p \in posts, send_video_status_update(p)
  PROVE  IInv'
<1>. USE DEF IInv
<1>. DEFINE s == [p EXCEPT !.served = TRUE]
<1>1. /\ ~p.served /\ p \in Post
      /\ UNCHANGED <<page, chosen, asks, rows, puts, slots, gets, previous, lost>>
      /\ posts' = (posts \ {p}) \cup (IF p.status = "upload_completed" THEN {s} ELSE {})
  BY DEF send_video_status_update, TypeOK
<1>2. /\ server' \in [Video -> Statuses]
      /\ \A w \in Video : server'[w] = IF w \in p.videos THEN p.status ELSE server[w]
  BY <1>1 DEF send_video_status_update, TypeOK, Post, Statuses
<1>3. s \in Post /\ s.served /\ s.videos = p.videos /\ s.status = p.status  BY <1>1 DEF Post
<1>. HIDE DEF s
<1>4. \A w : /\ Untold(w) => w \notin p.videos
             /\ ~Telling(w) => w \notin p.videos
             /\ Telling(w)' => Telling(w)
             /\ Telling(w) => Telling(w)' \/ w \in p.videos
             /\ w \notin Video => w \notin p.videos
  BY <1>1, <1>3 DEF Untold, Telling, Post
<1>5. ASSUME NEW w \in Video, Untold(w) PROVE Untold(w)'
  <2>1. w \notin p.videos /\ ~Telling(w)'  BY <1>4, <1>5 DEF Untold
  <2>2. server'[w] = server[w]  BY <2>1, <1>2
  <2>. QED  BY <2>1, <2>2, <1>5 DEF Untold
<1>6. TypeOK'  BY <1>1, <1>2, <1>3 DEF TypeOK, Listed
<1>7. FreshInv'
  <2>. SUFFICES ASSUME NEW w \in Video \ chosen
                PROVE  server'[w] = Absent /\ w \notin Listed /\ ~Telling(w)'
    BY <1>1 DEF FreshInv, Listed
  <2>1. server[w] = Absent /\ w \notin Listed /\ ~Telling(w)  BY DEF FreshInv
  <2>. QED  BY <2>1, <1>2, <1>4
<1>8. AsksInv'
  <2>1. \A a \in asks : a.video \in Video /\ a.video \notin p.videos
    BY <1>1, <1>4 DEF AsksInv, TypeOK, Ask
  <2>2. \A a \in asks : server'[a.video] = server[a.video] /\ ~Telling(a.video)'
    BY <2>1, <1>2, <1>4 DEF AsksInv
  <2>. QED  BY <2>2, <1>1 DEF AsksInv, Listed
<1>9. SlotsInv'  BY <1>1, <1>5 DEF SlotsInv, Listed, TypeOK
<1>10. PutsInv'  BY <1>1, <1>5 DEF PutsInv, TypeOK, Listed
<1>11. PostsInv'
  <2>. SUFFICES ASSUME NEW q \in posts', NEW w \in q.videos
                PROVE  IF q.served THEN server'[w] = "upload_completed"
                       ELSE /\ server'[w] \notin Ends
                            /\ \A o \in posts' : ~o.served /\ w \in o.videos => o = q
    BY DEF PostsInv
  <2>1. w \in Video  BY <1>6 DEF TypeOK, Post
  <2>2. CASE q \in posts \ {p}
    <3>1. w \notin p.videos  BY <1>1, <2>2 DEF PostsInv, Ends
    <3>. QED  BY <2>1, <2>2, <3>1, <1>1, <1>2, <1>3 DEF PostsInv
  <2>3. CASE q = s /\ p.status = "upload_completed"
    BY <2>1, <2>3, <1>2, <1>3
  <2>. QED  BY <2>2, <2>3, <1>1
<1>12. UploadingInv'  BY <1>1 DEF UploadingInv, Listed, uploading
<1>13. ToldInv'
  <2>1. "upload" \notin Ends /\ p.status \in Ends  BY <1>1 DEF Post, Ends
  <2>. SUFFICES ASSUME NEW w \in Listed,
                       rows[w].status = "failed" \/ (page = "left" /\ uploading(rows[w]))
                PROVE  server'[w] # "upload" \/ Telling(w)' \/ lost
    BY <1>1 DEF ToldInv, Listed, uploading
  <2>2. server[w] # "upload" \/ Telling(w) \/ lost  BY DEF ToldInv
  <2>3. w \in Video  BY DEF TypeOK
  <2>. QED  BY <2>1, <2>2, <2>3, <1>2, <1>4
<1>. QED  BY <1>6, <1>7, <1>8, <1>9, <1>10, <1>11, <1>12, <1>13

\* A status update was answered: completed files leave the list.
LEMMA CompletedInv ==
  ASSUME IInv, NEW p \in posts, Completed(p)
  PROVE  IInv'
<1>. USE DEF IInv
<1>1. /\ p.served /\ posts' = posts \ {p} /\ p \in Post
      /\ UNCHANGED <<page, chosen, asks, puts, slots, previous, server, lost>>
  BY DEF Completed, TypeOK
<1>2. /\ DOMAIN rows' = Listed \ p.videos /\ rows' \in [Listed \ p.videos -> Row]
      /\ \A w \in Listed \ p.videos : rows'[w] = rows[w]
  BY DEF Completed, Without, Restrict, TypeOK, Listed
<1>3. gets' \in Seq(Get)
  <2>1. [served |-> FALSE, videos |-> server] \in Get  BY DEF TypeOK, Get
  <2>. QED  BY <2>1 DEF Completed, TypeOK
<1>4. \A w : (Telling(w)' <=> Telling(w)) /\ (Untold(w)' <=> Untold(w))
  BY <1>1 DEF Telling, Untold
<1>5. \A w : Untold(w) => w \notin p.videos  BY <1>1 DEF PostsInv, Untold, Ends
<1>6. TypeOK'  BY <1>1, <1>2, <1>3 DEF TypeOK, Listed
<1>7. (FreshInv /\ AsksInv)'  BY <1>1, <1>2, <1>4 DEF FreshInv, AsksInv, Listed
<1>8. SlotsInv'  BY <1>1, <1>2, <1>4, <1>5 DEF SlotsInv, Listed
<1>9. PutsInv'  BY <1>1, <1>2, <1>4, <1>5 DEF PutsInv, Listed
<1>10. PostsInv'  BY <1>1 DEF PostsInv
<1>11. UploadingInv'  BY <1>1, <1>2 DEF UploadingInv, Listed, uploading
<1>12. ToldInv'  BY <1>1, <1>2, <1>4 DEF ToldInv, Listed, uploading
<1>. QED  BY <1>6, <1>7, <1>8, <1>9, <1>10, <1>11, <1>12

\* Steps that touch but the lists of previous uploads.
LEMMA ListInv ==
  ASSUME IInv, NEW i \in DOMAIN gets, videos_index_json(i) \/ onFileUploadDone(i)
  PROVE  IInv'
<1>. USE DEF IInv
<1>1. UNCHANGED <<page, chosen, asks, rows, puts, slots, posts, server, lost>>
  BY DEF videos_index_json, onFileUploadDone
<1>2. gets' \in Seq(Get) /\ previous' \in [Video -> Statuses]
  <2>1. CASE videos_index_json(i)
    <3>1. [served |-> TRUE, videos |-> server] \in Get  BY DEF TypeOK, Get
    <3>. QED  BY <2>1, <3>1 DEF videos_index_json, TypeOK
  <2>2. CASE onFileUploadDone(i)
    <3>1. gets' \in Seq(Get)  BY <2>2, RemoveAtType DEF onFileUploadDone, TypeOK
    <3>2. gets[i] \in Get  BY DEF TypeOK
    <3>4. gets[i].videos \in [Video -> Statuses]  BY <3>2 DEF Get
    <3>3. Absent \in Statuses  BY DEF Statuses
    <3>. QED  BY <2>2, <3>1, <3>3, <3>4 DEF onFileUploadDone
  <2>. QED  BY <2>1, <2>2
<1>3. TypeOK'  BY <1>1, <1>2 DEF TypeOK, Listed
<1>. QED
  BY <1>1, <1>3 DEF FreshInv, AsksInv, SlotsInv, PutsInv, PostsInv, UploadingInv, ToldInv,
                    Untold, Telling, Listed, uploading

\* A request or an answer is lost.
LEMMA LoseInv ==
  ASSUME IInv, Lose
  PROVE  IInv'
<1>. USE DEF IInv
<1>1. lost' = TRUE /\ UNCHANGED <<page, chosen, puts, slots, previous, server>>
  BY DEF Lose
<1>2. CASE \E p \in posts : posts' = posts \ {p} /\ UNCHANGED <<asks, rows, gets>>
  <2>1. posts' \subseteq posts /\ UNCHANGED <<asks, rows, gets>>  BY <1>2
  <2>2. \A w : (Telling(w)' => Telling(w)) /\ (Untold(w) => Untold(w)')
    BY <1>1, <2>1 DEF Untold, Telling
  <2>3. TypeOK'  BY <1>1, <2>1 DEF TypeOK, Listed
  <2>4. (FreshInv /\ AsksInv)'  BY <1>1, <2>1, <2>2 DEF FreshInv, AsksInv, Listed
  <2>5. (SlotsInv /\ PutsInv)'  BY <1>1, <2>1, <2>2 DEF SlotsInv, PutsInv, Listed
  <2>6. (PostsInv /\ UploadingInv /\ ToldInv)'
    BY <1>1, <2>1 DEF PostsInv, UploadingInv, ToldInv, Listed, uploading
  <2>. QED  BY <2>3, <2>4, <2>5, <2>6
<1>3. CASE \E a \in asks : /\ asks' = asks \ {a}
                           /\ IF Open THEN addUploadFailureView(a.video) ELSE UNCHANGED rows
                           /\ UNCHANGED <<posts, gets>>
  <2>1. PICK a \in asks : /\ asks' = asks \ {a}
                          /\ IF Open THEN addUploadFailureView(a.video) ELSE UNCHANGED rows
                          /\ UNCHANGED <<posts, gets>>
    BY <1>3
  <2>2. /\ a.video \in chosen \ Listed /\ ~Telling(a.video) /\ a.video \in Video
        /\ \A b \in asks' : b.video # a.video
    BY <2>1 DEF AsksInv, TypeOK, Ask
  <2>3. CASE addUploadFailureView(a.video)
    <3>1. a.video \in chosen' \ Listed /\ asks' \subseteq asks /\ lost' \in BOOLEAN
          /\ chosen' \in {chosen, chosen \cup {a.video}}
      BY <1>1, <2>1, <2>2
    <3>. HIDE DEF IInv
    <3>. QED  BY <1>1, <2>1, <2>2, <2>3, <3>1, FailureViewInv
  <2>4. CASE UNCHANGED rows
    <3>1. asks' \subseteq asks /\ UNCHANGED <<posts, gets>>  BY <2>1
    <3>2. TypeOK'  BY <1>1, <2>4, <3>1 DEF TypeOK, Listed
    <3>3. (FreshInv /\ AsksInv /\ SlotsInv /\ PutsInv)'
      BY <1>1, <2>4, <3>1 DEF FreshInv, AsksInv, SlotsInv, PutsInv, Untold, Telling, Listed
    <3>4. (PostsInv /\ UploadingInv /\ ToldInv)'
      BY <1>1, <2>4, <3>1 DEF PostsInv, UploadingInv, ToldInv, Listed, uploading
    <3>. QED  BY <3>2, <3>3, <3>4
  <2>. QED  BY <2>1, <2>3, <2>4
<1>4. CASE \E i \in DOMAIN gets : gets' = RemoveAt(gets, i) /\ UNCHANGED <<asks, rows, posts>>
  <2>1. gets' \in Seq(Get)  BY <1>4, RemoveAtType DEF TypeOK
  <2>2. UNCHANGED <<asks, rows, posts>>  BY <1>4
  <2>3. TypeOK'  BY <1>1, <2>1, <2>2 DEF TypeOK, Listed
  <2>. QED
    BY <1>1, <2>2, <2>3 DEF FreshInv, AsksInv, SlotsInv, PutsInv, PostsInv, UploadingInv, ToldInv,
                            Untold, Telling, Listed, uploading
<1>. QED  BY <1>2, <1>3, <1>4 DEF Lose

\* The user is about to leave, and the browser asks.
LEMMA BeforeUnloadInv ==
  ASSUME IInv, onBeforeUnload
  PROVE  IInv'
<1>. USE DEF IInv
<1>1. /\ page = "open" /\ page' = "asking"
      /\ rows' = [v \in Listed |-> [rows[v] EXCEPT !.uploading = uploading(rows[v])]]
      /\ UNCHANGED <<chosen, asks, puts, slots, posts, gets, previous, server, lost>>
  BY DEF onBeforeUnload
<1>2. DOMAIN rows' = Listed /\ rows' \in [Listed -> Row]
  BY <1>1 DEF TypeOK, Listed, Row, uploading
<1>3. \A w \in Listed : /\ rows'[w].status = rows[w].status /\ rows'[w].sent = rows[w].sent
                        /\ rows'[w].uploading = uploading(rows[w])
                        /\ uploading(rows'[w]) = uploading(rows[w])
  BY <1>1 DEF TypeOK, Listed, Row, uploading
<1>4. \A w : (Telling(w)' <=> Telling(w)) /\ (Untold(w)' <=> Untold(w))
  BY <1>1 DEF Telling, Untold
<1>5. TypeOK'  BY <1>1, <1>2 DEF TypeOK, Listed
<1>6. (FreshInv /\ AsksInv)'  BY <1>1, <1>2, <1>4 DEF FreshInv, AsksInv, Listed
<1>7. SlotsInv'  BY <1>1, <1>2, <1>3, <1>4 DEF SlotsInv, Listed
<1>8. PutsInv'  BY <1>1, <1>2, <1>3, <1>4 DEF PutsInv, Listed
<1>9. PostsInv'  BY <1>1 DEF PostsInv
<1>10. UploadingInv'  BY <1>1, <1>2, <1>3 DEF UploadingInv, Listed
<1>11. ToldInv'  BY <1>1, <1>2, <1>3, <1>4 DEF ToldInv, uploading, Listed
<1>. QED  BY <1>5, <1>6, <1>7, <1>8, <1>9, <1>10, <1>11

\* The user stays.
LEMMA StayInv ==
  ASSUME IInv, Stay
  PROVE  IInv'
  BY DEF Stay, IInv, TypeOK, FreshInv, AsksInv, SlotsInv, PutsInv, PostsInv, UploadingInv,
         ToldInv, Untold, Telling, Listed, uploading

\* The page is left: what was being sent is told of as failed.
LEMMA UnloadInv ==
  ASSUME IInv, onUnload
  PROVE  IInv'
<1>. USE DEF IInv
<1>. DEFINE vs == {v \in Listed : rows[v].uploading}
            p == [videos |-> vs, status |-> "upload_cancelled", served |-> FALSE]
<1>1. /\ page = "asking" /\ page' = "left" /\ puts' = {} /\ gets' = <<>>
      /\ UNCHANGED <<chosen, asks, rows, slots, previous, server, lost>>
      /\ posts' = IF vs = {} THEN posts ELSE posts \cup {p}
  BY DEF onUnload, sendStatusUpdate
<1>2. /\ \A v \in Listed : v \in vs <=> uploading(rows[v])
      /\ vs \subseteq Listed /\ vs \subseteq puts /\ \A v \in vs : Untold(v)
      /\ \A v \in vs : rows[v].status = "uploading"
  BY <1>1 DEF UploadingInv, PutsInv
<1>3. p \in Post /\ p.videos = vs /\ ~p.served
  BY <1>2 DEF Post, Ends, TypeOK
<1>. HIDE DEF vs, p
<1>4. \A w : Telling(w)' <=> Telling(w) \/ w \in vs  BY <1>1, <1>3 DEF Telling
<1>5. TypeOK'
  <2>1. gets' \in Seq(Get)  BY <1>1
  <2>. QED  BY <1>1, <1>3, <2>1 DEF TypeOK, Listed
<1>6. (FreshInv /\ AsksInv)'  BY <1>1, <1>2, <1>4 DEF FreshInv, AsksInv, Listed
<1>7. SlotsInv'
  <2>1. \A i \in DOMAIN slots : slots[i] \notin vs  BY <1>2 DEF SlotsInv
  <2>. QED  BY <2>1, <1>1, <1>4 DEF SlotsInv, Untold, Listed
<1>8. PutsInv'  BY <1>1 DEF PutsInv
<1>9. PostsInv'
  <2>. SUFFICES ASSUME NEW q \in posts', NEW w \in q.videos
                PROVE  IF q.served THEN server[w] = "upload_completed"
                       ELSE /\ server[w] \notin Ends
                            /\ \A o \in posts' : ~o.served /\ w \in o.videos => o = q
    BY <1>1 DEF PostsInv
  <2>1. CASE w \in vs
    <3>1. \A o \in posts : w \in o.videos => o.served /\ server[w] = "upload_completed"
      BY <2>1, <1>2 DEF Untold, Telling, PostsInv
    <3>2. server[w] \notin Ends /\ server[w] # "upload_completed"
      BY <2>1, <1>2 DEF Untold, Ends
    <3>. QED  BY <3>1, <3>2, <1>1, <1>3
  <2>2. CASE w \notin vs
    BY <2>2, <1>1, <1>3 DEF PostsInv
  <2>. QED  BY <2>1, <2>2
<1>10. UploadingInv'  BY <1>1 DEF UploadingInv
<1>11. ToldInv'  BY <1>1, <1>2, <1>4 DEF ToldInv, uploading, Listed
<1>. QED  BY <1>5, <1>6, <1>7, <1>8, <1>9, <1>10, <1>11
-----------------------------------------------------------------------------
\* Every step of the page, the server and the browser preserves IInv.
LEMMA NextInv ==
  ASSUME IInv, "linger" \notin Allows, [Next]_vars
  PROVE  IInv'
<1>1. CASE UNCHANGED vars  BY <1>1, StutterInv
<1>2. CASE Next
  <2>1. ASSUME NEW v \in Video, \/ fileUploadAdd(v) \/ fileUploadProgress(v)
                                \/ fileUploadDone(v) \/ fileUploadFail(v)
        PROVE  IInv'
    BY <2>1, AddInv, ProgressInv, DoneInv, FailInv
  <2>2. ASSUME NEW a \in asks, videos_post(a) \/ UrlArrives(a) \/ ErrorArrives(a)
        PROVE  IInv'
    BY <2>2, PostInv, UrlInv, ErrorInv
  <2>3. ASSUME NEW p \in posts, send_video_status_update(p) \/ Completed(p)
        PROVE  IInv'
    BY <2>3, UpdateInv, CompletedInv
  <2>4. ASSUME NEW i \in DOMAIN gets, videos_index_json(i) \/ onFileUploadDone(i)
        PROVE  IInv'
    BY <2>4, ListInv
  <2>5. CASE Lose  BY <2>5, LoseInv
  <2>6. CASE onBeforeUnload  BY <2>6, BeforeUnloadInv
  <2>7. CASE Stay  BY <2>7, StayInv
  <2>8. CASE onUnload  BY <2>8, UnloadInv
  <2>. QED  BY <1>2, <2>1, <2>2, <2>3, <2>4, <2>5, <2>6, <2>7, <2>8 DEF Next
<1>. QED  BY <1>1, <1>2

\* The inductive invariant holds of every behaviour of the page in which no
\* upload goes on while the browser asks whether to leave
\* (active_video_upload_list.js, onBeforeUnload and onUnload).
THEOREM Invariant ==
  ASSUME "linger" \notin Allows
  PROVE  Spec => []IInv
<1>1. IInv /\ [Next]_vars => IInv'  BY NextInv
<1>. QED  BY InitInv, <1>1, PTL DEF Spec

\* Rows, requests, queue and lists keep their types, for any number of
\* files, any limit of concurrent uploads, and whatever is lost or late.
THEOREM TypeCorrect ==
  ASSUME "linger" \notin Allows
  PROVE  Spec => []TypeOK
<1>1. IInv => TypeOK  BY DEF IInv
<1>. QED  BY Invariant, <1>1, PTL

\* No status update overwrites the end the server knows of an upload: an
\* upload is told of once, by fileUploadDone, fileUploadFail or onUnload.
THEOREM EndsAreFinal ==
  ASSUME "linger" \notin Allows
  PROVE  Spec => EndIsFinal
<1>1. ASSUME IInv, [Next]_vars
      PROVE  [\A v \in Video : server[v] \in Ends => server'[v] = server[v]]_vars
  <2>. USE <1>1 DEF IInv
  <2>1. ASSUME NEW a \in asks, videos_post(a), NEW v \in Video, server[v] \in Ends
        PROVE  server'[v] = server[v]
    <3>1. server[a.video] \notin Ends  BY <2>1 DEF videos_post, AsksInv, Ends, Absent
    <3>. QED  BY <2>1, <3>1 DEF videos_post, TypeOK
  <2>2. ASSUME NEW p \in posts, send_video_status_update(p), NEW v \in Video, server[v] \in Ends
        PROVE  server'[v] = server[v]
    <3>1. v \notin p.videos  BY <2>2 DEF send_video_status_update, PostsInv
    <3>. QED  BY <2>2, <3>1 DEF send_video_status_update
  <2>3. \/ \E a \in asks : videos_post(a)
        \/ \E p \in posts : send_video_status_update(p)
        \/ UNCHANGED server
    BY DEF Next, vars, fileUploadAdd, fileUploadProgress, fileUploadDone, fileUploadFail,
           UrlArrives, ErrorArrives, Completed, videos_index_json, onFileUploadDone, Lose,
           onBeforeUnload, Stay, onUnload
  <2>. QED  BY <2>1, <2>2, <2>3
<1>. QED  BY Invariant, <1>1, PTL DEF EndIsFinal, Spec

\* What a page that is left leaves as "upload" for ever was still queued, or
\* wholly sent and not answered, when the browser asked (onUnload).
THEOREM LeftBehindHolds ==
  ASSUME "linger" \notin Allows
  PROVE  Spec => []LeftBehind
<1>1. IInv => LeftBehind
  <2>. SUFFICES ASSUME IInv, page = "left", posts = {}, ~lost,
                       NEW v \in Video, server[v] = "upload", v \in Listed
                PROVE  rows[v].status = "queued" \/ (rows[v].status = "uploading" /\ rows[v].sent)
    BY DEF LeftBehind
  <2>1. ~Telling(v)  BY DEF Telling
  <2>2. rows[v].status # "failed" /\ ~uploading(rows[v])  BY <2>1 DEF IInv, ToldInv
  <2>3. rows[v].status \in {"queued", "uploading", "failed"}  BY DEF IInv, TypeOK, Row
  <2>. QED  BY <2>2, <2>3 DEF uploading
<1>. QED  BY Invariant, <1>1, PTL
-----------------------------------------------------------------------------
(***************************************************************************)
(* What becomes of a chosen file: the stages it passes through, in order,  *)
(* each told by other variables than the last.  They are what the page has *)
(* to keep in step, and what is left of them when nothing is under way is  *)
(* what the author sees.                                                   *)
(***************************************************************************)

\* The stages of a chosen file.  Its URL is asked for.
Asked(v) == \E a \in asks : a.video = v

\* It got no URL, and the server knows nothing of it.
Refused(v) ==
  /\ v \in Listed /\ rows[v].status = "failed" /\ ~rows[v].videoId
  /\ server[v] = Absent /\ ~Telling(v)

\* It waits in the queue of the plugin, or is being sent.
Queued(v) == v \in Listed /\ rows[v].videoId /\ \E i \in DOMAIN slots : slots[i] = v
Sending(v) == v \in Listed /\ rows[v].videoId /\ v \in puts

\* It has ended, and the server is being told how.
Reporting(v) ==
  /\ v \in Listed /\ rows[v].videoId
  /\ \E p \in posts :
       /\ ~p.served /\ v \in p.videos
       /\ \/ p.status = "upload_failed" /\ rows[v].status = "failed"
          \/ p.status = "upload_completed"

\* The server knows that it failed.
Failed(v) ==
  /\ v \in Listed /\ rows[v].videoId /\ rows[v].status = "failed"
  /\ server[v] = "upload_failed"

\* The server knows that it is completed, and its answer is under way.
Answered(v) ==
  /\ v \in Listed /\ rows[v].videoId
  /\ server[v] = "upload_completed"
  /\ \E p \in posts : p.served /\ v \in p.videos

\* The row is cleared.  The last request for the previous uploads will tell
\* of the video, or did when no other is under way, unless answers overtake
\* each other.
ToBeListed(v) ==
  IF gets = <<>> THEN previous[v] = "upload_completed"
  ELSE LET get == gets[Len(gets)] IN get.served => get.videos[v] = "upload_completed"

Cleared(v) ==
  /\ v \notin Listed /\ server[v] = "upload_completed"
  /\ "reorder" \notin Allows => ToBeListed(v)

Stage(v) == \/ Asked(v) \/ Refused(v) \/ Queued(v) \/ Sending(v)
            \/ Reporting(v) \/ Failed(v) \/ Answered(v) \/ Cleared(v)

\* Every file is in one of its stages until the page is left or a request is
\* lost.
StageInv == page # "left" /\ ~lost => \A v \in chosen : Stage(v)

\* A step that leaves v in its stage.
Untouched(v) ==
  /\ (v \in Listed)' <=> v \in Listed
  /\ v \in Listed => /\ rows'[v].status = rows[v].status
                     /\ rows'[v].videoId = rows[v].videoId
  /\ server'[v] = server[v]
  /\ Asked(v) => Asked(v)'
  /\ Queued(v) => Queued(v)' \/ Sending(v)'
  /\ v \in puts => v \in puts'
  /\ \A p \in posts : v \in p.videos => p \in posts'
  /\ Telling(v)' => Telling(v)
  /\ Cleared(v) => Cleared(v)'

\* Then v is where it was.
LEMMA UntouchedStage ==
  ASSUME NEW v, Stage(v), Untouched(v)
  PROVE  Stage(v)'
<1>1. CASE Asked(v) \/ Queued(v) \/ Cleared(v)  BY <1>1 DEF Stage, Untouched
<1>2. CASE Refused(v)  BY <1>2 DEF Stage, Untouched, Refused
<1>3. CASE Sending(v)  BY <1>3 DEF Stage, Untouched, Sending
<1>4. CASE Reporting(v)
  <2>1. Reporting(v)'  BY <1>4 DEF Untouched, Reporting
  <2>. QED  BY <2>1 DEF Stage
<1>5. CASE Failed(v)  BY <1>5 DEF Stage, Untouched, Failed
<1>6. CASE Answered(v)
  <2>1. Answered(v)'  BY <1>6 DEF Untouched, Answered
  <2>. QED  BY <2>1 DEF Stage
<1>. QED  BY <1>1, <1>2, <1>3, <1>4, <1>5, <1>6 DEF Stage

\* A step that changes neither stages nor whether they are kept track of.
LEMMA AllUntouched ==
  ASSUME StageInv, chosen' = chosen, page' # "left" => page # "left", lost' = lost,
         \A v \in chosen : Stage(v) => Untouched(v) \/ Stage(v)'
  PROVE  StageInv'
  BY UntouchedStage DEF StageInv

\* What puts, slots and posts have to do with the stage of a file.
LEMMA StageFacts ==
  ASSUME IInv, NEW v \in chosen, Stage(v)
  PROVE  /\ v \in puts => v \in Listed /\ rows[v].videoId
         /\ \A i \in DOMAIN slots : slots[i] = v => v \in Listed /\ rows[v].videoId
         /\ Telling(v) => Reporting(v)
<1>. USE DEF IInv
<1>1. /\ v \in puts => v \in Listed /\ rows[v].status = "uploading" /\ Untold(v)
      /\ \A i \in DOMAIN slots : slots[i] = v =>
           v \in Listed /\ rows[v].status = "queued" /\ Untold(v)
  BY DEF PutsInv, SlotsInv
<1>2. /\ Asked(v) => v \notin Listed /\ ~Telling(v)
      /\ Telling(v) => server[v] \notin Ends
  BY DEF Asked, AsksInv, Telling, PostsInv
<1>3. Reporting(v) => Telling(v)  BY DEF Reporting, Telling
<1>4. /\ "upload_completed" \in Ends /\ "upload_failed" \in Ends
      /\ Absent # "upload_completed"
  BY DEF Ends, Absent
<1>5. v \in Listed => Refused(v) \/ rows[v].videoId
  BY <1>2 DEF Stage, Queued, Sending, Reporting, Failed, Answered, Cleared
<1>6. Telling(v) => Reporting(v)
  <2>1. Telling(v) => ~Queued(v) /\ ~Sending(v)
    BY <1>1 DEF Queued, Sending, Untold
  <2>2. Telling(v) => ~Failed(v) /\ ~Answered(v) /\ ~Cleared(v) /\ ~Refused(v)
    BY <1>2, <1>4 DEF Failed, Answered, Cleared, Refused
  <2>. QED  BY <1>2, <2>1, <2>2 DEF Stage
<1>. QED  BY <1>1, <1>5, <1>6 DEF Refused

\* A chosen file is asked for, or refused.
LEMMA AddStage ==
  ASSUME IInv, StageInv, NEW v \in Video, fileUploadAdd(v)
  PROVE  StageInv'
<1>. USE DEF IInv
<1>1. /\ page = "open" /\ v \notin chosen /\ v \notin Listed /\ server[v] = Absent /\ ~Telling(v)
      /\ chosen' = chosen \cup {v}
      /\ UNCHANGED <<page, puts, slots, posts, gets, previous, server, lost>>
  BY DEF fileUploadAdd, FreshInv
<1>2. CASE addUploadFailureView(v) /\ UNCHANGED asks
  <2>1. /\ DOMAIN rows' = Listed \cup {v} /\ \A w \in Listed : rows'[w] = rows[w]
        /\ rows'[v] = FailureRow
    BY <1>1, <1>2 DEF addUploadFailureView, With, Listed
  <2>2. Refused(v)'  BY <1>1, <2>1 DEF Refused, FailureRow, Telling, Listed
  <2>3. ASSUME NEW w \in chosen  PROVE Untouched(w)
    BY <1>1, <1>2, <2>1 DEF Untouched, Asked, Queued, Sending, Telling, Cleared, ToBeListed, Listed
  <2>. QED  BY <1>1, <2>2, <2>3, UntouchedStage DEF StageInv, Stage
<1>3. CASE asks' = asks \cup {[video |-> v, answer |-> "none"]} /\ UNCHANGED rows
  <2>1. Asked(v)'
    <3>1. [video |-> v, answer |-> "none"].video = v  OBVIOUS
    <3>. QED  BY <1>3, <3>1 DEF Asked
  <2>2. ASSUME NEW w \in chosen  PROVE Untouched(w)
    BY <1>1, <1>3 DEF Untouched, Asked, Queued, Sending, Telling, Cleared, ToBeListed, Listed
  <2>. QED  BY <1>1, <2>1, <2>2, UntouchedStage DEF StageInv, Stage
<1>. QED  BY <1>2, <1>3 DEF fileUploadAdd

\* The answer about a file is on its way.
LEMMA PostStage ==
  ASSUME IInv, StageInv, NEW a \in asks, videos_post(a)
  PROVE  StageInv'
<1>. USE DEF IInv
<1>1. /\ a \in Ask /\ a.video \in chosen
      /\ UNCHANGED <<page, chosen, rows, puts, slots, posts, gets, previous, lost>>
  BY DEF videos_post, AsksInv, TypeOK
<1>2. PICK b : /\ asks' = (asks \ {a}) \cup {b} /\ b.video = a.video
               /\ server' = [server EXCEPT ![a.video] = "upload"] \/ UNCHANGED server
  <2>1. /\ [a EXCEPT !.answer = "url"].video = a.video
        /\ [a EXCEPT !.answer = "error"].video = a.video
    BY <1>1 DEF Ask
  <2>. QED  BY <2>1 DEF videos_post
<1>3. Asked(a.video)'
  <2>1. PICK v : v = a.video  OBVIOUS
  <2>2. Asked(v)'  BY <1>2, <2>1 DEF Asked
  <2>3. \E c \in asks' : c.video = a.video  BY <1>2
  <2>. QED  BY <2>3 DEF Asked
<1>4. ASSUME NEW w \in chosen, w # a.video  PROVE Untouched(w)
  <2>1. server'[w] = server[w]  BY <1>1, <1>2, <1>4 DEF TypeOK
  <2>2. Asked(w) => Asked(w)'  BY <1>2, <1>4 DEF Asked
  <2>. QED
    BY <1>1, <2>1, <2>2 DEF Untouched, Queued, Sending, Telling, Cleared, ToBeListed, Listed
<1>5. ASSUME NEW w \in chosen, w = a.video  PROVE Stage(w)'
  BY <1>2, <1>5 DEF Stage, Asked
<1>. QED  BY <1>1, <1>4, <1>5, AllUntouched

\* A file with a place to go to is sent or queued.
LEMMA UrlStage ==
  ASSUME IInv, StageInv, NEW a \in asks, UrlArrives(a)
  PROVE  StageInv'
<1>. USE DEF IInv
<1>. PICK v : v = a.video  OBVIOUS
<1>. DEFINE waits == Limit > 0 /\ Cardinality(puts) >= Limit
            r == [videoId |-> TRUE, sent |-> FALSE, uploading |-> FALSE,
                  status |-> IF waits THEN "queued" ELSE "uploading"]
<1>1. /\ v \in chosen \ Listed /\ v \in Video
      /\ asks' = asks \ {a} /\ page # "left"
  BY DEF UrlArrives, AsksInv, TypeOK, Ask, Open
<1>2. /\ UNCHANGED <<page, chosen, posts, gets, previous, server, lost>>
      /\ rows' = With(v, r)
      /\ slots' = IF waits THEN Append(slots, v) ELSE slots
      /\ puts' = IF waits THEN puts ELSE puts \cup {v}
  BY DEF UrlArrives
<1>3. /\ DOMAIN rows' = Listed \cup {v} /\ \A w \in Listed : rows'[w] = rows[w]
      /\ rows'[v].videoId
  BY <1>1, <1>2 DEF With, Listed
<1>. HIDE DEF waits, r
<1>4. /\ waits => /\ \A i \in DOMAIN slots : i \in DOMAIN slots' /\ slots'[i] = slots[i]
                  /\ \E i \in DOMAIN slots' : slots'[i] = v
      /\ ~waits => slots' = slots /\ v \in puts'
      /\ puts \subseteq puts'
  <2>1. slots \in Seq(Video)  BY DEF TypeOK
  <2>2. /\ \A i \in DOMAIN slots : i \in DOMAIN Append(slots, v) /\ Append(slots, v)[i] = slots[i]
        /\ Len(slots) + 1 \in DOMAIN Append(slots, v) /\ Append(slots, v)[Len(slots) + 1] = v
    BY <1>1, <2>1
  <2>. QED  BY <1>2, <2>2
<1>5. Queued(v)' \/ Sending(v)'  BY <1>3, <1>4 DEF Queued, Sending, Listed
<1>6. ASSUME NEW w \in chosen, w # v  PROVE Untouched(w)
  <2>1. Asked(w) => Asked(w)'  BY <1>1, <1>6 DEF Asked
  <2>2. w \in Listed' <=> w \in Listed  BY <1>3, <1>6 DEF Listed
  <2>3. Queued(w) => Queued(w)'  BY <1>3, <1>4 DEF Queued, Listed
  <2>4. Cleared(w) => Cleared(w)'  BY <1>2, <2>2 DEF Cleared, ToBeListed
  <2>. QED  BY <1>2, <1>3, <1>4, <2>1, <2>2, <2>3, <2>4 DEF Untouched, Telling, Listed
<1>. QED  BY <1>2, <1>5, <1>6, <1>1, AllUntouched DEF Stage

\* A refused file is shown as failed.
LEMMA ErrorStage ==
  ASSUME IInv, StageInv, NEW a \in asks, ErrorArrives(a)
  PROVE  StageInv'
<1>. USE DEF IInv
<1>. PICK v : v = a.video  OBVIOUS
<1>1. /\ v \in chosen \ Listed /\ server[v] = Absent /\ ~Telling(v)
      /\ asks' = asks \ {a} /\ addUploadFailureView(v) /\ page # "left"
      /\ UNCHANGED <<page, chosen, puts, slots, posts, gets, previous, server, lost>>
  BY DEF ErrorArrives, AsksInv, Open
<1>2. /\ DOMAIN rows' = Listed \cup {v} /\ \A w \in Listed : rows'[w] = rows[w]
      /\ rows'[v] = FailureRow
  BY <1>1 DEF addUploadFailureView, With, Listed
<1>3. Refused(v)'  BY <1>1, <1>2 DEF Refused, FailureRow, Telling, Listed
<1>4. ASSUME NEW w \in chosen, w # v  PROVE Untouched(w)
  <2>1. Asked(w) => Asked(w)'  BY <1>1, <1>4 DEF Asked
  <2>2. w \in Listed' <=> w \in Listed  BY <1>2, <1>4 DEF Listed
  <2>3. Queued(w) => Queued(w)'  BY <1>1, <1>2 DEF Queued, Listed
  <2>4. Cleared(w) => Cleared(w)'  BY <1>1, <2>2 DEF Cleared, ToBeListed
  <2>. QED  BY <1>1, <1>2, <2>1, <2>2, <2>3, <2>4 DEF Untouched, Telling, Listed
<1>. QED  BY <1>1, <1>3, <1>4, AllUntouched DEF Stage

\* A PUT ends: the server is going to be told, and the next file is sent.
LEMMA EndStage ==
  ASSUME IInv, StageInv, page # "left", ~lost, NEW v \in puts, NEW rs \in [Listed -> Row],
         NEW status \in {"upload_completed", "upload_failed"},
         sendStatusUpdate({v}, status), Slots(v, rs),
         \A w \in Listed : w # v => rs[w] = rows[w],
         rs[v].videoId = rows[v].videoId,
         status = "upload_failed" => rs[v].status = "failed",
         UNCHANGED <<page, chosen, asks, gets, previous, server, lost>>
  PROVE  StageInv'
<1>. USE DEF IInv
<1>1. /\ v \in Listed /\ v \in chosen /\ rows[v].videoId /\ Stage(v)
      /\ rows[v].status = "uploading"
  <2>1. v \in Listed /\ v \in Video /\ rows[v].status = "uploading"  BY DEF PutsInv, TypeOK
  <2>2. v \in chosen  BY <2>1 DEF FreshInv
  <2>3. Stage(v)  BY <2>2 DEF StageInv
  <2>. QED  BY <2>1, <2>2, <2>3, StageFacts
<1>. PICK p : p = [videos |-> {v}, status |-> status, served |-> FALSE]  OBVIOUS
<1>2. /\ posts' = posts \cup {p} /\ ~p.served /\ p.status = status
      /\ p.videos = {v}
  BY DEF sendStatusUpdate
<1>3. \A w \in chosen : w # v => (Telling(w)' => Telling(w))  BY <1>2 DEF Telling
<1>4. PICK h : slots # <<>> => h = Head(slots)  OBVIOUS
<1>5. slots # <<>> =>
        /\ 1 \in DOMAIN slots /\ slots[1] = h /\ h \in Listed /\ h # v /\ h \in Video
        /\ \A i \in DOMAIN slots : i # 1 => i - 1 \in DOMAIN slots' /\ slots'[i - 1] = slots[i]
        /\ puts' = (puts \ {v}) \cup {h}
        /\ rows' = [rs EXCEPT ![h].status = "uploading"]
  <2>. SUFFICES ASSUME slots # <<>>
                PROVE  /\ 1 \in DOMAIN slots /\ slots[1] = h /\ h \in Listed /\ h # v /\ h \in Video
                       /\ \A i \in DOMAIN slots : i # 1 => i - 1 \in DOMAIN slots' /\ slots'[i - 1] = slots[i]
                       /\ puts' = (puts \ {v}) \cup {h}
                       /\ rows' = [rs EXCEPT ![h].status = "uploading"]
    OBVIOUS
  <2>1. slots \in Seq(Video) /\ slots' = Tail(slots)  BY DEF TypeOK, Slots
  <2>2. /\ 1 \in DOMAIN slots /\ slots[1] = h
        /\ \A i \in DOMAIN slots : i # 1 => i - 1 \in DOMAIN Tail(slots) /\ Tail(slots)[i - 1] = slots[i]
    BY <2>1, <1>4
  <2>3. h \in Listed /\ rows[h].status = "queued"  BY <2>2 DEF SlotsInv
  <2>. QED  BY <2>1, <2>2, <2>3, <1>1, <1>4 DEF Slots, TypeOK
<1>6. slots = <<>> => /\ puts' = puts \ {v} /\ rows' = rs /\ slots' = slots
  BY DEF Slots
<1>7. /\ DOMAIN rows' = Listed
      /\ \A w \in Listed : w # v /\ (slots # <<>> => w # h) =>
           rows'[w].status = rows[w].status /\ rows'[w].videoId = rows[w].videoId
      /\ slots # <<>> => rows'[h].videoId = rows[h].videoId
      /\ rows'[v].videoId = rows[v].videoId /\ rows'[v].status = rs[v].status
  <2>1. CASE slots = <<>>  BY <1>1, <1>6, <2>1
  <2>2. CASE slots # <<>>
    <3>1. rs[h] \in Row /\ rs[h] = rows[h]  BY <1>5, <2>2
    <3>2. [rs[h] EXCEPT !.status = "uploading"].videoId = rs[h].videoId  BY <3>1 DEF Row
    <3>. QED  BY <1>1, <1>5, <2>2, <3>1, <3>2
  <2>. QED  BY <2>1, <2>2
<1>8. Reporting(v)'  BY <1>1, <1>2, <1>7 DEF Reporting, Listed
<1>9. ASSUME NEW w \in chosen, slots # <<>>, w = h  PROVE Sending(w)'
  <2>1. Stage(w)  BY DEF StageInv
  <2>2. rows[w].videoId  BY <1>5, <1>9, <2>1, StageFacts
  <2>. QED  BY <1>5, <1>7, <1>9, <2>2 DEF Sending, Listed
<1>10. ASSUME NEW w \in chosen, w # v, slots # <<>> => w # h  PROVE Untouched(w)
  <2>1. w \in Listed' <=> w \in Listed  BY <1>7 DEF Listed
  <2>2. Queued(w) => Queued(w)'  BY <1>5, <1>6, <1>7, <1>10, <2>1 DEF Queued
  <2>3. Cleared(w) => Cleared(w)'  BY <2>1 DEF Cleared, ToBeListed
  <2>4. w \in puts => w \in puts'  BY <1>5, <1>6, <1>10
  <2>. QED  BY <1>2, <1>3, <1>7, <1>10, <2>1, <2>2, <2>3, <2>4 DEF Untouched, Asked, Listed
<1>. QED  BY <1>8, <1>9, <1>10, AllUntouched DEF Stage

\* A file that was sent is going to be told of.
LEMMA DoneStage ==
  ASSUME IInv, StageInv, page # "left", ~lost, NEW v \in Video, fileUploadDone(v)
  PROVE  StageInv'
<1>. USE DEF IInv
<1>. PICK rs : rs = [rows EXCEPT ![v].sent = TRUE]  OBVIOUS
<1>1. v \in puts /\ v \in Listed  BY DEF fileUploadDone, PutsInv
<1>2. /\ rs \in [Listed -> Row] /\ \A w \in Listed : w # v => rs[w] = rows[w]
      /\ rs[v].videoId = rows[v].videoId
  BY <1>1 DEF TypeOK, Row, Listed
<1>. QED
  BY <1>1, <1>2, EndStage DEF fileUploadDone

\* A file that could not be sent is shown as failed.
LEMMA FailStage ==
  ASSUME IInv, StageInv, page # "left", ~lost, NEW v \in Video, fileUploadFail(v)
  PROVE  StageInv'
<1>. USE DEF IInv
<1>. PICK rs : rs = [rows EXCEPT ![v].status = "failed"]  OBVIOUS
<1>1. v \in puts /\ v \in Listed  BY DEF fileUploadFail, PutsInv
<1>2. /\ rs \in [Listed -> Row] /\ \A w \in Listed : w # v => rs[w] = rows[w]
      /\ rs[v].videoId = rows[v].videoId /\ rs[v].status = "failed"
  BY <1>1 DEF TypeOK, Row, Listed
<1>. QED
  BY <1>1, <1>2, EndStage DEF fileUploadFail

\* Only the files it is about were being told of.
LEMMA UpdateStage ==
  ASSUME IInv, StageInv, page # "left", ~lost, NEW p \in posts, send_video_status_update(p)
  PROVE  StageInv'
<1>. USE DEF IInv
<1>. PICK s : s = [p EXCEPT !.served = TRUE]  OBVIOUS
<1>1. /\ ~p.served /\ p \in Post
      /\ posts' = (posts \ {p}) \cup (IF p.status = "upload_completed" THEN {s} ELSE {})
      /\ UNCHANGED <<page, chosen, asks, rows, puts, slots, gets, previous, lost>>
      /\ \A w \in Video : server'[w] = IF w \in p.videos THEN p.status ELSE server[w]
  BY DEF send_video_status_update, TypeOK
<1>2. s.served /\ s.videos = p.videos  BY <1>1 DEF Post
<1>3. ASSUME NEW w \in chosen, w \in p.videos  PROVE Stage(w)'
  <2>1. Reporting(w)
    <3>1. Telling(w) /\ Stage(w)  BY <1>1, <1>3 DEF Telling, StageInv
    <3>. QED  BY <3>1, StageFacts
  <2>2. PICK q \in posts : /\ ~q.served /\ w \in q.videos
                           /\ \/ q.status = "upload_failed" /\ rows[w].status = "failed"
                              \/ q.status = "upload_completed"
    BY <2>1 DEF Reporting
  <2>3. q = p  BY <1>1, <1>3, <2>2 DEF PostsInv
  <2>4. server'[w] = p.status /\ w \in Listed /\ rows[w].videoId
    BY <1>1, <1>3, <2>1 DEF TypeOK, Reporting
  <2>5. CASE p.status = "upload_completed"
    <3>1. Answered(w)'  BY <1>1, <1>2, <1>3, <2>4, <2>5 DEF Answered, Listed
    <3>. QED  BY <3>1 DEF Stage
  <2>6. CASE p.status # "upload_completed"
    <3>1. Failed(w)'  BY <1>1, <2>2, <2>3, <2>4, <2>6 DEF Failed, Listed
    <3>. QED  BY <3>1 DEF Stage
  <2>. QED  BY <2>5, <2>6
<1>4. ASSUME NEW w \in chosen, w \notin p.videos  PROVE Untouched(w)
  <2>1. server'[w] = server[w]  BY <1>1, <1>4 DEF TypeOK
  <2>2. Telling(w)' => Telling(w)  BY <1>1, <1>2, <1>4 DEF Telling
  <2>. QED
    BY <1>1, <1>4, <2>1, <2>2 DEF Untouched, Asked, Queued, Sending, Cleared, ToBeListed, Listed
<1>. QED  BY <1>1, <1>3, <1>4, AllUntouched

\* Only completed files are cleared, and the list asked for will have them.
LEMMA CompletedStage ==
  ASSUME IInv, StageInv, NEW p \in posts, Completed(p)
  PROVE  StageInv'
<1>. USE DEF IInv
<1>1. /\ p.served /\ posts' = posts \ {p} /\ page # "left"
      /\ rows' = Without(p.videos)
      /\ UNCHANGED <<page, chosen, asks, puts, slots, previous, server, lost>>
  BY DEF Completed, Open
<1>2. /\ DOMAIN rows' = Listed \ p.videos
      /\ \A w \in Listed \ p.videos : rows'[w] = rows[w]
  BY <1>1 DEF Without, Restrict, Listed
<1>3. gets' # <<>> /\ ~gets'[Len(gets')].served
  <2>1. PICK g : g = [served |-> FALSE, videos |-> server]  OBVIOUS
  <2>2. gets' = Append(gets, g) /\ gets \in Seq(Get) /\ g \in Get /\ ~g.served
    BY <2>1 DEF Completed, TypeOK, Get
  <2>. QED  BY <2>2
<1>4. \A w : ToBeListed(w)'  BY <1>3 DEF ToBeListed
<1>5. ASSUME NEW w \in chosen, w \in p.videos  PROVE Stage(w)'
  <2>1. server[w] = "upload_completed"  BY <1>1, <1>5 DEF PostsInv
  <2>2. Cleared(w)'  BY <1>1, <1>2, <1>4, <1>5, <2>1 DEF Cleared, Listed
  <2>. QED  BY <2>2 DEF Stage
<1>6. ASSUME NEW w \in chosen, w \notin p.videos  PROVE Untouched(w)
  <2>1. w \in Listed' <=> w \in Listed  BY <1>2, <1>6 DEF Listed
  <2>2. Cleared(w) => Cleared(w)'  BY <1>1, <1>4, <2>1 DEF Cleared
  <2>. QED
    BY <1>1, <1>2, <1>6, <2>1, <2>2 DEF Untouched, Asked, Queued, Sending, Telling, Listed
<1>. QED  BY <1>1, <1>5, <1>6, AllUntouched

\* The server answers from what it knows by then.
LEMMA IndexStage ==
  ASSUME IInv, StageInv, NEW i \in DOMAIN gets, videos_index_json(i)
  PROVE  StageInv'
<1>. USE DEF IInv
<1>. PICK g : g = [served |-> TRUE, videos |-> server]  OBVIOUS
<1>1. /\ gets' = [gets EXCEPT ![i] = g] /\ g.videos = server
      /\ UNCHANGED <<page, chosen, asks, rows, puts, slots, posts, previous, server, lost>>
  BY DEF videos_index_json
<1>2. /\ gets # <<>> /\ gets' # <<>> /\ Len(gets') = Len(gets) /\ Len(gets) \in DOMAIN gets
      /\ gets'[Len(gets)] = IF i = Len(gets) THEN g ELSE gets[Len(gets)]
  <2>1. gets \in Seq(Get)  BY DEF TypeOK
  <2>2. /\ DOMAIN gets = 1..Len(gets) /\ DOMAIN gets' = 1..Len(gets) /\ i \in 1..Len(gets)
        /\ Len(gets) \in Nat /\ gets # <<>>
    BY <1>1, <2>1
  <2>3. gets' \in Seq(Get \cup {g}) /\ Len(gets') = Len(gets)  BY <1>1, <2>1
  <2>. QED  BY <1>1, <2>1, <2>2, <2>3
<1>3. ASSUME NEW w \in chosen  PROVE Cleared(w) => Cleared(w)'
  BY <1>1, <1>2 DEF Cleared, ToBeListed, Listed
<1>4. ASSUME NEW w \in chosen  PROVE Untouched(w)
  BY <1>1, <1>3 DEF Untouched, Asked, Queued, Sending, Telling, Listed
<1>. QED  BY <1>1, <1>4, AllUntouched

\* The list that arrives is the first asked for, so the last is still under
\* way, or it is the last and the page lists what it says.
LEMMA ListStage ==
  ASSUME IInv, StageInv, NEW i \in DOMAIN gets, onFileUploadDone(i)
  PROVE  StageInv'
<1>. USE DEF IInv
<1>1. /\ gets[i].served /\ gets' = RemoveAt(gets, i) /\ page # "left"
      /\ i > 1 => "reorder" \in Allows
      /\ previous' = [v \in Video |-> IF v \in Listed /\ rows[v].videoId THEN Absent
                                      ELSE gets[i].videos[v]]
      /\ UNCHANGED <<page, chosen, asks, rows, puts, slots, posts, server, lost>>
  BY DEF onFileUploadDone, Open
<1>2. ASSUME "reorder" \notin Allows, NEW w \in chosen, w \notin Listed, ToBeListed(w)
      PROVE  ToBeListed(w)'
  <2>1. gets \in Seq(Get) /\ i = 1 /\ w \in Video /\ Len(gets) \in Nat /\ Len(gets) >= 1
    BY <1>1, <1>2 DEF TypeOK
  <2>2. /\ gets # <<>> /\ gets' \in Seq(Get) /\ Len(gets') = Len(gets) - 1
        /\ \A k \in 1..(Len(gets) - 1) : gets'[k] = gets[k + 1]
    <3>1. gets # <<>>  BY <2>1
    <3>. QED  BY <1>1, <2>1, <3>1, RemoveHeadAt
  <2>3. CASE Len(gets) = 1
    <3>1. gets' = <<>>  BY <2>2, <2>3
    <3>2. gets[1].videos[w] = "upload_completed"  BY <1>1, <1>2, <2>1, <2>2, <2>3 DEF ToBeListed
    <3>. QED  BY <1>1, <1>2, <2>1, <3>1, <3>2 DEF ToBeListed
  <2>4. CASE Len(gets) # 1
    <3>1. gets' # <<>> /\ gets'[Len(gets')] = gets[Len(gets)]
      BY <2>1, <2>2, <2>4
    <3>. QED  BY <1>2, <2>2, <3>1 DEF ToBeListed
  <2>. QED  BY <2>3, <2>4
<1>3. ASSUME NEW w \in chosen  PROVE Cleared(w) => Cleared(w)'
  BY <1>1, <1>2 DEF Cleared, Listed
<1>4. ASSUME NEW w \in chosen  PROVE Untouched(w)
  BY <1>1, <1>3 DEF Untouched, Asked, Queued, Sending, Telling, Listed
<1>. QED  BY <1>1, <1>4, AllUntouched

\* Progress, and asking whether to leave, end no stage.
LEMMA MarkStage ==
  ASSUME IInv, StageInv, UNCHANGED vars \/ onBeforeUnload \/ Stay
                         \/ \E v \in Video : fileUploadProgress(v)
  PROVE  StageInv'
<1>. USE DEF IInv
<1>1. /\ page' # "left" => page # "left"
      /\ UNCHANGED <<chosen, asks, puts, slots, posts, gets, previous, server, lost>>
  BY DEF vars, onBeforeUnload, Stay, fileUploadProgress
<1>2. /\ Listed' = Listed
      /\ \A w \in Listed : /\ rows'[w].status = rows[w].status
                           /\ rows'[w].videoId = rows[w].videoId
  <2>1. CASE UNCHANGED rows  BY <2>1 DEF Listed
  <2>2. CASE onBeforeUnload
    BY <2>2 DEF onBeforeUnload, TypeOK, Row, Listed
  <2>3. ASSUME NEW v \in Video, fileUploadProgress(v)
        PROVE  /\ Listed' = Listed
               /\ \A w \in Listed : /\ rows'[w].status = rows[w].status
                                    /\ rows'[w].videoId = rows[w].videoId
    BY <2>3 DEF fileUploadProgress, PutsInv, TypeOK, Row, Listed
  <2>. QED  BY <2>1, <2>2, <2>3 DEF vars, Stay
<1>3. ASSUME NEW w \in chosen  PROVE Untouched(w)
  BY <1>1, <1>2 DEF Untouched, Asked, Queued, Sending, Telling, Cleared, ToBeListed
<1>. QED  BY <1>1, <1>3, AllUntouched

\* Every step keeps every file in a stage.
LEMMA NextStage ==
  ASSUME IInv, StageInv, [Next]_vars
  PROVE  StageInv'
<1>1. CASE page # "left" /\ ~lost
  <2>1. ASSUME NEW v \in Video, \/ fileUploadAdd(v) \/ fileUploadDone(v) \/ fileUploadFail(v)
        PROVE  StageInv'
    BY <1>1, <2>1, AddStage, DoneStage, FailStage
  <2>2. ASSUME NEW a \in asks, videos_post(a) \/ UrlArrives(a) \/ ErrorArrives(a)
        PROVE  StageInv'
    BY <2>2, PostStage, UrlStage, ErrorStage
  <2>3. ASSUME NEW p \in posts, send_video_status_update(p) \/ Completed(p)
        PROVE  StageInv'
    BY <1>1, <2>3, UpdateStage, CompletedStage
  <2>4. ASSUME NEW i \in DOMAIN gets, videos_index_json(i) \/ onFileUploadDone(i)
        PROVE  StageInv'
    BY <2>4, IndexStage, ListStage
  <2>5. CASE Lose \/ onUnload  BY <2>5 DEF Lose, onUnload, StageInv
  <2>6. CASE UNCHANGED vars \/ onBeforeUnload \/ Stay \/ \E v \in Video : fileUploadProgress(v)
    BY <2>6, MarkStage
  <2>. QED  BY <2>1, <2>2, <2>3, <2>4, <2>5, <2>6 DEF Next
<1>2. CASE page = "left" \/ lost
  <2>1. /\ page' = page \/ page # "left" \/ page' = "left"
        /\ lost' = lost \/ lost' = TRUE
    BY DEF Next, vars, fileUploadAdd, fileUploadProgress, fileUploadDone, fileUploadFail,
           videos_post, UrlArrives, ErrorArrives, send_video_status_update, Completed,
           videos_index_json, onFileUploadDone, Lose, onBeforeUnload, Stay, onUnload
  <2>. QED  BY <1>2, <2>1 DEF StageInv
<1>. QED  BY <1>1, <1>2

\* Until the page is left or a request is lost, every chosen file is in one
\* of the stages.
THEOREM EveryFileHasAStage ==
  ASSUME "linger" \notin Allows
  PROVE  Spec => []StageInv
<1>1. Init => StageInv  BY DEF Init, StageInv
<1>2. IInv /\ StageInv /\ [Next]_vars => StageInv'  BY NextStage
<1>. QED  BY <1>1, <1>2, Invariant, PTL DEF Spec

\* Files only wait while others are being sent.
BusyInv == page # "left" /\ slots # <<>> => puts # {}

\* A slot is given to the next file whenever a PUT ends.
LEMMA NextBusy ==
  ASSUME BusyInv, IInv, [Next]_vars
  PROVE  BusyInv'
<1>1. ASSUME NEW a \in asks, UrlArrives(a)
      PROVE  BusyInv'
  <2>1. Cardinality({}) = 0  BY FS_EmptySet
  <2>2. Limit > 0 /\ Cardinality(puts) >= Limit => puts # {}  BY <2>1, UploadsAssumption
  <2>. QED  BY <1>1, <2>2 DEF UrlArrives, BusyInv
<1>2. ASSUME NEW v, NEW rs, Slots(v, rs)
      PROVE  BusyInv'
  BY <1>2 DEF Slots, BusyInv
<1>3. ASSUME NEW v \in Video, fileUploadDone(v) \/ fileUploadFail(v)
      PROVE  BusyInv'
  BY <1>2, <1>3 DEF fileUploadDone, fileUploadFail
<1>4. \/ \E a \in asks : UrlArrives(a)
      \/ \E v \in Video : fileUploadDone(v) \/ fileUploadFail(v)
      \/ page' = "left"
      \/ UNCHANGED <<puts, slots>> /\ (page' # "left" => page # "left")
  BY DEF Next, vars, fileUploadAdd, fileUploadProgress, videos_post, ErrorArrives,
         send_video_status_update, Completed, videos_index_json, onFileUploadDone,
         Lose, onBeforeUnload, Stay, onUnload
<1>. QED  BY <1>1, <1>3, <1>4 DEF BusyInv

\* When nothing is under way, every file that was chosen is a failure that
\* the page shows, and the server knows of if it has the video, or cleared.
LEMMA QuietStage ==
  ASSUME IInv, StageInv, BusyInv, page = "open", Quiet, ~lost, NEW v \in chosen
  PROVE  Refused(v) \/ Failed(v) \/ (Cleared(v) /\ gets = <<>>)
<1>1. asks = {} /\ puts = {} /\ posts = {} /\ gets = <<>>  BY DEF Quiet
<1>2. slots = <<>>  BY <1>1 DEF BusyInv
<1>3. DOMAIN slots = {}  BY <1>2
<1>4. Stage(v)  BY DEF StageInv
<1>. QED
  BY <1>1, <1>3, <1>4 DEF Stage, Asked, Queued, Sending, Reporting, Answered

\* When nothing is under way, the rows that are left are those that failed,
\* and the server knows of just those that it has the video of: no end of an
\* upload (fileUploadDone, fileUploadFail) is lost between the plugin's
\* queue, the row and the status updates.
THEOREM FailuresAreShown ==
  ASSUME "linger" \notin Allows
  PROVE  Spec => []FailuresAgree
<1>1. Init => StageInv /\ BusyInv  BY DEF Init, StageInv, BusyInv
<1>2. IInv /\ BusyInv /\ [Next]_vars => BusyInv'  BY NextBusy
<1>3. IInv /\ StageInv /\ BusyInv => FailuresAgree
  <2>. SUFFICES ASSUME IInv, StageInv, BusyInv, page = "open", Quiet, ~lost, NEW v \in chosen
                PROVE  /\ v \in Listed => rows[v].status = "failed"
                       /\ server[v] = "upload_failed" <=> v \in Listed /\ rows[v].videoId
    BY DEF FailuresAgree
  <2>. QED  BY QuietStage DEF Refused, Failed, Cleared, Absent
<1>. QED  BY <1>1, <1>2, <1>3, Invariant, EveryFileHasAStage, PTL DEF Spec

\* When nothing is under way and answers have not overtaken each other, every
\* completed upload is listed as such with the previous ones, although the
\* list is fetched again after every upload (onFileUploadDone).
THEOREM CompletedAreShown ==
  ASSUME "linger" \notin Allows, "reorder" \notin Allows
  PROVE  Spec => []CompletedAreListed
<1>1. Init => StageInv /\ BusyInv  BY DEF Init, StageInv, BusyInv
<1>2. IInv /\ BusyInv /\ [Next]_vars => BusyInv'  BY NextBusy
<1>3. IInv /\ StageInv /\ BusyInv => CompletedAreListed
  <2>. SUFFICES ASSUME IInv, StageInv, BusyInv, page = "open", Quiet, ~lost,
                       NEW v \in chosen \ Listed
                PROVE  server[v] = "upload_completed" /\ previous[v] = server[v]
    BY DEF CompletedAreListed
  <2>. QED  BY QuietStage DEF Refused, Failed, Cleared, ToBeListed
<1>. QED  BY <1>1, <1>2, <1>3, Invariant, EveryFileHasAStage, PTL DEF Spec
=============================================================================
