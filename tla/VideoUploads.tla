---------------------------- MODULE VideoUploads ----------------------------
(***************************************************************************)
(* The video uploads page of Studio: the author drops files, the page asks *)
(* the server for a URL for each (videos_post), the file upload plugin     *)
(* PUTs them to the store, a few at a time, and the page tells the server  *)
(* how each one ended (active_video_upload_list.js).  Below the active     *)
(* uploads is the list of the previous ones, fetched again after every     *)
(* upload (factories/videos_index.js).                                     *)
(***************************************************************************)
EXTENDS Integers, Sequences, FiniteSets, SequencesExt

CONSTANTS
  Video,   \* the files the author may choose, each once
  Limit,   \* concurrentUploadLimit; 0 for none
  Allows   \* what may happen that the page relies on not to happen

(* "linger":  an upload goes on in the page while the browser asks whether *)
(*            to leave it,                                                 *)
(* "reorder": the previous uploads asked for first arrive last,            *)
(* "lose":    a request other than a PUT is lost, once.                    *)
Disorder == {"linger", "reorder", "lose"}

(* With a limit of 1 the plugin has no queue of slots but chains promises. *)
ASSUME UploadsAssumption ==
  /\ Limit \in Nat \ {1}
  /\ Allows \subseteq Disorder

VARIABLES
  page,     \* "open", "asking" whether to leave, or "left"
  chosen,   \* videos that were chosen
  asks,     \* requests for a URL under way
  rows,     \* collection: the model of each active upload
  puts,     \* PUTs under way
  slots,    \* the plugin: uploads that wait for one to end
  posts,    \* status updates under way
  gets,     \* requests for the previous uploads under way, in order
  previous, \* the previous uploads, with their status, as the page lists them
  server,   \* edx-val: the status of each video
  lost

vars == <<page, chosen, asks, rows, puts, slots, posts, gets, previous, server, lost>>

Absent == "absent"
Ends == {"upload_completed", "upload_failed", "upload_cancelled"}
Statuses == {Absent, "upload"} \cup Ends

(* `uploading' is the attribute, set by onBeforeUnload.                    *)
Row == [videoId : BOOLEAN, status : {"queued", "uploading", "failed"}, sent : BOOLEAN,
        uploading : BOOLEAN]
Ask == [video : Video, answer : {"none", "url", "error"}]
Post == [videos : SUBSET Video, status : Ends, served : BOOLEAN]
Get == [served : BOOLEAN, videos : [Video -> Statuses]]

Listed == DOMAIN rows
With(v, r) == [w \in Listed \cup {v} |-> IF w = v THEN r ELSE rows[w]]
Without(vs) == Restrict(rows, Listed \ vs)
Open == page = "open" \/ (page = "asking" /\ "linger" \in Allows)

Init ==
  /\ page = "open" /\ chosen = {} /\ asks = {}
  /\ rows = <<>>
  /\ puts = {} /\ slots = <<>> /\ posts = {} /\ gets = <<>>
  /\ previous = [v \in Video |-> Absent]
  /\ server = [v \in Video |-> Absent]
  /\ lost = FALSE

-----------------------------------------------------------------------------
(* Choosing files: each is valid or not, and asks for a URL of its own.    *)

FailureRow == [videoId |-> FALSE, status |-> "failed", sent |-> FALSE, uploading |-> FALSE]
\* Mutant: the status of a failed row is the one that is sent to the server.
FailureRowOfServer == [FailureRow EXCEPT !.status = "upload_failed"]
addUploadFailureViewOfServer(v) == rows' = With(v, FailureRowOfServer)
addUploadFailureView(v) == rows' = With(v, FailureRow)

fileUploadAdd(v) ==
  /\ page = "open" /\ v \notin chosen
  /\ chosen' = chosen \cup {v}
  /\ \/ addUploadFailureView(v) /\ UNCHANGED asks
     \/ asks' = asks \cup {[video |-> v, answer |-> "none"]} /\ UNCHANGED rows
  /\ UNCHANGED <<page, puts, slots, posts, gets, previous, server, lost>>

(* Server: the video is created before its URL is returned.                *)
videos_post(a) ==
  /\ a.answer = "none"
  /\ \/ /\ server' = [server EXCEPT ![a.video] = "upload"]
        /\ asks' = (asks \ {a}) \cup {[a EXCEPT !.answer = "url"]}
     \/ /\ asks' = (asks \ {a}) \cup {[a EXCEPT !.answer = "error"]}
        /\ UNCHANGED server
  /\ UNCHANGED <<page, chosen, rows, puts, slots, posts, gets, previous, lost>>

(* The URL arrives: `add' is called again, and the plugin sends the file   *)
(* or queues it.                                                           *)
UrlArrives(a) ==
  LET v == a.video
      waits == Limit > 0 /\ Cardinality(puts) >= Limit
  IN /\ Open /\ a.answer = "url"
     /\ asks' = asks \ {a}
     /\ rows' = With(v, [videoId |-> TRUE, sent |-> FALSE, uploading |-> FALSE,
                          status |-> IF waits THEN "queued" ELSE "uploading"])
     /\ slots' = IF waits THEN Append(slots, v) ELSE slots
     /\ puts' = IF waits THEN puts ELSE puts \cup {v}
     /\ UNCHANGED <<page, chosen, posts, gets, previous, server, lost>>

ErrorArrives(a) ==
  /\ Open /\ a.answer = "error"
  /\ asks' = asks \ {a}
  /\ addUploadFailureView(a.video)
  /\ UNCHANGED <<page, chosen, puts, slots, posts, gets, previous, server, lost>>

-----------------------------------------------------------------------------
(* Uploading: the whole file has been sent before the store answers.       *)

fileUploadProgress(v) ==
  /\ Open /\ v \in puts /\ ~rows[v].sent
  /\ rows' = [rows EXCEPT ![v].sent = TRUE]
  /\ UNCHANGED <<page, chosen, asks, puts, slots, posts, gets, previous, server, lost>>

(* The plugin, when a PUT has ended: the first in the queue is sent.       *)
Slots(v, rs) ==
  IF slots = <<>>
  THEN /\ puts' = puts \ {v} /\ rows' = rs
       /\ UNCHANGED slots
  ELSE /\ puts' = (puts \ {v}) \cup {Head(slots)}
       /\ slots' = Tail(slots)
       /\ rows' = [rs EXCEPT ![Head(slots)].status = "uploading"]

sendStatusUpdate(vs, status) ==
  posts' = posts \cup {[videos |-> vs, status |-> status, served |-> FALSE]}

fileUploadDone(v) ==
  /\ Open /\ v \in puts
  /\ sendStatusUpdate({v}, "upload_completed")
  /\ Slots(v, [rows EXCEPT ![v].sent = TRUE])
  /\ UNCHANGED <<page, chosen, asks, gets, previous, server, lost>>

\* Mutant: the server is not told of the failure.
fileUploadFailUntold(v) ==
  /\ Open /\ v \in puts
  /\ Slots(v, [rows EXCEPT ![v].status = "failed"])
  /\ UNCHANGED <<page, chosen, asks, posts, gets, previous, server, lost>>

\* Mutant: the slot is not passed on.
fileUploadFailStuck(v) ==
  /\ Open /\ v \in puts
  /\ sendStatusUpdate({v}, "upload_failed")
  /\ puts' = puts \ {v} /\ rows' = [rows EXCEPT ![v].status = "failed"]
  /\ UNCHANGED <<page, chosen, asks, slots, gets, previous, server, lost>>

fileUploadFail(v) ==
  /\ Open /\ v \in puts
  /\ sendStatusUpdate({v}, "upload_failed")
  /\ Slots(v, [rows EXCEPT ![v].status = "failed"])
  /\ UNCHANGED <<page, chosen, asks, gets, previous, server, lost>>

-----------------------------------------------------------------------------
(* Status updates: only the answer to "upload_completed" is waited for.    *)

send_video_status_update(p) ==
  /\ ~p.served
  /\ server' = [v \in Video |-> IF v \in p.videos THEN p.status ELSE server[v]]
  /\ posts' = (posts \ {p}) \cup
       (IF p.status = "upload_completed" THEN {[p EXCEPT !.served = TRUE]} ELSE {})
  /\ UNCHANGED <<page, chosen, asks, rows, puts, slots, gets, previous, lost>>

\* Mutant: the previous uploads are not asked for.
CompletedUnfetched(p) ==
  /\ Open /\ p.served
  /\ posts' = posts \ {p}
  /\ rows' = Without(p.videos)
  /\ UNCHANGED <<page, chosen, asks, puts, slots, gets, previous, server, lost>>

(* The row is completed and cleared (clearSuccessful), and the previous    *)
(* uploads are asked for (onFileUploadDone).                               *)
Completed(p) ==
  /\ Open /\ p.served
  /\ posts' = posts \ {p}
  /\ rows' = Without(p.videos)
  /\ gets' = Append(gets, [served |-> FALSE, videos |-> server])
  /\ UNCHANGED <<page, chosen, asks, puts, slots, previous, server, lost>>

videos_index_json(i) ==
  /\ ~gets[i].served
  /\ gets' = [gets EXCEPT ![i] = [served |-> TRUE, videos |-> server]]
  /\ UNCHANGED <<page, chosen, asks, rows, puts, slots, posts, previous, server, lost>>

(* The list is replaced by the videos that have no row.                    *)
onFileUploadDone(i) ==
  /\ Open /\ gets[i].served
  /\ i > 1 => "reorder" \in Allows
  /\ gets' = RemoveAt(gets, i)
  /\ previous' = [v \in Video |-> IF v \in Listed /\ rows[v].videoId THEN Absent
                                  ELSE gets[i].videos[v]]
  /\ UNCHANGED <<page, chosen, asks, rows, puts, slots, posts, server, lost>>

(* Before it is served or after; the page reports it at most.              *)
Lose ==
  /\ "lose" \in Allows /\ ~lost
  /\ lost' = TRUE
  /\ \/ \E p \in posts : posts' = posts \ {p} /\ UNCHANGED <<asks, rows, gets>>
     \/ \E a \in asks : /\ asks' = asks \ {a}
                        /\ IF Open THEN addUploadFailureView(a.video) ELSE UNCHANGED rows
                        /\ UNCHANGED <<posts, gets>>
     \/ \E i \in DOMAIN gets : gets' = RemoveAt(gets, i) /\ UNCHANGED <<asks, rows, posts>>
  /\ UNCHANGED <<page, chosen, puts, slots, previous, server>>

-----------------------------------------------------------------------------
(* Leaving the page.                                                       *)

(* ActiveVideoUpload.uploading(): the progress is not yet 1.               *)
uploading(r) == r.status = "uploading" /\ ~r.sent

\* Mutant: a mark is never taken back.
onBeforeUnloadMarksOnly ==
  /\ page = "open"
  /\ rows' = [v \in Listed |-> [rows[v] EXCEPT !.uploading = @ \/ uploading(rows[v])]]
  /\ page' = "asking"
  /\ UNCHANGED <<chosen, asks, puts, slots, posts, gets, previous, server, lost>>

\* The marks of an earlier question are replaced.
onBeforeUnload ==
  /\ page = "open"
  /\ rows' = [v \in Listed |-> [rows[v] EXCEPT !.uploading = uploading(rows[v])]]
  /\ page' = "asking"
  /\ UNCHANGED <<chosen, asks, puts, slots, posts, gets, previous, server, lost>>

Stay ==
  /\ page = "asking"
  /\ \E v \in Listed : uploading(rows[v])
  /\ page' = "open"
  /\ UNCHANGED <<chosen, asks, rows, puts, slots, posts, gets, previous, server, lost>>

\* Mutant: one of the uploads is cancelled.
onUnloadOne ==
  /\ page = "asking" /\ page' = "left"
  /\ LET vs == {v \in Listed : rows[v].uploading}
     IN IF vs = {} THEN UNCHANGED posts
        ELSE sendStatusUpdate({CHOOSE v \in vs : TRUE}, "upload_cancelled")
  /\ puts' = {} /\ gets' = <<>>
  /\ UNCHANGED <<chosen, asks, rows, slots, previous, server, lost>>

(* The PUTs are aborted; requests the server has not seen may yet be seen. *)
onUnload ==
  /\ page = "asking" /\ page' = "left"
  /\ LET vs == {v \in Listed : rows[v].uploading}
     IN IF vs = {} THEN UNCHANGED posts ELSE sendStatusUpdate(vs, "upload_cancelled")
  /\ puts' = {} /\ gets' = <<>>
  /\ UNCHANGED <<chosen, asks, rows, slots, previous, server, lost>>

-----------------------------------------------------------------------------
Next ==
  \/ \E v \in Video : \/ fileUploadAdd(v)
                      \/ fileUploadProgress(v)
                      \/ fileUploadDone(v)
                      \/ fileUploadFail(v)
  \/ \E a \in asks : \/ videos_post(a)
                     \/ UrlArrives(a)
                     \/ ErrorArrives(a)
  \/ \E p \in posts : \/ send_video_status_update(p)
                      \/ Completed(p)
  \/ \E i \in DOMAIN gets : \/ videos_index_json(i)
                            \/ onFileUploadDone(i)
  \/ Lose
  \/ onBeforeUnload
  \/ Stay
  \/ onUnload

(* The server and the store answer every request, and a browser that asks  *)
(* gets an answer.  What arrives while it asks is kept for the page, so a  *)
(* handler that can run again and again does run: SF.                      *)
Fairness ==
  /\ WF_vars(\E a \in asks : videos_post(a))
  /\ WF_vars(\E p \in posts : send_video_status_update(p))
  /\ WF_vars(\E i \in DOMAIN gets : videos_index_json(i))
  /\ WF_vars(Stay \/ onUnload)
  /\ SF_vars(\E v \in puts : fileUploadDone(v) \/ fileUploadFail(v))
  /\ SF_vars(\E a \in asks : UrlArrives(a) \/ ErrorArrives(a))
  /\ SF_vars(\E p \in posts : Completed(p))
  /\ SF_vars(\E i \in DOMAIN gets : onFileUploadDone(i))

Spec == Init /\ [][Next]_vars
FairSpec == Spec /\ Fairness
-----------------------------------------------------------------------------
TypeOK ==
  /\ page \in {"open", "asking", "left"}
  /\ chosen \subseteq Video
  /\ asks \subseteq Ask
  /\ Listed \subseteq Video /\ rows \in [Listed -> Row]
  /\ puts \subseteq Video
  /\ slots \in Seq(Video)
  /\ posts \subseteq Post
  /\ gets \in Seq(Get)
  /\ previous \in [Video -> Statuses]
  /\ server \in [Video -> Statuses]
  /\ lost \in BOOLEAN

(* Once the server knows how an upload ended, no update, of an author who  *)
(* leaves or of an upload that ends, says otherwise.                       *)
EndIsFinal == [][\A v \in Video : server[v] \in Ends => server'[v] = server[v]]_vars

(* Nothing is under way that the page should hear of.                      *)
Quiet == asks = {} /\ puts = {} /\ posts = {} /\ gets = <<>>

(* When nothing is under way, the active uploads are those that failed,    *)
(* and those the server knows of it knows to have failed.                  *)
FailuresAgree ==
  page = "open" /\ Quiet /\ ~lost =>
    \A v \in chosen :
      /\ v \in Listed => rows[v].status = "failed"
      /\ server[v] = "upload_failed" <=> v \in Listed /\ rows[v].videoId

(* When nothing is under way, every upload completed is listed with the    *)
(* previous ones, and as completed.                                        *)
CompletedAreListed ==
  page = "open" /\ Quiet /\ ~lost =>
    \A v \in chosen \ Listed : server[v] = "upload_completed" /\ previous[v] = server[v]

(* Of the uploads left, those that stay "upload" for the server were still *)
(* queued, or wholly sent and not answered, or had not got their URL.      *)
LeftBehind ==
  page = "left" /\ posts = {} /\ ~lost =>
    \A v \in Video : server[v] = "upload" /\ v \in Listed =>
      rows[v].status = "queued" \/ (rows[v].status = "uploading" /\ rows[v].sent)

(* In the end, unless the page is left or an answer lost, each file chosen *)
(* is shown as failed or as a previous upload that was completed.          *)
Shown(v) == \/ (v \in Listed /\ rows[v].status = "failed")
            \/ previous[v] = "upload_completed"
UploadsSettle == <>[](page = "left" \/ lost \/ \A v \in chosen : Shown(v))
=============================================================================
