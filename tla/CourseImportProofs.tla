------------------------- MODULE CourseImportProofs -------------------------
(***************************************************************************)
(* Theorems about CourseImport: as long as the author chooses archives of  *)
(* different names, waits for pending answers and heeds the warning, what  *)
(* page and cookie say of the last import is true, whatever is slow or     *)
(* lost, for any number of imports and reloads.                            *)
(***************************************************************************)
EXTENDS CourseImport, FiniteSetTheorems, TLAPS

\* What the author has to do for his part.
Careful == Allows \cap {"same", "hurry", "leave"} = {}

(***************************************************************************)
(* The inductive invariant.                                                *)
(***************************************************************************)

\* The last import has failed, or was never received.
Over == ~LastImport("succeeded") /\ ~LastImport("running") /\ ~Uploading

NoTask == \A i \in DOMAIN tasks : tasks[i].import # Current

Reached(sg) == \E i \in DOMAIN tasks : tasks[i].import = Current /\ tasks[i].steps + 1 >= sg

\* A status that is true of the last import remains so.
True(status) ==
  /\ status = SUCCEEDED => LastImport("succeeded")
  /\ status < UPLOADING => Over
  /\ status > UPLOADING => Reached(status) \/ status = SUCCEEDED

NamesInv == \A i, j \in DOMAIN imports : imports[i] = imports[j] => i = j

TasksInv ==
  \A i \in DOMAIN tasks :
    /\ tasks[i].import \in DOMAIN imports /\ tasks[i].file = imports[tasks[i].import]
    /\ \A j \in DOMAIN tasks : tasks[j].import = tasks[i].import => i = j

\* A refusal in the session is that of an upload without a task.
SessionInv ==
  \A f \in File : session[f] = -1 =>
    f \in Range(imports) /\ \A i \in DOMAIN tasks : tasks[i].file # f

UploadsInv ==
  \A u \in uploads :
    /\ u.mine /\ u.import = Current /\ uploads = {u} /\ imports # <<>> /\ NoTask
    /\ u.phase \in {"sending", "received"} =>
         /\ session[imports[Current]] = 0 /\ ~completed
         /\ warns /\ state = IN_PROGRESS /\ stage = UPLOADING

GetsInv ==
  \A g \in gets :
    /\ imports # <<>> /\ g.file = imports[Current]
    /\ g.status # None => True(g.status)
    /\ g.resumes => uploads = {} /\ (g.status = UPLOADING => NoTask)

TimersInv == \A t \in timers : True(t.status)

SubmitInv ==
  button = "submit" =>
    /\ state = READY /\ stage = UPLOADING
    /\ gets = {} /\ timers = {} /\ uploads = {}
    /\ chosen \notin Range(imports) /\ Current < MaxImports

PageInv ==
  /\ state = IN_PROGRESS => imports # <<>>
  /\ state = SUCCESS \/ completed => LastImport("succeeded")
  /\ state = ERROR => Over
  /\ state = IN_PROGRESS /\ stage > UPLOADING => Reached(stage)

FiniteInv == IsFiniteSet(gets) /\ IsFiniteSet(timers)

IInv == /\ TypeOK /\ NamesInv /\ TasksInv /\ SessionInv /\ UploadsInv /\ GetsInv
        /\ TimersInv /\ SubmitInv /\ PageInv /\ FiniteInv
-----------------------------------------------------------------------------
(* Facts about the last import.                                            *)

\* Finitely many records have finitely many identifiers.
LEMMA IdsFinite ==
  ASSUME NEW S, IsFiniteSet(S)
  PROVE  IsFiniteSet({s.id : s \in S})
<1>. DEFINE T == {s.id : s \in S}
            f == [s \in S |-> s.id]
<1>1. f \in Surjection(S, T)  BY DEF Surjection
<1>. QED  BY <1>1, FS_Surjection

\* There is always an identifier that is not in use.
LEMMA NewIdNat ==
  ASSUME TypeOK, FiniteInv
  PROVE  NewId \in Nat
<1>. DEFINE T == {t.id : t \in timers}
            G == {g.id : g \in gets}
<1>1. IsFiniteSet(T) /\ IsFiniteSet(G)
  BY IdsFinite DEF FiniteInv
<1>2. IsFiniteSet(UsedIds)
  BY <1>1, FS_Union, FS_Singleton DEF UsedIds
<1>. DEFINE n == Cardinality(UsedIds)
<1>3. n \in Nat  BY <1>2, FS_CardinalityType
<1>4. \E i \in 1 .. n + 1 : i \notin UsedIds
  <2>. SUFFICES ASSUME 1 .. n + 1 \subseteq UsedIds PROVE FALSE  OBVIOUS
  <2>1. Cardinality(1 .. n + 1) <= n  BY <1>2, FS_Subset
  <2>2. Cardinality(1 .. n + 1) = n + 1  BY <1>3, FS_Interval
  <2>. QED  BY <1>3, <2>1, <2>2
<1>. QED  BY <1>3, <1>4 DEF NewId

\* What was true of the last import stays true while it stays the last, its
\* task goes its way and no upload begins.
LEMMA Keeps ==
  ASSUME UNCHANGED <<imports, tasks>>, Uploading' => Uploading
  PROVE  /\ \A st : LastImport(st)' <=> LastImport(st)
         /\ NoTask' <=> NoTask
         /\ \A sg : Reached(sg)' <=> Reached(sg)
         /\ Over => Over'
         /\ \A status : True(status) => True(status)'
<1>1. \A st : LastImport(st)' <=> LastImport(st)  BY DEF LastImport, Current
<1>2. NoTask' <=> NoTask  BY DEF NoTask, Current
<1>3. \A sg : Reached(sg)' <=> Reached(sg)  BY DEF Reached, Current
<1>4. Over => Over'  BY <1>1 DEF Over
<1>. QED  BY <1>1, <1>2, <1>3, <1>4 DEF True

\* As long as it is uploaded, only "not yet begun" is true of it.
LEMMA UploadingIsZero ==
  ASSUME IInv, NEW status \in Statuses, True(status), Uploading
  PROVE  status = UPLOADING
<1>1. NoTask  BY DEF Uploading, IInv, UploadsInv
<1>. QED  BY <1>1 DEF True, NoTask, LastImport, Reached, Over, Statuses, UPLOADING, SUCCEEDED

-----------------------------------------------------------------------------
(* One lemma per action: it preserves the inductive invariant.             *)

\* A page that was just loaded, with nothing imported.
LEMMA InitInv == Init => IInv
<1>. SUFFICES ASSUME Init PROVE IInv  OBVIOUS
<1>. USE DEF Init
<1>1. imports = <<>> /\ tasks = <<>> /\ Current = 0 /\ DOMAIN imports = {} /\ DOMAIN tasks = {}
  BY DEF Current
<1>2. chosen \in File  BY ImportAssumption
<1>3. TypeOK
  <2>1. imports \in Seq(File) /\ tasks \in Seq(Task)  BY <1>1
  <2>2. session \in [File -> {0, -1}]  OBVIOUS
  <2>3. stage \in UPLOADING .. SUCCEEDED /\ Current <= MaxImports /\ reloads \in 0 .. MaxReloads
    BY <1>1, ImportAssumption DEF UPLOADING, SUCCEEDED
  <2>. QED  BY <1>2, <2>1, <2>2, <2>3 DEF TypeOK, READY
<1>4. NamesInv /\ TasksInv /\ UploadsInv /\ GetsInv /\ TimersInv /\ SubmitInv
  BY <1>1 DEF NamesInv, TasksInv, UploadsInv, GetsInv, TimersInv, SubmitInv
<1>5. SessionInv  BY DEF SessionInv
<1>6. PageInv
  BY DEF PageInv, READY, IN_PROGRESS, SUCCESS, ERROR
<1>7. FiniteInv  BY FS_EmptySet DEF FiniteInv
<1>. QED  BY <1>3, <1>4, <1>5, <1>6, <1>7 DEF IInv

\* Steps of requests and uploads that leave the page as it is.
LEMMA StutterInv ==
  ASSUME IInv, UNCHANGED vars
  PROVE  IInv'
<1>1. TypeOK'  BY DEF IInv, TypeOK, vars, page, Current
<1>2. (NamesInv /\ TasksInv /\ SessionInv)'
  BY DEF IInv, NamesInv, TasksInv, SessionInv, vars, page, Range
<1>3. Uploading' => Uploading  BY DEF Uploading, vars, page, Current
<1>4. UploadsInv'  BY <1>3, Keeps DEF IInv, UploadsInv, vars, page, Current
<1>5. (GetsInv /\ TimersInv)'
  BY <1>3, Keeps DEF IInv, GetsInv, TimersInv, vars, page, Current
<1>6. (SubmitInv /\ FiniteInv)'  BY DEF IInv, SubmitInv, FiniteInv, vars, page, Range, Current
<1>7. PageInv'  BY <1>3, Keeps DEF IInv, PageInv, vars, page
<1>. QED  BY <1>1, <1>2, <1>4, <1>5, <1>6, <1>7 DEF IInv

\* The page takes note of a true status.
LEMMA PolledInv ==
  ASSUME IInv, imports # <<>>, button # "submit", NEW status \in Statuses, True(status),
         status # UPLOADING \/ state = IN_PROGRESS,
         NEW ts \in SUBSET timers, NEW gs \in SUBSET gets, Polled(status, ts, gs),
         firsts' \in Nat, \A g \in gets' \ gs : g.resumes = FALSE,
         UNCHANGED <<imports, uploads, session, tasks, chosen, timeout, lost, reloads>>
  PROVE  IInv'
<1>. USE DEF IInv
<1>1. Uploading' => Uploading  BY DEF Uploading, Current
<1>2. imports[Current] \in File /\ Current' = Current  BY DEF TypeOK, Current
<1>3. Uploading => status = UPLOADING /\ state = IN_PROGRESS
  BY UploadingIsZero DEF UploadsInv, Uploading
<1>. DEFINE poll == [id |-> NewId, resumes |-> FALSE, file |-> imports[Current], status |-> None]
<1>4. /\ timers' \subseteq timers /\ FiniteInv'
      /\ \A g \in gets' \ gs : g \in Get /\ g.file = imports[Current] /\ g.status = None /\ ~g.resumes
  <2>1. IsFiniteSet(ts) /\ IsFiniteSet(gs)  BY FS_Subset DEF FiniteInv
  <2>2. CASE gets' = gs /\ timers' \subseteq ts
    BY <2>1, <2>2, FS_Subset DEF FiniteInv
  <2>3. CASE gets' = gs \cup {poll} /\ timers' = ts
    <3>1. NewId \in Nat  BY NewIdNat
    <3>2. poll \in Get  BY <1>2, <3>1 DEF Get
    <3>3. IsFiniteSet(gets')  BY <2>1, <2>3, FS_AddElement
    <3>4. \A g \in gets' \ gs : g.file = imports[Current] /\ g.status = None /\ ~g.resumes
      BY <2>3
    <3>. QED  BY <2>1, <2>3, <3>2, <3>3, <3>4 DEF FiniteInv
  <2>4. \/ timers' \subseteq ts /\ gets' = gs
        \/ timers' = ts /\ gets' = gs \cup {poll}
    BY DEF Polled, success, error, Cleared
  <2>. QED  BY <2>2, <2>3, <2>4
<1>5. gs \subseteq gets /\ gets' \subseteq Get  BY <1>4 DEF TypeOK
<1>6. \/ /\ status = SUCCEEDED /\ state' = SUCCESS /\ stage' = SUCCEEDED /\ completed' = TRUE
         /\ warns' = FALSE /\ button' = "choose" 
      \/ /\ status < UPLOADING /\ state' = ERROR /\ stage' = -status /\ completed' = completed
         /\ warns' = FALSE /\ button' = "choose"
      \/ /\ status \in UPLOADING .. SUCCEEDED - 1 /\ state' = IN_PROGRESS /\ stage' = status
         /\ UNCHANGED <<completed, warns, button>>
  BY DEF Polled, success, error, Ended, Statuses, UPLOADING, SUCCEEDED
<1>7. TypeOK'
  <2>1. stage' \in UPLOADING .. SUCCEEDED
    BY <1>6 DEF Statuses, UPLOADING, SUCCEEDED
  <2>2. /\ state' \in {READY, IN_PROGRESS, SUCCESS, ERROR} /\ completed' \in BOOLEAN
        /\ warns' \in BOOLEAN /\ button' \in {"choose", "submit", "none"}
    BY <1>6 DEF TypeOK
  <2>3. timers' \subseteq Timer /\ timeout' \in Nat  BY <1>4 DEF TypeOK
  <2>. QED  BY <1>2, <1>5, <2>1, <2>2, <2>3 DEF TypeOK, Current
<1>8. (NamesInv /\ TasksInv /\ SessionInv)'
  BY DEF NamesInv, TasksInv, SessionInv, Range
<1>9. UploadsInv'
  <2>. SUFFICES ASSUME NEW u \in uploads
                PROVE  /\ u.mine /\ u.import = Current /\ uploads = {u} /\ imports # <<>> /\ NoTask'
                       /\ u.phase \in {"sending", "received"} =>
                            /\ session[imports[Current]] = 0 /\ ~completed'
                            /\ warns' /\ state' = IN_PROGRESS /\ stage' = UPLOADING
    BY <1>2 DEF UploadsInv
  <2>1. u.phase \in {"sending", "received"} => status = UPLOADING
    BY <1>3 DEF UploadsInv, Uploading
  <2>. QED  BY <2>1, <1>1, <1>6, Keeps DEF UploadsInv, UPLOADING, SUCCEEDED
<1>10. (GetsInv /\ TimersInv)'
  BY <1>1, <1>2, <1>4, <1>5, Keeps DEF GetsInv, TimersInv
<1>11. SubmitInv'  BY <1>6 DEF SubmitInv, Current
<1>12. PageInv'
  BY <1>1, <1>6, Keeps DEF PageInv, True, UPLOADING, SUCCEEDED, IN_PROGRESS, SUCCESS, ERROR
<1>. QED  BY <1>4, <1>7, <1>8, <1>9, <1>10, <1>11, <1>12

\* An answer about the status of the import that is true.
LEMMA PollInv ==
  ASSUME IInv, NEW status \in Statuses, True(status), NEW ts \in SUBSET timers,
         pollStatus(status, ts), firsts' \in Nat,
         UNCHANGED <<imports, uploads, session, tasks, chosen, timeout, lost, reloads>>
  PROVE  IInv'
<1>1. CASE state = IN_PROGRESS
  <2>1. imports # <<>> /\ button # "submit"
    BY <1>1 DEF IInv, PageInv, SubmitInv, IN_PROGRESS, READY
  <2>2. Polled(status, ts, gets)  BY <1>1 DEF pollStatus
  <2>3. \A g \in gets' \ gets : g.resumes = FALSE
    BY <2>2 DEF Polled
  <2>. QED  BY <1>1, <2>1, <2>2, <2>3, PolledInv
<1>2. CASE state # IN_PROGRESS
  <2>. USE DEF IInv
  <2>1. timers' = ts /\ UNCHANGED <<completed, stage, state, warns, button, gets>>
    BY <1>2 DEF pollStatus
  <2>2. TypeOK'  BY <2>1 DEF TypeOK, Current
  <2>3. (NamesInv /\ TasksInv /\ SessionInv)'  BY DEF NamesInv, TasksInv, SessionInv, Range
  <2>4. Uploading' => Uploading  BY DEF Uploading, Current
  <2>5. UploadsInv'  BY <2>1, <2>4, Keeps DEF UploadsInv, Current
  <2>6. (GetsInv /\ TimersInv)'  BY <2>1, <2>4, Keeps DEF GetsInv, TimersInv, Current
  <2>7. SubmitInv'  BY <2>1 DEF SubmitInv, Range, Current
  <2>8. FiniteInv'  BY <2>1, FS_Subset DEF FiniteInv
  <2>9. PageInv'  BY <2>1, <2>4, Keeps DEF PageInv
  <2>. QED  BY <2>2, <2>3, <2>5, <2>6, <2>7, <2>8, <2>9
<1>. QED  BY <1>1, <1>2

\* The first of these, right after the upload.
LEMMA FirstPollInv ==
  ASSUME IInv, FirstPoll
  PROVE  IInv'
<1>1. firsts' \in Nat  BY DEF IInv, TypeOK, FirstPoll
<1>2. UPLOADING \in Statuses /\ True(UPLOADING)  BY DEF Statuses, True, UPLOADING, SUCCEEDED
<1>. QED  BY <1>1, <1>2, PollInv DEF FirstPoll

\* A timer fires: the status is asked for again.
LEMMA TimerInv ==
  ASSUME IInv, NEW t \in timers, TimerFires(t)
  PROVE  IInv'
<1>1. firsts' \in Nat  BY DEF IInv, TypeOK, TimerFires
<1>2. t.status \in Statuses /\ True(t.status)  BY DEF IInv, TypeOK, Timer, TimersInv
<1>. QED  BY <1>1, <1>2, PollInv DEF TimerFires

\* The page learns that the last import is over.
LEMMA ErrorInv ==
  ASSUME IInv, Over, NEW sg \in {UPLOADING, UNPACKING}, error(sg, timers),
         NEW gs \in SUBSET gets, gets' = gs, uploads' = {},
         UNCHANGED <<imports, session, tasks, chosen, firsts, timeout, reloads>>,
         lost' \in BOOLEAN
  PROVE  IInv'
<1>. USE DEF IInv
<1>1. /\ state' = ERROR /\ stage' = sg /\ warns' = FALSE /\ button' = "choose"
      /\ timers' \subseteq timers /\ completed' = completed
  BY DEF error, Ended, Cleared, UPLOADING, UNPACKING
<1>2. ~Uploading' /\ Current' = Current  BY DEF Uploading, Current
<1>3. TypeOK'
  <2>1. stage' \in UPLOADING .. SUCCEEDED  BY <1>1 DEF UPLOADING, UNPACKING, SUCCEEDED
  <2>. QED  BY <1>1, <1>2, <2>1 DEF TypeOK
<1>4. (NamesInv /\ TasksInv /\ SessionInv)'  BY DEF NamesInv, TasksInv, SessionInv, Range
<1>5. (UploadsInv /\ SubmitInv)'  BY <1>1 DEF UploadsInv, SubmitInv
<1>6. (GetsInv /\ TimersInv)'  BY <1>1, <1>2, Keeps DEF GetsInv, TimersInv
<1>7. FiniteInv'  BY <1>1, FS_Subset DEF FiniteInv
<1>8. PageInv'
  BY <1>1, <1>2, Keeps DEF PageInv, IN_PROGRESS, SUCCESS, ERROR
<1>. QED  BY <1>3, <1>4, <1>5, <1>6, <1>7, <1>8

\* The answer arrives to what a loaded page asks first.
LEMMA ResumeInv ==
  ASSUME IInv, NEW g \in gets, ResumeArrives(g)
  PROVE  IInv'
<1>1. /\ g.status \in Statuses /\ g.resumes /\ True(g.status) /\ imports # <<>> /\ uploads = {}
      /\ g.status = UPLOADING => NoTask
      /\ button # "submit" /\ firsts' \in Nat /\ lost' \in BOOLEAN
      /\ UNCHANGED <<imports, uploads, session, tasks, chosen, firsts, timeout, lost, reloads>>
  BY DEF ResumeArrives, IInv, GetsInv, SubmitInv, TypeOK, Get
<1>2. CASE g.status # UPLOADING /\ Polled(g.status, timers, gets \ {g})
  <2>1. \A h \in gets' \ (gets \ {g}) : h.resumes = FALSE
    BY <1>1, <1>2 DEF Polled
  <2>. QED  BY <1>1, <1>2, <2>1, PolledInv
<1>3. CASE g.status = UPLOADING /\ error(UPLOADING, timers) /\ gets' = gets \ {g}
  <2>1. Over  BY <1>1, <1>3 DEF Over, NoTask, LastImport, Uploading
  <2>. QED  BY <1>1, <1>3, <2>1, ErrorInv
<1>. QED  BY <1>2, <1>3 DEF ResumeArrives

\* The end of an upload that brought no import.
LEMMA CompleteInv ==
  ASSUME IInv, NEW u \in uploads, Complete(u)
  PROVE  IInv'
<1>. USE DEF IInv
<1>1. /\ uploads = {u} /\ u.mine /\ u.phase \in {"refused", "failed", "garbled"} /\ NoTask
      /\ uploads' = {} /\ ~Uploading
      /\ UNCHANGED <<imports, session, tasks, chosen, firsts, timeout, gets, lost, reloads>>
  BY DEF Complete, UploadsInv, Uploading
<1>2. CASE error(UNPACKING, timers)
  <2>1. Over /\ lost' \in BOOLEAN  BY <1>1 DEF Over, NoTask, LastImport, TypeOK
  <2>. HIDE DEF IInv
  <2>. QED  BY <1>1, <1>2, <2>1, ErrorInv
<1>3. CASE \/ UNCHANGED <<completed, stage, state, warns, button, timers>>
           \/ /\ reset(timers)
              /\ warns' = FALSE /\ button' = "choose"
              /\ UNCHANGED completed
  <2>1. /\ timers' \subseteq timers /\ completed' = completed
        /\ \/ UNCHANGED <<stage, state, warns, button>>
           \/ stage' = UPLOADING /\ state' = READY /\ warns' = FALSE /\ button' = "choose"
    BY <1>3 DEF reset, Cleared
  <2>2. ~Uploading' /\ Current' = Current  BY <1>1 DEF Uploading, Current
  <2>3. TypeOK'
    <3>1. stage' \in UPLOADING .. SUCCEEDED  BY <2>1 DEF TypeOK, UPLOADING, SUCCEEDED
    <3>. QED  BY <1>1, <2>1, <3>1 DEF TypeOK, Current
  <2>4. (NamesInv /\ TasksInv /\ SessionInv)'
    BY <1>1 DEF NamesInv, TasksInv, SessionInv, Range
  <2>5. (UploadsInv /\ SubmitInv)'  BY <1>1, <2>1 DEF UploadsInv, SubmitInv
  <2>6. (GetsInv /\ TimersInv)'
    BY <1>1, <2>1, <2>2, Keeps DEF GetsInv, TimersInv, Current
  <2>7. FiniteInv'  BY <1>1, <2>1, FS_Subset DEF FiniteInv
  <2>8. PageInv'
    BY <1>1, <2>1, <2>2, Keeps DEF PageInv, READY, IN_PROGRESS, SUCCESS, ERROR, UPLOADING
  <2>. QED  BY <2>3, <2>4, <2>5, <2>6, <2>7, <2>8
<1>. QED  BY <1>1, <1>2, <1>3 DEF Complete

\* An upload goes on or ends without a task, and its outcome is still to come.
LEMMA UploadInv ==
  ASSUME IInv, NEW u \in uploads, Progress(u) \/ Sent(u) \/ Refused(u) \/ Garbled(u)
  PROVE  IInv'
<1>. USE DEF IInv
<1>1. /\ uploads = {u} /\ u \in Upload /\ u.mine /\ u.import = Current /\ imports # <<>> /\ NoTask
      /\ u.phase \in {"sending", "received"} /\ Uploading
      /\ session[imports[Current]] = 0 /\ ~completed
      /\ warns /\ state = IN_PROGRESS /\ stage = UPLOADING
  BY DEF Progress, Sent, Refused, Garbled, UploadsInv, Uploading, TypeOK
<1>2. /\ UNCHANGED <<imports, completed, tasks, stage, state, warns, button, chosen, timers,
                     timeout, gets, reloads>>
      /\ firsts' \in Nat /\ lost' \in BOOLEAN
  <2>1. firsts \in Nat /\ lost \in BOOLEAN  BY DEF TypeOK
  <2>2. CASE Progress(u)  BY <2>1, <2>2 DEF Progress
  <2>3. CASE Sent(u)  BY <2>1, <2>3 DEF Sent
  <2>4. CASE Refused(u)  BY <2>1, <2>4 DEF Refused, page
  <2>5. CASE Garbled(u)  BY <1>1, <2>1, <2>5 DEF Garbled, page
  <2>. QED  BY <2>2, <2>3, <2>4, <2>5
<1>3. PICK v \in Upload :
        /\ uploads' = {v} /\ v.mine /\ v.import = Current
        /\ \/ v.phase \in {"sending", "received"} /\ session' = [session EXCEPT ![imports[Current]] = 0]
           \/ v.phase \in {"sending", "received"} /\ session' = session
           \/ v.phase \notin {"sending", "received"} /\ session' = [session EXCEPT ![imports[Current]] = -1]
           \/ v.phase \notin {"sending", "received"} /\ session' = session
  <2>1. /\ \A ph \in {"sending", "received", "refused", "failed", "garbled"} :
             /\ [u EXCEPT !.phase = ph] \in Upload /\ [u EXCEPT !.phase = ph].phase = ph
             /\ [u EXCEPT !.phase = ph].mine /\ [u EXCEPT !.phase = ph].import = Current
    BY <1>1 DEF Upload
  <2>2. \A ph : Becomes(u, ph) => uploads' = {[u EXCEPT !.phase = ph]}
    BY <1>1 DEF Becomes
  <2>3. CASE Progress(u)  BY <2>3, <1>1 DEF Progress
  <2>4. CASE Sent(u)
    <3>1. uploads' = {[u EXCEPT !.phase = "received"]}  BY <2>2, <2>4 DEF Sent
    <3>. QED  BY <1>1, <2>1, <2>4, <3>1 DEF Sent
  <2>5. CASE Refused(u)
    <3>1. \/ /\ uploads' = {[u EXCEPT !.phase = "refused"]}
             /\ session' = [session EXCEPT ![imports[u.import]] = -1]
          \/ uploads' = {[u EXCEPT !.phase = "failed"]} /\ session' = session
      BY <2>2, <2>5 DEF Refused
    <3>. QED  BY <1>1, <2>1, <3>1
  <2>6. CASE Garbled(u)
    <3>1. uploads' = {[u EXCEPT !.phase = "garbled"]}  BY <2>2, <2>6 DEF Garbled
    <3>. QED  BY <1>1, <2>1, <2>6, <3>1 DEF Garbled
  <2>. QED  BY <2>3, <2>4, <2>5, <2>6
<1>4. Current \in DOMAIN imports /\ imports[Current] \in File /\ Current' = Current
  BY <1>1, <1>2 DEF TypeOK, Current
<1>5. session' \in [File -> {0, -1}]  BY <1>3, <1>4 DEF TypeOK
<1>6. TypeOK'  BY <1>2, <1>3, <1>4, <1>5 DEF TypeOK
<1>7. (NamesInv /\ TasksInv)'  BY <1>2 DEF NamesInv, TasksInv
<1>8. SessionInv'
  <2>. SUFFICES ASSUME NEW f \in File, session'[f] = -1
                PROVE  f \in Range(imports) /\ \A i \in DOMAIN tasks : tasks[i].file # f
    BY <1>2 DEF SessionInv
  <2>1. CASE f = imports[Current]
    <3>1. \A i \in DOMAIN tasks : tasks[i].file # f
      BY <1>1, <1>4, <2>1 DEF NoTask, TasksInv, NamesInv
    <3>. QED  BY <1>4, <2>1, <3>1 DEF Range
  <2>2. CASE f # imports[Current]
    <3>1. session[f] = -1  BY <1>3, <1>4, <2>2 DEF TypeOK
    <3>. QED  BY <3>1 DEF SessionInv
  <2>. QED  BY <2>1, <2>2
<1>9. UploadsInv'
  <2>1. NoTask'  BY <1>1, <1>2 DEF NoTask, Current
  <2>2. v.phase \in {"sending", "received"} => session'[imports[Current]] = 0
    BY <1>1, <1>3, <1>4 DEF TypeOK
  <2>. QED  BY <1>1, <1>2, <1>3, <1>4, <2>1, <2>2 DEF UploadsInv
<1>10. (GetsInv /\ TimersInv)'
  <2>1. \A g \in gets : ~g.resumes  BY <1>1 DEF GetsInv
  <2>. QED  BY <1>1, <1>2, <1>4, <2>1, Keeps DEF GetsInv, TimersInv
<1>11. SubmitInv'  BY <1>1, <1>2 DEF SubmitInv, IN_PROGRESS, READY
<1>12. PageInv'
  BY <1>1, <1>2, Keeps DEF PageInv, IN_PROGRESS, SUCCESS, ERROR
<1>13. FiniteInv'  BY <1>2 DEF FiniteInv
<1>. QED  BY <1>6, <1>7, <1>8, <1>9, <1>10, <1>11, <1>12, <1>13

\* The task is created: nothing had been said of the import before.
LEMMA QueuedInv ==
  ASSUME IInv, NEW u \in uploads, Queued(u)
  PROVE  IInv'
<1>. USE DEF IInv
<1>. DEFINE t == [import |-> u.import, file |-> imports[u.import], steps |-> 0, state |-> "running"]
<1>1. /\ uploads = {u} /\ u \in Upload /\ u.import = Current /\ imports # <<>> /\ NoTask
      /\ Uploading /\ session[imports[Current]] = 0 /\ ~completed
      /\ state = IN_PROGRESS /\ stage = UPLOADING
  BY DEF Queued, UploadsInv, Uploading, TypeOK
<1>2. /\ UNCHANGED <<imports, completed, session, page, lost, reloads>>
      /\ tasks' = Append(tasks, t) /\ uploads' = {}
  BY <1>1 DEF Queued
<1>3. Current \in DOMAIN imports /\ imports[Current] \in File /\ Current' = Current
  BY <1>1, <1>2 DEF TypeOK, Current
<1>4. t \in Task /\ t.import = Current /\ t.file = imports[Current]
  BY <1>1, <1>3 DEF Task, Upload
<1>. HIDE DEF t
<1>5. /\ tasks' \in Seq(Task) /\ DOMAIN tasks' = DOMAIN tasks \cup {Len(tasks) + 1}
      /\ tasks'[Len(tasks) + 1] = t /\ \A i \in DOMAIN tasks : tasks'[i] = tasks[i]
      /\ Len(tasks) + 1 \notin DOMAIN tasks
  BY <1>2, <1>4 DEF TypeOK
<1>6. TypeOK'  BY <1>2, <1>3, <1>5 DEF TypeOK, page
<1>7. NamesInv'  BY <1>2 DEF NamesInv
<1>8. TasksInv'  BY <1>1, <1>2, <1>3, <1>4, <1>5 DEF TasksInv, NoTask
<1>9. SessionInv'
  BY <1>1, <1>2, <1>3, <1>4, <1>5 DEF SessionInv, Range
<1>10. (UploadsInv /\ SubmitInv)'
  BY <1>1, <1>2 DEF UploadsInv, SubmitInv, page, IN_PROGRESS, READY
<1>11. \A status \in Statuses : True(status) => True(status)'
  BY <1>1, UploadingIsZero DEF True, UPLOADING, SUCCEEDED
<1>12. (GetsInv /\ TimersInv)'
  <2>1. \A g \in gets : ~g.resumes /\ g.status \in Statuses \cup {None}
    BY <1>1 DEF GetsInv, TypeOK, Get
  <2>2. \A h \in timers : h.status \in Statuses  BY DEF TypeOK, Timer
  <2>. QED  BY <1>1, <1>2, <1>3, <1>11, <2>1, <2>2 DEF GetsInv, TimersInv, page
<1>13. PageInv'
  BY <1>1, <1>2 DEF PageInv, page, IN_PROGRESS, SUCCESS, ERROR, UPLOADING
<1>14. FiniteInv'  BY <1>2 DEF FiniteInv, page
<1>. QED  BY <1>6, <1>7, <1>8, <1>9, <1>10, <1>12, <1>13, <1>14

\* What is true of an import stays true while its task goes on.
LEMMA TaskInv ==
  ASSUME IInv, NEW i \in DOMAIN tasks, TaskGoesOn(i)
  PROVE  IInv'
<1>. USE DEF IInv
<1>1. UNCHANGED <<imports, completed, uploads, session, page, lost, reloads>>
  BY DEF TaskGoesOn
<1>2. /\ tasks' \in Seq(Task) /\ DOMAIN tasks' = DOMAIN tasks
      /\ \A j \in DOMAIN tasks : /\ tasks'[j].import = tasks[j].import
                                 /\ tasks'[j].file = tasks[j].file
                                 /\ tasks'[j].steps >= tasks[j].steps
                                 /\ j # i => tasks'[j] = tasks[j]
      /\ tasks[i].state = "running"
  <2>1. tasks \in Seq(Task) /\ tasks[i] \in Task /\ tasks[i].state = "running"
    BY DEF TaskGoesOn, TypeOK
  <2>2. CASE tasks[i].steps < 2 /\ tasks' = [tasks EXCEPT ![i].steps = @ + 1]
    <3>1. [tasks[i] EXCEPT !.steps = @ + 1] \in Task
      <4>1. tasks[i].steps \in 0 .. 2  BY <2>1 DEF Task
      <4>2. tasks[i].steps + 1 \in 0 .. 2  BY <4>1, <2>2
      <4>. QED  BY <4>2, <2>1 DEF Task
    <3>2. tasks' \in Seq(Task) /\ DOMAIN tasks' = DOMAIN tasks  BY <2>1, <2>2, <3>1
    <3>3. tasks'[i] = [tasks[i] EXCEPT !.steps = @ + 1] /\ \A j \in DOMAIN tasks : j # i => tasks'[j] = tasks[j]
      BY <2>1, <2>2
    <3>4. \A j \in DOMAIN tasks : tasks[j].steps \in Nat
      <4>1. \A j \in DOMAIN tasks : tasks[j] \in Task  BY <2>1
      <4>. QED  BY <4>1 DEF Task
    <3>. QED  BY <2>1, <3>2, <3>3, <3>4 DEF Task
  <2>3. ASSUME NEW st \in {"succeeded", "failed"}, tasks' = [tasks EXCEPT ![i].state = st]
        PROVE  <1>2
    <3>1. [tasks[i] EXCEPT !.state = st] \in Task  BY <2>1, <2>3 DEF Task
    <3>2. tasks' \in Seq(Task) /\ DOMAIN tasks' = DOMAIN tasks  BY <2>1, <2>3, <3>1
    <3>3. tasks'[i] = [tasks[i] EXCEPT !.state = st] /\ \A j \in DOMAIN tasks : j # i => tasks'[j] = tasks[j]
      BY <2>1, <2>3
    <3>4. \A j \in DOMAIN tasks : tasks[j].steps \in Nat
      <4>1. \A j \in DOMAIN tasks : tasks[j] \in Task  BY <2>1
      <4>. QED  BY <4>1 DEF Task
    <3>. QED  BY <2>1, <3>2, <3>3, <3>4 DEF Task
  <2>. QED  BY <2>2, <2>3 DEF TaskGoesOn
<1>3. TypeOK'  BY <1>1, <1>2 DEF TypeOK, page, Current
<1>4. (NamesInv /\ TasksInv /\ SessionInv)'
  BY <1>1, <1>2 DEF NamesInv, TasksInv, SessionInv, Range
<1>5. /\ LastImport("succeeded") => LastImport("succeeded")'
      /\ Over => Over'
      /\ NoTask' <=> NoTask
      /\ \A sg \in Int : Reached(sg) => Reached(sg)'
  <2>1. LastImport("succeeded") => LastImport("succeeded")'
    BY <1>1, <1>2 DEF LastImport, Current
  <2>2. Over => Over'
    <3>. SUFFICES ASSUME Over PROVE Over'  OBVIOUS
    <3>1. tasks[i].import # Current  BY <1>2 DEF Over, LastImport
    <3>. QED  BY <1>1, <1>2, <3>1 DEF Over, LastImport, Uploading, Current
  <2>3. NoTask' <=> NoTask  BY <1>1, <1>2 DEF NoTask, Current
  <2>4. ASSUME NEW sg \in Int, Reached(sg) PROVE Reached(sg)'
    <3>1. PICK j \in DOMAIN tasks : tasks[j].import = Current /\ tasks[j].steps + 1 >= sg
      BY <2>4 DEF Reached
    <3>2. tasks[j].steps \in Int /\ tasks'[j].steps \in Int
      <4>1. tasks[j] \in Task /\ tasks'[j] \in Task  BY <1>2 DEF TypeOK
      <4>. QED  BY <4>1 DEF Task
    <3>3. tasks'[j].steps + 1 >= sg  BY <1>2, <3>1, <3>2
    <3>. QED  BY <1>1, <1>2, <3>1, <3>3 DEF Reached, Current
  <2>. QED  BY <2>1, <2>2, <2>3, <2>4
<1>6. \A status \in Statuses : True(status) => True(status)'
  BY <1>5 DEF True, Statuses
<1>7. UploadsInv'  BY <1>1, <1>5 DEF UploadsInv, page, Current
<1>8. (GetsInv /\ TimersInv)'
  <2>1. \A g \in gets : g.status \in Statuses \cup {None}  BY DEF TypeOK, Get
  <2>2. \A h \in timers : h.status \in Statuses  BY DEF TypeOK, Timer
  <2>. QED  BY <1>1, <1>5, <1>6, <2>1, <2>2 DEF GetsInv, TimersInv, page, Current
<1>9. (SubmitInv /\ FiniteInv)'  BY <1>1 DEF SubmitInv, FiniteInv, page, Range, Current
<1>10. PageInv'
  <2>1. stage \in Int  BY DEF TypeOK, UPLOADING, SUCCEEDED
  <2>. QED  BY <1>1, <1>5, <2>1 DEF PageInv, page
<1>. QED  BY <1>3, <1>4, <1>7, <1>8, <1>9, <1>10

\* The server says of the last import what is true of it.
LEMMA StatusOfTrue ==
  ASSUME IInv, imports # <<>>
  PROVE  LET status == StatusOf(imports[Current])
         IN status \in Statuses /\ True(status) /\ (status = UPLOADING => NoTask)
<1>. USE DEF IInv
<1>. DEFINE f == imports[Current]
            named == {i \in DOMAIN tasks : tasks[i].file = f}
            k == CHOOSE i \in named : \A j \in named : j <= i
<1>1. Current \in DOMAIN imports /\ f \in File  BY DEF TypeOK, Current
<1>2. \A i \in DOMAIN tasks : i \in named <=> tasks[i].import = Current
  BY <1>1 DEF TasksInv, NamesInv
<1>3. CASE named = {}
  <2>1. StatusOf(f) = session[f]  BY <1>3 DEF StatusOf
  <2>2. session[f] \in {0, -1}  BY <1>1 DEF TypeOK
  <2>3. NoTask  BY <1>2, <1>3 DEF NoTask
  <2>4. session[f] = -1 => Over
    BY <2>3 DEF Over, NoTask, LastImport, Uploading, UploadsInv
  <2>. QED  BY <2>1, <2>2, <2>3, <2>4 DEF True, Statuses, UPLOADING, SUCCEEDED
<1>4. CASE named # {}
  <2>1. \A i, j \in named : i = j  BY <1>2 DEF TasksInv
  <2>2. \A i \in named : i <= i  BY DEF TypeOK
  <2>3. k \in named /\ \A i \in named : i = k
    <3>1. \E i \in named : \A j \in named : j <= i  BY <1>4, <2>1, <2>2
    <3>. HIDE DEF named
    <3>. QED  BY <2>1, <3>1
  <2>4. tasks[k] \in Task /\ tasks[k].import = Current  BY <1>2, <2>3 DEF TypeOK
  <2>5. tasks[k].steps \in 0 .. 2 /\ tasks[k].state \in {"running", "succeeded", "failed"}
    BY <2>4 DEF Task
  <2>6. \A i \in DOMAIN tasks : tasks[i].import = Current => i = k  BY <1>2, <2>3
  <2>7. StatusOf(f) = CASE tasks[k].state = "succeeded" -> SUCCEEDED
                        [] tasks[k].state = "failed" ->
                             IF -(tasks[k].steps + 1) < -3 THEN -3 ELSE -(tasks[k].steps + 1)
                        [] tasks[k].state = "running" ->
                             IF tasks[k].steps + 1 > 3 THEN 3 ELSE tasks[k].steps + 1
    BY <1>4 DEF StatusOf
  <2>8. ~Uploading /\ ~NoTask  BY <2>3, <2>4 DEF Uploading, UploadsInv, NoTask
  <2>. HIDE DEF k, f
  <2>9. CASE tasks[k].state = "succeeded"
    <3>1. StatusOf(f) = SUCCEEDED  BY <2>7, <2>9
    <3>2. LastImport("succeeded")  BY <2>3, <2>4, <2>9 DEF LastImport
    <3>. QED  BY <3>1, <3>2 DEF True, Statuses, UPLOADING, SUCCEEDED, f
  <2>10. CASE tasks[k].state = "failed"
    <3>1. StatusOf(f) = -(tasks[k].steps + 1)  BY <2>5, <2>7, <2>10
    <3>2. Over  BY <2>6, <2>8, <2>10 DEF Over, LastImport
    <3>3. StatusOf(f) \in -3 .. -1  BY <2>5, <3>1
    <3>. QED  BY <3>2, <3>3 DEF True, Statuses, UPLOADING, SUCCEEDED, f
  <2>11. CASE tasks[k].state = "running"
    <3>1. StatusOf(f) = tasks[k].steps + 1  BY <2>5, <2>7, <2>11
    <3>2. StatusOf(f) \in 1 .. 3  BY <2>5, <3>1
    <3>3. Reached(StatusOf(f))  BY <2>3, <2>4, <2>5, <3>1 DEF Reached
    <3>. QED  BY <3>2, <3>3 DEF True, Statuses, UPLOADING, SUCCEEDED, f
  <2>. QED  BY <2>5, <2>9, <2>10, <2>11
<1>. QED  BY <1>3, <1>4

\* Steps of a status request that leave what the page shows as it is.
LEMMA RequestInv ==
  ASSUME IInv, NEW g \in gets, StatusRead(g) \/ StatusArrives(g) \/ StatusFails(g)
  PROVE  IInv'
<1>. USE DEF IInv
<1>1. /\ UNCHANGED <<imports, completed, uploads, session, tasks, stage, state, warns, button,
                     chosen, firsts, reloads>>
      /\ lost' \in BOOLEAN
  BY DEF StatusRead, StatusArrives, StatusFails, TypeOK
<1>2. g \in Get /\ imports # <<>> /\ g.file = imports[Current] /\ button # "submit"
  BY DEF GetsInv, SubmitInv, TypeOK
<1>3. Uploading' => Uploading  BY <1>1 DEF Uploading, Current
<1>4. Current' = Current  BY <1>1 DEF Current
<1>5. PICK new \in SUBSET Get, ts \in SUBSET Timer :
        /\ gets' = (gets \ {g}) \cup new /\ IsFiniteSet(new)
        /\ \A h \in new : /\ h.file = g.file /\ h.resumes = g.resumes /\ True(h.status)
                          /\ h.status = UPLOADING => NoTask
        /\ timers' = timers \cup ts /\ IsFiniteSet(ts) /\ \A t \in ts : True(t.status)
        /\ timeout' \in Nat
  <2>1. CASE StatusRead(g)
    <3>. DEFINE h == [g EXCEPT !.status = StatusOf(g.file)]
    <3>1. StatusOf(g.file) \in Statuses /\ True(StatusOf(g.file)) /\ (StatusOf(g.file) = UPLOADING => NoTask)
      BY <1>2, StatusOfTrue
    <3>2. h \in Get /\ h.file = g.file /\ h.resumes = g.resumes /\ h.status = StatusOf(g.file)
      BY <1>2, <3>1 DEF Get
    <3>3. gets' = (gets \ {g}) \cup {h} /\ timers' = timers \cup {} /\ timeout' \in Nat
      BY <2>1 DEF StatusRead, TypeOK
    <3>. HIDE DEF h
    <3>4. IsFiniteSet({h}) /\ IsFiniteSet({}) /\ {h} \in SUBSET Get /\ {} \in SUBSET Timer
      BY <3>2, FS_Singleton, FS_EmptySet
    <3>5. \A x \in {h} : /\ x.file = g.file /\ x.resumes = g.resumes /\ True(x.status)
                         /\ x.status = UPLOADING => NoTask
      BY <3>1, <3>2
    <3>. QED  BY <3>3, <3>4, <3>5
  <2>2. CASE StatusArrives(g)
    <3>. DEFINE t == [id |-> g.id, status |-> g.status]
    <3>1. g.status # None /\ True(g.status)  BY <2>2 DEF StatusArrives, GetsInv
    <3>2. t \in Timer /\ t.status = g.status /\ g.id \in Nat  BY <1>2, <3>1 DEF Get, Timer
    <3>3. gets' = (gets \ {g}) \cup {} /\ timers' = timers \cup {t} /\ timeout' \in Nat
      BY <2>2, <3>2 DEF StatusArrives
    <3>. HIDE DEF t
    <3>4. IsFiniteSet({t}) /\ IsFiniteSet({}) /\ {} \in SUBSET Get /\ {t} \in SUBSET Timer
      BY <3>2, FS_Singleton, FS_EmptySet
    <3>. QED  BY <3>1, <3>2, <3>3, <3>4
  <2>3. CASE StatusFails(g)
    <3>1. gets' = (gets \ {g}) \cup {} /\ timers' = timers \cup {} /\ timeout' \in Nat
      BY <2>3 DEF StatusFails, TypeOK
    <3>2. IsFiniteSet({}) /\ {} \in SUBSET Get /\ {} \in SUBSET Timer  BY FS_EmptySet
    <3>. QED  BY <3>1, <3>2
  <2>. QED  BY <2>1, <2>2, <2>3
<1>6. TypeOK'  BY <1>1, <1>4, <1>5 DEF TypeOK
<1>7. (NamesInv /\ TasksInv /\ SessionInv)'
  BY <1>1 DEF NamesInv, TasksInv, SessionInv, Range
<1>8. UploadsInv'  BY <1>1, <1>3, <1>4, Keeps DEF UploadsInv
<1>9. GetsInv'
  <2>1. g.resumes => uploads = {}  BY DEF GetsInv
  <2>. QED  BY <1>1, <1>2, <1>3, <1>4, <1>5, <2>1, Keeps DEF GetsInv
<1>10. TimersInv'  BY <1>1, <1>3, <1>5, Keeps DEF TimersInv
<1>11. SubmitInv'  BY <1>1, <1>2 DEF SubmitInv
<1>12. PageInv'  BY <1>1, <1>3, Keeps DEF PageInv
<1>13. FiniteInv'
  <2>1. IsFiniteSet(gets \ {g})  BY FS_Subset DEF FiniteInv
  <2>. QED  BY <1>5, <2>1, FS_Union DEF FiniteInv
<1>. QED  BY <1>6, <1>7, <1>8, <1>9, <1>10, <1>11, <1>12, <1>13

\* A file is chosen and its upload starts.
LEMMA ChooseInv ==
  ASSUME IInv, Careful, NEW f \in File, Choose(f)
  PROVE  IInv'
<1>. USE DEF IInv
<1>1. /\ button = "choose" /\ Current < MaxImports /\ f \notin Range(imports)
      /\ gets = {} /\ timers = {} /\ uploads = {}
      /\ stage' = UPLOADING /\ state' = READY /\ timers' = {}
      /\ (button' = "submit" /\ chosen' = f) \/ UNCHANGED <<button, chosen>>
      /\ UNCHANGED <<imports, completed, uploads, session, tasks, warns, firsts, timeout, gets, lost, reloads>>
  <2>1. Quiet /\ f \notin Range(imports)  BY DEF Choose, Careful
  <2>2. gets = {} /\ timers = {} /\ uploads = {}  BY <2>1 DEF Quiet, UploadsInv
  <2>. QED  BY <2>1, <2>2 DEF Choose, reset, Cleared
<1>2. ~Uploading' /\ Current' = Current  BY <1>1 DEF Uploading, Current
<1>3. TypeOK'
  <2>1. stage' \in UPLOADING .. SUCCEEDED  BY <1>1 DEF UPLOADING, SUCCEEDED
  <2>. QED  BY <1>1, <1>2, <2>1 DEF TypeOK
<1>4. (NamesInv /\ TasksInv /\ SessionInv)'
  BY <1>1 DEF NamesInv, TasksInv, SessionInv, Range
<1>5. (UploadsInv /\ GetsInv /\ TimersInv /\ FiniteInv)'
  BY <1>1 DEF UploadsInv, GetsInv, TimersInv, FiniteInv
<1>6. SubmitInv'  BY <1>1, <1>2 DEF SubmitInv, Range
<1>7. PageInv'
  BY <1>1, <1>2, Keeps DEF PageInv, READY, IN_PROGRESS, SUCCESS, ERROR
<1>. QED  BY <1>3, <1>4, <1>5, <1>6, <1>7

\* A new import: nothing is left of the one before that could be taken for it.
LEMMA SubmitNewInv ==
  ASSUME IInv, Submit
  PROVE  IInv'
<1>. USE DEF IInv
<1>. DEFINE n == Current + 1
            u == [import |-> n, mine |-> TRUE, phase |-> "sending"]
<1>1. /\ gets = {} /\ timers = {} /\ uploads = {} /\ stage = UPLOADING
      /\ chosen \notin Range(imports) /\ Current < MaxImports
  BY DEF Submit, SubmitInv
<1>2. /\ imports' = Append(imports, chosen) /\ uploads' = {u} /\ button' = "none"
      /\ state' = IN_PROGRESS /\ completed' = FALSE /\ warns' = TRUE /\ stage' = UPLOADING
      /\ gets' = {} /\ timers' = {}
      /\ UNCHANGED <<session, tasks, chosen, firsts, timeout, lost, reloads>>
  BY <1>1 DEF Submit, start
<1>3. /\ Current \in Nat /\ n \in 1 .. MaxImports
  BY <1>1, ImportAssumption DEF Current, TypeOK
<1>4. /\ imports' \in Seq(File) /\ Current' = n /\ imports' # <<>>
      /\ DOMAIN imports' = DOMAIN imports \cup {n} /\ imports'[n] = chosen
      /\ \A i \in DOMAIN imports : imports'[i] = imports[i]
      /\ n \notin DOMAIN imports
  BY <1>2 DEF Current, TypeOK
<1>5. u \in Upload /\ u.import = n /\ u.mine /\ u.phase = "sending"  BY <1>3 DEF Upload
<1>. HIDE DEF u
<1>6. NoTask'  BY <1>2, <1>4 DEF NoTask, TasksInv
<1>. HIDE DEF n
<1>7. TypeOK'
  <2>1. Current' <= MaxImports  BY <1>3, <1>4
  <2>2. stage' \in UPLOADING .. SUCCEEDED  BY <1>2 DEF UPLOADING, SUCCEEDED
  <2>. QED  BY <1>2, <1>4, <1>5, <2>1, <2>2 DEF TypeOK
<1>8. NamesInv'  BY <1>1, <1>4 DEF NamesInv, Range
<1>9. TasksInv'  BY <1>2, <1>4 DEF TasksInv
<1>10. SessionInv'  BY <1>2, <1>4 DEF SessionInv, Range
<1>11. UploadsInv'
  <2>1. session[chosen] = 0  BY <1>1 DEF SessionInv, TypeOK
  <2>. QED  BY <1>2, <1>4, <1>5, <1>6, <2>1 DEF UploadsInv
<1>12. (GetsInv /\ TimersInv /\ SubmitInv /\ FiniteInv)'
  BY <1>2, FS_EmptySet DEF GetsInv, TimersInv, SubmitInv, FiniteInv
<1>13. PageInv'
  BY <1>2, <1>4 DEF PageInv, IN_PROGRESS, SUCCESS, ERROR, UPLOADING
<1>. QED  BY <1>7, <1>8, <1>9, <1>10, <1>11, <1>12, <1>13

\* The page is loaded again.
LEMMA ReloadInv ==
  ASSUME IInv, Careful, Reload
  PROVE  IInv'
<1>. USE DEF IInv
<1>1. \A v \in uploads : v.phase # "received"
  BY DEF Reload, Careful, UploadsInv, UPLOADING, UNPACKING
<1>2. /\ stage' = UPLOADING /\ state' = READY /\ warns' = FALSE
      /\ firsts' = 0 /\ timers' = {} /\ timeout' = 0 /\ uploads' = {}
      /\ button' \in {"choose", "none"}
      /\ lost' = FALSE /\ reloads' = reloads + 1 /\ reloads < MaxReloads
      /\ UNCHANGED <<imports, completed, session, tasks, chosen>>
  BY <1>1 DEF Reload
<1>3. \/ gets' = {}
      \/ /\ imports # <<>>
         /\ gets' = {[id |-> 1, resumes |-> TRUE, file |-> imports[Current], status |-> None]}
  BY DEF Reload
<1>4. ~Uploading' /\ Current' = Current  BY <1>2 DEF Uploading, Current
<1>5. gets' \subseteq Get /\ IsFiniteSet(gets')
      /\ \A g \in gets' : imports # <<>> /\ g.file = imports[Current] /\ g.status = None
  <2>1. CASE gets' = {}  BY <2>1, FS_EmptySet
  <2>2. CASE /\ imports # <<>>
             /\ gets' = {[id |-> 1, resumes |-> TRUE, file |-> imports[Current], status |-> None]}
    <3>. DEFINE g == [id |-> 1, resumes |-> TRUE, file |-> imports[Current], status |-> None]
    <3>1. imports[Current] \in File  BY <2>2 DEF TypeOK, Current
    <3>2. g \in Get /\ g.file = imports[Current] /\ g.status = None  BY <3>1 DEF Get
    <3>. HIDE DEF g
    <3>3. gets' = {g}  BY <2>2 DEF g
    <3>. QED  BY <2>2, <3>2, <3>3, FS_Singleton
  <2>. QED  BY <1>3, <2>1, <2>2
<1>6. TypeOK'
  <2>1. stage' \in UPLOADING .. SUCCEEDED /\ reloads' \in 0 .. MaxReloads
    BY <1>2, ImportAssumption DEF UPLOADING, SUCCEEDED, TypeOK
  <2>. QED  BY <1>2, <1>4, <1>5, <2>1 DEF TypeOK
<1>7. (NamesInv /\ TasksInv /\ SessionInv)'
  BY <1>2 DEF NamesInv, TasksInv, SessionInv, Range
<1>8. (UploadsInv /\ TimersInv /\ SubmitInv /\ FiniteInv)'
  BY <1>2, <1>5, FS_EmptySet DEF UploadsInv, TimersInv, SubmitInv, FiniteInv
<1>9. GetsInv'
  <2>1. None # UPLOADING  BY DEF None, UPLOADING
  <2>. QED  BY <1>2, <1>4, <1>5, <2>1 DEF GetsInv
<1>10. PageInv'
  BY <1>2, <1>4, Keeps DEF PageInv, READY, IN_PROGRESS, SUCCESS, ERROR
<1>. QED  BY <1>6, <1>7, <1>8, <1>9, <1>10

-----------------------------------------------------------------------------
\* Every step of the author, the page and the server preserves IInv.
LEMMA NextInv ==
  ASSUME IInv, Careful, [Next]_vars
  PROVE  IInv'
<1>1. CASE UNCHANGED vars  BY <1>1, StutterInv
<1>2. CASE Next
  <2>1. ASSUME NEW f \in File, Choose(f) PROVE IInv'  BY <2>1, ChooseInv
  <2>2. CASE Submit  BY <2>2, SubmitNewInv
  <2>3. CASE Reload  BY <2>3, ReloadInv
  <2>4. ASSUME NEW u \in uploads,
               \/ Progress(u) \/ Sent(u) \/ Queued(u) \/ Refused(u) \/ Garbled(u) \/ Complete(u)
        PROVE  IInv'
    BY <2>4, UploadInv, QueuedInv, CompleteInv
  <2>5. CASE FirstPoll  BY <2>5, FirstPollInv
  <2>6. ASSUME NEW t \in timers, TimerFires(t) PROVE IInv'  BY <2>6, TimerInv
  <2>7. ASSUME NEW g \in gets,
               StatusRead(g) \/ StatusArrives(g) \/ ResumeArrives(g) \/ StatusFails(g)
        PROVE  IInv'
    BY <2>7, RequestInv, ResumeInv
  <2>8. ASSUME NEW i \in DOMAIN tasks, TaskGoesOn(i) PROVE IInv'  BY <2>8, TaskInv
  <2>. QED  BY <1>2, <2>1, <2>2, <2>3, <2>4, <2>5, <2>6, <2>7, <2>8 DEF Next
<1>. QED  BY <1>1, <1>2

\* With a careful author the inductive invariant holds of every behaviour of
\* the import page (import.js), the status handler and the tasks.
THEOREM Invariant ==
  ASSUME Careful
  PROVE  Spec => []IInv
<1>1. IInv /\ [Next]_vars => IInv'  BY NextInv
<1>. QED  BY InitInv, <1>1, PTL DEF Spec

\* Statuses, stages, pollers and tasks keep their types, for any number of
\* imports, reloads and early polls.
THEOREM TypeCorrect ==
  ASSUME Careful
  PROVE  Spec => []TypeOK
<1>1. IInv => TypeOK  BY DEF IInv
<1>. QED  BY Invariant, <1>1, PTL

\* What the page and its cookie say of the end of the last import is so:
\* success() and error() of import.js are called with a status that is true.
THEOREM VerdictsAreTrue ==
  ASSUME Careful
  PROVE  Spec => []VerdictIsTrue
<1>1. IInv => VerdictIsTrue  BY DEF IInv, PageInv, Over, VerdictIsTrue
<1>. QED  BY Invariant, <1>1, PTL

\* The stage shown by the page is one the task of the last import has reached,
\* however late the poller's answers are (pollStatus).
THEOREM StagesAreReached ==
  ASSUME Careful
  PROVE  Spec => []StageIsReached
<1>1. IInv => StageIsReached  BY DEF IInv, PageInv, Reached, StageIsReached
<1>. QED  BY Invariant, <1>1, PTL

\* While leaving the page aborts the upload, its listener of beforeunload is
\* there and asks (start, error, reset of import.js).
THEOREM AbortsAreWarnedOf ==
  ASSUME Careful
  PROVE  Spec => []WarnsOfAbort
<1>1. IInv => WarnsOfAbort
  BY DEF IInv, UploadsInv, WarnsOfAbort, UPLOADING, UNPACKING
<1>. QED  BY Invariant, <1>1, PTL
=============================================================================
