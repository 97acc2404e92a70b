---------------------------- MODULE CourseImport ----------------------------
(***************************************************************************)
(* The import page of Studio: the author chooses an archive and uploads it *)
(* (factories/import.js), and the page polls the server for what becomes   *)
(* of the import (views/import.js), also after a reload, when all it has   *)
(* left is a cookie.  The server has a session, in which an upload leaves  *)
(* its status, and a UserTaskStatus per import, found by the file's name.  *)
(***************************************************************************)
EXTENDS Integers, Sequences, FiniteSets, SequencesExt

CONSTANTS
  File,        \* names of archives
  MaxImports,  \* bound: imports started
  MaxReloads,  \* bound: reloads of the page
  MaxPollers,  \* bound: pollers when the last of these uploads adds one early
  Allows       \* what may happen that the page relies on not to happen

(* "slow":  three seconds after an upload was sent, the server has not yet *)
(*          dealt with it,                                                 *)
(* "same":  an archive has the name of an earlier one,                     *)
(* "hurry": an archive is chosen while the answer to the upload before, or *)
(*          status requests or their timeouts are pending,                 *)
(* "leave": the page is reloaded in spite of its warning,                  *)
(* "lose":  a status request fails, or an upload without a readable answer *)
Disorder == {"slow", "same", "hurry", "leave", "lose"}

ASSUME ImportAssumption ==
  /\ File # {} /\ MaxImports \in Nat /\ MaxReloads \in Nat /\ MaxPollers \in Nat
  /\ Allows \subseteq Disorder

VARIABLES
  imports,   \* the names of the imports started; the cookie and `file' have the last
  completed, \* what the cookie says of the last import
  uploads,   \* uploads under way
  session,   \* server: request.session["import_status"]
  tasks,     \* server: the UserTaskStatus of each import queued, as created
  stage, state, \* current
  warns,     \* the listener of beforeunload is there
  button,    \* what the author can click: "choose", "submit" or nothing
  chosen,    \* the file that "submit" would upload
  firsts,    \* timeouts that will call pollStatus() first, 3 seconds after the upload
  timers,    \* timeouts that will call pollStatus again
  timeout,   \* timeout.id
  gets,      \* status requests under way
  lost,      \* since the last reload an answer was lost
  reloads

page == <<stage, state, warns, button, chosen, firsts, timers, timeout, gets>>
vars == <<imports, completed, uploads, session, tasks, page, lost, reloads>>

READY == 1
IN_PROGRESS == 2
SUCCESS == 3
ERROR == 4

UPLOADING == 0
UNPACKING == 1
SUCCEEDED == 4

None == -9   \* not answered yet
Statuses == -3 .. SUCCEEDED

Get   == [id : Nat, resumes : BOOLEAN, file : File, status : Statuses \cup {None}]
Timer == [id : Nat, status : Statuses]
Task  == [import : 1 .. MaxImports, file : File, steps : 0 .. 2,
          state : {"running", "succeeded", "failed"}]

(* `mine': the page that started it is still there.                        *)
Upload == [import : 1 .. MaxImports, mine : BOOLEAN,
           phase : {"sending", "received", "refused", "failed", "garbled"}]

Current == Len(imports)

UsedIds == {t.id : t \in timers} \cup {g.id : g \in gets} \cup {timeout}
NewId == CHOOSE i \in 1 .. Cardinality(UsedIds) + 1 : i \notin UsedIds

Init ==
  /\ imports = <<>> /\ completed = FALSE
  /\ uploads = {} /\ session = [f \in File |-> 0] /\ tasks = <<>>
  /\ stage = UPLOADING /\ state = READY
  /\ warns = FALSE /\ button = "choose" /\ chosen = CHOOSE f \in File : TRUE
  /\ firsts = 0 /\ timers = {} /\ timeout = 0 /\ gets = {}
  /\ lost = FALSE /\ reloads = 0

-----------------------------------------------------------------------------
(* What the page does at the end of an import.  error() and success()      *)
(* resolve the promise, and onComplete shows the button for a new file.    *)
(* `ts' are the timeouts still armed; only the one set last is cleared.    *)

Cleared(ts) == {t \in ts : t.id # timeout}

Ended(st, sg) ==
  /\ state' = st /\ stage' = sg
  /\ warns' = FALSE
  /\ button' = "choose"

\* Mutant: the sign of the stage is kept.
errorSigned(sg, ts) ==
  /\ Ended(ERROR, sg)
  /\ timers' = Cleared(ts)
  /\ UNCHANGED completed

error(sg, ts) ==
  /\ Ended(ERROR, IF sg < 0 THEN -sg ELSE sg)
  /\ timers' = Cleared(ts)
  /\ UNCHANGED completed

success(ts) ==
  /\ Ended(SUCCESS, SUCCEEDED)
  /\ completed' = TRUE
  /\ timers' = ts

\* Mutant: the stage of the last import is kept.
resetState(ts) ==
  /\ state' = READY
  /\ timers' = Cleared(ts)
  /\ UNCHANGED stage

reset(ts) ==
  /\ stage' = UPLOADING /\ state' = READY
  /\ timers' = Cleared(ts)

(* What pollStatus does with a status if an import is in progress: if this *)
(* goes on, ask for the next one.                                          *)
Polled(status, ts, gs) ==
  \/ status = SUCCEEDED /\ success(ts) /\ gets' = gs
  \/ status < UPLOADING /\ error(status, ts) /\ gets' = gs
  \/ /\ status \in UPLOADING .. SUCCEEDED - 1
     /\ stage' = status /\ state' = IN_PROGRESS
     /\ gets' = gs \cup {[id |-> NewId, resumes |-> FALSE, file |-> imports[Current],
                          status |-> None]}
     /\ timers' = ts
     /\ UNCHANGED <<completed, warns, button>>

\* Mutant: there is nothing to poll before the import has begun.
pollStatusStarted(status, ts) ==
  IF state = IN_PROGRESS /\ status # UPLOADING THEN Polled(status, ts, gets)
  ELSE timers' = ts /\ UNCHANGED <<completed, stage, state, warns, button, gets>>

pollStatus(status, ts) ==
  IF state = IN_PROGRESS THEN Polled(status, ts, gets)
  ELSE timers' = ts /\ UNCHANGED <<completed, stage, state, warns, button, gets>>

-----------------------------------------------------------------------------
(* The author.                                                             *)

Quiet == gets = {} /\ timers = {} /\ \A u \in uploads : ~u.mine

(* fileupload's add and showImportSubmit: a file of another kind resets    *)
(* the page as well.                                                       *)
Choose(f) ==
  /\ button = "choose" /\ Current < MaxImports
  /\ ~Quiet => "hurry" \in Allows
  /\ f \in Range(imports) => "same" \in Allows
  /\ reset(timers)
  /\ \/ button' = "submit" /\ chosen' = f
     \/ state # READY /\ UNCHANGED <<button, chosen>>
  /\ UNCHANGED <<imports, completed, uploads, session, tasks, warns, firsts, timeout, gets, lost, reloads>>

\* Mutant: no listener is installed.
startUnwarned ==
  /\ state' = IN_PROGRESS
  /\ completed' = FALSE
  /\ UNCHANGED <<stage, warns>>

\* Mutant: the cookie of the import before is kept.
startUnstored ==
  /\ state' = IN_PROGRESS
  /\ warns' = TRUE
  /\ UNCHANGED <<stage, completed>>

(* Import.start: the stage is left as reset() has set it.                  *)
start ==
  /\ state' = IN_PROGRESS
  /\ completed' = FALSE
  /\ warns' = TRUE
  /\ UNCHANGED stage

Submit ==
  /\ button = "submit"
  /\ start
  /\ imports' = Append(imports, chosen)
  /\ button' = "none"
  /\ uploads' = uploads \cup {[import |-> Current + 1, mine |-> TRUE, phase |-> "sending"]}
  /\ UNCHANGED <<session, tasks, chosen, firsts, timers, timeout, gets, lost, reloads>>

(* The page is left and opened again; what has reached the server goes on. *)
(* If there is a cookie the last import is resumed.                        *)
Reload ==
  /\ reloads < MaxReloads
  /\ warns /\ stage < UNPACKING => "leave" \in Allows
  /\ stage' = UPLOADING /\ state' = READY /\ warns' = FALSE
  /\ firsts' = 0 /\ timers' = {} /\ timeout' = 0
  /\ uploads' = {[u EXCEPT !.mine = FALSE] : u \in {v \in uploads : v.phase = "received"}}
  /\ IF imports = <<>> THEN gets' = {} /\ button' = "choose"
     ELSE /\ gets' = {[id |-> 1, resumes |-> TRUE, file |-> imports[Current], status |-> None]}
          /\ button' = IF completed THEN "choose" ELSE "none"
  /\ lost' = FALSE /\ reloads' = reloads + 1
  /\ UNCHANGED <<imports, completed, session, tasks, chosen>>

-----------------------------------------------------------------------------
(* The upload: chunks are sent, progressall is called now and then.  The   *)
(* event that finds it sent sets a timeout for the first poll; so do, in   *)
(* Firefox, those that find it almost sent.                                *)

Progress(u) ==
  /\ u.phase = "sending"
  /\ u.import = MaxImports
  /\ firsts + Cardinality(timers) + Cardinality(gets) < MaxPollers
  /\ firsts' = firsts + 1
  /\ UNCHANGED <<imports, completed, uploads, session, tasks, stage, state, warns, button,
                 chosen, timers, timeout, gets, lost, reloads>>

Becomes(u, phase) == uploads' = (uploads \ {u}) \cup {[u EXCEPT !.phase = phase]}

Sent(u) ==
  /\ u.phase = "sending"
  /\ Becomes(u, "received")
  /\ firsts' = firsts + 1
  /\ session' = [session EXCEPT ![imports[u.import]] = 0]
  /\ UNCHANGED <<imports, completed, tasks, stage, state, warns, button, chosen, timers,
                 timeout, gets, lost, reloads>>

(* _write_chunk, at the last chunk: the import is queued, or an error is   *)
(* left in the session and returned with its stage.                        *)
Queued(u) ==
  /\ u.phase = "received"
  /\ tasks' = Append(tasks, [import |-> u.import, file |-> imports[u.import],
                             steps |-> 0, state |-> "running"])
  /\ uploads' = uploads \ {u}
  /\ UNCHANGED <<imports, completed, session, page, lost, reloads>>

Refused(u) ==
  /\ u.phase \in {"sending", "received"}
  /\ \/ Becomes(u, "refused") /\ session' = [session EXCEPT ![imports[u.import]] = -1]
     \/ Becomes(u, "failed") /\ UNCHANGED session
  /\ UNCHANGED <<imports, completed, tasks, page, lost, reloads>>

Garbled(u) ==
  /\ "lose" \in Allows /\ ~lost
  /\ u.phase \in {"sending", "received"}
  /\ Becomes(u, "garbled")
  /\ lost' = u.mine
  /\ UNCHANGED <<imports, completed, session, tasks, page, reloads>>

(* complete(), for a status other than 200.                                *)
Complete(u) ==
  /\ u.phase \in {"refused", "failed", "garbled"}
  /\ uploads' = uploads \ {u}
  /\ \/ /\ ~u.mine \/ u.phase = "garbled"
        /\ UNCHANGED <<completed, stage, state, warns, button, timers>>
     \/ /\ u.mine /\ u.phase = "refused"
        /\ error(UNPACKING, timers)
     \/ /\ u.mine /\ u.phase = "failed"
        /\ reset(timers)
        /\ warns' = FALSE /\ button' = "choose"
        /\ UNCHANGED completed
  /\ UNCHANGED <<imports, session, tasks, chosen, firsts, timeout, gets, lost, reloads>>

-----------------------------------------------------------------------------
(* Timeouts and status requests.                                           *)

(* The three seconds are meant to be enough for the server.                *)
Dealt == \A u \in uploads : u.mine => u.phase \notin {"sending", "received"}

FirstPoll ==
  /\ firsts > 0
  /\ ~Dealt => "slow" \in Allows
  /\ firsts' = firsts - 1
  /\ pollStatus(UPLOADING, timers)
  /\ UNCHANGED <<imports, uploads, session, tasks, chosen, timeout, lost, reloads>>

TimerFires(t) ==
  /\ pollStatus(t.status, timers \ {t})
  /\ UNCHANGED <<imports, uploads, session, tasks, chosen, firsts, timeout, lost, reloads>>

(* import_status_handler: the newest task of that name, or the session.    *)
StatusOf(f) ==
  LET named == {i \in DOMAIN tasks : tasks[i].file = f}
      t == tasks[CHOOSE i \in named : \A j \in named : j <= i]
  IN IF named = {} THEN session[f]
     ELSE CASE t.state = "succeeded" -> SUCCEEDED
            [] t.state = "failed"    -> IF -(t.steps + 1) < -3 THEN -3 ELSE -(t.steps + 1)
            [] t.state = "running"   -> IF t.steps + 1 > 3 THEN 3 ELSE t.steps + 1

StatusRead(g) ==
  /\ g.status = None
  /\ gets' = (gets \ {g}) \cup {[g EXCEPT !.status = StatusOf(g.file)]}
  /\ UNCHANGED <<imports, completed, uploads, session, tasks, stage, state, warns, button,
                 chosen, firsts, timers, timeout, lost, reloads>>

(* The request of pollStatus is answered, whatever has become of the page. *)
StatusArrives(g) ==
  /\ g.status # None /\ ~g.resumes
  /\ gets' = gets \ {g}
  /\ timers' = timers \cup {[id |-> g.id, status |-> g.status]}
  /\ timeout' = g.id
  /\ UNCHANGED <<imports, completed, uploads, session, tasks, stage, state, warns, button,
                 chosen, firsts, lost, reloads>>

(* The request of resume is answered: there is no way to go on with an     *)
(* upload.                                                                 *)
ResumeArrives(g) ==
  /\ g.status # None /\ g.resumes
  /\ \/ g.status # UPLOADING /\ Polled(g.status, timers, gets \ {g})
     \/ g.status = UPLOADING /\ error(UPLOADING, timers) /\ gets' = gets \ {g}
  /\ UNCHANGED <<imports, uploads, session, tasks, chosen, firsts, timeout, lost, reloads>>

(* getJSON has no callback for a failure.                                  *)
StatusFails(g) ==
  /\ "lose" \in Allows /\ ~lost
  /\ gets' = gets \ {g}
  /\ lost' = TRUE
  /\ UNCHANGED <<imports, completed, uploads, session, tasks, stage, state, warns, button,
                 chosen, firsts, timers, timeout, reloads>>

-----------------------------------------------------------------------------
(* The task import_olx.                                                    *)

TaskGoesOn(i) ==
  /\ tasks[i].state = "running"
  /\ \/ tasks[i].steps < 2 /\ tasks' = [tasks EXCEPT ![i].steps = @ + 1]
     \/ tasks[i].steps = 2 /\ tasks' = [tasks EXCEPT ![i].state = "succeeded"]
     \/ tasks' = [tasks EXCEPT ![i].state = "failed"]
  /\ UNCHANGED <<imports, completed, uploads, session, page, lost, reloads>>

-----------------------------------------------------------------------------
Next ==
  \/ \E f \in File : Choose(f)
  \/ Submit
  \/ Reload
  \/ \E u \in uploads : \/ Progress(u)
                        \/ Sent(u)
                        \/ Queued(u)
                        \/ Refused(u)
                        \/ Garbled(u)
                        \/ Complete(u)
  \/ FirstPoll
  \/ \E t \in timers : TimerFires(t)
  \/ \E g \in gets : \/ StatusRead(g)
                     \/ StatusArrives(g)
                     \/ ResumeArrives(g)
                     \/ StatusFails(g)
  \/ \E i \in DOMAIN tasks : TaskGoesOn(i)

(* An upload ends, the server answers, a worker is there for the task, and *)
(* timeouts fire.  Nothing is assumed of the author.                       *)
Fairness ==
  /\ WF_vars(\E u \in uploads : Sent(u) \/ Queued(u) \/ Refused(u) \/ Garbled(u) \/ Complete(u))
  /\ WF_vars(FirstPoll)
  /\ WF_vars(\E t \in timers : TimerFires(t))
  /\ WF_vars(\E g \in gets : StatusRead(g) \/ StatusArrives(g) \/ ResumeArrives(g) \/ StatusFails(g))
  /\ \A i \in 1 .. MaxImports : WF_vars(i \in DOMAIN tasks /\ TaskGoesOn(i))

Spec == Init /\ [][Next]_vars
FairSpec == Spec /\ Fairness
-----------------------------------------------------------------------------
TypeOK ==
  /\ imports \in Seq(File) /\ Current <= MaxImports
  /\ completed \in BOOLEAN
  /\ uploads \subseteq Upload
  /\ session \in [File -> {0, -1}]
  /\ tasks \in Seq(Task)
  /\ stage \in UPLOADING .. SUCCEEDED
  /\ state \in {READY, IN_PROGRESS, SUCCESS, ERROR}
  /\ warns \in BOOLEAN
  /\ button \in {"choose", "submit", "none"}
  /\ chosen \in File
  /\ firsts \in Nat /\ timeout \in Nat
  /\ timers \subseteq Timer
  /\ gets \subseteq Get
  /\ lost \in BOOLEAN
  /\ reloads \in 0 .. MaxReloads

(* How the last import really went.                                        *)
LastImport(st) == \E i \in DOMAIN tasks : tasks[i].import = Current /\ tasks[i].state = st
Uploading == \E u \in uploads : u.import = Current /\ u.phase \in {"sending", "received"}

(* What the page and the cookie say of the end of the last import is so:   *)
(* they name it a success only if it was, and a failure only if it has     *)
(* failed for good.                                                        *)
VerdictIsTrue ==
  /\ state = SUCCESS \/ completed => LastImport("succeeded")
  /\ state = ERROR => ~LastImport("succeeded") /\ ~LastImport("running") /\ ~Uploading

(* The list of stages never shows a stage that the import has not reached. *)
StageIsReached ==
  state = IN_PROGRESS /\ stage > UPLOADING =>
    \E i \in DOMAIN tasks : tasks[i].import = Current /\ tasks[i].steps + 1 >= stage

(* As long as leaving the page aborts the upload, the page warns of it.    *)
WarnsOfAbort ==
  (\E u \in uploads : u.mine /\ u.phase = "sending") =>
    warns /\ stage < UNPACKING /\ state = IN_PROGRESS

(* In the end the author can choose another file: every import, resumed or *)
(* not, ends on the page, unless an answer was lost since it was opened.   *)
ImportEnds == <>[](button # "none" \/ lost)
=============================================================================
