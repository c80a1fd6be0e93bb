----------------------------- MODULE AnswerScripts -----------------------------
(***************************************************************************)
(* An answer script on its way to the LMS: deterministic analysis          *)
(* (answer_analysis.py), approval by a teacher (api.py), patches of the    *)
(* catalogue and the return of the grade (lti.py).                         *)
(*                                                                         *)
(* The handlers are coroutines on the one thread of their process and use  *)
(* a blocking database driver: a handler that waits for a row stops its    *)
(* whole process.  Only the return of a grade awaits something, the LMS,   *)
(* and it holds the row of the script meanwhile (SELECT ... FOR UPDATE).   *)
(***************************************************************************)
EXTENDS Naturals

CONSTANTS Handler,     \* requests that may be under way
          Home(_),     \* the process of a handler
          Teachers,
          Questions,   \* responses an analysis makes
          MaxRequests, \* bound of the model: requests begun
          MaxFaults    \* bound of the model: lost answers and dead processes

VARIABLES
  script,     \* the row: status and the fields of its payload
  responses,  \* answer_response rows: the analysis and teacher they are of
  call,       \* per handler: operation, place, the row it read, its teacher
  lock,       \* handler that holds the row, or none
  posted,     \* scores the LMS has taken
  approved,   \* marks teachers have approved for the LMS
  excused,    \* returns that ended without a record of their score
  raced,      \* two requests that write the script overlapped
  count, faults

vars == <<script, responses, call, lock, posted, approved, excused, raced, count, faults>>

Nobody == "nobody"
ScriptAssumption == Nobody \notin Handler /\ Questions \in Nat \ {0}

NoScore == [mark |-> 0, lms |-> FALSE, published |-> FALSE, analysis |-> 0]
Idle == [op |-> "none", at |-> "idle", by |-> Nobody, read |-> NoScore,
         status |-> "draft", id |-> 0, left |-> 0]

Init ==
  /\ \E s \in {"draft", "ready_for_review"} :
       script = [status |-> s, score |-> NoScore]
  /\ responses = {} /\ call = [h \in Handler |-> Idle] /\ lock = Nobody
  /\ posted = <<0, 0>> /\ approved = {} /\ excused = 0 /\ raced = FALSE
  /\ count = 0 /\ faults = 0

(* The thread of a process is free for h: no handler of it is between two  *)
(* steps that do not await, and none waits for a lock.                     *)
Runs(h) == \A g \in Handler \ {h} :
             Home(g) = Home(h) => call[g].at \in {"idle", "post", "posted"}

Active(h) == {g \in Handler \ {h} : call[g].at # "idle"}

Start(h, c) ==
  /\ call[h] = Idle /\ Runs(h) /\ count < MaxRequests
  /\ count' = count + 1
  /\ call' = [call EXCEPT ![h] = [c EXCEPT !.id = count + 1, !.read = script.score,
                                           !.status = script.status]]
  /\ raced' = (raced \/ Active(h) # {})

-----------------------------------------------------------------------------
(* analyze: only a script that is not under review, and only if this       *)
(* teacher sees no responses (they are private).                           *)
Analyze(h, t) ==
  /\ script.status \in {"draft", "changes_requested"}
  /\ ~\E r \in responses : r.by = t
  /\ Start(h, [Idle EXCEPT !.op = "analyze", !.at = "respond", !.by = t, !.left = Questions])
  /\ UNCHANGED <<script, responses, lock, posted, approved, excused, faults>>

(* Every response is committed by itself, the script after the last.       *)
Respond(h) ==
  /\ call[h].at = "respond"
  /\ responses' = responses \cup {[of |-> call[h].id, by |-> call[h].by, n |-> call[h].left]}
  /\ call' = [call EXCEPT ![h].left = @ - 1, ![h].at = IF @ = "respond" /\ call[h].left = 1
                                                       THEN "write" ELSE @]
  /\ UNCHANGED <<script, lock, posted, approved, excused, raced, count, faults>>

(* The other requests that write the script: an approval with a mark, and  *)
(* a patch of its status or of other fields of its payload.                *)
Approve(h, t) ==
  /\ script.status = "ready_for_review"
  /\ Start(h, [Idle EXCEPT !.op = "approve", !.at = "write", !.by = t])
  /\ UNCHANGED <<script, responses, lock, posted, approved, excused, faults>>

Patch(h, t) ==
  /\ \/ Start(h, [Idle EXCEPT !.op = "patch", !.at = "write", !.by = t])
     \/ /\ script.status \in {"draft", "changes_requested", "ready_for_review"}
        /\ Start(h, [Idle EXCEPT !.op = "status", !.at = "write", !.by = t])
     \/ /\ script.status = "ready_for_review"
        /\ Start(h, [Idle EXCEPT !.op = "accept", !.at = "write", !.by = t])
  /\ UNCHANGED <<script, responses, lock, posted, approved, excused, faults>>

(* The row as the request leaves it.                                       *)
Stored(c) ==
  CASE c.op = "analyze" -> [status |-> "ready_for_review",
                            score |-> [c.read EXCEPT !.analysis = c.id]]
    [] c.op = "approve" -> [status |-> "approved",
                            score |-> [c.read EXCEPT !.mark = c.id, !.lms = TRUE,
                                                     !.published = FALSE]]
    [] c.op = "patch" -> [status |-> script.status, score |-> c.read]
    [] c.op = "status" -> [status |-> IF c.status = "ready_for_review" THEN "changes_requested"
                                      ELSE "ready_for_review",
                           score |-> script.score]
    [] c.op = "accept" -> [status |-> "approved", score |-> script.score]

(* The UPDATE waits while another transaction holds the row.               *)
Write(h) ==
  LET c == call[h]
  IN /\ c.at = "write" \/ (c.at = "wait" /\ c.op # "return")
     /\ IF lock # Nobody
        THEN /\ c.at = "write"
             /\ call' = [call EXCEPT ![h].at = "wait"]
             /\ UNCHANGED <<script, approved, excused>>
        ELSE /\ script' = Stored(c)
             /\ approved' = IF c.op = "approve" THEN approved \cup {c.id} ELSE approved
             /\ excused' = IF script.score.published /\ ~Stored(c).score.published
                           THEN excused + 1 ELSE excused
             /\ call' = [call EXCEPT ![h] = Idle]
     /\ UNCHANGED <<responses, lock, posted, raced, count, faults>>

-----------------------------------------------------------------------------
(* The return of a grade takes the row, or waits for it, and then looks at *)
(* the script.  A grade that is recorded is not sent again.                *)
Return(h, t) ==
  /\ script.score.mark # 0
  /\ Start(h, [Idle EXCEPT !.op = "return", !.at = "wait", !.by = t])
  /\ UNCHANGED <<script, responses, lock, posted, approved, excused, faults>>

Returnable == script.status = "approved" /\ script.score.lms /\ ~script.score.published

(* mutant: the row is read without FOR UPDATE                              *)
TakeUnlocked(h) ==
  /\ call[h].op = "return" /\ call[h].at = "wait"
  /\ call' = [call EXCEPT ![h] = IF Returnable
                THEN [@ EXCEPT !.at = "post", !.read = script.score] ELSE Idle]
  /\ UNCHANGED <<script, responses, lock, posted, approved, excused, raced, count, faults>>

Take(h) ==
  /\ call[h].op = "return" /\ call[h].at = "wait" /\ lock = Nobody
  /\ IF Returnable
     THEN /\ lock' = h
          /\ call' = [call EXCEPT ![h].at = "post", ![h].read = script.score]
     ELSE /\ call' = [call EXCEPT ![h] = Idle]
          /\ UNCHANGED lock
  /\ UNCHANGED <<script, responses, posted, approved, excused, raced, count, faults>>

(* mutant: a request that fails keeps its transaction                      *)
EndedOpen(h) == call' = [call EXCEPT ![h] = Idle] /\ UNCHANGED lock

Ended(h) == /\ call' = [call EXCEPT ![h] = Idle]
            /\ lock' = IF lock = h THEN Nobody ELSE lock

Taken(h) == posted' = <<posted[1] + 1, call[h].read.mark>>

(* The LMS takes the score and says so; or it is refused; or its answer is *)
(* lost, before or after the score was taken.                              *)
Post(h) ==
  /\ call[h].at = "post"
  /\ \/ Taken(h) /\ call' = [call EXCEPT ![h].at = "posted"] /\ UNCHANGED <<lock, excused, faults>>
     \/ /\ faults < MaxFaults /\ faults' = faults + 1 /\ Runs(h) /\ Ended(h)
        /\ \/ Taken(h) /\ excused' = excused + 1
           \/ UNCHANGED <<posted, excused>>
  /\ UNCHANGED <<script, responses, approved, raced, count>>

(* The audit row of the learner's identity is private: only the person who *)
(* made the mapping finds it, for anybody else the request fails here,     *)
(* after the score was sent.                                               *)
Record(h) ==
  /\ call[h].at = "posted" /\ Runs(h)
  /\ \E own \in BOOLEAN :
       IF own
       THEN /\ script' = [script EXCEPT !.score = [call[h].read EXCEPT !.published = TRUE]]
            /\ UNCHANGED excused
       ELSE /\ excused' = excused + 1
            /\ UNCHANGED script
  /\ Ended(h)
  /\ UNCHANGED <<responses, posted, approved, raced, count, faults>>

Crash(h) ==
  LET dead == {g \in Handler : Home(g) = Home(h)}
  IN /\ faults < MaxFaults /\ \E g \in dead : call[g] # Idle
     /\ faults' = faults + 1
     /\ call' = [g \in Handler |-> IF g \in dead THEN Idle ELSE call[g]]
     /\ lock' = IF lock \in dead THEN Nobody ELSE lock
     /\ excused' = IF \E g \in dead : call[g].at = "posted" THEN excused + 1 ELSE excused
     /\ UNCHANGED <<script, responses, posted, approved, raced, count>>

Step(h) == Respond(h) \/ Write(h) \/ Take(h) \/ Post(h) \/ Record(h)

Next ==
  \E h \in Handler :
    \/ Step(h) \/ Crash(h)
    \/ \E t \in Teachers : Analyze(h, t) \/ Approve(h, t) \/ Patch(h, t) \/ Return(h, t)

(* Requests that can go on do so; the LMS is given 20 seconds.             *)
Fairness == \A h \in Handler : WF_vars(Step(h))

Spec == Init /\ [][Next]_vars /\ Fairness

-----------------------------------------------------------------------------
(* A score the LMS has is a mark that a teacher approved, and it has more  *)
(* than one only after a return that failed behind the LMS's back or a     *)
(* patch that undid the record: the lock of the row keeps two returns      *)
(* apart although both wait for the LMS.                                   *)
PostedOnce == /\ posted[1] > 0 => posted[2] \in approved
              /\ posted[1] <= 1 + excused

(* The responses of an analysis, and the questions they are of.            *)
Made(id) == {r.n : r \in {s \in responses : s.of = id}}

(* A script that says it is analysed has a response for every question, of *)
(* the analysis that is named; responses no script names are there only    *)
(* while they are made, or after a crash or an overlap, and then they keep *)
(* their teacher from trying again.                                        *)
AnalysisWhole ==
  /\ script.score.analysis # 0 => Made(script.score.analysis) = 1..Questions
  /\ \A r, s \in responses : r.by = s.by /\ r.of # s.of => raced
  /\ responses # {} /\ script.score.analysis = 0 =>
       faults > 0 \/ raced \/ \E h \in Handler : call[h].op = "analyze"

-----------------------------------------------------------------------------
(* What the two rest on: the inductive invariant.                          *)
Status == {"draft", "ready_for_review", "changes_requested", "approved"}
Score == [mark : Nat, lms : BOOLEAN, published : BOOLEAN, analysis : Nat]
Call == [op : {"none", "analyze", "approve", "patch", "status", "accept", "return"},
         at : {"idle", "respond", "write", "wait", "post", "posted"},
         by : Teachers \cup {Nobody}, read : Score, status : Status, id : Nat, left : Nat]

Typed ==
  /\ script \in [status : Status, score : Score]
  /\ responses \subseteq [of : 1..count, by : Teachers \cup {Nobody}, n : Nat]
  /\ call \in [Handler -> Call] /\ lock \in Handler \cup {Nobody}
  /\ posted \in Nat \X Nat /\ approved \subseteq Nat /\ excused \in Nat
  /\ raced \in BOOLEAN /\ count \in Nat

(* What each request does, and in which place.                             *)
Fits(c) ==
  \/ c = Idle
  \/ c.op = "analyze" /\ c.at = "respond" /\ c.left \in 1..Questions
  \/ c.op = "analyze" /\ c.at \in {"write", "wait"} /\ c.left = 0
  \/ c.op \in {"approve", "patch", "status", "accept"} /\ c.at \in {"write", "wait"}
  \/ c.op = "return" /\ c.at \in {"wait", "post", "posted"}

Numbered ==
  /\ \A h \in Handler : Fits(call[h])
  /\ \A h \in Handler : call[h] # Idle => call[h].id \in 1..count
  /\ \A g, h \in Handler : g # h /\ call[g] # Idle /\ call[h] # Idle => call[g].id # call[h].id

(* Who waits for the LMS holds the row, and the row is what was read.      *)
HeldWhileSent ==
  \A h \in Handler : call[h].at \in {"post", "posted"} =>
    lock = h /\ script.score.lms /\ ~script.score.published /\ call[h].read = script.score

(* Every score the LMS took is on record, about to be, or excused.         *)
Counted ==
  posted[1] <= excused + IF script.score.published \/ \E h \in Handler : call[h].at = "posted"
                         THEN 1 ELSE 0

MarksApproved ==
  /\ script.score.lms => script.score.mark \in approved
  /\ \A h \in Handler : call[h].read.lms => call[h].read.mark \in approved
  /\ posted[1] > 0 => posted[2] \in approved

(* An analysis that a row or a request names is over and whole; one under  *)
(* way has the responses it has made.                                      *)
Finished(id) ==
  id # 0 => /\ id \in 1..count /\ Made(id) = 1..Questions
            /\ \A h \in Handler : call[h] # Idle => call[h].id # id

Analyses ==
  /\ Finished(script.score.analysis)
  /\ \A h \in Handler : Finished(call[h].read.analysis)
  /\ \A h \in Handler : call[h].op = "analyze" =>
       Made(call[h].id) = (call[h].left + 1)..Questions

(* Requests that do not overlap: at most one is under way, ...             *)
Alone ==
  ~raced =>
    /\ \A g, h \in Handler : g = h \/ call[g] = Idle \/ call[h] = Idle
    /\ \A h \in Handler : call[h] # Idle => call[h].read.analysis = script.score.analysis
    /\ \A h \in Handler, r \in responses :
         call[h].op = "analyze" /\ r.by = call[h].by => r.of = call[h].id
    /\ \A r, s \in responses : r.by = s.by => r.of = s.of
    /\ responses # {} /\ script.score.analysis = 0 =>
         faults > 0 \/ \E h \in Handler : call[h].op = "analyze"

IInv == Typed /\ Numbered /\ HeldWhileSent /\ Counted /\ MarksApproved /\ Analyses /\ Alone

(* A process in which one handler has the row, and waits for its thread,   *)
(* and another has the thread, and waits for the row.                      *)
SelfBlocked == \E g, h \in Handler :
                 g # h /\ Home(g) = Home(h) /\ lock = g /\ call[h].at = "wait"

(* Every request is answered in the end, unless a process has blocked      *)
(* itself: then it and all that wait for the row stand still.              *)
RequestsEnd == \A h \in Handler : []<>(call[h].at = "idle" \/ SelfBlocked)
=============================================================================
