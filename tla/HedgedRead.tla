---------------------------- MODULE HedgedRead ----------------------------
(***************************************************************************)
(* One call of BackendDatasource::talk (src/src/read.cpp) together with    *)
(* the TaskPool<Reply>::wait loop it relies on (src/unnamed/part_005).     *)
(*                                                                         *)
(* talk spawns task t1 on the datasource's connection conn_, waits for it  *)
(* up to min(retransmit, timeout), then possibly spawns a retransmit task  *)
(* t2 on a second connection and waits for the pool up to timeout.  Both   *)
(* tasks assign the shared member conn_ when they finish reading a reply;  *)
(* the reply whose cursor id is installed is the one pool.wait returned.   *)
(* When talk leaves, the io::task destructors cancel tasks still running.  *)
(*                                                                         *)
(* Time is a small counter of ticks.  Deadlines come from the read         *)
(* preference (or the options) as milliseconds read with as<unsigned>, so  *)
(* the "inf" option becomes a finite deadline of 2^32-1 ms (UIntMaxMs).    *)
(***************************************************************************)
EXTENDS Integers, Sequences, FiniteSets

CONSTANTS
  Backends,   \* backends of the shard the datasource reads from
  NoBackend,  \* an empty Connection
  InfMs,      \* the duration "inf" (std::chrono::milliseconds::max())
  UIntMaxMs   \* 2^32-1 ms in ticks: later than every finite option value

ASSUME NoBackend \notin Backends /\ UIntMaxMs \in Nat /\ UIntMaxMs > 2

Tasks == {"t1", "t2"}
NoTask == "none"
\* Ways a task body can fail: errors::NotMaster, another
\* errors::BackendClientError, or any other exception (io::error ...).
Errors == {"NotMaster", "ClientError", "IoError"}
\* Option values of retransmitMs / timeoutMs, in ticks.
Durations == {1, 2, InfMs}

VARIABLES
  pc,         \* where talk is: wait1, retransmit, wait2, dtor1, dtor2, done
  task,       \* state of each io::task<Reply>
  taskBe,     \* backend of the connection each task talks to
  pool,       \* TaskPool::tasks_, in vector order
  conn,       \* backend of the member conn_ (NoBackend when empty)
  replyFrom,  \* task whose reply useReply installed (cursorID_, objects_)
  result,     \* how talk ended: "none", "reply", an error or "Timeout"
  shardCalls, \* notifications sent to the Shard: lostMaster / failed(b)
  clock,      \* current time in ticks
  rtxCfg,     \* retransmitMs from the read preference or readRetransmit
  toCfg,      \* timeoutMs from the read preference or readTimeout
  okSeq,      \* history: tasks in the order their reply arrived
  errs        \* history: tasks whose body failed

vars == <<pc, task, taskBe, pool, conn, replyFrom, result, shardCalls,
          clock, rtxCfg, toCfg, okSeq, errs>>

\* io::timeout(milliseconds(readPref[...].as<unsigned>(opt.count()))):
\* the count is truncated to 32 bits, so milliseconds::max() turns into
\* 2^32-1 ms, which is not the infinite timeout.
\* Variant: the count kept at full width, so "inf" stays infinite.
AsDeadlineExact(d) == d

AsDeadline(d) == IF d = InfMs THEN UIntMaxMs ELSE d

Finite(dl) == dl # InfMs
Expired(dl) == Finite(dl) /\ clock >= dl
RetransmitDl == AsDeadline(rtxCfg)
TimeoutDl == AsDeadline(toCfg)
\* std::min(retransmit, timeout)
FirstWait == IF ~Finite(RetransmitDl) THEN TimeoutDl
             ELSE IF ~Finite(TimeoutDl) THEN RetransmitDl
             ELSE IF RetransmitDl < TimeoutDl THEN RetransmitDl ELSE TimeoutDl

Completed(t) == task[t] \in {"ok"} \cup Errors
Running(t) == task[t] \in {"spawned", "sent"}

\* *i = tasks_.back(); tasks_.pop_back();
SwapPop(s, i) == SubSeq([s EXCEPT ![i] = s[Len(s)]], 1, Len(s) - 1)

\* Variant: the scan picks the last completed task instead of the first.
FirstCompletedLast ==
  LET I == {i \in 1..Len(pool) : Completed(pool[i])}
  IN IF I = {} THEN 0 ELSE CHOOSE i \in I : \A j \in I : i >= j

\* The index std::find_if gives for the first completed task, or 0.
FirstCompleted ==
  LET I == {i \in 1..Len(pool) : Completed(pool[i])}
  IN IF I = {} THEN 0 ELSE CHOOSE i \in I : \A j \in I : i <= j

Init ==
  /\ pc = "wait1"
  /\ \E b \in Backends :
       /\ conn = b
       /\ taskBe = [t \in Tasks |-> IF t = "t1" THEN b ELSE NoBackend]
  /\ task = [t \in Tasks |-> IF t = "t1" THEN "spawned" ELSE "idle"]
  /\ pool = <<"t1">>
  /\ replyFrom = NoTask
  /\ result = "none"
  /\ shardCalls = {}
  /\ clock = 0
  /\ rtxCfg \in Durations
  /\ toCfg \in Durations
  /\ okSeq = <<>>
  /\ errs = {}

-----------------------------------------------------------------------------
(* Task bodies.  t1 first moves conn_ out; both establish and send, then   *)
(* read the reply and store their connection into conn_.                   *)

TaskSend(t) ==
  /\ task[t] = "spawned"
  /\ conn' = IF t = "t1" THEN NoBackend ELSE conn
  /\ \/ task' = [task EXCEPT ![t] = "sent"] /\ UNCHANGED errs
     \/ \E e \in Errors : task' = [task EXCEPT ![t] = e] /\ errs' = errs \cup {t}
  /\ UNCHANGED <<pc, taskBe, pool, replyFrom, result, shardCalls, clock,
                 rtxCfg, toCfg, okSeq>>

TaskReply(t) ==
  /\ task[t] = "sent"
  /\ \/ /\ task' = [task EXCEPT ![t] = "ok"]
        /\ conn' = taskBe[t]
        /\ okSeq' = Append(okSeq, t)
        /\ UNCHANGED errs
     \/ \E e \in Errors :
          /\ task' = [task EXCEPT ![t] = e]
          /\ errs' = errs \cup {t}
          /\ UNCHANGED <<conn, okSeq>>
  /\ UNCHANGED <<pc, taskBe, pool, replyFrom, result, shardCalls, clock,
                 rtxCfg, toCfg>>

-----------------------------------------------------------------------------
(* handleErrors: the Shard notification for a failed task.                *)
HandleErrors(t) ==
  CASE task[t] = "NotMaster" -> shardCalls \cup {<<"lostMaster", NoBackend>>}
    [] task[t] = "IoError"   -> shardCalls \cup {<<"failed", taskBe[t]>>}
    [] OTHER                 -> shardCalls

\* One round of the TaskPool::wait loop with deadline dl: wait_any returns
\* when a task has completed or dl has passed; the first completed task in
\* vector order is taken out of the pool.
PoolWait(dl) ==
  /\ FirstCompleted # 0 \/ Expired(dl)
  /\ pool' = IF FirstCompleted = 0 THEN pool ELSE SwapPop(pool, FirstCompleted)

\* The task the round took, or NoTask when wait returns 0.
PoolTask == IF FirstCompleted = 0 THEN NoTask ELSE pool[FirstCompleted]

\* A failure that is not a BackendClientError while other tasks remain
\* makes the loop go round again instead of returning.
PoolLoops == PoolTask # NoTask /\ task[PoolTask] = "IoError" /\ Len(pool) > 1

-----------------------------------------------------------------------------
(* talk itself.                                                            *)

\* First wait: a reply is installed and talk returns; a BackendClientError
\* other than NotMaster propagates; NotMaster or another failure is
\* reported to the Shard, swallowed, and the task reset (*t = task()).
AfterWait1(t) ==
  CASE t = NoTask ->
         /\ pc' = "retransmit"
         /\ UNCHANGED <<task, replyFrom, result, shardCalls>>
    [] task[t] = "ok" ->
         /\ pc' = "dtor1" /\ replyFrom' = t /\ result' = "reply"
         /\ UNCHANGED <<task, shardCalls>>
    [] task[t] = "ClientError" ->
         /\ pc' = "dtor1" /\ result' = "ClientError"
         /\ UNCHANGED <<task, replyFrom, shardCalls>>
    [] OTHER ->
         /\ pc' = "retransmit"
         /\ shardCalls' = HandleErrors(t)
         /\ task' = [task EXCEPT ![t] = "reset"]
         /\ UNCHANGED <<replyFrom, result>>

Wait1 ==
  /\ pc = "wait1"
  /\ PoolWait(FirstWait)
  /\ IF PoolLoops THEN UNCHANGED <<pc, task, replyFrom, result, shardCalls>>
     ELSE AfterWait1(PoolTask)
  /\ UNCHANGED <<taskBe, conn, clock, rtxCfg, toCfg, okSeq, errs>>

\* if (retransmit.finite() && (c2 = shard_->readOp(..., b)).exists()):
\* readOp may return any backend (in "primary" mode even the excluded one)
\* or an empty Connection.
Retransmit ==
  /\ pc = "retransmit"
  /\ pc' = "wait2"
  /\ \E b2 \in Backends \cup {NoBackend} :
       IF Finite(RetransmitDl) /\ b2 # NoBackend
       THEN /\ task' = [task EXCEPT !["t2"] = "spawned"]
            /\ taskBe' = [taskBe EXCEPT !["t2"] = b2]
            /\ pool' = Append(pool, "t2")
       ELSE UNCHANGED <<task, taskBe, pool>>
  /\ UNCHANGED <<conn, replyFrom, result, shardCalls, clock, rtxCfg, toCfg,
                 okSeq, errs>>

\* Variant: the raised value is the task itself rather than its error.
AfterWait2RaiseTask(t) ==
  LET raised == IF t # NoTask THEN t
                ELSE IF task["t1"] \in Errors THEN "t1"
                ELSE IF task["t2"] \in Errors THEN "t2"
                ELSE NoTask
  IN /\ pc' = "dtor1"
     /\ UNCHANGED task
     /\ CASE raised = NoTask ->
               result' = "Timeout" /\ UNCHANGED <<replyFrom, shardCalls>>
          [] task[raised] = "ok" ->
               result' = "reply" /\ replyFrom' = raised /\ UNCHANGED shardCalls
          [] OTHER ->
               /\ result' = raised
               /\ shardCalls' = HandleErrors(raised)
               /\ UNCHANGED replyFrom

\* Second wait: the returned task's reply is installed or its error
\* raised; on timeout, t1's error, else t2's error, else a timeout error.
AfterWait2(t) ==
  LET raised == IF t # NoTask THEN t
                ELSE IF task["t1"] \in Errors THEN "t1"
                ELSE IF task["t2"] \in Errors THEN "t2"
                ELSE NoTask
  IN /\ pc' = "dtor1"
     /\ UNCHANGED task
     /\ CASE raised = NoTask ->
               result' = "Timeout" /\ UNCHANGED <<replyFrom, shardCalls>>
          [] task[raised] = "ok" ->
               result' = "reply" /\ replyFrom' = raised /\ UNCHANGED shardCalls
          [] OTHER ->
               /\ result' = task[raised]
               /\ shardCalls' = HandleErrors(raised)
               /\ UNCHANGED replyFrom

Wait2 ==
  /\ pc = "wait2"
  /\ PoolWait(TimeoutDl)
  /\ IF PoolLoops THEN UNCHANGED <<pc, task, replyFrom, result, shardCalls>>
     ELSE AfterWait2(PoolTask)
  /\ UNCHANGED <<taskBe, conn, clock, rtxCfg, toCfg, okSeq, errs>>

\* ~TaskBase of t2, then of t1, first half: a task that has not completed
\* is cancelled (Coroutine::cancel marks it and schedules it with
\* -ECANCELED); talk then joins it.
Cancel(t, from, to) ==
  /\ pc = from
  /\ pc' = to
  /\ task' = IF Running(t) THEN [task EXCEPT ![t] = "cancelling"] ELSE task
  /\ UNCHANGED <<taskBe, pool, conn, replyFrom, result, shardCalls, clock,
                 rtxCfg, toCfg, okSeq, errs>>

\* Second half: io::wait(*this) with cancellation disabled returns once the
\* task has completed.
Join(t, from, to) ==
  /\ pc = from
  /\ task[t] # "cancelling"
  /\ pc' = to
  /\ UNCHANGED <<task, taskBe, pool, conn, replyFrom, result, shardCalls,
                 clock, rtxCfg, toCfg, okSeq, errs>>

\* The cancelled coroutine resumes: cancelIfNeed, in the trampoline of one
\* that never ran or at the step-down of one that waits, unwinds its stack
\* before the body reads anything more.
TaskUnwind(t) ==
  /\ task[t] = "cancelling"
  /\ task' = [task EXCEPT ![t] = "cancelled"]
  /\ UNCHANGED <<pc, taskBe, pool, conn, replyFrom, result, shardCalls, clock,
                 rtxCfg, toCfg, okSeq, errs>>

Tick ==
  /\ pc # "done"
  /\ clock < UIntMaxMs
  /\ clock' = clock + 1
  /\ UNCHANGED <<pc, task, taskBe, pool, conn, replyFrom, result, shardCalls,
                 rtxCfg, toCfg, okSeq, errs>>

Returned == pc = "done" /\ UNCHANGED vars

Next ==
  \/ \E t \in Tasks : TaskSend(t) \/ TaskReply(t) \/ TaskUnwind(t)
  \/ Wait1 \/ Retransmit \/ Wait2
  \/ Cancel("t2", "dtor1", "join2") \/ Join("t2", "join2", "dtor2")
  \/ Cancel("t1", "dtor2", "join1") \/ Join("t1", "join1", "done")
  \/ Tick
  \/ Returned

\* The scheduler resumes a ready coroutine (talk, or a task it scheduled
\* with -ECANCELED) and time advances; a backend may never answer, so the
\* task bodies' sends and reads get no fairness.
Fairness ==
  /\ WF_vars(Wait1) /\ WF_vars(Retransmit) /\ WF_vars(Wait2)
  /\ WF_vars(Cancel("t2", "dtor1", "join2")) /\ WF_vars(Join("t2", "join2", "dtor2"))
  /\ WF_vars(Cancel("t1", "dtor2", "join1")) /\ WF_vars(Join("t1", "join1", "done"))
  /\ \A t \in Tasks : WF_vars(TaskUnwind(t))
  /\ WF_vars(Tick)

Spec == Init /\ [][Next]_vars /\ Fairness

-----------------------------------------------------------------------------
TypeOK ==
  /\ pc \in {"wait1", "retransmit", "wait2", "dtor1", "join2", "dtor2", "join1", "done"}
  /\ task \in [Tasks -> {"idle", "spawned", "sent", "ok", "reset", "cancelling",
                         "cancelled"} \cup Errors]
  /\ taskBe \in [Tasks -> Backends \cup {NoBackend}]
  /\ pool \in Seq(Tasks)
  /\ conn \in Backends \cup {NoBackend}
  /\ replyFrom \in Tasks \cup {NoTask}
  /\ result \in {"none", "reply", "Timeout"} \cup Errors
  /\ clock \in 0..UIntMaxMs

\* Hedged read correctness (spec 8.7): talk never installs the retransmit's
\* reply when the first task's reply had already arrived before it; the
\* pool's in-order scan of completed tasks is what guarantees this.
ReplyNotOvertaken ==
  replyFrom = "t2" => okSeq[1] = "t2"

\* Every call of talk returns or raises: each pool.wait has a finite
\* deadline once the option values have been converted, even for "inf",
\* and each destructor's join ends once the cancelled task has unwound.
TalkTerminates == <>(pc = "done")

\* After talk returns a reply with a cursor, conn_ is the connection to the
\* backend that produced that reply, so GET_MORE and OP_KILL_CURSORS for
\* the cursor go to the server that owns it.
ConnMatchesCursor ==
  (pc = "done" /\ result = "reply") => conn = taskBe[replyFrom]

\* Spec 4.5 step 6: on total timeout talk raises a task's error if one has
\* failed, and raises a timeout error only when no task has an error.
TimeoutOnlyWithoutTaskError ==
  [][result' = "Timeout" => errs = {}]_vars

=============================================================================
