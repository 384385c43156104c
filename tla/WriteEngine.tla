---------------------------- MODULE WriteEngine ----------------------------
(***************************************************************************)
(* The write path for a delete batch: Session::protect, performWriteOp,    *)
(* the plan parseWriteOp builds (src/unnamed/part_003, write.cpp) and its   *)
(* execution: ParallelWrite, SequentialWrite and the retry harness of       *)
(* WriteToBackend::perform on each shard.                                   *)
(*                                                                         *)
(* A delete sub-operation has a limit (0: all matching documents, 1: one)  *)
(* and the shards Config::find routes its selector to, in chunk order.     *)
(* Updates and inserts share the planner and the harness; deletes are the  *)
(* case where a limit makes the cross-shard sequential form appear.        *)
(***************************************************************************)
EXTENDS WritePlan, FiniteSets

CONSTANTS
  Batches,         \* delete batches a client may send
  WriteAttempts,   \* performWriteOp's loop: attempt != 3
  SessionAttempts, \* Session::protect's loop: attempt != 8
  MaxTries,        \* WriteToBackend rounds within writeTimeout
  MaxMigrations,   \* bound on chunk migrations that make a version stale
  MaxStepDowns     \* bound on primaries stepping down

-----------------------------------------------------------------------------
(* Execution.                                                              *)

VARIABLES
  batch,      \* the client's delete batch
  docs,       \* docs[i][s]: 1 while shard s holds a document sub-op i matches
  opc,        \* perform, update (ShardConfigStale caught), done
  stage,      \* the stage being performed
  pst,        \* per part: idle, conn, estab, sent, replied, notmaster,
              \* done, stale (ShardConfigStale), error (any other exception)
  pos,        \* per part: index of the shard it is at
  tries,      \* per part: rounds of WriteToBackend::perform's loop so far
  acked,      \* per part: the last reply's n was not 0
  cached,     \* per part: its WriteToBackend's lastStatus_ holds a
              \* "not master" acknowledgement for {getLastError: 1}
  wattempt,   \* performWriteOp's attempt
  sattempt,   \* Session::protect's attempt
  result,     \* none, ok, failed (a FailedOperation)
  stale,      \* stale[s]: the config's chunk version for s is outdated
  primary,    \* up; gone (the cached primary stepped down); none (unknown)
  migrations, stepdowns

vars == <<batch, docs, opc, stage, pst, pos, tries, acked, cached, wattempt,
          sattempt, result, stale, primary, migrations, stepdowns>>
partVars == <<pst, pos, tries, acked, cached>>

plan == Plan(batch)
Cur(j) == plan[stage][j]
At(j) == Cur(j).shards[pos[j]]

\* The parts of stage k start at their first shard.
PstFor(k) == [j \in PartIds |-> IF j <= Len(plan[k]) THEN "conn" ELSE "idle"]
StartStage(k) ==
  /\ stage' = k /\ pst' = PstFor(k)
  /\ pos' = [j \in PartIds |-> 1] /\ tries' = [j \in PartIds |-> 0]
  /\ acked' = [j \in PartIds |-> FALSE] /\ cached' = [j \in PartIds |-> FALSE]

\* A part that has finished keeps no position, round count or reply (its
\* WriteToBackend object is not consulted again).
Finish(j, st) ==
  /\ pst' = [pst EXCEPT ![j] = st]
  /\ pos' = [pos EXCEPT ![j] = 1] /\ tries' = [tries EXCEPT ![j] = 0]
  /\ acked' = [acked EXCEPT ![j] = FALSE] /\ cached' = [cached EXCEPT ![j] = FALSE]

Init ==
  /\ batch \in Batches
  /\ docs = [i \in Ids |-> [s \in Shards |-> 1]]
  /\ opc = "perform" /\ stage = 1 /\ pst = PstFor(1)
  /\ pos = [j \in PartIds |-> 1] /\ tries = [j \in PartIds |-> 0]
  /\ acked = [j \in PartIds |-> FALSE] /\ cached = [j \in PartIds |-> FALSE]
  /\ wattempt = 0 /\ sattempt = 0 /\ result = "none"
  /\ stale = [s \in Shards |-> FALSE] /\ primary = [s \in Shards |-> "up"]
  /\ migrations = 0 /\ stepdowns = 0

-----------------------------------------------------------------------------
(* WriteToBackend::perform of part j on its current shard.                 *)

\* The spawned doPerform: establish runs trySetVersion when the pooled
\* connection has not set this version yet; setShardVersion answers "not
\* master" (NotMaster thrown) from a stepped-down primary, and rejects an
\* outdated version (ShardConfigStale thrown).  Otherwise the request is
\* written.
SetVersionOutcome(s) ==
  IF primary[s] = "gone" THEN "error" ELSE IF stale[s] THEN "stale" ELSE "sent"

Establish(j) ==
  LET o == SetVersionOutcome(At(j)) IN
  /\ pst[j] = "estab"
  /\ \/ pst' = [pst EXCEPT ![j] = "sent"] /\ UNCHANGED <<pos, tries, acked, cached>>
     \/ o # "sent" /\ Finish(j, o)
  /\ UNCHANGED <<batch, docs, opc, stage, wattempt, sattempt, result, stale,
                 primary, migrations, stepdowns>>

\* WriteToBackend24::doPerform after establish: the shard's server
\* executes the request (its primary deletes the matching documents, one
\* per shard at most for limit 1; a stepped-down primary executes
\* nothing), then acknowledge({getLastError: 1}) returns lastStatus_ as
\* it is when it holds an acknowledgement for an equal write concern,
\* and otherwise sends getLastError, answered with n or, by a stepped-down
\* primary, "not master" (code 10058).
Serve(j) ==
  LET s == At(j) IN
  /\ pst[j] = "sent"
  /\ docs' = IF primary[s] = "up"
             THEN [i \in Ids |-> IF i \in Cur(j).ids THEN [docs[i] EXCEPT ![s] = 0] ELSE docs[i]]
             ELSE docs
  /\ IF primary[s] = "up" /\ ~cached[j]
     THEN /\ acked' = [acked EXCEPT ![j] = \E i \in Cur(j).ids : docs[i][s] = 1]
          /\ pst' = [pst EXCEPT ![j] = "replied"]
     ELSE /\ pst' = [pst EXCEPT ![j] = "notmaster"] /\ UNCHANGED acked
  /\ UNCHANGED <<batch, cached, opc, stage, pos, tries, wattempt, sattempt, result,
                 stale, primary, migrations, stepdowns>>

\* The loop goes round again, with the same WriteToBackend object and
\* so with lastStatus_ as c says, while writeTimeout has not expired,
\* else NoSuitableBackend is thrown.
Retry(j, c) ==
  IF tries[j] + 1 < MaxTries
  THEN /\ pst' = [pst EXCEPT ![j] = "conn"] /\ tries' = [tries EXCEPT ![j] = @ + 1]
       /\ acked' = [acked EXCEPT ![j] = FALSE] /\ cached' = [cached EXCEPT ![j] = c]
       /\ UNCHANGED pos
  ELSE Finish(j, "error")

\* c_ = shard->primary(): waitForPings, then the cached primary's
\* connection; with no primary known the loop sleeps 500 ms and goes
\* round again, a round counted against writeTimeout like any other.
Connect(j) ==
  /\ pst[j] = "conn"
  /\ \/ /\ primary[At(j)] # "none"
        /\ pst' = [pst EXCEPT ![j] = "estab"]
        /\ UNCHANGED <<pos, tries, acked, cached>>
     \/ primary[At(j)] = "none" /\ Retry(j, cached[j])
  /\ UNCHANGED <<batch, docs, opc, stage, wattempt, sattempt, result, stale,
                 primary, migrations, stepdowns>>

\* After an acknowledged reply a sequential part moves to its next shard
\* unless the reply's n was not 0 and the limit is 1; a part at its last
\* shard is done.
Advance(j) ==
  IF (Cur(j).limit1 /\ acked[j]) \/ pos[j] = Len(Cur(j).shards)
  THEN Finish(j, "done")
  ELSE /\ pst' = [pst EXCEPT ![j] = "conn"]
       /\ pos' = [pos EXCEPT ![j] = @ + 1] /\ tries' = [tries EXCEPT ![j] = 0]
       /\ acked' = [acked EXCEPT ![j] = FALSE] /\ cached' = [cached EXCEPT ![j] = FALSE]

\* Variant: a "not master" reply is taken as the write's acknowledgement.
DeliverIgnoringNotMaster(j) ==
  /\ pst[j] \in {"replied", "notmaster"}
  /\ Advance(j)
  /\ UNCHANGED <<batch, docs, opc, stage, wattempt, sattempt, result,
                 stale, primary, migrations, stepdowns>>

\* The reply arrives within min(writeRetransmit, writeTimeout), stored by
\* setAcknowledge as lastStatus_ for {getLastError: 1}: "not master"
\* makes the shard lostMaster (the cached primary is dropped) and the
\* loop retries; any other reply ends this WriteToBackend.
Deliver(j) ==
  /\ pst[j] \in {"replied", "notmaster"}
  /\ IF pst[j] = "notmaster"
     THEN /\ primary' = [primary EXCEPT ![At(j)] = IF @ = "gone" THEN "none" ELSE @]
          /\ Retry(j, TRUE)
     ELSE Advance(j) /\ UNCHANGED primary
  /\ UNCHANGED <<batch, docs, opc, stage, wattempt, sattempt, result,
                 stale, migrations, stepdowns>>

\* No reply within min(writeRetransmit, writeTimeout): the task is
\* cancelled, Shard::failed runs onFailure (lostMaster when the backend is
\* the cached primary) and Backend::failed, and the loop retries.  The
\* server may already have executed the request.
Timeout(j) ==
  /\ pst[j] \in {"sent", "replied", "notmaster"}
  /\ primary' = [primary EXCEPT ![At(j)] = IF @ = "gone" THEN "none" ELSE @]
  /\ Retry(j, cached[j])
  /\ UNCHANGED <<batch, docs, opc, stage, wattempt, sattempt, result,
                 stale, migrations, stepdowns>>

-----------------------------------------------------------------------------
(* The operation: ParallelWrite / SequentialWrite, performWriteOp and      *)
(* Session::protect.                                                       *)

Finished(j) == pst[j] \in {"idle", "done", "stale", "error"}
Threw(j) == pst[j] \in {"stale", "error"}

\* Every part of the stage has finished (io::transform waits for all);
\* t.get() in part order rethrows the first exception.  Without one, an
\* ordered batch goes on to its next sub-operation and the last stage
\* completes the write.  A ShardConfigStale reaches performWriteOp's
\* handler, which calls g_config->update(); any other exception becomes
\* protect's FailedOperation.
StageDone ==
  LET failing == {j \in PartIds : Threw(j)}
      first == CHOOSE j \in failing : \A k \in failing : j <= k
  IN
  /\ opc = "perform" /\ \A j \in PartIds : Finished(j)
  /\ IF failing = {}
     THEN IF stage < Len(plan)
          THEN StartStage(stage + 1) /\ UNCHANGED <<opc, result>>
          ELSE opc' = "done" /\ result' = "ok" /\ UNCHANGED <<stage, partVars>>
     ELSE IF pst[first] = "stale"
          THEN opc' = "update" /\ UNCHANGED <<stage, partVars, result>>
          ELSE opc' = "done" /\ result' = "failed" /\ UNCHANGED <<stage, partVars>>
  /\ UNCHANGED <<batch, docs, wattempt, sattempt, stale, primary, migrations,
                 stepdowns>>

\* Variant: performWriteOp's attempt bound is missed.
UpdateConfigUnbounded ==
  /\ opc = "update"
  /\ stale' = [s \in Shards |-> FALSE]
  /\ wattempt' = wattempt + 1 /\ opc' = "perform" /\ StartStage(1)
  /\ UNCHANGED <<batch, docs, result, sattempt, primary, migrations, stepdowns>>

\* g_config->update() fetches the config and installs fresh versions (a
\* later migration makes them stale again), or throws and the request
\* fails.  performWriteOp plans and
\* performs the whole write again, up to three attempts; the third
\* ShardConfigStale is rethrown, and protect updates and calls it again,
\* up to eight times, then returns its FailedOperation.
UpdateConfig ==
  /\ opc = "update"
  /\ \/ /\ stale' = [s \in Shards |-> FALSE]
        /\ IF wattempt + 1 < WriteAttempts
           THEN /\ wattempt' = wattempt + 1 /\ UNCHANGED sattempt
                /\ opc' = "perform" /\ StartStage(1) /\ UNCHANGED result
           ELSE IF sattempt + 1 < SessionAttempts
           THEN /\ sattempt' = sattempt + 1 /\ wattempt' = 0
                /\ opc' = "perform" /\ StartStage(1) /\ UNCHANGED result
           ELSE /\ opc' = "done" /\ result' = "failed"
                /\ UNCHANGED <<wattempt, sattempt, stage, partVars>>
     \/ /\ opc' = "done" /\ result' = "failed"
        /\ UNCHANGED <<stale, wattempt, sattempt, stage, partVars>>
  /\ UNCHANGED <<batch, docs, primary, migrations, stepdowns>>

\* io::wait(t, writeTimeout) in performWriteOp gives up: the perform task
\* is cancelled and BackendInternalError("timeout") becomes a
\* FailedOperation.
Expire ==
  /\ opc = "perform"
  /\ opc' = "done" /\ result' = "failed"
  /\ pst' = [j \in PartIds |-> "idle"] /\ pos' = [j \in PartIds |-> 1]
  /\ tries' = [j \in PartIds |-> 0] /\ acked' = [j \in PartIds |-> FALSE]
  /\ cached' = [j \in PartIds |-> FALSE]
  /\ UNCHANGED <<batch, docs, stage, wattempt, sattempt,
                 stale, primary, migrations, stepdowns>>

-----------------------------------------------------------------------------
(* The cluster.                                                            *)

\* A chunk migration bumps the shard's version: the proxy's is outdated.
Migrate(s) ==
  /\ migrations < MaxMigrations /\ ~stale[s]
  /\ migrations' = migrations + 1
  /\ stale' = [stale EXCEPT ![s] = TRUE]
  /\ UNCHANGED <<batch, docs, opc, stage, pst, pos, tries, acked, cached, wattempt,
                 sattempt, result, primary, stepdowns>>

\* The shard's primary steps down; the proxy still caches it.
StepDown(s) ==
  /\ stepdowns < MaxStepDowns /\ primary[s] = "up"
  /\ stepdowns' = stepdowns + 1
  /\ primary' = [primary EXCEPT ![s] = "gone"]
  /\ UNCHANGED <<batch, docs, opc, stage, pst, pos, tries, acked, cached, wattempt,
                 sattempt, result, stale, migrations>>

\* A new primary is elected and the shard's pings find it.
Elect(s) ==
  /\ primary[s] # "up"
  /\ primary' = [primary EXCEPT ![s] = "up"]
  /\ UNCHANGED <<batch, docs, opc, stage, pst, pos, tries, acked, cached, wattempt,
                 sattempt, result, stale, migrations, stepdowns>>

\* The request has been answered.
Answered == opc = "done" /\ UNCHANGED vars

PartStep(j) == Connect(j) \/ Establish(j) \/ Serve(j) \/ Deliver(j)

Next ==
  \/ \E j \in PartIds : PartStep(j) \/ Timeout(j)
  \/ StageDone \/ UpdateConfig \/ Expire
  \/ \E s \in Shards : Migrate(s) \/ StepDown(s) \/ Elect(s)
  \/ Answered

\* Coroutines that can run do, servers answer, and the pings eventually
\* find a primary; replies may be late (Timeout) and the outer deadline may
\* fire (Expire) but neither is forced.
Spec ==
  /\ Init /\ [][Next]_vars
  /\ \A j \in PartIds : WF_vars(PartStep(j))
  /\ WF_vars(StageDone) /\ WF_vars(UpdateConfig)
  /\ \A s \in Shards : WF_vars(Elect(s))

-----------------------------------------------------------------------------
TypeOK ==
  /\ batch \in Batches
  /\ docs \in [Ids -> [Shards -> {0, 1}]]
  /\ opc \in {"perform", "update", "done"}
  /\ stage \in 1..Len(plan)
  /\ pst \in [PartIds -> {"idle", "conn", "estab", "sent", "replied", "notmaster",
                          "done", "stale", "error"}]
  /\ \A j \in PartIds : pst[j] \notin {"idle"} => j <= Len(plan[stage])
  /\ pos \in [PartIds -> 1..Len(ShardSeq)] /\ tries \in [PartIds -> 0..MaxTries - 1]
  /\ acked \in [PartIds -> BOOLEAN] /\ cached \in [PartIds -> BOOLEAN]
  /\ wattempt \in 0..WriteAttempts - 1 /\ sattempt \in 0..SessionAttempts - 1
  /\ result \in {"none", "ok", "failed"} /\ (opc = "done") = (result # "none")
  /\ stale \in [Shards -> BOOLEAN] /\ primary \in [Shards -> {"up", "gone", "none"}]
  /\ migrations \in 0..MaxMigrations /\ stepdowns \in 0..MaxStepDowns

\* parseWriteOp refuses exactly the empty batches and those with an insert
\* or upsert not routed to one shard; it sends every sub-operation of the
\* others to every shard Config::find routes it to and nowhere else, keeps
\* an ordered batch in order, puts only limit-1 sub-operations into
\* cross-shard sequential parts, gives each shard one local group per
\* stage, and picks the write-command form exactly for shards that support
\* it when a writeConcern is given: for every delete, update and insert
\* batch of up to two sub-operations a client can send, and for the batch
\* being performed; findAndModify is refused exactly for an upsert not
\* routed to one shard.  (The first conjunct is a constant, which TLC
\* evaluates once.)
AllPlansRespectRouting ==
  /\ \A b \in AllBatches : PlanWellFormed(b)
  /\ \A r \in Routes, u \in BOOLEAN : FamWellFormed(r, u)
PlanCorrect == AllPlansRespectRouting /\ PlanRespectsRouting(batch)

\* A write the client is told succeeded has been carried out: every
\* limit-0 sub-operation removed its documents on all shards it routes
\* to, and a limit-1 sub-operation removed one on some shard (the
\* not-master retry of WriteToBackend::perform, the ShardConfigStale
\* restarts and the stage order all bear on it).
OkMeansRemoved ==
  result = "ok" =>
    \A i \in DOMAIN batch.subops :
      LET d == batch.subops[i] IN
      /\ d.limit = 0 => \A s \in ToSet(d.route) : docs[i][s] = 0
      /\ d.limit = 1 /\ d.route # <<>> => \E s \in ToSet(d.route) : docs[i][s] = 0

\* Spec 4.6: a cross-shard delete with limit 1 stops at the first shard
\* whose acknowledgement has n != 0, so it removes at most one document
\* in all, however the write was retried.
LimitOneRemovesOne ==
  \A i \in DOMAIN batch.subops :
    batch.subops[i].limit = 1 => Cardinality({s \in Shards : docs[i][s] = 0}) <= 1

\* Spec 4.6, step 4: after a "not master" reply, WriteToBackend::perform
\* calls lostMaster and issues the request again, so a round is answered
\* "not master" only when the primary it wrote to had stepped down.  The
\* ack cache of WriteOperation::acknowledge, which doPerform goes through,
\* is what this is about.
AckIsFresh ==
  [][\A j \in PartIds : pst[j] = "sent" /\ pst'[j] = "notmaster" => primary[At(j)] # "up"]_vars
=============================================================================
