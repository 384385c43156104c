---------------------------- MODULE ConfigFetch ----------------------------
(***************************************************************************)
(* One call of ConfigHolder::fetchConfig (src/src/config.cpp).             *)
(*                                                                         *)
(* task1 fetches from the config server with the least roundtrip.  The     *)
(* caller waits up to min(confRetransmit, confTimeout); if task1 has not   *)
(* succeeded, another server remains and confRetransmit is finite, task2   *)
(* fetches from a second server and the caller waits for either (and for   *)
(* task2 alone if task1 failed).  The result is task1's if task1 has       *)
(* completed, else task2's if task2 has, else an error.                    *)
(*                                                                         *)
(* A fetch task reads the tables shards, databases and collections         *)
(* (metadata), then chunks, with separate queries: each read sees the      *)
(* servers' metadata version `latest` at that moment.  The options are     *)
(* std::chrono::milliseconds turned into io::timeout directly, so "inf"    *)
(* is the infinite timeout here.                                           *)
(***************************************************************************)
EXTENDS Integers, FiniteSets

CONSTANTS
  Servers,     \* config servers (ConfigHolder::servers_)
  NoServer,
  InfMs,       \* the option value "inf"
  MaxVersion   \* bound on changes of the cluster metadata

ASSUME NoServer \notin Servers /\ Servers # {} /\ MaxVersion \in Nat \ {0}

Tasks == {"task1", "task2"}
Durations == {1, 2, InfMs}
MaxTick == 3

VARIABLES
  fpc,        \* wait1, race, wait2, solo, collect, done
  task,       \* idle, meta (reading metadata), chunks, ok, failed, cancelled
  srv,        \* server each task fetches from
  remaining,  \* serverIdxs: servers not yet picked
  meta,       \* version of the metadata tables a task has read
  chunks,     \* version of the chunks table a task has read
  latest,     \* current metadata version on the config servers
  start,      \* latest when the call began
  result,     \* what the call returned (Abs!Doc, Abs!Failure, Abs!Pending)
  clock, rtxCfg, toCfg

vars == <<fpc, task, srv, remaining, meta, chunks, latest, start, result,
          clock, rtxCfg, toCfg>>

\* fetchConfig implements ConfigFetchAbs, which also names its results.
Abs == INSTANCE ConfigFetchAbs WITH done <- (fpc = "done")

Finite(dl) == dl # InfMs
Expired(dl) == Finite(dl) /\ clock >= dl
\* std::min(retransmit, timeout); InfMs is the largest io::timeout.
MinDeadline(a, b) == IF ~Finite(a) THEN b ELSE IF ~Finite(b) THEN a
                     ELSE IF a < b THEN a ELSE b

Completed(t) == task[t] \in {"ok", "failed"}
Running(t) == task[t] \in {"meta", "chunks"}

\* runFetch: pickServer takes a remaining server and spawns a task on it.
RunFetch(t, s) ==
  /\ task' = [task EXCEPT ![t] = "meta"]
  /\ srv' = [srv EXCEPT ![t] = s]
  /\ remaining' = remaining \ {s}

Init ==
  /\ latest \in 1..MaxVersion
  /\ start = latest
  /\ \E s \in Servers :
       /\ task = [t \in Tasks |-> IF t = "task1" THEN "meta" ELSE "idle"]
       /\ srv = [t \in Tasks |-> IF t = "task1" THEN s ELSE NoServer]
       /\ remaining = Servers \ {s}
  /\ meta = [t \in Tasks |-> 0]
  /\ chunks = [t \in Tasks |-> 0]
  /\ fpc = "wait1"
  /\ result = Abs!Pending
  /\ clock = 0
  /\ rtxCfg \in Durations
  /\ toCfg \in Durations

-----------------------------------------------------------------------------
(* The fetch task body: getAny, establish with a ping, then readconf.      *)

ReadMeta(t) ==
  /\ task[t] = "meta"
  /\ \/ task' = [task EXCEPT ![t] = "chunks"] /\ meta' = [meta EXCEPT ![t] = latest]
     \/ task' = [task EXCEPT ![t] = "failed"] /\ UNCHANGED meta
  /\ UNCHANGED <<fpc, srv, remaining, chunks, latest, start, result, clock,
                 rtxCfg, toCfg>>

ReadChunks(t) ==
  /\ task[t] = "chunks"
  /\ \/ task' = [task EXCEPT ![t] = "ok"] /\ chunks' = [chunks EXCEPT ![t] = latest]
     \/ task' = [task EXCEPT ![t] = "failed"] /\ UNCHANGED chunks
  /\ UNCHANGED <<fpc, srv, remaining, meta, latest, start, result, clock,
                 rtxCfg, toCfg>>

-----------------------------------------------------------------------------
(* The caller.                                                             *)

\* io::wait(task1, min(retransmit, timeout)), then the hedging decision.
Wait1 ==
  /\ fpc = "wait1"
  /\ Completed("task1") \/ Expired(MinDeadline(rtxCfg, toCfg))
  /\ IF task["task1"] # "ok" /\ remaining # {} /\ Finite(rtxCfg)
     THEN /\ fpc' = "race"
          /\ \E s \in remaining : RunFetch("task2", s)
     ELSE /\ fpc' = "solo"
          /\ UNCHANGED <<task, srv, remaining>>
  /\ UNCHANGED <<meta, chunks, latest, start, result, clock, rtxCfg, toCfg>>

\* io::wait_any(task1, task2, timeout); if task1 failed and task2 is still
\* running, io::wait(task2, timeout) follows.
Race ==
  /\ fpc = "race"
  /\ Completed("task1") \/ Completed("task2") \/ Expired(toCfg)
  /\ fpc' = IF task["task1"] = "failed" /\ ~Completed("task2")
            THEN "wait2" ELSE "collect"
  /\ UNCHANGED <<task, srv, remaining, meta, chunks, latest, start, result,
                 clock, rtxCfg, toCfg>>

\* Variant: the wait has no deadline.
WaitOneUnbounded(from, t) ==
  /\ fpc = from
  /\ Completed(t)
  /\ fpc' = "collect"
  /\ UNCHANGED <<task, srv, remaining, meta, chunks, latest, start, result,
                 clock, rtxCfg, toCfg>>

\* io::wait(task2, timeout) in the race branch, io::wait(task1, timeout)
\* in the other.
WaitOne(from, t) ==
  /\ fpc = from
  /\ Completed(t) \/ Expired(toCfg)
  /\ fpc' = "collect"
  /\ UNCHANGED <<task, srv, remaining, meta, chunks, latest, start, result,
                 clock, rtxCfg, toCfg>>

\* Variant: a failed task's partly read tables are used as its document.
OutcomeIgnoringFailure(t) == Abs!Doc(meta[t], chunks[t])

\* The document of a task that has completed: get() rethrows its error.
Outcome(t) == IF task[t] = "ok" THEN Abs!Doc(meta[t], chunks[t]) ELSE Abs!Failure

\* Variant: no exception when neither task completed; the default-built
\* empty document is returned.
CollectNoThrow ==
  /\ fpc = "collect"
  /\ fpc' = "done"
  /\ result' = IF Completed("task1") THEN Outcome("task1")
               ELSE IF Completed("task2") THEN Outcome("task2")
               ELSE Abs!Pending
  /\ task' = [t \in Tasks |-> IF Running(t) THEN "cancelled" ELSE task[t]]
  /\ UNCHANGED <<srv, remaining, meta, chunks, latest, start, clock, rtxCfg,
                 toCfg>>

\* Take task1's outcome if it completed, else task2's, else throw; then
\* the destructors of task2 and task1 cancel whatever still runs.
Collect ==
  /\ fpc = "collect"
  /\ fpc' = "done"
  /\ result' = IF Completed("task1") THEN Outcome("task1")
               ELSE IF Completed("task2") THEN Outcome("task2")
               ELSE Abs!Failure
  /\ task' = [t \in Tasks |-> IF Running(t) THEN "cancelled" ELSE task[t]]
  /\ UNCHANGED <<srv, remaining, meta, chunks, latest, start, clock, rtxCfg,
                 toCfg>>

\* The cluster metadata changes (a chunk migration, a new collection ...).
ServersChange ==
  /\ fpc # "done"
  /\ latest < MaxVersion
  /\ latest' = latest + 1
  /\ UNCHANGED <<fpc, task, srv, remaining, meta, chunks, start, result,
                 clock, rtxCfg, toCfg>>

Tick ==
  /\ fpc # "done"
  /\ clock < MaxTick
  /\ clock' = clock + 1
  /\ UNCHANGED <<fpc, task, srv, remaining, meta, chunks, latest, start,
                 result, rtxCfg, toCfg>>

Returned == fpc = "done" /\ UNCHANGED vars

Next ==
  \/ \E t \in Tasks : ReadMeta(t) \/ ReadChunks(t)
  \/ Wait1 \/ Race \/ WaitOne("wait2", "task2") \/ WaitOne("solo", "task1")
  \/ Collect \/ ServersChange \/ Tick \/ Returned

\* The caller is resumed when it is ready and time passes; a config server
\* may never answer, so the task bodies are not fair.
Spec ==
  /\ Init /\ [][Next]_vars
  /\ WF_vars(Wait1) /\ WF_vars(Race) /\ WF_vars(Collect)
  /\ WF_vars(WaitOne("wait2", "task2")) /\ WF_vars(WaitOne("solo", "task1"))
  /\ WF_vars(Tick)

-----------------------------------------------------------------------------
TypeOK ==
  /\ fpc \in {"wait1", "race", "wait2", "solo", "collect", "done"}
  /\ task \in [Tasks -> {"idle", "meta", "chunks", "ok", "failed", "cancelled"}]
  /\ srv \in [Tasks -> Servers \cup {NoServer}]
  /\ remaining \subseteq Servers
  /\ meta \in [Tasks -> 0..MaxVersion] /\ chunks \in [Tasks -> 0..MaxVersion]
  /\ latest \in 1..MaxVersion
  /\ result \in [kind : {"none", "error", "doc"}, doc : (0..MaxVersion) \X (0..MaxVersion)]
  /\ clock \in 0..MaxTick
  /\ (fpc = "done") = (result.kind # "none")

\* fetchConfig implements ConfigFetchAbs: it returns once, and what it
\* returns is an error or tables that were current during the call, the
\* chunks read after the metadata.
AbsSpec == Abs!Spec

\* With a finite confTimeout every fetchConfig call returns, however the
\* config servers behave; with "inf" a server that never answers blocks
\* the caller (and keepUpdating) for good.
FetchTerminates == Finite(toCfg) => <>(fpc = "done")

\* Spec 4.3: the fetch consumes the first successful result, so it does not
\* fail while one of its tasks has succeeded.
FetchUsesSuccess ==
  [][(fpc = "collect" /\ fpc' = "done" /\ \E t \in Tasks : task[t] = "ok")
       => result'.kind = "doc"]_vars
=============================================================================
