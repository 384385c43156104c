# TLA+ models of mongoz

mongoz is a routing proxy for a sharded MongoDB cluster. It accepts client
connections, looks up which shard owns which data, and sends each read and
write to the shards. It runs on syncio, a cooperative coroutine scheduler that
uses several worker threads. Every blocking call takes a deadline, and a task
is cancelled at its next suspension point.

This directory holds TLA+ models of the parts of mongoz whose correctness
depends on interleavings, failures and deadlines. It also holds the TLC
configurations that check them. `PROJECT.json` lists the components, the runs,
the source lines behind every definition, the findings and the hazards.

## The system's parts and how they interact

| Part | Source | State | Operations |
|---|---|---|---|
| Endpoint / Connection | `src/unnamed/part_009` (backend.cpp), `src/src/backend.h` | Two pools of idle connections (primaries and secondaries) and the roundtrip. Each connection has a stream, an `authenticated` flag and a namespace→version map | `get`/`pop`, `establish` (reconnect, `authenticate`, `trySetVersion`), `release`, `flush`, `failed`, `pingNow`, `keepPing`, `setAlive`/`setDead` |
| Backend | backend.cpp, backend.h | Replica-set status, `nearest_` (Lazy), `permanentErrmsg_` | `endpointAlive`, `endpointDead`, `failed`, `pingNow` |
| Shard (Single, ReplicaSet, Sync) | `src/src/shard.cpp`, `src/unnamed/part_002` | `primary_` (Lazy), `lostPrimarySince`, `byRoundtrip_` (Lazy), one shared ping task | `readOp`, `primary`, `backendUpdated`, `onFailure`, `lostMaster`, `selectLocal`, `waitForPings` |
| Lazy cache | `src/unnamed/part_004` | `value_`, `hasValue_`, a shared mutex | `get` (double-checked fill), `clear`, `assign`, `cached` |
| ShardPool | part_002, shard.cpp (`Shard::make`) | Map from connection string to Shard | `get` (double-checked insert), `Shard::make` |
| Session framing | session.cpp (`readMsg`, `performHttp`), proto.h (`Message`) | The message buffer of the request being read | `readMsg`, the header read of `run`'s dispatch |
| TopologyCache | `src/src/config.cpp`, `src/unnamed/part_003` (config.h) | `config_` snapshot (a `shared_ptr<Config>`), on-disk cache | `fetchConfig` (hedged over the config servers), `update`, `keepUpdating`, `get` |
| Auth | `src/src/auth.cpp`, `src/src/auth.h`, session.cpp (`getnonce`, `authenticate`) | `CredentialsCache::cache_` (a `shared_ptr<Map>` under a mutex), the `auth` entry of the cache file; per session `nonce_` and `privileges_` (a mask per database and a global mask) | `CredentialsCache` constructor, `update`, `keepUpdating`, `find`, `parse`, `fetch`; `Privileges::auth`, `applyRoles`; `mknonce` |
| Router | config.cpp | Chunks of every collection, versions | `Config::find`, `Config::shards`, `hash`, Config construction (epoch check, version normalisation) |
| ReadEngine | `src/src/read.cpp`, `src/unnamed/part_000`, part_005 (TaskPool) | Per datasource: `conn_`, `cursorID_`, batch | `talk` (hedged t1/t2), `requestMore`, `doClose`, MergeDatasource, `readOp` retry loop, count/distinct |
| WriteEngine | part_003 (write.cpp), part_001 (write.h) | Per write: plan tree, last acknowledgements | `WriteToBackend::perform` (retransmit harness), Parallel/Sequential writes, ack merger, `performWriteOp` retries |
| SessionEngine | `src/src/session.cpp`, part_008 (CursorMap) | Cursor map (per session, or global), last write op | `run` (QUERY, GET_MORE, KILL_CURSORS, writes), `feed`, `protect`, `setWriteOp`, `command` |
| syncio | `src/contrib/syncio` | Ready queue, coroutines, waiters | spawn, `wait_any`, cancel at the next suspension, `~TaskBase` cancels and joins |

These parts interact as follows:
- A session turns a request into a read or a write plan, using a Config snapshot from the TopologyCache.
- A read asks the Shard for a connection (`readOp`) and talks to it through `talk`.
- A failure is reported back to the Shard (`failed`, `lostMaster`). That clears the Shard's caches and makes the Endpoints ping again.
- The credentials cache fetches `system.users` of the databases the current Config lists, and writes its document into the same cache file as ConfigHolder. A session's `authenticate` looks the user up in it and adds the user's roles to its privileges.
- A `ShardConfigStale` error makes readOp, performWriteOp and Session::protect call `ConfigHolder::update` and retry.

## What is hard here (the hazards)

`PROJECT.json` lists each hazard at its source line. In short:
- **Hedged reads.** Two tasks race to answer one read, and both write the shared `conn_`. The pool's choice of reply, the deadlines, the cancellation in the destructors and the error kept at timeout all depend on the order of events.
- **Topology refresh.** Config fetches are hedged across the config servers. Several coroutines call `update()` at once, including the refresh loop and the stale-config retries. Each one installs whatever it fetched.
- **Caches filled without the lock.** `Lazy<T>::get` computes the value outside the lock and installs it afterwards. The result can overwrite a `clear()` or `assign()` that ran in between.
- **Reconnects.** `establish` replaces a dead stream, but the connection's flags stay.
- **Write retries.** A write that is not acknowledged before writeRetransmit is cancelled and sent again. A stale config restarts a whole plan whose sub-writes may already be applied.
- **Routing.** A key equal to a split point belongs to the upper chunk. A compound lookup key is rebuilt from head, the `$in` value and tail. Keys of different numeric types compare by type code.
- **Scheduler wake-ups.** A coroutine that steps down leaves WaitItems in a wait queue and in the timeout heap; several wakers (the queue, ioWait, cancel) race to schedule it, and a stamp must make all but the first stale.
- **Credentials.** keepUpdating and a session's `find()` on a null cache call `update()` concurrently and each installs what it fetched. `Privileges::auth` grants role by role and database by database, and a throw part-way leaves what was granted.
- **Shard interning.** `ShardPool::get` builds a Shard outside its lock, so two config builders can build one for the same connection string; the pool must keep one.
- **Framing.** `readMsg` sizes the buffer from the client's length with `size_t` arithmetic and nothing checks it against the header's size.
- **Cursors.** A fetch error met mid-batch is stashed under the cursor id and must replace the cursor in the map, unless autoClose drops it. An exhausted cursor is closed before it is erased. In global mode two sessions share one cursor map, and one can delete a datasource the other is reading.

## Modules

| Module | Models | Source |
|---|---|---|
| `HedgedRead` | One call of `BackendDatasource::talk` together with `TaskPool::wait` and the task destructors | read.cpp 129-239, part_005 98-121, syncio task.cpp 37-49 |
| `ConfigFetchAbs` | What one `fetchConfig` call promises: one return, an error or tables that were current during the call | spec §4.3 |
| `ConfigFetch` | One call of `ConfigHolder::fetchConfig` with its two hedged fetch tasks and `readconf`; refines `ConfigFetchAbs` | config.cpp 400-475 |
| `TopologyCache` | `ConfigHolder::update` run by `keepUpdating` and by a ShardConfigStale retrier at once, the constructor adopting the cache file, `Cache::put` | config.cpp 477-542, shard.cpp 711-743, read.cpp 352-378 |
| `AuthSession` | Authentication of one session: `CredentialsCache::parse` and `fetch`'s document, `Privileges::applyRoles` and `auth`, `Session::command`'s `getnonce` and `authenticate`, and the reference: the privileges MongoDB grants for a user document | auth.cpp 118-211, 248-302, auth.h 54-99, session.cpp 422-436 |
| `Credentials` | `CredentialsCache` composed with `TopologyCache`: the constructor adopting the file's `auth` entry, `update()` by `keepUpdating` and by `find()`, the shared `Cache::put` of both caches, a restart | auth.cpp 214-302, auth.h 106-117, shard.cpp 711-741, main.cpp 362-363 |
| `MC_Credentials` | Instance of `Credentials` and `AuthSession`: the two topology updaters, keepUpdating and one `find()`, Config versions listing admin or admin and Sales, two versions of `system.users`, two nonces, four logins | — |
| `EndpointPool` | One Endpoint: its two pools, `get`/`pop`/`release`/`flush`, and `Connection::establish` with `authenticate` and `trySetVersion`, used by two primary callers and a pinger | part_009 40-254, backend.h 49-153 |
| `ReplicaSetPrimary` | How a ReplicaSet knows its primary: the `primary_` Lazy cache, `calcPrimary`, `backendUpdated`, `lostMaster`, `onFailure`, the per-endpoint ping loop and `Backend::endpointAlive`/`endpointDead`, and readers in "primary" mode | shard.cpp 187-496, part_004 51-64, part_009 222-318, read.cpp 143-160 |
| `Router` | Routing with a loaded Config: `Config::find` (the walk over the sharding key with `$in`, `doFind`'s `upper_bound` and its ASSERTs, dedup by shard), `Config::shards(ns)`, and the constructor's sort, gap check and version normalisation, over BSON's element and object order | config.cpp 177-368, part_003 61-64, part_007 41-56, part_022 147-241 |
| `KeyHash` | `hash()` of a hashed sharding key: `hashType`, the double branch with its clamps and cast, `hashRange` over objects and arrays, the seed | config.cpp 41-130, part_022 593-596 |
| `MC_KeyHash` | Every number of a 6-bit int64 model and the other types, and the reference: the canonical digest of spec §4.4 step 3 | — |
| `MC_Router` | The chunk tables and criteria `Find` is checked on, and the reference: chunk ranges in MongoDB's value order | — |
| `ReadSelection` | Which backend `ReplicaSet::readOp` picks: the mode from `$readPreference` or SLAVE_OK, primary and primaryPreferred, and otherwise `selectLocal` over `calcByRoundtrip` with `isHealthy`, `tagsMatch` and the maxReplLag cut by `maxOptime`; `Single::readOp` and `Sync::readOp` | shard.cpp 95-101, 136-178, 203-265, 420-480, 514-518 |
| `MC_ReadSelection` | Every snapshot of three backends and every call of a small set, and the reference: spec §4.2 | — |
| `MergeRead` | `MergeDatasource`: the constructor joining one task per shard under `protect`, `CompareBsons` on a one-field `$orderby`, the heap, and `doAdvance` with `protect`, close and pop | read.cpp 244-323, part_000 97-136 |
| `ReadAggregation` | `runCommand`, `aggregation`, and the count and distinct aggregators | read.cpp 333-412, 450-480 |
| `MC_MergeRead` | Every merge of three shards' results, and the reference: spec §4.5 and scenario S2; every count and distinct over up to three shards' replies | — |
| `WritePlan` | The plan `parseWriteOp`/`parseSubop` build for a delete batch, with the reference `PlanRespectsRouting` | part_003 727-837, proto.h 321-324 |
| `WriteEngine` | Performing that plan: `WriteToBackend::perform` per part, `ParallelWrite`/`SequentialWrite` with `stopAtFirstThat`, `establish`/`trySetVersion` outcomes, `performWriteOp`'s and `Session::protect`'s ShardConfigStale restarts | part_003 372-606, 883-928, part_009 46-172, part_010 46-60, session.cpp 102-121 |
| `WriteAck` | A session's last write and `getLastError`: `setWriteOp`, `command("getlasterror")`, `WriteOperation::acknowledge` with its cache and `areWriteConcernsEqual`, `doAcknowledge` of WriteToBackend24, NullWrite, FailedOperation and MultiWrite (over `commenced_`), `defaultAckMerger` | operations.h 139-190, part_003 236-370, 423-489, part_001 37-151, session.cpp 102-205, 394-404 |
| `MC_WriteAck` | The operations a legacy write may become and the write concerns a client sends | — |
| `SessionCursors` | Client cursors: `Session::run`'s QUERY, GET_MORE and KILL_CURSORS branches, `Session::feed` with its error stash and autoClose, `CursorMap` with local or global storage, and the DataSource, FixedDataSource and BackendDatasource life cycle | session.cpp 206-379, part_008 56-104, operations.h 40-125, part_000 54-62, read.cpp 40-51, 162-167 |
| `Scheduler` | syncio's wake-up protocol: `taskSwitch` on worker threads, `afterStepDown`, `doSchedule` with its stamp, `ioWait`, `cancel`/`cancelIfNeed`, `waitAll`, `io::sleep`, `cleanup` and `~TaskBase`, driven by an owner, its task and a canceller | sched.cpp 101-438, wait.cpp 35-92, task.cpp 37-97, part_013 297-375 |
| `ShardPool` | `ShardPool::get` split into its lookup-and-make step and its insert, and `Shard::make`'s parse of a connection string into a Sync, ReplicaSet or Single shard, with the reference: spec's reading of a connection string | part_002 144-161, shard.cpp 525-558 |
| `WireFrame` | `Session::readMsg`'s length checks and buffer, `performHttp`'s two outcomes, and the header read of `run`'s dispatch | session.cpp 51-100, 174-181, proto.h 144-160 |
| `MC_ReplicaSetPrimary`, `MC_WriteEngine`, `MC_SessionCursors` | Instances: model values for callers, connections, backends and shards. The cfgs of `HedgedRead` (two backends; 2^32-1 ms is tick 3), `EndpointPool`, `ConfigFetch`, `Scheduler` and `TopologyCache_MonotonicInstall` give their model values directly. `MC_WriteEngine` also computes the routes of its batches with `Router`'s `Find`, and extends `MC_KeyHash` | — |

### HedgedRead

State and how it maps to the code:
- `pc` is the point `talk` has reached: first wait, retransmit decision, second wait, the two destructors, done.
- `task[t]` is the state of each `io::task<Reply>`: not spawned, spawned, request sent, reply read, one of three error kinds, reset by `*t = io::task<Reply>()`, or cancelled.
- `pool` is `TaskPool::tasks_` in vector order. It is kept in order because `wait` takes the *first* completed task in that order and removes it by swapping with the back.
- `conn` is the backend of the member `conn_`. t1 moves it out when it starts. Each task stores its own connection there after reading a reply.
- `replyFrom` is the task whose reply `useReply` installed, which also gives the cursor id. `result` is how `talk` ended.
- `shardCalls` records `lostMaster()` and `failed(b)` from `handleErrors`.
- `clock`, `rtxCfg` and `toCfg` model the deadlines. The option values are 1 tick, 2 ticks or "inf". The conversion `as<unsigned>` is modelled by what it does: "inf" becomes the finite deadline `UIntMaxMs`, later than every other value.
- `okSeq` and `errs` are history variables, used only by the properties.

Actions and how they map to the code:
- `TaskSend` and `TaskReply` are the two suspension points of a task body: establish+send, then read. Each can also fail with NotMaster, another BackendClientError, or any other exception.
- `Wait1` and `Wait2` each take one round of the `TaskPool::wait` loop. A round either loops again or returns.
- `Retransmit` is the `retransmit.finite() && readOp(...).exists()` branch. `readOp` may return any backend, because in "primary" mode it ignores the exclusion, or it may return none.
- `~TaskBase` of t2 and then of t1 is three steps per task. `Cancel` is `cancel()` (task.cpp 37-40): a running task becomes cancelling, and a task that never started does not run its body. `Join` is the destructor's `join` (task.cpp 41-47), which waits while the task is still cancelling. `TaskUnwind` is the cancelled body unwinding to `cleanup` on its own coroutine (sched.cpp 146-166), so another step can interleave between the cancel and the join.
- `pc` runs dtor1, join2, dtor2, join1, done.

Fairness:
- The talk coroutine's steps, time (`Tick`) and `TaskUnwind` are weakly fair. The scheduler resumes every ready coroutine, including a cancelled one, and deadlines pass.
- Task bodies get no fairness, because a backend may never answer.

### ConfigFetch and ConfigFetchAbs

- `fpc` is where `fetchConfig` is: first wait, the race of both tasks, the wait for one task, collecting the result, done.
- `task[t]` is a fetch task's body: reading the metadata tables, reading chunks, ok, failed, cancelled. `meta` and `chunks` are the metadata versions each read saw. `latest` is the servers' version, which `ServersChange` advances at any time.
- `ReadMeta` and `ReadChunks` are the separate queries of `readconf`. Each sees the version current at that moment, or fails.
- `Wait1`, `Race`, `WaitOne` and `Collect` follow the caller's code. `Collect` takes task1's outcome if it completed, else task2's, else throws. The destructors then cancel whatever still runs.
- `Abs` maps the implementation onto `ConfigFetchAbs` with `done <- (fpc = "done")`. `AbsSpec` is checked as a property, which is the refinement.
- Fairness: the caller's waits and time are weakly fair. The fetch tasks are not, because a config server may never answer.

### TopologyCache

- `config` is `ConfigHolder::config_` and `disk` is the `shard_config` entry of the cache file. Both are metadata versions, with 0 meaning none.
- `upc[u]` is the place of updater `u` in `update()`: fetching, installing, writing the cache. `fetched[u]` is the document its `fetchConfig` returned (0 once the updater is idle again).
- `StartUpdate` covers `keepUpdating`'s loop for the keeper, and the `ShardConfigStale` catch of `readOp` for a retrier. The retrier only calls `update()` when it had a config, and at most `MaxStaleCalls` times.
- `Install` is lines 511-527: read `config_` under the mutex, compare, build a `Config` (which throws for the versions in `Broken`), then store. Building a Config has no suspension point, so the action is atomic.
- `Put` is `Cache::put`: the file is replaced atomically or, on an I/O error, left as it was.
- `Restart` is a process restart: the constructor adopts the cache file.
- Fairness: `Install` and `Put` are weakly fair, and so is the keeper's `StartUpdate`, because `keepUpdating` loops for ever. `FetchDone` is strongly fair: the config servers are assumed to answer now and then, which the code needs but cannot ensure.

### ShardPool

- The pool maps a connection string (a sequence of tokens) to a Shard `[id, kind, conn]`, or `NoShard`. `id` is the Shard's address: a new Shard gets the least address no live Shard holds, because the allocator reuses a destroyed Shard's memory, so an address alone does not tell two Shards apart over time.
- `PoolMake(u, c, live)` is lines 144-153: the lookup under the shared lock found nothing, and `Shard::make` builds a Shard outside the lock into the caller's `newshard[u]`. `PoolInsert(u)` is lines 154-156: `insert` under the unique lock, which keeps an entry another caller put there in between, and returns the pool's entry.
- `ShardMake` is `Shard::make`: a `/` makes a ReplicaSet of the name before it, a `,` a Sync shard, anything else a Single. `KindOf` precomputes it for the instance's connection strings.
- `Credentials` composes it with `ConfigHolder::update`: `BuildShard` is the `Config` constructor's `ShardPool::get` of a new version's shard, `LinkInstall` the insert followed by the install, and `cshard` the Shard `config_`'s chunks link to.

### WireFrame

- `pc` is where the session is: in `readMsg`, after it (dispatch), closed, or the whole process crashed. `size` is `data_.size()` of the message read.
- `ReadMsg(len)` is lines 78-100: a length above 16 MiB is an HTTP request (`performHttp`, then the session closes) if it spells "GET ", else refused. Below 4, `len - sizeof(len)` wraps in `size_t` and the vector constructor throws `std::length_error`, which ends the session. Otherwise the body is read.
- `Dispatch` is `msg.opcode()` at the top of `run`'s dispatch: `Message::header()` casts `data_.data()` unchecked. With at least 12 bytes the branch parses the body. Below that the read is outside the buffer: an empty vector's `data()` is null and the process faults; otherwise the opcode is whatever bytes lie behind the buffer.
- `HeaderInBounds` says no length makes `run` read a header outside the buffer. `WireFrame_HeaderInBounds.cfg` checks it over lengths at every boundary (0, 3, 4, 15, 16, 16 MiB and one above, the HTTP magic, 2^31-1), and TLC finds it violated in two steps: a client that sends the 4-byte length 4 crashes mongoz.

### AuthSession

- A credentials document is `[v, dbs]`: the users of `UserDocs[v]` in the databases `dbs`. `Fetched` lists them in `Config::databases()` order, and `Parse` folds them into the map keyed by (database, user), where an admin entry with a `db` field is keyed by that database and replaces an entry already there.
- `ApplyRoles` is `applyRoles`: every role names a database role, or on admin an any-database role, or nothing is applied and it throws. The `db` of a `{role, db}` role is read into `localdb` and not used. `ApplyOther` is the `otherDBRoles` loop, where a throw keeps the databases applied before it. `PrivAuth` is `Privileges::auth`, with ok, fail and error (a throw) outcomes.
- A session is `[nonce, issued, privs, log]`: `nonce_`, the `mknonce()` calls so far, `privileges_`, and the successful authentications. `GetNonce` and `Authenticate` are the two branches of `Session::command`; each authenticate command carries the document the cache holds when it runs, so the set of all command scripts covers every interleaving with the cache's refreshes. `Reached` is every session of up to `MaxCmds` commands.
- The module has no variables: its checks (`PrivilegesProvenChecked`, `ParseCorrectChecked`) are constant-level. `MC_Credentials` states them as `PrivilegesProven` and `ParseCorrect`, each joined to `SessionDocsCovered`: every document the cache or the file holds in a state is one of the documents the sessions were checked over. `ParseCorrect` is checked by the `topology_cache` run. `PrivilegesProven` is checked only over the over-granting users of `Credentials_OverGrant.cfg`, where it fails (see below); over the run's users, which avoid those cases, it would hold by their choice.

### Credentials

- `cred` is `cache_` and `credDisk` the `auth` entry of the file; both are documents `[v, dbs]` or `NoCred`. `users` is the version of `system.users` on the config servers.
- `cupc[u]` is the place of credentials updater `u` in `update()` (fetch, install, put) and `cfetched[u]` what its `fetch()` returned. `CFetchDone` needs a Config (`g_config->get()` throws without one); the fetch reads the Config's databases and the users at one point.
- `CStart` is `keepUpdating`'s loop. `FindStart`/`FindReturn` are `find()` on a null cache: it calls `update()`, which throws to the session if the fetch fails, and asserts the cache is set when it returns.
- `CPut` and `TopoPut` are `Cache::put` of the two keys: `data_` holds both entries and the whole file is replaced. `fileOk` says whether the directory takes writes for the whole run (a failed open or write leaves the old file).
- `CRestart` is a restart: both constructors adopt the file, sessions are gone. The constructor's own spawned `update()` runs only when the file had no `auth` entry; it is the same code as `find()`'s `update()` and the instance leaves that updater out (`Ctor` is a model value outside `CUpdaters`).
- Fairness (`CFairness`): each updater coroutine's steps after its fetch returned (install, build a Shard, insert, put) are weakly fair, because the worker threads run every ready coroutine and no await is left before the store. The keepers' fetches are strongly fair (the config servers answer now and then) and their loops weakly fair; `FindReturn` is weakly fair. A stale `update()` or `find()`'s fetch is not fair: its server may never answer, and convergence must not depend on it. No session is obliged to authenticate.

### EndpointPool

- `primaries` and `anyConns` are the two vectors. `get` pops at the back.
- Per connection there are two kinds of state. The client side is `isPrimary`, `authd` (`Impl::authenticated`), `ver` (`Impl::versions[ns]`) and `stream` (none, open, broken). The server side is `wireAuth` and `wireVer`: what the server knows about the current TCP connection.
- `Break` breaks an open stream, and the server forgets that connection. `Flush` is `Endpoint::failed` or `setDead` run by another coroutine.
- A caller goes through `Get`, `Authenticate`, `SetVersion` (one round of the retry loop per step), `Write` and `Reconnect` (following `establish` line by line, with `again` marking the second half), then `Reply`.
- `Reply` either releases the connection (`Release`: back to its pool if there is room, else closed) or drops it on an error.
- Fairness: the caller's steps are weakly fair. Every read has a deadline that cancels it, so an operation that took a connection always ends. Taking a connection, flushes and breaks are not fair.

### ReplicaSetPrimary

- `role` is what each server really is. `Elect` changes it, keeping at most one primary, and is bounded by `MaxElections`.
- `status` is `Backend::status_`, and `epAlive`/`epWasAlive` are the endpoint's `roundtrip_` and `prevRoundtrip_`.
- `pval` and `phas` are `primary_.value_` and `hasValue_`.
- `emerg` is what the shard's emergency ping (`ping_`) still has to ping. `failing` holds the backends whose `pingNow` was spawned by `Endpoint::failed`.
- `pc`, `comp` and `target` are each thread's place, the value its `Lazy::get` computed, and the backend a reader was given.
- `LazyCompute` and `LazyStore` are the two halves of `Lazy::get`. The compute runs `calcPrimary` with no lock held. The store writes under the lock, unconditionally.
- `Ping` is one probe of `pingNow` with `setAlive`/`setDead`. Its status effects are the helpers `EndpointAlive` and `EndpointDead` (`Backend::endpointAlive`/`endpointDead`); `BackendFailed` is `Backend::failed` with the endpoint's `failed`, and `OnFailureLost` is `onFailure`'s test that the failed backend is the cached primary. `BackendUpdated` is `ReplicaSet::backendUpdated`: it assigns a new primary, or calls `lostMaster` when the cached primary stops being one.
- `PingerGot` is the `primary_.get()` inside `backendUpdated`.
- Readers run `ReadStart` (`primary()`), `WaitForPings`, `ReaderGot` and `Talk`.
  - "not master" becomes `lostMaster`.
  - A dead server becomes `Shard::failed`, then `onFailure` (`TalkFailed`).
  - A reply from the primary, or a timeout from any server (read.cpp 226-238), changes no shard state.
- Fairness:
  - Every thread's steps are weakly fair.
  - `keepPing` loops for ever, and so does `SpecReading`'s `ReadStart`: clients keep reading in "primary" mode. `Spec` has no such assumption; it is the setting in which only pings run. The run checks only invariants, under `Spec`; the fairness matters to the convergence question of "Not modelled".

### WritePlan and WriteEngine

- A delete sub-operation is a limit (0 or 1) and its route: the shards `Config::find` returns, in order.
- `Plan(b)` is a sequence of stages.
  - An ordered batch of several sub-operations has one stage per sub-operation: the `SequentialWrite` of `parseWriteOp`.
  - A stage is a sequence of parts: the local group of each shard first (`makeLocal`), then the sequential entries (`makeGlobal`).
  - A part lists the shards it visits in order and the sub-operations it carries. `limit1` marks the `stopAtFirstThat` of a limit-1 entry.
- `PlanRespectsRouting` is an independent reference. It is stated over the (sub-operation, shard) pairs a plan sends and the shape of its parts.
- WriteEngine's state:
  - `docs[i][s]` is whether shard `s` still holds the document sub-operation `i` matches.
  - `opc` is `performWriteOp`'s place: performing, updating the config after ShardConfigStale, done.
  - Per part, `pst` is where its `WriteToBackend::perform` is. It is one of `conn`, `estab`, `sent`, `replied`, `notmaster`, or finished as `done`, `stale` or `error`. `pos` is its shard, `tries` its rounds within writeTimeout, and `acked` whether the last reply's n was not 0. `cached` is whether its `WriteToBackend`'s `lastStatus_` holds a "not master" acknowledgement for `{getLastError: 1}`.
  - `wattempt` and `sattempt` are the attempt counters of `performWriteOp` (3 in the code) and `Session::protect` (8 in the code).
  - `stale[s]` means the config's chunk version for `s` is outdated. `primary[s]` is `up`, `gone` (stepped down but still cached) or `none`.
- WriteEngine's actions:
  - `Connect` is `shard->primary()` inside `establish`. With a known primary it takes a connection; with none, `establish` fails with NoSuitableBackend and the round retries like any other failure.
  - `Establish` is `doPerform`'s `establish`. `trySetVersion` answers NotMaster from a stepped-down primary and ShardConfigStale for an outdated version. Either one ends the part with an exception.
  - `Serve` is `WriteToBackend24::doPerform` after `establish`: the server applies the delete (a stepped-down primary does not), then `acknowledge({getLastError: 1})` either returns the cached status or asks the server. A legacy delete carries no write concern, so it always takes this 2.4 form.
  - `Deliver` is the reply arriving within `min(writeRetransmit, writeTimeout)`.
    - "not master" is stored by `setAcknowledge`, calls `lostMaster` and starts another round (`Retry`) with the same object, so the stored status stays.
    - Any other reply ends the round, and `Advance` moves a sequential part on unless its limit-1 reply had n ≠ 0.
  - `Timeout` is the cancel + `Shard::failed` branch. The server may already have applied the write.
  - `StageDone` is `io::transform` waiting for every part, then `get()` in part order rethrowing the first exception. `UpdateConfig` is `performWriteOp`'s catch of ShardConfigStale, followed by the restart. `Expire` is `io::wait(t, writeTimeout)` giving up.
  - `Migrate`, `StepDown` and `Elect` are the cluster.
- Fairness:
  - The parts' steps, `StageDone` and `UpdateConfig` are weakly fair, because the coroutines are runnable.
  - `Elect` is weakly fair: a replica set eventually has a primary again.
  - `Timeout` and `Expire` may happen but are not forced.

### WriteAck and MC_WriteAck

- State:
  - `op` is the shape of `lastWriteOp_`: node 0 is the operation a legacy write became (WriteToBackend24, NullWrite, FailedOperation, ParallelWrite or SequentialWrite), nodes 1 and 2 are a MultiWrite's operations.
  - `res[i]` is what node i's write did on its server (n, or an error). `rep[i]` is whether a secondary has it.
  - `commenced` is MultiWrite's `commenced_`: the operations 1..commenced were performed.
  - `cache[i]` is node i's `lastWriteConcern_` and `lastStatus_`, or Empty.
- Actions:
  - `Write` is a legacy UPDATE/INSERT/DELETE: `protect` performs the operation and `setWriteOp` keeps it. Performing fills the caches as the code does. Each WriteToBackend24 stores its answer to `{getLastError: 1}` (`doPerform`). A SequentialWrite stops at the first error, or at the first n ≠ 0 under `stopAtFirstThat`. A MultiWrite stores the merge of its commenced operations' statuses under its write concern, `{getLastError: 1}` for a legacy write.
  - `Gle(wc)` is `command("getlasterror")`: `lastWriteOp_->acknowledge(wc)`, recursing into the children for a MultiWrite whose cache misses. A miss stores what it computed. Without a last write it answers `{err: null, n: 0}`.
  - `Replicate(i)` is the replica set: node i's write reaches a secondary. `Answer` is what mongod replies to getLastError on the write's connection, which `WriteToBackend24` keeps until `finish()`. Both are modelled from MongoDB's documented behaviour, not from code in this repository.
- `AckCurrent` compares each reply with `Fresh(wc)`, the answer that asking every commenced write's server now would give. A reply served from a cache must equal it. This holds because `areWriteConcernsEqual` separates every write concern that can change the answer: w 1 (or absent) from w 2 and "majority", j, and any wtimeout. The run's mutants treat w as irrelevant (a w: 2 getLastError is then answered from the w: 1 status stored by `doPerform` before the write has replicated), or ask every MultiWrite child instead of the commenced ones (a child a SequentialWrite never performed then gets a cache).

### Router and MC_Router

- `Router` has no state: a config `cf` is the tables a `Config` holds (chunks in the order config.chunks returns them, the sharded collections with their keys, and the primary of each unsharded database). Every definition is an operator over it.
- A BSON element is its type code and value: MinKey is -1 (0xFF read as int8_t), MaxKey 127, double 1, int32 16, int64 18. `ElemLess` compares type codes first and values only within one type, as `Element::cmpDisregardingNames` does. `ObjLess` is `impl::Base::cmp`: the first differing element decides, and a shorter object is less, since `Element()` has the name "".
- `Find` follows `Config::find` step by step: a field that is absent or compared with a `$`-operator other than `$in`, or a second `$in`, falls back to `ShardsOf`. Otherwise each lookup key goes through `Locate` (`upper_bound` on (namespace, key), one step back, both ASSERTs; 0 stands for a throw). The shards are deduplicated with their normalised versions. A hashed key looks up `{field: hash(value)}` as an int64; `hash` is a constant function of the value.
- `ConfigLoads` is the constructor not throwing: each collection's sorted chunks meet (`NoGap`) and the chunks of one collection on one shard share an epoch. `NormVersion` gives each its newest stamp.
- The `$minkey`/`$maxkey` renaming in the Chunk constructor is left out: the first field of a bound is the key field, so it never fires on a config server's tables.
- `MC_Router`'s reference is independent of the code's order. Keys are ordered by value (MinKey, numbers by value, MaxKey), a criteria matches the cross product of its fields' values, and a shard's version is that of its newest chunk there. It enumerates:
  - namespace 1 (key `{a: 1}`) with every set of split points among 2 and 3, every placement of its chunks on two shards and stamps 1 or 2 (100 tables);
  - a hashed namespace and one with a compound key, with config.chunks read out of sorted order;
  - every criteria per key field: absent, another operator, an equality with 1-3, or an `$in` of any subset of 1-3.
- `MC_WriteEngine` builds its batches from selectors. Each route is `Route(Find(...))`, the order in which `parseSubop` meets the shards that `find` returns.

### KeyHash and MC_KeyHash

- `hash(elt)` feeds MD5 a seed, a type tag and the value. `Feed(cvt, e)` is that sequence of words, and MD5 is taken to be injective on it, so two keys hash alike exactly when their feeds are equal. Router keeps `hash()` as a constant function of the value; KeyHash is what justifies that.
- `HashType` is `hashType`: every number (`canBe<double>()`, that is int32, int64 and double) has tag 10, MinKey and MaxKey feed their type code, each other named type its own tag, and the rest -1.
- `DoubleWord` is the double branch: NaN gives 0, a double below `(double) INT64_MIN` gives INT64_MIN, one above `(double) INT64_MAX` gives INT64_MAX, and any other is cast. `(double) INT64_MAX` is 2^63, because 2^63 - 1 has no double. So the double 2^63 passes the clamp, and its cast is undefined behaviour. The build decides: `cvt` is INT64_MIN on x86-64 (`cvttsd2si`) and INT64_MAX on AArch64. Every check is made for both.
- Widths are scaled: int64 has W = 6 bits and a double's significand P = 3 bits. With P < W - 1, `(double) INT64_MAX` rounds up to 2^(W-1) exactly as in the code. Doubles are `+-m * 2^(e-1)`, which gives fractions, the values around both bounds and values far beyond them.
- `MC_KeyHash`'s reference `Canonical` is spec §4.4 step 3: one tag for every number with its truncated and saturated int64 value, NaN as 0, and objects and arrays field by field. `HashCorrect` (in the `write_engine` run, through `MC_WriteEngine`) checks that feeds are equal exactly when canonical forms are. It covers every key of the domain whose conversion is defined, under both builds. `HashSaturates` includes the double 2^(W-1) and fails on the x86-64 outcome.

### ReadSelection and MC_ReadSelection

- A snapshot gives each backend what `readOp` reads of it: `alive()`, the myState of its status, `roundtrip()`, and its `backendInfo_` entry (tags, optime) if it has one. `rand()` may return anything, so `ReadOp` is the set of backends the call may pick; `{}` is an empty Connection.
- `ReadOp` follows the code:
  - "primary" returns `primary_.get()` whatever `exclude` is. "primaryPreferred" returns it when it is not excluded and its tags match.
  - Otherwise `selectLocal` runs with the predicate: healthy, not excluded, and, when `backendInfo()` was read (finite maxReplLag or tags), an entry with matching tags and optime at least `maxOptime - maxReplLag`.
  - `SelectLocal` keeps the candidates faster than the first one's roundtrip plus localThreshold. It falls back to all candidates only when none is.
- `MC_ReadSelection` enumerates 3375 snapshots of three backends, twelve calls and maxReplLag infinite or 1. It compares the result with spec §4.2 written independently (`SpecRead`).
- The code widens an empty prefix, never a prefix of one. `ReadOpWithinSpec` therefore accepts the spec's result with or without step 4's widening, and `ReadSelectionStrict` checks the letter.
- `SingleReadOp` returns the one backend's primary connection if it is alive and not excluded. `SyncReadOp` runs `selectLocal` with only `b != exclude`: a dead backend's roundtrip is `microseconds::max()`, and adding localThreshold to it overflows, which leaves the prefix empty and selects among all candidates, the same set the unbounded sum gives.
- `ShardKindsWithinSpec` compares both with spec §4.2 (`SpecSingle`, `SpecSync`) on every snapshot where a live candidate exists.
- `MC_ReplicaSetPrimary` also applies `ReadOp` to the statuses its pings have applied. A SLAVE_OK read must go to exactly the alive backends whose status is primary or secondary.

### MergeRead and MC_MergeRead

- A branch is what one shard's `BackendDatasource` will yield: the values of the `$orderby` field of its documents, in the shard's order, and where it fails. It can fail in its constructor (the task's `join` throws) or in the advance past its k-th document (a `requestMore` that throws), or never.
- `MergeLess` is `CompareBsons`: a max-heap comparator, so the front is the least value for direction 1 and the greatest for -1. With no `$orderby` every branch compares equal.
- Which of several equal fronts `pop_heap` takes depends on the heap's history. `Tops` is every front no live branch is above, and `Drain` gives every outcome of draining the merge the way `feed` does: `get`, then `advance` until `atEnd`.
- A branch carries `esc`: whether its failure is one `protect` lets escape. `protect` (part_000 120-135) absorbs only `io::error` and `BackendInternalError`; any other exception (a `BackendClientError` such as NotMaster or ShardConfigStale, an assertion) escapes even under PARTIAL. `Absorbed` is that test.
- `Drain` takes one step of `doAdvance` at a time. Under PARTIAL, an absorbed throw pops the branch (without `close`); any other throw leaves the merge. A branch at its end is closed and popped; any other is pushed back.
- `Merges` is the constructor: the first failing `join` whose error is not absorbed throws; branches already at their end are not kept.
- `MC_MergeRead` enumerates 3 shards × up to two documents with values 1 and 2, sorted in each direction, with every failure point, with and without PARTIAL. Three-branch inputs fail only with absorbed errors; two-branch inputs fail with either kind. `MergeCorrect` checks that the output is globally sorted (S2), that each shard's documents appear once and in order, that absorbed failures under PARTIAL drop their shard after what it yielded, and that otherwise the first failure met is raised. `PartialChecked` states spec §4.5 (under PARTIAL every shard failure is dropped) and fails on an escaping error.
- `ReadAggregation` is `runCommand`, `aggregation` and the count and distinct aggregators: the sum of the shards' n, and every value sorted and put through `std::unique`. `MC_MergeRead` checks it against a reference (the sum, and the sorted set of all values) for zero to three shards replying ok or not.
- The checks are `MergeDatasourceCorrect` and `AggregationCorrect` in the `session_cursors` run. `SessionCursors` treats a datasource as one stream that yields documents and may fail at a `requestMore`, and this check shows a merge behaves that way.

### Scheduler

- State:
  - `thr[t]` is worker thread t in `taskSwitch`: idle (fetching, or in `ioWait`), holding a fetched coroutine while it waits for that coroutine's `mutex_`, running it, in the two halves of `afterStepDown`, or exited.
  - Per coroutine: `pc` (where it runs or will resume), `stamp_`, `scheduled_`, `result_`, `stepDown_.cancelled_`, `cancellationDisabled_`, `completed_`, and `sd`, the wait queue and timeout of its last step-down.
  - `ready` is `ready_`, `timeouts` the TimedWaitItems in the heap, and `q` the task's `waiters_` queue with `qlocked` for its lock.
  - A WaitItem is a coroutine and a stamp. `Item(c)` reads the stamp when the item is built, as the constructor does.
- Actions:
  - Threads: `Fetch`, `Enter` (lock `mutex_`, clear `scheduled_`, switch), `AfterTimeout` and `AfterPush` (the two halves of `afterStepDown`, with `timeoutMutex_` released between them), `IoWait` (a thread whose `fetch` found nothing enters the poll) and `IoWake` (sched.cpp 417-438: it returns having fired any set of expired timeouts in any order, scheduling each with -ETIMEDOUT, or with none fired when `ready_` is non-empty or `usage_` is 0) and `Exit` (`usage_` is 0).
  - The owner spawns the task, waits for it (`WaitAll` then `Resume`: relock the queue, `cancelIfNeed`, return `result_`), and leaves the scope: `Dtor` cancels the task if it has not completed and waits again with cancellation disabled; `Enable` and `OwnerEnd` finish.
  - The task checks for a pending cancel in the trampoline, sleeps with a timeout, and runs `cleanup` (`completed_`, then `scheduleAll` under the queue lock).
  - The canceller sleeps, then cancels the owner (blocking on the owner's `mutex_` while a thread runs it).
- Abstracted: time. An expired timeout is any item in the heap; `IoWake` may fire any subset of them in any order, which covers every order the deadlines can produce.
- `TimedWait` chooses whether the owner's first wait has a deadline (`io::wait(task, t)`, as `fetchConfig` and `TaskPool::wait` use) or not (`join`). The `scheduler` run uses `join`; with the deadline the stale-stamp race below makes a finished coroutine runnable again, and the model then deadlocks or violates `ScheduledOnce`.

### SessionCursors

- State:
  - `dsv` holds the datasources that exist, one per slot. Deleting a `unique_ptr` frees its slot.
  - A backend datasource is counted, not built. `buf` is the documents left in its last batch. `srv` is the documents still behind its server cursor, so `cursorID_ != 0` exactly when `srv > 0`.
  - A failed `requestMore` leaves `buf = 0, srv > 0` (`Broken`). `atEnd()` is then false and `get()` reads `objects_.end()`.
  - A `queryError` FixedDataSource (`err`) has one document and the QUERY_FAILURE flag.
  - `nextId` is `generateID`'s counter. `cmap` is the CursorMap: one per session, or one shared under `globalCursors`.
  - Per session, `pc` is idle, inside `feed`'s loop, or after `feed` (the reply is flushed and the map is not yet updated). `fs` holds `feed`'s locals.
  - For the properties, `known` is the cursor ids the client holds, `lastReply` is the last reply, and `failedQ` is the queries whose stream hit a fetch error.
- Actions:
  - `Query` builds the datasource: the constructor's first `talk` (a batch of one for nToReturn 1), the nToSkip advances, and `saveErr` on any throw. It then starts `feed`.
  - `GetMore` is `find` followed by `feed`.
  - `FeedStep` is one turn of `feed`'s loop. A throw stashes an `err` under the cursor's id. The loop stops if documents are already in the reply; otherwise the `$err` goes out at once.
  - `FeedEnd` returns the cursor id, or closes the datasource (autoClose or exhausted), and writes the reply.
  - `QueryPost` and `GetMorePost` are the map updates after `feed`: reset, insert or erase, and the deletes each one implies.
  - `KillCursors` closes and erases one id.
- The session handles one request at a time. Every step is an action, so with one shared map another session's requests interleave at each suspension (`talk` in `requestMore`, the reply flush). With `threads` > 1 they interleave anywhere.
- Abstracted: commands (`$cmd` queries give a Fixed datasource), the 16 MiB reply cap and the debug `batchSize`. A merge over several shards is treated as one stream; `MergeRead` checks that it is one.

## Runs

| Run | Expect | What it shows |
|---|---|---|
| `hedged_read` (`HedgedRead.cfg`) | pass | Three properties hold for every order of replies, failures, deadlines, cancellations and task unwinding of the two tasks. `TypeOK` is the type invariant. `ReplyNotOvertaken`: the reply of the retransmit is used only if t1's reply did not arrive first (spec §8.7). `TalkTerminates`: `talk` always returns, the destructors' joins included, since a cancelled task eventually unwinds. |
| `config_fetch` (`ConfigFetch.cfg`) | pass | `fetchConfig` refines `ConfigFetchAbs` (`AbsSpec`): it returns once, with an error or with tables current during the call. With a finite `confTimeout` it always returns (`FetchTerminates`). |
| `topology_cache` (`Credentials.cfg`, module `MC_Credentials`) | pass | ConfigHolder and the credentials cache together, sharing the cache file, across a restart. `Converges`: `config_` settles on the servers' metadata, whatever stale installs and failed fetches happened. `CredentialsConverge`: the credentials cache settles on the current `system.users` of the current Config's databases, however `find()`'s update and keepUpdating's interleave. `ParseCorrect`: `parse` keys every user by its database and lets admin's entry win. `InternedShards`: whenever there is a config, the Shard it links to is the pool's entry for its connection string, however two `update()` calls building Shards for one new connection string interleave. `MakeCorrect`: `Shard::make` gives each connection string the kind spec's reading gives it, over every string of up to five tokens, and so does every pool entry. |
| `endpoint_pool` (`EndpointPool.cfg`) | pass | `VersionCacheCoherent`: a connection's recorded version is the one its stream has on the server, across `trySetVersion`'s retries, flushes and reconnects. `RequestsComplete`: every operation ends. |
| `endpoint_reauth` | violation | `SentAuthenticated` fails. After a pooled, authenticated connection's stream broke, `establish` reconnects and sends the request without authenticating. `authenticated` is never reset. |
| `replica_primary` (`ReplicaSetPrimary.cfg`) | pass | `ReadSelectionCorrect`: `readOp` (ReplicaSet, Single and Sync) picks what spec §4.2 allows on every snapshot and call of `MC_ReadSelection`, and on the shard's live statuses, while pingers, readers and `Lazy` fills interleave with elections. A reader's `talk` may get a reply, be told not master (`lostMaster`), fail (`onFailure`), or time out, which calls neither. |
| `write_engine` (`WriteEngine.cfg`) | pass | Five properties hold. `PlanCorrect`: the plan of every delete batch of one or two sub-operations over the two shards (220 batches), and of the batch being performed, sends every sub-operation to exactly its routed shards. It also keeps an ordered batch in order, makes cross-shard sequential parts only of limit-1 sub-operations, and gives each shard one local group per stage. `OkMeansRemoved`: an ok result means every limit-0 sub-operation removed its documents on all routed shards, and every limit-1 sub-operation removed one. `TypeOK` catches an attempt counter that overruns. `RouterConsistent`: `Config::find` agrees with the chunk ranges, read in the table's own key order (type code, then value), on every table and criteria of `MC_Router`, and the batch being written is routed to exactly the shards owning its selectors' keys. The split points mix NumberInt and NumberLong. `HashCorrect`: `hash()` is the spec's canonical digest wherever its behaviour is defined, so int32, int64 and double keys of one value reach one chunk. `Connect` also covers `establish` finding no primary, which retries like a connection failure. |
| `write_limit_one` (`WriteEngine_LimitOne.cfg`) | violation | `LimitOneRemovesOne` fails. The limit-1 delete's write to s1 is applied, but its reply is late. The retry gets n = 0, so `SequentialWrite` goes on to s2 and deletes a second document, against spec §4.6. |
| `write_ack_fresh` (`WriteEngine_AckIsFresh.cfg`) | violation | `AckIsFresh` fails. s1's primary steps down after the delete was sent, and the reply is "not master". A new primary is elected and the retry sends the delete to it, which applies it. `acknowledge({getLastError: 1})` then returns the stored "not master" status without asking, since the write concern is the same. Every round fails the same way until writeTimeout, so an applied write is reported as failed; spec §4.6 step 4 says the request is issued again. |
| `write_ack` (`WriteAck.cfg`) | pass | Two legacy writes of six shapes and three getLastError commands with six write concerns, interleaved with replication. `AckCurrent`: a getLastError reply is what asking every commenced write's server would give now, even when `acknowledge` serves it from a cache that `doPerform`, `MultiWrite::perform` or an earlier getLastError filled. `TypeOK` also checks that only the root and commenced operations hold a status. |
| `session_cursors` (`SessionCursors.cfg`) | pass | One session with its own map sends up to three QUERYs, any GET_MOREs and KILL_CURSORS, for any id issued so far. Fetch failures may happen in the constructor, the skip loop or any `requestMore`. Six properties hold. `MapHoldsOpenCursors` (spec §2): a map entry is a live, unclosed datasource under its own id, outside the window between `feed`'s close and the erase. `CloseSafety` (spec §8.8): `feed` never reads a deleted or closed datasource, nor one whose `requestMore` failed. `OpenCursorRetained`: every cursor id the client holds is found by GET_MORE. `TypeOK` catches a count decremented past INF. `MergeDatasourceCorrect`: every `MergeDatasource` of `MC_MergeRead` yields its shards' documents in `$orderby` order, each once, drops shards whose error `protect` absorbs under PARTIAL, and otherwise raises the first failure. `AggregationCorrect`: count and distinct over several shards answer ok only when every shard did, with the sum of the counts or every value once and sorted; one shard's reply is passed on. |
| `scheduler` (`Scheduler.cfg`) | pass | Two worker threads; the owner joins its task without a deadline, the canceller's cancel can land anywhere, and stale timeouts of cancelled sleeps stay in the heap, fired by `IoWake` in any order. `TypeOK` checks that `scheduled_` is set exactly while the coroutine is in `ready_` or fetched and not yet switched to. Deadlock is checked: every thread and coroutine can always move on until all exit. |

`TalkTerminates` holds only because of that same conversion. The mutant that keeps "inf" infinite breaks it: if both deadlines are "inf" and the backend hangs, `talk` waits forever.

Bounds:
- Two backends and two tasks. These cover a retransmit to the same backend or to another one, and no retransmit at all.
- Three option values: before, at and after each other, plus "inf". Every order of the two deadlines therefore occurs.
- There are at most two tasks, so nothing else is cut off.
- ConfigFetch: two config servers, so both "another server remains" and "no server remains" occur. Metadata versions 1-3, so the metadata can change between the two reads of either task.
- TopologyCache (in the composed run): the keeper and one retrier, versions 1-3 with version 2 inconsistent, one stale call and one restart. That lets two fetches overlap with a newer one installed in between, and a restart adopt a cache written by either. The standalone `TopologyCache` spec has a per-write failure of `Put`, which the composition replaces by `fileOk` to keep the product of the two caches within reach; `TopologyCache_MonotonicInstall.cfg` runs it with two stale calls.
- ShardPool (in the composed run): two connection strings, a replica set for version 1 and a Sync shard for versions 2 and 3. Both updaters can fetch version 2 or 3 while the pool has no Sync shard, so both build one.
- Credentials: keepUpdating and one `find()`, two versions of `system.users`, Config version 1 listing admin and versions 2-3 admin and Sales. So a `find()` fetch can overlap a keepUpdating one with the users or the databases changed in between, and a restart can adopt either's document.
- AuthSession: sessions of up to four commands with two nonces, over every document the cache can hold. The users cover 2.6 users with string, `{role, db}` and unparsable roles, an admin entry replacing a database's own, a legacy user, a role not valid on its database (an error), `otherDBRoles`, and a password change between versions.
- ReplicaSetPrimary: two backends (so a primary can move), one reader and one election. That is enough for the cache to outlive a change of primary.
- WritePlan: every batch of one or two sub-operations over the two shards, so that shared buckets, bucket order and every mix of local and sequential parts occur.
- WriteEngine:
  - Two shards and two batches. The unordered batch has a limit-1 delete over both shards and a limit-0 delete on s2, a ParallelWrite of a local group and a sequential part. The ordered batch is a delete on s1, then a limit-1 delete over both shards.
  - Attempts 2/2 instead of 3/8, and two rounds per `WriteToBackend`. With up to four migrations, both restart loops reach their bound.
  - One step-down, enough for a "not master" reply and a NotMaster from `establish`.
- Router: split points 2 and 3 and criteria values 1-3, so a key falls below, on and above a split point, an `$in` spans chunks, and a shard holds two chunks with different stamps. The compound-key table has a boundary inside one value of the first field.
- KeyHash: every int64 of 6 bits, int32 of 3 bits and double of a 3-bit significand with magnitude up to 448, with NaN, twelve other scalars, and one-field objects and arrays over eight values. These include both clamps, the rounded `(double) INT64_MAX`, fractions of either sign, and a number nested in an object.
- ReadSelection: three backends, each never alive, dead with a stale entry, or alive as myState 0, 1 or 2 with roundtrip 1 or 2 and one of two (tags, optime) pairs. localThreshold 1 puts roundtrip 2 out of the prefix of a roundtrip-1 backend and in the prefix of another roundtrip-2 one. Prefixes of one, two and three candidates occur, with ties broken by position.
- MergeRead: three shards, so a merge has a front, a runner-up and a third branch, ties between two, and a failure while two others are live. Two documents per shard and two values, so equal values across shards and a failure after the first or second document occur.
- Scheduler: two threads, so a timeout can fire on one thread while the other is inside `afterStepDown`, and a fetched coroutine can wait for the mutex of another thread. Three coroutines: an owner with two waits (one in `~TaskBase`), a task with one sleep, and one cancel. This is the least that leaves a stale item of every kind (queue, timeout, cancel) behind. The stamps stay below 6.
- WriteAck: two writes and three getLastErrors, so a cache filled by a write is read by two getLastErrors with different write concerns, and the second write replaces the first. Six shapes cover every `doAcknowledge` and both SequentialWrite stops. Six write concerns cover each clause of `areWriteConcernsEqual` (absent w and w 1 equal, w 2, "majority", j, wtimeout).
- SessionCursors: three datasource slots plus one, eight ids and three queries. Up to five documents with a server batch of two, so a GET_MORE meets a `requestMore` after sending a document. nToReturn is one of 0, 1, 2 and -2 (all, autoClose with a batch of one, a batch, autoClose). nToSkip is 0 or 1.
- EndpointPool: two primary callers and the pinger, two connection identities (so one caller may wait for a free one), `connPoolSize` = 1 (so a release finds the pool full), versions 1 and 2, and one broken stream. The violations are found with three identities and two breaks.

## Plan

Done:
- TopologyCache: `ConfigFetch`, `ConfigFetchAbs`, `TopologyCache`.
- Authentication and the credentials cache: `AuthSession`, `Credentials`, composed with `TopologyCache` in the `topology_cache` run.
- The Connection/Endpoint pool: `EndpointPool`.
- The ReplicaSet primary cache with the ping path: `ReplicaSetPrimary`.
- The delete write path: `WritePlan`, `WriteEngine`.
- Client cursors: `SessionCursors`.
- ShardPool's double-checked creation and `Config`'s shard linking: `ShardPool`, composed in `Credentials`.
- Message framing: `WireFrame`.
- Secondary selection: `ReadSelection`, checked by `MC_ReadSelection` within the `replica_primary` run.
- Routing: `Router`, checked by `MC_Router` and used by `MC_WriteEngine`.
- The scheduler's wake-up protocol: `Scheduler`.
- The merge of a multi-shard read: `MergeRead`, checked by `MC_MergeRead` within the `session_cursors` run, with count and distinct in `ReadAggregation`.
- Acknowledgements: `WriteAck`.

The modules to add, most important first:
1. Writes other than delete (insert, update, findAndModify), and write commands with their write concern (WriteToBackend26).
2. The ack merger's 32-bit counts and `updatedExisting`/`upserted` fields in `WriteAck`.

The project is limited to twelve runs. Seventeen violations found by the code's models are reproduced by a cfg but checked by no run. Their hazards in `PROJECT.json` say so.
- `ConnMatchesCursor` (HedgedRead), with `HedgedRead_ConnMatchesCursor.cfg`. If both tasks read a reply before `talk` collects one, `conn_` may hold t2's connection while the cursor id is t1's, so GET_MORE goes to a server that does not own the cursor.
- `HeaderInBounds` (WireFrame), with `WireFrame_HeaderInBounds.cfg`. A client sends a length of 4: `readMsg` reads an empty body and `run` reads the opcode through the null `data()` of the empty vector, so the process faults. Lengths 5 to 15 read bytes behind the buffer. Spec §7 says every message starts with the 16-byte header.
- `MonotonicInstall` (TopologyCache), with `TopologyCache_MonotonicInstall.cfg`, which checks the composed specification of `MC_Credentials` with two stale calls. The keeper and a retrier fetch versions 1 and 2, and the one that fetched 2 installs first. Then the other installs 1 over it.
- `CredentialsMonotonic` (Credentials), with `Credentials_Monotonic.cfg`. keepUpdating fetches the new `system.users` while a `find()` fetched the old one; keepUpdating installs first, and `find()`'s `update()` then replaces the newer map by the older one (and writes it to the file), until the next confInterval.
- `PrivilegesProven` over `MCUserDocsOverGrant`, with `Credentials_OverGrant.cfg`; each of its two admin users violates it alone. root2's `otherDBRoles` is `{Sales: [read], admin: [root]}`: `applyRoles` throws on "root" after read on Sales was added, so the authenticate command fails with an error while the session keeps READ on Sales.
  ops's role is `{role: "readWrite", db: "Sales"}`: `applyRoles` ignores the role's db and grants READ and WRITE on admin, and nothing on Sales.
- `DtorJoins` (Scheduler), with `Scheduler_DtorJoins.cfg`. The owner's timed wait times out and `~TaskBase` waits for the cancelled task with cancellation disabled. The canceller's cancel still wakes that wait with -ECANCELED, so `~TaskBase` detaches a task that is still running. The syncio test `dblcancel.cpp` says this must not happen.
- `ErrorNotLost` (SessionCursors), with `SessionCursors_ErrorNotLost.cfg`. A QUERY with nToReturn -2 sends its first document, and the `requestMore` behind the second one fails. The error is stashed, but autoClose closes the stash, and the reply has cursor 0 and no QUERY_FAILURE. The client takes one document as the whole result, against spec §4.5.
- `ScheduledOnce` with a deadline on the owner's wait (Scheduler), with `Scheduler_StaleStamp.cfg`. The owner steps down on the task's queue. Its timeout fires on the other thread before `afterStepDown` pushes the queue item, so that item is built with the bumped stamp. The owner resumes with -ETIMEDOUT and completes; the task's `scheduleAll` then passes the stamp check and puts the finished owner in `ready_`.
- `HashSaturates` (KeyHash), with `WriteEngine_HashSaturates.cfg`. The double 2^63 passes `hash()`'s clamp, and its `static_cast<int64_t>` is undefined. On x86-64 it gives INT64_MIN, so the key hashes like NumberLong(-2^63) and every double below it, where spec §4.4 step 3 says out-of-range doubles saturate.
- `TimeoutOnlyWithoutTaskError` (HedgedRead), with `HedgedRead_TimeoutOnlyWithoutTaskError.cfg`.
- `FetchUsesSuccess` (ConfigFetch), with `ConfigFetch_FetchUsesSuccess.cfg`.
- `PrimaryCacheConverges` under `Spec` (pings only), with `ReplicaSetPrimary_PingsOnly.cfg`. A `Lazy::get` fill inside `backendUpdated` computes b1 while b1 is still primary. b1 then dies, and its `endpointDead` clears the cache. The late store puts b1 back, and no ping removes it. A read whose `talk` fails on b1 repairs the cache through `onFailure`, but one that times out does not.
- `RouterCorrect` with split points stored as NumberLong, with `WriteEngine_NumericTypes.cfg`. `doFind` orders keys by type code before value, so the int32 key 3 sorts below every NumberLong bound. It lands in the first chunk, on s1, though the chunk [2, MaxKey) on s2 owns it. spec.md leaves the document order to the library ("a canonical total order", §1), so no run checks this.
- `ReadSelectionStrict`, with `ReplicaSetPrimary_SelectWiden.cfg`. With localThreshold > 0 the prefix under the threshold always holds the fastest candidate, so `selectLocal` never widens. A single fast secondary takes every secondary read, where spec §4.2 step 4 spreads them over all candidates.
- `SyncReadsAlive`, with `ReplicaSetPrimary_SyncAlive.cfg`. `Sync::readOp` filters only the excluded backend. When every backend but the excluded one is dead, it returns a dead backend's `getAny()` connection, where spec §4.2 says a sync shard picks an alive backend. It fails at the initial state.
- `CloseSafety` with `globalCursors`, with `SessionCursors_Global.cfg` (two sessions, one map). Session c1 is inside `feed` on a cursor when c2's KILL_CURSORS closes and erases it. This deletes the datasource c1 goes on reading: a use after free, against spec §8.8.
- `PartialMergeDropsFailures` (SessionCursors), with `SessionCursors_PartialMerge.cfg`. A PARTIAL query over two shards where one shard's `requestMore` throws a `BackendClientError` (NotMaster or ShardConfigStale): `protect` absorbs only `io::error` and `BackendInternalError`, so the error leaves the MergeDatasource and the whole query fails, where spec §4.5 says PARTIAL drops the failing shard. The check is constant-level, so it fails at the initial state.

## Not modelled

- Termination of the write path. `WriteToBackend::perform` retries without a bound of its own, and `writeTimeout` is infinite by default, so a write may retry for ever while primaries keep failing. `WriteEngine` bounds the rounds with `MaxTries`, a model bound, and therefore claims no liveness for writes.
- Convergence of the `primary_` cache while clients read. A read that times out on a dead cached primary calls neither `onFailure` nor `lostMaster`, so nothing repairs a stale cache until a ping does. TLC finds `PrimaryCacheConverges` violated under `SpecReading` with the timeout path, and under `Spec` with `ReplicaSetPrimary_PingsOnly.cfg` (above); no run claims it.

- `Privileges::require`/`authorized` at the commands that check them: a lookup in the masks `AuthSession` computes. `makeAuthKey` is a digest; a key is a model value. `mknonce`'s random bits are the constant `NonceSeq` of distinct nonces.
- `Cache::put` returns on a failed write without `::close(fd)` (shard.cpp 733-735), leaking a descriptor per failed write; the models keep no descriptors.
- `ShardPool::find`, used only by the debug `inspectshard` command, and the `config` Shard the ConfigHolder constructor interns (config.cpp 492), which no chunk links to.
- BSON encoding, auth hashing, address parsing, logging, the HTTP monitor and the CLI. These are byte-level I/O with no concurrent state. The models treat messages as kinds and replies as values.
- syncio's context switching, stacks, poller and fd I/O, condition variables and `wait_any`'s custom step-down. `Scheduler` models the wake-up protocol the rest relies on.
