--------------------------- MODULE TopologyCache ---------------------------
(***************************************************************************)
(* ConfigHolder (src/src/config.cpp, config.h in src/unnamed/part_003) and *)
(* the snapshot cache file (Cache, src/src/shard.cpp).                     *)
(*                                                                         *)
(* Several coroutines call ConfigHolder::update: the keepUpdating loop and *)
(* the ShardConfigStale retries of readOp, performWriteOp and              *)
(* Session::protect.  update fetches (as ConfigFetchAbs describes), reads  *)
(* config_ under the mutex, and if the fetched document differs builds a   *)
(* Config and stores it in config_, then writes the document to the cache  *)
(* file.  On start the constructor adopts the cached document.             *)
(*                                                                         *)
(* Snapshots are the versions 1..MaxVersion of the cluster metadata; 0 is  *)
(* "no config" (a null shared_ptr, or no cache entry).                     *)
(***************************************************************************)
EXTENDS Integers

CONSTANTS
  Updaters,      \* coroutines calling update(); Keeper is the refresh loop
  Keeper,
  MaxVersion,    \* bound on metadata changes
  MaxStaleCalls, \* bound on update() calls per ShardConfigStale retrier
  MaxRestarts,   \* bound on process restarts
  Broken         \* versions whose tables are inconsistent: Config throws

ASSUME Keeper \in Updaters /\ Broken \subseteq 1..MaxVersion

VARIABLES
  latest,   \* metadata version on the config servers
  config,   \* ConfigHolder::config_
  disk,     \* shard_config in the cache file
  upc,      \* per updater: idle, fetch, install, put
  fetched,  \* per updater: the document its fetchConfig returned (0 when idle)
  calls,    \* per updater: update() calls made so far
  restarts

vars == <<latest, config, disk, upc, fetched, calls, restarts>>

Versions == 1..MaxVersion

\* The process has just started: the constructor adopted the cache file.
Init ==
  /\ latest \in Versions
  /\ disk \in 0..latest
  /\ config = disk
  /\ upc = [u \in Updaters |-> "idle"]
  /\ fetched = [u \in Updaters |-> 0]
  /\ calls = [u \in Updaters |-> 0]
  /\ restarts = 0

\* ConfigHolder::ConfigHolder: a cached document becomes config_, and the
\* keepUpdating task is spawned.
Restart ==
  /\ restarts < MaxRestarts
  /\ restarts' = restarts + 1
  /\ config' = disk
  /\ upc' = [u \in Updaters |-> "idle"]
  /\ fetched' = [u \in Updaters |-> 0]
  /\ UNCHANGED <<latest, disk, calls>>

\* Variant: the retry loop's bound is off by one (attempt <= 3).
StartUpdateOffByOne(u) ==
  /\ upc[u] = "idle"
  /\ u # Keeper => config # 0 /\ calls[u] <= MaxStaleCalls
  /\ upc' = [upc EXCEPT ![u] = "fetch"]
  /\ calls' = [calls EXCEPT ![u] = IF u = Keeper THEN @ ELSE @ + 1]
  /\ UNCHANGED <<latest, config, disk, fetched, restarts>>

\* update() is called: by keepUpdating after each confInterval, or by a
\* request that got ShardConfigStale (it had a config to route with).
StartUpdate(u) ==
  /\ upc[u] = "idle"
  /\ u # Keeper => config # 0 /\ calls[u] < MaxStaleCalls
  /\ upc' = [upc EXCEPT ![u] = "fetch"]
  /\ calls' = [calls EXCEPT ![u] = IF u = Keeper THEN @ ELSE @ + 1]
  /\ UNCHANGED <<latest, config, disk, fetched, restarts>>

\* fetchConfig returns the servers' document, or throws (keepUpdating logs
\* the error; a retrier propagates it to its request).
FetchDone(u) ==
  /\ upc[u] = "fetch"
  /\ fetched' = [fetched EXCEPT ![u] = latest]
  /\ upc' = [upc EXCEPT ![u] = "install"]
  /\ UNCHANGED <<latest, config, disk, calls, restarts>>

FetchFail(u) ==
  /\ upc[u] = "fetch"
  /\ upc' = [upc EXCEPT ![u] = "idle"]
  /\ UNCHANGED <<latest, config, disk, fetched, calls, restarts>>

\* Variant: a new document is applied only when there is no config yet.
InstallIfEmpty(u) ==
  /\ upc[u] = "install"
  /\ IF config = 0 /\ fetched[u] \notin Broken
     THEN config' = fetched[u] /\ upc' = [upc EXCEPT ![u] = "put"] /\ UNCHANGED fetched
     ELSE upc' = [upc EXCEPT ![u] = "idle"] /\ fetched' = [fetched EXCEPT ![u] = 0] /\ UNCHANGED config
  /\ UNCHANGED <<latest, disk, calls, restarts>>

\* current = config_ under the mutex; if (!current || current->bson() !=
\* confBson) build a Config (which throws ShardConfigBroken on inconsistent
\* tables) and store it in config_ under the mutex; otherwise return.
Install(u) ==
  /\ upc[u] = "install"
  /\ IF (config = 0 \/ config # fetched[u]) /\ fetched[u] \notin Broken
     THEN config' = fetched[u] /\ upc' = [upc EXCEPT ![u] = "put"] /\ UNCHANGED fetched
     ELSE upc' = [upc EXCEPT ![u] = "idle"] /\ fetched' = [fetched EXCEPT ![u] = 0] /\ UNCHANGED config
  /\ UNCHANGED <<latest, disk, calls, restarts>>

\* g_cache->put("shard_config", confBson): under the cache mutex, written to
\* the .tmp file and renamed over the cache; a failed open or write leaves
\* the old file.
Put(u) ==
  /\ upc[u] = "put"
  /\ disk' \in {disk, fetched[u]}
  /\ upc' = [upc EXCEPT ![u] = "idle"] /\ fetched' = [fetched EXCEPT ![u] = 0]
  /\ UNCHANGED <<latest, config, calls, restarts>>

\* The cluster metadata changes (chunk migration, new collection ...).
ServersChange ==
  /\ latest < MaxVersion
  /\ latest' = latest + 1
  /\ UNCHANGED <<config, disk, upc, fetched, calls, restarts>>

Next ==
  \/ Restart \/ ServersChange
  \/ \E u \in Updaters :
       StartUpdate(u) \/ FetchDone(u) \/ FetchFail(u) \/ Install(u) \/ Put(u)

\* keepUpdating runs forever and the scheduler runs every ready coroutine;
\* the config servers are assumed to answer a fetch now and then (strong
\* fairness of FetchDone), which the code cannot ensure and needs.
Fairness ==
  \A u \in Updaters :
    /\ WF_vars(Install(u)) /\ WF_vars(Put(u))
    /\ SF_vars(FetchDone(u))
    /\ (u = Keeper) => WF_vars(StartUpdate(u))

Spec == Init /\ [][Next]_vars /\ Fairness

-----------------------------------------------------------------------------
TypeOK ==
  /\ latest \in Versions
  /\ config \in 0..MaxVersion /\ disk \in 0..MaxVersion
  /\ upc \in [Updaters -> {"idle", "fetch", "install", "put"}]
  /\ fetched \in [Updaters -> 0..MaxVersion]
  /\ calls \in [Updaters -> 0..MaxStaleCalls]
  /\ restarts \in 0..MaxRestarts

\* Once the cluster metadata stops changing, keepUpdating eventually brings
\* config_ to the servers' version and it stays there, whatever stale
\* installs the retriers made and whatever restarts happened (unless the
\* final metadata is itself inconsistent, so that no Config can be built).
Converges == <>[](config = latest \/ latest \in Broken)

\* Spec 5, version monotonicity: a snapshot created later never routes with
\* older chunk versions, so while the process runs update() replaces
\* config_ only by a document of newer metadata.
MonotonicInstall ==
  [][restarts' = restarts /\ config' # config => config' > config]_vars
=============================================================================
