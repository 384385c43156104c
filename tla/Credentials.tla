---------------------------- MODULE Credentials ----------------------------
(***************************************************************************)
(* CredentialsCache (src/src/auth.cpp, auth.h) composed with the topology  *)
(* cache it depends on and shares the cache file with.                     *)
(*                                                                         *)
(* With options().auth, main spawns keepUpdating, whose first call of      *)
(* instance() runs the constructor: it adopts the file's "auth" entry or  *)
(* spawns an update().  update() is also called by find() while the cache *)
(* is still null.  It fetches (g_config->get(), which throws while there   *)
(* is no Config, then the system.users of every database the Config       *)
(* lists), parses, stores the map in cache_ under the mutex, and puts the  *)
(* document into the cache file, where ConfigHolder's puts also write.     *)
(*                                                                         *)
(* A credentials document is [v, dbs]: system.users of version v in the   *)
(* databases dbs; NoCred is a null cache or an absent "auth" entry.  The  *)
(* fetch reads the Config and the users at one point.  Cache::put writes  *)
(* all of data_ to the file, so the file holds the last document of each  *)
(* key, unless the .tmp file cannot be opened or written: fileOk says     *)
(* whether the directory takes writes, for the whole run.                 *)
(*                                                                         *)
(* Building a Config gets the Shard of each entry of the shards table from *)
(* ShardPool; the shards table of version v lists one shard, whose       *)
(* connection string is ConnOf[v].  cshard is the Shard config_ links.     *)
(***************************************************************************)
EXTENDS TopologyCache, ShardPool, FiniteSets

CONSTANTS
  DbsOf,        \* DbsOf[c]: the databases Config version c lists
  MaxUsers,     \* bound on credentials versions (changes to system.users)
  CUpdaters,    \* coroutines calling CredentialsCache::update
  Ctor, CKeeper, Finder, \* the constructor's task, keepUpdating, a session's find()
  ConnOf        \* ConnOf[v]: the shard's connection string in Config version v

VARIABLES
  users,      \* credentials version on the config servers
  cred,       \* CredentialsCache::cache_
  credDisk,   \* "auth" in the cache file
  fileOk,     \* Cache::put's writes of the file succeed
  cupc,       \* per credentials updater: idle, fetch, install, put
  cfetched,   \* per credentials updater: what fetch() returned (NoCred when idle)
  finding,    \* a session's find() is waiting on its update()
  cshard      \* the Shard config_'s chunks and databases link

credVars == <<users, cred, credDisk, fileOk, cupc, cfetched, finding>>
shardVars == <<poolVars, cshard>>
allVars == <<vars, credVars, shardVars>>

NoCred == [none |-> TRUE]

\* What update() would fetch now: the servers' users of Config's databases.
Current == [v |-> users, dbs |-> DbsOf[config]]

\* The constructor: the "auth" entry of the file, or a spawned update().
CtorPc(d) == [u \in CUpdaters |-> IF u = Ctor /\ d = NoCred THEN "fetch" ELSE "idle"]

CredInit ==
  /\ users = 1
  /\ credDisk \in {NoCred} \cup {[v |-> 1, dbs |-> DbsOf[c]] : c \in 1..latest}
  /\ fileOk \in BOOLEAN
  /\ cred = credDisk
  /\ cupc = CtorPc(credDisk)
  /\ cfetched = [u \in CUpdaters |-> NoCred]
  /\ finding = FALSE

\* keepUpdating: after each confInterval, update().
CStart(u) ==
  /\ u = CKeeper /\ cupc[u] = "idle"
  /\ cupc' = [cupc EXCEPT ![u] = "fetch"]
  /\ UNCHANGED <<users, cred, credDisk, fileOk, cfetched, finding>>

\* Privileges::auth calls find(), which calls update() on a null cache.
FindStart ==
  /\ ~finding /\ cred = NoCred /\ cupc[Finder] = "idle"
  /\ finding' = TRUE
  /\ cupc' = [cupc EXCEPT ![Finder] = "fetch"]
  /\ UNCHANGED <<users, cred, credDisk, fileOk, cfetched>>

\* find() after its update() returned: cache = map(), then the lookup.
FindReturn ==
  /\ finding /\ cupc[Finder] = "idle"
  /\ finding' = FALSE
  /\ UNCHANGED <<users, cred, credDisk, fileOk, cupc, cfetched>>

\* fetch(): g_config->get() throws NoShardConfig without a Config; the
\* queries may fail (errors::Error).  keepUpdating logs it, the
\* constructor's task ends, find() throws to the authenticate command.
CFetchDone(u) ==
  /\ cupc[u] = "fetch" /\ config # 0
  /\ cfetched' = [cfetched EXCEPT ![u] = Current]
  /\ cupc' = [cupc EXCEPT ![u] = "install"]
  /\ UNCHANGED <<users, cred, credDisk, fileOk, finding>>

CFetchFail(u) ==
  /\ cupc[u] = "fetch"
  /\ cupc' = [cupc EXCEPT ![u] = "idle"]
  /\ finding' = (finding /\ u # Finder)
  /\ UNCHANGED <<users, cred, credDisk, fileOk, cfetched>>

\* Variant: the map is stored only into an empty cache.
CInstallIfEmpty(u) ==
  /\ cupc[u] = "install"
  /\ cred' = IF cred = NoCred THEN cfetched[u] ELSE cred
  /\ cupc' = [cupc EXCEPT ![u] = "put"]
  /\ UNCHANGED <<users, credDisk, fileOk, cfetched, finding>>

\* update(): the parsed map replaces cache_ under the mutex, whatever it
\* holds.
CInstall(u) ==
  /\ cupc[u] = "install"
  /\ cred' = cfetched[u]
  /\ cupc' = [cupc EXCEPT ![u] = "put"]
  /\ UNCHANGED <<users, credDisk, fileOk, cfetched, finding>>

\* g_cache->put("auth", obj): data_ gets the document and all of data_
\* replaces the file, unless opening or writing the .tmp file fails.
CPut(u) ==
  /\ cupc[u] = "put"
  /\ credDisk' = IF fileOk THEN cfetched[u] ELSE credDisk
  /\ cupc' = [cupc EXCEPT ![u] = "idle"] /\ cfetched' = [cfetched EXCEPT ![u] = NoCred]
  /\ UNCHANGED <<users, cred, fileOk, finding>>

\* ConfigHolder's g_cache->put("shard_config", ...) (Put), in the same
\* file.
TopoPut(u) ==
  /\ upc[u] = "put"
  /\ disk' = IF fileOk THEN fetched[u] ELSE disk
  /\ upc' = [upc EXCEPT ![u] = "idle"] /\ fetched' = [fetched EXCEPT ![u] = 0]
  /\ UNCHANGED <<latest, config, calls, restarts>>
  /\ UNCHANGED credVars /\ UNCHANGED shardVars

\* system.users changes on the config servers.
UsersChange ==
  /\ users < MaxUsers
  /\ users' = users + 1
  /\ UNCHANGED <<cred, credDisk, fileOk, cupc, cfetched, finding>>

-----------------------------------------------------------------------------
(* The composition.                                                        *)

TopoRest == <<latest, config, upc, fetched, calls, restarts, shardVars>>

\* Config::shard(id), which Chunk::link and Database::link store: the
\* Shard the pool p holds for the connection string of version v's shard.
Linked(p, v) == p[ConnOf[v]]

\* The constructor builds config_ from the cache file's document, so the
\* pool gets the shard's first Shard before any update() runs.
ShardsAtStart(d) ==
  [c \in Conns |-> IF d # 0 /\ c = ConnOf[d]
                   THEN [id |-> 1, kind |-> KindOf[c], conn |-> c]
                   ELSE NoShard]

CInit ==
  /\ Init /\ CredInit
  /\ pool = ShardsAtStart(disk)
  /\ newshard = [u \in Callers |-> NoShard]
  /\ cshard = IF disk = 0 THEN NoShard ELSE Linked(pool, disk)

\* update() builds a Config when config_ is null or holds another document.
NeedsBuild(u) == config = 0 \/ config # fetched[u]

\* Install with the Shard already in the pool (or no Config to build).
TopoInstall(u) ==
  /\ upc[u] = "install" /\ newshard[u] = NoShard
  /\ (Linked(pool, fetched[u]) # NoShard \/ ~NeedsBuild(u))
  /\ Install(u)
  /\ cshard' = IF upc'[u] = "put" THEN Linked(pool, fetched[u]) ELSE cshard
  /\ UNCHANGED poolVars /\ UNCHANGED credVars

\* The Config constructor's ShardPool::get found no Shard and makes one.
BuildShard(u) ==
  /\ upc[u] = "install" /\ NeedsBuild(u)
  /\ PoolMake(u, ConnOf[fetched[u]], {cshard.id})
  /\ UNCHANGED <<vars, cshard>> /\ UNCHANGED credVars

\* ... inserts it (or takes the winner's), links the chunks to it, checks
\* the versions (ShardConfigBroken) and stores the Config in config_,
\* without comparing again.
LinkInstall(u) ==
  /\ upc[u] = "install"
  /\ PoolInsert(u)
  /\ IF fetched[u] \notin Broken
     THEN config' = fetched[u] /\ cshard' = Linked(pool', fetched[u]) /\ upc' = [upc EXCEPT ![u] = "put"] /\ UNCHANGED fetched
     ELSE upc' = [upc EXCEPT ![u] = "idle"] /\ fetched' = [fetched EXCEPT ![u] = 0] /\ UNCHANGED <<config, cshard>>
  /\ UNCHANGED <<latest, disk, calls, restarts>> /\ UNCHANGED credVars

\* A restart starts a new process: both constructors adopt the cache
\* file, and the sessions are gone.
CRestart ==
  /\ Restart
  /\ cred' = credDisk
  /\ cupc' = CtorPc(credDisk)
  /\ cfetched' = [u \in CUpdaters |-> NoCred]
  /\ finding' = FALSE
  /\ UNCHANGED <<users, credDisk, fileOk>>
  /\ pool' = ShardsAtStart(disk)
  /\ newshard' = [u \in Callers |-> NoShard]
  /\ cshard' = IF disk = 0 THEN NoShard ELSE Linked(pool', disk)

TopoStep(u) ==
  \/ (StartUpdate(u) \/ FetchDone(u) \/ FetchFail(u)) /\ UNCHANGED credVars /\ UNCHANGED shardVars
  \/ TopoInstall(u) \/ BuildShard(u) \/ LinkInstall(u)
CredStep(u) == (CStart(u) \/ CFetchDone(u) \/ CFetchFail(u) \/ CInstall(u)) /\ UNCHANGED <<TopoRest, disk>>

CNext ==
  \/ CRestart
  \/ ServersChange /\ UNCHANGED credVars /\ UNCHANGED shardVars
  \/ \E u \in Updaters : TopoStep(u) \/ TopoPut(u)
  \/ \E u \in CUpdaters : CredStep(u) \/ (CPut(u) /\ UNCHANGED <<TopoRest, disk>>)
  \/ (UsersChange \/ FindStart \/ FindReturn) /\ UNCHANGED <<TopoRest, disk>>

\* Both refresh loops run forever and the worker threads run every ready
\* coroutine: an update() whose fetch has returned has no await left
\* before it stores (weak fairness of every updater's own steps).  The
\* config servers answer the keepers' fetches now and then (strong
\* fairness, as for ConfigHolder); a stale-config update() or find()'s
\* update() may wait on its fetch forever.  No session is obliged to
\* authenticate.
CFairness ==
  /\ \A u \in Updaters : WF_allVars(TopoInstall(u) \/ BuildShard(u) \/ LinkInstall(u) \/ TopoPut(u))
  /\ \A u \in CUpdaters : WF_allVars((CInstall(u) \/ CPut(u)) /\ UNCHANGED <<TopoRest, disk>>)
  /\ SF_allVars(FetchDone(Keeper) /\ UNCHANGED credVars /\ UNCHANGED shardVars)
  /\ WF_allVars(StartUpdate(Keeper) /\ UNCHANGED credVars /\ UNCHANGED shardVars)
  /\ SF_allVars(CFetchDone(CKeeper) /\ UNCHANGED <<TopoRest, disk>>)
  /\ WF_allVars(CStart(CKeeper) /\ UNCHANGED <<TopoRest, disk>>)
  /\ WF_allVars(FindReturn /\ UNCHANGED <<TopoRest, disk>>)

CSpec == CInit /\ [][CNext]_allVars /\ CFairness

-----------------------------------------------------------------------------
(* Properties.                                                             *)

CredDocs == {NoCred} \cup [v : 1..MaxUsers, dbs : {DbsOf[c] : c \in 1..MaxVersion}]

\* Once the cluster metadata, system.users and the process stop changing,
\* keepUpdating brings the credentials cache to what system.users holds
\* for the databases of the current Config, and it stays there, however
\* the constructor's and find()'s updates interleaved with it.
CredentialsConverge == <>[](config # 0 => cred = Current)

\* Spec 5's monotonicity, for the credentials: while the process runs,
\* the cache is replaced only by a newer system.users.
CredentialsMonotonic ==
  [][restarts' = restarts /\ cred' # cred /\ cred # NoCred => cred'.v >= cred.v]_allVars

\* ShardPool interns the shard: whatever the order in which concurrent
\* update() calls looked the pool up, built Shards and inserted them, and
\* whichever of them threw ShardConfigBroken after interning, the Config
\* in config_ routes through the one Shard the pool holds for its
\* connection string (one primary cache, one set of connection pools and
\* versions per shard).
InternedShards == config # 0 => cshard = Linked(pool, config) /\ cshard # NoShard
=============================================================================
