----------------------------- MODULE ShardPool -----------------------------
(***************************************************************************)
(* ShardPool (src/unnamed/part_002) and Shard::make (src/src/shard.cpp).   *)
(*                                                                         *)
(* ShardPool::get interns a Shard per connection string: it looks the      *)
(* string up under the shared lock, and if it is absent builds a Shard     *)
(* with Shard::make outside the lock (its Backends resolve their addresses *)
(* and every Endpoint spawns its keepPing task), then inserts it under the *)
(* unique lock.  std::map::insert keeps an entry already there, so a      *)
(* caller that lost the race gets the winner's Shard and its own one is    *)
(* destroyed when the shared_ptr leaves the scope.                         *)
(*                                                                         *)
(* shards_ maps each of a few connection strings, Conns, to NoShard or a  *)
(* Shard object [id, kind, conn]: its address, what it parsed, and its    *)
(* connection string.  A new Shard gets the least address no live Shard  *)
(* holds: the allocator reuses the memory of a destroyed one.              *)
(* A connection string is a sequence of tokens: host and set names, "/"    *)
(* and ",".                                                                *)
(***************************************************************************)
EXTENDS Integers, Sequences, SequencesExt, FiniteSets

CONSTANTS
  Callers,  \* coroutines that may call ShardPool::get concurrently
  Conns     \* connection strings the shards tables may list

VARIABLES
  pool,      \* ShardPool::shards_: connection string -> NoShard or a Shard
  newshard   \* per caller: the Shard it built and has not inserted yet

poolVars == <<pool, newshard>>

NoShard == [id |-> 0, kind |-> "none", conn |-> <<>>]

-----------------------------------------------------------------------------
(* Shard::make: "name/h1,h2" is a replica set, "h1,h2" a sync group, "h"   *)
(* a single server, "" the Null shard.                                      *)

\* The pieces of s between the separators sep (connstr.find(',', cur)
\* from cur = comma + 1 on, and the rest after the last one).
RECURSIVE SplitAt(_, _)
SplitAt(s, sep) ==
  LET i == SelectInSeq(s, LAMBDA t : t = sep)
  IN IF i = 0 THEN <<s>> ELSE <<SubSeq(s, 1, i - 1)>> \o SplitAt(SubSeq(s, i + 1, Len(s)), sep)

\* Variant: a replica-set name is ignored when the string lists one host.
ShardMakeIgnoringSet(cs) ==
  LET slash == SelectInSeq(cs, LAMBDA t : t = "/")
      replset == IF slash = 0 THEN <<>> ELSE SubSeq(cs, 1, slash - 1)
      members == SplitAt(SubSeq(cs, slash + 1, Len(cs)), ",")
  IN CASE cs = <<>> -> [kind |-> "Null", name |-> <<>>, hosts |-> <<>>]
       [] Len(members) = 1 -> [kind |-> "Single", name |-> <<>>, hosts |-> members]
       [] replset # <<>> -> [kind |-> "ReplicaSet", name |-> replset, hosts |-> members]
       [] replset = <<>> /\ Len(members) > 1 -> [kind |-> "Sync", name |-> <<>>, hosts |-> members]
       [] OTHER -> [kind |-> "error", name |-> <<>>, hosts |-> <<>>]

\* The replica-set name is what precedes the first "/", the members are
\* the comma-separated pieces after it; the last branch throws "bad
\* connection string".
ShardMake(cs) ==
  LET slash == SelectInSeq(cs, LAMBDA t : t = "/")
      replset == IF slash = 0 THEN <<>> ELSE SubSeq(cs, 1, slash - 1)
      members == SplitAt(SubSeq(cs, slash + 1, Len(cs)), ",")
  IN CASE cs = <<>> -> [kind |-> "Null", name |-> <<>>, hosts |-> <<>>]
       [] replset = <<>> /\ Len(members) = 1 -> [kind |-> "Single", name |-> <<>>, hosts |-> members]
       [] replset # <<>> -> [kind |-> "ReplicaSet", name |-> replset, hosts |-> members]
       [] replset = <<>> /\ Len(members) > 1 -> [kind |-> "Sync", name |-> <<>>, hosts |-> members]
       [] OTHER -> [kind |-> "error", name |-> <<>>, hosts |-> <<>>]

\* What Shard::make builds from each connection string the tables list.
KindOf == [c \in Conns |-> ShardMake(c).kind]

-----------------------------------------------------------------------------
(* ShardPool::get(id, c) by caller u.                                      *)

\* The lookup under the shared lock found nothing: Shard::make builds a
\* Shard outside the lock.
\* live: the addresses of the Shards held outside the pool's callers.
PoolMake(u, c, live) ==
  LET inUse == live \cup {pool[x].id : x \in DOMAIN pool} \cup {newshard[v].id : v \in DOMAIN newshard}
      addr == CHOOSE i \in 1..Cardinality(inUse) + 1 : i \notin inUse /\ \A j \in 1..i - 1 : j \in inUse
  IN /\ pool[c] = NoShard /\ newshard[u] = NoShard
     /\ newshard' = [newshard EXCEPT ![u] = [id |-> addr, kind |-> KindOf[c], conn |-> c]]
  /\ UNCHANGED pool

\* Variant: the new Shard replaces the entry (shards_[connstr] = newshard).
PoolInsertOverwriting(u) ==
  /\ newshard[u] # NoShard
  /\ pool' = [pool EXCEPT ![newshard[u].conn] = newshard[u]]
  /\ newshard' = [newshard EXCEPT ![u] = NoShard]

\* shards_.insert under the unique lock keeps an entry already there; get
\* returns the entry, and a Shard that lost the race is destroyed.
PoolInsert(u) ==
  /\ newshard[u] # NoShard
  /\ pool' = [pool EXCEPT ![newshard[u].conn] = IF @ = NoShard THEN newshard[u] ELSE @]
  /\ newshard' = [newshard EXCEPT ![u] = NoShard]

-----------------------------------------------------------------------------
(* The reference: the parsed forms of a connection string in spec §3      *)
(* ("Shard identity"), over names and host lists of the given tokens.      *)

\* h1 "," h2 "," ... for a non-empty list of hosts.
JoinHosts(hl) == FoldLeft(LAMBDA acc, h : IF acc = <<>> THEN <<h>> ELSE acc \o <<",", h>>, <<>>, hl)

MakeAgreesWithSpec(Names, Hosts, n) ==
  \A hl \in SeqOf(Hosts, n) \ {<<>>} :
    /\ \A nm \in Names :
         ShardMake(<<nm, "/">> \o JoinHosts(hl)) = [kind |-> "ReplicaSet", name |-> <<nm>>, hosts |-> [i \in DOMAIN hl |-> <<hl[i]>>]]
    /\ ShardMake(JoinHosts(hl)) =
         [kind |-> IF Len(hl) = 1 THEN "Single" ELSE "Sync", name |-> <<>>, hosts |-> [i \in DOMAIN hl |-> <<hl[i]>>]]

\* No string of the tokens makes Shard::make throw.
MakeTotal(Tokens, n) == \A cs \in SeqOf(Tokens, n) : ShardMake(cs).kind # "error"
=============================================================================
