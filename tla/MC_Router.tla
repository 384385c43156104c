----------------------------- MODULE MC_Router ------------------------------
(***************************************************************************)
(* Config::find and Config::shards(ns) checked against the meaning of a    *)
(* chunk table: a key belongs to the one chunk whose [min, max) holds it,  *)
(* in MongoDB's order of key values (MinKey, then numbers by value, then   *)
(* MaxKey), and a shard's version for a collection is that of its newest   *)
(* chunk there.                                                            *)
(*                                                                         *)
(* Namespace 1 has key {a: 1} and every table with split points among      *)
(* SplitValues, every placement of its chunks on the shards and stamps 1   *)
(* or 2; namespace 2 has key {a: "hashed"}, namespace 3 key {a: 1, b: 1};  *)
(* namespace 4 is unsharded and namespace 5 is of an unknown database.     *)
(* config.chunks is read in an order other than the sorted one.            *)
(***************************************************************************)
EXTENDS Router

CONSTANTS
  CritValues,    \* the values a query's criteria compares key fields with
  SplitValues    \* the split points of namespace 1

S1 == ShardSeq[1]
S2 == ShardSeq[2]

Colls ==
  (1 :> [key |-> <<"a">>, hashed |-> FALSE]) @@
  (2 :> [key |-> <<"a">>, hashed |-> TRUE]) @@
  (3 :> [key |-> <<"a", "b">>, hashed |-> FALSE])

Ns2Chunks ==
  << [ns |-> 2, min |-> <<MinKey>>, max |-> <<Int64(2)>>, shard |-> S2, epoch |-> 2, stamp |-> 1],
     [ns |-> 2, min |-> <<Int64(2)>>, max |-> <<MaxKey>>, shard |-> S1, epoch |-> 2, stamp |-> 3] >>

Ns3Chunks ==
  << [ns |-> 3, min |-> <<Int32(2), Int32(3)>>, max |-> <<MaxKey, MaxKey>>, shard |-> S1, epoch |-> 3, stamp |-> 1],
     [ns |-> 3, min |-> <<MinKey, MinKey>>, max |-> <<Int32(2), MinKey>>, shard |-> S1, epoch |-> 3, stamp |-> 1],
     [ns |-> 3, min |-> <<Int32(2), MinKey>>, max |-> <<Int32(2), Int32(3)>>, shard |-> S2, epoch |-> 3, stamp |-> 2] >>

\* The chunks of namespace 1 split at the points of `sp`.
Ns1Chunks(sp, sh, st) ==
  LET lo == <<MinKey>> \o sp
      hi == sp \o <<MaxKey>>
  IN [i \in 1..Len(lo) |-> [ns |-> 1, min |-> <<lo[i]>>, max |-> <<hi[i]>>,
                            shard |-> sh[i], epoch |-> 1, stamp |-> st[i]]]

SplitSeqs == {SortSeq(SetToSeq(p), ElemLess) : p \in SUBSET SplitValues}

MakeConfig(t) ==
  [chunks |-> Ns3Chunks \o Reverse(t) \o Ns2Chunks, colls |-> Colls, primary |-> 4 :> S2]

Configs ==
  UNION {{MakeConfig(Ns1Chunks(sp, sh, st)) :
            sh \in [1..Len(sp) + 1 -> ToSet(ShardSeq)], st \in [1..Len(sp) + 1 -> {1, 2}]}
         : sp \in SplitSeqs}

\* The table the write path routes with: namespace 1 split at the least
\* split point, s1 below it and s2 above.
BaseConfig ==
  MakeConfig(Ns1Chunks(<<CHOOSE x \in SplitValues : \A y \in SplitValues : ~ElemLess(y, x)>>,
                       <<S1, S2>>, <<1, 2>>))

Absent == [op |-> "absent", v |-> MinKey, vs |-> {}]
Other == [op |-> "other", v |-> MinKey, vs |-> {}]
Eq(x) == [op |-> "eq", v |-> x, vs |-> {}]
In(xs) == [op |-> "in", v |-> MinKey, vs |-> xs]
Ops == {Absent, Other} \cup {Eq(x) : x \in CritValues} \cup {In(xs) : xs \in SUBSET CritValues}
Criteria(ns) == [ToSet(Colls[ns].key) -> Ops]

-----------------------------------------------------------------------------
(* The reference.                                                          *)

Rank(e) == CASE e = MinKey -> <<0, 0>> [] e = MaxKey -> <<2, 0>> [] OTHER -> <<1, e.v>>
ValueLess(a, b) ==
  Rank(a)[1] < Rank(b)[1] \/ (Rank(a)[1] = Rank(b)[1] /\ Rank(a)[2] < Rank(b)[2])
KeyLess(a, b) ==
  \E i \in DOMAIN a : (\A j \in 1..(i - 1) : Rank(a[j]) = Rank(b[j])) /\ ValueLess(a[i], b[i])
Holds(c, k) == ~KeyLess(k, c.min) /\ KeyLess(k, c.max)

\* The keys a criteria matches: one value per key field, each satisfying
\* that field's equality or $in.
MatchedKeys(key, crit) ==
  {k \in [DOMAIN key -> CritValues] :
     \A i \in DOMAIN key : (crit[key[i]].op = "eq" => k[i] = crit[key[i]].v)
                         /\ (crit[key[i]].op = "in" => k[i] \in crit[key[i]].vs)}

ChunksOf(cf, ns) == {c \in ToSet(cf.chunks) : c.ns = ns}
Newest(cf, ns, s) ==
  LET cs == {c \in ChunksOf(cf, ns) : c.shard = s}
  IN CHOOSE v \in {[epoch |-> c.epoch, stamp |-> c.stamp] : c \in cs} :
       \A c \in cs : c.stamp <= v.stamp
Versioned(cf, ns, cs) == {[shard |-> c.shard, version |-> Newest(cf, ns, c.shard)] : c \in cs}

\* The chunks holding a key the criteria matches (the hashed key of it for
\* a hashed collection), where holds(c, k) says whether chunk c holds k.
OwnersBy(cf, ns, crit, holds(_, _)) ==
  LET key == cf.colls[ns].key
      hk(k) == IF cf.colls[ns].hashed THEN <<Int64(Hash[k[1].v])>> ELSE k
  IN {c \in ChunksOf(cf, ns) : \E k \in MatchedKeys(key, crit) : holds(c, hk(k))}

Owners(cf, ns, crit) == OwnersBy(cf, ns, crit, Holds)

\* Config::find on a sharded collection never throws, returns exactly the
\* shards owning a key the criteria pins (each once, with the version of
\* its newest chunk), and every shard of the collection when the criteria
\* does not pin the key: on every table and criteria of the domain, with
\* config.chunks read out of order.
FindMatchesBy(holds(_, _)) ==
  \A cf \in Configs : \A ns \in DOMAIN Colls : \A crit \in Criteria(ns) :
    LET r == Find(cf, ns, crit) IN
    /\ ConfigLoads(cf)
    /\ r.ok
    /\ r.vs = Versioned(cf, ns, IF Pinned(Colls[ns].key, crit)
                                THEN OwnersBy(cf, ns, crit, holds) ELSE ChunksOf(cf, ns))

\* Ownership in MongoDB's order of key values.
FindMatchesReference == FindMatchesBy(Holds)

\* Ownership in the order the table itself is sorted by (bson's
\* cmpDisregardingNames, type code first): whatever the key types,
\* the upper_bound walk, the $in expansion and the dedup by shard find
\* the chunks whose ranges hold the keys.
FindMatchesTableOrder == FindMatchesBy(ChunkContains)

\* An unsharded namespace goes to its database's primary, one of the
\* config database to the config shard, one of an unknown database nowhere.
UnshardedRouted(cf) ==
  /\ Find(cf, 4, <<>>).vs = {[shard |-> S2, version |-> ZeroVersion]}
  /\ Find(cf, ConfigNs, <<>>).vs = {[shard |-> ConfigShard, version |-> ZeroVersion]}
  /\ Find(cf, 5, <<>>).vs = {}
=============================================================================
