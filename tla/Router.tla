------------------------------- MODULE Router -------------------------------
(***************************************************************************)
(* Routing with a loaded Config (src/src/config.cpp, class Config in       *)
(* src/unnamed/part_003, SortedVector in part_007).                        *)
(*                                                                         *)
(* A config `cf` is what the Config constructor holds after populate():    *)
(* cf.chunks (config.chunks, in any order), cf.colls (sharded collections: *)
(* their sharding key fields and whether the key is hashed) and           *)
(* cf.primary (the primary shard of the database of each unsharded         *)
(* namespace).  Namespaces are numbers in the order of their names;        *)
(* ConfigNs is one of the config database.                                 *)
(*                                                                         *)
(* A BSON element is [t, v]: its type code and its value.  An object (a    *)
(* key or a chunk bound) is the sequence of its elements, the field names  *)
(* being those of the sharding key.  A criteria maps every key field to    *)
(* absent, an equality, an $in list or another $-operator.                 *)
(***************************************************************************)
EXTENDS Integers, Sequences, SequencesExt, FiniteSets

CONSTANTS
  ShardSeq,     \* the shards, in the order of their Shard* (std::map/set order)
  ConfigShard,  \* configShard_
  ConfigNs,     \* a namespace of the "config" database
  Hash          \* hash(): an element's value -> the value of its hashed key

MinKey == [t |-> -1, v |-> 0]     \* type 0xFF as int8_t
MaxKey == [t |-> 127, v |-> 0]    \* type 0x7F
Int32(x) == [t |-> 16, v |-> x]
Int64(x) == [t |-> 18, v |-> x]
Double(x) == [t |-> 1, v |-> x]

ZeroVersion == [epoch |-> 0, stamp |-> 0]

-----------------------------------------------------------------------------
(* BSON ordering (bson Element and impl::Base in part_022).                *)

\* Element::cmpDisregardingNames: by type code, then by value.
ElemLess(a, b) == IF a.t # b.t THEN a.t < b.t ELSE a.v < b.v

\* impl::Base::cmp: the first differing element decides; past the end of
\* the shorter object Element() stands in, whose name "" sorts first.
RECURSIVE ObjLess(_, _)
ObjLess(a, b) ==
  CASE b = <<>> -> FALSE
    [] a = <<>> -> TRUE
    [] Head(a) # Head(b) -> ElemLess(Head(a), Head(b))
    [] OTHER -> ObjLess(Tail(a), Tail(b))

\* The order of chunks_: by (namespace, lowerBound).
ChunkLess(x, y) == x.ns < y.ns \/ (x.ns = y.ns /\ ObjLess(x.min, y.min))

\* Chunk::contains.
ChunkContains(c, k) == ~ObjLess(k, c.min) /\ ObjLess(k, c.max)

-----------------------------------------------------------------------------
(* The Config constructor.                                                 *)

\* populate + SortedVector::finish.
Sorted(cf) == SortSeq(cf.chunks, ChunkLess)

\* Collection::link: equal_range of the namespace in the sorted chunks.
RangeOf(cf, ns) == SelectSeq(Sorted(cf), LAMBDA c : c.ns = ns)

\* Collection::link: consecutive chunks must meet, else "gap in partition".
NoGap(cf, ns) ==
  LET r == RangeOf(cf, ns) IN \A i \in 1..(Len(r) - 1) : r[i].max = r[i + 1].min

\* The versions loop: chunks of one namespace on one shard must share an
\* epoch (else ShardConfigBroken); each gets the greatest stamp among them.
ChunksOn(cf, ns, s) == {c \in ToSet(cf.chunks) : c.ns = ns /\ c.shard = s}
EpochsAgree(cf) ==
  \A c, d \in ToSet(cf.chunks) : c.ns = d.ns /\ c.shard = d.shard => c.epoch = d.epoch
NormVersion(cf, ns, s) ==
  LET cs == ChunksOn(cf, ns, s)
      top == CHOOSE c \in cs : \A d \in cs : d.stamp <= c.stamp
  IN [epoch |-> top.epoch, stamp |-> top.stamp]

\* The constructor returns (does not throw).
ConfigLoads(cf) == EpochsAgree(cf) /\ \A ns \in DOMAIN cf.colls : NoGap(cf, ns)

-----------------------------------------------------------------------------
(* Config::shards(ns) and Config::find.                                    *)

\* Config::shards(ns): the config shard for the config database; the
\* shards of a sharded collection's chunks with their versions; else the
\* database's primary with version zero (none for an unknown database).
ShardsOf(cf, ns) ==
  IF ns = ConfigNs THEN {[shard |-> ConfigShard, version |-> ZeroVersion]}
  ELSE IF ns \in DOMAIN cf.colls
  THEN {[shard |-> c.shard, version |-> NormVersion(cf, ns, c.shard)] : c \in ToSet(RangeOf(cf, ns))}
  ELSE IF ns \in DOMAIN cf.primary
  THEN {[shard |-> cf.primary[ns], version |-> ZeroVersion]}
  ELSE {}

\* Variant: lower_bound in place of upper_bound.
LocateLowerBound(cf, ns, k) ==
  LET s == Sorted(cf)
      above == {i \in 1..Len(s) : ~ChunkLess(s[i], [ns |-> ns, min |-> k])}
      i == IF above = {} THEN Len(s) + 1 ELSE CHOOSE i \in above : \A j \in above : i <= j
  IN IF i = 1 \/ ~ChunkContains(s[i - 1], k) THEN 0 ELSE i - 1

\* doFind: upper_bound((ns, k)) in chunks_, step back one; both ASSERTs
\* hold or the lookup throws (0).
Locate(cf, ns, k) ==
  LET s == Sorted(cf)
      above == {i \in 1..Len(s) : ChunkLess([ns |-> ns, min |-> k], s[i])}
      i == IF above = {} THEN Len(s) + 1 ELSE CHOOSE i \in above : \A j \in above : i <= j
  IN IF i = 1 \/ ~ChunkContains(s[i - 1], k) THEN 0 ELSE i - 1

\* The lookup key: for a hashed key {field: hash(value)} as a 64-bit integer.
LookupKey(cf, ns, k) == IF cf.colls[ns].hashed THEN <<Int64(Hash[k[1].v])>> ELSE k

\* find's walk over the sharding key: an absent field or a $-operator other
\* than $in, or a second $in, gives shards(ns); else the keys are the
\* equalities with each value of the $in, if any, in its field's place.
Pinned(key, crit) ==
  /\ \A i \in DOMAIN key : crit[key[i]].op \in {"eq", "in"}
  /\ Cardinality({i \in DOMAIN key : crit[key[i]].op = "in"}) <= 1
LookupKeys(key, crit) ==
  IF \A i \in DOMAIN key : crit[key[i]].op = "eq"
  THEN {[i \in DOMAIN key |-> crit[key[i]].v]}
  ELSE LET j == CHOOSE j \in DOMAIN key : crit[key[j]].op = "in"
       IN {[i \in DOMAIN key |-> IF i = j THEN x ELSE crit[key[i]].v] : x \in crit[key[j]].vs}

\* Config::find: [ok |-> FALSE] when an ASSERT of doFind fails; the shards
\* are deduplicated by shard (std::set with vsLess).
Find(cf, ns, crit) ==
  IF ns \notin DOMAIN cf.colls \/ ~Pinned(cf.colls[ns].key, crit)
  THEN [ok |-> TRUE, vs |-> ShardsOf(cf, ns)]
  ELSE LET s == Sorted(cf)
           found == {Locate(cf, ns, LookupKey(cf, ns, k)) : k \in LookupKeys(cf.colls[ns].key, crit)}
       IN IF 0 \in found THEN [ok |-> FALSE, vs |-> {}]
          ELSE [ok |-> TRUE,
                vs |-> {[shard |-> s[i].shard, version |-> NormVersion(cf, ns, s[i].shard)] : i \in found}]

\* The shards of a result in the order the caller iterates them.
Route(vs) == SelectSeq(ShardSeq, LAMBDA sh : \E x \in vs : x.shard = sh)
=============================================================================
