--------------------------- MODULE MC_WriteEngine ---------------------------
EXTENDS WriteEngine, MC_KeyHash

CONSTANTS s1, s2, cs

MCShardSeq == <<s1, s2>>

\* The routing of the batches: Config::find over a chunk table (Router).
\* Namespace 1 is split at 2 into s1 below and s2 above, namespace 3 has
\* a compound key; criteria compare with int32 values 1..3.
MCHash == [v \in 1..3 |-> ((2 * v) % 3) + 1]
B == INSTANCE Router WITH ShardSeq <- MCShardSeq, ConfigShard <- cs, ConfigNs <- 0, Hash <- MCHash
MCCritValues == {B!Int32(1), B!Int32(2), B!Int32(3)}
\* Split points of both integer types: int32 2 and 3, and NumberLong 3.
MCSplitValues == {B!Int32(2), B!Int32(3), B!Int64(3)}
\* Split points stored as NumberLong (WriteEngine_NumericTypes.cfg).
MCInt64SplitValues == {B!Int64(2), B!Int64(3)}
R == INSTANCE MC_Router WITH ShardSeq <- MCShardSeq, ConfigShard <- cs, ConfigNs <- 0,
       Hash <- MCHash, CritValues <- MCCritValues, SplitValues <- MCSplitValues

\* An unordered batch: a limit-1 delete {a: {$in: [1, 3]}} (both shards)
\* and a limit-0 delete {a: 3} (s2): a ParallelWrite of s2's local group
\* and a cross-shard SequentialWrite.  An ordered batch: a delete
\* {a: 1, b: 2} on namespace 3 (s1), then a limit-1 delete {} (both shards).
MCSelBatches ==
  { [ordered |-> FALSE,
     subops |-> <<[limit |-> 1, ns |-> 1, crit |-> "a" :> R!In({R!Int32(1), R!Int32(3)})],
                  [limit |-> 0, ns |-> 1, crit |-> "a" :> R!Eq(R!Int32(3))]>>],
    [ordered |-> TRUE,
     subops |-> <<[limit |-> 0, ns |-> 3, crit |-> ("a" :> R!Eq(R!Int32(1))) @@ ("b" :> R!Eq(R!Int32(2)))],
                  [limit |-> 1, ns |-> 1, crit |-> "a" :> R!Absent]>>] }

\* parseSubop: each sub-operation's route is the shards Config::find returns.
\* The batches are delete commands to shards whose backends predate write
\* commands, so every part is one legacy OP_DELETE acknowledged through
\* getLastError (WriteToBackend24).
ToBatch(b) ==
  [kind |-> "delete", ordered |-> b.ordered, wc |-> TRUE, caps |-> {},
   subops |-> [i \in DOMAIN b.subops |->
                 [kind |-> "delete", limit |-> b.subops[i].limit, upsert |-> FALSE,
                  route |-> R!Route(R!Find(R!BaseConfig, b.subops[i].ns, b.subops[i].crit).vs)]]]

MCBatches == {ToBatch(b) : b \in MCSelBatches}

\* The shards owning a key each sub-operation's selector matches, where
\* holds(c, k) says whether chunk c holds key k.
Owners(b, holds(_, _)) ==
  [i \in DOMAIN b.subops |->
     LET d == b.subops[i] IN
     {c.shard : c \in IF R!Pinned(R!Colls[d.ns].key, d.crit)
                      THEN R!OwnersBy(R!BaseConfig, d.ns, d.crit, holds)
                      ELSE R!ChunksOf(R!BaseConfig, d.ns)}]

MCRouted == {[batch |-> ToBatch(b), owners |-> Owners(b, R!Holds)] : b \in MCSelBatches}
MCTableRouted == {[batch |-> ToBatch(b), owners |-> Owners(b, R!ChunkContains)] : b \in MCSelBatches}

FindChecked == R!FindMatchesReference /\ R!UnshardedRouted(R!BaseConfig)
FindTableOrderChecked == R!FindMatchesTableOrder /\ R!UnshardedRouted(R!BaseConfig)

\* The batch being written goes to exactly the shards of `routed`.
RoutedAs(routed) ==
  \E r \in routed :
    /\ batch = r.batch
    /\ \A i \in DOMAIN batch.subops : ToSet(batch.subops[i].route) = r.owners[i]

\* Config::find routes every criteria on every chunk table of MC_Router as
\* the chunk ranges say in MongoDB's order of key values, numbers compared
\* by value whatever their type (FindMatchesReference, with config.chunks
\* read out of order), and the batch being written goes to exactly the
\* shards that own the keys its selectors match.
RouterCorrect == FindChecked /\ RoutedAs(MCRouted)

\* Config::find's key walk (the $in expansion, upper_bound and the step
\* back, the dedup by shard and the version of each shard's newest chunk)
\* returns exactly the chunks whose ranges hold a matched key in the order
\* the chunk table is sorted by, on tables whose split points mix int32
\* and NumberLong, and the batch goes to those shards.
RouterConsistent == FindTableOrderChecked /\ RoutedAs(MCTableRouted)

\* Spec §4.4 step 3: a hashed sharding key is looked up by a digest over a
\* type tag and the canonical value, so keys hash alike exactly when they
\* are equal as the spec canonicalises them (int32, int64 and double
\* alike, NaN as 0, doubles truncated and saturated, objects and arrays
\* field by field), for every key whose hash() is defined behaviour; a
\* query {a: 3} and a document {a: NumberLong(3)} then reach one chunk.
HashCorrect == HashChecked /\ opc \in {"perform", "update", "done"}

\* ... and for the double 2^63 too, which the spec saturates
\* (WriteEngine_HashSaturates.cfg).
HashSaturates == HashSaturatesChecked /\ opc \in {"perform", "update", "done"}
=============================================================================
