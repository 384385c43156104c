--------------------------- MODULE ReadAggregation ---------------------------
(***************************************************************************)
(* The count and distinct commands (src/src/read.cpp: runCommand,          *)
(* aggregation, operations::count, operations::distinct): the command is   *)
(* sent to every shard readOp targets and the replies are combined.        *)
(*                                                                         *)
(* A shard's reply is its ok flag, its n (count) and its values            *)
(* (distinct), each value standing for a BSON element compared by          *)
(* stripName().  The result is a reply of the same shape, or err when the  *)
(* combination throws a BackendClientError.                                *)
(***************************************************************************)
EXTENDS Integers, Sequences, SequencesExt

\* count's aggregator: the sum of the shards' n, from 0.
CountAggr(rets) == FoldLeft(LAMBDA a, r : a + r.n, 0, rets)

\* std::unique: of each run of equal adjacent values the first is kept.
Unique(s) == FoldLeft(LAMBDA u, x : IF u # <<>> /\ Last(u) = x THEN u ELSE Append(u, x), <<>>, s)

\* Variant: the values deduplicated without sorting them first.
DistinctAggrUnsorted(rets) ==
  Unique(FlattenSeq([i \in DOMAIN rets |-> rets[i].values]))

\* distinct's aggregator: every shard's values, in shard order, sorted by
\* stripName() and deduplicated with std::unique.
DistinctAggr(rets) ==
  Unique(SortSeq(FlattenSeq([i \in DOMAIN rets |-> rets[i].values]), LAMBDA a, b : a < b))

Aggr(kind, rets) ==
  IF kind = "count" THEN [n |-> CountAggr(rets), values |-> <<>>]
  ELSE [n |-> 0, values |-> DistinctAggr(rets)]

\* aggregation() through readOp: no shard gives the aggregator's result
\* over no replies with ok 1; one shard's reply is runCommand's, returned
\* as it is; several shards' replies are all fetched, any without ok 1
\* is raised, else they are aggregated with ok 1.
Aggregation(kind, rets) ==
  CASE Len(rets) = 1 -> [err |-> FALSE, ok |-> rets[1].ok, n |-> rets[1].n, values |-> rets[1].values]
    [] \E i \in DOMAIN rets : ~rets[i].ok -> [err |-> TRUE, ok |-> FALSE, n |-> 0, values |-> <<>>]
    [] OTHER -> [err |-> FALSE, ok |-> TRUE, n |-> Aggr(kind, rets).n, values |-> Aggr(kind, rets).values]
=============================================================================
