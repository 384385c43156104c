------------------------- MODULE MC_SessionCursors -------------------------
EXTENDS SessionCursors

Merge == INSTANCE MC_MergeRead

MCSlots == 1..4
\* nToReturn: all, one (autoClose, batch of one), a batch of two, at most
\* two and close (negative).
MCCounts == {0, 1, 2, -2}

\* The datasource a session drains is, for a query routed to several
\* shards, a MergeDatasource.  On every merge of three shards' results
\* (see MC_MergeRead): its documents come out in $orderby order (S2),
\* each shard's in its own order and each once; under PARTIAL a shard
\* whose construction or advance throws an I/O error or a broken reply is
\* dropped after what it yielded and the merge goes on; any other failure,
\* and any failure without PARTIAL, is raised and nothing after it is
\* produced.  Checked with the sessions' control
\* state so that it is reported as a violated invariant.
MergeDatasourceCorrect ==
  /\ Merge!MergeChecked
  /\ pc \in [Sessions -> {"idle", "feed", "post"}]

\* Spec 4.5's PARTIAL flag: a shard whose datasource fails, for any
\* reason, is dropped silently and the merge goes on; protect only absorbs
\* io::error and BackendInternalError, so a shard with no suitable backend
\* (NoSuitableBackend) or a NotMaster fails the whole partial query.
PartialMergeDropsFailures ==
  /\ Merge!PartialChecked
  /\ pc \in [Sessions -> {"idle", "feed", "post"}]

\* A count or distinct a session runs over several shards (aggregation
\* in read.cpp, see MC_MergeRead) answers ok only when every shard did,
\* with the sum of their counts, or with every value any shard returned
\* once and sorted; a single shard's reply is passed on unchanged.
AggregationCorrect ==
  /\ Merge!AggregationChecked
  /\ pc \in [Sessions -> {"idle", "feed", "post"}]
=============================================================================
