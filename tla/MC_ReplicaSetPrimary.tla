------------------------- MODULE MC_ReplicaSetPrimary -------------------------
EXTENDS ReplicaSetPrimary, TLC

CONSTANTS b1, b2, b3, rd

MCBackendSeq == <<b1, b2>>
MCReaders == {rd}

\* readOp's choice of backend (ReadSelection): checked exhaustively on three
\* backends (MC_ReadSelection), and applied to the statuses the pings of
\* this shard have applied.
Sel == INSTANCE MC_ReadSelection WITH Nodes <- <<b1, b2, b3>>
Live == INSTANCE ReadSelection WITH Nodes <- BackendSeq, LocalThreshold <- 1, MaxReplLag <- -1

ReadSelectionChecked == Sel!ReadOpWithinSpec /\ Sel!ShardKindsWithinSpec

\* What readOp reads of a backend in this model: status_ and the endpoint.
LiveSnapshot ==
  [b \in Backends |->
     [alive |-> Alive(b),
      state |-> CASE status[b] = "primary" -> 1 [] status[b] = "secondary" -> 2 [] OTHER -> 0,
      rt |-> 1, info |-> status[b] # "none", tags |-> {}, optime |-> 0]]

NearestRead == [slaveOk |-> TRUE, pref |-> [mode |-> "none", tags |-> <<>>], exclude |-> None]

\* ReplicaSet::readOp picks a backend as spec §4.2 says on every snapshot
\* and call of MC_ReadSelection (ReadOpWithinSpec), and so do the Single
\* and Sync shards' readOp where a live backend is left to pick
\* (ShardKindsWithinSpec); and on this shard's
\* current statuses a SLAVE_OK read goes to a backend whose last applied
\* status is primary or secondary and whose endpoint is alive, and finds
\* one whenever there is one.
ReadSelectionCorrect ==
  /\ ReadSelectionChecked
  /\ Live!ReadOp(LiveSnapshot, pval, NearestRead)
       = {b \in Backends : Alive(b) /\ status[b] \in {"primary", "secondary"}}

\* ReplicaSet::readOp follows spec §4.2 to the letter, step 4 included: a
\* prefix holding only the fastest candidate is widened to all candidates
\* (ReplicaSetPrimary_SelectWiden.cfg).
ReadSelectionStrict ==
  /\ Sel!ReadOpMatchesSpec
  /\ Live!ReadOp(LiveSnapshot, pval, NearestRead)
       = {b \in Backends : Alive(b) /\ status[b] \in {"primary", "secondary"}}

\* A Sync shard's readOp, like spec §4.2's SyncGroup, picks only alive
\* backends; with every backend but the excluded one dead it should give
\* no connection (ReplicaSetPrimary_SyncAlive.cfg).
SyncReadsAlive ==
  /\ Sel!SyncReadsAliveChecked
  /\ Live!ReadOp(LiveSnapshot, pval, NearestRead)
       = {b \in Backends : Alive(b) /\ status[b] \in {"primary", "secondary"}}
=============================================================================
