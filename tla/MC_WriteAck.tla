---------------------------- MODULE MC_WriteAck ----------------------------
EXTENDS WriteAck

\* The operations a legacy write becomes: one WriteToBackend24, a
\* NullWrite (no shard), a FailedOperation, a ParallelWrite of two shards'
\* writes, a cross-shard limit-1 SequentialWrite, and an ordered batch
\* whose second sub-operation routes to no shard.
MCShapes ==
  { [kind |-> "w24", stop |-> FALSE, leaves |-> <<>>],
    [kind |-> "null", stop |-> FALSE, leaves |-> <<>>],
    [kind |-> "failed", stop |-> FALSE, leaves |-> <<>>],
    [kind |-> "parallel", stop |-> FALSE, leaves |-> <<"w24", "w24">>],
    [kind |-> "sequential", stop |-> TRUE, leaves |-> <<"w24", "w24">>],
    [kind |-> "sequential", stop |-> FALSE, leaves |-> <<"w24", "null">>] }

\* {getLastError: 1}, w: 1, w: 2, w: 2 with wtimeout, w: "majority",
\* j: true.
MCWCs ==
  { GLE1,
    [w |-> 1, j |-> FALSE, wtimeout |-> FALSE],
    [w |-> 2, j |-> FALSE, wtimeout |-> FALSE],
    [w |-> 2, j |-> FALSE, wtimeout |-> TRUE],
    [w |-> 3, j |-> FALSE, wtimeout |-> FALSE],
    [w |-> 0, j |-> TRUE, wtimeout |-> FALSE] }
=============================================================================
