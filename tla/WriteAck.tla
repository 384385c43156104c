------------------------------ MODULE WriteAck ------------------------------
(***************************************************************************)
(* A session's last write and getLastError (src/src/session.cpp:          *)
(* Session::run's write opcodes, setWriteOp, command("getlasterror");      *)
(* src/src/operations.h: WriteOperation::acknowledge, FailedOperation;     *)
(* src/unnamed/part_003 and part_001, write.cpp and write.h: the write     *)
(* concern comparison, defaultAckMerger, WriteToBackend24, MultiWrite,     *)
(* ParallelWrite, SequentialWrite, NullWrite).                             *)
(*                                                                         *)
(* The session's lastWriteOp_ is a tree: node 0 is the operation a legacy  *)
(* write became, nodes 1..n the children of a ParallelWrite or            *)
(* SequentialWrite.  Every node has the acknowledgement cache of           *)
(* WriteOperation: the write concern and status of its last               *)
(* setAcknowledge, or Empty.  A WriteToBackend24 node holds its connection *)
(* c_ until finish(), so getLastError reaches the server that performed   *)
(* its write; that server's answer depends on the write's outcome and on  *)
(* whether it has replicated.                                              *)
(***************************************************************************)
EXTENDS Integers, Sequences, FiniteSets, SequencesExt

CONSTANTS
  Shapes,      \* the operations a legacy write may become (parseWriteOp, protect)
  WCs,         \* the write concerns clients send with getLastError
  MaxWrites,   \* bound on the session's writes
  MaxGles      \* bound on its getLastError commands

VARIABLES
  op,          \* the shape of lastWriteOp_, or NoOp
  res,         \* res[i]: n and err of the write node i sent
  rep,         \* rep[i]: that write has reached a secondary
  commenced,   \* MultiWrite's commenced_: children 1..commenced
  cache,       \* cache[i]: lastWriteConcern_ and lastStatus_ of node i
  reply,       \* the last getLastError reply sent
  writes, gles

vars == <<op, res, rep, commenced, cache, reply, writes, gles>>

Nodes == 0..2
NoOp == [kind |-> "none", stop |-> FALSE, leaves |-> <<>>]
Empty == [empty |-> TRUE]
Blocked == [blocked |-> TRUE]
NoN == -1

\* A write concern: w (0 absent, 1, 2, 3 for the string "majority"), j,
\* and whether it has wtimeout.  {getLastError: 1} is the one doPerform
\* and MultiWrite's default use.
GLE1 == [w |-> 0, j |-> FALSE, wtimeout |-> FALSE]

\* A status: n (NoN when absent), a non-null err, wtimeout.
NullAck == [n |-> 0, err |-> FALSE, wt |-> FALSE]
FailedAck == [n |-> NoN, err |-> TRUE, wt |-> FALSE]

Kind(i) == IF i = 0 THEN op.kind ELSE op.leaves[i]
IsMulti == op.kind \in {"parallel", "sequential"}
Children == IF IsMulti THEN DOMAIN op.leaves ELSE {}
Writers == {i \in {0} \cup Children : Kind(i) = "w24"}

-----------------------------------------------------------------------------

\* Variant: the w fields are not compared.
AreWriteConcernsEqualIgnoringW(w1, w2) ==
  ~w1.wtimeout /\ ~w2.wtimeout /\ w1.j = w2.j

\* WriteOperation::areWriteConcernsEqual: any wtimeout makes them differ;
\* the other keys (j) must match; two string w's must be equal, else both
\* must be absent or integers, absent counting as 1.
AreWriteConcernsEqual(w1, w2) ==
  /\ ~w1.wtimeout /\ ~w2.wtimeout /\ w1.j = w2.j
  /\ \/ w1.w = 3 /\ w2.w = 3
     \/ w1.w # 3 /\ w2.w # 3 /\ (IF w1.w = 0 THEN 1 ELSE w1.w) = (IF w2.w = 0 THEN 1 ELSE w2.w)

\* The server's answer to getLastError on node i's connection: at once for
\* a failed write or w 1; for w 2 or "majority" once the write has
\* replicated, else a wtimeout error, or no answer yet without wtimeout.
Answer(i, wc) ==
  IF res[i].err \/ wc.w \in {0, 1} \/ rep[i] THEN [n |-> res[i].n, err |-> res[i].err, wt |-> FALSE]
  ELSE IF wc.wtimeout THEN [n |-> res[i].n, err |-> TRUE, wt |-> TRUE]
  ELSE Blocked

\* defaultAckMerger: one status is returned as it is; otherwise the n's
\* are summed, err is the first non-null one, wtimeout is any's.
DefaultAckMerger(rets) ==
  IF \E k \in DOMAIN rets : rets[k] = Blocked THEN Blocked
  ELSE IF Len(rets) = 1 THEN rets[1]
  ELSE [n |-> FoldLeft(LAMBDA a, r : IF r.n = NoN THEN a ELSE a + r.n, 0, rets),
        err |-> \E k \in DOMAIN rets : rets[k].err,
        wt |-> \E k \in DOMAIN rets : rets[k].wt]

\* Variant: MultiWrite acknowledges all its operations.
AckedChildrenAll == Children

\* MultiWrite::doAcknowledge asks the operations perform commenced.
AckedChildren == 1..commenced

\* WriteOperation::acknowledge: the cached status when the write concern
\* has no wtimeout, a status is stored and the concerns are equal; else
\* doAcknowledge, whose result setAcknowledge stores.
Hit(i, wc) == cache[i] # Empty /\ ~wc.wtimeout /\ AreWriteConcernsEqual(wc, cache[i].wc)

\* doAcknowledge of node i: WriteToBackend24 asks its server, NullWrite
\* and FailedOperation answer their fixed status, MultiWrite merges its
\* commenced operations' acknowledge in order.
RECURSIVE Own(_, _)
Own(i, wc) ==
  CASE Kind(i) = "w24" -> Answer(i, wc)
    [] Kind(i) = "null" -> NullAck
    [] Kind(i) = "failed" -> FailedAck
    [] OTHER -> DefaultAckMerger([k \in 1..Cardinality(AckedChildren) |->
                  IF Hit(k, wc) THEN cache[k].st ELSE Own(k, wc)])

Acknowledge(wc) == IF Hit(0, wc) THEN cache[0].st ELSE Own(0, wc)

\* The caches after acknowledge(wc) on the root: a node that missed
\* stores what it computed; a MultiWrite's children are asked only when
\* the root missed.
AckCache(wc) ==
  [i \in Nodes |->
     CASE Hit(0, wc) -> cache[i]
       [] i = 0 -> [wc |-> wc, st |-> Own(0, wc)]
       [] i \in AckedChildren /\ ~Hit(i, wc) -> [wc |-> wc, st |-> Own(i, wc)]
       [] OTHER -> cache[i]]

-----------------------------------------------------------------------------

\* A write's outcome on its server: n, or an error (with n 0).
Results == {[n |-> 0, err |-> FALSE], [n |-> 1, err |-> FALSE], [n |-> 0, err |-> TRUE]}
NoResult == [n |-> 0, err |-> FALSE]

Init ==
  /\ op = NoOp /\ res = [i \in Nodes |-> NoResult]
  /\ rep = [i \in Nodes |-> FALSE] /\ commenced = 0
  /\ cache = [i \in Nodes |-> Empty] /\ reply = [none |-> TRUE]
  /\ writes = 0 /\ gles = 0

\* An UPDATE, INSERT or DELETE: setWriteOp finishes and drops the previous
\* operation and keeps the new one, which protect has performed (every
\* legacy write is acknowledgeable).  Each WriteToBackend24 wrote and
\* stored the answer to {getLastError: 1}; SequentialWrite commenced its
\* operations up to the first whose status has a non-null err or, with a
\* stop predicate, an n other than 0; a MultiWrite stores the merge of its
\* commenced operations' lastStatus() under its write concern, which is
\* {getLastError: 1} for a legacy write.  NullWrite and FailedOperation
\* store nothing.
Write ==
  /\ writes < MaxWrites
  /\ \E sh \in Shapes, r \in [Nodes -> Results] :
       LET kind(i) == IF i = 0 THEN sh.kind ELSE sh.leaves[i]
           w24(i) == (i = 0 \/ i \in DOMAIN sh.leaves) /\ kind(i) = "w24"
           last(i) == IF kind(i) = "w24" THEN [n |-> r[i].n, err |-> r[i].err, wt |-> FALSE] ELSE NullAck
           stops == {k \in DOMAIN sh.leaves : last(k).err \/ (sh.stop /\ last(k).n # 0)}
           c == CASE sh.kind = "parallel" -> Len(sh.leaves)
                  [] sh.kind = "sequential" /\ stops # {} -> CHOOSE k \in stops : \A m \in stops : k <= m
                  [] sh.kind = "sequential" -> Len(sh.leaves)
                  [] OTHER -> 0
       IN /\ \A i \in Nodes : ~w24(i) => r[i] = NoResult
          /\ op' = sh /\ res' = r /\ commenced' = c
          /\ cache' = [i \in Nodes |->
                         CASE w24(i) /\ (i = 0 \/ i <= c) -> [wc |-> GLE1, st |-> last(i)]
                           [] i = 0 /\ c > 0 -> [wc |-> GLE1, st |-> DefaultAckMerger([k \in 1..c |-> last(k)])]
                           [] OTHER -> Empty]
  /\ rep' = [i \in Nodes |-> FALSE]
  /\ writes' = writes + 1
  /\ UNCHANGED <<reply, gles>>

\* A secondary catches up with node i's write.
Replicate(i) ==
  /\ i \in Writers /\ ~rep[i]
  /\ rep' = [rep EXCEPT ![i] = TRUE]
  /\ UNCHANGED <<op, res, commenced, cache, reply, writes, gles>>

\* command("getlasterror"): lastWriteOp_->acknowledge(obj), or
\* {err: null, ok: 1, n: 0} without a last write.  The session waits while
\* a server it asks has no answer yet.
Gle(wc) ==
  /\ gles < MaxGles
  /\ IF op = NoOp
     THEN reply' = [wc |-> wc, st |-> NullAck] /\ UNCHANGED cache
     ELSE /\ Acknowledge(wc) # Blocked
          /\ reply' = [wc |-> wc, st |-> Acknowledge(wc)]
          /\ cache' = AckCache(wc)
  /\ gles' = gles + 1
  /\ UNCHANGED <<op, res, rep, commenced, writes>>

\* The client has sent all it will.
Done ==
  /\ writes = MaxWrites /\ gles = MaxGles
  /\ UNCHANGED vars

Next ==
  \/ Write
  \/ \E i \in Nodes : Replicate(i)
  \/ \E wc \in WCs : Gle(wc)
  \/ Done

Spec == Init /\ [][Next]_vars

-----------------------------------------------------------------------------

\* Every node's cache holds a status stored under a write concern, and
\* only the root and the operations a MultiWrite commenced have one.
TypeOK ==
  /\ op \in Shapes \cup {NoOp}
  /\ commenced \in 0..Len(op.leaves)
  /\ \A i \in Nodes : cache[i] = Empty \/ (cache[i].wc \in WCs \cup {GLE1} /\ cache[i].st # Blocked)
  /\ \A i \in Nodes : cache[i] # Empty => i = 0 \/ i \in 1..commenced
  /\ writes \in 0..MaxWrites /\ gles \in 0..MaxGles

\* What getLastError with wc would answer with no status cached anywhere:
\* every commenced write's server asked now.
Fresh(wc) ==
  IF op = NoOp THEN NullAck
  ELSE IF IsMulti
  THEN DefaultAckMerger([k \in 1..commenced |-> IF Kind(k) = "w24" THEN Answer(k, wc) ELSE NullAck])
  ELSE CASE op.kind = "w24" -> Answer(0, wc) [] op.kind = "null" -> NullAck [] OTHER -> FailedAck

\* Spec "acknowledgement merging": a getLastError answered from
\* WriteOperation's cache (filled by doPerform, MultiWrite::perform or an
\* earlier getLastError with an equal write concern) says what the
\* servers say now: the answer is the one asking every server would give,
\* and it is not given while a server would still be waiting for its
\* secondaries.
AckCurrent ==
  [][\A wc \in WCs : (gles' = gles + 1 /\ reply' = [wc |-> wc, st |-> reply'.st]) =>
                       Fresh(wc) # Blocked /\ reply'.st = Fresh(wc)]_vars
=============================================================================
