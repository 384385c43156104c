----------------------------- MODULE WritePlan -----------------------------
(***************************************************************************)
(* The plan parseWriteOp builds for a write batch (src/unnamed/part_003,   *)
(* write.cpp): whether it is rejected, which parts run in parallel, which  *)
(* run one after another, which shards each part visits with which         *)
(* sub-operations, and in which wire form each shard is sent them.         *)
(*                                                                         *)
(* A batch (messages::Insert, Update, Delete in proto.h) has a kind, the   *)
(* ordered flag, whether it carries a writeConcern (a write command always *)
(* does, {w: 1} by default; a legacy message never), the shards whose      *)
(* backends support write commands (Shard::supportsWriteCommands), and    *)
(* its sub-operations.  A sub-operation has a limit (0: every matching     *)
(* document, 1: one; an update's is 0 when multi), upsert, and the shards  *)
(* Config::find routes its selector to, in chunk order.  Plan is checked   *)
(* against the reference PlanRespectsRouting for every batch of at most    *)
(* two sub-operations.                                                     *)
(***************************************************************************)
EXTENDS Integers, Sequences, SequencesExt

CONSTANT ShardSeq  \* the shards, in the order ParallelWrite's map holds them

Shards == ToSet(ShardSeq)
Ids == 1..2          \* batches carry at most two sub-operations
MaxParts == Len(ShardSeq) + 2
PartIds == 1..MaxParts

Kinds == {"delete", "update", "insert"}

Routes == {<<>>} \cup {<<s>> : s \in Shards} \cup {<<s, t>> \in Shards \X Shards : s # t}

\* The sub-operations of a batch of kind k: DeleteSub (limit), UpdateSub
\* (multi, upsert), an inserted document.
Subops(k) ==
  CASE k = "delete" -> [kind : {k}, limit : {0, 1}, upsert : {FALSE}, route : Routes]
    [] k = "update" -> [kind : {k}, limit : {0, 1}, upsert : BOOLEAN, route : Routes]
    [] k = "insert" -> [kind : {k}, limit : {0}, upsert : {FALSE}, route : Routes]

-----------------------------------------------------------------------------
(* Planning (parseWriteOp, parseSubop, makeLocal, makeGlobal).  A plan is  *)
(* a sequence of stages run one after another (the SequentialWrite of an   *)
(* ordered batch, or a single stage); a stage is a sequence of parts run   *)
(* in parallel (ParallelWrite, or the part alone); a part visits its       *)
(* shards in order (a local group: one shard; makeGlobal: the route of a   *)
(* non-parallelizable sub-operation), with the sub-operations it carries.  *)
(* A stage with no part is a NullWrite.                                     *)

\* Variant: the test is inverted.
IsParallelizableInverted(d) == d.kind = "insert" \/ d.limit # 0

\* WriteOpTraits<Delete>::isParallelizable is !subop.limit, that of Update
\* subop.multi (after rejecting an upsert), that of Insert false.
IsParallelizable(d) == d.kind # "insert" /\ d.limit = 0

\* The traits' BadRequests: null() of an insert or an upsert (no shard),
\* isParallelizable of an upsert, makeGlobal of an insert (several shards).
NullThrows(d) == d.kind = "insert" \/ d.upsert
ParallelThrows(d) == d.upsert
GlobalThrows(d) == d.kind = "insert"

\* parseSubop throws while bucketing or composing one of its sub-operations.
SubopRejected(d) ==
  \/ Len(d.route) = 0 /\ NullThrows(d)
  \/ Len(d.route) > 1 /\ ParallelThrows(d)
  \/ Len(d.route) > 1 /\ ~IsParallelizable(d) /\ GlobalThrows(d)

\* parseWriteOp throws, and nothing is sent, on an empty batch or when
\* any sub-operation does.
Rejected(b) == b.subops = <<>> \/ \E i \in DOMAIN b.subops : SubopRejected(b.subops[i])

\* makeLocal's and makeSingle's wire form for shard s: a write command when
\* the shard supports them and the batch has a writeConcern (make26);
\* else one legacy message (make24, or Insert's OP_INSERT of every
\* document), or a ParallelWrite of one legacy message per sub-operation.
CommandForm(b, s) == s \in b.caps /\ b.wc
LocalForm(b, s, n) ==
  CASE CommandForm(b, s) -> "command"
    [] n = 1 \/ b.kind = "insert" -> "legacy"
    [] OTHER -> "legacyEach"

\* parseSubop: single-shard and parallelizable sub-operations go to the
\* bucket of each of their shards; the others become sequential entries.
Bucketed(subs, ids) ==
  {i \in ids : Len(subs[i].route) = 1 \/
               (Len(subs[i].route) > 1 /\ IsParallelizable(subs[i]))}
SequentialIds(subs, ids) ==
  {i \in ids : Len(subs[i].route) > 1 /\ ~IsParallelizable(subs[i])}

\* The buckets (makeLocal per shard, in the map's order), then the
\* sequential entries (makeGlobal, stopping at the first n != 0 when the
\* limit is 1), in sub-operation order.
Stage(b, subs, ids) ==
  LET inBucket(s) == {i \in Bucketed(subs, ids) : s \in ToSet(subs[i].route)}
      bucketShards == SelectSeq(ShardSeq, LAMBDA s : inBucket(s) # {})
      seqIds == SelectSeq([k \in DOMAIN subs |-> k], LAMBDA k : k \in SequentialIds(subs, ids))
  IN  [k \in 1..Len(bucketShards) |->
         [shards |-> <<bucketShards[k]>>, ids |-> inBucket(bucketShards[k]),
          limit1 |-> FALSE,
          forms |-> <<LocalForm(b, bucketShards[k], Cardinality(inBucket(bucketShards[k])))>>]]
      \o [k \in 1..Len(seqIds) |->
         [shards |-> subs[seqIds[k]].route, ids |-> {seqIds[k]},
          limit1 |-> subs[seqIds[k]].limit # 0,
          forms |-> [m \in DOMAIN subs[seqIds[k]].route |->
                       IF CommandForm(b, subs[seqIds[k]].route[m]) THEN "command" ELSE "legacy"]]]

\* parseWriteOp: an ordered batch of several sub-operations is a
\* SequentialWrite of one plan per sub-operation.
Plan(b) ==
  IF b.ordered /\ Len(b.subops) > 1
  THEN [k \in 1..Len(b.subops) |-> Stage(b, b.subops, {k})]
  ELSE <<Stage(b, b.subops, DOMAIN b.subops)>>

\* parseWriteOp of a findAndModify: no shard and no upsert is a NullWrite
\* answering value null; one shard a WriteFindAndModify there; an upsert
\* on any other route is refused; several shards a SequentialWrite over
\* the route that stops at the first non-null value and answers the last
\* reply.
FamPlan(route, upsert) ==
  CASE route = <<>> /\ ~upsert -> [rejected |-> FALSE, shards |-> <<>>]
    [] Len(route) = 1 -> [rejected |-> FALSE, shards |-> route]
    [] upsert -> [rejected |-> TRUE, shards |-> <<>>]
    [] OTHER -> [rejected |-> FALSE, shards |-> route]

\* Reference: the (sub-operation, shard) pairs a stage sends.
Pairs(st) ==
  UNION {{<<i, st[k].shards[m]>> : i \in st[k].ids, m \in DOMAIN st[k].shards}
           : k \in DOMAIN st}

\* A part visiting several shards carries one limit-1 sub-operation and
\* visits exactly its route; a part of one shard is the only such part of
\* its stage for that shard.
PartRespectsRouting(subs, st, m) ==
  /\ Len(st[m].shards) > 1 =>
       \E i \in st[m].ids : st[m].ids = {i} /\ subs[i].limit = 1 /\ st[m].shards = subs[i].route
  /\ Len(st[m].shards) = 1 =>
       \A n \in DOMAIN st : n # m /\ Len(st[n].shards) = 1 => st[n].shards # st[m].shards

PlanRespectsRouting(b) ==
  LET pl == Plan(b)
      subs == b.subops
  IN
  \* every routed shard of every sub-operation is sent the sub-operation,
  \* nothing else is sent, and an ordered batch runs one sub-operation per
  \* stage in the batch's order
  /\ UNION {Pairs(pl[k]) : k \in DOMAIN pl}
       = {<<i, s>> \in (DOMAIN subs) \X Shards : s \in ToSet(subs[i].route)}
  /\ b.ordered /\ Len(subs) > 1 =>
       \A k \in DOMAIN pl : \A p \in ToSet(pl[k]) : p.ids = {k}
  /\ \A k \in DOMAIN pl : \A m \in DOMAIN pl[k] : PartRespectsRouting(subs, pl[k], m)
  /\ \A k \in DOMAIN pl : \A m \in DOMAIN pl[k] :
       pl[k][m].limit1 = (Len(pl[k][m].shards) > 1)

\* A batch is refused, before anything is sent, exactly when it is empty
\* or holds an insert or an upsert its selector does not route to exactly
\* one shard (spec §4.6, BadRequest); otherwise it is planned as above,
\* and a shard is sent the write-command form exactly when it supports
\* write commands and the batch carries a writeConcern, and a legacy
\* message carries one sub-operation unless it is an OP_INSERT.
PlanWellFormed(b) ==
  /\ Rejected(b) <=>
       \/ b.subops = <<>>
       \/ \E i \in DOMAIN b.subops :
            (b.subops[i].kind = "insert" \/ b.subops[i].upsert) /\ Len(b.subops[i].route) # 1
  /\ ~Rejected(b) =>
       /\ PlanRespectsRouting(b)
       /\ \A st \in ToSet(Plan(b)) : \A m \in DOMAIN st : \A n \in DOMAIN st[m].shards :
            /\ (st[m].forms[n] = "command") <=> (st[m].shards[n] \in b.caps /\ b.wc)
            /\ st[m].forms[n] = "legacy" /\ b.kind # "insert" => Cardinality(st[m].ids) = 1

\* A findAndModify is refused exactly when it upserts and is not routed to
\* one shard, and otherwise visits every shard of its route, in order.
FamWellFormed(route, upsert) ==
  /\ FamPlan(route, upsert).rejected <=> upsert /\ Len(route) # 1
  /\ ~FamPlan(route, upsert).rejected => FamPlan(route, upsert).shards = route

\* The batches a client can send over two shards, every subset of which
\* may support write commands: a write command (always with a
\* writeConcern, {w: 1} by default) of zero to two sub-operations; a
\* legacy OP_DELETE or OP_UPDATE (one sub-operation, unordered); a legacy
\* OP_INSERT of zero to two documents, ordered by its flags.
BatchesOf(k, ord, wc, n) ==
  [kind : {k}, ordered : ord, wc : {wc}, caps : SUBSET Shards,
   subops : UNION {[1..j -> Subops(k)] : j \in n}]
AllBatches ==
  UNION {BatchesOf(k, BOOLEAN, TRUE, 0..2) : k \in Kinds}
  \cup BatchesOf("delete", {FALSE}, FALSE, {1}) \cup BatchesOf("update", {FALSE}, FALSE, {1})
  \cup BatchesOf("insert", BOOLEAN, FALSE, 0..2)
=============================================================================
