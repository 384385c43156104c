---------------------------- MODULE MC_MergeRead ----------------------------
(***************************************************************************)
(* MergeDatasource checked against spec §4.5 and scenario S2 on every      *)
(* merge of three branches (two when a failure may escape protect) of up   *)
(* to two documents with values 1 and 2, each sorted by its shard in the   *)
(* $orderby direction (none, ascending, descending), each failing at any   *)
(* point or not at all, with and without PARTIAL.                          *)
(***************************************************************************)
EXTENDS MergeRead, ReadAggregation

Values == {1, 2}

Docs == {<<>>} \cup {<<v>> : v \in Values} \cup {<<v, w>> : v, w \in Values}

\* A shard returns its documents sorted by the $orderby it was sent.
SortedBy(dir) ==
  {d \in Docs : \A k \in 1..(Len(d) - 1) : (dir = 1 => d[k] <= d[k + 1]) /\ (dir = -1 => d[k] >= d[k + 1])}

\* A shard's branch, failing with an error of the kinds in esc.
Branches(dir, esc) ==
  UNION {{[docs |-> d, fail |-> NoFail, esc |-> FALSE]}
           \cup [docs : {d}, fail : 0..Len(d), esc : esc] : d \in SortedBy(dir)}

\* Merges of three shards failing with absorbable errors, and of two
\* shards failing with either kind.
Inputs ==
  UNION {{[dir |-> dir, br |-> br] :
            br \in [1..3 -> Branches(dir, {FALSE})] \cup [1..2 -> Branches(dir, BOOLEAN)]}
         : dir \in {0, 1, -1}}

-----------------------------------------------------------------------------

\* What a branch yields before it fails or ends: all of its documents, the
\* first k when the advance past the k-th fails, none when its
\* construction fails.
Yield(b) == IF b.fail = NoFail THEN b.docs ELSE SubSeq(b.docs, 1, b.fail)

Sorted(dir, s) ==
  \A k \in 1..(Len(s) - 1) : (dir = 1 => s[k].v <= s[k + 1].v) /\ (dir = -1 => s[k].v >= s[k + 1].v)

\* The documents of branch i in an output, in order.
From(out, i) == [k \in 1..Cardinality({j \in DOMAIN out : out[j].b = i}) |->
                   out[CHOOSE j \in DOMAIN out :
                         out[j].b = i /\ Cardinality({m \in 1..j : out[m].b = i}) = k].v]

\* A shard's failure ends the query: any failure without PARTIAL, and
\* under it one that is not an I/O error or a broken reply.
Raises(b, partial) == b.fail # NoFail /\ (~partial \/ b.esc)

\* A merged read yields the documents of every shard in $orderby order
\* (S2: the output is globally sorted), each once and in its shard's
\* order.  A shard whose failure does not end the query is dropped after
\* what it yielded; otherwise a failure that ends it is raised once the
\* failing shard has yielded what it could, and the output stops there.
MergeCorrect(in) ==
  \A partial \in BOOLEAN : \A r \in Merges(in.br, in.dir, partial) :
    LET raising == {i \in DOMAIN in.br : Raises(in.br[i], partial)} IN
    /\ Sorted(in.dir, r.out)
    /\ IF raising = {}
       THEN ~r.err /\ \A i \in DOMAIN in.br : From(r.out, i) = Yield(in.br[i])
       ELSE /\ r.err
            /\ \A i \in DOMAIN in.br : From(r.out, i) = SubSeq(Yield(in.br[i]), 1, Len(From(r.out, i)))
            /\ \E i \in raising : From(r.out, i) = Yield(in.br[i])

MergeChecked == \A in \in Inputs : MergeCorrect(in)

\* Spec 4.5: under PARTIAL a per-branch failure drops that branch
\* silently, whatever the failure.
PartialDropsSilently(in) ==
  \A r \in Merges(in.br, in.dir, TRUE) :
    ~r.err /\ \A i \in DOMAIN in.br : From(r.out, i) = Yield(in.br[i])

PartialChecked == \A in \in Inputs : PartialDropsSilently(in)

-----------------------------------------------------------------------------
(* The count and distinct aggregations over zero to three shard replies,  *)
(* with n in 0..2 or the values 1 and 2, each at most once, in any order. *)

CountReplies == [ok : BOOLEAN, n : 0..2, values : {<<>>}]
DistinctReplies ==
  [ok : BOOLEAN, n : {0}, values : {<<>>} \cup {<<v>> : v \in 1..2} \cup ({<<v, w>> : v, w \in 1..2} \ {<<v, v>> : v \in 1..2})]

RECURSIVE SumN(_)
SumN(rets) == IF rets = <<>> THEN 0 ELSE Head(rets).n + SumN(Tail(rets))

\* A count or distinct over several shards answers ok only when every shard
\* did, with the total of their counts or every value any of them holds,
\* once each and in order; over one shard it answers that shard's reply.
AggregationCorrect(kind, rets) ==
  LET r == Aggregation(kind, rets)
      all == UNION {ToSet(rets[i].values) : i \in DOMAIN rets}
  IN /\ Len(rets) = 1 => r = [err |-> FALSE] @@ rets[1]
     /\ Len(rets) # 1 =>
          /\ r.err <=> \E i \in DOMAIN rets : ~rets[i].ok
          /\ ~r.err => r.ok /\ r.n = (IF kind = "count" THEN SumN(rets) ELSE 0)
                        /\ r.values = (IF kind = "count" THEN <<>> ELSE SetToSortSeq(all, LAMBDA a, b : a < b))

AggregationChecked ==
  /\ \A k \in 0..3 : \A rets \in [1..k -> CountReplies] : AggregationCorrect("count", rets)
  /\ \A k \in 0..3 : \A rets \in [1..k -> DistinctReplies] : AggregationCorrect("distinct", rets)
=============================================================================
