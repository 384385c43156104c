------------------------------ MODULE MergeRead ------------------------------
(***************************************************************************)
(* MergeDatasource (src/src/read.cpp, src/unnamed/part_000): the k-way     *)
(* merge of one BackendDatasource per target shard, ordered by $orderby,   *)
(* with the PARTIAL flag.                                                  *)
(*                                                                         *)
(* Branch i is what shard i's BackendDatasource will yield: docs, the      *)
(* values of the $orderby field of its documents in the order the shard    *)
(* returns them, and fail: 0 if the constructor fails (the task's join     *)
(* throws), k >= 1 if the advance past its k-th document throws (a         *)
(* requestMore that fails), NoFail otherwise; and esc, whether that        *)
(* failure is one protect lets escape even under PARTIAL: anything but     *)
(* io::error and BackendInternalError, so NoSuitableBackend from the       *)
(* constructor and NotMaster, QueryFailure, ShardConfigStale or            *)
(* CursorNotFound from talk.  A merge is drained the way                   *)
(* feed() drains a datasource: get() then advance() until atEnd().  The    *)
(* heap keeps a maximal element in front; which one among equals depends   *)
(* on the heap's history, so Merges gives every possible outcome: the      *)
(* documents produced, tagged with their branch, and whether an exception  *)
(* left the merge.                                                         *)
(***************************************************************************)
EXTENDS Integers, Sequences, FiniteSets

NoFail == -1

\* Variant: the comparison with the direction's sign swapped.
MergeLessSwapped(dir, a, b) ==
  IF dir = 0 \/ a = b THEN FALSE ELSE IF a < b THEN dir > 0 ELSE dir < 0

\* CompareBsons on a one-field $orderby with direction dir (0: no
\* $orderby): a is below b in the max-heap, so the heap's front is the
\* least value for dir 1 and the greatest for dir -1.
MergeLess(dir, a, b) ==
  IF dir = 0 \/ a = b THEN FALSE ELSE IF a < b THEN dir < 0 ELSE dir > 0

\* The fronts std::pop_heap may take: a branch no other live branch's
\* current document is above.
Tops(br, dir, live, pos) ==
  {i \in live : \A j \in live : ~MergeLess(dir, br[i].docs[pos[i] + 1], br[j].docs[pos[j] + 1])}

\* protect(f): an io::error or BackendInternalError is swallowed (false)
\* under PARTIAL; every other exception, and any without PARTIAL, leaves.
Absorbed(b, partial) == partial /\ ~b.esc

\* get() and doAdvance() until atEnd(): the front's document is produced;
\* its advance either throws (protect drops the branch when it absorbs the
\* error and rethrows otherwise), reaches its end (close and pop_back), or
\* leaves it in the heap (push_heap).
RECURSIVE Drain(_, _, _, _, _, _)
Drain(br, dir, partial, live, pos, out) ==
  IF live = {} THEN {[out |-> out, err |-> FALSE]}
  ELSE UNION {
    LET p == pos[i] + 1
        pos2 == [pos EXCEPT ![i] = p]
        out2 == Append(out, [b |-> i, v |-> br[i].docs[p]])
    IN CASE br[i].fail = p /\ Absorbed(br[i], partial) -> Drain(br, dir, partial, live \ {i}, pos2, out2)
         [] br[i].fail = p -> {[out |-> out2, err |-> TRUE]}
         [] p = Len(br[i].docs) -> Drain(br, dir, partial, live \ {i}, pos2, out2)
         [] OTHER -> Drain(br, dir, partial, live, pos2, out2)
    : i \in Tops(br, dir, live, pos)}

\* The constructor: every branch's task is joined in order; a failure
\* protect does not absorb is rethrown; a branch already at its end is not
\* kept.
Merges(br, dir, partial) ==
  IF \E i \in DOMAIN br : br[i].fail = 0 /\ ~Absorbed(br[i], partial)
  THEN {[out |-> <<>>, err |-> TRUE]}
  ELSE Drain(br, dir, partial, {i \in DOMAIN br : br[i].fail # 0 /\ br[i].docs # <<>>},
             [i \in DOMAIN br |-> 0], <<>>)
=============================================================================
