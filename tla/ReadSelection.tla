---------------------------- MODULE ReadSelection ----------------------------
(***************************************************************************)
(* Which backend a shard's readOp picks for a read (src/src/shard.cpp:    *)
(* Multiple::selectLocal and calcByRoundtrip, ReplicaSet::readOp,          *)
(* tagsMatch, isHealthy, maxOptime, calcPrimary; Single::readOp and        *)
(* Sync::readOp).                                                          *)
(*                                                                         *)
(* A snapshot `sn` gives each backend what readOp reads of it: alive(),    *)
(* the myState of its status (1 primary, 2 secondary, 0 anything else),    *)
(* roundtrip(), and whether backendInfo_ has an entry for it with which    *)
(* tags and optime.  A call is the query flags' SLAVE_OK bit, the          *)
(* $readPreference (mode and tag documents; mode "none" when it is empty)  *)
(* and the excluded backend.                                               *)
(* rand() may return any value, so readOp gives the set of backends it    *)
(* may pick; {} is an empty Connection.                                   *)
(***************************************************************************)
EXTENDS Integers, Sequences, SequencesExt, FiniteSets

CONSTANTS
  Nodes,            \* the shard's backends in their order (Shard's backends_)
  None,             \* no backend
  LocalThreshold,   \* options().localThreshold, in roundtrip units
  MaxReplLag        \* options().maxReplLag; Forever for Optime::max()

Forever == -1

-----------------------------------------------------------------------------

\* ReplicaSet::isHealthy: alive with myState 1 or 2.
IsHealthy(sn, b) == sn[b].alive /\ sn[b].state \in {1, 2}

\* ReplicaSet::calcPrimary: the first backend that is alive with myState 1.
CalcPrimary(sn) ==
  LET ps == {i \in DOMAIN Nodes : sn[Nodes[i]].alive /\ sn[Nodes[i]].state = 1}
  IN IF ps = {} THEN None ELSE Nodes[CHOOSE i \in ps : \A j \in ps : i <= j]

\* tagsMatch: no criteria, or every field of some tag document equals the
\* backend's field of that name.
TagsMatch(tags, criteria) == criteria = <<>> \/ \E i \in DOMAIN criteria : criteria[i] \subseteq tags

\* Multiple::calcByRoundtrip: sorted by (roundtrip, Backend*).
ByRoundtrip(sn) ==
  LET pos(b) == CHOOSE i \in DOMAIN Nodes : Nodes[i] = b
  IN SortSeq(Nodes, LAMBDA x, y : sn[x].rt < sn[y].rt \/ (sn[x].rt = sn[y].rt /\ pos(x) < pos(y)))

\* Variant: the prefix taken up to the threshold inclusive.
SelectLocalInclusive(sn, c) ==
  LET threshold == sn[c[1]].rt + LocalThreshold
      k == Cardinality({i \in DOMAIN c : \A j \in 1..i : sn[c[j]].rt <= threshold})
  IN IF c = <<>> THEN {} ELSE {c[i] : i \in 1..(IF k = 0 THEN Len(c) ELSE k)}

\* Multiple::selectLocal given its candidates `c` (byRoundtrip() filtered
\* by pred): the prefix faster than the first one's roundtrip plus
\* localThreshold, the whole candidate list if that prefix is empty; any
\* of them (rand()).
SelectLocal(sn, c) ==
  LET threshold == sn[c[1]].rt + LocalThreshold
      k == Cardinality({i \in DOMAIN c : \A j \in 1..i : sn[c[j]].rt < threshold})
  IN IF c = <<>> THEN {} ELSE {c[i] : i \in 1..(IF k = 0 THEN Len(c) ELSE k)}

\* ReplicaSet::maxOptime over backendInfo_; Optime::max() when it is empty.
MaxOptime(sn) ==
  LET os == {sn[b].optime : b \in {b \in ToSet(Nodes) : sn[b].info}}
  IN IF os = {} THEN Forever ELSE CHOOSE o \in os : \A p \in os : p <= o

\* The readOp mode: the preference's, else nearest with SLAVE_OK, else
\* primary.
Mode(call) ==
  IF call.pref.mode # "none" THEN call.pref.mode
  ELSE IF call.slaveOk THEN "nearest" ELSE "primary"

Tags(call) == call.pref.tags

\* ReplicaSet::readOp after waitForPings, with primary_.get() = p.
ReadOp(sn, p, call) ==
  LET mode == Mode(call)
      tags == Tags(call)
      \* backendInfo() is read only with a finite maxReplLag or tags.
      info == MaxReplLag # Forever \/ tags # <<>>
      known == {b \in ToSet(Nodes) : info /\ sn[b].info}
      \* Only used when backendInfo_ has entries (else every backend passes).
      optimeThreshold == IF MaxReplLag = Forever THEN 0 ELSE MaxOptime(sn) - MaxReplLag
      fresh(b) == sn[b].optime >= optimeThreshold
      pred(b) ==
        /\ IsHealthy(sn, b)
        /\ b # call.exclude
        /\ known = {} \/ (b \in known /\ TagsMatch(sn[b].tags, tags) /\ fresh(b))
  IN IF mode = "primary" \/ (mode = "primaryPreferred" /\ p # call.exclude /\ p # None
                               /\ TagsMatch(IF sn[p].info THEN sn[p].tags ELSE {}, tags))
     THEN IF p # None THEN {p} ELSE {}
     ELSE SelectLocal(sn, SelectSeq(ByRoundtrip(sn), pred))

\* Single::readOp: the primary connection of its only backend, if that one
\* is alive and not the excluded one.
SingleReadOp(sn, call) == {b \in {Nodes[1]} : sn[b].alive /\ b # call.exclude}

\* Sync::readOp: selectLocal with the predicate b != exclude alone, and a
\* connection from getAny().  A dead backend's roundtrip() is
\* microseconds::max(), so it sorts last; adding localThreshold to it
\* overflows, which leaves the prefix empty and selects among all
\* candidates, the same set the unbounded sum gives.
SyncReadOp(sn, call) == SelectLocal(sn, SelectSeq(ByRoundtrip(sn), LAMBDA b : b # call.exclude))
=============================================================================
