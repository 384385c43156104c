-------------------------- MODULE MC_ReadSelection --------------------------
(***************************************************************************)
(* ReplicaSet::readOp checked against spec §4.2 on every snapshot of three *)
(* backends and every call below, with maxReplLag infinite and finite.     *)
(*                                                                         *)
(* A backend was never alive (no backendInfo_ entry), is dead with a       *)
(* stale entry, or is alive with myState 0, 1 or 2, roundtrip 1 or 2, and  *)
(* either no tags and optime 2 or the tag dc1 and optime 0.  A call has no *)
(* $readPreference (with or without SLAVE_OK) or asks for primaryPreferred *)
(* or nearest, with no tags or [{dc1}], and excludes nothing or the first  *)
(* backend.  localThreshold is 1.                                          *)
(***************************************************************************)
EXTENDS Integers, Sequences, SequencesExt, FiniteSets

CONSTANTS Nodes, None

Lag == 1
Threshold == 1
Slow == 100     \* the roundtrip of a dead backend (microseconds::max())

RS(lag) == INSTANCE ReadSelection WITH LocalThreshold <- Threshold, MaxReplLag <- lag
Lags == {RS(0)!Forever, Lag}

NodeSet == ToSet(Nodes)
TagOpt == {[tags |-> {}, optime |-> 2], [tags |-> {"dc1"}, optime |-> 0]}
States ==
  {[alive |-> FALSE, state |-> 0, rt |-> Slow, info |-> FALSE, tags |-> {}, optime |-> 0]}
  \cup {[alive |-> FALSE, state |-> 0, rt |-> Slow, info |-> TRUE, tags |-> t.tags, optime |-> t.optime]
          : t \in TagOpt}
  \cup {[alive |-> TRUE, state |-> s, rt |-> r, info |-> TRUE, tags |-> t.tags, optime |-> t.optime]
          : s \in {0, 1, 2}, r \in {1, 2}, t \in TagOpt}
Snapshots == [NodeSet -> States]
Prefs ==
  {[mode |-> "none", tags |-> <<>>]}
  \cup {[mode |-> m, tags |-> t] : m \in {"primaryPreferred", "nearest"}, t \in {<<>>, <<{"dc1"}>>}}
Calls == [slaveOk : BOOLEAN, pref : Prefs, exclude : {None, Nodes[1]}]

-----------------------------------------------------------------------------
(* Spec §4.2, ReplicaSet readOp.                                           *)

SpecMode(call) ==
  IF call.pref.mode # "none" THEN call.pref.mode
  ELSE IF call.slaveOk THEN "nearest" ELSE "primary"

Matches(tags, criteria) == criteria = <<>> \/ \E i \in DOMAIN criteria : criteria[i] \subseteq tags

\* Step 1: healthy, not excluded, tags match, optime within maxReplLag of
\* the newest known one.
Candidates(sn, call, lag) ==
  LET known == {b \in NodeSet : sn[b].info}
      newest == CHOOSE o \in {sn[b].optime : b \in known} : \A b \in known : sn[b].optime <= o
  IN {b \in NodeSet :
        /\ sn[b].alive /\ sn[b].state \in {1, 2}
        /\ b # call.exclude
        /\ Matches(sn[b].tags, call.pref.tags)
        /\ lag # RS(0)!Forever => sn[b].optime >= newest - lag}

\* Steps 2-5: the candidates faster than the fastest plus localThreshold,
\* widened to all candidates when that leaves only the fastest (`widen`).
Pick(sn, c, widen) ==
  LET fastest == CHOOSE r \in {sn[b].rt : b \in c} : \A b \in c : r <= sn[b].rt
      prefix == {b \in c : sn[b].rt < fastest + Threshold}
  IN IF c = {} THEN {} ELSE IF widen /\ Cardinality(prefix) = 1 THEN c ELSE prefix

Chosen(sn, call, lag, widen) == Pick(sn, Candidates(sn, call, lag), widen)

\* "primary": the current primary, ignoring exclude; "primaryPreferred":
\* the primary if alive, tag-matching and not excluded, else selection.
SpecRead(sn, call, lag, widen) ==
  LET p == RS(lag)!CalcPrimary(sn)
  IN CASE SpecMode(call) = "primary" -> IF p = None THEN {} ELSE {p}
       [] SpecMode(call) = "primaryPreferred" /\ p # None /\ p # call.exclude
            /\ Matches(sn[p].tags, call.pref.tags) -> {p}
       [] OTHER -> Chosen(sn, call, lag, widen)

ReadOpOf(sn, call, lag) == RS(lag)!ReadOp(sn, RS(lag)!CalcPrimary(sn), call)

\* ReplicaSet::readOp picks only a backend spec §4.2 allows, and finds one
\* whenever the spec does: the primary for "primary" and an eligible
\* "primaryPreferred", else a candidate that is healthy, not excluded,
\* tag-matching and fresh, among those within localThreshold of the
\* fastest.  (Step 4's widening is the one exception: the code widens only
\* an empty prefix, so it may keep a prefix of one.)
ReadOpWithinSpec ==
  \A lag \in Lags, sn \in Snapshots, call \in Calls :
    ReadOpOf(sn, call, lag) \in {SpecRead(sn, call, lag, TRUE), SpecRead(sn, call, lag, FALSE)}

\* ReplicaSet::readOp follows spec §4.2 including step 4: a prefix holding
\* only the fastest candidate is widened to every candidate.
ReadOpMatchesSpec ==
  \A lag \in Lags, sn \in Snapshots, call \in Calls :
    ReadOpOf(sn, call, lag) = SpecRead(sn, call, lag, TRUE)

-----------------------------------------------------------------------------
(* Spec §4.2, the other two kinds of shard.  A Single shard's backend is   *)
(* the first of Nodes.                                                      *)

\* Singleton: a primary connection iff the backend is alive and not excluded.
SpecSingle(sn, call) == IF sn[Nodes[1]].alive /\ Nodes[1] # call.exclude THEN {Nodes[1]} ELSE {}

\* SyncGroup: any alive backend, by the localThreshold selection of steps
\* 2-5 over the alive backends but the excluded one.
SyncCandidates(sn, call) == {b \in NodeSet : sn[b].alive /\ b # call.exclude}
SpecSync(sn, call, widen) == Pick(sn, SyncCandidates(sn, call), widen)

SyncReadOk(sn, call) == RS(0)!SyncReadOp(sn, call) \in {SpecSync(sn, call, TRUE), SpecSync(sn, call, FALSE)}

\* Single::readOp is the Singleton of spec §4.2, and Sync::readOp picks as
\* the SyncGroup does (either reading of step 4) whenever an alive backend
\* other than the excluded one is left.
ShardKindsWithinSpec ==
  \A sn \in Snapshots, call \in Calls :
    /\ RS(0)!SingleReadOp(sn, call) = SpecSingle(sn, call)
    /\ SyncCandidates(sn, call) # {} => SyncReadOk(sn, call)

\* Sync::readOp picks only alive backends, as the SyncGroup of spec §4.2
\* does, also when none is left (an empty connection, NoSuitableBackend).
SyncReadsAliveChecked == \A sn \in Snapshots, call \in Calls : SyncReadOk(sn, call)
=============================================================================
