--------------------------- MODULE ConfigFetchAbs ---------------------------
(***************************************************************************)
(* What one call of ConfigHolder::fetchConfig promises: it returns, once,  *)
(* either an error or a composite document whose metadata tables (shards,  *)
(* databases, collections) and chunks table were each current on the      *)
(* config servers at some moment during the call, the chunks read no      *)
(* earlier than the metadata.  The servers' metadata version `latest` may  *)
(* advance meanwhile.                                                      *)
(***************************************************************************)
EXTENDS Integers

CONSTANT MaxVersion

VARIABLES latest, start, result, done

\* What a call returns: kind "doc" with <<metadata version, chunks
\* version>>, kind "error", or kind "none" before it returns.
Doc(m, c) == [kind |-> "doc", doc |-> <<m, c>>]
Failure == [kind |-> "error", doc |-> <<0, 0>>]
Pending == [kind |-> "none", doc |-> <<0, 0>>]

Documents ==
  {Doc(v[1], v[2]) : v \in {w \in (start..latest) \X (start..latest) : w[1] <= w[2]}}

Init ==
  /\ latest \in 1..MaxVersion
  /\ start = latest
  /\ result = Pending
  /\ done = FALSE

ServersChange ==
  /\ ~done
  /\ latest < MaxVersion
  /\ latest' = latest + 1
  /\ UNCHANGED <<start, result, done>>

Return ==
  /\ ~done
  /\ done' = TRUE
  /\ result' \in Documents \cup {Failure}
  /\ UNCHANGED <<latest, start>>

Spec == Init /\ [][ServersChange \/ Return]_<<latest, start, result, done>>
=============================================================================
