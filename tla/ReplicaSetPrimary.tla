-------------------------- MODULE ReplicaSetPrimary --------------------------
(***************************************************************************)
(* How a ReplicaSet shard knows its primary (src/src/shard.cpp, the Lazy   *)
(* cache of src/unnamed/part_004, the ping path of src/unnamed/part_009).  *)
(*                                                                         *)
(* primary_ is a Lazy<Backend*>: get() returns the cached value, or        *)
(* computes calcPrimary() from the backends' statuses without holding the  *)
(* lock and then stores it; clear() drops the value and assign() sets it.  *)
(* Each backend has one endpoint whose keepPing loop probes the server and *)
(* applies the result (setAlive / setDead, then Backend::endpointAlive /   *)
(* endpointDead, which call Shard::backendUpdated).  lostMaster clears the *)
(* cache and starts the shard's emergency ping of all backends unless one  *)
(* is running; readOp in "primary" mode waits for that ping, then routes   *)
(* to primary_.get().  A read that meets "not master" calls lostMaster, a  *)
(* read that fails otherwise calls Shard::failed.  Coroutines run on       *)
(* several threads, so every step of one may interleave with the others.   *)
(***************************************************************************)
EXTENDS Integers, Sequences, SequencesExt, FiniteSets

CONSTANTS
  BackendSeq,    \* the shard's backends in vector order
  Readers,       \* coroutines reading in "primary" mode
  None,          \* a null Backend*
  MaxElections   \* bound on changes of the replica set's roles

Backends == ToSet(BackendSeq)
Kinds == {"keep", "emerg", "fail"}
Pingers == Backends \X Kinds
Threads == Readers \cup Pingers
Roles == {"primary", "secondary", "down"}

ASSUME None \notin Backends /\ Readers \cap Pingers = {}

VARIABLES
  role,       \* what each server really is (myState 1, 2, or unreachable)
  status,     \* Backend::status_: "none" (empty) or the myState last applied
  epAlive,    \* the endpoint's roundtrip_ is finite
  epWasAlive, \* the endpoint's prevRoundtrip_ is finite
  pval,       \* primary_.value_
  phas,       \* primary_.hasValue_
  emerg,      \* backends the shard's ping_ task has still to ping
  failing,    \* backends with a pingNow spawned by Endpoint::failed
  pc,         \* per thread
  comp,       \* per thread: the value its Lazy::get computed
  target,     \* per reader: the backend readOp returned
  elections

vars == <<role, status, epAlive, epWasAlive, pval, phas, emerg, failing, pc,
          comp, target, elections>>

Alive(b) == status[b] # "none" /\ epAlive[b]
IsPrimary(b) == Alive(b) /\ status[b] = "primary"

\* Variant: the find_if result is used without comparing it with end().
CalcPrimaryNoEndCheck ==
  LET i == SelectInSeq(BackendSeq, IsPrimary) IN IF i = 0 THEN "end" ELSE BackendSeq[i]

\* calcPrimary: the first backend in vector order that is primary.
CalcPrimary ==
  LET i == SelectInSeq(BackendSeq, IsPrimary) IN IF i = 0 THEN None ELSE BackendSeq[i]

AtMostOnePrimary(r) == \A b1, b2 \in Backends : r[b1] = "primary" /\ r[b2] = "primary" => b1 = b2

Init ==
  /\ role \in {r \in [Backends -> Roles] : AtMostOnePrimary(r)}
  /\ status = [b \in Backends |-> "none"]
  /\ epAlive = [b \in Backends |-> FALSE] /\ epWasAlive = [b \in Backends |-> FALSE]
  /\ pval = None /\ phas = FALSE
  /\ emerg = {} /\ failing = {}
  /\ pc = [t \in Threads |-> "idle"]
  /\ comp = [t \in Threads |-> None]
  /\ target = [r \in Readers |-> None]
  /\ elections = 0

-----------------------------------------------------------------------------
(* Lazy<Backend*>::get, run by thread t: check hasValue_ under the shared  *)
(* lock; if unset compute f_() unlocked, then store under the lock and    *)
(* check again.                                                            *)

LazyCompute(t) ==
  /\ pc[t] = "get" /\ ~phas
  /\ comp' = [comp EXCEPT ![t] = CalcPrimary]
  /\ pc' = [pc EXCEPT ![t] = "store"]
  /\ UNCHANGED <<role, status, epAlive, epWasAlive, pval, phas, emerg, failing,
                 target, elections>>

LazyStore(t) ==
  /\ pc[t] = "store"
  /\ pval' = comp[t] /\ phas' = TRUE
  /\ pc' = [pc EXCEPT ![t] = "get"]
  /\ comp' = [comp EXCEPT ![t] = None]
  /\ UNCHANGED <<role, status, epAlive, epWasAlive, emerg, failing,
                 target, elections>>

\* ReplicaSet::lostMaster: primary_.clear(); pingNow() spawns ping_ over
\* all backends if the previous one has completed.
LostMasterEmerg == IF emerg = {} THEN Backends ELSE emerg

\* A pinger's pingNow returns; ping_ completes with the last backend it
\* pinged, Endpoint::failed's detached ping simply ends.
PingerDone(p, lost) ==
  /\ pc' = [pc EXCEPT ![p] = "idle"]
  /\ emerg' = (IF lost THEN LostMasterEmerg ELSE emerg)
                \ (IF p[2] = "emerg" THEN {p[1]} ELSE {})
  /\ failing' = failing \ (IF p[2] = "fail" THEN {p[1]} ELSE {})

\* Backend::endpointAlive: the probed status is stored under the lock (the
\* server's role when the result is applied).
EndpointAlive(b) == status' = [status EXCEPT ![b] = role[b]]

\* Backend::endpointDead: reached from setDead; when the endpoint was alive
\* and none of the backend's endpoints (here its only one) is alive, the
\* status is dropped; either way the shard hears of it only in that case.
EndpointDead(b) == epAlive[b] /\ status' = [status EXCEPT ![b] = "none"]

\* Backend::failed: the status is dropped, and each endpoint's failed()
\* marks it dead (prevRoundtrip_ keeps the old roundtrip) and spawns a
\* detached pingNow.
BackendFailed(b) ==
  /\ status' = [status EXCEPT ![b] = "none"]
  /\ epWasAlive' = [epWasAlive EXCEPT ![b] = epAlive[b]]
  /\ epAlive' = [epAlive EXCEPT ![b] = FALSE]
  /\ failing' = failing \cup {b}

\* ReplicaSet::onFailure: b is the primary primary_.cached() holds, so the
\* shard lost its master.
OnFailureLost(b) == phas /\ pval = b

-----------------------------------------------------------------------------
(* Pingers: keepPing of each endpoint, the shard's ping_ (io::for_each of  *)
(* Backend::pingNow) and the pingNow spawned by Endpoint::failed.          *)

\* pingNow: the probe queries the server (ping, replSetGetStatus, buildinfo,
\* serverStatus) and its outcome is applied: setAlive (endpointAlive stores
\* the status) or setDead (endpointDead clears the status if the endpoint
\* was alive, and only then reports to the shard); both report through
\* Shard::backendUpdated.  The server's role is taken when the result is
\* applied.
Ping(p) ==
  LET b == p[1]
      up == role[b] # "down"
  IN
  /\ pc[p] = "idle"
  /\ \/ p[2] = "keep"
     \/ p[2] = "emerg" /\ b \in emerg
     \/ p[2] = "fail" /\ b \in failing
  /\ epWasAlive' = [epWasAlive EXCEPT ![b] = epAlive[b]]
  /\ epAlive' = [epAlive EXCEPT ![b] = up]
  /\ \/ up /\ EndpointAlive(b) /\ pc' = [pc EXCEPT ![p] = "bu"] /\ UNCHANGED <<emerg, failing>>
     \/ ~up /\ EndpointDead(b) /\ pc' = [pc EXCEPT ![p] = "bu"] /\ UNCHANGED <<emerg, failing>>
     \/ ~up /\ ~epAlive[b] /\ PingerDone(p, FALSE) /\ UNCHANGED status
  /\ UNCHANGED <<role, pval, phas, comp, target, elections>>

\* Variant: backendUpdated only assigns a new primary.
BackendUpdatedAssignOnly(p) ==
  LET b == p[1] IN
  /\ pc[p] = "bu"
  /\ IF IsPrimary(b)
     THEN pval' = b /\ phas' = TRUE
     ELSE UNCHANGED <<pval, phas>>
  /\ PingerDone(p, FALSE)
  /\ UNCHANGED <<role, status, epAlive, epWasAlive, comp, target, elections>>

\* ReplicaSet::backendUpdated(b): a primary is assigned to primary_; else,
\* if b is what primary_.get() returns, lostMaster.
BackendUpdated(p) ==
  LET b == p[1] IN
  /\ pc[p] = "bu"
  /\ IF IsPrimary(b)
     THEN /\ pval' = b /\ phas' = TRUE
          /\ PingerDone(p, FALSE)
     ELSE /\ pc' = [pc EXCEPT ![p] = "get"]
          /\ UNCHANGED <<pval, phas, emerg, failing>>
  /\ UNCHANGED <<role, status, epAlive, epWasAlive, comp, target, elections>>

\* primary_.get() has returned in backendUpdated.
PingerGot(p) ==
  /\ pc[p] = "get" /\ phas
  /\ IF pval = p[1]
     THEN phas' = FALSE /\ PingerDone(p, TRUE)
     ELSE PingerDone(p, FALSE) /\ UNCHANGED phas
  /\ UNCHANGED <<role, status, epAlive, epWasAlive, pval, comp, target,
                 elections>>

-----------------------------------------------------------------------------
(* Readers: readOp in "primary" mode, then talk.                           *)

ReadStart(r) ==
  /\ pc[r] = "idle"
  /\ pc' = [pc EXCEPT ![r] = "wait"]
  /\ UNCHANGED <<role, status, epAlive, epWasAlive, pval, phas, emerg, failing,
                 comp, target, elections>>

\* waitForPings: io::wait(ping_).
WaitForPings(r) ==
  /\ pc[r] = "wait" /\ emerg = {}
  /\ pc' = [pc EXCEPT ![r] = "get"]
  /\ UNCHANGED <<role, status, epAlive, epWasAlive, pval, phas, emerg, failing,
                 comp, target, elections>>

\* primary_.get() has returned: a connection to it, or none.
ReaderGot(r) ==
  /\ pc[r] = "get" /\ phas
  /\ pc' = [pc EXCEPT ![r] = IF pval = None THEN "idle" ELSE "talk"]
  /\ target' = [target EXCEPT ![r] = pval]
  /\ UNCHANGED <<role, status, epAlive, epWasAlive, pval, phas, emerg, failing,
                 comp, elections>>

\* Shard::failed(b): onFailure drops the cached primary if it is b, and
\* Backend::failed marks b and its endpoints failed.
TalkFailed(b) ==
  LET lost == OnFailureLost(b) IN
  /\ phas' = (phas /\ ~lost)
  /\ emerg' = IF lost THEN LostMasterEmerg ELSE emerg
  /\ BackendFailed(b)

\* The request meets the server.  A reply from the primary, or, whatever
\* the server, the read timeout with no task failed (a server that does
\* not answer: talk throws io::error(ETIMEDOUT)), tells the Shard nothing;
\* "not master" from a secondary makes handleErrors call lostMaster; an
\* I/O error from a server that is down calls Shard::failed.
Talk(r) ==
  LET b == target[r] IN
  /\ pc[r] = "talk"
  /\ pc' = [pc EXCEPT ![r] = "idle"]
  /\ target' = [target EXCEPT ![r] = None]
  /\ \/ UNCHANGED <<status, epAlive, epWasAlive, phas, emerg, failing>>
     \/ role[b] = "secondary" /\ phas' = FALSE /\ emerg' = LostMasterEmerg
        /\ UNCHANGED <<status, epAlive, epWasAlive, failing>>
     \/ role[b] = "down" /\ TalkFailed(b)
  /\ UNCHANGED <<role, pval, comp, elections>>

\* The replica set elects another primary, or a member goes down or up.
Elect ==
  /\ elections < MaxElections
  /\ elections' = elections + 1
  /\ role' \in {r \in [Backends -> Roles] : AtMostOnePrimary(r) /\ r # role}
  /\ UNCHANGED <<status, epAlive, epWasAlive, pval, phas, emerg, failing, pc,
                 comp, target>>

PingerStep(p) ==
  Ping(p) \/ BackendUpdated(p) \/ LazyCompute(p) \/ LazyStore(p)
    \/ PingerGot(p)
ReaderStep(r) ==
  WaitForPings(r) \/ LazyCompute(r) \/ LazyStore(r) \/ ReaderGot(r) \/ Talk(r)

Next ==
  \/ \E p \in Pingers : PingerStep(p)
  \/ \E r \in Readers : ReadStart(r) \/ ReaderStep(r)
  \/ Elect

\* keepPing loops for ever and spawned pings run to their end (pingTimeout
\* bounds each probe), so pinger steps are weakly fair; a reader that has
\* started proceeds; new reads and elections are not forced.
Spec ==
  /\ Init /\ [][Next]_vars
  /\ \A p \in Pingers : WF_vars(PingerStep(p))
  /\ \A r \in Readers : WF_vars(ReaderStep(r))

\* Clients keep sending reads in "primary" mode: readOp is called again
\* and again (an environment assumption, not something the proxy does).
SpecReading == Spec /\ \A r \in Readers : WF_vars(ReadStart(r))

-----------------------------------------------------------------------------
TypeOK ==
  /\ role \in [Backends -> Roles]
  /\ status \in [Backends -> {"none", "primary", "secondary"}]
  /\ epAlive \in [Backends -> BOOLEAN] /\ epWasAlive \in [Backends -> BOOLEAN]
  /\ pval \in Backends \cup {None} /\ phas \in BOOLEAN
  /\ emerg \subseteq Backends /\ failing \subseteq Backends
  /\ comp \in [Threads -> Backends \cup {None}]
  /\ target \in [Readers -> Backends \cup {None}]
  /\ elections \in 0..MaxElections

TruePrimary ==
  IF \E b \in Backends : role[b] = "primary"
  THEN CHOOSE b \in Backends : role[b] = "primary" ELSE None

\* Once the replica set stops changing, primary_ ends up holding its real
\* primary (or nothing) for good.  Under Spec this says the pings alone
\* repair a stale cache (backendUpdated assigns a primary and drops a
\* cached non-primary); under SpecReading the failing reads may help
\* (handleErrors' lostMaster, Shard::failed's onFailure).
PrimaryCacheConverges == <>[](phas => pval = TruePrimary)
=============================================================================
