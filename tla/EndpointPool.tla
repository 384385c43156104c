---------------------------- MODULE EndpointPool ----------------------------
(***************************************************************************)
(* One Endpoint of a backend with its two connection pools, and the        *)
(* Connections its callers use (src/unnamed/part_009 = backend.cpp,        *)
(* src/src/backend.h).                                                     *)
(*                                                                         *)
(* A caller takes a connection (getPrimary or getAny), runs establish on   *)
(* it (authenticate, trySetVersion for one namespace, write the request;   *)
(* on a failed write: flush the endpoint, reconnect and do it all again),  *)
(* reads the reply and releases the connection, or drops it on any error.  *)
(* Connections are owned by one caller at a time; they interact through    *)
(* the pools, through Endpoint::flush run by other coroutines (failed,     *)
(* setDead) and through the network, which may break a stream at any      *)
(* moment and with it the server's state for that TCP connection.          *)
(*                                                                         *)
(* The request's namespace is fixed; its ChunkVersion is 0 (an empty       *)
(* namespace or a zero stamp: no setShardVersion) or one of Versions.      *)
(***************************************************************************)
EXTENDS Integers, Sequences, SequencesExt, FiniteSets

CONSTANTS
  Callers,         \* coroutines using the endpoint
  PrimaryCallers,  \* those calling getPrimary (the others call getAny)
  Conns,           \* identities for Connection::Impl objects
  NoConn,
  Versions,        \* chunk versions of the namespace
  ConnPoolSize,    \* options().connPoolSize
  MaxBreaks        \* bound on network failures

ASSUME PrimaryCallers \subseteq Callers /\ NoConn \notin Conns
ASSUME 0 \notin Versions /\ ConnPoolSize \in Nat

VARIABLES
  secret,     \* auth::sharedSecret() is non-empty
  primaries,  \* Endpoint::primaries_ (a vector, popped at the back)
  anyConns,   \* Endpoint::conns_
  isPrimary,  \* per connection: Impl::isPrimary
  authd,      \* per connection: Impl::authenticated
  ver,        \* per connection: Impl::versions[ns], 0 when absent
  stream,     \* per connection: none (no rdbuf), open, broken
  wireAuth,   \* per connection: the server has authenticated this stream
  wireVer,    \* per connection: version the server has for ns on this stream
  cpc,        \* per caller: idle, auth, setver, write, reconnect, reply
  conn,       \* per caller: the connection it holds
  req,        \* per caller: the version its request is sent with
  again,      \* per caller: establish is past the reconnect (lines 62-74)
  attempt,    \* per caller: trySetVersion's loop counter
  breaks

vars == <<secret, primaries, anyConns, isPrimary, authd, ver, stream, wireAuth,
          wireVer, cpc, conn, req, again, attempt, breaks>>
connVars == <<isPrimary, authd, ver, stream, wireAuth, wireVer>>

Pooled == ToSet(primaries) \cup ToSet(anyConns)
Held == {conn[r] : r \in Callers} \ {NoConn}
Live == Pooled \cup Held

Init ==
  /\ secret \in BOOLEAN
  /\ primaries = <<>> /\ anyConns = <<>>
  /\ isPrimary = [c \in Conns |-> FALSE] /\ authd = [c \in Conns |-> FALSE]
  /\ ver = [c \in Conns |-> 0] /\ stream = [c \in Conns |-> "none"]
  /\ wireAuth = [c \in Conns |-> FALSE] /\ wireVer = [c \in Conns |-> 0]
  /\ cpc = [r \in Callers |-> "idle"] /\ conn = [r \in Callers |-> NoConn]
  /\ req = [r \in Callers |-> 0] /\ again = [r \in Callers |-> FALSE]
  /\ attempt = [r \in Callers |-> 0]
  /\ breaks = 0

\* The caller leaves establish, or the operation that used the connection.
Finish(r, next) ==
  /\ cpc' = [cpc EXCEPT ![r] = next]
  /\ attempt' = [attempt EXCEPT ![r] = 0]

\* Any exception: the Connection is destroyed with the caller's frame.
Drop(r) ==
  /\ Finish(r, "idle")
  /\ conn' = [conn EXCEPT ![r] = NoConn]
  /\ again' = [again EXCEPT ![r] = FALSE]

\* Endpoint::flush: both pools are cleared, their connections closed.
FlushPools ==
  /\ primaries' = <<>> /\ anyConns' = <<>>

-----------------------------------------------------------------------------
(* Endpoint::get: pop a pooled connection (pop) or make a new one, then    *)
(* establish begins: with the stream it has, or with connect if none.      *)

Get(r) ==
  /\ cpc[r] = "idle"
  /\ \E v \in IF r \in PrimaryCallers THEN Versions \cup {0} ELSE {0} :
       req' = [req EXCEPT ![r] = v]
  /\ LET pool == IF r \in PrimaryCallers THEN primaries ELSE anyConns
     IN IF pool # <<>>
        THEN /\ conn' = [conn EXCEPT ![r] = Last(pool)]
             /\ IF r \in PrimaryCallers
                THEN primaries' = Front(primaries) /\ UNCHANGED anyConns
                ELSE anyConns' = Front(anyConns) /\ UNCHANGED primaries
             /\ cpc' = [cpc EXCEPT ![r] = IF stream[Last(pool)] = "none"
                                         THEN "reconnect" ELSE "auth"]
             /\ UNCHANGED connVars
        ELSE \E c \in Conns \ Live :
             /\ conn' = [conn EXCEPT ![r] = c]
             /\ isPrimary' = [isPrimary EXCEPT ![c] = r \in PrimaryCallers]
             /\ authd' = [authd EXCEPT ![c] = FALSE]
             /\ ver' = [ver EXCEPT ![c] = 0]
             /\ stream' = [stream EXCEPT ![c] = "none"]
             /\ cpc' = [cpc EXCEPT ![r] = "reconnect"]
             /\ UNCHANGED <<primaries, anyConns, wireAuth, wireVer>>
  /\ UNCHANGED <<secret, again, attempt, breaks>>

-----------------------------------------------------------------------------
(* Connection::establish and the two helpers it calls.                    *)

\* authenticate(): nothing to do if already authenticated or no key is
\* configured; if sending getnonce fails it returns and leaves the error to
\* establish; a negative reply throws BackendInternalError.
Authenticate(r) ==
  LET c == conn[r] IN
  /\ cpc[r] = "auth"
  /\ IF authd[c] \/ ~secret \/ stream[c] = "broken"
     THEN Finish(r, "setver") /\ UNCHANGED <<authd, wireAuth, conn, again>>
     ELSE \/ /\ Finish(r, "setver")
             /\ authd' = [authd EXCEPT ![c] = TRUE]
             /\ wireAuth' = [wireAuth EXCEPT ![c] = TRUE]
             /\ UNCHANGED <<conn, again>>
          \/ Drop(r) /\ UNCHANGED <<authd, wireAuth>>
  /\ UNCHANGED <<secret, primaries, anyConns, isPrimary, ver, stream, wireVer,
                 req, breaks>>

\* Variant: the loop runs attempt != 3.
SetVersionThreeRounds(r) ==
  LET c == conn[r] IN
  /\ cpc[r] = "setver"
  /\ IF ~(isPrimary[c] /\ req[r] # 0) \/ ver[c] = req[r]
        \/ attempt[r] = 3 \/ stream[c] = "broken"
     THEN Finish(r, "write") /\ UNCHANGED <<ver, wireVer, conn, again>>
     ELSE \/ /\ Finish(r, "write")
             /\ ver' = [ver EXCEPT ![c] = req[r]]
             /\ wireVer' = [wireVer EXCEPT ![c] = req[r]]
             /\ UNCHANGED <<conn, again>>
          \/ /\ attempt' = [attempt EXCEPT ![r] = @ + 1]
             /\ UNCHANGED <<cpc, ver, wireVer, conn, again>>
          \/ Drop(r) /\ UNCHANGED <<ver, wireVer>>
  /\ UNCHANGED <<secret, primaries, anyConns, isPrimary, authd, stream,
                 wireAuth, req, breaks>>

\* One round of trySetVersion's loop.  It is called for primary connections
\* with a versioned request, and returns at once if versions[ns] already
\* holds the version.  A send failure returns; "ok" records the version;
\* "all servers down" (8002) goes round again, twice at most, after which
\* the loop ends and trySetVersion returns; "not master", "metadata manager
\* failed", "None of the hosts" and any other errmsg throw.  (Before its
\* throw, the metadata-manager case also marks the Backend permanently
\* failed and asks the server to step down: Backend status and server
\* roles are ReplicaSetPrimary's state, not this module's.)
SetVersion(r) ==
  LET c == conn[r] IN
  /\ cpc[r] = "setver"
  /\ IF ~(isPrimary[c] /\ req[r] # 0) \/ ver[c] = req[r]
        \/ attempt[r] = 2 \/ stream[c] = "broken"
     THEN Finish(r, "write") /\ UNCHANGED <<ver, wireVer, conn, again>>
     ELSE \/ /\ Finish(r, "write")
             /\ ver' = [ver EXCEPT ![c] = req[r]]
             /\ wireVer' = [wireVer EXCEPT ![c] = req[r]]
             /\ UNCHANGED <<conn, again>>
          \/ /\ attempt' = [attempt EXCEPT ![r] = @ + 1]
             /\ UNCHANGED <<cpc, ver, wireVer, conn, again>>
          \/ Drop(r) /\ UNCHANGED <<ver, wireVer>>
  /\ UNCHANGED <<secret, primaries, anyConns, isPrimary, authd, stream,
                 wireAuth, req, breaks>>

\* stream().write(msg).flush().  Success: the request is on the wire.  On
\* the first pass a failure flushes the endpoint and falls through to the
\* reconnect; on the second it throws io::error.
Write(r) ==
  LET c == conn[r] IN
  /\ cpc[r] = "write"
  /\ \/ /\ stream[c] = "open"
        /\ Finish(r, "reply")
        /\ UNCHANGED <<primaries, anyConns, conn, again>>
     \/ /\ stream[c] = "broken" /\ ~again[r]
        /\ Finish(r, "reconnect") /\ FlushPools
        /\ UNCHANGED <<conn, again>>
     \/ /\ stream[c] = "broken" /\ again[r]
        /\ Drop(r)
        /\ UNCHANGED <<primaries, anyConns>>
  /\ UNCHANGED <<secret, connVars, req, breaks>>

\* Variant: the reconnect keeps versions.
ReconnectKeepingVersions(r) ==
  LET c == conn[r] IN
  /\ cpc[r] = "reconnect"
  /\ \/ /\ Finish(r, "auth")
        /\ again' = [again EXCEPT ![r] = TRUE]
        /\ stream' = [stream EXCEPT ![c] = "open"]
        /\ wireAuth' = [wireAuth EXCEPT ![c] = FALSE]
        /\ wireVer' = [wireVer EXCEPT ![c] = 0]
        /\ UNCHANGED conn
     \/ Drop(r) /\ UNCHANGED <<stream, wireAuth, wireVer>>
  /\ UNCHANGED <<ver, secret, primaries, anyConns, isPrimary, authd, req, breaks>>

\* versions.clear(); stream() = io::stream(io::connect(addr)), which throws
\* if the endpoint cannot be reached.  The new TCP connection is neither
\* authenticated nor versioned on the server.
Reconnect(r) ==
  LET c == conn[r] IN
  /\ cpc[r] = "reconnect"
  /\ ver' = [ver EXCEPT ![c] = 0]
  /\ \/ /\ Finish(r, "auth")
        /\ again' = [again EXCEPT ![r] = TRUE]
        /\ stream' = [stream EXCEPT ![c] = "open"]
        /\ wireAuth' = [wireAuth EXCEPT ![c] = FALSE]
        /\ wireVer' = [wireVer EXCEPT ![c] = 0]
        /\ UNCHANGED conn
     \/ Drop(r) /\ UNCHANGED <<stream, wireAuth, wireVer>>
  /\ UNCHANGED <<secret, primaries, anyConns, isPrimary, authd, req, breaks>>

\* Endpoint::release on the happy path: the connection goes back to the
\* pool of its kind if that holds fewer than connPoolSize, else it closes.
Release(r) ==
  LET c == conn[r]
      full(p) == Len(p) >= ConnPoolSize
  IN /\ IF isPrimary[c]
        THEN /\ primaries' = IF full(primaries) THEN primaries ELSE Append(primaries, c)
             /\ UNCHANGED anyConns
        ELSE /\ anyConns' = IF full(anyConns) THEN anyConns ELSE Append(anyConns, c)
             /\ UNCHANGED primaries
     /\ Drop(r)

\* Variant: the reply is read with no deadline, so a dead stream blocks it.
ReplyWithoutTimeout(r) ==
  /\ cpc[r] = "reply"
  /\ stream[conn[r]] = "open"
  /\ \/ Release(r)
     \/ Drop(r) /\ UNCHANGED <<primaries, anyConns>>
  /\ UNCHANGED <<secret, connVars, req, breaks>>

\* The reply is read.  The server answers on an open stream (an error reply
\* or a read timeout is an exception, and the connection is dropped); a
\* broken stream fails the read.
Reply(r) ==
  /\ cpc[r] = "reply"
  /\ \/ stream[conn[r]] = "open" /\ Release(r)
     \/ Drop(r) /\ UNCHANGED <<primaries, anyConns>>
  /\ UNCHANGED <<secret, connVars, req, breaks>>

-----------------------------------------------------------------------------
(* Other coroutines and the network.                                       *)

\* Endpoint::failed or setDead, called for this endpoint from a ping or
\* another request: Endpoint::flush.
Flush ==
  /\ Pooled # {}
  /\ FlushPools
  /\ UNCHANGED <<secret, connVars, cpc, conn, req, again, attempt, breaks>>

\* The TCP connection breaks (reset, server restart); the server forgets
\* what it knew of it.
Break(c) ==
  /\ breaks < MaxBreaks
  /\ c \in Live /\ stream[c] = "open"
  /\ breaks' = breaks + 1
  /\ stream' = [stream EXCEPT ![c] = "broken"]
  /\ wireAuth' = [wireAuth EXCEPT ![c] = FALSE]
  /\ wireVer' = [wireVer EXCEPT ![c] = 0]
  /\ UNCHANGED <<secret, primaries, anyConns, isPrimary, authd, ver, cpc, conn,
                 req, again, attempt>>

Step(r) == Authenticate(r) \/ SetVersion(r) \/ Write(r) \/ Reconnect(r) \/ Reply(r)

Next ==
  \/ \E r \in Callers : Get(r) \/ Step(r)
  \/ Flush
  \/ \E c \in Conns : Break(c)

\* Every operation using a connection ends: the read and ping timeouts
\* cancel a caller whose server does not answer, so the caller's steps are
\* weakly fair.  Taking a connection, flushes and failures are not.
Spec == Init /\ [][Next]_vars /\ \A r \in Callers : WF_vars(Step(r))

-----------------------------------------------------------------------------
TypeOK ==
  /\ secret \in BOOLEAN
  /\ primaries \in Seq(Conns) /\ anyConns \in Seq(Conns)
  /\ isPrimary \in [Conns -> BOOLEAN] /\ authd \in [Conns -> BOOLEAN]
  /\ ver \in [Conns -> Versions \cup {0}] /\ wireVer \in [Conns -> Versions \cup {0}]
  /\ stream \in [Conns -> {"none", "open", "broken"}]
  /\ wireAuth \in [Conns -> BOOLEAN]
  /\ cpc \in [Callers -> {"idle", "auth", "setver", "write", "reconnect", "reply"}]
  /\ conn \in [Callers -> Conns \cup {NoConn}]
  /\ \A r \in Callers : (cpc[r] = "idle") = (conn[r] = NoConn)
  /\ attempt \in [Callers -> 0..2]
  /\ breaks \in 0..MaxBreaks

\* Spec 4.5: a connection tracks which version it has set on the wire.  On
\* every live connection whose stream is usable, the version recorded in
\* versions[ns] is the one the server holds for that TCP connection, across
\* reconnects, pooling and reuse by other callers.
VersionCacheCoherent ==
  \A c \in Live : stream[c] = "open" /\ ver[c] # 0 => ver[c] = wireVer[c]

\* Every operation that took a connection gets past establish and the reply
\* and gives the connection back or drops it.
RequestsComplete == \A r \in Callers : cpc[r] # "idle" ~> cpc[r] = "idle"

\* With a shared key configured, a request is written only on a stream the
\* server has authenticated (establish calls authenticate before sending,
\* also after reconnecting).
SentAuthenticated ==
  [][\A r \in Callers :
       (cpc[r] = "write" /\ cpc'[r] = "reply" /\ secret) => wireAuth[conn[r]]]_vars

=============================================================================
