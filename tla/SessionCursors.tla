--------------------------- MODULE SessionCursors ---------------------------
(***************************************************************************)
(* Client cursors: Session::run's QUERY, GET_MORE and KILL_CURSORS         *)
(* branches and Session::feed (src/src/session.cpp), the CursorMap and its *)
(* local or global storage (src/unnamed/part_008), and the datasources     *)
(* they hand around (DataSource and FixedDataSource in operations.h,       *)
(* BackendDatasource in part_000 and read.cpp).                            *)
(*                                                                         *)
(* A datasource lives in a slot of `dsv` while it exists; freeing the      *)
(* slot is the delete of its unique_ptr.  A backend datasource holds `buf` *)
(* documents of its last batch (objects_ from current_) and the server     *)
(* still has `srv` documents behind its cursor (cursorID_ # 0 iff srv >    *)
(* 0).  A failed requestMore leaves the batch consumed and the cursor      *)
(* set: the datasource is not at its end and get() reads objects_.end().   *)
(* A queryError FixedDataSource has one document ($err) and the            *)
(* QUERY_FAILURE flag.  A merge over several shards behaves as one stream  *)
(* here; documents are counted, never built.                               *)
(***************************************************************************)
EXTENDS Integers, FiniteSets

CONSTANTS
  Sessions,     \* client connections (Session coroutines)
  Global,       \* options().globalCursors: one CursorMap for all sessions
  Counts,       \* nToReturn values clients send
  Skips,        \* nToSkip values clients send
  MaxDocs,      \* bound on the documents a query matches
  ServerBatch,  \* documents a shard returns per OP_REPLY by default
  MaxQueries,   \* bound on QUERY requests
  MaxIds,       \* bound on DataSource::generateID
  Slots         \* datasources that may exist at once

Inf == -1                 \* feed's INF (size_t(-1))
MapOf(s) == IF Global THEN "global" ELSE s
Maps == {MapOf(s) : s \in Sessions}
Ids == 1..MaxIds

VARIABLES
  dsv,        \* slot -> datasource (kind "none" when the slot is free)
  nextId,     \* g_id of DataSource::generateID
  cmap,       \* map -> cursor id -> slot (0: no entry)
  pc,         \* per session: idle, feed, post
  req,        \* per session: the request being served
  fs,         \* per session: feed's locals
  queries,    \* QUERY requests so far (also the query's number)
  known,      \* per session: cursor ids the client was given and may use
  lastReply,  \* per session: the last OP_REPLY [q, cursor, fail]
  failedQ     \* queries whose result stream hit a fetch error

vars == <<dsv, nextId, cmap, pc, req, fs, queries, known, lastReply, failedQ>>

NoDs == [kind |-> "none", id |-> 0, buf |-> 0, srv |-> 0, closed |-> FALSE, q |-> 0]
ErrDs(id, q) == [kind |-> "err", id |-> id, buf |-> 1, srv |-> 0, closed |-> FALSE, q |-> q]
NoReq == [op |-> "none", count |-> 0, cid |-> 0, d |-> 0]
NoFeed == [ds |-> 0, retcnt |-> 0, cnt |-> 0, auto |-> FALSE, fail |-> FALSE, stop |-> FALSE]

Alive(d) == dsv[d].kind # "none"
FreeSlots == {d \in Slots : ~Alive(d)}
MinOf(a, b) == IF a < b THEN a ELSE b

\* atEnd(): Fixed when consumed; Backend when cursorID_ == 0 and current_ == end.
AtEnd(r) == r.buf = 0 /\ r.srv = 0
\* current_ == end with a live cursor: get() dereferences end().
Broken(r) == r.kind = "backend" /\ r.buf = 0 /\ r.srv > 0

\* talk(): the reply's batch replaces objects_ and cursorID_.
Refill(r, batch) == [r EXCEPT !.buf = MinOf(batch, r.srv), !.srv = @ - MinOf(batch, r.srv)]

\* DataSource::advance on a datasource not at its end: Fixed is consumed;
\* Backend moves current_ and, at the end of a batch with a live cursor,
\* requestMore()s, which succeeds or throws leaving the batch consumed.
AdvanceOutcomes(r) ==
  IF r.kind = "err" THEN {[ok |-> TRUE, ds |-> [r EXCEPT !.buf = 0]]}
  ELSE LET a == [r EXCEPT !.buf = @ - 1] IN
       IF a.buf = 0 /\ a.srv > 0
       THEN {[ok |-> TRUE, ds |-> Refill(a, ServerBatch)], [ok |-> FALSE, ds |-> a]}
       ELSE {[ok |-> TRUE, ds |-> a]}

\* feed's prologue: flags from the datasource (CURSOR_NOT_FOUND for none),
\* autoClose for nToReturn 1 or negative, cnt = |count| or INF.
FeedInit(d, isErr, count) ==
  [ds |-> d, retcnt |-> 0, cnt |-> IF count = 0 THEN Inf ELSE IF count < 0 THEN -count ELSE count,
   auto |-> count = 1 \/ count < 0, fail |-> isErr, stop |-> FALSE]

Init ==
  /\ dsv = [d \in Slots |-> NoDs]
  /\ nextId = 0
  /\ cmap = [m \in Maps |-> [c \in Ids |-> 0]]
  /\ pc = [s \in Sessions |-> "idle"]
  /\ req = [s \in Sessions |-> NoReq]
  /\ fs = [s \in Sessions |-> NoFeed]
  /\ queries = 0
  /\ known = [s \in Sessions |-> {}]
  /\ lastReply = [s \in Sessions |-> [q |-> 0, cursor |-> 0, fail |-> FALSE]]
  /\ failedQ = {}

\* The slot a new datasource is allocated in.
NewSlot == CHOOSE d \in FreeSlots : TRUE

\* CursorMap::find: the entry for the id, if its datasource has that id.
Find(m, c) == IF cmap[m][c] # 0 /\ dsv[cmap[m][c]].id = c THEN cmap[m][c] ELSE 0

\* The datasource of a QUERY after its try block: operations::query builds
\* a BackendDatasource, whose constructor talk()s for the first batch (of
\* one document for nToReturn 1) or throws; nToSkip advance()s follow.  A
\* throw becomes saveErr's queryError, a new datasource; the half-read one
\* is deleted.
Created(count, skip, total) ==
  LET q == queries + 1
      b == Refill([kind |-> "backend", id |-> nextId + 1, buf |-> 0, srv |-> total,
                   closed |-> FALSE, q |-> q], IF count = 1 THEN 1 ELSE ServerBatch)
      err == [ds |-> ErrDs(nextId + 2, q), ids |-> 2, failed |-> TRUE]
  IN {err} \cup
     IF skip = 0 \/ AtEnd(b) THEN {[ds |-> b, ids |-> 1, failed |-> FALSE]}
     ELSE {IF o.ok THEN [ds |-> o.ds, ids |-> 1, failed |-> FALSE] ELSE err
             : o \in AdvanceOutcomes(b)}

\* OP_QUERY up to feed(): the datasource is built and feeding starts.
Query(s) ==
  /\ pc[s] = "idle"
  /\ queries < MaxQueries
  /\ FreeSlots # {}
  /\ \E count \in Counts, skip \in Skips, total \in 0..MaxDocs :
     \E o \in Created(count, skip, total) :
       /\ nextId + o.ids <= MaxIds
       /\ dsv' = [dsv EXCEPT ![NewSlot] = o.ds]
       /\ nextId' = nextId + o.ids
       /\ failedQ' = IF o.failed THEN failedQ \cup {queries + 1} ELSE failedQ
       /\ queries' = queries + 1
       /\ pc' = [pc EXCEPT ![s] = "feed"]
       /\ req' = [req EXCEPT ![s] = [op |-> "query", count |-> count, cid |-> 0, d |-> NewSlot]]
       /\ fs' = [fs EXCEPT ![s] = FeedInit(NewSlot, o.ds.kind = "err", count)]
  /\ UNCHANGED <<cmap, known, lastReply>>

\* OP_GET_MORE up to feed(): the cursor is looked up (it may be gone).
GetMore(s) ==
  /\ pc[s] = "idle"
  /\ \E c \in 1..nextId, count \in Counts :
       LET d == Find(MapOf(s), c) IN
       /\ pc' = [pc EXCEPT ![s] = "feed"]
       /\ req' = [req EXCEPT ![s] = [op |-> "getmore", count |-> count, cid |-> c, d |-> d]]
       /\ fs' = [fs EXCEPT ![s] = FeedInit(d, d # 0 /\ dsv[d].kind = "err", count)]
  /\ UNCHANGED <<dsv, nextId, cmap, queries, known, lastReply, failedQ>>

\* Variant: the count is decremented even when it is INF.
FeedStepCountingInf(s) ==
  LET f == fs[s]
      d == f.ds
  IN /\ pc[s] = "feed"
     /\ d # 0 /\ Alive(d) /\ ~Broken(dsv[d])
     /\ ~AtEnd(dsv[d]) /\ f.cnt # 0 /\ ~f.stop
     /\ \E o \in AdvanceOutcomes(dsv[d]) :
          /\ o.ok
          /\ dsv' = [dsv EXCEPT ![d] = o.ds]
          /\ fs' = [fs EXCEPT ![s].retcnt = @ + 1, ![s].cnt = @ - 1]
  /\ UNCHANGED <<nextId, failedQ, cmap, pc, req, queries, known, lastReply>>

\* One turn of feed's loop: get() and advance().  A throw stashes a
\* queryError carrying the cursor's id; with documents already in the
\* reply the loop stops, otherwise the error document is sent at once
\* with QUERY_FAILURE.  (get() on a datasource whose requestMore failed
\* is undefined; the model stops there, and CloseSafety reports it.)
FeedStep(s) ==
  LET f == fs[s]
      d == f.ds
  IN /\ pc[s] = "feed"
     /\ d # 0 /\ Alive(d) /\ ~Broken(dsv[d])
     /\ ~AtEnd(dsv[d]) /\ f.cnt # 0 /\ ~f.stop
     /\ \E o \in AdvanceOutcomes(dsv[d]) :
          IF o.ok
          THEN /\ dsv' = [dsv EXCEPT ![d] = o.ds]
               /\ fs' = [fs EXCEPT ![s].retcnt = @ + 1,
                                    ![s].cnt = IF @ # Inf THEN @ - 1 ELSE @]
               /\ UNCHANGED <<nextId, failedQ>>
          ELSE /\ FreeSlots # {} /\ nextId < MaxIds
               /\ dsv' = [dsv EXCEPT ![d] = o.ds, ![NewSlot] = ErrDs(dsv[d].id, dsv[d].q)]
               /\ nextId' = nextId + 1
               /\ failedQ' = failedQ \cup {dsv[d].q}
               /\ fs' = [fs EXCEPT ![s].ds = NewSlot,
                                    ![s].stop = f.retcnt # 0,
                                    ![s].fail = @ \/ f.retcnt = 0]
  /\ UNCHANGED <<cmap, pc, req, queries, known, lastReply>>

\* Variant: the datasource is close()d even when its cursor id is returned.
FeedEndAlwaysClosing(s) ==
  LET f == fs[s]
      d == f.ds
      keep == ~f.auto /\ d # 0 /\ ~AtEnd(dsv[d])
  IN /\ pc[s] = "feed"
     /\ IF d = 0 THEN TRUE ELSE AtEnd(dsv[d]) \/ f.cnt = 0 \/ f.stop
     /\ dsv' = IF d # 0 THEN [dsv EXCEPT ![d].closed = TRUE] ELSE dsv
     /\ lastReply' = [lastReply EXCEPT ![s] =
                        [q |-> IF d = 0 THEN 0 ELSE dsv[d].q,
                         cursor |-> IF keep THEN dsv[d].id ELSE 0, fail |-> f.fail]]
     /\ known' = [known EXCEPT ![s] =
                    (IF req[s].op = "getmore" THEN @ \ {req[s].cid} ELSE @)
                    \cup (IF keep THEN {dsv[d].id} ELSE {})]
     /\ pc' = [pc EXCEPT ![s] = "post"]
  /\ UNCHANGED <<nextId, cmap, req, fs, queries, failedQ>>

\* feed's epilogue: the cursor id is returned unless autoClose or the
\* datasource is exhausted, in which case it is close()d; the reply is
\* written.  The client keeps the cursor id it is given and forgets the
\* one it asked for.
FeedEnd(s) ==
  LET f == fs[s]
      d == f.ds
      keep == ~f.auto /\ d # 0 /\ ~AtEnd(dsv[d])
      cursor == IF keep THEN dsv[d].id ELSE 0
  IN /\ pc[s] = "feed"
     /\ IF d = 0 THEN TRUE ELSE AtEnd(dsv[d]) \/ f.cnt = 0 \/ f.stop
     /\ dsv' = IF d # 0 /\ ~keep THEN [dsv EXCEPT ![d].closed = TRUE] ELSE dsv
     /\ lastReply' = [lastReply EXCEPT ![s] =
                        [q |-> IF d = 0 THEN 0 ELSE dsv[d].q, cursor |-> cursor, fail |-> f.fail]]
     /\ known' = [known EXCEPT ![s] =
                    (IF req[s].op = "getmore" THEN @ \ {req[s].cid} ELSE @)
                    \cup (IF keep THEN {cursor} ELSE {})]
     /\ pc' = [pc EXCEPT ![s] = "post"]
  /\ UNCHANGED <<nextId, cmap, req, fs, queries, failedQ>>

\* Deleting the datasources in `gone`.
Delete(gone) == [d \in Slots |-> IF d \in gone THEN NoDs ELSE dsv[d]]

\* Variant: the datasource is inserted without the isClosed() check.
QueryPostInsertingClosed(s) ==
  LET r == fs[s].ds
      o == req[s].d
      m == MapOf(s)
      id == dsv[r].id
  IN /\ pc[s] = "post" /\ req[s].op = "query"
     /\ dsv' = Delete((IF r # o THEN {o} ELSE {}) \cup ({cmap[m][id]} \ {0, r}))
     /\ cmap' = [cmap EXCEPT ![m][id] = r]
     /\ pc' = [pc EXCEPT ![s] = "idle"]
     /\ req' = [req EXCEPT ![s] = NoReq]
     /\ fs' = [fs EXCEPT ![s] = NoFeed]
  /\ UNCHANGED <<nextId, queries, known, lastReply, failedQ>>

\* After feed() in OP_QUERY: a stashed error replaces (deletes) the
\* original; a datasource not closed is inserted into the cursor map (the
\* map's previous entry for its id, if any, is deleted), a closed one is
\* deleted with the request's scope.
QueryPost(s) ==
  LET r == fs[s].ds
      o == req[s].d
      m == MapOf(s)
      id == dsv[r].id
      keep == ~dsv[r].closed
      gone == (IF r # o THEN {o} ELSE {})
              \cup (IF keep THEN {cmap[m][id]} \ {0, r} ELSE {r})
  IN /\ pc[s] = "post" /\ req[s].op = "query"
     /\ dsv' = Delete(gone)
     /\ cmap' = IF keep THEN [cmap EXCEPT ![m][id] = r] ELSE cmap
     /\ pc' = [pc EXCEPT ![s] = "idle"]
     /\ req' = [req EXCEPT ![s] = NoReq]
     /\ fs' = [fs EXCEPT ![s] = NoFeed]
  /\ UNCHANGED <<nextId, queries, known, lastReply, failedQ>>

\* Variant: a stashed error is never inserted; it dies with the scope and
\* the failed cursor stays in the map.
GetMorePostWithoutStash(s) ==
  LET r == fs[s].ds
      o == req[s].d
      m == MapOf(s)
      id == dsv[r].id
      entry == {cmap[m][id]} \ {0}
  IN /\ pc[s] = "post" /\ req[s].op = "getmore"
     /\ IF r = 0 THEN UNCHANGED <<dsv, cmap>>
        ELSE IF dsv[r].closed
        THEN /\ dsv' = Delete(entry \cup (IF r # o THEN {r} ELSE {}))
             /\ cmap' = [cmap EXCEPT ![m][id] = 0]
        ELSE /\ dsv' = Delete(IF r # o THEN {r} ELSE {})
             /\ UNCHANGED cmap
     /\ pc' = [pc EXCEPT ![s] = "idle"]
     /\ req' = [req EXCEPT ![s] = NoReq]
     /\ fs' = [fs EXCEPT ![s] = NoFeed]
  /\ UNCHANGED <<nextId, queries, known, lastReply, failedQ>>

\* After feed() in OP_GET_MORE: a closed datasource's id is erased from the
\* map (deleting its entry), a stashed error is inserted in place of the
\* cursor (deleting it), an open cursor stays; a stashed error that is not
\* inserted is deleted with the request's scope.
GetMorePost(s) ==
  LET r == fs[s].ds
      o == req[s].d
      m == MapOf(s)
      id == dsv[r].id
      entry == {cmap[m][id]} \ {0}
  IN /\ pc[s] = "post" /\ req[s].op = "getmore"
     /\ IF r = 0 THEN UNCHANGED <<dsv, cmap>>
        ELSE IF dsv[r].closed
        THEN /\ dsv' = Delete(entry \cup (IF r # o THEN {r} ELSE {}))
             /\ cmap' = [cmap EXCEPT ![m][id] = 0]
        ELSE IF r # o
        THEN /\ dsv' = Delete(entry \ {r})
             /\ cmap' = [cmap EXCEPT ![m][id] = r]
        ELSE UNCHANGED <<dsv, cmap>>
     /\ pc' = [pc EXCEPT ![s] = "idle"]
     /\ req' = [req EXCEPT ![s] = NoReq]
     /\ fs' = [fs EXCEPT ![s] = NoFeed]
  /\ UNCHANGED <<nextId, queries, known, lastReply, failedQ>>

\* OP_KILL_CURSORS (one id per request here): a cursor found is close()d
\* (BackendDatasource::doClose kills the server cursor) and erased, which
\* deletes it.
KillCursors(s) ==
  /\ pc[s] = "idle"
  /\ \E c \in 1..nextId :
       LET d == Find(MapOf(s), c) IN
       /\ known' = [known EXCEPT ![s] = @ \ {c}]
       /\ IF d # 0
          THEN /\ dsv' = Delete({d})
               /\ cmap' = [cmap EXCEPT ![MapOf(s)][c] = 0]
          ELSE UNCHANGED <<dsv, cmap>>
  /\ UNCHANGED <<nextId, pc, req, fs, queries, lastReply, failedQ>>

Next ==
  \E s \in Sessions :
    \/ Query(s) \/ GetMore(s) \/ FeedStep(s) \/ FeedEnd(s)
    \/ QueryPost(s) \/ GetMorePost(s) \/ KillCursors(s)

Spec == Init /\ [][Next]_vars

-----------------------------------------------------------------------------
TypeOK ==
  /\ dsv \in [Slots -> [kind : {"none", "backend", "err"}, id : 0..MaxIds,
                        buf : 0..ServerBatch, srv : 0..MaxDocs, closed : BOOLEAN,
                        q : 0..MaxQueries]]
  /\ nextId \in 0..MaxIds
  /\ cmap \in [Maps -> [Ids -> Slots \cup {0}]]
  /\ pc \in [Sessions -> {"idle", "feed", "post"}]
  /\ \A s \in Sessions : fs[s].cnt \in {Inf} \cup 0..MaxDocs
  /\ queries \in 0..MaxQueries
  /\ known \in [Sessions -> SUBSET Ids]
  /\ failedQ \subseteq 1..MaxQueries

\* Spec 2: a datasource is pooled in a cursor map or closed, never both:
\* every map entry is a live, unclosed datasource filed under its own id,
\* whenever no session of the map is between feed()'s reply (which closes
\* an exhausted cursor) and the erase or insert that follows it.
MapHoldsOpenCursors ==
  \A m \in Maps, c \in Ids :
    (\A s \in Sessions : MapOf(s) = m => pc[s] # "post") /\ cmap[m][c] # 0 =>
      LET d == cmap[m][c] IN Alive(d) /\ ~dsv[d].closed /\ dsv[d].id = c

\* Spec 8.8: feed() only reads a datasource that exists, is not closed and
\* whose get() is defined (not a backend whose requestMore failed).
CloseSafety ==
  \A s \in Sessions :
    pc[s] = "feed" /\ fs[s].ds # 0 =>
      LET d == fs[s].ds IN Alive(d) /\ ~dsv[d].closed /\ ~Broken(dsv[d])

\* Between requests, every cursor id a session's client was handed and has
\* not seen end or killed is still found by GET_MORE: replies, the error
\* stash and the map updates after feed() agree.
OpenCursorRetained ==
  \A s \in Sessions :
    pc[s] = "idle" => \A c \in known[s] : Find(MapOf(s), c) # 0

\* Spec 4.5: an error met while fetching is returned at once (nothing sent
\* yet) or stashed for the next GET_MORE, so a reply that ends a query's
\* cursor without QUERY_FAILURE never hides a failed fetch.
ErrorNotLost ==
  \A s \in Sessions :
    LET r == lastReply[s] IN
      r.q # 0 /\ r.cursor = 0 /\ ~r.fail => r.q \notin failedQ
=============================================================================
