--------------------------- MODULE MC_Credentials ---------------------------
(* Credentials with ConfigHolder's refresh loop and one ShardConfigStale  *)
(* retrier, the credentials cache's keepUpdating loop and one session's   *)
(* find() (the constructor's update() is the same code as find()'s and    *)
(* is left out: a third updater multiplies the states tenfold); and       *)
(* AuthSession's sessions over the documents that cache can hold.         *)
EXTENDS Credentials, AuthSession

CONSTANTS keep, stale, ckeep, find, n1, n2, k1, k2

MCUpdaters == {keep, stale}
MCCUpdaters == {ckeep, find}

\* "Sales" sorts before "admin" (std::string order); Config version 1
\* lists only admin.
MCDbOrder == <<"Sales", "admin">>
MCDbsOf == [c \in 0..3 |-> IF c >= 2 THEN {"Sales", "admin"} ELSE {"admin"}]

\* A user document; a legacy one (ro set) has no roles field.
User(u, db, cr, pwd, roles, ro, other) ==
  [user |-> u, db |-> db, cr |-> cr, pwd |-> pwd, hasRoles |-> ro = "", roles |-> roles, ro |-> ro, other |-> other]
Str(r) == [kind |-> "str", db |-> "", role |-> r]
Obj(d, r) == [kind |-> "obj", db |-> d, role |-> r]
Bad == [kind |-> "bad", db |-> "", role |-> ""]

\* admin: root (clusterAdmin, readWrite, with read on Sales in
\* otherDBRoles), and eve of Sales in the 2.6 form; Sales: eve in the
\* legacy form (replaced by admin's), and bob, whose clusterAdmin is not
\* a role of Sales.  In version 2 root's password has changed and eve
\* has lost her admin entry.
Root(k) == User("root", "", k, NoKey, <<Str("clusterAdmin"), Str("readWrite"), Bad>>, "", <<[db |-> "Sales", roles |-> <<Str("read")>>]>>)
EveAdmin == User("eve", "Sales", k1, NoKey, <<Obj("Sales", "readWrite")>>, "", <<>>)
EveLegacy == User("eve", "", NoKey, k2, <<>>, "true", <<>>)
Bob == User("bob", "", NoKey, k1, <<Str("read"), Str("clusterAdmin")>>, "", <<>>)

MCUserDocs ==
  <<[d \in {"Sales", "admin"} |-> IF d = "admin" THEN <<Root(k1), EveAdmin>> ELSE <<EveLegacy, Bob>>],
    [d \in {"Sales", "admin"} |-> IF d = "admin" THEN <<Root(k2)>> ELSE <<EveLegacy, Bob>>]>>

MCNonceSeq == <<n1, n2>>
MCLogins == {<<"Sales", "bob", k1>>, <<"admin", "root", k1>>, <<"Sales", "eve", k1>>, <<"Sales", "eve", k2>>}
MCDocs == CredDocs \ {NoCred}
\* The session checks of AuthSession hold over every document the cache
\* and the file take in this run.
SessionDocsCovered == {cred, credDisk} \ {NoCred} \subseteq Docs

\* Every privilege a session holds (applyRoles, the legacy masks,
\* otherDBRoles) was granted, by MongoDB's reading of the user document,
\* to a user the session authenticated as, in the document the cache held
\* at that authenticate.
PrivilegesProven == PrivilegesProvenChecked /\ SessionDocsCovered

\* CredentialsCache::parse keys every fetched user by its database (an
\* admin entry by its db field) and an admin entry wins over a database's
\* own, on every document the cache holds.
ParseCorrect == ParseCorrectChecked /\ SessionDocsCovered

\* Version 1's shards table lists the replica set "rs/h1,h2"; versions 2
\* and 3 list the same hosts as a sync group "h1,h2".
MCConnRS == <<"rs", "/", "h1", ",", "h2">>
MCConnSync == <<"h1", ",", "h2">>
MCConns == {MCConnRS, MCConnSync}
MCConnOf == [v \in 1..3 |-> IF v = 1 THEN MCConnRS ELSE MCConnSync]

\* Shard::make parses every connection string of spec §3's forms over
\* the set name rs and hosts h1, h2 (up to three hosts) as the form says,
\* no string of up to five tokens makes it throw, and every Shard the pool
\* interned has the kind its string's form names.
MakeCorrectChecked ==
  MakeAgreesWithSpec({"rs"}, {"h1", "h2"}, 3) /\ MakeTotal({"rs", "h1", "/", ","}, 5)
MakeCorrect ==
  /\ MakeCorrectChecked
  /\ \A c \in MCConns :
       pool[c] # NoShard => pool[c].kind = IF c = MCConnRS THEN "ReplicaSet" ELSE "Sync"

\* Two admin users the code grants more than MongoDB would: ops, whose
\* role is readWrite on Sales ({role, db} form), and root2, whose
\* otherDBRoles {Sales: [read], admin: [root]} names "root", no role
\* applyRoles knows, after read on Sales.
Ops == User("ops", "", k1, NoKey, <<Obj("Sales", "readWrite")>>, "", <<>>)
RootOther == User("root2", "", k1, NoKey, <<Str("read")>>, "",
                  <<[db |-> "Sales", roles |-> <<Str("read")>>], [db |-> "admin", roles |-> <<Str("root")>>]>>)
MCUserDocsOverGrant ==
  [v \in 1..2 |-> [d \in {"Sales", "admin"} |-> IF d = "admin" THEN <<Ops, RootOther>> ELSE <<>>]]
MCLoginsOverGrant == {<<"admin", "ops", k1>>, <<"admin", "root2", k1>>}
=============================================================================
