---------------------------- MODULE AuthSession ----------------------------
(***************************************************************************)
(* Authentication of a session (src/src/auth.cpp, auth.h; the getnonce    *)
(* and authenticate branches of Session::command, src/src/session.cpp).    *)
(*                                                                         *)
(* CredentialsCache::parse turns a fetched credentials document into a map *)
(* keyed by (database, user); Privileges::auth looks the user up, checks   *)
(* the key and adds the user's roles to the session's masks.  A session   *)
(* is the fold of its commands over [nonce, issued, privs, log]; each      *)
(* authenticate command carries the document the cache holds when it     *)
(* runs, so a script covers every interleaving with the cache's refreshes. *)
(*                                                                         *)
(* A credentials document is [v, dbs]: the users of UserDocs[v] in the    *)
(* databases dbs.                                                          *)
(***************************************************************************)
EXTENDS Integers, Sequences, SequencesExt, FiniteSets, TLC

CONSTANTS
  DbOrder,      \* the database names in the order Config::databases() lists them
  UserDocs,     \* UserDocs[v][d]: database d's system.users in credentials version v
  AuthOn,       \* options().auth
  NonceSeq,     \* what successive mknonce() calls return (distinct: 64 random bits)
  Logins,       \* <<database, user, key>> a client may authenticate with
  Docs,         \* the credentials documents the cache may hold
  MaxCmds       \* bound on the commands of a session

NoNonce == "nononce"
NoKey == "nokey"
NoUser == [none |-> TRUE]

-----------------------------------------------------------------------------
(* Privileges (auth.h): a mask per database and a global mask.             *)

Privs == {"READ", "WRITE", "DB_ADMIN", "USER_ADMIN", "CLUSTER_ADMIN"}
NoPrivileges == [masks |-> [d \in ToSet(DbOrder) |-> {}], global |-> {}]

\* The roles applyRoles grants on its database, and those it grants
\* globally when that database is admin.
DbRoles ==
  ("read" :> {"READ"}) @@ ("readWrite" :> {"READ", "WRITE"}) @@ ("dbAdmin" :> {"DB_ADMIN"})
  @@ ("userAdmin" :> {"USER_ADMIN"}) @@ ("dbOwner" :> {"DB_ADMIN", "USER_ADMIN", "READ", "WRITE"})
AnyRoles ==
  ("clusterAdmin" :> {"CLUSTER_ADMIN"}) @@ ("readAnyDatabase" :> {"READ"})
  @@ ("readWriteAnyDatabase" :> {"READ", "WRITE"}) @@ ("userAdminAnyDatabase" :> {"USER_ADMIN"})
  @@ ("dbAdminAnyDatabase" :> {"DB_ADMIN"})

\* A role element is a string ([kind "str"]), an object {db, role}
\* ([kind "obj"]) or anything else ([kind "bad"], skipped with a warning).
RoleNames(roles) == {roles[i].role : i \in {j \in DOMAIN roles : roles[j].kind # "bad"}}

\* Privileges::applyRoles: every role names a database role, or (on the
\* admin database) an any-database role, or it throws ShardConfigBroken
\* and nothing is applied; the masks are added to database d (the role's
\* own db is read into localdb, which is not used) and to the global mask.
ApplyRoles(pv, d, roles) ==
  LET names == RoleNames(roles)
      isAdmin == d = "admin"
  IN
  IF \E n \in names : n \notin DOMAIN DbRoles /\ ~(isAdmin /\ n \in DOMAIN AnyRoles)
  THEN [ok |-> FALSE, pv |-> pv]
  ELSE [ok |-> TRUE,
        pv |-> [masks |-> [pv.masks EXCEPT ![d] = @ \cup UNION {DbRoles[n] : n \in names \cap DOMAIN DbRoles}],
                global |-> pv.global \cup
                           (IF isAdmin THEN UNION {AnyRoles[n] : n \in names \cap DOMAIN AnyRoles} ELSE {})]]

\* The otherDBRoles loop of Privileges::auth: applyRoles per database in
\* turn; a throw leaves the databases before it applied.
RECURSIVE ApplyOther(_, _)
ApplyOther(pv, other) ==
  IF other = <<>> THEN [ok |-> TRUE, pv |-> pv]
  ELSE LET r == ApplyRoles(pv, Head(other).db, Head(other).roles)
       IN IF r.ok THEN ApplyOther(r.pv, Tail(other)) ELSE r

\* Privileges::auth(db, obj) with the cache map m: no user, no stored key
\* (credentials.MONGODB-CR, else pwd) or a different key fails; a user
\* with roles gets them, a legacy user READ and, when readOnly is false or
\* 0, WRITE; then its otherDBRoles.  res is ok, fail, or error (a throw,
\* which leaves what was applied before it).
PrivAuth(pv, m, d, u, key) ==
  LET e == IF <<d, u>> \in DOMAIN m THEN m[<<d, u>>] ELSE NoUser
      stored == IF e = NoUser THEN NoKey ELSE IF e.cr # NoKey THEN e.cr ELSE e.pwd
      own == IF e # NoUser /\ e.hasRoles THEN ApplyRoles(pv, d, e.roles)
             ELSE [ok |-> TRUE,
                   pv |-> [pv EXCEPT !.masks[d] = @ \cup {"READ"} \cup
                                       (IF e.ro \in {"false", "0"} THEN {"WRITE"} ELSE {})]]
      other == ApplyOther(own.pv, e.other)
  IN CASE ~AuthOn -> [res |-> "ok", pv |-> pv]
       [] stored = NoKey \/ key # stored -> [res |-> "fail", pv |-> pv]
       [] ~own.ok -> [res |-> "error", pv |-> pv]
       [] ~other.ok -> [res |-> "error", pv |-> other.pv]
       [] OTHER -> [res |-> "ok", pv |-> other.pv]
-----------------------------------------------------------------------------
(* CredentialsCache::parse: the users of every fetched database, keyed by  *)
(* (database, user); a user of admin names its database in its db field.   *)
(* Only an admin entry replaces one already there.                         *)

\* What fetch() returns: <<database, user entry>> in database order.
Fetched(c) ==
  LET order == SelectSeq(DbOrder, LAMBDA d : d \in c.dbs)
  IN FlattenSeq([i \in DOMAIN order |->
                   [j \in DOMAIN UserDocs[c.v][order[i]] |-> <<order[i], UserDocs[c.v][order[i]][j]>>]])

EntryKey(p) == <<IF p[1] = "admin" /\ p[2].db # "" THEN p[2].db ELSE p[1], p[2].user>>

\* Variant: an entry already there is never replaced.
ParseFirstWins(c) ==
  FoldLeft(LAMBDA m, p : IF EntryKey(p) \in DOMAIN m THEN m ELSE (EntryKey(p) :> p[2]) @@ m,
           <<>>, Fetched(c))

Parse(c) ==
  FoldLeft(LAMBDA m, p : IF EntryKey(p) \in DOMAIN m /\ p[1] # "admin" THEN m ELSE (EntryKey(p) :> p[2]) @@ m,
           <<>>, Fetched(c))

-----------------------------------------------------------------------------
(* The session: nonce_, the number of mknonce() calls, privileges_, and    *)
(* (for the properties) the authenticate commands that succeeded.          *)

SessionInit == [nonce |-> NoNonce, issued |-> 0, privs |-> NoPrivileges, log |-> <<>>]

\* command("getnonce"): nonce_ = mknonce().
GetNonce(s) == [s EXCEPT !.nonce = NonceSeq[s.issued + 1], !.issued = @ + 1]

\* command("authenticate") on database d: an empty nonce_ or another nonce
\* is a "nonce mismatch" that changes nothing; otherwise nonce_ is
\* cleared, then Privileges::auth runs on what CredentialsCache::find
\* returns from the cache's map (doc); a throw or a failure leaves what
\* auth applied.
Authenticate(s, n, d, u, key, doc) ==
  IF s.nonce = NoNonce \/ s.nonce # n THEN s
  ELSE LET r == PrivAuth(s.privs, Parse(doc), d, u, key)
       IN [s EXCEPT !.nonce = NoNonce, !.privs = r.pv,
                    !.log = IF r.res = "ok" THEN Append(@, [n |-> n, d |-> d, u |-> u, doc |-> doc]) ELSE @]

\* A client's commands: getnonce, and authenticate with one of the nonces
\* mknonce returns, a login, and the document the cache then holds.
Cmds ==
  {[op |-> "getnonce"]}
  \cup {[op |-> "auth", n |-> n, d |-> l[1], u |-> l[2], key |-> l[3], doc |-> doc] :
          n \in ToSet(NonceSeq), l \in Logins, doc \in Docs}

SessionStep(s, c) ==
  IF c.op = "getnonce" THEN GetNonce(s) ELSE Authenticate(s, c.n, c.d, c.u, c.key, c.doc)

\* The sessions k commands or fewer reach (getnonce at most Len(NonceSeq)
\* times).
RECURSIVE Sessions(_)
Sessions(k) ==
  IF k = 0 THEN {SessionInit}
  ELSE LET prev == Sessions(k - 1)
       IN prev \cup UNION {{SessionStep(s, c) : c \in {x \in Cmds : x.op = "getnonce" => s.issued < Len(NonceSeq)}} :
                            s \in prev}
Reached == Sessions(MaxCmds)

-----------------------------------------------------------------------------
(* Properties.                                                             *)

\* What a user document grants in MongoDB: a role string on the user's
\* database, a {role, db} on db; the any-database roles and clusterAdmin
\* only on admin, globally; a legacy user READ, and WRITE unless readOnly;
\* otherDBRoles only for a user of admin.
RefRoles(roles, d) ==
  LET valid == {i \in DOMAIN roles : roles[i].kind # "bad"}
      target(i) == IF roles[i].kind = "obj" THEN roles[i].db ELSE d
  IN [masks |-> [x \in ToSet(DbOrder) |->
                   UNION {DbRoles[roles[i].role] : i \in {j \in valid : target(j) = x /\ roles[j].role \in DOMAIN DbRoles}}],
      global |-> UNION {AnyRoles[roles[i].role] :
                          i \in {j \in valid : target(j) = "admin" /\ roles[j].role \in DOMAIN AnyRoles}}]
RefGrants(e, d) ==
  LET own == IF e.hasRoles THEN RefRoles(e.roles, d)
             ELSE [masks |-> [x \in ToSet(DbOrder) |->
                                IF x = d THEN {"READ"} \cup (IF e.ro \in {"false", "0"} THEN {"WRITE"} ELSE {}) ELSE {}],
                   global |-> {}]
      others == IF d = "admin" THEN {RefRoles(e.other[k].roles, e.other[k].db) : k \in DOMAIN e.other} ELSE {}
  IN [masks |-> [x \in ToSet(DbOrder) |-> own.masks[x] \cup UNION {o.masks[x] : o \in others}],
      global |-> own.global \cup UNION {o.global : o \in others}]

\* The session holds a privilege only when an authenticate command that
\* succeeded granted it: the user document the cache held for that
\* (database, user) when the command ran grants it as MongoDB defines
\* roles, and a failed or throwing authenticate grants nothing.
PrivilegesProvenChecked ==
  \A s \in Reached :
    LET granted == {RefGrants(Parse(s.log[i].doc)[<<s.log[i].d, s.log[i].u>>], s.log[i].d) : i \in DOMAIN s.log}
    IN /\ \A x \in ToSet(DbOrder) : s.privs.masks[x] \subseteq UNION {g.masks[x] : g \in granted}
       /\ s.privs.global \subseteq UNION {g.global : g \in granted}

\* parse keys each user by its database, and for a user that admin's
\* system.users holds for a database the cache keeps that entry (the
\* last one); otherwise the database's own first entry.
ParseCorrectChecked ==
  \A c \in Docs :
    LET f == Fetched(c)
        m == Parse(c)
        adm(k) == {i \in DOMAIN f : f[i][1] = "admin" /\ EntryKey(f[i]) = k}
        own(k) == {i \in DOMAIN f : f[i][1] # "admin" /\ EntryKey(f[i]) = k}
        pick(k) == IF adm(k) # {} THEN f[Max(adm(k))][2] ELSE f[Min(own(k))][2]
    IN /\ DOMAIN m = {EntryKey(f[i]) : i \in DOMAIN f}
       /\ \A k \in DOMAIN m : m[k] = pick(k)
=============================================================================
