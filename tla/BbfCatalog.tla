----------------------------- MODULE BbfCatalog -----------------------------
(***************************************************************************)
(* Logical databases, logins, users and roles: the T-SQL statements that   *)
(* change babelfish_sysdatabases, babelfish_authid_login_ext,              *)
(* babelfish_authid_user_ext, babelfish_namespace_ext and                  *)
(* babelfish_schema_permissions together with the PostgreSQL roles and     *)
(* role memberships behind them (dbcmds.c, rolecmds.c, catalog.c,          *)
(* pl_handler.c, pl_exec-2.c).                                             *)
(*                                                                         *)
(* Every statement runs in a transaction of its own, so one statement is   *)
(* one action, issued by a login from a database it may use; a statement   *)
(* that raises an error changes nothing and is not a step.  A principal is *)
(* a physical role name: the pair of its database and its name, or a third *)
(* component for the internal role "<user>_bbfobj" that owns the objects   *)
(* of a member of db_owner.                                                *)
(***************************************************************************)
EXTENDS Integers, Sequences, FiniteSets

CONSTANTS Scopes,    \* what a behaviour is about: mode, names and statements
          MaxDbid    \* the last value of the sequence of database ids

VARIABLES scope,     \* the scope of this behaviour, chosen at the start
          sysdb,     \* babelfish_sysdatabases
          seq,       \* last value of babelfish_db_seq
          logins,    \* babelfish_authid_login_ext, with the server roles held
          users,     \* babelfish_authid_user_ext
          roles,     \* pg_authid
          mem,       \* pg_auth_members: pairs of member and role
          ns,        \* babelfish_namespace_ext and pg_namespace
          perms      \* babelfish_schema_permissions, the rows of schemas

vars == <<scope, sysdb, seq, logins, users, roles, mem, ns, perms>>

None == <<"none">>
Sa == "sa"
Builtin == {"master"}
Reserved == 1..4
Fixed == {"dbo", "db_owner", "db_accessadmin", "db_securityadmin"}

Login(l) == <<"login", l>>
Server(r) == <<"server", r>>
Sysadmin == Server("sysadmin")

-----------------------------------------------------------------------------
(* Names. *)

\* get_physical_user_name: fixed principals of the one user database of
\* single-db mode carry no prefix.
Phys(d, n) == IF scope.mode = "single" /\ d \notin Builtin /\ n \in Fixed
                THEN <<"", n>> ELSE <<d, n>>

\* get_physical_schema_name
PhysSchema(d, s) == IF scope.mode = "single" /\ d \notin Builtin
                      THEN <<"", s>> ELSE <<d, s>>

\* get_obj_role
Obj(u) == <<u[1], u[2], "bbfobj">>

Databases == {r.name : r \in sysdb}
Db(d) == CHOOSE r \in sysdb : r.name = d
Dbid(d) == Db(d).dbid
Owner(d) == Db(d).owner
LoginNames == {r.name : r \in logins}
UsersOf(d) == {r \in users : r.db = d}

-----------------------------------------------------------------------------
(* Memberships. *)

RECURSIVE Supers(_, _)
Supers(S, m) ==
    LET up == S \cup {p[2] : p \in {q \in m : q[1] \in S}}
    IN  IF up = S THEN S ELSE Supers(up, m)

\* is_member_of_role and, every membership being inherited, has_privs_of_role
MemberIn(r, of, m) == of \in Supers({r}, m)
MemberOf(r, of) == MemberIn(r, of, mem)

\* GRANT role TO member: PostgreSQL refuses a loop of memberships.
Grantable(of, r, m) == r # of /\ ~ MemberIn(of, r, m)

IsSysadmin(l) == MemberOf(Login(l), Sysadmin)
HasServerRole(l, r) == IsSysadmin(l) \/ MemberOf(Login(l), Server(r))
IsDbOwner(r, d) == MemberOf(r, Phys(d, "db_owner"))

\* GRANT and REVOKE of a role to a login; the login sa is left out.
GrantTo(l, r) == IF l = Sa THEN {} ELSE {<<Login(l), r>>}

-----------------------------------------------------------------------------
(* The user a login acts as in a database. *)

Mapped(l, d) == {r \in UsersOf(d) : r.login = l}

\* user_has_dbaccess
HasDbAccess(r) == r.connect \/ MemberOf(r.rolname, Phys(r.db, "db_accessadmin"))

\* guest_has_dbaccess
GuestEnabled(d) == \E r \in UsersOf(d) : r.orig = "guest" /\ r.connect

\* get_user_for_database before its last test
Candidate(l, d) ==
    LET open == {r \in Mapped(l, d) : HasDbAccess(r) \/ GuestEnabled(d)}
    IN  IF open # {} THEN (CHOOSE r \in open : TRUE).rolname
        ELSE IF IsSysadmin(l) \/ Owner(d) = l THEN Phys(d, "dbo")
        ELSE IF GuestEnabled(d) THEN Phys(d, "guest")
        ELSE None

\* get_user_for_database
UserFor(l, d) ==
    LET u == Candidate(l, d)
    IN  IF u # None /\ (MemberOf(Login(l), u) \/ Owner(d) = l) THEN u ELSE None

-----------------------------------------------------------------------------
(* Databases. *)

Later(i) == {j \in (i + 1)..MaxDbid : j \notin Reserved}
Smallest(S) == CHOOSE x \in S : \A y \in S : x <= y

FreeIds == {i \in 1..MaxDbid : i \notin Reserved /\ \A r \in sysdb : r.dbid # i}

\* getAvailDbid: the next value of the sequence that no database uses
NextDbid == IF FreeIds \cap Later(seq) # {} THEN Smallest(FreeIds \cap Later(seq))
                                            ELSE Smallest(FreeIds)

MayCreate(l, n) ==
    /\ HasServerRole(l, "dbcreator")
    /\ scope.mode = "single" => \A r \in sysdb : r.dbid \in Reserved

\* add_fixed_user_roles_to_bbf_authid_user_ext
FixedRows(n) ==
    {[rolname |-> Phys(n, x), orig |-> x, db |-> n, login |-> "",
      type |-> IF x \in {"dbo", "guest"} THEN "S" ELSE "R",
      connect |-> x \in {"dbo", "db_owner", "db_accessadmin"} \/ (x = "guest" /\ n \in Builtin)]
     : x \in Fixed \cup {"guest"}}

\* gen_createdb_subcmds: the memberships of a new database
FixedMem(n, owner, names) ==
    {<<Phys(n, "dbo"), Phys(n, "db_owner")>>, <<Sysadmin, Phys(n, "dbo")>>,
     <<Sysadmin, Phys(n, "guest")>>}
    \cup {<<Phys(n, "db_owner"), Phys(n, x)>> : x \in {"db_accessadmin", "db_securityadmin", "guest"}}
    \cup GrantTo(owner, Phys(n, "dbo"))
    \cup UNION {GrantTo(l, Phys(n, "guest")) : l \in names}

FixedSchemas(n, id) ==
    {[nspname |-> PhysSchema(n, "dbo"), dbid |-> id, orig |-> "dbo", owner |-> Phys(n, "db_owner")],
     [nspname |-> PhysSchema(n, "guest"), dbid |-> id, orig |-> "guest", owner |-> Phys(n, "guest")]}

FixedRoles(n) == {Phys(n, x) : x \in Fixed \cup {"guest"}}

CreateDatabase(l, n) ==
    /\ n \notin Databases
    /\ FreeIds # {}
    /\ MayCreate(l, n)
    /\ FixedRoles(n) \cap roles = {}
    /\ sysdb' = sysdb \cup {[dbid |-> NextDbid, name |-> n, owner |-> l]}
    /\ seq' = NextDbid
    /\ users' = users \cup FixedRows(n)
    /\ roles' = roles \cup FixedRoles(n)
    /\ mem' = mem \cup FixedMem(n, l, LoginNames)
    /\ ns' = ns \cup FixedSchemas(n, NextDbid)
    /\ UNCHANGED <<logins, perms>>

\* A CREATE DATABASE that is refused has already advanced the sequence,
\* which is not transactional.
CreateDatabaseRefused(l, n) ==
    /\ n \notin Databases
    /\ FreeIds # {}
    /\ ~ MayCreate(l, n)
    /\ seq' = NextDbid
    /\ UNCHANGED <<sysdb, logins, users, roles, mem, ns, perms>>

\* get_authid_user_ext_db_users: with a user that is a member of db_owner
\* goes its internal role
DbUsers(n) ==
    LET named == {r.rolname : r \in UsersOf(n)}
    IN  named \cup {Obj(u) : u \in {v \in named : IsDbOwner(v, n)
                                       /\ v \notin {Phys(n, "dbo"), Phys(n, "db_owner")}}}

Without(R) == {p \in mem : p[1] \notin R /\ p[2] \notin R}

MayDropDatabase(l, d, n) ==
    /\ n \in Databases \ Builtin
    /\ Dbid(n) # Dbid(d)
    /\ \/ IsDbOwner(Login(l), n)
       \/ HasServerRole(l, "dbcreator")
       \/ Owner(n) = l

\* Mutant of PermsAfterDrop: the permissions stay, for the next database with
\* this id.
PermsAfterDropAll(n) == perms

\* drop_bbf_schema_permission_entries
PermsAfterDrop(n) == {r \in perms : r.dbid # Dbid(n)}

\* drop_bbf_db; every role it lists must exist
DropDatabase(l, d, n) ==
    LET gone == DbUsers(n)
    IN  /\ MayDropDatabase(l, d, n)
        /\ gone \subseteq roles
        /\ sysdb' = sysdb \ {Db(n)}
        /\ roles' = roles \ gone
        /\ mem' = Without(gone)
        /\ ns' = {r \in ns : r.dbid # Dbid(n)}
        /\ users' = {r \in users : r.rolname \notin gone}
        /\ perms' = PermsAfterDrop(n)
        /\ UNCHANGED <<seq, logins>>

\* ALTER ROLE ... RENAME TO, in everything that refers to the role by its OID
Rename(f, S) == {IF r \in DOMAIN f THEN f[r] ELSE r : r \in S}
RenamePg(f) ==
    /\ roles' = Rename(f, roles)
    /\ mem' = {<<IF p[1] \in DOMAIN f THEN f[p[1]] ELSE p[1],
                 IF p[2] \in DOMAIN f THEN f[p[2]] ELSE p[2]>> : p \in mem}

\* update_babelfish_authid_user_ext_rename_db: the roles a rename of the
\* database renames
RenamedRoles(o, n) ==
    LET named == {r \in UsersOf(o) : Phys(o, r.orig) # Phys(n, r.orig)}
        new(p) == IF Len(p) = 3 THEN <<n, p[2], "bbfobj">> ELSE <<n, p[2]>>
    IN  [p \in {Phys(o, r.orig) : r \in named}
                \cup {q \in DbUsers(o) : Len(q) = 3 /\ q \in roles} |-> new(p)]

\* update_sysdatabases_db_name
RenamedDb(o, n) == {[r EXCEPT !.name = IF @ = o THEN n ELSE @] : r \in sysdb}

\* update_babelfish_namespace_ext_rename_db; the owners follow their roles
RenamedSchemas(o, n, f) ==
    {IF r.dbid = Dbid(o)
       THEN [r EXCEPT !.nspname = PhysSchema(n, r.orig), !.owner = IF @ \in DOMAIN f THEN f[@] ELSE @]
       ELSE r : r \in ns}

\* update_babelfish_authid_login_ext_rename_db
RenamedDefaults(o, n) == {[r EXCEPT !.defdb = IF @ = o THEN n ELSE @] : r \in logins}

\* rename_tsql_db
RenameDatabase(l, o, n) ==
    LET f == RenamedRoles(o, n)
    IN  /\ o \in Databases \ Builtin
        /\ n \notin Databases
        /\ IsSysadmin(l) \/ (HasServerRole(l, "dbcreator") /\ UserFor(l, o) # None)
        /\ {f[p] : p \in DOMAIN f} \cap roles = {}
        /\ sysdb' = RenamedDb(o, n)
        /\ ns' = RenamedSchemas(o, n, f)
        /\ users' = {IF r.db = o THEN [r EXCEPT !.db = n, !.rolname = Phys(n, r.orig)] ELSE r : r \in users}
        /\ RenamePg(f)
        /\ logins' = RenamedDefaults(o, n)
        /\ UNCHANGED <<seq, perms>>

\* update_db_owner
WithOwner(n, o) == (sysdb \ {Db(n)}) \cup {[Db(n) EXCEPT !.owner = o]}

\* exec_stmt_change_dbowner
ChangeOwner(l, n, o) ==
    /\ n \in Databases \ Builtin
    /\ o \in LoginNames
    /\ \/ /\ o = l /\ Owner(n) = l
          /\ UNCHANGED <<sysdb, mem>>
       \/ /\ ~ (o = l /\ Owner(n) = l)
          /\ IsSysadmin(l)
          /\ Mapped(o, n) = {}
          /\ mem' = (mem \ GrantTo(Owner(n), Phys(n, "dbo"))) \cup GrantTo(o, Phys(n, "dbo"))
          /\ sysdb' = WithOwner(n, o)
    /\ UNCHANGED <<seq, logins, users, roles, ns, perms>>

-----------------------------------------------------------------------------
(* Logins. *)

\* The checks of CREATE LOGIN
MayCreateLogin(l, n) == HasServerRole(l, "securityadmin") /\ Login(n) \notin roles

\* grant_guests_to_login
Guests == {Phys(x, "guest") : x \in Databases}

\* CREATE LOGIN, create_bbf_authid_login_ext
CreateLogin(l, n, d) ==
    /\ MayCreateLogin(l, n)
    /\ d \in Databases
    /\ logins' = logins \cup {[name |-> n, defdb |-> d]}
    /\ roles' = roles \cup {Login(n)}
    /\ mem' = mem \cup {<<Login(n), g>> : g \in Guests}
    /\ UNCHANGED <<sysdb, seq, users, ns, perms>>

MayAlterLogin(l, n) ==
    /\ n \in LoginNames
    /\ IsSysadmin(l) \/ (HasServerRole(l, "securityadmin") /\ ~ IsSysadmin(n))

\* ALTER LOGIN ... WITH DEFAULT_DATABASE, alter_bbf_authid_login_ext
AlterLogin(l, n, d) ==
    /\ MayAlterLogin(l, n)
    /\ d \in Databases
    /\ logins' = {IF r.name = n THEN [r EXCEPT !.defdb = d] ELSE r : r \in logins}
    /\ UNCHANGED <<sysdb, seq, users, roles, mem, ns, perms>>

IsDatabaseOwner(n) == \E r \in sysdb : r.owner = n

\* A login in use, or that owns a database, stays
MayDropLogin(l, n) ==
    /\ HasServerRole(l, "securityadmin")
    /\ n \in LoginNames \ {l}
    /\ ~ IsDatabaseOwner(n)

\* DROP LOGIN, drop_bbf_authid_login_ext
DropLogin(l, n) ==
    /\ MayDropLogin(l, n)
    /\ logins' = {r \in logins : r.name # n}
    /\ users' = {[r EXCEPT !.login = IF @ = n THEN "" ELSE @] : r \in users}
    /\ roles' = roles \ {Login(n)}
    /\ mem' = Without({Login(n)})
    /\ UNCHANGED <<sysdb, seq, ns, perms>>

HasUserInDb(n) == \E u \in users : u.login = n

\* check_alter_server_stmt: the last sysadmin stays, and none has a user
MayAlterServerRole(l, r, n, add) ==
    /\ n \in LoginNames \ {Sa}
    /\ IsSysadmin(l) \/ (r # "sysadmin" /\ HasServerRole(l, r))
    /\ add /\ r = "sysadmin" => ~ HasUserInDb(n)
    /\ r = "sysadmin" => {p \in mem : p[2] = Sysadmin} # {<<Login(n), Sysadmin>>}

\* ALTER SERVER ROLE ... ADD MEMBER
AddServerRole(l, r, n) ==
    /\ MayAlterServerRole(l, r, n, TRUE)
    /\ mem' = mem \cup {<<Login(n), Server(r)>>}
    /\ UNCHANGED <<sysdb, seq, logins, users, roles, ns, perms>>

\* ALTER SERVER ROLE ... DROP MEMBER
DropServerRole(l, r, n) ==
    /\ MayAlterServerRole(l, r, n, FALSE)
    /\ mem' = mem \ {<<Login(n), Server(r)>>}
    /\ UNCHANGED <<sysdb, seq, logins, users, roles, ns, perms>>

-----------------------------------------------------------------------------
(* Users and roles of the current database d, for the login l. *)

Holds(l, d, r) == MemberOf(UserFor(l, d), Phys(d, r))
Principal(d, n) == {r \in UsersOf(d) : r.orig = n}
Kind(d, n, k) == \E r \in Principal(d, n) : r.type = k

Row(d, n, g, k) == [rolname |-> Phys(d, n), orig |-> n, db |-> d, login |-> g,
                    type |-> k, connect |-> TRUE]

\* verify_login_for_bbf_authid_user_ext
LoginFree(g, d) == g \in LoginNames /\ Mapped(g, d) = {} /\ Owner(d) # g

\* Members of db_owner belong to both administrator roles
Admin(k) == IF k = "S" THEN "db_accessadmin" ELSE "db_securityadmin"
MayCreatePrincipal(l, d, n, k) == Holds(l, d, Admin(k)) /\ Phys(d, n) \notin roles

\* CREATE USER, create_bbf_authid_user_ext
CreateUser(l, d, n, g) ==
    /\ MayCreatePrincipal(l, d, n, "S")
    /\ LoginFree(g, d)
    /\ ~ IsSysadmin(g)
    /\ roles' = roles \cup {Phys(d, n)}
    /\ mem' = (mem \ GrantTo(g, Phys(d, "guest")))
                 \cup {<<Login(g), Phys(d, n)>>, <<Phys(d, "db_owner"), Phys(d, n)>>}
    /\ users' = users \cup {Row(d, n, g, "S")}
    /\ UNCHANGED <<sysdb, seq, logins, ns, perms>>

\* CREATE ROLE
CreateRole(l, d, n) ==
    /\ MayCreatePrincipal(l, d, n, "R")
    /\ roles' = roles \cup {Phys(d, n)}
    /\ mem' = mem \cup {<<Phys(d, "db_owner"), Phys(d, n)>>}
    /\ users' = users \cup {Row(d, n, "", "R")}
    /\ UNCHANGED <<sysdb, seq, logins, ns, perms>>


\* drop_db_owner_related_roles, and the role itself
RolesOf(d, u) == {u} \cup (IF IsDbOwner(u, d) THEN {Obj(u)} ELSE {})

\* Mutant of BackToGuest: the login of a dropped user stays without a user.
BackToGuestNever(d, n) == {}

\* The logins of a dropped user become guests again
BackToGuest(d, n) ==
    UNION {GrantTo(g, Phys(d, "guest")) : g \in {r.login : r \in Principal(d, n)} \ {""}}

\* DROP ROLE of PostgreSQL with the hooks of drop_bbf_authid_user_ext and
\* bbf_shdep_drop_owned_dependent_acl: the owner of a schema stays
DropPrincipal(d, n) ==
    LET u == Phys(d, n)
        gone == RolesOf(d, u)
    IN  /\ gone \subseteq roles
        /\ \A r \in ns : r.owner \notin gone
        /\ roles' = roles \ gone
        /\ mem' = Without(gone) \cup BackToGuest(d, n)
        /\ users' = {r \in users : r.rolname # u}
        /\ perms' = {r \in perms : r.grantee # u}
        /\ UNCHANGED <<sysdb, seq, logins, ns>>

MayDrop(l, d, n, k) ==
    /\ n \notin Fixed \cup {"guest"}
    /\ Kind(d, n, k)
    /\ Holds(l, d, Admin(k))

\* DROP USER
DropUser(l, d, n) ==
    /\ MayDrop(l, d, n, "S")
    /\ DropPrincipal(d, n)

\* is_empty_role
Members(d, n) == {p[1] : p \in {q \in mem : q[2] = Phys(d, n)}} \ {Phys(d, "db_owner")}

\* DROP ROLE: only an empty role
DropRole(l, d, n) ==
    /\ MayDrop(l, d, n, "R")
    /\ Members(d, n) = {}
    /\ DropPrincipal(d, n)

\* ALTER USER ... WITH LOGIN, alter_bbf_authid_user_ext
AlterUserLogin(l, d, n, g) ==
    LET row == CHOOSE r \in Principal(d, n) : TRUE
        u == Phys(d, n)
        old == IF row.login = "" THEN {} ELSE GrantTo(row.login, u)
        back == IF row.login = "" THEN {} ELSE GrantTo(row.login, Phys(d, "guest"))
    IN  /\ n \notin Fixed \cup {"guest"}
        /\ Kind(d, n, "S")
        /\ Holds(l, d, "db_owner")
        /\ LoginFree(g, d)
        /\ mem' = (((mem \cup {<<Login(g), u>>}) \ old) \cup back) \ GrantTo(g, Phys(d, "guest"))
        /\ users' = (users \ {row}) \cup {[row EXCEPT !.login = g]}
        /\ UNCHANGED <<sysdb, seq, logins, roles, ns, perms>>

MayRename(l, d, n) ==
    /\ n \notin Fixed \cup {"guest"}
    /\ Principal(d, n) # {}
    /\ \/ Holds(l, d, "db_owner")
       \/ \E row \in Principal(d, n) : ~ IsDbOwner(row.rolname, d) /\ Holds(l, d, Admin(row.type))

\* ALTER USER or ALTER ROLE ... WITH NAME, alter_bbf_authid_user_ext
AlterName(l, d, n, m) ==
    LET row == CHOOSE r \in Principal(d, n) : TRUE
        u == Phys(d, n)
        new == Phys(d, m)
        f == [r \in RolesOf(d, u) |-> IF r = u THEN new ELSE Obj(new)]
    IN  /\ MayRename(l, d, n)
        /\ DOMAIN f \subseteq roles
        /\ {f[r] : r \in DOMAIN f} \cap roles = {}
        /\ RenamePg(f)
        /\ users' = (users \ {row}) \cup {[row EXCEPT !.rolname = new, !.orig = m]}
        /\ ns' = {[r EXCEPT !.owner = IF @ \in DOMAIN f THEN f[@] ELSE @] : r \in ns}
        /\ UNCHANGED <<sysdb, seq, logins, perms>>

-----------------------------------------------------------------------------
(* ALTER ROLE ... ADD and DROP MEMBER. *)

\* check_alter_role_stmt
MayAlterRole(l, d, r, n) ==
    \/ Holds(l, d, "db_owner")
    \/ /\ r \notin Fixed
       /\ \/ Holds(l, d, "db_securityadmin")
          \/ MemberOf(Login(l), Phys(d, r)) /\ UserFor(l, d) # Phys(d, n)

AlterableRole(l, d, r, n) ==
    /\ Kind(d, r, "R")
    /\ Principal(d, n) # {}
    /\ n \notin Fixed \cup {"guest"}
    /\ MayAlterRole(l, d, r, n)

Reown(from, to) == {[r EXCEPT !.owner = IF @ = from THEN to ELSE @] : r \in ns}

AddMember(l, d, r, n) ==
    /\ r # "db_owner"
    /\ AlterableRole(l, d, r, n)
    /\ Grantable(Phys(d, r), Phys(d, n), mem)
    /\ mem' = mem \cup {<<Phys(d, n), Phys(d, r)>>}
    /\ UNCHANGED <<sysdb, seq, logins, users, roles, ns, perms>>

DropMember(l, d, r, n) ==
    /\ r # "db_owner"
    /\ AlterableRole(l, d, r, n)
    /\ mem' = mem \ {<<Phys(d, n), Phys(d, r)>>}
    /\ UNCHANGED <<sysdb, seq, logins, users, roles, ns, perms>>

\* gen_alter_dbowner_add_subcmds: the internal role takes over what the new
\* member owns; db_owner stops being a member of the user before the user
\* becomes a member of db_owner
AddDbOwner(l, d, n) ==
    LET u == Phys(d, n)
        o == Phys(d, "db_owner")
        turned == (mem \ {<<o, u>>}) \cup {<<o, Obj(u)>>, <<u, Obj(u)>>}
    IN  /\ AlterableRole(l, d, "db_owner", n)
        /\ ~ IsDbOwner(u, d)
        /\ Obj(u) \notin roles
        /\ Grantable(o, u, turned)
        /\ Grantable(Phys(d, "dbo"), u, turned \cup {<<u, o>>})
        /\ roles' = roles \cup {Obj(u)}
        /\ mem' = turned \cup {<<u, o>>, <<u, Phys(d, "dbo")>>}
        /\ ns' = Reown(u, Obj(u))
        /\ UNCHANGED <<sysdb, seq, logins, users, perms>>

\* gen_alter_dbowner_drop_subcmds
DropDbOwner(l, d, n) ==
    LET u == Phys(d, n)
        o == Phys(d, "db_owner")
        left == mem \ {<<u, o>>, <<u, Phys(d, "dbo")>>}
    IN  /\ AlterableRole(l, d, "db_owner", n)
        /\ IsDbOwner(u, d)
        /\ Obj(u) \in roles
        /\ Grantable(u, o, left)
        /\ roles' = roles \ {Obj(u)}
        /\ mem' = {p \in left \cup {<<o, u>>} : Obj(u) \notin {p[1], p[2]}}
        /\ ns' = Reown(Obj(u), u)
        /\ UNCHANGED <<sysdb, seq, logins, users, perms>>

-----------------------------------------------------------------------------
(* Access to the database, schemas and permissions on them. *)

\* exec_stmt_grantdb, alter_user_can_connect: GRANT and REVOKE CONNECT; and
\* DROP USER guest, which only closes the database to guests
SetConnect(l, d, n, c) ==
    /\ n \notin {"dbo", "db_owner"}
    /\ Principal(d, n) # {}
    /\ \/ HasServerRole(l, "securityadmin") \/ Owner(d) = l
       \/ n = "guest" /\ ~ c /\ GuestEnabled(d) /\ Holds(l, d, "db_accessadmin")
    /\ n = "guest" /\ d \in Builtin => c
    /\ users' = {IF r.db = d /\ r.orig = n THEN [r EXCEPT !.connect = c] ELSE r : r \in users}
    /\ UNCHANGED <<sysdb, seq, logins, roles, mem, ns, perms>>

\* Mutant of SchemaOwner: the member of db_owner owns its schema itself.
SchemaOwnerNamed(d, n) == Phys(d, n)

\* The internal role owns the schema of a member of db_owner
SchemaOwner(d, n) ==
    IF IsDbOwner(Phys(d, n), d) /\ n \notin Fixed THEN Obj(Phys(d, n)) ELSE Phys(d, n)

\* CREATE SCHEMA ... AUTHORIZATION
CreateSchema(l, d, s, n) ==
    LET owner == SchemaOwner(d, n)
    IN  /\ Principal(d, n) # {}
        /\ Holds(l, d, "db_accessadmin") \/ Holds(l, d, "db_securityadmin")
        /\ \A r \in ns : r.nspname # PhysSchema(d, s)
        /\ owner \in roles
        /\ ns' = ns \cup {[nspname |-> PhysSchema(d, s), dbid |-> Dbid(d), orig |-> s, owner |-> owner]}
        /\ UNCHANGED <<sysdb, seq, logins, users, roles, mem, perms>>

Schema(d, s) == {r \in ns : r.dbid = Dbid(d) /\ r.orig = s}

\* DROP SCHEMA, clean_up_bbf_schema_permissions, del_ns_ext_info
DropSchema(l, d, s) ==
    /\ s \notin {"dbo", "guest"}
    /\ \E r \in Schema(d, s) : MemberOf(UserFor(l, d), r.owner)
    /\ ns' = ns \ Schema(d, s)
    /\ perms' = {r \in perms : ~ (r.dbid = Dbid(d) /\ r.schema = s)}
    /\ UNCHANGED <<sysdb, seq, logins, users, roles, mem>>

MayGrantSchema(l, d, s, n) ==
    /\ n \notin Fixed
    /\ Phys(d, n) \in roles
    /\ Phys(d, n) # UserFor(l, d)
    /\ \E r \in Schema(d, s) :
          /\ ~ MemberOf(Phys(d, n), r.owner)
          /\ \/ IsSysadmin(l)
             \/ Owner(d) = l
             \/ MemberOf(UserFor(l, d), r.owner)
             \/ Holds(l, d, "db_securityadmin")

\* exec_stmt_grantschema: GRANT and REVOKE on a schema
GrantSchema(l, d, s, n, grant) ==
    LET row == [dbid |-> Dbid(d), schema |-> s, grantee |-> Phys(d, n)]
    IN  /\ MayGrantSchema(l, d, s, n)
        /\ perms' = IF grant THEN perms \cup {row} ELSE perms \ {row}
        /\ UNCHANGED <<sysdb, seq, logins, users, roles, mem, ns>>

-----------------------------------------------------------------------------
InitIn(sc) ==
    /\ scope = sc
    /\ sysdb = {[dbid |-> 1, name |-> "master", owner |-> Sa]}
    /\ seq = 4
    /\ logins = {[name |-> Sa, defdb |-> "master"]}
    /\ users = FixedRows("master")
    /\ roles = FixedRoles("master") \cup {Login(Sa)}
    /\ mem = FixedMem("master", Sa, {Sa}) \cup {<<Login(Sa), Sysadmin>>}
    /\ ns = FixedSchemas("master", 1)
    /\ perms = {}
Init == \E sc \in Scopes : InitIn(sc)

On(k) == k \in scope.stmts

\* The statements that change databases and logins
ServerStmt(l, d) ==
    \/ On("database") /\ \E n \in scope.names :
          \/ CreateDatabase(l, n)
          \/ CreateDatabaseRefused(l, n)
          \/ DropDatabase(l, d, n)
    \/ On("rename") /\ \E o \in Databases, n \in scope.names : RenameDatabase(l, o, n)
    \/ On("owner") /\ \E n \in Databases, o \in LoginNames : ChangeOwner(l, n, o)
    \/ On("login") /\ \E n \in scope.logins :
          \/ \E x \in Databases : CreateLogin(l, n, x)
          \/ DropLogin(l, n)
    \/ On("default") /\ \E n \in LoginNames, x \in Databases : AlterLogin(l, n, x)
    \/ On("server") /\ \E n \in LoginNames, r \in scope.server :
          \/ AddServerRole(l, r, n)
          \/ DropServerRole(l, r, n)

\* The statements that change the principals of the current database
UserStmt(l, d) ==
    \/ On("user") /\ \E n \in scope.users :
          \/ \E g \in LoginNames : CreateUser(l, d, n, g)
          \/ DropUser(l, d, n)
    \/ On("role") /\ \E n \in scope.roles : CreateRole(l, d, n) \/ DropRole(l, d, n)
    \/ On("map") /\ \E n \in scope.users, g \in LoginNames : AlterUserLogin(l, d, n, g)
    \/ On("name") /\ \E n, m \in scope.users \cup scope.roles : AlterName(l, d, n, m)

Addable == scope.users \cup scope.roles
Joined == scope.roles \cup (Fixed \ {"dbo"})

MemberStmt(l, d) ==
    \/ On("member") /\ \E r \in Joined, n \in Addable :
          \/ AddMember(l, d, r, n)
          \/ DropMember(l, d, r, n)
    \/ On("member") /\ \E n \in Addable : AddDbOwner(l, d, n) \/ DropDbOwner(l, d, n)
    \/ On("connect") /\ \E n \in scope.users \cup {"guest"}, c \in BOOLEAN : SetConnect(l, d, n, c)
    \/ On("schema") /\ \E s \in scope.schemas :
          \/ \E n \in Addable \cup {"dbo"} : CreateSchema(l, d, s, n)
          \/ DropSchema(l, d, s)
    \/ On("grant") /\ \E s \in scope.schemas, n \in Addable, c \in BOOLEAN : GrantSchema(l, d, s, n, c)

\* A login runs statements in the databases it may use
Next == /\ \E l \in LoginNames, d \in Databases :
              /\ UserFor(l, d) # None
              /\ \/ ServerStmt(l, d)
                 \/ d \in scope.within /\ (UserStmt(l, d) \/ MemberStmt(l, d))
        /\ UNCHANGED scope

Spec == Init /\ [][Next]_vars

-----------------------------------------------------------------------------
(* Properties. *)

\* The rules of babelfish_inconsistent_metadata that link the catalogs to each
\* other and to PostgreSQL hold after every sequence of statements, a database
\* or login dropped and created again included: every user row names an
\* existing role of an existing database under the physical name of its logical
\* name and an existing login or none; there is no role besides those of the
\* rows, their internal roles and the logins; owners, memberships, schemas and
\* schema permissions refer to what exists, and ids of databases are unique.
CatalogsAgree ==
    LET known == {r.rolname : r \in users}
    IN  /\ \A r \in users : /\ r.db \in Databases
                            /\ r.rolname = Phys(r.db, r.orig)
                            /\ r.login \in LoginNames \cup {""}
        /\ known \subseteq roles
        /\ \A p \in roles : \/ p \in known
                            \/ Len(p) = 3 /\ <<p[1], p[2]>> \in known
                            \/ \E l \in LoginNames : p = Login(l)
        /\ \A p \in mem : {p[1], p[2]} \subseteq roles \cup {Server(r) : r \in scope.server \cup {"sysadmin"}}
        /\ \A r \in sysdb : r.owner \in LoginNames
        /\ \A r, x \in sysdb : r.dbid = x.dbid => r = x
        /\ \A r, x \in ns : r.nspname = x.nspname => r = x
        /\ \A r \in ns : r.owner \in roles /\ \E x \in sysdb : x.dbid = r.dbid
        /\ \A r \in perms : \E x \in ns : x.dbid = r.dbid /\ x.orig = r.schema

\* A login never loses the access the catalogs give it: whenever
\* get_user_for_database finds a user for it, the login is a member of that
\* user, so the last test of the function refuses no one.  Every statement that
\* maps or unmaps a user has to keep the memberships in guest, dbo and the
\* users in step with the rows.
AccessGranted == \A l \in LoginNames, d \in Databases : UserFor(l, d) = Candidate(l, d)

\* The members of db_owner, direct or through roles, are exactly the principals
\* with an internal object-owning role.  DROP DATABASE, DROP USER and both
\* renames derive the name of that role from the membership and fail when it is
\* missing.
InternalRoles ==
    \A r \in users :
        r.orig \notin {"dbo", "db_owner"} =>
            (IsDbOwner(r.rolname, r.db) <=> Obj(r.rolname) \in roles)

\* db_owner reaches every schema of its database: it is a member of the schema's
\* owner, whoever owned it, joined or left db_owner, or was renamed.
OwnerReachesSchemas ==
    \A d \in Databases, r \in ns :
        r.dbid = Dbid(d) => MemberOf(Phys(d, "dbo"), r.owner)


\* Nobody is locked out: neither a login of a database it has a user in, nor
\* db_owner of a schema.
NobodyLockedOut == AccessGranted /\ OwnerReachesSchemas

\* "<grantee> in babelfish_schema_permissions must also exist in pg_authid": a
\* rule of babelfish_inconsistent_metadata, for every sequence of grants and
\* renames
GranteesExist == \A r \in perms : r.grantee \in roles
=============================================================================
