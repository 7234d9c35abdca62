---------------------------- MODULE SchemaPerms ----------------------------
(***************************************************************************)
(* GRANT and REVOKE on a schema and on its objects.  PostgreSQL knows no   *)
(* permission on all objects of a schema, so babelfish_schema_permissions  *)
(* records what was granted, on the schema or on an object, and the        *)
(* handlers (pl_handler.c, pl_exec-2.c, catalog.c) keep the ACLs of the    *)
(* objects and the default ACL of the schema in step with the records.     *)
(*                                                                         *)
(* The statements name one grantee; they run as the owner of the objects.  *)
(***************************************************************************)
CONSTANTS Tables, Functions, Grantees, TablePrivs,
          StmtSets    \* the sets of kinds of statement a behaviour may use

ASSUME ObjectsAssumption == /\ "ALL" \notin Tables \cup Functions
                            /\ Tables \cap Functions = {}

VARIABLES stmts,   \* the kinds of statement of this behaviour
          objs,    \* the objects that exist
          rows,    \* babelfish_schema_permissions: rows[o][g], the bits granted
          acl,     \* the ACLs of the objects
          deflt    \* the default ACL of new tables in the schema

vars == <<stmts, objs, rows, acl, deflt>>

Objects == Tables \cup Functions
All == "ALL"                        \* PERMISSIONS_FOR_ALL_OBJECTS_IN_SCHEMA
Privs == TablePrivs \cup {"execute"}
PrivsOf(o) == IF o \in Tables THEN TablePrivs ELSE {"execute"}
On(k) == k \in stmts

\* Bits added to and removed from the row of o for g; a row without bits goes
Added(o, g, P) == [rows EXCEPT ![o][g] = @ \cup P]
Removed(o, g, P) == [rows EXCEPT ![o][g] = @ \ P]

InitOf(kinds) ==
    /\ stmts = kinds
    /\ objs = {}
    /\ rows = [o \in Objects \cup {All} |-> [g \in Grantees |-> {}]]
    /\ acl = [o \in Objects |-> [g \in Grantees |-> {}]]
    /\ deflt = [g \in Grantees |-> {}]
Init == \E kinds \in StmtSets : InitOf(kinds)

-----------------------------------------------------------------------------
(* Statements on the schema. *)

\* exec_grantschema_subcmds: GRANT and ALTER DEFAULT PRIVILEGES
GrantSchema(g, P) ==
    /\ acl' = [o \in Objects |-> IF o \in objs THEN [acl[o] EXCEPT ![g] = @ \cup (P \cap PrivsOf(o))]
                                               ELSE acl[o]]
    /\ deflt' = [deflt EXCEPT ![g] = @ \cup (P \cap TablePrivs)]
    /\ rows' = Added(All, g, P)
    /\ UNCHANGED <<stmts, objs>>

\* Mutant of GrantBack: what was granted on an object is not granted back.
GrantBackNone(o, g, P) == {}

\* grant_perms_to_objects_in_schema
GrantBack(o, g, P) == P \cap rows[o][g]

\* exec_stmt_grantschema, REVOKE: everything is revoked from the objects;
\* only when there is a record for the schema is what was granted on an object
\* granted back.
RevokeSchema(g, P) ==
    /\ rows[All][g] = {} => On("revoke without grant")
    /\ acl' = [o \in Objects |->
                 IF o \in objs
                   THEN [acl[o] EXCEPT ![g] = (@ \ P) \cup
                            IF rows[All][g] # {} THEN GrantBack(o, g, P) ELSE {}]
                   ELSE acl[o]]
    /\ deflt' = [deflt EXCEPT ![g] = @ \ P]
    /\ rows' = Removed(All, g, P)
    /\ UNCHANGED <<stmts, objs>>

-----------------------------------------------------------------------------
(* Statements on an object. *)

\* bbf_ProcessUtility, T_GrantStmt: a list of privileges, or ALL
GrantObject(o, g, P) ==
    /\ rows' = Added(o, g, P)
    /\ acl' = [acl EXCEPT ![o][g] = @ \cup P]
    /\ UNCHANGED <<stmts, objs, deflt>>

\* Mutant of Kept: privileges granted on the schema are revoked as well.
KeptNone(g, P) == {}

\* The privileges that stay because they are granted on the schema
Kept(g, P) == P \cap rows[All][g]

\* REVOKE of a list of privileges, and of ALL on a table
RevokeObject(o, g, P) ==
    /\ rows' = Removed(o, g, P)
    /\ acl' = [acl EXCEPT ![o][g] = @ \ (P \ Kept(g, P))]
    /\ UNCHANGED <<stmts, objs, deflt>>

\* REVOKE ALL on a routine: any record for the schema keeps the ACL as it is
RevokeAllOnRoutine(o, g) ==
    /\ On("revoke all on routine")
    /\ rows' = Removed(o, g, {"execute"})
    /\ acl' = [acl EXCEPT ![o][g] = IF rows[All][g] # {} THEN @ ELSE {}]
    /\ UNCHANGED <<stmts, objs, deflt>>

\* CREATE: a table starts with the default ACL, a routine with what
\* exec_internal_grant_on_function grants
Create(o) ==
    /\ o \notin objs
    /\ objs' = objs \cup {o}
    /\ acl' = [acl EXCEPT ![o] = [g \in Grantees |->
                  IF o \in Tables THEN deflt[g] ELSE rows[All][g] \cap {"execute"}]]
    /\ UNCHANGED <<stmts, rows, deflt>>

\* Mutant of CleanUp: the records of a dropped object stay.
CleanUpNothing(o) == rows

\* clean_up_bbf_schema_permissions
CleanUp(o) == [rows EXCEPT ![o] = [g \in Grantees |-> {}]]

\* DROP of an object, bbf_ExecDropStmt
Drop(o) ==
    /\ objs' = objs \ {o}
    /\ rows' = CleanUp(o)
    /\ acl' = [acl EXCEPT ![o] = [g \in Grantees |-> {}]]
    /\ UNCHANGED <<stmts, deflt>>

\* DROP USER and CREATE USER of the same name: remove_user_entry_from_bbf_schema_perms
\* and the removal of the ACLs that name the user
Recreate(g) ==
    /\ rows' = [o \in DOMAIN rows |-> [rows[o] EXCEPT ![g] = {}]]
    /\ acl' = [o \in Objects |-> [acl[o] EXCEPT ![g] = {}]]
    /\ deflt' = [deflt EXCEPT ![g] = {}]
    /\ UNCHANGED <<stmts, objs>>

Next ==
    \/ \E g \in Grantees, P \in SUBSET Privs \ {{}} : GrantSchema(g, P) \/ RevokeSchema(g, P)
    \/ \E o \in objs, g \in Grantees : \E P \in SUBSET PrivsOf(o) \ {{}} :
          GrantObject(o, g, P) \/ RevokeObject(o, g, P)
    \/ \E o \in objs \cap Functions, g \in Grantees : RevokeAllOnRoutine(o, g)
    \/ \E o \in Objects : Create(o)
    \/ \E o \in objs : Drop(o)
    \/ \E g \in Grantees : Recreate(g)

Spec == Init /\ [][Next]_vars

-----------------------------------------------------------------------------
Recorded(o, g) == (rows[o][g] \cup rows[All][g]) \cap PrivsOf(o)

\* What a user may do is what was granted and not revoked since: through grants
\* and revokes on the schema and on objects created before and after them, the
\* ACL of an object has nothing the records do not show.  REVOKE ALL on a
\* routine is the one statement that leaves more than the records.
NoExtraAccess ==
    On("revoke all on routine") \/ \A o \in objs, g \in Grantees : acl[o][g] \subseteq Recorded(o, g)

\* A grant survives the revokes of other grants: what the records show, the ACL
\* has.  A REVOKE on a schema nothing was granted on is the one statement that
\* takes the grants on the objects with it.
NothingLost ==
    On("revoke without grant") \/ \A o \in objs, g \in Grantees : Recorded(o, g) \subseteq acl[o][g]

\* The ACLs of the objects are what babelfish_schema_permissions records, but
\* for the two statements named above (exec_stmt_grantschema, the T_GrantStmt
\* case of bbf_ProcessUtility, bbf_ExecDropStmt).
AccessIsRecorded == NoExtraAccess /\ NothingLost

\* The records of an object are of its own privileges and go with it, and new
\* tables get what is recorded for the schema.  With AccessIsRecorded it is
\* kept by every statement.
Shape == /\ objs \subseteq Objects
         /\ rows \in [Objects \cup {All} -> [Grantees -> SUBSET Privs]]
         /\ acl \in [Objects -> [Grantees -> SUBSET Privs]]
         /\ deflt \in [Grantees -> SUBSET Privs]
RecordsFit == \A o \in Objects, g \in Grantees :
    /\ rows[o][g] \subseteq PrivsOf(o)
    /\ o \notin objs => rows[o][g] = {}
DefaultFits == \A g \in Grantees : deflt[g] = rows[All][g] \cap TablePrivs
IInv == Shape /\ RecordsFit /\ DefaultFits /\ AccessIsRecorded
=============================================================================
