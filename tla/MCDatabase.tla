----------------------------- MODULE MCDatabase -----------------------------
(***************************************************************************)
(* Four parts of the system that share no state, for TLC: the permissions  *)
(* on the objects of a schema (SchemaPerms), the catalogs of databases,    *)
(* logins, users and schemas (BbfCatalog), the code generated for a batch  *)
(* (Codegen) and the money types (Money).  A behaviour is about one of     *)
(* them; the variables of the others keep their initial values.            *)
(***************************************************************************)
EXTENDS SchemaPerms, Integers

CONSTANTS Scopes, MaxDbid, Programs, Operands, Texts, Inputs,
          Base, ShortScale, Half16, Half32, Half64, Workers, MaxRows

VARIABLES
    about,  \* what this behaviour is about
    scope, sysdb, seq, logins, users, roles, mem, ns, perms,
    prog, exec_codes, pc, errs, at,
    task, agg, total

catalogVars == <<scope, sysdb, seq, logins, users, roles, mem, ns, perms>>
codeVars == <<prog, exec_codes, pc, errs, at>>
moneyVars == <<task, agg, total>>
allVars == <<about, vars, catalogVars, codeVars, moneyVars>>

-----------------------------------------------------------------------------
(* Permissions. *)

MCSets == {{"revoke without grant"}, {"revoke all on routine"}}

-----------------------------------------------------------------------------
(* Catalogs. *)

One == [mode |-> "multi", names |-> {"d1"}, logins |-> {"l1"}, users |-> {"u1"}, roles |-> {},
        schemas |-> {}, server |-> {}, within |-> {"d1"}, stmts |-> {"database", "login", "user"}]
With(S) == {"database", "login", "user"} \cup S

\* Databases, logins and users come and go in every order
Lifecycle == [One EXCEPT !.names = {"d1", "d2"}, !.within = {"d1", "d2"},
                         !.stmts = With({"rename", "owner", "default"})]
Single == [Lifecycle EXCEPT !.mode = "single", !.stmts = With({"rename"}),
                            !.within = {"master", "d1", "d2"}]

\* Server roles, and who may use a database
ServerRoles == [One EXCEPT !.server = {"sysadmin", "securityadmin"}, !.logins = {"l1", "l2"},
                           !.stmts = With({"server"})]
Access == [One EXCEPT !.server = {"sysadmin", "dbcreator"},
                      !.stmts = With({"server", "map", "connect", "owner"})]

\* Roles inside a database
Owners == [One EXCEPT !.roles = {"r1"}, !.schemas = {"s1"},
                      !.stmts = With({"role", "member", "schema"})]
Nested == [One EXCEPT !.logins = {}, !.roles = {"r1", "r2"},
                      !.stmts = {"database", "role", "member", "name"}]
Granted == [One EXCEPT !.users = {"u1", "u2"}, !.schemas = {"s1"},
                       !.stmts = With({"schema", "grant"})]

MCScopes == {Lifecycle, Single, ServerRoles, Access, Owners, Nested, Granted}

Cat == INSTANCE BbfCatalog

-----------------------------------------------------------------------------
(* Batches. *)

Code0 == INSTANCE Codegen WITH Programs <- {}

Leaf(k) == Code0!Leaf(k)
S == Leaf("stmt")
Simple == {S, Leaf("break"), Leaf("return"), Leaf("goto"), Leaf("label")}
Jumps == Simple \cup {Leaf("continue")}
SOrLabel == {S, Leaf("label")}
Pairs(X, Y) == {<<x, y>> : x \in X, y \in Y}
Ones(X) == {<<x>> : x \in X}

Try(b, h) == Code0!Node("try", b, h)
While(b) == Code0!Node("while", b, <<>>)
If(b) == Code0!Node("if", b, <<>>)

\* A TRY...CATCH in a loop, with a jump in each part of it.
InLoop == {<<While(<<Try(b, h), x>>), y>> :
             b \in Pairs({S}, Jumps), h \in {<<>>} \cup Ones(Jumps), x, y \in SOrLabel}

\* A TRY...CATCH in each part of another one, in a loop.
InTry == {<<While(<<Try(<<Try(b, h), x>>, <<Try(<<S>>, g), y>>)>>), z>> :
            b \in Ones(Jumps \ {Leaf("label")}), h \in {<<>>} \cup Ones(Jumps \ {Leaf("label")}),
            g \in Ones(Jumps), x, y, z \in SOrLabel}

\* A loop in a TRY block, with conditions.
Mixed == {<<Try(<<While(<<Code0!Node("ifelse", b, c), x>>), y>>, <<If(h), z>>)>> :
            b, c \in Ones(Jumps), h \in Ones(Simple), x, y, z \in SOrLabel}

Trivial == <<S>>
MCPrograms == InLoop \cup InTry \cup Mixed \cup {Trivial}

Gen == INSTANCE Codegen

-----------------------------------------------------------------------------
(* Money. *)

Money0 == INSTANCE Money WITH Operands <- {}, Texts <- {}, Inputs <- {}
Scaled == Money0!Multiplier
Half == Money0!RoundUp

\* Around zero, the multiplier, the half of it and the limits of each width.
Edges == UNION {{c - 1, c, c + 1} : c \in
    {0, Half, Scaled, Half16, Half32, Half32 + Half, Half64 \div Scaled, Half64 \div Half32}}
MCOperands ==
    {n \in Edges \cup {-n : n \in Edges}
           \cup {Half64 - 1, Half64 - 2, -Half64, 1 - Half64, Half64 - Scaled, Scaled - Half64}
           \cup {Half64 \div 2, 3 * (Half64 \div 4) + 1} : Money0!Fits(n, Half64)}

\* Integer parts around the largest one and the ones whose scaled value wraps.
Parts == LET most == Half64 \div Scaled
         IN  {0, 1, Half, most - 1, most, most + 1, 2 * most, 2 * most + 1,
              Half64 - 1, Half64, 2 * Half64}
MCTexts == {[neg |-> g, int |-> Money0!Digits(n), frac |-> f] :
              g \in BOOLEAN, n \in Parts, f \in UNION {[1 .. k -> 0 .. Base - 1] : k \in 0 .. 4}}

MCInputs == {Half64 - 1, -Half64, 1, -1, Scaled}

Mon == INSTANCE Money

Sum == [kind |-> "aggregate"]

-----------------------------------------------------------------------------
MCInit ==
    \/ about = "permissions" /\ Init /\ Cat!InitIn(Granted) /\ Gen!InitAt(Trivial) /\ Mon!InitFor(Sum)
    \/ about = "catalogs" /\ Cat!Init /\ InitOf({}) /\ Gen!InitAt(Trivial) /\ Mon!InitFor(Sum)
    \/ about = "code" /\ Gen!Init /\ InitOf({}) /\ Cat!InitIn(Granted) /\ Mon!InitFor(Sum)
    \/ about = "money" /\ Mon!Init /\ InitOf({}) /\ Cat!InitIn(Granted) /\ Gen!InitAt(Trivial)

MCNext ==
    \/ about = "permissions" /\ Next /\ UNCHANGED <<about, catalogVars, codeVars, moneyVars>>
    \/ about = "catalogs" /\ Cat!Next /\ UNCHANGED <<about, vars, codeVars, moneyVars>>
    \/ about = "code" /\ Gen!Next /\ UNCHANGED <<about, vars, catalogVars, moneyVars>>
    \/ about = "money" /\ Mon!Next /\ UNCHANGED <<about, vars, catalogVars, codeVars>>

MCSpec == MCInit /\ [][MCNext]_allVars

NobodyLockedOut == Cat!NobodyLockedOut
HandlersMatchNesting == Gen!HandlersMatchNesting
SumExact == Mon!SumExact
=============================================================================
