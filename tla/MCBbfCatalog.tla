---------------------------- MODULE MCBbfCatalog ----------------------------
(* An instance of BbfCatalog for TLC: users with permissions are renamed.    *)
EXTENDS BbfCatalog

MCRenamed ==
    {[mode |-> "multi", names |-> {"d1"}, logins |-> {"l1"}, users |-> {"u1", "u2"}, roles |-> {},
      schemas |-> {"s1"}, server |-> {}, within |-> {"d1"},
      stmts |-> {"database", "login", "user", "schema", "grant", "name"}]}
=============================================================================
