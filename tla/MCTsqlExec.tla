----------------------------- MODULE MCTsqlExec -----------------------------
(***************************************************************************)
(* Instances of TsqlExec for TLC.                                          *)
(***************************************************************************)
EXTENDS TsqlExec

Quiet == [xact |-> FALSE, nocount |-> FALSE, implicit |-> FALSE, late |-> FALSE,
          kinds |-> {}, callees |-> {}, classes |-> {}]

\* Code without transactions: TRY blocks and procedures under every class of
\* error, XACT_ABORT, functions, and NOCOUNT with queries that fail late.
InProcedures == [Quiet EXCEPT !.kinds = {"select", "exec", "rethrow"},
                     !.callees = {"proc"},
                     !.classes = {"statement", "batch", "unmapped", "undefined"}]
UnderXactAbort == [Quiet EXCEPT !.xact = TRUE, !.kinds = {"select", "exec"},
                     !.callees = {"proc"}, !.classes = {"statement", "unmapped"}]
InFunctions == [Quiet EXCEPT !.kinds = {"select", "exec"},
                     !.callees = {"proc", "func"},
                     !.classes = {"statement", "curbatch", "undefined"}]
UnderNoCount == [Quiet EXCEPT !.nocount = TRUE, !.kinds = {"select", "exec"},
                     !.callees = {"proc"}, !.classes = {"statement"},
                     !.late = TRUE]
ErrorSessions == {InProcedures, UnderXactAbort, InFunctions, UnderNoCount}

\* Transactions in procedures, ...
Transactions == {[Quiet EXCEPT !.xact = x,
                     !.kinds = (AllKinds \ {"select", "rethrow"}),
                     !.callees = {"proc"},
                     !.classes = {"statement", "txn", "unmapped"}]
                     : x \in BOOLEAN}
\* ... in triggers, ...
Triggers == {[Quiet EXCEPT !.xact = x, !.kinds = {"dml"} \cup TranCmds,
                     !.callees = {"trigger"},
                     !.classes = {"statement", "batch", "unmapped"}]
                     : x \in BOOLEAN}
\* ... and implicit ones.
Implicit == {[Quiet EXCEPT !.implicit = TRUE,
                     !.kinds = {"select", "dml", "begin", "commit", "rollback"},
                     !.callees = {"trigger"},
                     !.classes = {"statement", "unmapped"}]}
TransactionSessions == Transactions \cup Triggers \cup Implicit

\* A trigger that catches its error and calls a procedure.
NestedSessions == {[Quiet EXCEPT !.kinds = {"select", "dml", "exec"},
                     !.callees = {"proc", "trigger"},
                     !.classes = {"statement"}]}

Names == 1 .. 12
=============================================================================
