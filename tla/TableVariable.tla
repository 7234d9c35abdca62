--------------------------- MODULE TableVariable ---------------------------
(***************************************************************************)
(* Table variables.  Their rows live in an ordinary heap, but which of the *)
(* versions of a row a statement sees is decided by table_variable_mvcc.c: *)
(* what a transaction did stays when the transaction is rolled back, and   *)
(* goes only when the statement that did it failed.  To know that, the     *)
(* executor notes the transaction ids of failed statements in a map, and   *)
(* runs every statement of a transaction in a savepoint, with an id of its *)
(* own.                                                                    *)
(*                                                                         *)
(* One session, one table variable with a primary key; the engine's heap,  *)
(* transaction ids and command ids are modelled from how the code uses     *)
(* them.                                                                   *)
(***************************************************************************)
EXTENDS Naturals, FiniteSets, Sequences

CONSTANTS
    Keys,       \* the primary keys
    Ops,        \* the kinds of statements, of "insert", "delete", "update"
    MaxXid,     \* bound on transaction ids
    MaxCid,     \* bound on the commands of a transaction
    MaxTid,     \* bound on the versions in the heap
    MaxLevel,   \* bound on the nesting of savepoints
    MaxEnv,     \* bound on the nesting of procedures
    None

ASSUME Bounds == /\ Ops \subseteq {"insert", "delete", "update"}
                 /\ {MaxXid, MaxCid, MaxTid, MaxLevel, MaxEnv} \subseteq Nat

VARIABLES
    heap,       \* the versions, by their place
    levels,     \* the transaction and its open subtransactions
    block,      \* BEGIN TRANSACTION was executed
    nextXid,
    committed,  \* the ids of committed transactions
    cid,        \* the current command id
    mapped,     \* the map of failed transactions exists
    failed,     \* the ids in it
    envs,       \* the query environments, each a set of named relations
    stmt,       \* the statement under way, or None
    result      \* how the last one ended

xact == <<levels, block, nextXid, committed>>
map == <<mapped, failed>>
tableVars == <<heap, xact, cid, map, envs, stmt, result>>

Vals == 0 .. 1
Xids == 1 .. MaxXid
Tids == 1 .. MaxTid
Cids == 0 .. MaxCid
Hints == {"xmin_committed", "xmin_invalid", "xmax_committed", "xmax_invalid"}
Calls == [op : Ops, keys : SUBSET Keys \ {{}}]

\* A version of a row.  Raw xmax 0 is InvalidTransactionId.
Versions == [key : Keys, val : Vals, xmin : Xids, cmin : Cids,
             xmax : Xids \cup {0}, cmax : Cids, hints : SUBSET Hints]
Levels == [kind : {"top", "save", "stmt"}, xid : Xids \cup {0}, kids : SUBSET Xids]

TypeOK ==
    /\ DOMAIN heap \subseteq Tids /\ heap \in [DOMAIN heap -> Versions]
    /\ levels \in Seq(Levels) /\ Len(levels) \in 1 .. (MaxLevel + 1)
    /\ block \in BOOLEAN
    /\ nextXid \in 1 .. (MaxXid + 1)
    /\ committed \in SUBSET Xids
    /\ cid \in Cids
    /\ mapped \in BOOLEAN /\ failed \in SUBSET Xids
    /\ envs \in Seq(SUBSET {"tv"}) /\ Len(envs) \in 1 .. MaxEnv
    /\ \/ stmt = None
       \/ stmt \in [call : Calls, todo : SUBSET Keys, seen : SUBSET Tids,
                    error : {"none", "duplicate", "invisible"}]
    /\ result \in {"none", "ok", "error", "duplicate", "invisible"}
-----------------------------------------------------------------------------
\* Transaction ids.

Level(kind) == [kind |-> kind, xid |-> 0, kids |-> {}]
TopLevel == <<Level("top")>>
Last(s) == s[Len(s)]
Front(s) == SubSeq(s, 1, Len(s) - 1)

\* The ids of a level: its own and those of the subtransactions it released.
Own(l) == ({l.xid} \ {0}) \cup l.kids

\* TransactionIdIsCurrentTransactionId
IsCurrent(x) == \E i \in DOMAIN levels : x \in Own(levels[i])

\* TransactionIdDidCommit
DidCommit(x) == x \in committed

\* GetCurrentTransactionId: the first write gives ids to the subtransaction
\* and to those around it, outermost first.
Unassigned == {i \in DOMAIN levels : levels[i].xid = 0}
Assigned == [i \in DOMAIN levels |->
    IF levels[i].xid # 0 THEN levels[i]
    ELSE [levels[i] EXCEPT !.xid =
             nextXid + Cardinality({j \in Unassigned : j < i})]]
CurrentXid == Last(Assigned).xid

\* The oldest id the pruning of a temporary table has to keep.
OldestXmin == IF levels[1].xid # 0 THEN levels[1].xid ELSE nextXid

-----------------------------------------------------------------------------
\* Which versions are seen.

\* find_failed_transaction
FindFailed(x) == mapped /\ x \in failed

\* The checks agree on the inserter of a version: "bad" if it failed, "own"
\* if it is still running; otherwise it is considered committed, although it
\* may have been rolled back.
Inserter(t) ==
    IF "xmin_committed" \in t.hints THEN "good"
    ELSE IF "xmin_invalid" \in t.hints THEN "bad"
    ELSE IF IsCurrent(t.xmin) THEN "own"
    ELSE IF DidCommit(t.xmin) THEN "good"
    ELSE IF FindFailed(t.xmin) THEN "bad"
    ELSE "good"

\* And on its deleter, where the inserter is not bad: "none" if there is none
\* or it failed, "gone" if it ended in any other way.
Deleter(t) ==
    IF "xmax_invalid" \in t.hints THEN "none"
    ELSE IF "xmax_committed" \in t.hints THEN "gone"
    ELSE IF IsCurrent(t.xmax) THEN "own"
    ELSE IF DidCommit(t.xmax) THEN "gone"
    ELSE IF FindFailed(t.xmax) THEN "none"
    ELSE "gone"

\* TVHeapTupleSatisfiesMVCC: what a scan of command curcid sees.
SatisfiesMVCC(t, curcid) ==
    /\ Inserter(t) # "bad"
    /\ Inserter(t) = "own" => t.cmin < curcid
    /\ \/ Deleter(t) = "none"
       \/ Deleter(t) = "own" /\ t.cmax >= curcid

\* Mutant: a version of this transaction is not asked for a failed deleter.
SatisfiesDirtyUnfailed(t) ==
    /\ Inserter(t) # "bad"
    /\ \/ "xmax_invalid" \in t.hints
       \/ Inserter(t) = "good" /\ Deleter(t) = "none"

\* TVHeapTupleSatisfiesDirtyOrSelf: what the check for duplicate keys sees.
\* For a version of this transaction it asks only whether the deleter failed.
SatisfiesDirtyOrSelf(t) ==
    /\ Inserter(t) # "bad"
    /\ \/ "xmax_invalid" \in t.hints
       \/ Inserter(t) = "own" /\ FindFailed(t.xmax)
       \/ Inserter(t) = "good" /\ Deleter(t) = "none"

\* TVHeapTupleSatisfiesUpdate: may command curcid update or delete it?
SatisfiesUpdate(t, curcid) ==
    IF \/ Inserter(t) = "bad"
       \/ Inserter(t) = "own" /\ t.cmin >= curcid THEN "Invisible"
    ELSE IF \/ "xmax_invalid" \in t.hints
            \/ Inserter(t) = "own" /\ FindFailed(t.xmax)
            \/ Inserter(t) = "good" /\ Deleter(t) = "none" THEN "Ok"
    ELSE IF Inserter(t) = "good" /\ Deleter(t) = "gone" THEN "Deleted"
    ELSE IF t.cmax >= curcid THEN "SelfModified"
    ELSE "Invisible"

\* TVHeapTupleSatisfiesVacuum, with its horizon: may it be removed?
SatisfiesVacuum(t) ==
    IF Inserter(t) = "bad" THEN "dead"
    ELSE IF Deleter(t) = "none" THEN "live"
    ELSE IF t.xmax < OldestXmin THEN "dead"
    ELSE "recently_dead"

\* The hint bits a check leaves on a version: how its inserter and its deleter
\* ended, where that is known for good.  A version whose inserter is bad is
\* not asked for its deleter.
HintXmin(t) ==
    IF \/ t.hints \cap {"xmin_committed", "xmin_invalid"} # {}
       \/ IsCurrent(t.xmin) THEN {}
    ELSE IF DidCommit(t.xmin) THEN {"xmin_committed"}
    ELSE IF FindFailed(t.xmin) THEN {"xmin_invalid"}
    ELSE {}

HintXmax(t) ==
    IF \/ Inserter(t) = "bad"
       \/ t.hints \cap {"xmax_committed", "xmax_invalid"} # {}
       \/ IsCurrent(t.xmax) THEN {}
    ELSE IF DidCommit(t.xmax) THEN {"xmax_committed"}
    ELSE IF FindFailed(t.xmax) THEN {"xmax_invalid"}
    ELSE {}

SetHintBits(t) == [t EXCEPT !.hints = @ \cup HintXmin(t) \cup HintXmax(t)]

-----------------------------------------------------------------------------
\* Statements.

TableInit ==
    /\ heap = <<>>
    /\ levels = TopLevel /\ block = FALSE
    /\ nextXid = 1 /\ committed = {}
    /\ cid = 0
    /\ mapped = FALSE /\ failed = {}
    /\ envs = << {} >>
    /\ stmt = None /\ result = "none"

InScope == "tv" \in Last(envs)

\* dispatch_stmt_handle_error: inside a transaction a statement runs in an
\* internal savepoint.
Start(c) ==
    /\ stmt = None /\ InScope
    /\ cid < MaxCid
    /\ nextXid + Cardinality(Unassigned) <= MaxXid + (IF block THEN 0 ELSE 1)
    /\ IF block
       THEN Len(levels) <= MaxLevel /\ levels' = Append(levels, Level("stmt"))
       ELSE levels' = levels
    /\ stmt' = [call |-> c, todo |-> c.keys, seen |-> {}, error |-> "none"]
    /\ result' = "none"
    /\ UNCHANGED <<heap, block, nextXid, committed, cid, map, envs>>

InStatement(ops) == stmt # None /\ stmt.call.op \in ops /\ stmt.error = "none"

\* The first write of a subtransaction gives it a transaction id.
WriteXid ==
    /\ nextXid + Cardinality(Unassigned) <= MaxXid + 1
    /\ levels' = Assigned
    /\ nextXid' = nextXid + Cardinality(Unassigned)

Version(k, v) == [key |-> k, val |-> v, xmin |-> CurrentXid, cmin |-> cid,
                  xmax |-> 0, cmax |-> 0, hints |-> {"xmax_invalid"}]

\* Which of the free places a version gets makes no difference.
Full(h) == DOMAIN h = Tids
FreePlace(h) == CHOOSE i \in Tids \ DOMAIN h : \A j \in Tids \ DOMAIN h : i <= j
Put(h, t) == [j \in DOMAIN h \cup {FreePlace(h)} |->
                 IF j = FreePlace(h) THEN t ELSE h[j]]

\* One row of an INSERT.  The row is in the heap when the primary key is
\* checked; the check looks at every version with that key.
InsertRow(k) ==
    /\ InStatement({"insert"})
    /\ k \in stmt.todo
    /\ WriteXid
    /\ ~Full(heap)
    /\ heap' = Put([j \in DOMAIN heap |-> IF heap[j].key = k THEN SetHintBits(heap[j])
                                          ELSE heap[j]], Version(k, 0))
    /\ stmt' = [stmt EXCEPT !.todo = @ \ {k},
                    !.error = IF \E j \in DOMAIN heap :
                                     heap[j].key = k /\ SatisfiesDirtyOrSelf(heap[j])
                              THEN "duplicate" ELSE @]
    /\ UNCHANGED <<block, committed, cid, map, envs, result>>

\* The version is marked as deleted by this command.
Mark(t) == [t EXCEPT !.xmax = CurrentXid, !.cmax = cid,
                !.hints = @ \ {"xmax_committed", "xmax_invalid"}]

\* The scan of an UPDATE or a DELETE meets the versions in any order, those
\* that the statement itself has written included; this one is a row to change.
Found(i) == /\ i \in DOMAIN heap \ stmt.seen
            /\ heap[i].key \in stmt.call.keys
            /\ SatisfiesMVCC(heap[i], cid)

\* The heap changes the version if it may: a version that this command has
\* changed is left alone, any other is an error.
ChangeRow(i) ==
    /\ InStatement({"update", "delete"})
    /\ Found(i)
    /\ WriteXid
    /\ LET may == SatisfiesUpdate(heap[i], cid)
           marked == [heap EXCEPT ![i] = Mark(SetHintBits(@))]
       IN  /\ IF may # "Ok" THEN heap' = heap
              ELSE IF stmt.call.op = "delete" THEN heap' = marked
              ELSE /\ ~Full(heap)
                   /\ heap' = Put(marked, Version(heap[i].key, (heap[i].val + 1) % 2))
           /\ stmt' = [stmt EXCEPT !.seen = @ \cup {i},
                           !.error = IF may \in {"Ok", "SelfModified"} THEN @ ELSE "invisible"]
    /\ UNCHANGED <<block, committed, cid, map, envs, result>>

\* What is left of a level that ends: its parent keeps the ids it released.
Released == [Front(levels) EXCEPT ![Len(levels) - 1].kids = @ \cup Own(Last(levels))]
AllXids == UNION {Own(levels[i]) : i \in DOMAIN levels}

\* The statement has succeeded: its savepoint is released, or, outside a
\* transaction, what it did is committed.
Done ==
    /\ stmt # None /\ stmt.error = "none"
    /\ IF stmt.call.op = "insert" THEN stmt.todo = {} ELSE \A i \in DOMAIN heap : ~Found(i)
    /\ IF block
       THEN /\ levels' = Released /\ cid' = cid + 1
            /\ UNCHANGED committed
       ELSE /\ levels' = TopLevel /\ cid' = 0
            /\ committed' = committed \cup AllXids
    /\ stmt' = None /\ result' = "ok"
    /\ UNCHANGED <<heap, block, nextXid, map, envs>>

\* add_failed_transaction
AddFailed(X) == failed' = IF mapped THEN failed \cup (X \ {0}) ELSE failed

\* Mutant: the failure pops a savepoint whether or not one was started.
FailAlwaysPops ==
    /\ stmt # None
    /\ AddFailed({Last(levels).xid})
    /\ levels' = Front(levels) /\ cid' = cid + 1
    /\ stmt' = None
    /\ result' = IF stmt.error = "none" THEN "error" ELSE stmt.error
    /\ UNCHANGED <<heap, block, nextXid, committed, mapped, envs>>

\* Mutant: the id is noted after the rollback.
FailNotedLate ==
    /\ stmt # None
    /\ IF block
       THEN /\ AddFailed({Last(Front(levels)).xid})
            /\ levels' = Front(levels) /\ cid' = cid + 1
       ELSE AddFailed({}) /\ levels' = TopLevel /\ cid' = 0
    /\ stmt' = None
    /\ result' = IF stmt.error = "none" THEN "error" ELSE stmt.error
    /\ UNCHANGED <<heap, block, nextXid, committed, mapped, envs>>

\* The statement has failed, of itself or of an error of any kind: the current
\* id is noted as failed, then the savepoint or the transaction is rolled back.
Fail ==
    /\ stmt # None
    /\ AddFailed({Last(levels).xid})
    /\ IF block
       THEN levels' = Front(levels) /\ cid' = cid + 1
       ELSE levels' = TopLevel /\ cid' = 0
    /\ stmt' = None
    /\ result' = IF stmt.error = "none" THEN "error" ELSE stmt.error
    /\ UNCHANGED <<heap, block, nextXid, committed, mapped, envs>>

\* EXEC inside a transaction, of a procedure in which a statement has written
\* and failed: the id of the statement, whose savepoint is rolled back, is
\* noted, and then, as EXEC has no savepoint, that of the transaction or
\* savepoint that EXEC runs in.  A TRY block lets the transaction go on.
ExecFails ==
    /\ stmt = None /\ block
    /\ nextXid + Cardinality(Unassigned) <= MaxXid
    /\ levels' = Assigned
    /\ nextXid' = nextXid + Cardinality(Unassigned) + 1
    /\ AddFailed({nextXid + Cardinality(Unassigned), CurrentXid})
    /\ UNCHANGED <<heap, block, committed, cid, mapped, envs, stmt, result>>

-----------------------------------------------------------------------------
\* Transactions.

BeginTransaction ==
    /\ stmt = None /\ ~block
    /\ block' = TRUE
    /\ UNCHANGED <<heap, levels, nextXid, committed, cid, map, envs, stmt, result>>

SaveTransaction ==
    /\ stmt = None /\ block
    /\ Len(levels) < MaxLevel
    /\ levels' = Append(levels, Level("save"))
    /\ UNCHANGED <<heap, block, nextXid, committed, cid, map, envs, stmt, result>>

\* ROLLBACK to savepoint i, which stays.
RollbackToSavepoint(i) ==
    /\ stmt = None
    /\ i \in 2 .. Len(levels)
    /\ levels' = Append(SubSeq(levels, 1, i - 1), Level("save"))
    /\ UNCHANGED <<heap, block, nextXid, committed, cid, map, envs, stmt, result>>

EndTransaction ==
    /\ stmt = None /\ block
    /\ levels' = TopLevel /\ block' = FALSE
    /\ cid' = 0
    /\ UNCHANGED <<heap, nextXid, map, envs, stmt, result>>

CommitTransaction == EndTransaction /\ committed' = committed \cup AllXids
RollbackTransaction == EndTransaction /\ UNCHANGED committed

-----------------------------------------------------------------------------
\* Query environments, which hold the temporary tables and table variables of
\* a procedure; the first is that of the session.

\* A procedure, function or EXEC batch is entered.
CreateQueryEnv ==
    /\ stmt = None
    /\ Len(envs) < MaxEnv
    /\ envs' = Append(envs, {})
    /\ UNCHANGED <<heap, xact, cid, map, stmt, result>>

Forget(names) == heap' = IF "tv" \in names THEN <<>> ELSE heap

\* Mutant: the relations of the session are not looked at.
RemoveEnvUnchecked ==
    /\ Len(envs) > 1
    /\ stmt = None
    /\ Forget(Last(envs))
    /\ envs' = Front(envs)
    /\ IF Len(envs) = 2
       THEN mapped' = FALSE /\ failed' = {}
       ELSE UNCHANGED map
    /\ UNCHANGED <<xact, cid, stmt, result>>

\* pltsql_remove_current_query_env
RemoveCurrentQueryEnv ==
    /\ Len(envs) > 1
    /\ stmt = None
    /\ Forget(Last(envs))
    /\ envs' = Front(envs)
    /\ IF Len(envs) = 2 /\ envs[1] = {}
       THEN mapped' = FALSE /\ failed' = {}
       ELSE UNCHANGED map
    /\ UNCHANGED <<xact, cid, stmt, result>>

\* exec_stmt_decl_table.
DeclareTable ==
    /\ stmt = None
    /\ \A i \in DOMAIN envs : "tv" \notin envs[i]
    /\ envs' = [envs EXCEPT ![Len(envs)] = @ \cup {"tv"}]
    /\ mapped' = TRUE
    /\ failed' = IF mapped THEN failed ELSE {}
    /\ UNCHANGED <<heap, xact, cid, stmt, result>>

\* The batch of the session ends: pltsql_clean_table_variables.
EndOfBatch ==
    /\ Len(envs) = 1 /\ stmt = None
    /\ InScope
    /\ Forget(envs[1])
    /\ envs' = << envs[1] \ {"tv"} >>
    /\ UNCHANGED <<xact, cid, map, stmt, result>>

-----------------------------------------------------------------------------
\* A query leaves hint bits on all versions.
Query ==
    /\ heap' = [i \in DOMAIN heap |-> SetHintBits(heap[i])]
    /\ UNCHANGED <<xact, cid, map, envs, stmt, result>>

\* On any access the heap may remove the versions it has no use for.
Prune ==
    LET dead == {i \in DOMAIN heap : SatisfiesVacuum(heap[i]) = "dead"}
    IN  /\ dead # {}
        /\ heap' = [i \in DOMAIN heap \ dead |-> SetHintBits(heap[i])]
        /\ stmt' = IF stmt = None THEN stmt ELSE [stmt EXCEPT !.seen = @ \ dead]
        /\ UNCHANGED <<xact, cid, map, envs, result>>

TableNext ==
    \/ \E c \in Calls : Start(c)
    \/ \E k \in Keys : InsertRow(k)
    \/ \E i \in Tids : ChangeRow(i)
    \/ Query \/ Prune
    \/ Done \/ Fail \/ ExecFails
    \/ BeginTransaction \/ SaveTransaction
    \/ \E i \in 2 .. MaxLevel : RollbackToSavepoint(i)
    \/ CommitTransaction \/ RollbackTransaction
    \/ CreateQueryEnv \/ RemoveCurrentQueryEnv \/ EndOfBatch
    \/ DeclareTable

TableSpec == TableInit /\ [][TableNext]_tableVars
=============================================================================
