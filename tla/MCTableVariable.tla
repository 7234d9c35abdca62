-------------------------- MODULE MCTableVariable --------------------------
(***************************************************************************)
(* Properties and instances of TableVariable for TLC.                      *)
(***************************************************************************)
EXTENDS TableVariable

\* The command that sees the table: the statement under way, or the next one.
Seen == {i \in DOMAIN heap : SatisfiesMVCC(heap[i], cid)}

\* The versions and the hint bits, the failed ids and the savepoints of
\* statements implement the table a session expects: a statement that fails
\* changes nothing, one that succeeds changes each of its rows once, although
\* its scan meets the versions it writes, and no commit, rollback, rollback to
\* a savepoint, failing EXEC or prune changes a row (table_variable_mvcc.c).
Contents == INSTANCE TableContents WITH
    rows <- {<<heap[i].key, heap[i].val>> : i \in Seen},
    call <- IF stmt = None THEN None ELSE stmt.call
ImplementsContents == Contents!ContentsSpec

\* Two versions that a scan sees are never of the same row: the check for
\* duplicates, TVHeapTupleSatisfiesDirtyOrSelf, and the scan agree.
OneVersion == LET S == Seen IN \A i, j \in S : i # j => heap[i].key # heap[j].key

\* find_failed_transaction asserts that the map exists (table_variable_mvcc.c
\* line 76): pltsql_remove_current_query_env destroys it only when no table
\* variable can be left.
MapPresent == (\E i \in DOMAIN envs : "tv" \in envs[i]) => mapped

\* A scan finds what it needs: the map, and one version of a row.
ScanSound == TypeOK /\ OneVersion /\ MapPresent
=============================================================================
