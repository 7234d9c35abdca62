------------------------------ MODULE InsertExec ------------------------------
(***************************************************************************)
(* INSERT ... EXEC (pl_insert_exec.c and its callers): a batch runs a      *)
(* procedure whose result sets are captured in a temporary table and, when *)
(* the procedure is done, flushed into the target.  insert_exec_ctx is one *)
(* global pointer; every statement of the procedure asks it where its rows *)
(* go and whether it may end the transaction, so it has to be set exactly  *)
(* while the statement runs, whatever error leaves the procedure.          *)
(*                                                                         *)
(* A frame is a batch (the first) or a procedure.  Rows are counted; the   *)
(* statement that fails is undone by its own savepoint, which is why a     *)
(* failing statement changes nothing but the counters kept outside the     *)
(* transaction.  What an error does is in its class:                       *)
(*   ignorable  reported; execution goes on unless a TRY block catches it  *)
(*   count      as ignorable, but makes the transaction uncommittable if   *)
(*              a TRY block catches it                                     *)
(*   stop       ends the batch unless a TRY block catches it               *)
(*   abort      as stop, and makes an open transaction uncommittable       *)
(*   missing    no T-SQL number, for an unknown table: as abort, caught    *)
(*              only by a caller of the frame that raised it               *)
(*   unmapped   no T-SQL number: as abort, never caught                    *)
(***************************************************************************)
EXTENDS Naturals, Sequences, FiniteSetsExt

CONSTANTS MaxTran,    \* bound on @@TRANCOUNT
          MaxFrames,  \* bound on the depth of calls
          MaxRows,    \* bound on the rows captured by one statement
          MaxTables   \* bound on the tables ever created under the target's name

ASSUME BoundsAssumption == {MaxTran, MaxFrames, MaxRows, MaxTables} \subseteq Nat

VARIABLES
    implicit, \* SET IMPLICIT_TRANSACTIONS
    frames,   \* the call stack: the EXEC each frame is at, and its TRY block
    tran,     \* NestedTranCount and AbortCurTransaction
    ctx,      \* insert_exec_ctx, NoCtx for NULL
    buffer,   \* rows in the temporary table
    target,   \* the table under the target's name, as the transaction sees it
    saved,    \* the same as last committed
    work,     \* whether rows were changed that are not committed
    flushed   \* history: the table the last INSERT EXEC flushed into, 0 if none

vars == <<implicit, frames, tran, ctx, buffer, target, saved, work, flushed>>

NoCtx == [level |-> 0, oid |-> 0, modified |-> FALSE]
NoTran == [count |-> 0, doomed |-> FALSE]
Frame == [exec |-> "none", try |-> FALSE, count |-> 0, started |-> FALSE]

d == Len(frames)
Top == frames[d]
Active == ctx # NoCtx
SetTop(f) == [frames EXCEPT ![d] = f]

\* The frame whose statement is an INSERT EXEC, 0 if none is running.
Running == Max({0} \cup {i \in 1 .. d : frames[i].exec = "insert"})

Init == /\ implicit \in BOOLEAN
        /\ frames = <<Frame>> /\ tran = NoTran /\ ctx = NoCtx /\ buffer = 0
        /\ target = 1 /\ saved = 1 /\ work = FALSE /\ flushed = 0

\* A statement that changes a table: outside a transaction it commits.
Write(t) == /\ target' = t
            /\ saved' = IF tran.count = 0 THEN t ELSE saved
            /\ work' = (tran.count > 0)

-----------------------------------------------------------------------------
\* Errors.

\* handle_error: whether the error makes the open transaction uncommittable.
Dooms(class, tries) == \/ class \in {"abort", "unmapped", "missing"}
                       \/ class = "count" /\ tries # {}

\* The frame whose CATCH block runs next, 0 if the batch ends.
Landing(class, tries, k) ==
    CASE class = "unmapped" -> 0
      [] class = "missing" -> Max({0} \cup {i \in tries : i < k})
      [] OTHER -> Max({0} \cup tries)

\* An error raised by the statement at frame k of the stack fs, with the
\* context c and the transaction t: PG_FINALLY of every EXEC it leaves resets
\* the context, dispatch_stmt_handle_error of the INSERT EXEC ends the
\* transaction that was started for it, and terminate_batch ends what is
\* uncommittable.
Raise(class, fs, k, c, t) ==
    LET tries == {i \in 1 .. k : fs[i].try}
        go == class \in {"ignorable", "count"} /\ tries = {}
        at == Landing(class, tries, k)
        left == {i \in 1 .. k : i >= at /\ fs[i].exec = "insert"}
        ended == \E i \in left : fs[i].started
        doomed == t.doomed \/ (t.count > 0 /\ Dooms(class, tries))
        undo == ~go /\ (ended \/ (at = 0 /\ doomed))
    IN  /\ frames' = CASE go -> [SubSeq(fs, 1, k) EXCEPT ![k] = [Frame EXCEPT !.try = @]]
                       [] ~go /\ at = 0 -> <<Frame>>
                       [] OTHER -> Append(SubSeq(fs, 1, at - 1), Frame)
        /\ tran' = CASE undo -> NoTran
                     [] OTHER -> [t EXCEPT !.doomed = doomed]
        /\ ctx' = IF go \/ (left = {} /\ at # 0) THEN c ELSE NoCtx
        /\ target' = IF undo THEN saved ELSE target
        /\ work' = (work /\ ~undo)
        /\ UNCHANGED <<implicit, saved>>

\* A statement of the top frame fails and changes nothing itself.
Fails(class) == Raise(class, frames, d, ctx, tran) /\ UNCHANGED <<buffer, flushed>>

-----------------------------------------------------------------------------
\* Statements of any frame.

BeginTry == /\ ~Top.try /\ frames' = SetTop([Top EXCEPT !.try = TRUE])
            /\ UNCHANGED <<implicit, tran, ctx, buffer, target, saved, work, flushed>>

EndTry == /\ Top.try /\ frames' = SetTop([Top EXCEPT !.try = FALSE])
          /\ UNCHANGED <<implicit, tran, ctx, buffer, target, saved, work, flushed>>

\* A statement that cannot be completed: 1/0, a constraint, a type error that
\* has no T-SQL number.
StatementFails == \E class \in {"ignorable", "abort", "unmapped"} : Fails(class)

\* A DML of the procedure or the batch on another table.
Dml == /\ ~tran.doomed
       /\ Write(target)
       /\ UNCHANGED <<implicit, frames, tran, ctx, buffer, flushed>>

\* Mutant of Noted: the hook does not see the target being dropped.
NotedNever(c) == c

\* bbf_object_access_hook: a change to the target is noted, not refused.
Noted(c) == [c EXCEPT !.modified = @ \/ (c # NoCtx /\ c.oid = target)]

\* DROP TABLE of the target.
DropTarget == /\ target # 0 /\ ~tran.doomed
              /\ Write(0)
              /\ ctx' = Noted(ctx)
              /\ UNCHANGED <<implicit, frames, tran, buffer, flushed>>

\* CREATE TABLE with the target's name.
CreateTarget == /\ target = 0 /\ ~tran.doomed
                /\ \E o \in (1 .. MaxTables) \ {saved, ctx.oid} : Write(o)
                /\ UNCHANGED <<implicit, frames, tran, ctx, buffer, flushed>>

BeginTran == IF tran.doomed THEN Fails("stop")
             ELSE /\ tran.count < MaxTran
                  /\ tran' = [tran EXCEPT !.count = @ + 1]
                  /\ UNCHANGED <<implicit, frames, ctx, buffer, target, saved, work, flushed>>

\* Mutant of Blocked: any COMMIT or ROLLBACK runs.
BlockedNever(commit) == FALSE

\* error_if_xact_stmt_blocked_by_insert_exec.
Blocked(commit) == Active /\ (commit => tran.count <= 1)

\* The end of the transaction runs pltsql_xact_cb, which resets the context.
EndTran(t) == /\ tran' = NoTran /\ target' = t /\ saved' = t /\ work' = FALSE
              /\ ctx' = NoCtx /\ buffer' = 0
              /\ UNCHANGED <<implicit, frames, flushed>>

CommitTran ==
    /\ tran.count > 0
    /\ CASE tran.doomed -> Fails("stop")
         [] ~tran.doomed /\ Blocked(TRUE) -> Fails("unmapped")
         [] ~tran.doomed /\ ~Blocked(TRUE) /\ tran.count = 1 -> EndTran(target)
         [] OTHER -> /\ tran' = [tran EXCEPT !.count = @ - 1]
                     /\ UNCHANGED <<implicit, frames, ctx, buffer, target, saved, work, flushed>>

RollbackTran == /\ tran.count > 0
                /\ IF Blocked(FALSE) THEN Fails("unmapped") ELSE EndTran(saved)

-----------------------------------------------------------------------------
\* Queries of the procedure: the DestReceiver of an INSERT EXEC.

\* A result set with the target's columns; the client gets it otherwise.
Select == /\ Active /\ buffer < MaxRows /\ ~tran.doomed
          /\ buffer' = buffer + 1
          /\ UNCHANGED <<implicit, frames, tran, ctx, target, saved, work, flushed>>

\* A row is received and a later one fails: the savepoint of the SELECT takes
\* the row back.
SelectFails == Active /\ ~tran.doomed /\ Fails("ignorable")

\* pltsql_insert_exec_validate_column_count, insertexec_startup: a result set
\* of another shape.
SelectMismatch == Active /\ Fails("unmapped")

-----------------------------------------------------------------------------
\* EXEC and INSERT EXEC.

Exec == /\ d < MaxFrames
        /\ frames' = Append(SetTop([Top EXCEPT !.exec = "call", !.count = tran.count]), Frame)
        /\ UNCHANGED <<implicit, tran, ctx, buffer, target, saved, work, flushed>>

\* A procedure ends.  The transaction count has to be that before the EXEC.
Return ==
    /\ d > 1 /\ frames[d - 1].exec = "call"
    /\ LET f == frames[d - 1]
       IN  IF ~implicit /\ f.count # tran.count
           THEN Raise("count", frames, d - 1, ctx, tran)
           ELSE /\ frames' = Append(SubSeq(frames, 1, d - 2), [Frame EXCEPT !.try = f.try])
                /\ UNCHANGED <<implicit, tran, ctx, target, saved, work>>
    /\ UNCHANGED <<buffer, flushed>>

\* Mutant of Starts: an INSERT EXEC runs in autocommit.
StartsNever == FALSE

\* insert_exec_setup: whether the statement starts a transaction of its own.
Starts == tran.count = 0

\* insert_exec_setup, and the call.
InsertExec ==
    LET f == [Top EXCEPT !.exec = "insert", !.count = tran.count, !.started = Starts]
        t == IF Starts THEN [tran EXCEPT !.count = 1] ELSE tran
    IN  CASE Active -> Fails("unmapped")
          [] ~Active /\ (target = 0 \/ tran.doomed) ->
                /\ Raise(IF tran.doomed THEN "stop" ELSE "missing",
                         SetTop(f), d, ctx, t)
                /\ UNCHANGED <<buffer, flushed>>
          [] OTHER ->
                /\ d < MaxFrames
                /\ tran' = t
                /\ ctx' = [level |-> d, oid |-> target, modified |-> FALSE]
                /\ frames' = Append(SetTop(f), Frame)
                /\ buffer' = 0 /\ flushed' = 0
                /\ UNCHANGED <<implicit, target, saved, work>>

\* flush_insert_exec_temp_table cannot run: the target was changed, or the
\* engine refuses to write in an uncommittable transaction (see the remark on
\* locks in pltsql_clean_table_variables).
FlushError == CASE ctx.modified -> "abort"
                [] ~ctx.modified /\ tran.doomed -> "stop"
                [] OTHER -> "none"

\* Mutant of Cleaned: the transaction started for the statement is left open.
CleanedNever(f, t) == t

\* The transaction after insert_exec_flush_and_cleanup.
Cleaned(f, t) == IF ~f.started \/ implicit THEN t
                 ELSE IF t.count <= 1 THEN NoTran ELSE [t EXCEPT !.count = @ - 1]

\* The procedure is done: flush, reset, commit, and the check of the
\* transaction count.  A flush that violates a constraint is an error of the
\* statement that flushes: reported only, unless a TRY block is active.
InsertExecReturn ==
    /\ d > 1 /\ frames[d - 1].exec = "insert"
    /\ LET f == frames[d - 1]
           tries == {i \in 1 .. d - 1 : frames[i].try}
           t == Cleaned(f, tran)
       IN  IF FlushError # "none"
           THEN /\ Raise(FlushError, frames, d - 1, ctx, tran)
                /\ UNCHANGED <<buffer, flushed>>
           ELSE \E ok \in BOOLEAN :
             IF ~ok /\ tries # {}
             THEN /\ Raise("ignorable", frames, d - 1, ctx, tran)
                  /\ UNCHANGED <<buffer, flushed>>
             ELSE LET again == ~implicit /\ f.count # t.count /\ tries # {}
                  IN  /\ saved' = IF t.count = 0 THEN target ELSE saved
                      /\ work' = (t.count > 0 /\ (work \/ ok))
                      /\ ctx' = NoCtx /\ buffer' = 0
                      /\ flushed' = IF ok THEN target ELSE 0
                      /\ frames' = IF again THEN Append(SubSeq(frames, 1, Max(tries) - 1), Frame)
                                   ELSE Append(SubSeq(frames, 1, d - 2), [Frame EXCEPT !.try = f.try])
                      /\ tran' = [t EXCEPT !.doomed = again /\ t.count > 0]
                      /\ UNCHANGED <<implicit, target>>

-----------------------------------------------------------------------------
\* The batch ends, and the next one begins: an uncommittable transaction is
\* rolled back.
EndBatch == /\ d = 1 /\ (tran.doomed \/ Top.try)
            /\ frames' = <<Frame>> /\ ctx' = NoCtx
            /\ tran' = IF tran.doomed THEN NoTran ELSE tran
            /\ target' = IF tran.doomed THEN saved ELSE target
            /\ work' = (work /\ ~tran.doomed)
            /\ UNCHANGED <<implicit, buffer, saved, flushed>>

Next == \/ BeginTry \/ EndTry \/ StatementFails \/ Dml \/ DropTarget \/ CreateTarget
        \/ BeginTran \/ CommitTran \/ RollbackTran
        \/ Select \/ SelectFails \/ SelectMismatch
        \/ Exec \/ Return \/ InsertExec \/ InsertExecReturn \/ EndBatch

Spec == Init /\ [][Next]_vars

-----------------------------------------------------------------------------
\* The context is set exactly while an INSERT EXEC runs, and is the one of
\* that statement: neither an error, a nested INSERT EXEC nor the end of a
\* transaction leaves a procedure without its context or a context without
\* its procedure.
ContextMatchesStatement ==
    /\ Active <=> Running # 0
    /\ Active => ctx.level = Running

\* A procedure run by an INSERT EXEC is inside a transaction, and nothing it
\* does is committed or undone under it before the statement is left.
NothingEndsInside ==
    [][Running # 0 /\ Running' # 0
         => tran'.count > 0 /\ saved' = saved /\ (work => work')]_vars

\* An INSERT EXEC ends whole: its rows go into the table the buffer was made
\* from, and a statement that was not in a transaction leaves its work committed
\* or undone, unless the procedure left a transaction of its own open.
EndsWhole ==
    [][/\ flushed' # flushed => flushed' \in {0, ctx.oid}
       /\ Running # 0 /\ Running' = 0 /\ frames[Running].started /\ ~implicit /\ tran.count = 1
            => tran'.count = 0 /\ ~work']_vars

\* An INSERT EXEC is atomic: nothing ends inside it, and it ends whole.
InsertExecAtomic == NothingEndsInside /\ EndsWhole
=============================================================================
