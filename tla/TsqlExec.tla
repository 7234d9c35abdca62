------------------------------ MODULE TsqlExec ------------------------------
(***************************************************************************)
(* The iterative executor of T-SQL code (babelfishpg_tsql,                 *)
(* iterative_exec.c): statements, TRY...CATCH, transactions, and what the  *)
(* client is told about each statement.                                    *)
(*                                                                         *)
(* No program is fixed.  A step picks the next statement of the innermost  *)
(* running frame, so that a behaviour is a run of some T-SQL program, with *)
(* any nesting of TRY...CATCH, procedures, functions and triggers.         *)
(*                                                                         *)
(* A statement passes through exec_stmt_iterative, dispatch_stmt_handle-   *)
(* _error and dispatch_stmt.  An error in it is raised, caught in          *)
(* dispatch_stmt_handle_error, and either reported there or thrown on, to  *)
(* the CATCH block the frame's exception stack points to, or out of the    *)
(* frame and into the statement that called it.                            *)
(*                                                                         *)
(* The session is a TDS client's, without PL/pgSQL procedures on the call  *)
(* stack: pltsql_support_tsql_transactions() holds throughout.             *)
(***************************************************************************)
EXTENDS Integers, Sequences, FiniteSetsExt, TdsTokens

CONSTANTS
    Options,      \* the sessions: SET XACT_ABORT, NOCOUNT and IMPLICIT_TRANS-
                  \* ACTIONS, and what their code is made of (Settings)
    ErrorIds,     \* names of errors
    MaxFrames,    \* bound on nested frames
    MaxBlocks,    \* bound on nested TRY and CATCH blocks of a frame
    MaxTran,      \* bound on @@TRANCOUNT
    MaxLevels     \* bound on nested savepoints

FrameKinds == {"batch", "proc", "func", "trigger"}
TranCmds == {"begin", "commit", "rollback", "save", "rollbackto"}
ExecSql == {"select", "dml"} \cup TranCmds
AllKinds == ExecSql \cup {"exec", "raiserror", "throw", "rethrow"}

\* Error classes of err_handler.c, by what the tables there say of a code.
\* statement is the plain case; raiserror is not subject to XACT_ABORT; batch
\* is not ignorable; unmapped has no T-SQL code, and undefined is the unmapped
\* error of a missing table or column.
AllClasses == {"statement", "raiserror", "curbatch", "trancount", "batch",
               "txn", "unmapped", "undefined"}
Ignorable == {"statement", "raiserror", "curbatch", "trancount"}
Unmapped == {"unmapped", "undefined"}
IgnoreXactAbort == {"raiserror", "trancount"}

\* A session: its settings, the kinds of statements in its code, the kinds of
\* frames these start, the classes of the errors that a query, a DML or an EXEC
\* may meet, and whether a query may fail after it has counted its rows.
Settings == [xact : BOOLEAN, nocount : BOOLEAN, implicit : BOOLEAN,
             kinds : SUBSET AllKinds, callees : SUBSET (FrameKinds \ {"batch"}),
             classes : SUBSET (AllClasses \ {"raiserror", "trancount"}),
             late : BOOLEAN]

ASSUME OptionsAssumption == Options \subseteq Settings
ASSUME BoundsAssumption == /\ ErrorIds \subseteq Nat \ {0}
                           /\ {MaxFrames, MaxBlocks, MaxTran, MaxLevels} \subseteq Nat

VARIABLES
    opts,    \* the session's settings and code, of Options
    frames,  \* exec_state_call_stack, innermost frame last
    err,     \* the error in flight, and how far it has come
    tran,    \* the transaction of the session
    tds,     \* the state of the TDS response
    req      \* the phase of the client's request

vars == <<opts, frames, err, tran, tds, req>>

NoError == [id |-> 0, class |-> "none"]
Error == {NoError} \cup [id : ErrorIds, class : AllClasses]
Calm == [at |-> "none", e |-> NoError]
NoData == [raiser |-> 0, xact |-> FALSE, trig |-> FALSE, rethrow |-> FALSE]

\* A frame: its error contexts (err_ctx_stack), cur_err_ctx_idx, the context
\* PG_exception_stack points to (0: the PG_TRY of exec_stmt_iterative),
\* cur_error, error_data and terminate_batch; then the statement in progress
\* and its locals: how far it is, whether eval_processed is not 0, the level of
\* its internal savepoint while it lasts, @@TRANCOUNT at its start, TSQL_TRAN_
\* STARTED and impl_txn_type.  blocks is history: the TRY (NoError) and CATCH
\* (the error caught) blocks the program is in.
Frame(kind) ==
    [kind |-> kind, ctx |-> <<>>, idx |-> 0, handler |-> 0, cur |-> NoError,
     data |-> NoData, term |-> FALSE, blocks |-> <<>>,
     stmt |-> "none", at |-> "none", rows |-> FALSE, sp |-> 0, before |-> 0,
     started |-> FALSE, impl |-> "off"]

\* The transaction: NestedTranCount, IsTransactionBlockActive, the savepoints,
\* AbortCurTransaction.  taint is history: the levels (0: no savepoint) that
\* hold work of a failed statement; end says how the last one ended.
NoTran == [count |-> 0, block |-> FALSE, levels |-> <<>>, doomed |-> FALSE,
           taint |-> {}, end |-> "none"]

n == Len(frames)
Top == frames[n]
Ready == n > 0 /\ err = Calm /\ Top.stmt = "none"
Executing(at) == n > 0 /\ err = Calm /\ Top.stmt # "none" /\ Top.at = at
Past(at) == Executing(at) \/ Executing("called")

\* The top of a stack, and what is below it.  (SequencesExt has the two as well;
\* without the rest of that module the proofs are checked much faster.)
Last(s) == s[Len(s)]
Front(s) == SubSeq(s, 1, Len(s) - 1)

-----------------------------------------------------------------------------
(* Transactions (pltsql_utils.c)                                           *)

StartTran(t) == [t EXCEPT !.count = @ + 1, !.block = TRUE]
EndTran(t, how) == [NoTran EXCEPT !.end = how]
CommitTran(t) == IF t.count <= 1 THEN EndTran(t, "commit")
                                 ELSE [t EXCEPT !.count = @ - 1]
RollbackTran(t) == EndTran(t, "rollback")

\* The engine's savepoints.  Rolling back to level k undoes the work of the
\* levels above it; releasing the last level merges its work into the one below.
PushLevel(t, name) == [t EXCEPT !.levels = Append(@, name)]
RollbackTo(t, k) == [t EXCEPT !.levels = SubSeq(@, 1, k),
                              !.taint = @ \cap (0 .. k)]
Release(t) ==
    LET k == Len(t.levels) IN
    [t EXCEPT !.levels = Front(@),
              !.taint = (@ \ {k}) \cup (IF k \in @ THEN {k - 1} ELSE {})]

\* AbortCurrentTransaction outside a transaction block: nothing of it is left.
AbortAuto(t) == [t EXCEPT !.doomed = FALSE]

\* As OwnSavepoint, without comparing subtransaction ids.
OwnSavepointStarted(f, t) == f.sp # 0 /\ f.sp <= Len(t.levels)

\* The internal savepoint of a frame's statement is the current level.
OwnSavepoint(f, t) == f.sp # 0 /\ f.sp = Len(t.levels)

\* A savepoint that is gone is nobody's: subtransaction ids are not reused.
Live(fs, t) == [i \in DOMAIN fs |->
    [fs[i] EXCEPT !.sp = IF @ > Len(t.levels) THEN 0 ELSE @]]

-----------------------------------------------------------------------------
(* Error contexts (iterative_exec.c)                                       *)

\* The next context below the current one whose TRY block is still running.
NextActive(ctx, idx) ==
    LET active == {i \in 1 .. (idx - 1) : ~ctx[i].restored}
    IN  IF active = {} THEN idx
        ELSE CHOOSE i \in active : \A j \in active : j <= i

\* The innermost TRY block the program is in, 0 if none.
InnermostTry(f) ==
    LET tries == {i \in DOMAIN f.blocks : f.blocks[i] = NoError}
    IN  IF tries = {} THEN 0 ELSE CHOOSE i \in tries : \A j \in tries : j <= i

\* create_error_ctx and the first return of sigsetjmp.
SaveCtx(f) ==
    [f EXCEPT !.ctx = Append(@, [handler |-> f.handler, saved |-> f.cur,
                                 restored |-> FALSE]),
              !.idx = Len(f.ctx) + 1, !.handler = Len(f.ctx) + 1,
              !.blocks = Append(@, NoError)]

\* As RestoreFull, leaving the exception stack to the finished TRY block.
RestoreFullKeepsHandler(f) ==
    LET rest == Front(f.ctx) IN
    [f EXCEPT !.ctx = rest, !.idx = NextActive(rest, f.idx), !.blocks = Front(@)]

\* restore_ctx_full, at the end of a TRY block.
RestoreFull(f) ==
    LET rest == Front(f.ctx) IN
    [f EXCEPT !.handler = f.ctx[f.idx].handler, !.ctx = rest,
              !.idx = NextActive(rest, f.idx), !.blocks = Front(@)]

\* As RestorePartial, leaving the caught error in cur_error.
RestorePartialKeepsError(f) == [f EXCEPT !.ctx = Front(@), !.blocks = Front(@)]

\* restore_ctx_partial2, at the end of a CATCH block.
RestorePartial(f) == [f EXCEPT !.cur = Last(f.ctx).saved, !.ctx = Front(@),
                               !.blocks = Front(@)]

\* The second return of sigsetjmp: dangling contexts are dropped, the TRY
\* block is left (restore_ctx_partial1), its CATCH block begins.
Landed(f, e) ==
    LET i == f.idx
        kept == SubSeq(f.ctx, 1, i)
        left == [kept EXCEPT ![i].restored = TRUE]
        try == InnermostTry(f)
    IN  [f EXCEPT !.ctx = left, !.handler = f.ctx[i].handler, !.cur = e,
                  !.idx = NextActive(left, i),
                  !.blocks = Append(SubSeq(@, 1, try - 1), e)]

\* is_part_of_pltsql_trycatch_block and is_part_of_pltsql_trigger.
PartOfTry(fs) == \E i \in DOMAIN fs :
    \/ Len(fs[i].ctx) > 1
    \/ Len(fs[i].ctx) = 1 /\ ~fs[i].ctx[1].restored
PartOfTrigger(fs) == \E i \in DOMAIN fs : fs[i].kind = "trigger"

-----------------------------------------------------------------------------
(* Statements                                                              *)

\* What StatementEnd_Internal sees of statement k of frame f.
Ended(f, k) == [silent |-> f.kind = "func" \/ k = "none",
                proc |-> k = "exec",
                rows |-> k \in {"select", "dml"} /\ f.rows,
                hidden |-> opts.nocount /\ k # "select"]

\* A statement of the main loop's own: SAVE_CTX and the two restores.
Plain(t) == StatementEnd(StatementBegin(t), Ended(Top, "ctx"))

\* reset_exec_error_data.
Reset(f) == [f EXCEPT !.data = [NoData EXCEPT !.trig = f.kind = "trigger" /\ f.data.trig]]

SetTop(f) == [frames EXCEPT ![n] = f]

\* The statements a frame may hold: a function neither changes tables, nor
\* calls procedures, nor ends transactions; only a CATCH block rethrows.
Allowed(f, k) ==
    /\ f.kind = "func" => k = "select"
    /\ k = "rethrow" => f.cur # NoError

\* The batch of a request begins to run.
StartBatch ==
    /\ req = "idle"
    /\ req' = "running"
    /\ frames' = <<Frame("batch")>>
    /\ tds' = [tds EXCEPT !.empty = TRUE]
    /\ UNCHANGED <<opts, err, tran>>

EnterTry ==
    /\ Ready /\ Top.kind # "func" /\ Len(Top.blocks) < MaxBlocks
    /\ frames' = SetTop(SaveCtx(Reset(Top)))
    /\ tds' = Plain(tds)
    /\ UNCHANGED <<opts, err, tran, req>>

\* The end of a TRY block, or a GOTO, BREAK, CONTINUE or RETURN out of it, for
\* which cleanup_exception_context emits the same restores, innermost first.
EndTry ==
    /\ Ready /\ Top.blocks # <<>> /\ Last(Top.blocks) = NoError
    /\ frames' = SetTop(RestoreFull(Reset(Top)))
    /\ tds' = Plain(tds)
    /\ UNCHANGED <<opts, err, tran, req>>

EndCatch ==
    /\ Ready /\ Top.blocks # <<>> /\ Last(Top.blocks) # NoError
    /\ frames' = SetTop(RestorePartial(Reset(Top)))
    /\ tds' = Plain(tds)
    /\ UNCHANGED <<opts, err, tran, req>>

\* The head of dispatch_stmt_handle_error: an implicit transaction, then the
\* internal savepoint.
BeginStmt(k) ==
    LET implicit == opts.implicit /\ ~tran.block /\ k \in ExecSql
        t == IF implicit THEN StartTran(tran) ELSE tran
        sp == Top.kind # "func" /\ k # "exec" /\ t.block
    IN  /\ Ready /\ Allowed(Top, k) /\ Len(tran.levels) < MaxLevels
        /\ k = "begin" => t.count < MaxTran
        /\ tran' = IF sp THEN PushLevel(t, "internal") ELSE t
        /\ frames' = SetTop(
             [Reset(Top) EXCEPT
                !.stmt = k, !.at = IF k \in ExecSql THEN "prepare" ELSE "execute",
                !.rows = FALSE, !.before = tran.count, !.started = FALSE,
                !.sp = IF sp THEN Len(tran'.levels) ELSE 0,
                !.impl = IF implicit THEN "start" ELSE "off"])
        /\ tds' = StatementBegin(tds)
        /\ UNCHANGED <<opts, err, req>>

\* Whether the plan of a statement needs an implicit transaction.
ImplicitNeeded(k) == CASE k = "select" -> BOOLEAN
                       [] k \in {"dml", "begin"} -> {TRUE}
                       [] OTHER -> {FALSE}

\* exec_stmt_execsql up to the execution of the plan: an implicit transaction
\* that is not needed is committed, and a DML outside a transaction block gets
\* one of its own for its triggers.
Prepare ==
    /\ Executing("prepare")
    /\ \E needed \in ImplicitNeeded(Top.stmt) :
         LET drop == Top.impl = "start" /\ ~needed
             t == IF drop THEN CommitTran(tran) ELSE tran
             start == Top.stmt = "dml" /\ ~t.block
         IN  /\ Top.impl # "start" => \A b \in ImplicitNeeded(Top.stmt) : b => needed
             /\ tran' = IF start THEN StartTran(t) ELSE t
             /\ frames' = Live(SetTop([Top EXCEPT
                  !.at = "execute", !.started = start,
                  !.impl = IF @ = "start" /\ needed THEN "on" ELSE "off"]), tran')
    /\ UNCHANGED <<opts, err, tds, req>>

\* The statement starts a frame: EXEC a procedure, a DML its trigger, a query
\* or a DML a function.
Call(kind) ==
    /\ n < MaxFrames
    /\ CASE kind = "proc" -> Executing("execute") /\ Top.stmt = "exec"
         [] kind = "trigger" -> Past("execute") /\ Top.stmt = "dml"
         [] kind = "func" -> Executing("execute") /\ Top.stmt \in {"select", "dml"}
    /\ frames' = Append(frames, Frame(kind))
    /\ UNCHANGED <<opts, err, tran, tds, req>>

\* The tail of dispatch_stmt_handle_error, and the end of the statement: the
\* internal savepoint is released if it is still the current level.
Finish(f, t) ==
    /\ tran' = IF OwnSavepoint(f, t) THEN Release(t) ELSE t
    /\ frames' = Live(SetTop([f EXCEPT !.stmt = "none", !.at = "none", !.sp = 0]), tran')
    /\ tds' = StatementEnd(tds, Ended(f, f.stmt))
    /\ UNCHANGED <<opts, err, req>>

\* A query or DML completes; commit_stmt commits the transaction that was
\* started for it.
CompleteSql ==
    /\ Past("execute") /\ Top.stmt \in {"select", "dml"}
    /\ \E rows \in BOOLEAN :
         Finish([Top EXCEPT !.rows = rows],
                IF Top.started THEN CommitTran(tran) ELSE tran)

\* A transaction count that differs from the one before an EXEC is an error.
CountMismatch == /\ ~opts.implicit
                 /\ ~PartOfTrigger(frames)
                 /\ Top.before # tran.count

CompleteExec == /\ Executing("called") /\ Top.stmt = "exec" /\ ~CountMismatch
                /\ Finish(Top, tran)

\* The last level the user's savepoint is at, 0 if there is none.
UserLevel(t) ==
    LET user == {i \in DOMAIN t.levels : t.levels[i] = "user"}
    IN  IF user = {} THEN 0 ELSE CHOOSE i \in user : \A j \in user : j <= i

\* As TranError, without asking whether the transaction is uncommittable.
TranErrorUnchecked(k, t) ==
    CASE k = "begin" -> "none"
      [] ~t.block -> IF k = "save" THEN "txn" ELSE "statement"
      [] k = "rollbackto" /\ UserLevel(t) = 0 -> "statement"
      [] OTHER -> "none"

\* Why PLTsqlProcessTransaction refuses command k, as an error class.
TranError(k, t) ==
    CASE t.doomed /\ k \in {"begin", "commit", "save"} -> "batch"
      [] k = "begin" -> "none"
      [] ~t.block -> IF k = "save" THEN "txn" ELSE "statement"
      [] k = "rollbackto" /\ UserLevel(t) = 0 -> "statement"
      [] OTHER -> "none"

\* What the command does to the transaction.
TranEffect(k, t) ==
    CASE k = "begin" -> StartTran(t)
      [] k = "commit" -> CommitTran(t)
      [] k = "rollback" -> RollbackTran(t)
      [] k = "save" -> PushLevel(t, "user")
      [] k = "rollbackto" -> RollbackTo(t, UserLevel(t) - 1)

CompleteTran ==
    /\ Executing("execute") /\ Top.stmt \in TranCmds
    /\ TranError(Top.stmt, tran) = "none"
    /\ Finish(Top, TranEffect(Top.stmt, tran))

-----------------------------------------------------------------------------
(* Errors                                                                  *)

\* Errors somebody still holds on to.
InUse == UNION {{frames[i].cur.id} \cup {frames[i].ctx[j].saved.id : j \in DOMAIN frames[i].ctx}
                  \cup {frames[i].blocks[j].id : j \in DOMAIN frames[i].blocks}
                : i \in DOMAIN frames}

\* A name not in use.
Fresh == CHOOSE i \in ErrorIds \ InUse : TRUE

\* An error leaves the statement of frame f, in the work of which it happened.
\* Only a DML has work that would have to be undone.
Fail(f, e) ==
    /\ err' = [at |-> "raised", e |-> e]
    /\ tran' = [tran EXCEPT !.taint = IF f.stmt = "dml" /\ tran.block
                                       THEN @ \cup {Len(tran.levels)} ELSE @]
    /\ frames' = SetTop(f)
    /\ UNCHANGED <<opts, tds, req>>

Raise(f, c) == /\ ErrorIds \ InUse # {}
               /\ Fail(f, [id |-> Fresh, class |-> c])

\* A query, DML or EXEC meets an error: in its planning or execution, or, for
\* a query that assigns its result to variables, after its rows are counted.
\* After its triggers a DML only meets errors without a T-SQL code, those of
\* pltsql_update_identity_insert_sequence.
RaiseSql ==
    /\ Executing("prepare") \/ Past("execute")
    /\ Top.stmt \in {"select", "dml", "exec"}
    /\ Top.at = "called" => Top.stmt = "dml"
    /\ \E c \in opts.classes, late \in BOOLEAN :
         /\ Top.at = "called" => c \in Unmapped
         /\ late => opts.late /\ Top.stmt = "select" /\ Top.at = "execute"
         /\ Raise([Top EXCEPT !.rows = late], c)

RaiseTran ==
    /\ Executing("execute") /\ Top.stmt \in TranCmds
    /\ TranError(Top.stmt, tran) # "none"
    /\ Raise(Top, TranError(Top.stmt, tran))

RaiseMismatch == /\ Executing("called") /\ Top.stmt = "exec" /\ CountMismatch
                 /\ Raise(Top, "trancount")

\* RAISERROR, and THROW with arguments.
RaiseUser ==
    /\ Executing("execute") /\ Top.stmt \in {"raiserror", "throw"}
    /\ Raise(Top, IF Top.stmt = "throw" THEN "batch" ELSE "raiserror")

\* THROW without arguments.
Rethrow ==
    /\ Executing("execute") /\ Top.stmt = "rethrow"
    /\ Fail([Top EXCEPT !.data.rethrow = TRUE], Top.cur)

\* record_error_state.
Recorded(f) ==
    IF f.data.raiser # 0 THEN f.data
    ELSE [f.data EXCEPT !.raiser = n, !.xact = @ \/ opts.xact,
                        !.trig = @ \/ f.kind = "trigger"]

\* abort_transaction: the transaction can no longer be committed.
AbortTransaction(d, c) ==
    \/ c = "txn"
    \/ PartOfTrigger(frames) \/ d.trig
    \/ c = "trancount" /\ PartOfTry(frames)
    \/ d.xact /\ (PartOfTry(frames) \/ c \notin IgnoreXactAbort)

\* abort_only_current_batch.
AbortCurrentBatch(d, c) == c = "curbatch" /\ d.raiser = n

\* abort_execution: the error leaves the statement.
AbortExecution(d, c) ==
    \/ c \notin Ignorable
    \/ AbortCurrentBatch(d, c)
    \/ PartOfTrigger(frames) \/ d.trig
    \/ d.rethrow
    \/ PartOfTry(frames)
    \/ d.xact /\ c \notin IgnoreXactAbort

\* As Undone, without the rollback of the internal savepoint.
UndoneOutside(f, t) ==
    CASE ~t.block -> AbortAuto(t)
      [] t.block /\ f.started -> RollbackTran(t)
      [] OTHER -> t

\* The undo of the failed statement of frame f, in the handler of
\* dispatch_stmt_handle_error.
Undone(f, t) ==
    CASE OwnSavepoint(f, t) -> RollbackTo(t, f.sp - 1)
      [] ~OwnSavepoint(f, t) /\ ~t.block -> AbortAuto(t)
      [] ~OwnSavepoint(f, t) /\ t.block /\ f.started -> RollbackTran(t)
      [] OTHER -> t

\* As ImplicitUndone, keeping the implicit transaction.
ImplicitKept(f, t) == t

\* An implicit transaction whose statement failed before it had a plan.
ImplicitUndone(f, t) ==
    IF opts.implicit /\ t.block /\ f.impl = "start" THEN RollbackTran(t) ELSE t

\* The handler of dispatch_stmt_handle_error, with handle_error.  A function
\* leaves everything to its caller.
CaughtInFunction ==
    /\ err.at = "raised" /\ Top.kind = "func"
    /\ err' = [err EXCEPT !.at = "thrown"]
    /\ UNCHANGED <<opts, frames, tran, tds, req>>

Caught ==
    LET c == err.e.class
        d == Recorded(Top)
        t == ImplicitUndone(Top, Undone(Top, tran))
        doom == t.block /\ (c \in Unmapped \/ AbortTransaction(d, c))
        out == c \in Unmapped \/ AbortExecution(d, c)
        f == [Top EXCEPT !.data = d, !.impl = "off",
                !.started = @ /\ t.block,
                !.term = @ \/ (c \in Ignorable /\ AbortCurrentBatch(d, c))]
    IN  /\ err.at = "raised" /\ Top.kind # "func"
        /\ tran' = [t EXCEPT !.doomed = @ \/ doom]
        /\ \/ /\ out
              /\ err' = [err EXCEPT !.at = "thrown"]
              /\ frames' = Live(SetTop(f), t)
              /\ tds' = tds
           \/ /\ ~out
              /\ err' = Calm
              /\ frames' = Live(SetTop([f EXCEPT !.stmt = "none", !.at = "none", !.sp = 0]), t)
              /\ tds' = StatementEnd(SendError(tds), Ended(f, f.stmt))
        /\ UNCHANGED <<opts, req>>

\* ignore_catch_block_for_unmapped_error, and a batch that is being left.
IgnoresCatch(f, c) ==
    \/ c = "unmapped"
    \/ c = "undefined" /\ (PartOfTrigger(frames) \/ f.data.raiser = n)
    \/ f.term

\* As Land, throwing on an error the CATCH block ignores before the exception
\* stack has left the TRY block.
LandAgain ==
    /\ err.at = "thrown" /\ Top.handler # 0
    /\ \/ /\ IgnoresCatch(Top, err.e.class)
          /\ UNCHANGED <<frames, err, tds>>
       \/ /\ ~IgnoresCatch(Top, err.e.class)
          /\ frames' = SetTop([Landed(Top, err.e) EXCEPT !.stmt = "none", !.at = "none", !.sp = 0])
          /\ err' = Calm
          /\ \E k \in {Top.stmt, "ctx"} : tds' = StatementEnd(tds, Ended(Top, k))
    /\ UNCHANGED <<opts, tran, req>>

\* The error reaches a SAVE_CTX of the frame.  The loop then ends the statement
\* its variable stmt names, which after the longjmp may be either the failed
\* one or the SAVE_CTX: stmt is not volatile.
Land ==
    /\ err.at = "thrown" /\ Top.handler # 0
    /\ LET f == Landed(Top, err.e) IN
       \/ /\ IgnoresCatch(Top, err.e.class)
          /\ frames' = SetTop(f)
          /\ UNCHANGED <<err, tds>>
       \/ /\ ~IgnoresCatch(Top, err.e.class)
          /\ frames' = SetTop([f EXCEPT !.stmt = "none", !.at = "none", !.sp = 0])
          /\ err' = Calm
          /\ \E k \in {Top.stmt, "ctx"} : tds' = StatementEnd(tds, Ended(Top, k))
    /\ UNCHANGED <<opts, tran, req>>

\* As BatchEnd, leaving an uncommittable transaction of a batch that succeeded.
BatchEndOnError(t, failed) == CASE failed /\ t.doomed -> RollbackTran(t)
                                [] failed /\ ~t.doomed /\ ~t.block -> AbortAuto(t)
                                [] OTHER -> t

\* terminate_batch at the end of the outermost frame.
BatchEnd(t, failed) == CASE t.doomed -> RollbackTran(t)
                         [] ~t.doomed /\ failed /\ ~t.block -> AbortAuto(t)
                         [] OTHER -> t

\* The frame below takes over the error data; an error that comes out of a
\* trigger leaves the work of its DML behind.
Caller(d) ==
    LET g == frames[n - 1] IN
    Append(SubSeq(frames, 1, n - 2),
           [g EXCEPT !.data = d, !.at = IF Top.kind = "func" THEN @ ELSE "called"])
LeftBehind(t) ==
    LET g == frames[n - 1] IN
    IF g.stmt = "dml" /\ t.block /\ (g.sp # 0 \/ g.started)
    THEN [t EXCEPT !.taint = @ \cup {g.sp}] ELSE t

\* No CATCH block is left: the error leaves the frame.  Here too stmt may have
\* lost its value.
Unwind ==
    /\ err.at = "thrown" /\ Top.handler = 0
    /\ \E k \in {Top.stmt, "none"} :
         tds' = StatementException(tds, Ended(Top, k), Top.term \/ ~PartOfTry(frames))
    /\ \/ /\ n = 1
          /\ frames' = <<>>
          /\ tran' = BatchEnd(tran, TRUE)
          /\ err' = [at |-> "out", e |-> NoError]
       \/ /\ n > 1
          /\ frames' = Caller(Top.data)
          /\ tran' = LeftBehind(tran)
          /\ err' = [err EXCEPT !.at = "raised"]
    /\ UNCHANGED <<opts, req>>

\* A procedure, function or trigger ends.  A trigger fails at its end if it
\* has ended the transaction, or if one of its statements failed.
TriggerFails == Top.kind = "trigger" /\ (tran.count = 0 \/ Top.data.trig)

Return ==
    /\ Ready /\ Top.blocks = <<>> /\ n > 1
    /\ frames' = Caller(Reset(Top).data)
    /\ \/ /\ TriggerFails
          /\ err' = [at |-> "raised", e |-> [id |-> Fresh, class |-> "txn"]]
          /\ ErrorIds \ InUse # {}
          /\ tran' = LeftBehind(tran)
       \/ ~TriggerFails /\ UNCHANGED <<err, tran>>
    /\ UNCHANGED <<opts, tds, req>>

\* The batch ends.  A transaction that cannot be committed is rolled back, and
\* the client told so.
EndOfBatch ==
    /\ Ready /\ Top.blocks = <<>> /\ n = 1
    /\ frames' = <<>>
    /\ tran' = BatchEnd(tran, FALSE)
    /\ err' = IF tran.doomed THEN [at |-> "out", e |-> NoError] ELSE Calm
    /\ UNCHANGED <<opts, tds, req>>

\* A batch that does not compile.  Whether that dooms the transaction depends
\* on the error: always, under XACT_ABORT, or never.
CompileError ==
    /\ req = "idle"
    /\ req' = "running"
    /\ \E dooms \in {"always", "xact", "never"} :
         LET doom == tran.block /\ (dooms = "always" \/ (dooms = "xact" /\ opts.xact))
         IN  tran' = BatchEnd([tran EXCEPT !.doomed = @ \/ doom], TRUE)
    /\ err' = [at |-> "out", e |-> NoError]
    /\ tds' = [tds EXCEPT !.empty = TRUE]
    /\ UNCHANGED <<opts, frames>>

\* As Respond, without a DONE token for a response that has none.
RespondMaybeEmpty ==
    /\ req = "running" /\ frames = <<>>
    /\ req' = "flush"
    /\ err' = Calm
    /\ tds' = IF err # Calm THEN SendDone(SendError(tds), "DONE", TRUE, FALSE, FALSE)
              ELSE tds
    /\ UNCHANGED <<opts, frames, tran>>

\* ProcessTDSRequest: an error that came out of the batch is reported; a
\* response without a DONE token gets one.
Respond ==
    /\ req = "running" /\ frames = <<>>
    /\ req' = "flush"
    /\ err' = Calm
    /\ tds' = IF err # Calm THEN SendDone(SendError(tds), "DONE", TRUE, FALSE, FALSE)
              ELSE IF tds.empty THEN SendDone(tds, "DONE", FALSE, FALSE, FALSE)
              ELSE tds
    /\ UNCHANGED <<opts, frames, tran>>

FlushResponse ==
    /\ req = "flush"
    /\ req' = "idle"
    /\ tds' = Flush(tds)
    /\ UNCHANGED <<opts, frames, err, tran>>

-----------------------------------------------------------------------------

Init == /\ opts \in Options
        /\ frames = <<>>
        /\ err = Calm
        /\ tran = NoTran
        /\ tds = Idle
        /\ req = "idle"

\* The steps of an error, and of the end of a request.
Handling == CaughtInFunction \/ Caught \/ Land \/ Unwind \/ Respond \/ FlushResponse

Next == \/ StartBatch \/ CompileError
        \/ EnterTry \/ EndTry \/ EndCatch
        \/ \E k \in opts.kinds : BeginStmt(k)
        \/ Prepare
        \/ \E kind \in opts.callees : Call(kind)
        \/ CompleteSql \/ CompleteExec \/ CompleteTran
        \/ RaiseSql \/ RaiseTran \/ RaiseMismatch \/ RaiseUser \/ Rethrow
        \/ Return \/ EndOfBatch
        \/ Handling

Spec == Init /\ [][Next]_vars
FairSpec == Spec /\ WF_vars(Handling)

-----------------------------------------------------------------------------

CtxT == [handler : Nat, saved : Error, restored : BOOLEAN]
DataT == [raiser : Nat, xact : BOOLEAN, trig : BOOLEAN, rethrow : BOOLEAN]
FrameT == [kind : FrameKinds, ctx : Seq(CtxT), idx : Nat, handler : Nat,
           cur : Error, data : DataT, term : BOOLEAN, blocks : Seq(Error),
           stmt : AllKinds \cup {"none"},
           at : {"none", "prepare", "execute", "called"}, rows : BOOLEAN,
           sp : Nat, before : Nat, started : BOOLEAN,
           impl : {"off", "start", "on"}]
TranT == [count : Nat, block : BOOLEAN, levels : Seq({"internal", "user"}),
          doomed : BOOLEAN, taint : SUBSET Nat,
          end : {"none", "commit", "rollback"}]
TdsT == [stack : Nat, offset : Nat, mark : BOOLEAN, pend : Dones \cup {NoDone},
         empty : BOOLEAN, owed : BOOLEAN, bare : BOOLEAN]

\* Type invariant of the executor's state.  No count goes below 0.
TypeOK == /\ opts \in Options
          /\ frames \in Seq(FrameT)
          /\ err \in [at : {"none", "raised", "thrown", "out"}, e : Error]
          /\ tran \in TranT
          /\ tds \in TdsT
          /\ req \in {"idle", "running", "flush"}

\* The error contexts of every frame mirror the blocks its program is in: one
\* per block, restored partially in a CATCH block, and the exception stack and
\* cur_err_ctx_idx name the innermost TRY block, so that an error goes there
\* (create_error_ctx, restore_ctx_full, restore_ctx_partial1 and 2).
HandlerIsInnermostTry ==
    \A i \in DOMAIN frames :
        LET f == frames[i] IN
        /\ Len(f.ctx) = Len(f.blocks)
        /\ \A j \in DOMAIN f.ctx : f.ctx[j].restored <=> f.blocks[j] # NoError
        /\ f.handler = InnermostTry(f)
        /\ f.handler # 0 => f.idx = f.handler

\* In a CATCH block cur_error is the error that block caught, whatever errors
\* its own TRY blocks, and those of its callees, have met and handled since;
\* outside of one there is none.  It is what ERROR_NUMBER() and THROW use.
CatchSeesItsError ==
    \A i \in DOMAIN frames :
        LET f == frames[i]
            caught == {j \in DOMAIN f.blocks : f.blocks[j] # NoError}
        IN  f.cur = IF caught = {} THEN NoError ELSE f.blocks[Max(caught)]

\* The protocol's stack counts the statements in progress, and no error is
\* left unaccounted for when the next one begins
\* (Assert(error_stack_offset == 0) in TDSStatementBeginCallback).
StatementsCounted ==
    /\ tds.stack = Cardinality({i \in DOMAIN frames : frames[i].stmt # "none"})
    /\ Ready \/ req = "idle" => tds.offset = 0

\* Every response ends with one DONE or DONEPROC token, with no statement
\* still open and no error yet to be flagged (the assertions of
\* SendPendingDone and TdsFlush).
ResponseEndsWithDone ==
    req = "flush" => /\ tds.pend # NoDone
                     /\ tds.pend.token \in {"DONE", "DONEPROC"}
                     /\ tds.stack = 0
                     /\ ~tds.mark

\* The DONE token after an ERROR token has the error flag: "we've sent an
\* error token and the next done token should have the error flag marked".
\* Under NOCOUNT the flagged token may be the one that is suppressed.
ErrorsAreFlagged == opts.nocount \/ ~tds.bare

\* The response of a batch is well formed: every statement accounted for, every
\* error flagged, and one DONE at the end.
ResponseWellFormed == TypeOK /\ StatementsCounted /\ ResponseEndsWithDone /\ ErrorsAreFlagged

\* An uncommittable transaction is an open one, and never survives its batch
\* (Assert(exec_state_call_stack != NULL || !AbortCurTransaction)); otherwise
\* terminate_batch would roll back a transaction that is not there.
DoomedIsOpen == tran.doomed => tran.block /\ frames # <<>>

\* Whatever a failed statement has changed is undone before the next statement
\* runs, unless the transaction can no longer be committed
\* (dispatch_stmt_handle_error).
NoPartialWork == err = Calm /\ tran.taint # {} => tran.doomed

\* Between statements a transaction is whole, or open and uncommittable.
WholeOrDoomed == DoomedIsOpen /\ NoPartialWork

\* What is committed is neither uncommittable nor the rest of a failed
\* statement ("Cases where transaction is no longer committable",
\* abort_transaction).
CommitsAreClean ==
    [][tran.block /\ ~tran'.block /\ tran'.end = "commit"
         => ~tran.doomed /\ tran.taint = {}]_vars

\* While its transaction lasts, a user's savepoint comes with the SAVE that
\* defines it and goes only with a ROLLBACK TO: neither the release nor the undo
\* of an internal savepoint takes it along (dispatch_stmt_handle_error).
UserSavepointsKept ==
    [][LET users(t) == Cardinality({i \in DOMAIN t.levels : t.levels[i] = "user"})
           saved == Executing("execute") /\ Top.stmt = "save" /\ err' = Calm
       IN  tran.block /\ tran'.block =>
             \/ users(tran') = users(tran) + (IF saved THEN 1 ELSE 0)
             \/ users(tran') < users(tran) /\ Top.stmt = "rollbackto"]_vars

\* A query or DML that began outside a transaction and failed leaves none open,
\* neither its own nor an implicit one, unless its plan had asked for that one:
\* "we rollback the transaction to align with the default autocommit behaviour"
\* (dispatch_stmt_handle_error).
FailureLeavesNoTran ==
    [][err.at = "raised" /\ err' = Calm /\ Top.before = 0
         /\ Top.stmt \in {"select", "dml"} /\ Top.impl # "on"
         => ~tran'.block]_vars

\* The executor keeps the session's promise about its transaction.
XactState == IF ~tran.block THEN "none" ELSE IF tran.doomed THEN "doomed" ELSE "active"
Promise == INSTANCE TsqlTran WITH MaxCount <- MaxTran + 1, count <- tran.count,
                                  state <- XactState, end <- tran.end
KeepsPromise == Promise!TSpec

\* An error in flight comes to rest: it is reported, caught or sent to the
\* client; no CATCH block that lets an error through meets it again.
ErrorSettles == err # Calm ~> err = Calm
=============================================================================
