------------------------- MODULE TsqlSessionProofs --------------------------
(***************************************************************************)
(* Proofs about what the client of a session sees of TsqlExec, for every   *)
(* session and every bound: the user's savepoints, which the executor's    *)
(* own savepoints leave alone, and the response to every batch.            *)
(***************************************************************************)
EXTENDS TsqlTranProofs, FiniteSetTheorems

-----------------------------------------------------------------------------
(* The user's savepoints.                                                  *)

\* The levels that are the user's.
Users(t) == {i \in DOMAIN t.levels : t.levels[i] = "user"}

LEMMA PushedUsers ==
    ASSUME NEW t \in TranT, NEW l
    PROVE  Users(PushLevel(t, l)) =
             Users(t) \cup (IF l = "user" THEN {Len(t.levels) + 1} ELSE {})
<1> DEFINE u == PushLevel(t, l)
<1>1. t.levels \in Seq({"internal", "user"}) /\ Len(t.levels) \in Nat
      /\ u.levels = Append(t.levels, l)
  BY DEF TranT, PushLevel
<1>. HIDE DEF u
<1>2. /\ DOMAIN t.levels = 1 .. Len(t.levels)
      /\ DOMAIN u.levels = 1 .. (Len(t.levels) + 1)
      /\ u.levels[Len(t.levels) + 1] = l
      /\ \A i \in 1 .. Len(t.levels) : u.levels[i] = t.levels[i]
  BY <1>1
<1>3. \A i \in DOMAIN u.levels : i = Len(t.levels) + 1 \/ i \in 1 .. Len(t.levels)
  BY <1>1, <1>2
<1>. QED
  BY <1>1, <1>2, <1>3 DEF Users, u

LEMMA CutUsers ==
    ASSUME NEW t \in TranT, NEW k \in Nat, k <= Len(t.levels),
           NEW u, u.levels = SubSeq(t.levels, 1, k)
    PROVE  Users(u) = Users(t) \cap (1 .. k)
<1>1. t.levels \in Seq({"internal", "user"}) /\ Len(t.levels) \in Nat
  BY DEF TranT
<1>2. /\ DOMAIN t.levels = 1 .. Len(t.levels) /\ DOMAIN u.levels = 1 .. k
      /\ \A i \in 1 .. k : u.levels[i] = t.levels[i] /\ i \in 1 .. Len(t.levels)
  BY <1>1
<1>. QED
  BY <1>2 DEF Users

\* Dropping a last level that is internal takes no user's level along.
LEMMA PoppedUsers ==
    ASSUME NEW t \in TranT, Len(t.levels) > 0, t.levels[Len(t.levels)] = "internal",
           NEW u, u.levels = SubSeq(t.levels, 1, Len(t.levels) - 1)
    PROVE  Users(u) = Users(t)
<1>1. Len(t.levels) \in Nat /\ Len(t.levels) - 1 \in Nat /\ DOMAIN t.levels = 1 .. Len(t.levels)
  BY DEF TranT
<1>2. Users(u) = Users(t) \cap (1 .. (Len(t.levels) - 1))
  BY <1>1, CutUsers
<1>3. \A i \in Users(t) : i \in 1 .. (Len(t.levels) - 1)
  <2>. TAKE i \in Users(t)
  <2>1. i \in 1 .. Len(t.levels) /\ t.levels[i] = "user"
    BY <1>1 DEF Users
  <2>2. i # Len(t.levels)
    BY <2>1
  <2>. QED
    BY <1>1, <2>1, <2>2
<1>. QED
  BY <1>2, <1>3

\* A ROLLBACK TO goes back to before the last user's savepoint.
LEMMA RolledBackUsers ==
    ASSUME NEW t \in TranT, UserLevel(t) # 0
    PROVE  LET u == RollbackTo(t, UserLevel(t) - 1) IN
           Users(u) \subseteq Users(t) /\ Users(u) # Users(t)
<1> DEFINE k == UserLevel(t)
           u == RollbackTo(t, k - 1)
<1>1. k \in 1 .. Len(t.levels) /\ t.levels[k] = "user" /\ DOMAIN t.levels = 1 .. Len(t.levels)
      /\ Len(t.levels) \in Nat
  <2>1. k \in 0 .. Len(t.levels) /\ t.levels[k] = "user" /\ Len(t.levels) \in Nat
        /\ DOMAIN t.levels = 1 .. Len(t.levels)
    BY UserLevelFacts DEF TranT
  <2>. QED
    BY <2>1
<1>2. u.levels = SubSeq(t.levels, 1, k - 1)
  BY DEF RollbackTo, TranT
<1>. HIDE DEF u, k
<1>3. k - 1 \in Nat /\ k - 1 <= Len(t.levels)
  BY <1>1
<1>4. Users(u) = Users(t) \cap (1 .. (k - 1))
  BY <1>2, <1>3, CutUsers
<1>5. k \in Users(t) /\ k \notin 1 .. (k - 1)
  BY <1>1 DEF Users
<1>. QED
  BY <1>4, <1>5 DEF u, k

\* What a step does to the user's savepoints of a transaction it keeps.
SaveDone == Executing("execute") /\ Top.stmt = "save" /\ err' = Calm

UserStep == tran.block /\ tran'.block =>
    \/ ~SaveDone /\ Users(tran') = Users(tran)
    \/ SaveDone /\ Users(tran') = Users(tran) \cup {Len(tran.levels) + 1}
    \/ /\ Top.stmt = "rollbackto"
       /\ Users(tran') \subseteq Users(tran) /\ Users(tran') # Users(tran)

\* Most steps leave the savepoints alone.
LEMMA LevelsKept ==
    ASSUME tran'.levels = tran.levels, ~SaveDone
    PROVE  UserStep
BY DEF UserStep, Users

LEMMA BeginStmtUsers ==
    ASSUME TranInv, NEW k, BeginStmt(k)
    PROVE  UserStep
<1>1. n > 0 /\ Top.stmt = "none"
  BY DEF BeginStmt, Ready
<1>2. ~SaveDone
  BY <1>1 DEF SaveDone
<1>3. CASE ~tran.block
  BY <1>3 DEF UserStep
<1>4. CASE tran.block
  <2>1. tran' = PushLevel(tran, "internal") \/ tran' = tran
    BY <1>4 DEF BeginStmt
  <2>2. tran \in TranT
    BY <1>1, TopKept
  <2>3. Users(PushLevel(tran, "internal")) = Users(tran)
    BY <2>2, PushedUsers
  <2>. QED
    BY <1>2, <2>1, <2>3 DEF UserStep
<1>. QED
  BY <1>3, <1>4

LEMMA PrepareUsers == ASSUME TranInv, Prepare PROVE UserStep
<1>1. n > 0 /\ Top.at = "prepare"
  BY DEF Prepare, Executing
<1>2. ~SaveDone
  BY <1>1 DEF SaveDone, Executing
<1>3. PICK needed \in ImplicitNeeded(Top.stmt) :
         LET drop == Top.impl = "start" /\ ~needed
             t == IF drop THEN CommitTran(tran) ELSE tran
             start == Top.stmt = "dml" /\ ~t.block
         IN  tran' = IF start THEN StartTran(t) ELSE t
  BY DEF Prepare
<1>4. tran \in TranT /\ TranOK(tran)
  BY <1>1, TopKept
<1>5. CASE tran.block /\ Top.stmt = "dml"
  <2>1. needed = TRUE
    BY <1>3, <1>5 DEF ImplicitNeeded
  <2>2. tran' = tran
    BY <1>3, <1>5, <2>1
  <2>. QED
    BY <1>2, <2>2, LevelsKept
<1>6. CASE tran.block /\ Top.stmt # "dml"
  <2>1. tran' = tran \/ tran' = CommitTran(tran)
    BY <1>3, <1>6
  <2>2. ~tran'.block \/ tran'.levels = tran.levels
    BY <1>4, <2>1, CommitTranFacts
  <2>. QED
    BY <1>2, <2>2, LevelsKept DEF UserStep
<1>. QED
  BY <1>5, <1>6 DEF UserStep

\* The end of a statement releases its own savepoint at most.
LEMMA FinishUsers ==
    ASSUME TranInv, n > 0, NEW f, f.sp = Top.sp, NEW t \in TranT, Agree(tran, t), Finish(f, t)
    PROVE  Users(tran') = Users(t) /\ (tran'.block => t.block)
<1>1. Top \in FrameT /\ SpOK(Top, tran) /\ Len(tran.levels) \in Nat /\ Top.sp \in Nat
  BY TopKept DEF FrameT
<1>2. CASE ~OwnSavepoint(f, t)
  BY <1>2 DEF Finish
<1>3. CASE OwnSavepoint(f, t)
  <2>1. tran' = Release(t)
    BY <1>3 DEF Finish
  <2>2. tran'.levels = SubSeq(t.levels, 1, Len(t.levels) - 1) /\ tran'.block = t.block
    BY <2>1 DEF Release, Front, TranT
  <2>3. Len(t.levels) > 0 /\ t.levels[Len(t.levels)] = "internal"
    <3>1. Len(t.levels) = Top.sp /\ Top.sp \in 1 .. Len(tran.levels)
          /\ tran.levels[Top.sp] = "internal"
      BY <1>1, <1>3 DEF OwnSavepoint, SpOK
    <3>2. t.levels[Top.sp] = tran.levels[Top.sp]
      BY <3>1 DEF Agree
    <3>. QED
      BY <3>1, <3>2
  <2>4. Users(tran') = Users(t)
    BY <2>2, <2>3, PoppedUsers
  <2>. QED
    BY <2>2, <2>4
<1>. QED
  BY <1>2, <1>3

LEMMA CompleteUsers ==
    ASSUME TranInv, CompleteSql \/ CompleteExec
    PROVE  UserStep
<1>1. n > 0 /\ Top.stmt # "save"
  BY DEF CompleteSql, CompleteExec, Past, Executing
<1>2. ~SaveDone
  BY <1>1 DEF SaveDone
<1>3. Top \in FrameT /\ tran \in TranT /\ TranOK(tran) /\ Agree(tran, tran)
  BY <1>1, TopKept
<1>4. PICK f \in FrameT, t \in {tran, CommitTran(tran)} : f.sp = Top.sp /\ Finish(f, t)
  <2>1. CASE CompleteExec
    BY <1>3, <2>1 DEF CompleteExec
  <2>2. CASE CompleteSql
    <3>1. PICK rows \in BOOLEAN : Finish([Top EXCEPT !.rows = rows],
                                    IF Top.started THEN CommitTran(tran) ELSE tran)
      BY <2>2 DEF CompleteSql
    <3>2. [Top EXCEPT !.rows = rows] \in FrameT /\ [Top EXCEPT !.rows = rows].sp = Top.sp
      BY <1>3 DEF FrameT
    <3>. QED
      BY <3>1, <3>2
  <2>. QED
    BY <2>1, <2>2
<1>5. t \in TranT /\ Agree(tran, t)
  BY <1>3, CommitTranFacts, TranTypes
<1>6. Users(tran') = Users(t) /\ (tran'.block => t.block)
  BY <1>1, <1>4, <1>5, FinishUsers
<1>7. t.block => t.levels = tran.levels
  BY <1>3, CommitTranFacts
<1>. QED
  BY <1>2, <1>6, <1>7 DEF UserStep, Users

LEMMA CompleteTranUsers == ASSUME TranInv, CompleteTran PROVE UserStep
<1> DEFINE k == Top.stmt
           t == TranEffect(k, tran)
<1>1. n > 0 /\ err' = Calm /\ Executing("execute") /\ k \in TranCmds
      /\ TranError(k, tran) = "none" /\ Finish(Top, t)
  BY DEF CompleteTran, Executing, Finish
<1>2. tran \in TranT /\ TranOK(tran) /\ Agree(tran, tran) /\ Len(tran.levels) \in Nat
  BY <1>1, TopKept
<1>3. SaveDone <=> k = "save"
  BY <1>1 DEF SaveDone
<1>4. CASE k \in {"begin", "commit", "rollback"}
  <2>1. t \in {StartTran(tran), CommitTran(tran), RollbackTran(tran)}
    BY <1>4 DEF TranEffect
  <2>2. t \in TranT /\ Agree(tran, t) /\ (t.block => t.levels = tran.levels)
    BY <1>2, <2>1, TranTypes, StartTranFacts, CommitTranFacts, EndTranFacts DEF RollbackTran
  <2>3. Users(tran') = Users(t) /\ (tran'.block => t.block)
    BY <1>1, <2>2, FinishUsers
  <2>. QED
    BY <1>3, <1>4, <2>2, <2>3 DEF UserStep, Users
<1>5. CASE k = "save"
  <2>1. t = PushLevel(tran, "user") /\ tran.block
    BY <1>1, <1>5 DEF TranEffect, TranError
  <2>2. t \in TranT /\ Agree(tran, t)
    BY <1>2, <2>1, TranTypes, PushLevelFacts
  <2>3. Users(tran') = Users(t)
    BY <1>1, <2>2, FinishUsers
  <2>4. Users(t) = Users(tran) \cup {Len(tran.levels) + 1}
    BY <1>2, <2>1, PushedUsers
  <2>. QED
    BY <1>3, <1>5, <2>3, <2>4 DEF UserStep
<1>6. CASE k = "rollbackto"
  <2>1. t = RollbackTo(tran, UserLevel(tran) - 1) /\ UserLevel(tran) # 0
    BY <1>1, <1>6 DEF TranEffect, TranError
  <2>2. UserLevel(tran) - 1 \in Nat /\ UserLevel(tran) - 1 < Len(tran.levels)
    BY <1>2, <2>1, UserLevelFacts
  <2>3. t \in TranT /\ Agree(tran, t)
    BY <1>2, <2>1, <2>2, LevelTypes, RollbackToFacts
  <2>4. Users(tran') = Users(t)
    BY <1>1, <2>3, FinishUsers
  <2>. QED
    BY <1>2, <1>6, <2>1, <2>4, RolledBackUsers DEF UserStep
<1>. QED
  BY <1>1, <1>4, <1>5, <1>6 DEF TranCmds

\* The undo of a failed statement goes back to its own savepoint at most.
LEMMA CaughtUsers == ASSUME TranInv, Caught PROVE UserStep
<1> DEFINE v == Undone(Top, tran)
           t == ImplicitUndone(Top, v)
<1>1. err.at = "raised" /\ n > 0
  BY DEF Caught, TranInv, BlocksInv, Types, Shape, n
<1>2. ~SaveDone
  BY <1>1 DEF SaveDone, Executing, Calm
<1>3. /\ Top \in FrameT /\ SpOK(Top, tran) /\ tran \in TranT /\ TranOK(tran)
      /\ Len(tran.levels) \in Nat /\ Top.sp \in Nat
  BY <1>1, TopKept DEF FrameT
<1>4. PICK doom : tran' = [t EXCEPT !.doomed = @ \/ doom]
  BY DEF Caught
<1>5. t = v \/ t = RollbackTran(v)
  BY DEF ImplicitUndone
<1>6. v \in TranT
  BY <1>3, UndoneType
<1>7. tran.block => \/ Users(v) = Users(tran)
                    \/ ~v.block
  <2>1. CASE OwnSavepoint(Top, tran)
    <3>1. v.levels = SubSeq(tran.levels, 1, Len(tran.levels) - 1)
      BY <1>3, <2>1 DEF Undone, RollbackTo, OwnSavepoint, TranT
    <3>2. Len(tran.levels) > 0 /\ tran.levels[Len(tran.levels)] = "internal"
      BY <1>3, <2>1 DEF OwnSavepoint, SpOK
    <3>. QED
      BY <1>3, <3>1, <3>2, PoppedUsers
  <2>2. CASE ~OwnSavepoint(Top, tran) /\ tran.block
    <3>1. v = tran \/ v = EndTran(tran, "rollback")
      BY <2>2 DEF Undone, RollbackTran
    <3>. QED
      BY <3>1, EndTranFacts
  <2>. QED
    BY <2>1, <2>2
<1>. HIDE DEF v
<1>8. (t = v \/ ~t.block) /\ t \in TranT
  BY <1>5, <1>6, EndTranFacts, TranTypes DEF RollbackTran
<1>. HIDE DEF t
<1>9. tran'.levels = t.levels /\ tran'.block = t.block
  BY <1>4, <1>8 DEF TranT
<1>. QED
  BY <1>2, <1>7, <1>8, <1>9 DEF UserStep, Users

LEMMA FailUsers ==
    ASSUME TranInv, RaiseSql \/ RaiseTran \/ RaiseMismatch \/ RaiseUser \/ Rethrow
    PROVE  UserStep
<1>1. n > 0
  BY DEF RaiseSql, RaiseTran, RaiseMismatch, RaiseUser, Rethrow, Past, Executing
<1>2. PICK f, e : Fail(f, e)
  BY DEF RaiseSql, RaiseTran, RaiseMismatch, RaiseUser, Rethrow, Raise
<1>3. tran \in TranT
  BY <1>1, TopKept
<1>4. tran'.levels = tran.levels /\ err'.at = "raised"
  BY <1>2, <1>3 DEF Fail, TranT
<1>5. ~SaveDone
  BY <1>4 DEF SaveDone, Calm
<1>. QED
  BY <1>4, <1>5, LevelsKept

LEMMA ReturnUsers == ASSUME TranInv, Return \/ Unwind PROVE UserStep
<1>1. ~SaveDone /\ n > 0 /\ n \in Nat
  <2>1. n \in Nat
    BY DEF TranInv, BlocksInv, Types, n
  <2>2. CASE Return
    BY <2>1, <2>2 DEF Return, Ready, SaveDone, Executing
  <2>3. CASE Unwind
    <3>1. err.at = "thrown" /\ frames # <<>>
      BY <2>3 DEF Unwind, TranInv, BlocksInv, Shape
    <3>2. n > 0
      BY <2>1, <3>1 DEF TranInv, BlocksInv, Types, n
    <3>. QED
      BY <2>1, <3>1, <3>2 DEF SaveDone, Executing, Calm
  <2>. QED
    BY <2>2, <2>3
<1>2. tran \in TranT
  BY <1>1, TopKept
<1>3. CASE n > 1
  <2>1. tran' = LeftBehind(tran) \/ tran' = tran
    <3>1. CASE Return
      BY <3>1 DEF Return
    <3>2. CASE Unwind
      <4>1. n # 1
        BY <1>1, <1>3
      <4>. QED
        BY <3>2, <4>1 DEF Unwind
    <3>. QED
      BY <3>1, <3>2
  <2>2. tran'.levels = tran.levels
    BY <1>3, <2>1, LeftBehindFacts
  <2>. QED
    BY <1>1, <2>2, LevelsKept
<1>4. CASE ~(n > 1)
  <2>1. tran' = BatchEnd(tran, TRUE)
    BY <1>4 DEF Return, Unwind
  <2>2. tran'.levels = tran.levels \/ ~tran'.block
    BY <1>2, <2>1, EndTranFacts DEF BatchEnd, RollbackTran, AbortAuto, TranT
  <2>. QED
    BY <1>1, <2>2, LevelsKept DEF UserStep
<1>. QED
  BY <1>3, <1>4

\* The batch ends, or has not begun.
LEMMA BatchUsers ==
    ASSUME TranInv, EndOfBatch \/ CompileError
    PROVE  UserStep
<1>1. ~SaveDone
  <2>1. CASE EndOfBatch
    BY <2>1 DEF EndOfBatch, Ready, SaveDone, Executing
  <2>2. CASE CompileError
    <3>1. frames = <<>>
      BY <2>2 DEF CompileError, TranInv, BlocksInv, Shape
    <3>. QED
      BY <3>1 DEF SaveDone, Executing, n
  <2>. QED
    BY <2>1, <2>2
<1>2. tran \in TranT
  BY DEF TranInv, BlocksInv, Types
<1>3. PICK t \in TranT, failed \in BOOLEAN :
         t.levels = tran.levels /\ tran' = BatchEnd(t, failed)
  <2>1. CASE EndOfBatch
    BY <1>2, <2>1 DEF EndOfBatch
  <2>2. CASE CompileError
    <3>1. PICK doom \in BOOLEAN : tran' = BatchEnd([tran EXCEPT !.doomed = @ \/ doom], TRUE)
      BY <2>2 DEF CompileError
    <3> DEFINE t == [tran EXCEPT !.doomed = @ \/ doom]
    <3>2. (tran.doomed \/ doom) \in BOOLEAN
      OBVIOUS
    <3>3. t \in TranT /\ t.levels = tran.levels
      BY <1>2, <3>2 DEF TranT
    <3>. HIDE DEF t
    <3>. QED
      BY <3>1, <3>3 DEF t
  <2>. QED
    BY <2>1, <2>2
<1>4. tran'.levels = tran.levels \/ ~tran'.block
  BY <1>3, EndTranFacts DEF BatchEnd, RollbackTran, AbortAuto, TranT
<1>. QED
  BY <1>1, <1>4, LevelsKept DEF UserStep

\* The steps that do not touch the transaction.
LEMMA OtherUsers ==
    ASSUME TranInv,
           \/ StartBatch \/ EnterTry \/ EndTry \/ EndCatch
           \/ \E kind \in opts.callees : Call(kind)
           \/ CaughtInFunction \/ Land \/ Respond \/ FlushResponse
    PROVE  UserStep
<1>1. tran' = tran
  BY DEF StartBatch, EnterTry, EndTry, EndCatch, Call, CaughtInFunction, Land,
         Respond, FlushResponse
<1>2. ~SaveDone
  <2>1. CASE n = 0
    BY <2>1 DEF SaveDone, Executing
  <2>2. CASE EnterTry \/ EndTry \/ EndCatch
    BY <2>2 DEF EnterTry, EndTry, EndCatch, Ready, SaveDone, Executing
  <2>3. CASE \E kind \in opts.callees : Call(kind)
    <3>1. PICK kind \in opts.callees : Call(kind)
      BY <2>3
    <3>2. kind \in {"proc", "trigger", "func"}
      BY OptionsAssumption DEF TranInv, BlocksInv, Types, Settings, FrameKinds
    <3>3. Top.stmt \in {"exec", "dml", "select"}
      BY <3>1, <3>2 DEF Call
    <3>. QED
      BY <3>3 DEF SaveDone
  <2>4. CASE CaughtInFunction \/ Land
    BY <2>4 DEF CaughtInFunction, Land, SaveDone, Executing, Calm
  <2>5. CASE StartBatch \/ Respond \/ FlushResponse
    <3>1. frames = <<>>
      BY <2>5 DEF StartBatch, Respond, FlushResponse, TranInv, BlocksInv, Shape
    <3>. QED
      BY <2>1, <3>1 DEF n
  <2>. QED
    BY <2>2, <2>3, <2>4, <2>5
<1>. QED
  BY <1>1, <1>2, LevelsKept

LEMMA UserSteps == ASSUME TranInv, Next PROVE UserStep
BY BeginStmtUsers, PrepareUsers, CompleteUsers, CompleteTranUsers, FailUsers, ReturnUsers,
   BatchUsers, CaughtUsers, OtherUsers DEF Next, Handling

LEMMA UsersAreFinite ==
    ASSUME NEW t \in TranT
    PROVE  IsFiniteSet(Users(t)) /\ Len(t.levels) + 1 \notin Users(t)
<1>1. Len(t.levels) \in Nat /\ DOMAIN t.levels = 1 .. Len(t.levels)
  BY DEF TranT
<1>2. IsFiniteSet(1 .. Len(t.levels))
  BY <1>1, FS_Interval
<1>3. Users(t) \subseteq 1 .. Len(t.levels)
  BY <1>1 DEF Users
<1>. QED
  BY <1>1, <1>2, <1>3, FS_Subset

\* Whatever the session's code does, a user's savepoint comes with the SAVE
\* TRANSACTION that defines it and goes only with a ROLLBACK to a savepoint or
\* with the transaction: the internal savepoints of dispatch_stmt_handle_error,
\* released or rolled back at any depth of procedures and triggers, never take
\* one along.
THEOREM InternalSavepointsSpareTheUsers == Spec => UserSavepointsKept
<1> DEFINE users(t) == Cardinality({i \in DOMAIN t.levels : t.levels[i] = "user"})
           saved == Executing("execute") /\ Top.stmt = "save" /\ err' = Calm
           A == tran.block /\ tran'.block =>
                  \/ users(tran') = users(tran) + (IF saved THEN 1 ELSE 0)
                  \/ users(tran') < users(tran) /\ Top.stmt = "rollbackto"
<1>1. ASSUME TranInv, Next, TranInv' PROVE A
  <2>1. UserStep /\ tran \in TranT /\ tran' \in TranT
    BY <1>1, UserSteps DEF TranInv, BlocksInv, Types
  <2>2. /\ IsFiniteSet(Users(tran)) /\ Len(tran.levels) + 1 \notin Users(tran)
        /\ IsFiniteSet(Users(tran'))
        /\ Cardinality(Users(tran)) \in Nat /\ Cardinality(Users(tran')) \in Nat
    BY <2>1, UsersAreFinite, FS_CardinalityType
  <2>3. SUFFICES ASSUME tran.block, tran'.block
                 PROVE  \/ Cardinality(Users(tran')) = Cardinality(Users(tran)) + (IF SaveDone THEN 1 ELSE 0)
                        \/ Cardinality(Users(tran')) < Cardinality(Users(tran)) /\ Top.stmt = "rollbackto"
    BY DEF Users, SaveDone
  <2>4. CASE ~SaveDone /\ Users(tran') = Users(tran)
    BY <2>2, <2>4
  <2>5. CASE SaveDone /\ Users(tran') = Users(tran) \cup {Len(tran.levels) + 1}
    <3>1. Cardinality(Users(tran')) = Cardinality(Users(tran)) + 1
      BY <2>2, <2>5, FS_AddElement
    <3>. QED
      BY <2>5, <3>1
  <2>6. CASE /\ Top.stmt = "rollbackto"
             /\ Users(tran') \subseteq Users(tran) /\ Users(tran') # Users(tran)
    <3>1. Cardinality(Users(tran')) < Cardinality(Users(tran))
      BY <2>2, <2>6, FS_Subset
    <3>. QED
      BY <2>6, <3>1
  <2>. QED
    BY <2>1, <2>3, <2>4, <2>5, <2>6 DEF UserStep
<1>2. TranInv /\ TranInv' /\ [Next]_vars => [A]_vars
  BY <1>1
<1>. QED
  BY <1>2, TranInvariance, PTL DEF Spec, UserSavepointsKept

-----------------------------------------------------------------------------
(* The response of a batch.                                                *)

\* The token held back is one that may end a response.
Ends(t) == t.pend # NoDone /\ t.pend.token \in {"DONE", "DONEPROC"}

\* An ERROR token on the wire is followed by a DONE token with the error flag.
\* (Without NOCOUNT: nothing is hidden.)
Flagged(t) == /\ ~t.bare
              /\ t.owed => IF t.pend = NoDone THEN t.mark ELSE t.pend.error
              /\ t.pend # NoDone => ~t.pend.hidden

\* Every frame but the innermost is at a statement, and the response has counted
\* these; an error in flight is that of a statement.  A function has a caller.
Stmts ==
    /\ \A i \in 1 .. (n - 1) : frames[i].stmt # "none"
    /\ n > 0 => frames[1].kind # "func"
    /\ err.at \in {"raised", "thrown"} => Top.stmt # "none"
    /\ tds.stack = IF n = 0 THEN 0 ELSE IF Top.stmt = "none" THEN n - 1 ELSE n

\* error_stack_offset is 0 but for an error in flight, or one that is reported
\* by the token that is held back.
Offset == /\ err = Calm /\ req # "flush" => tds.offset = 0
          /\ req = "flush" => tds.offset = 0 \/ tds.pend.error

\* The token that is held back: none before the first statement has ended; and
\* one that may end the response whenever no statement is in progress.
Held == /\ req = "idle" => tds.pend = NoDone
        /\ req = "flush" => Ends(tds)
        /\ req = "running" /\ tds.empty => tds.pend = NoDone
        /\ req = "running" /\ ~tds.empty /\ tds.stack = 0 /\ err.at # "out" => Ends(tds)

RespPart == /\ tds \in TdsT /\ ~tds.mark
            /\ Stmts /\ Offset /\ Held
            /\ ~opts.nocount => Flagged(tds)

\* The inductive invariant behind the theorem about the response.
RespInv == BlocksInv /\ RespPart

-----------------------------------------------------------------------------
(* The callbacks.                                                          *)

LEMMA PendingFacts ==
    ASSUME NEW t \in TdsT, NEW more \in BOOLEAN
    PROVE  LET p == SendPendingDone(t, more) IN
           /\ p \in TdsT /\ p.stack = t.stack /\ p.mark = t.mark /\ p.empty = t.empty
           /\ p.pend = NoDone /\ p.offset \in {0, t.offset}
           /\ t.pend # NoDone /\ t.pend.error /\ ~more => p.offset = 0
           /\ Flagged(t) => ~p.bare /\ (p.owed => t.mark)
<1> DEFINE p == SendPendingDone(t, more)
           o == IF t.pend.error THEN 0 ELSE t.offset
           b == t.bare \/ (t.owed /\ ~t.pend.error)
<1>1. NoDone \in Dones \cup {NoDone}
  OBVIOUS
<1>2. CASE t.pend = NoDone
  <2>1. p = t
    BY <1>2 DEF SendPendingDone
  <2>. QED
    BY <1>2, <2>1 DEF TdsT, Flagged
<1>3. CASE t.pend # NoDone /\ more /\ t.pend.hidden
  <2>1. p = [t EXCEPT !.pend = NoDone]
    BY <1>3 DEF SendPendingDone
  <2>2. /\ p \in TdsT /\ p.stack = t.stack /\ p.mark = t.mark /\ p.empty = t.empty
        /\ p.pend = NoDone /\ p.offset = t.offset
    BY <1>1, <2>1 DEF TdsT
  <2>. QED
    BY <1>3, <2>2 DEF Flagged
<1>4. CASE t.pend # NoDone /\ ~(more /\ t.pend.hidden)
  <2>1. p = [t EXCEPT !.pend = NoDone, !.offset = o, !.bare = b, !.owed = FALSE]
    BY <1>4 DEF SendPendingDone
  <2>2. t.pend \in Dones /\ t.pend.error \in BOOLEAN
    BY <1>4 DEF TdsT, Dones
  <2>3. o \in Nat /\ o \in {0, t.offset} /\ b \in BOOLEAN /\ (t.pend.error => o = 0)
    BY <2>2 DEF TdsT
  <2>4. Flagged(t) => ~b
    BY <1>4 DEF Flagged
  <2>. HIDE DEF o, b
  <2>5. /\ p \in TdsT /\ p.stack = t.stack /\ p.mark = t.mark /\ p.empty = t.empty
        /\ p.pend = NoDone /\ p.offset = o /\ p.bare = b /\ p.owed = FALSE
    BY <1>1, <2>1, <2>3 DEF TdsT
  <2>. QED
    BY <2>3, <2>4, <2>5
<1>. QED
  BY <1>2, <1>3, <1>4

LEMMA DoneFacts ==
    ASSUME NEW t \in TdsT, NEW token \in Tokens, NEW error \in BOOLEAN, NEW rows \in BOOLEAN,
           NEW hidden \in BOOLEAN
    PROVE  LET u == SendDone(t, token, error, rows, hidden) IN
           /\ u \in TdsT /\ u.stack = t.stack /\ ~u.mark /\ ~u.empty
           /\ u.pend # NoDone /\ u.pend.token = token /\ u.pend.error = (error \/ t.mark)
           /\ u.offset \in {0, t.offset}
           /\ Flagged(t) /\ ~hidden => Flagged(u)
<1> DEFINE p == SendPendingDone(t, TRUE)
           e == [token |-> token, error |-> error \/ t.mark,
                 rows |-> rows, hidden |-> hidden /\ token = "DONEINPROC"]
           u == SendDone(t, token, error, rows, hidden)
<1>1. /\ p \in TdsT /\ p.stack = t.stack /\ p.offset \in {0, t.offset}
      /\ Flagged(t) => ~p.bare /\ (p.owed => t.mark)
  BY PendingFacts
<1>2. u = [p EXCEPT !.pend = e, !.mark = FALSE, !.empty = FALSE]
  BY DEF SendDone
<1>3. e \in Dones /\ e.token = token /\ e.error = (error \/ t.mark) /\ (~hidden => ~e.hidden)
  BY DEF Dones, TdsT
<1>4. e # NoDone
  <2>1. NoDone.token = "none" /\ "none" \notin Tokens
    BY DEF NoDone, Tokens
  <2>. QED
    BY <1>3, <2>1
<1>. HIDE DEF e, p
<1>5. /\ u \in TdsT /\ u.stack = p.stack /\ u.mark = FALSE /\ u.empty = FALSE /\ u.pend = e
      /\ u.offset = p.offset /\ u.bare = p.bare /\ u.owed = p.owed
  BY <1>1, <1>2, <1>3 DEF TdsT
<1>. HIDE DEF u
<1>6. Flagged(t) /\ ~hidden => Flagged(u)
  BY <1>1, <1>3, <1>4, <1>5 DEF Flagged
<1>. QED
  BY <1>1, <1>3, <1>4, <1>5, <1>6 DEF u

LEMMA ErrorFacts ==
    ASSUME NEW t \in TdsT
    PROVE  LET u == SendError(t) IN
           /\ u \in TdsT /\ u.stack = t.stack /\ u.mark /\ u.empty = t.empty
           /\ u.pend = NoDone /\ u.offset \in {0, t.offset}
           /\ Flagged(t) => Flagged(u)
<1> DEFINE p == SendPendingDone(t, TRUE)
           u == SendError(t)
<1>1. /\ p \in TdsT /\ p.stack = t.stack /\ p.offset \in {0, t.offset} /\ p.empty = t.empty
      /\ p.pend = NoDone /\ (Flagged(t) => ~p.bare)
  BY PendingFacts
<1>2. u = [p EXCEPT !.mark = TRUE, !.owed = TRUE]
  BY DEF SendError
<1>. HIDE DEF p
<1>3. /\ u \in TdsT /\ u.stack = p.stack /\ u.mark = TRUE /\ u.empty = p.empty /\ u.pend = p.pend
      /\ u.offset = p.offset /\ u.bare = p.bare
  BY <1>1, <1>2 DEF TdsT
<1>. HIDE DEF u
<1>4. Flagged(t) => Flagged(u)
  BY <1>1, <1>3 DEF Flagged
<1>. QED
  BY <1>1, <1>3, <1>4 DEF u

StmtT == [silent : BOOLEAN, proc : BOOLEAN, rows : BOOLEAN, hidden : BOOLEAN]

LEMMA EndFacts ==
    ASSUME NEW t \in TdsT, t.stack > 0, NEW s \in StmtT
    PROVE  LET u == StatementEnd(t, s) IN
           /\ u \in TdsT /\ u.stack = t.stack - 1 /\ u.offset = 0
           /\ ~s.silent => ~u.mark /\ ~u.empty /\ (t.stack = 1 => Ends(u))
           /\ s.silent => u.mark = t.mark /\ u.empty = t.empty /\ u.pend = t.pend
           /\ Flagged(t) /\ ~s.hidden => Flagged(u)
<1> DEFINE top == t.stack = 1
           ended == [t EXCEPT !.stack = @ - 1, !.offset = 0]
           status == IF top /\ s.proc /\ ~t.mark THEN SendPendingDone(ended, TRUE) ELSE ended
           token == IF ~top THEN "DONEINPROC" ELSE IF s.proc THEN "DONEPROC" ELSE "DONE"
           u == StatementEnd(t, s)
<1>1. t.stack - 1 \in Nat /\ t.stack \in Nat
  BY DEF TdsT
<1>2. /\ ended \in TdsT /\ ended.stack = t.stack - 1 /\ ended.offset = 0 /\ ended.mark = t.mark
      /\ ended.empty = t.empty /\ ended.pend = t.pend /\ ended.bare = t.bare /\ ended.owed = t.owed
  BY <1>1 DEF TdsT
<1>. HIDE DEF ended
<1>3. Flagged(t) => Flagged(ended)
  BY <1>2 DEF Flagged
<1>4. /\ status \in TdsT /\ status.stack = t.stack - 1 /\ status.offset = 0
      /\ Flagged(t) => Flagged(status)
  <2>1. CASE top /\ s.proc /\ ~t.mark
    <3> DEFINE p == SendPendingDone(ended, TRUE)
    <3>1. /\ p \in TdsT /\ p.stack = ended.stack /\ p.offset \in {0, ended.offset} /\ p.pend = NoDone
          /\ Flagged(ended) => ~p.bare /\ (p.owed => ended.mark)
          /\ p.mark = ended.mark
      BY <1>2, PendingFacts
    <3>2. status = p
      BY <2>1
    <3>. HIDE DEF p
    <3>3. Flagged(ended) => Flagged(p)
      BY <3>1 DEF Flagged
    <3>. QED
      BY <1>2, <1>3, <3>1, <3>2, <3>3
  <2>2. CASE ~(top /\ s.proc /\ ~t.mark)
    BY <1>2, <1>3, <2>2
  <2>. QED
    BY <2>1, <2>2
<1>5. token \in Tokens /\ (t.stack = 1 => token \in {"DONE", "DONEPROC"})
  BY DEF Tokens
<1>. HIDE DEF status, token
<1>6. CASE s.silent
  <2>1. u = ended
    BY <1>6 DEF StatementEnd, ended
  <2>. QED
    BY <1>2, <1>3, <1>6, <2>1
<1>7. CASE ~s.silent
  <2> DEFINE w == SendDone(status, token, FALSE, s.rows, s.hidden)
  <2>1. u = w
    BY <1>7 DEF StatementEnd, ended, status, token
  <2>2. s.rows \in BOOLEAN /\ s.hidden \in BOOLEAN
    BY DEF StmtT
  <2>3. /\ w \in TdsT /\ w.stack = status.stack /\ ~w.mark /\ ~w.empty
        /\ w.pend # NoDone /\ w.pend.token = token
        /\ w.offset \in {0, status.offset}
        /\ Flagged(status) /\ ~s.hidden => Flagged(w)
    <3>1. status \in TdsT /\ token \in Tokens
      BY <1>4, <1>5
    <3>2. PICK b \in BOOLEAN : ~b
      OBVIOUS
    <3> DEFINE x == SendDone(status, token, b, s.rows, s.hidden)
    <3>3. /\ x \in TdsT /\ x.stack = status.stack /\ ~x.mark /\ ~x.empty
          /\ x.pend # NoDone /\ x.pend.token = token
          /\ x.offset \in {0, status.offset}
          /\ Flagged(status) /\ ~s.hidden => Flagged(x)
      <4>1. ASSUME NEW r \in BOOLEAN, NEW h \in BOOLEAN
            PROVE  LET y == SendDone(status, token, b, r, h) IN
                   /\ y \in TdsT /\ y.stack = status.stack /\ ~y.mark /\ ~y.empty
                   /\ y.pend # NoDone /\ y.pend.token = token
                   /\ y.offset \in {0, status.offset}
                   /\ Flagged(status) /\ ~h => Flagged(y)
        BY <3>1, DoneFacts
      <4>. QED
        BY <2>2, <4>1
    <3>4. w = x
      BY <3>2
    <3>. QED
      BY <3>3, <3>4
  <2>. HIDE DEF w
  <2>4. t.stack = 1 => Ends(w)
    BY <1>5, <2>3 DEF Ends
  <2>. QED
    BY <1>4, <1>7, <2>1, <2>3, <2>4
<1>. QED
  BY <1>6, <1>7

\* What StatementEnd_Internal sees of a statement.
LEMMA EndedFacts ==
    ASSUME NEW f \in FrameT, NEW k, opts \in Options
    PROVE  /\ Ended(f, k) \in StmtT
           /\ Ended(f, k).silent <=> f.kind = "func" \/ k = "none"
           /\ ~opts.nocount => ~Ended(f, k).hidden
<1>1. opts \in Settings /\ opts.nocount \in BOOLEAN /\ f.rows \in BOOLEAN
  BY OptionsAssumption DEF Settings, FrameT
<1>. QED
  BY <1>1 DEF Ended, StmtT

-----------------------------------------------------------------------------
(* Steps.                                                                  *)

\* A frame only runs within a request, and without an error that came out.
LEMMA InFrames ==
    ASSUME RespInv, n > 0
    PROVE  /\ req = "running" /\ err.at # "out" /\ n \in Nat \ {0} /\ Top \in FrameT
           /\ opts \in Options /\ frames \in Seq(FrameT) /\ Len(frames) = n
           /\ tds.stack \in Nat /\ tds \in TdsT /\ ~tds.mark
           /\ tds.stack = IF Top.stmt = "none" THEN n - 1 ELSE n
           /\ tds.empty => tds.pend = NoDone
<1>1. Types /\ Shape /\ n \in Nat \ {0} /\ Top \in FrameT /\ frames # <<>>
  BY TopFacts DEF RespInv, BlocksInv, n
<1>2. req = "running" /\ err.at # "out"
  BY <1>1 DEF Shape, Calm
<1>. QED
  BY <1>1, <1>2 DEF RespInv, RespPart, Types, Stmts, Held, TdsT, n

\* A step of the innermost frame, which stays: what is left to say of it.
LEMMA TopRun ==
    ASSUME RespInv, n > 0, NEW f \in FrameT, f.kind = Top.kind, NEW t \in TranT,
           frames' = SetTop(f) \/ frames' = Live(SetTop(f), t),
           opts' = opts, req' = req,
           \/ err' = Calm
           \/ err'.at \in {"raised", "thrown"} /\ f.stmt # "none",
           tds' \in TdsT, ~tds'.mark,
           tds'.stack = IF f.stmt = "none" THEN n - 1 ELSE n,
           err' = Calm => tds'.offset = 0,
           tds'.empty => tds'.pend = NoDone,
           ~tds'.empty /\ tds'.stack = 0 => Ends(tds'),
           ~opts.nocount => Flagged(tds')
    PROVE  RespPart'
<1> DEFINE fs == SetTop(f)
<1>1. Types /\ n \in Nat \ {0} /\ req = "running" /\ DOMAIN frames = 1 .. n
  BY InFrames, TopFacts DEF RespInv, BlocksInv
<1>2. /\ fs \in Seq(FrameT) /\ Len(fs) = n /\ DOMAIN fs = 1 .. n /\ fs[n] = f
      /\ \A i \in 1 .. (n - 1) : fs[i] = frames[i]
  BY <1>1, SetTopFacts
<1>. HIDE DEF fs
<1>3. /\ Len(frames') = n
      /\ \A i \in 1 .. n : frames'[i].stmt = fs[i].stmt /\ frames'[i].kind = fs[i].kind
  <2>1. CASE frames' = fs
    BY <1>2, <2>1
  <2>2. CASE frames' = Live(fs, t)
    <3>1. /\ Len(frames') = n /\ \A i \in 1 .. n : fs[i] \in FrameT
          /\ \A i \in 1 .. n :
               frames'[i] = [fs[i] EXCEPT !.sp = IF @ > Len(t.levels) THEN 0 ELSE @]
      BY <1>2, <2>2, LiveFacts
    <3>. QED
      BY <3>1 DEF FrameT
  <2>. QED
    BY <2>1, <2>2 DEF fs
<1>4. n' = n /\ n \in 1 .. n /\ 1 \in 1 .. n
  BY <1>1, <1>3 DEF n
<1>5. \A i \in 1 .. (n - 1) : frames'[i].stmt # "none"
  BY <1>1, <1>2, <1>3 DEF RespInv, RespPart, Stmts
<1>6. frames'[n].stmt = f.stmt
  BY <1>2, <1>3, <1>4
<1>7. frames'[1].kind # "func"
  <2>1. CASE n = 1
    BY <1>2, <1>3, <1>4, <2>1 DEF RespInv, RespPart, Stmts, Top
  <2>2. CASE n # 1
    <3>1. 1 \in 1 .. (n - 1)
      BY <1>1, <2>2
    <3>. QED
      BY <1>1, <1>2, <1>3, <1>4, <3>1 DEF RespInv, RespPart, Stmts
  <2>. QED
    BY <2>1, <2>2
<1>8. Top'.stmt = f.stmt
  BY <1>4, <1>6 DEF Top
<1>9. Stmts'
  BY <1>1, <1>4, <1>5, <1>7, <1>8 DEF Stmts, Calm
<1>. QED
  BY <1>1, <1>9 DEF RespPart, Offset, Held

\* The response stays as it is.
LEMMA TopQuiet ==
    ASSUME RespInv, n > 0, NEW f \in FrameT, f.kind = Top.kind, NEW t \in TranT,
           frames' = SetTop(f) \/ frames' = Live(SetTop(f), t),
           f.stmt = Top.stmt, Top.stmt # "none",
           \/ err' = Calm /\ err = Calm
           \/ err'.at \in {"raised", "thrown"},
           UNCHANGED <<opts, req, tds>>
    PROVE  RespPart'
<1>1. /\ req = "running" /\ err.at # "out" /\ tds \in TdsT /\ ~tds.mark
      /\ tds.stack = n /\ (tds.empty => tds.pend = NoDone)
  BY InFrames
<1>2. ~tds.empty /\ tds.stack = 0 => Ends(tds)
  BY <1>1 DEF RespInv, RespPart, Held
<1>3. err' = Calm => tds.offset = 0
  BY <1>1 DEF RespInv, RespPart, Offset, Calm
<1>4. ~opts.nocount => Flagged(tds)
  BY DEF RespInv, RespPart
<1>. QED
  BY <1>1, <1>2, <1>3, <1>4, TopRun

\* A statement ends.
LEMMA TopEnds ==
    ASSUME RespInv, n > 0, NEW f \in FrameT, f.kind = Top.kind, NEW t \in TranT,
           frames' = SetTop(f) \/ frames' = Live(SetTop(f), t),
           f.stmt = "none", err' = Calm, UNCHANGED <<opts, req>>,
           NEW k, k # "none", NEW g \in FrameT, g.kind = Top.kind,
           NEW r \in TdsT, tds' = StatementEnd(r, Ended(g, k)),
           r.stack = n, r.mark => Top.kind # "func", r.empty => r.pend = NoDone,
           ~opts.nocount => Flagged(r)
    PROVE  RespPart'
<1> DEFINE s == Ended(g, k)
<1>1. n \in Nat \ {0} /\ opts \in Options /\ frames \in Seq(FrameT)
  BY InFrames
<1>2. s \in StmtT /\ (s.silent <=> g.kind = "func") /\ (~opts.nocount => ~s.hidden)
  BY <1>1, EndedFacts
<1>. HIDE DEF s
<1>3. /\ tds' \in TdsT /\ tds'.stack = r.stack - 1 /\ tds'.offset = 0
      /\ ~s.silent => ~tds'.mark /\ ~tds'.empty /\ (r.stack = 1 => Ends(tds'))
      /\ s.silent => tds'.mark = r.mark /\ tds'.empty = r.empty /\ tds'.pend = r.pend
      /\ Flagged(r) /\ ~s.hidden => Flagged(tds')
  <2>1. tds' = StatementEnd(r, s) /\ r.stack > 0
    BY <1>1 DEF s
  <2>. QED
    BY <1>2, <2>1, EndFacts
<1>4. g.kind = "func" => n # 1
  BY <1>1 DEF RespInv, RespPart, Stmts, Top
<1>5. tds'.stack = n - 1 /\ (tds'.stack = 0 => r.stack = 1)
  BY <1>1, <1>3
<1>6. ~tds'.mark
  <2>1. CASE s.silent
    <3>1. Top.kind = "func"
      BY <1>2, <2>1
    <3>. QED
      BY <1>3, <2>1, <3>1, Zenon
  <2>2. CASE ~s.silent
    BY <1>3, <2>2
  <2>. QED
    BY <2>1, <2>2
<1>7. tds'.empty => tds'.pend = NoDone
  BY <1>3
<1>8. ~tds'.empty /\ tds'.stack = 0 => Ends(tds')
  BY <1>1, <1>2, <1>3, <1>4, <1>5
<1>9. ~opts.nocount => Flagged(tds')
  BY <1>2, <1>3
<1>. QED
  BY <1>3, <1>5, <1>6, <1>7, <1>8, <1>9, TopRun

LEMMA BeginFacts ==
    ASSUME NEW t \in TdsT
    PROVE  LET u == StatementBegin(t) IN
           /\ u \in TdsT /\ u.stack = t.stack + 1 /\ u.mark = t.mark /\ u.empty = t.empty
           /\ u.pend = t.pend /\ u.offset = t.offset /\ (Flagged(t) => Flagged(u))
<1> DEFINE u == StatementBegin(t)
<1>1. t.stack + 1 \in Nat
  BY DEF TdsT
<1>2. /\ u \in TdsT /\ u.stack = t.stack + 1 /\ u.mark = t.mark /\ u.empty = t.empty
      /\ u.pend = t.pend /\ u.offset = t.offset /\ u.bare = t.bare /\ u.owed = t.owed
  BY <1>1 DEF StatementBegin, TdsT
<1>. HIDE DEF u
<1>3. Flagged(t) => Flagged(u)
  BY <1>2 DEF Flagged
<1>. QED
  BY <1>2, <1>3 DEF u

LEMMA BlockStepsResp == ASSUME RespInv, EnterTry \/ EndTry \/ EndCatch PROVE RespPart'
<1> DEFINE r == Reset(Top)
           u == StatementBegin(tds)
<1>1. /\ n > 0 /\ err = Calm /\ Top.stmt = "none"
      /\ tds' = StatementEnd(u, Ended(Top, "ctx")) /\ UNCHANGED <<opts, err, tran, req>>
  BY DEF EnterTry, EndTry, EndCatch, Ready, Plain
<1>2. /\ Top \in FrameT /\ n \in Nat /\ tds \in TdsT /\ ~tds.mark /\ tds.stack = n - 1
      /\ (tds.empty => tds.pend = NoDone) /\ (~opts.nocount => Flagged(tds)) /\ tran \in TranT
  BY <1>1, InFrames DEF RespInv, RespPart, BlocksInv, Types
<1>3. r \in FrameT /\ BlocksOK(r) /\ r.stmt = "none" /\ r.blocks = Top.blocks
  BY <1>1, TopIsOK, ResetOK, SameBlocksOK DEF SameBlocks, RespInv
<1>4. r.kind = Top.kind
  BY <1>2 DEF Reset, FrameT
<1>. HIDE DEF r
<1>5. PICK f \in FrameT : frames' = SetTop(f) /\ f.stmt = "none" /\ f.kind = Top.kind
  <2>1. CASE EnterTry
    <3>1. SaveCtx(r) \in FrameT
      BY <1>3, SaveCtxOK
    <3>2. SaveCtx(r).stmt = r.stmt /\ SaveCtx(r).kind = r.kind
      BY <1>3 DEF SaveCtx, FrameT
    <3>. QED
      BY <1>3, <1>4, <2>1, <3>1, <3>2 DEF EnterTry, r
  <2>2. CASE EndTry
    <3>1. RestoreFull(r) \in FrameT
      BY <1>3, <2>2, RestoreFullOK DEF EndTry
    <3>2. RestoreFull(r).stmt = r.stmt /\ RestoreFull(r).kind = r.kind
      BY <1>3 DEF RestoreFull, FrameT
    <3>. QED
      BY <1>3, <1>4, <2>2, <3>1, <3>2 DEF EndTry, r
  <2>3. CASE EndCatch
    <3>1. RestorePartial(r) \in FrameT
      BY <1>3, <2>3, RestorePartialOK DEF EndCatch
    <3>2. RestorePartial(r).stmt = r.stmt /\ RestorePartial(r).kind = r.kind
      BY <1>3 DEF RestorePartial, FrameT
    <3>. QED
      BY <1>3, <1>4, <2>3, <3>1, <3>2 DEF EndCatch, r
  <2>. QED
    BY <2>1, <2>2, <2>3
<1>6. /\ u \in TdsT /\ u.stack = tds.stack + 1 /\ u.mark = tds.mark /\ u.empty = tds.empty
      /\ u.pend = tds.pend /\ (Flagged(tds) => Flagged(u))
  BY <1>2, BeginFacts
<1>. HIDE DEF u
<1>7. u.stack = n /\ ~u.mark
  BY <1>2, <1>6
<1>. QED
  BY <1>1, <1>2, <1>5, <1>6, <1>7, TopEnds

LEMMA BeginStmtResp ==
    ASSUME RespInv, NEW k \in opts.kinds, BeginStmt(k)
    PROVE  RespPart'
<1> DEFINE implicit == opts.implicit /\ ~tran.block /\ k \in ExecSql
           t == IF implicit THEN StartTran(tran) ELSE tran
           sp == Top.kind # "func" /\ k # "exec" /\ t.block
           r == Reset(Top)
           f == [r EXCEPT
                !.stmt = k, !.at = IF k \in ExecSql THEN "prepare" ELSE "execute",
                !.rows = FALSE, !.before = tran.count, !.started = FALSE,
                !.sp = IF sp THEN Len(tran'.levels) ELSE 0,
                !.impl = IF implicit THEN "start" ELSE "off"]
<1>1. /\ n > 0 /\ err = Calm /\ Top.stmt = "none"
      /\ tran' = IF sp THEN PushLevel(t, "internal") ELSE t
      /\ frames' = SetTop(f) /\ UNCHANGED <<opts, err, req>> /\ tds' = StatementBegin(tds)
  BY DEF BeginStmt, Ready
<1>2. r \in FrameT /\ r.kind = Top.kind
  BY <1>1, InFrames, ResetOK DEF Reset, FrameT
<1>3. tran' \in TranT /\ tran \in TranT
  BY <1>1, TranTypes DEF RespInv, BlocksInv, Types
<1>4. k \in AllKinds /\ k # "none"
  BY OptionsAssumption DEF RespInv, BlocksInv, Types, Settings, AllKinds, ExecSql, TranCmds
<1>5. Len(tran'.levels) \in Nat /\ tran.count \in Nat
  BY <1>3 DEF TranT
<1>. HIDE DEF r, sp, implicit
<1>6. f \in FrameT
  BY <1>2, <1>4, <1>5, Zenon DEF FrameT
<1>7. f.stmt = k /\ f.kind = Top.kind
  BY <1>2 DEF FrameT
<1>. HIDE DEF f
<1>8. /\ tds' \in TdsT /\ tds'.stack = tds.stack + 1 /\ tds'.mark = tds.mark
      /\ tds'.empty = tds.empty /\ tds'.pend = tds.pend /\ tds'.offset = tds.offset
      /\ (Flagged(tds) => Flagged(tds'))
  BY <1>1, InFrames, BeginFacts
<1>9. tds.stack = n - 1 /\ n \in Nat \ {0} /\ ~tds.mark /\ (tds.empty => tds.pend = NoDone)
      /\ req = "running"
  BY <1>1, InFrames
<1>10. tds'.stack = n /\ tds'.stack # 0
  BY <1>8, <1>9
<1>11. tds.offset = 0 /\ (~opts.nocount => Flagged(tds))
  BY <1>1, <1>9 DEF RespInv, RespPart, Offset
<1>. QED
  BY <1>1, <1>3, <1>4, <1>6, <1>7, <1>8, <1>9, <1>10, <1>11, TopRun

LEMMA PrepareResp == ASSUME RespInv, BlocksInv', Prepare PROVE RespPart'
<1>1. n > 0 /\ err = Calm /\ UNCHANGED <<opts, err, tds, req>> /\ Top.stmt # "none"
  BY DEF Prepare, Executing
<1>2. PICK needed \in BOOLEAN, start \in BOOLEAN :
        frames' = Live(SetTop([Top EXCEPT
                  !.at = "execute", !.started = start,
                  !.impl = IF @ = "start" /\ needed THEN "on" ELSE "off"]), tran')
  <2>1. ImplicitNeeded(Top.stmt) \subseteq BOOLEAN
    BY DEF ImplicitNeeded
  <2>. QED
    BY <2>1, Zenon DEF Prepare
<1> DEFINE f == [Top EXCEPT
                  !.at = "execute", !.started = start,
                  !.impl = IF @ = "start" /\ needed THEN "on" ELSE "off"]
<1>3. Top \in FrameT /\ tran' \in TranT
  BY <1>1, InFrames DEF BlocksInv, Types
<1>4. f \in FrameT
  BY <1>3, Zenon DEF FrameT
<1>5. f.kind = Top.kind /\ f.stmt = Top.stmt
  BY <1>3 DEF FrameT
<1>6. frames' = Live(SetTop(f), tran')
  BY <1>2
<1>. HIDE DEF f
<1>. QED
  BY <1>1, <1>3, <1>4, <1>5, <1>6, TopQuiet

\* A frame is started by the statement of another.
LEMMA CallResp ==
    ASSUME RespInv, NEW kind \in opts.callees, Call(kind)
    PROVE  RespPart'
<1>1. kind \in {"proc", "trigger", "func"}
  BY OptionsAssumption DEF RespInv, BlocksInv, Types, Settings, FrameKinds
<1>2. n > 0 /\ err = Calm /\ Top.stmt # "none"
  BY <1>1, Zenon DEF Call, Executing, Past
<1>3. frames' = Append(frames, Frame(kind)) /\ UNCHANGED <<opts, err, tran, tds, req>>
  BY DEF Call
<1>4. n \in Nat \ {0} /\ frames \in Seq(FrameT) /\ Len(frames) = n /\ tds.stack = n
      /\ req = "running"
  BY <1>2, InFrames
<1>5. /\ Len(frames') = n + 1 /\ frames'[n + 1] = Frame(kind)
      /\ \A i \in 1 .. n : frames'[i] = frames[i]
  BY <1>3, <1>4
<1>6. n' = n + 1 /\ Top'.stmt = "none"
  BY <1>5 DEF n, Top, Frame
<1>7. \A i \in 1 .. n : frames[i].stmt # "none"
  <2>1. \A i \in 1 .. n : i = n \/ i \in 1 .. (n - 1)
    BY <1>4
  <2>. QED
    BY <1>2, <2>1 DEF RespInv, RespPart, Stmts, Top
<1>8. Stmts'
  <2>1. \A i \in 1 .. (n' - 1) : i \in 1 .. n
    BY <1>4, <1>6
  <2>2. frames'[1].kind # "func"
    BY <1>4, <1>5 DEF RespInv, RespPart, Stmts
  <2>3. n' > 0 /\ n' # 0 /\ n' - 1 = n
    BY <1>4, <1>6
  <2>. QED
    BY <1>2, <1>3, <1>4, <1>5, <1>6, <1>7, <2>1, <2>2, <2>3 DEF Stmts, Calm
<1>. QED
  BY <1>3, <1>8 DEF RespInv, RespPart, Offset, Held

\* A statement completes.
LEMMA FinishResp ==
    ASSUME RespInv, BlocksInv', n > 0, err = Calm, Top.stmt # "none",
           NEW f \in FrameT, f.kind = Top.kind, f.stmt = Top.stmt, NEW t, Finish(f, t)
    PROVE  RespPart'
<1> DEFINE g == [f EXCEPT !.stmt = "none", !.at = "none", !.sp = 0]
<1>1. g \in FrameT /\ g.stmt = "none" /\ g.kind = Top.kind
  BY Zenon DEF FrameT
<1>2. /\ frames' = Live(SetTop(g), tran') /\ UNCHANGED <<opts, err, req>>
      /\ tds' = StatementEnd(tds, Ended(f, f.stmt))
  BY DEF Finish
<1>. HIDE DEF g
<1>3. tran' \in TranT
  BY DEF BlocksInv, Types
<1>4. /\ tds \in TdsT /\ tds.stack = n /\ ~tds.mark /\ (tds.empty => tds.pend = NoDone)
      /\ (~opts.nocount => Flagged(tds))
  BY InFrames DEF RespInv, RespPart
<1>5. f.stmt # "none" /\ err' = Calm
  BY <1>2
<1>. QED
  BY <1>1, <1>2, <1>3, <1>4, <1>5, TopEnds

LEMMA CompleteResp ==
    ASSUME RespInv, BlocksInv', CompleteSql \/ CompleteExec \/ CompleteTran
    PROVE  RespPart'
<1>1. n > 0 /\ err = Calm /\ Top.stmt # "none"
  BY DEF CompleteSql, CompleteExec, CompleteTran, Past, Executing
<1>2. Top \in FrameT
  BY <1>1, InFrames
<1>3. CASE CompleteSql
  <2>1. PICK rows \in BOOLEAN :
         Finish([Top EXCEPT !.rows = rows],
                IF Top.started THEN CommitTran(tran) ELSE tran)
    BY <1>3 DEF CompleteSql
  <2> DEFINE f == [Top EXCEPT !.rows = rows]
  <2>2. f \in FrameT /\ f.kind = Top.kind /\ f.stmt = Top.stmt
    BY <1>2 DEF FrameT
  <2>3. Finish(f, IF Top.started THEN CommitTran(tran) ELSE tran)
    BY <2>1
  <2>. HIDE DEF f
  <2>. QED
    BY <1>1, <2>2, <2>3, FinishResp
<1>4. CASE CompleteExec
  BY <1>1, <1>2, <1>4, FinishResp DEF CompleteExec
<1>5. CASE CompleteTran
  BY <1>1, <1>2, <1>5, FinishResp DEF CompleteTran
<1>. QED
  BY <1>3, <1>4, <1>5

LEMMA FailResp ==
    ASSUME RespInv, BlocksInv', n > 0, Top.stmt # "none",
           NEW f \in FrameT, f.kind = Top.kind, f.stmt = Top.stmt, NEW e, Fail(f, e)
    PROVE  RespPart'
<1>1. tran' \in TranT
  BY DEF BlocksInv, Types
<1>2. frames' = SetTop(f) /\ UNCHANGED <<opts, req, tds>> /\ err'.at = "raised"
  BY DEF Fail
<1>. QED
  BY <1>1, <1>2, TopQuiet

LEMMA RaiseResp ==
    ASSUME RespInv, BlocksInv', RaiseSql \/ RaiseTran \/ RaiseMismatch \/ RaiseUser \/ Rethrow
    PROVE  RespPart'
<1>1. n > 0 /\ Top.stmt # "none"
  BY DEF RaiseSql, RaiseTran, RaiseMismatch, RaiseUser, Rethrow, Past, Executing
<1>2. Top \in FrameT
  BY <1>1, InFrames
<1>3. PICK f \in FrameT : f.kind = Top.kind /\ f.stmt = Top.stmt /\ \E e : Fail(f, e)
  <2>1. CASE RaiseSql
    <3>1. PICK c \in opts.classes, late \in BOOLEAN : Raise([Top EXCEPT !.rows = late], c)
      BY <2>1 DEF RaiseSql
    <3>2. /\ [Top EXCEPT !.rows = late] \in FrameT
          /\ [Top EXCEPT !.rows = late].kind = Top.kind
          /\ [Top EXCEPT !.rows = late].stmt = Top.stmt
      BY <1>2 DEF FrameT
    <3>. QED
      BY <3>1, <3>2 DEF Raise
  <2>2. CASE Rethrow
    <3>1. Fail([Top EXCEPT !.data.rethrow = TRUE], Top.cur)
      BY <2>2 DEF Rethrow
    <3>2. [Top EXCEPT !.data.rethrow = TRUE] \in FrameT
      BY <1>2, Zenon DEF FrameT, DataT
    <3>3. /\ [Top EXCEPT !.data.rethrow = TRUE].kind = Top.kind
          /\ [Top EXCEPT !.data.rethrow = TRUE].stmt = Top.stmt
      BY <1>2 DEF FrameT
    <3>. QED
      BY <3>1, <3>2, <3>3
  <2>3. CASE RaiseTran \/ RaiseMismatch \/ RaiseUser
    <3>1. PICK c : Raise(Top, c)
      BY <2>3 DEF RaiseTran, RaiseMismatch, RaiseUser
    <3>. QED
      BY <1>2, <3>1 DEF Raise
  <2>. QED
    BY <2>1, <2>2, <2>3
<1>. QED
  BY <1>1, <1>3, FailResp

LEMMA CaughtInFunctionResp == ASSUME RespInv, CaughtInFunction PROVE RespPart'
<1>1. /\ err.at = "raised" /\ err' = [err EXCEPT !.at = "thrown"]
      /\ UNCHANGED <<opts, frames, tran, tds, req>>
  BY DEF CaughtInFunction
<1>2. err \in [at : {"none", "raised", "thrown", "out"}, e : Error]
  BY DEF RespInv, BlocksInv, Types
<1>3. err'.at = "thrown" /\ err' # Calm /\ err # Calm
  BY <1>1, <1>2 DEF Calm
<1>4. Stmts'
  BY <1>1, <1>3 DEF RespInv, RespPart, Stmts, n, Top
<1>5. Offset'
  BY <1>1, <1>3 DEF RespInv, RespPart, Offset
<1>6. Held'
  BY <1>1, <1>3 DEF RespInv, RespPart, Held, Ends
<1>. QED
  BY <1>1, <1>4, <1>5, <1>6 DEF RespInv, RespPart, Flagged

LEMMA CaughtResp == ASSUME RespInv, Caught PROVE RespPart'
<1> DEFINE c == err.e.class
           d == Recorded(Top)
           t == ImplicitUndone(Top, Undone(Top, tran))
           out == c \in Unmapped \/ AbortExecution(d, c)
           f == [Top EXCEPT !.data = d, !.impl = "off",
                !.started = @ /\ t.block,
                !.term = @ \/ (c \in Ignorable /\ AbortCurrentBatch(d, c))]
           g == [f EXCEPT !.stmt = "none", !.at = "none", !.sp = 0]
           r == SendError(tds)
<1>1. err.at = "raised" /\ n > 0 /\ Top.kind # "func" /\ UNCHANGED <<opts, req>> /\ Top.stmt # "none"
  BY DEF Caught, RespInv, RespPart, Stmts, BlocksInv, Types, Shape, n
<1>2. Top \in FrameT /\ n \in Nat
  BY <1>1, InFrames
<1>3. d \in DataT
  BY <1>2, RecordedType DEF RespInv, BlocksInv, Types
<1>4. t \in TranT
  BY <1>2, UndoneType DEF RespInv, BlocksInv, Types
<1>5. f \in FrameT
  <2>1. (Top.started /\ t.block) \in BOOLEAN /\ (Top.term \/ (c \in Ignorable /\ AbortCurrentBatch(d, c))) \in BOOLEAN
    OBVIOUS
  <2>. HIDE DEF t, d, c
  <2>. QED
    BY <1>2, <1>3, <2>1, Zenon DEF FrameT
<1>6. f.kind = Top.kind /\ f.stmt = Top.stmt
  BY <1>2 DEF FrameT
<1>7. \/ err' = [err EXCEPT !.at = "thrown"] /\ frames' = Live(SetTop(f), t) /\ tds' = tds
      \/ /\ err' = Calm /\ frames' = Live(SetTop(g), t)
         /\ tds' = StatementEnd(r, Ended(f, f.stmt))
  BY DEF Caught
<1>. HIDE DEF f, t
<1>8. g \in FrameT /\ g.stmt = "none" /\ g.kind = Top.kind
  BY <1>5, <1>6, Zenon DEF FrameT
<1>. HIDE DEF g
<1>9. CASE err' = [err EXCEPT !.at = "thrown"] /\ frames' = Live(SetTop(f), t) /\ tds' = tds
  <2>1. err'.at = "thrown"
    BY <1>9 DEF RespInv, BlocksInv, Types
  <2>. QED
    BY <1>1, <1>4, <1>5, <1>6, <1>9, <2>1, TopQuiet
<1>10. CASE /\ err' = Calm /\ frames' = Live(SetTop(g), t)
            /\ tds' = StatementEnd(r, Ended(f, f.stmt))
  <2>1. tds \in TdsT /\ tds.stack = n /\ (~opts.nocount => Flagged(tds))
    BY <1>1, InFrames DEF RespInv, RespPart
  <2>2. r \in TdsT /\ r.stack = tds.stack /\ r.pend = NoDone /\ (Flagged(tds) => Flagged(r))
    BY <2>1, ErrorFacts
  <2>. HIDE DEF r
  <2>. QED
    BY <1>1, <1>4, <1>5, <1>6, <1>8, <1>10, <2>1, <2>2, TopEnds
<1>. QED
  BY <1>7, <1>9, <1>10

LEMMA LandResp == ASSUME RespInv, Land PROVE RespPart'
<1> DEFINE f == Landed(Top, err.e)
           g == [f EXCEPT !.stmt = "none", !.at = "none", !.sp = 0]
<1>1. /\ err.at = "thrown" /\ Top.handler # 0 /\ n > 0 /\ UNCHANGED <<opts, tran, req>>
      /\ Top.stmt # "none"
  BY DEF Land, RespInv, RespPart, Stmts, BlocksInv, Types, Shape, n
<1>2. Top \in FrameT /\ BlocksOK(Top) /\ err.e \in Error /\ err.e # NoError /\ tran \in TranT
  BY <1>1, TopIsOK DEF RespInv, BlocksInv, Types, Shape
<1>3. f \in FrameT
  BY <1>1, <1>2, LandedOK
<1>4. f.stmt = Top.stmt /\ f.kind = Top.kind
  BY <1>2 DEF Landed, FrameT
<1>5. \/ err' = err /\ frames' = SetTop(f) /\ tds' = tds
      \/ /\ err' = Calm /\ frames' = SetTop(g)
         /\ \E k \in {Top.stmt, "ctx"} : tds' = StatementEnd(tds, Ended(Top, k))
  BY DEF Land
<1>. HIDE DEF f
<1>6. g \in FrameT /\ g.stmt = "none" /\ g.kind = Top.kind
  BY <1>3, <1>4, Zenon DEF FrameT
<1>. HIDE DEF g
<1>7. CASE err' = err /\ frames' = SetTop(f) /\ tds' = tds
  BY <1>1, <1>2, <1>3, <1>4, <1>7, TopQuiet
<1>8. CASE /\ err' = Calm /\ frames' = SetTop(g)
           /\ \E k \in {Top.stmt, "ctx"} : tds' = StatementEnd(tds, Ended(Top, k))
  <2>1. PICK k \in {Top.stmt, "ctx"} : tds' = StatementEnd(tds, Ended(Top, k))
    BY <1>8
  <2>2. k # "none"
    BY <1>1
  <2>3. /\ tds \in TdsT /\ tds.stack = n /\ ~tds.mark /\ (tds.empty => tds.pend = NoDone)
        /\ (~opts.nocount => Flagged(tds))
    BY <1>1, InFrames DEF RespInv, RespPart
  <2>. QED
    BY <1>1, <1>2, <1>6, <1>8, <2>1, <2>2, <2>3, TopEnds
<1>. QED
  BY <1>5, <1>7, <1>8

-----------------------------------------------------------------------------
(* Steps that leave a frame.                                               *)

LEMMA ExceptionFacts ==
    ASSUME NEW t \in TdsT, t.stack > 0, ~t.mark, t.empty => t.pend = NoDone,
           NEW s \in StmtT, NEW terminate
    PROVE  LET u == StatementException(t, s, terminate) IN
           /\ u \in TdsT /\ u.stack = t.stack - 1 /\ ~u.mark
           /\ u.empty => u.pend = NoDone
           /\ Flagged(t) /\ ~s.hidden => Flagged(u)
<1> DEFINE u == StatementException(t, s, terminate)
<1>1. CASE terminate
  <2>1. t.stack - 1 \in Nat /\ t.offset + 1 \in Nat
    BY DEF TdsT
  <2>2. u = [t EXCEPT !.stack = @ - 1, !.offset = @ + 1]
    BY <1>1 DEF StatementException
  <2>3. /\ u \in TdsT /\ u.stack = t.stack - 1 /\ u.mark = t.mark /\ u.empty = t.empty
        /\ u.pend = t.pend /\ u.bare = t.bare /\ u.owed = t.owed
    BY <2>1, <2>2 DEF TdsT
  <2>. HIDE DEF u
  <2>4. Flagged(t) => Flagged(u)
    BY <2>3 DEF Flagged
  <2>. QED
    BY <2>3, <2>4 DEF u
<1>2. CASE ~terminate
  <2> DEFINE r == [s EXCEPT !.rows = FALSE]
  <2>1. r \in StmtT /\ r.hidden = s.hidden
    BY DEF StmtT
  <2>2. u = StatementEnd(t, r)
    BY <1>2 DEF StatementException
  <2>. HIDE DEF r
  <2>3. /\ u \in TdsT /\ u.stack = t.stack - 1
        /\ ~r.silent => ~u.mark /\ ~u.empty
        /\ r.silent => u.mark = t.mark /\ u.empty = t.empty /\ u.pend = t.pend
        /\ Flagged(t) /\ ~r.hidden => Flagged(u)
    BY <2>1, <2>2, EndFacts
  <2>. QED
    BY <2>1, <2>3
<1>. QED
  BY <1>1, <1>2

\* The caller goes on, in the statement that made the call.
LEMMA CallerResp ==
    ASSUME RespInv, n > 1, NEW d \in DataT, frames' = Caller(d), UNCHANGED <<opts, req>>,
           err' = Calm \/ err'.at \in {"raised", "thrown"},
           tds' \in TdsT, ~tds'.mark, tds'.stack = n - 1,
           err' = Calm => tds'.offset = 0,
           tds'.empty => tds'.pend = NoDone,
           ~opts.nocount => Flagged(tds')
    PROVE  RespPart'
<1>1. Types /\ n \in Nat /\ n > 0 /\ req = "running"
  BY InFrames DEF RespInv, BlocksInv, Types, n
<1>2. /\ Len(frames') = n - 1
      /\ frames'[n - 1] = [frames[n - 1] EXCEPT !.data = d,
                                     !.at = IF Top.kind = "func" THEN @ ELSE "called"]
      /\ \A i \in 1 .. (n - 2) : frames'[i] = frames[i]
  BY <1>1, CallerFacts
<1>3. \A i \in 1 .. (n - 1) : frames[i] \in FrameT
  BY <1>1, TopFacts
<1>4. \A i \in 1 .. (n - 1) : frames'[i].stmt = frames[i].stmt /\ frames'[i].kind = frames[i].kind
  <2>1. n - 1 \in 1 .. (n - 1) /\ \A i \in 1 .. (n - 1) : i = n - 1 \/ i \in 1 .. (n - 2)
    BY <1>1
  <2>2. frames'[n - 1].stmt = frames[n - 1].stmt /\ frames'[n - 1].kind = frames[n - 1].kind
    BY <1>2, <1>3, <2>1 DEF FrameT
  <2>. QED
    BY <1>2, <2>1, <2>2
<1>5. n' = n - 1 /\ n' > 0 /\ n' \in Nat /\ n' # 0 /\ 1 \in 1 .. (n - 1)
      /\ n' \in 1 .. (n - 1) /\ \A i \in 1 .. (n' - 1) : i \in 1 .. (n - 1)
  BY <1>1, <1>2 DEF n
<1>6. Top' = frames'[n']
  BY DEF Top
<1>7. Top'.stmt # "none"
  BY <1>4, <1>5, <1>6 DEF RespInv, RespPart, Stmts
<1>8. Stmts'
  BY <1>1, <1>4, <1>5, <1>7 DEF RespInv, RespPart, Stmts
<1>9. Offset' /\ Held'
  BY <1>1, <1>5 DEF Offset, Held
<1>. QED
  BY <1>8, <1>9 DEF RespPart

LEMMA ReturnResp == ASSUME RespInv, Return PROVE RespPart'
<1>1. /\ n > 1 /\ n > 0 /\ err = Calm /\ Top.stmt = "none"
      /\ frames' = Caller(Reset(Top).data) /\ UNCHANGED <<opts, tds, req>>
      /\ err' = Calm \/ err'.at = "raised"
  BY DEF Return, Ready
<1>2. Reset(Top).data \in DataT
  BY <1>1, InFrames, ResetOK
<1>3. /\ tds \in TdsT /\ ~tds.mark /\ tds.stack = n - 1 /\ (tds.empty => tds.pend = NoDone)
      /\ req = "running"
  BY <1>1, InFrames
<1>4. tds.offset = 0 /\ (~opts.nocount => Flagged(tds))
  BY <1>1, <1>3 DEF RespInv, RespPart, Offset
<1>. QED
  BY <1>1, <1>2, <1>3, <1>4, CallerResp

\* No frame is left.
LEMMA NoFramesResp ==
    ASSUME frames' = <<>>, tds' \in TdsT, ~tds'.mark, tds'.stack = 0,
           Offset', Held', ~opts'.nocount => Flagged(tds'),
           err'.at \in {"none", "out"}
    PROVE  RespPart'
<1>1. n' = 0
  BY DEF n
<1>2. 1 .. (n' - 1) = {}
  BY <1>1
<1>3. Stmts'
  BY <1>1, <1>2 DEF Stmts
<1>. QED
  BY <1>3 DEF RespPart

LEMMA UnwindResp == ASSUME RespInv, Unwind PROVE RespPart'
<1>1. err.at = "thrown" /\ n > 0 /\ UNCHANGED <<opts, req>> /\ Top.stmt # "none"
  BY DEF Unwind, RespInv, RespPart, Stmts, BlocksInv, Types, Shape, Calm, n
<1>2. PICK k \in {Top.stmt, "none"} :
        tds' = StatementException(tds, Ended(Top, k), Top.term \/ ~PartOfTry(frames))
  BY DEF Unwind
<1>3. /\ Top \in FrameT /\ n \in Nat \ {0} /\ tds \in TdsT /\ tds.stack = n /\ ~tds.mark
      /\ tds.empty => tds.pend = NoDone
      /\ ~opts.nocount => Flagged(tds)
      /\ req = "running" /\ opts \in Options
  BY <1>1, InFrames DEF RespInv, RespPart
<1>4. Ended(Top, k) \in StmtT /\ (~opts.nocount => ~Ended(Top, k).hidden)
  BY <1>3, EndedFacts
<1>5. /\ tds' \in TdsT /\ tds'.stack = n - 1 /\ ~tds'.mark
      /\ tds'.empty => tds'.pend = NoDone
      /\ ~opts.nocount => Flagged(tds')
  <2> DEFINE s == Ended(Top, k)
  <2>1. s \in StmtT /\ (~opts.nocount => ~s.hidden)
    BY <1>4
  <2>. HIDE DEF s
  <2>2. tds.stack > 0
    BY <1>3
  <2>. QED
    BY <1>2, <1>3, <2>1, <2>2, ExceptionFacts DEF s
<1>6. CASE n = 1
  <2>1. frames' = <<>> /\ err' = [at |-> "out", e |-> NoError]
    BY <1>6 DEF Unwind
  <2>2. err' # Calm /\ err'.at = "out"
    BY <2>1 DEF Calm
  <2>3. Offset' /\ Held'
    BY <1>1, <1>3, <1>5, <2>2 DEF Offset, Held
  <2>. QED
    BY <1>1, <1>5, <1>6, <2>1, <2>2, <2>3, NoFramesResp
<1>7. CASE n # 1
  <2>1. n > 1
    BY <1>3, <1>7
  <2>2. frames' = Caller(Top.data) /\ err' = [err EXCEPT !.at = "raised"]
    BY <1>7, Zenon DEF Unwind
  <2>3. err'.at = "raised" /\ err' # Calm
    BY <2>2 DEF RespInv, BlocksInv, Types, Calm
  <2>4. Top.data \in DataT
    BY <1>3 DEF FrameT
  <2>. QED
    BY <1>1, <1>5, <2>1, <2>2, <2>3, <2>4, CallerResp
<1>. QED
  BY <1>6, <1>7

LEMMA EndOfBatchResp == ASSUME RespInv, EndOfBatch PROVE RespPart'
<1>1. /\ n = 1 /\ n > 0 /\ err = Calm /\ Top.stmt = "none" /\ frames' = <<>>
      /\ UNCHANGED <<opts, tds, req>>
      /\ err' \in {Calm, [at |-> "out", e |-> NoError]}
  BY DEF EndOfBatch, Ready
<1>2. tds \in TdsT /\ ~tds.mark /\ tds.stack = 0 /\ req = "running"
  BY <1>1, InFrames
<1>3. err'.at \in {"none", "out"} /\ err.at # "out"
  BY <1>1 DEF Calm
<1>4. tds.offset = 0 /\ Held /\ (~opts.nocount => Flagged(tds))
  BY <1>1, <1>2 DEF RespInv, RespPart, Offset
<1>5. Offset'
  BY <1>1, <1>2, <1>4 DEF Offset
<1>6. Held'
  BY <1>1, <1>2, <1>3, <1>4 DEF Held, Ends
<1>7. tds' \in TdsT /\ ~tds'.mark /\ tds'.stack = 0 /\ (~opts'.nocount => Flagged(tds'))
  BY <1>1, <1>2, <1>4
<1>. QED
  BY <1>1, <1>3, <1>5, <1>6, <1>7, NoFramesResp

-----------------------------------------------------------------------------
(* The ends of a request.                                                  *)

\* Between requests nothing is open, and nothing held back.
LEMMA BetweenRequests ==
    ASSUME RespInv, frames = <<>>
    PROVE  /\ n = 0 /\ tds \in TdsT /\ ~tds.mark /\ tds.stack = 0
           /\ ~opts.nocount => Flagged(tds)
           /\ err.at \in {"none", "out"} /\ (err.at = "none" => err = Calm)
           /\ req = "idle" => err = Calm /\ tds.pend = NoDone /\ tds.offset = 0
<1>1. n = 0
  BY DEF n
<1>2. tds \in TdsT /\ ~tds.mark /\ tds.stack = 0 /\ (~opts.nocount => Flagged(tds))
  BY <1>1 DEF RespInv, RespPart, Stmts
<1>3. err \in [at : {"none", "raised", "thrown", "out"}, e : Error]
  BY DEF RespInv, BlocksInv, Types
<1>4. err.at \in {"none", "out"} /\ (err.at = "none" => err.e = NoError)
  BY <1>3 DEF RespInv, BlocksInv, Shape
<1>5. err.at = "none" => err = Calm
  BY <1>3, <1>4 DEF Calm
<1>6. req = "idle" => err = Calm
  BY DEF RespInv, BlocksInv, Shape
<1>7. req = "idle" => tds.pend = NoDone /\ tds.offset = 0
  BY <1>6 DEF RespInv, RespPart, Offset, Held
<1>. QED
  BY <1>1, <1>2, <1>4, <1>5, <1>6, <1>7

\* The response of the next request is empty.
LEMMA EmptyFacts ==
    ASSUME NEW t \in TdsT
    PROVE  LET u == [t EXCEPT !.empty = TRUE] IN
           /\ u \in TdsT /\ u.stack = t.stack /\ u.mark = t.mark /\ u.empty
           /\ u.pend = t.pend /\ u.offset = t.offset /\ (Flagged(t) => Flagged(u))
<1> DEFINE u == [t EXCEPT !.empty = TRUE]
<1>1. /\ u \in TdsT /\ u.stack = t.stack /\ u.mark = t.mark /\ u.empty = TRUE
      /\ u.pend = t.pend /\ u.offset = t.offset /\ u.bare = t.bare /\ u.owed = t.owed
  BY DEF TdsT
<1>. HIDE DEF u
<1>2. Flagged(t) => Flagged(u)
  BY <1>1 DEF Flagged
<1>. QED
  BY <1>1, <1>2 DEF u

LEMMA StartBatchResp == ASSUME RespInv, StartBatch PROVE RespPart'
<1>1. /\ req = "idle" /\ req' = "running" /\ frames' = <<Frame("batch")>>
      /\ tds' = [tds EXCEPT !.empty = TRUE] /\ UNCHANGED <<opts, err>>
  BY DEF StartBatch
<1>2. frames = <<>>
  BY <1>1 DEF RespInv, BlocksInv, Shape
<1>3. /\ err = Calm /\ tds \in TdsT /\ ~tds.mark /\ tds.stack = 0 /\ tds.pend = NoDone
      /\ tds.offset = 0 /\ (~opts.nocount => Flagged(tds))
  BY <1>1, <1>2, BetweenRequests
<1>4. /\ tds' \in TdsT /\ tds'.stack = 0 /\ ~tds'.mark /\ tds'.empty
      /\ tds'.pend = NoDone /\ tds'.offset = 0 /\ (Flagged(tds) => Flagged(tds'))
  BY <1>1, <1>3, EmptyFacts
<1>5. n' = 1 /\ frames'[1] = Frame("batch") /\ Top' = Frame("batch")
  BY <1>1 DEF n, Top
<1>6. Top'.stmt = "none" /\ frames'[1].kind = "batch" /\ err'.at = "none"
  BY <1>1, <1>3, <1>5 DEF Frame, Calm
<1>7. 1 .. (n' - 1) = {}
  BY <1>5
<1>8. Stmts'
  BY <1>4, <1>5, <1>6, <1>7 DEF Stmts
<1>9. Offset' /\ Held'
  BY <1>1, <1>4 DEF Offset, Held
<1>. QED
  BY <1>1, <1>3, <1>4, <1>8, <1>9 DEF RespPart

LEMMA CompileErrorResp == ASSUME RespInv, CompileError PROVE RespPart'
<1>1. /\ req = "idle" /\ req' = "running" /\ UNCHANGED <<opts, frames>>
      /\ tds' = [tds EXCEPT !.empty = TRUE] /\ err' = [at |-> "out", e |-> NoError]
  BY DEF CompileError
<1>2. frames = <<>>
  BY <1>1 DEF RespInv, BlocksInv, Shape
<1>3. /\ tds \in TdsT /\ ~tds.mark /\ tds.stack = 0 /\ tds.pend = NoDone
      /\ (~opts.nocount => Flagged(tds))
  BY <1>1, <1>2, BetweenRequests
<1>4. /\ tds' \in TdsT /\ tds'.stack = 0 /\ ~tds'.mark /\ tds'.empty
      /\ tds'.pend = NoDone /\ (Flagged(tds) => Flagged(tds'))
  BY <1>1, <1>3, EmptyFacts
<1>5. err'.at = "out" /\ err' # Calm
  BY <1>1 DEF Calm
<1>6. Offset' /\ Held'
  BY <1>1, <1>4, <1>5 DEF Offset, Held
<1>. QED
  BY <1>1, <1>2, <1>3, <1>4, <1>5, <1>6, NoFramesResp

\* The DONE token of the response itself.
LEMMA FinalDone ==
    ASSUME NEW t \in TdsT, NEW error \in BOOLEAN
    PROVE  LET u == SendDone(t, "DONE", error, FALSE, FALSE) IN
           /\ u \in TdsT /\ u.stack = t.stack /\ ~u.mark /\ Ends(u)
           /\ u.pend.error = (error \/ t.mark) /\ u.offset \in {0, t.offset}
           /\ Flagged(t) => Flagged(u)
<1>1. PICK b \in BOOLEAN : ~b
  OBVIOUS
<1> DEFINE u == SendDone(t, "DONE", error, b, b)
<1>2. "DONE" \in Tokens
  BY DEF Tokens
<1>3. /\ u \in TdsT /\ u.stack = t.stack /\ ~u.mark
      /\ u.pend # NoDone /\ u.pend.token = "DONE" /\ u.pend.error = (error \/ t.mark)
      /\ u.offset \in {0, t.offset}
      /\ Flagged(t) /\ ~b => Flagged(u)
  BY <1>2, DoneFacts
<1>4. u = SendDone(t, "DONE", error, FALSE, FALSE)
  BY <1>1
<1>. HIDE DEF u
<1>5. Ends(u)
  BY <1>3 DEF Ends
<1>. QED
  BY <1>1, <1>3, <1>4, <1>5

LEMMA RespondResp == ASSUME RespInv, Respond PROVE RespPart'
<1>1. /\ req = "running" /\ frames = <<>> /\ req' = "flush" /\ err' = Calm
      /\ UNCHANGED <<opts, frames>>
      /\ tds' = IF err # Calm THEN SendDone(SendError(tds), "DONE", TRUE, FALSE, FALSE)
                ELSE IF tds.empty THEN SendDone(tds, "DONE", FALSE, FALSE, FALSE)
                ELSE tds
  BY DEF Respond
<1>2. /\ tds \in TdsT /\ ~tds.mark /\ tds.stack = 0 /\ (~opts.nocount => Flagged(tds))
      /\ err = Calm => tds.offset = 0
  BY <1>1, BetweenRequests DEF RespInv, RespPart, Offset
<1>3. /\ tds' \in TdsT /\ ~tds'.mark /\ tds'.stack = 0 /\ Ends(tds')
      /\ tds'.offset = 0 \/ tds'.pend.error
      /\ Flagged(tds) => Flagged(tds')
  <2>1. CASE err # Calm
    <3> DEFINE r == SendError(tds)
    <3>1. r \in TdsT /\ r.stack = 0 /\ r.mark /\ (Flagged(tds) => Flagged(r))
      BY <1>2, ErrorFacts
    <3>. HIDE DEF r
    <3>2. PICK b \in BOOLEAN : b
      OBVIOUS
    <3>3. tds' = SendDone(r, "DONE", b, FALSE, FALSE)
      BY <1>1, <2>1, <3>2 DEF r
    <3>4. /\ tds' \in TdsT /\ tds'.stack = r.stack /\ ~tds'.mark /\ Ends(tds')
          /\ tds'.pend.error = (b \/ r.mark)
          /\ Flagged(r) => Flagged(tds')
      BY <3>1, <3>3, FinalDone
    <3>. QED
      BY <3>1, <3>2, <3>4
  <2>2. CASE err = Calm /\ tds.empty
    <3>1. PICK b \in BOOLEAN : ~b
      OBVIOUS
    <3>2. tds' = SendDone(tds, "DONE", b, FALSE, FALSE)
      BY <1>1, <2>2, <3>1
    <3>3. /\ tds' \in TdsT /\ tds'.stack = tds.stack /\ ~tds'.mark /\ Ends(tds')
          /\ tds'.offset \in {0, tds.offset}
          /\ Flagged(tds) => Flagged(tds')
      BY <1>2, <3>2, FinalDone
    <3>. QED
      BY <1>2, <2>2, <3>3
  <2>3. CASE err = Calm /\ ~tds.empty
    <3>1. tds' = tds
      BY <1>1, <2>3
    <3>2. Ends(tds)
      BY <1>1, <1>2, <2>3 DEF RespInv, RespPart, Held, Calm
    <3>. QED
      BY <1>2, <2>3, <3>1, <3>2
  <2>. QED
    BY <2>1, <2>2, <2>3
<1>4. Offset' /\ Held'
  BY <1>1, <1>3 DEF Offset, Held
<1>. QED
  BY <1>1, <1>2, <1>3, <1>4, NoFramesResp DEF Calm

LEMMA FlushResp == ASSUME RespInv, FlushResponse PROVE RespPart'
<1>1. PICK b \in BOOLEAN : ~b
  OBVIOUS
<1> DEFINE p == SendPendingDone(tds, b)
<1>2. /\ req = "flush" /\ req' = "idle" /\ UNCHANGED <<opts, frames, err>>
      /\ tds' = [p EXCEPT !.owed = FALSE]
  BY <1>1 DEF FlushResponse, Flush
<1>3. frames = <<>> /\ err = Calm
  BY <1>2 DEF RespInv, BlocksInv, Shape
<1>4. /\ tds \in TdsT /\ ~tds.mark /\ tds.stack = 0 /\ (~opts.nocount => Flagged(tds))
  BY <1>3, BetweenRequests
<1>5. tds.pend # NoDone /\ (tds.offset = 0 \/ tds.pend.error)
  BY <1>2 DEF RespInv, RespPart, Offset, Held, Ends
<1>6. /\ p \in TdsT /\ p.stack = tds.stack /\ p.mark = tds.mark
      /\ p.pend = NoDone /\ p.offset \in {0, tds.offset}
      /\ tds.pend # NoDone /\ tds.pend.error /\ ~b => p.offset = 0
      /\ Flagged(tds) => ~p.bare
  BY <1>4, PendingFacts
<1>. HIDE DEF p
<1>7. p.offset = 0
  BY <1>1, <1>5, <1>6
<1>8. /\ tds' \in TdsT /\ tds'.stack = 0 /\ ~tds'.mark /\ tds'.pend = NoDone /\ tds'.offset = 0
      /\ tds'.bare = p.bare /\ tds'.owed = FALSE
  BY <1>2, <1>4, <1>6, <1>7 DEF TdsT
<1>9. Flagged(tds) => Flagged(tds')
  BY <1>6, <1>8 DEF Flagged
<1>10. Offset' /\ Held'
  BY <1>2, <1>8 DEF Offset, Held
<1>. QED
  BY <1>2, <1>3, <1>4, <1>8, <1>9, <1>10, NoFramesResp DEF Calm

-----------------------------------------------------------------------------
(* The response.                                                           *)

LEMMA RespInit == ASSUME Init PROVE RespInv
<1>1. BlocksInv
  BY BlocksInit
<1>2. frames = <<>> /\ err = Calm /\ tds = Idle /\ req = "idle"
  BY DEF Init
<1>3. n = 0
  BY <1>2 DEF n
<1>4. 1 .. (n - 1) = {}
  BY <1>3
<1>5. tds \in TdsT /\ ~tds.mark /\ tds.stack = 0 /\ tds.offset = 0 /\ tds.pend = NoDone
  BY <1>2 DEF Idle, TdsT
<1>6. ~tds.bare /\ ~tds.owed
  BY <1>2 DEF Idle
<1>7. Stmts
  BY <1>2, <1>3, <1>4, <1>5 DEF Stmts, Calm
<1>8. Offset /\ Held /\ Flagged(tds)
  BY <1>2, <1>5, <1>6 DEF Offset, Held, Flagged
<1>. QED
  BY <1>1, <1>5, <1>7, <1>8 DEF RespInv, RespPart

LEMMA RespNext == ASSUME RespInv, [Next]_vars PROVE RespInv'
<1>1. BlocksInv'
  BY BlocksNext DEF RespInv
<1>2. CASE UNCHANGED vars
  BY <1>1, <1>2 DEF vars, RespInv, RespPart, Stmts, Offset, Held, Ends, Flagged, n, Top
<1>3. CASE Next
  <2>1. RespPart'
    BY <1>1, <1>3, StartBatchResp, CompileErrorResp, BlockStepsResp, BeginStmtResp, PrepareResp,
       CallResp, CompleteResp, RaiseResp, CaughtInFunctionResp, CaughtResp, LandResp, UnwindResp,
       ReturnResp, EndOfBatchResp, RespondResp, FlushResp
       DEF Next, Handling
  <2>. QED
    BY <1>1, <2>1 DEF RespInv
<1>. QED
  BY <1>2, <1>3

LEMMA RespInvariance == Spec => []RespInv
<1>1. Init => RespInv
  BY RespInit
<1>2. RespInv /\ [Next]_vars => RespInv'
  BY RespNext
<1>. QED
  BY <1>1, <1>2, PTL DEF Spec

LEMMA RespImpliesCounted == ASSUME RespInv PROVE StatementsCounted
<1> DEFINE S == {i \in DOMAIN frames : frames[i].stmt # "none"}
           m == IF n = 0 THEN 0 ELSE IF Top.stmt = "none" THEN n - 1 ELSE n
<1>1. n \in Nat /\ DOMAIN frames = 1 .. n
  BY DEF RespInv, BlocksInv, Types, n
<1>2. m \in Nat /\ (m = n \/ (m = n - 1 /\ Top.stmt = "none"))
  BY <1>1
<1>3. S = 1 .. m
  <2>1. ASSUME NEW i \in 1 .. n PROVE frames[i].stmt # "none" <=> i \in 1 .. m
    <3>1. CASE i = n
      <4>1. Top.stmt = "none" => m = n - 1
        BY <1>1, <2>1
      <4>2. Top.stmt # "none" => m = n
        BY <1>1, <2>1
      <4>. QED
        BY <1>1, <2>1, <3>1, <4>1, <4>2 DEF Top
    <3>2. CASE i # n
      <4>1. i \in 1 .. (n - 1) /\ i \in 1 .. m
        BY <1>1, <1>2, <2>1, <3>2
      <4>. QED
        BY <4>1 DEF RespInv, RespPart, Stmts
    <3>. QED
      BY <3>1, <3>2
  <2>2. \A i \in 1 .. m : i \in 1 .. n
    BY <1>1, <1>2
  <2>. HIDE DEF m
  <2>. QED
    BY <1>1, <2>1, <2>2
<1>4. tds.stack = m
  BY DEF RespInv, RespPart, Stmts
<1>. HIDE DEF m
<1>5. Cardinality(1 .. m) = m
  <2>1. Cardinality(1 .. m) = IF 1 > m THEN 0 ELSE m - 1 + 1
    BY <1>2, FS_Interval
  <2>. QED
    BY <1>2, <2>1
<1>6. ASSUME Ready \/ req = "idle" PROVE tds.offset = 0
  <2>1. CASE Ready
    <3>1. n > 0 /\ err = Calm
      BY <2>1 DEF Ready
    <3>2. req = "running"
      BY <3>1, InFrames
    <3>. QED
      BY <3>1, <3>2 DEF RespInv, RespPart, Offset
  <2>2. CASE req = "idle"
    <3>1. frames = <<>>
      BY <2>2 DEF RespInv, BlocksInv, Shape
    <3>. QED
      BY <2>2, <3>1, BetweenRequests
  <2>. QED
    BY <1>6, <2>1, <2>2
<1>. QED
  BY <1>3, <1>4, <1>5, <1>6 DEF StatementsCounted

\* Whatever the batch does, its response is well formed: the protocol's stack
\* counts the statements in progress, every ERROR token is followed by a DONE
\* token with the error flag, and the response ends with one DONE or DONEPROC
\* when no statement is open.  For every program, every call depth and every
\* sequence of errors.
THEOREM ResponsesAreWellFormed == Spec => []ResponseWellFormed
<1>1. RespInv => ResponseWellFormed
  <2>. SUFFICES ASSUME RespInv PROVE ResponseWellFormed
    OBVIOUS
  <2>1. TypeOK
    BY DEF TypeOK, RespInv, RespPart, BlocksInv, Types
  <2>2. StatementsCounted
    BY RespImpliesCounted
  <2>3. ResponseEndsWithDone
    <3>. SUFFICES ASSUME req = "flush" PROVE /\ tds.pend # NoDone
                     /\ tds.pend.token \in {"DONE", "DONEPROC"}
                     /\ tds.stack = 0
                     /\ ~tds.mark
      BY DEF ResponseEndsWithDone
    <3>1. frames = <<>>
      BY DEF RespInv, BlocksInv, Shape
    <3>2. tds.stack = 0 /\ ~tds.mark
      BY <3>1, BetweenRequests
    <3>3. Ends(tds)
      BY DEF RespInv, RespPart, Held
    <3>. QED
      BY <3>2, <3>3 DEF Ends
  <2>4. ErrorsAreFlagged
    BY DEF ErrorsAreFlagged, RespInv, RespPart, Flagged
  <2>. QED
    BY <2>1, <2>2, <2>3, <2>4 DEF ResponseWellFormed
<1>. QED
  BY <1>1, RespInvariance, PTL
=============================================================================
