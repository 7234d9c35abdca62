--------------------------- MODULE TsqlTranProofs ---------------------------
(***************************************************************************)
(* Proofs about the transactions of TsqlExec, for every session and every  *)
(* bound: what a failed statement has changed does not stay in a           *)
(* transaction that can be committed, and the user's savepoints stay.      *)
(***************************************************************************)
EXTENDS TsqlExecProofs

\* NestedTranCount counts the open transactions of a block, and outside a block
\* there is nothing to undo.
TranOK(t) == /\ t.block <=> t.count > 0
             /\ ~t.block => t.levels = <<>> /\ ~t.doomed /\ t.taint = {}

\* The internal savepoint of a frame's statement is still there.
SpOK(f, t) == f.sp # 0 => f.sp <= Len(t.levels) /\ t.levels[f.sp] = "internal"

Savepoints == \A i \in DOMAIN frames : SpOK(frames[i], tran)

\* What runs in whom: a function only queries, and only functions run in it; the
\* statement of a frame is one that starts frames of the callee's kind.
CalleeOK(g, f) ==
    /\ f.kind = "func" => g.stmt \in {"select", "dml"} /\ g.at = "execute"
    /\ f.kind = "trigger" => g.stmt = "dml"
    /\ f.kind = "proc" => g.stmt = "exec"
    /\ f.kind # "batch"

Callees ==
    /\ \A i \in DOMAIN frames : frames[i].kind = "func" =>
          /\ frames[i].stmt \in {"none", "select"}
          /\ ~frames[i].started
          /\ frames[i].sp = 0
          /\ \A j \in i .. n : frames[j].kind = "func"
    /\ \A i \in 1 .. (n - 1) : CalleeOK(frames[i], frames[i + 1])

\* There is no work of a failed statement in a transaction that can be committed.
Clean(t) == t.taint = {} \/ t.doomed

\* The handler of dispatch_stmt_handle_error will undo the work of f's statement,
\* or make the transaction uncommittable.
Undoable(f, t, c) ==
    /\ f.kind # "func"
    /\ \/ OwnSavepoint(f, t) /\ \A k \in t.taint : k >= f.sp
       \/ ~OwnSavepoint(f, t) /\ f.started
       \/ c \in Unmapped \cup {"txn"}

\* An error that leaves a trigger has made the transaction uncommittable.
Flight ==
    /\ tran.doomed => frames # <<>>
    /\ err.at # "raised" => Clean(tran)
    /\ err.at = "raised" => Clean(tran) \/ Undoable(Top, tran, err.e.class)
    /\ err.at = "thrown" /\ Top.kind = "trigger" /\ tran.block => tran.doomed

\* A running DML has a transaction of its own or a savepoint of its own, which is
\* the current level; and it has them still when a function it calls is running.
Protected(f, t) == /\ t.block
                   /\ \/ f.started /\ f.sp = 0
                      \/ f.sp # 0 /\ f.sp = Len(t.levels)

DmlTop ==
    /\ n > 0 /\ err = Calm /\ Top.stmt = "dml" /\ Top.at = "prepare" /\ tran.block
         => Top.sp # 0 /\ Top.sp = Len(tran.levels)
    /\ n > 0 /\ err = Calm /\ Top.stmt = "dml" /\ Top.at = "execute"
         => Protected(Top, tran)

InFunctionOfDml(i) == frames[i].stmt = "dml" /\ frames[i + 1].kind = "func"

DmlsBelow ==
    \A i \in 1 .. (n - 1) : InFunctionOfDml(i) =>
        /\ Protected(frames[i], tran)
        /\ \A j \in (i + 1) .. n : frames[j].impl = "off"

TranPart == /\ TranOK(tran) /\ Savepoints /\ Callees /\ Flight
            /\ DmlTop /\ DmlsBelow

\* The inductive invariant behind the theorems about transactions.
TranInv == BlocksInv /\ TranPart

-----------------------------------------------------------------------------
(* The operators on transactions.                                          *)

\* The levels that t and u both have are the same.
Agree(t, u) == \A i \in 1 .. Len(t.levels) :
                   i <= Len(u.levels) => u.levels[i] = t.levels[i]

LEMMA EndTranFacts ==
    ASSUME NEW t, NEW how
    PROVE  LET u == EndTran(t, how) IN
           /\ TranOK(u) /\ u.levels = <<>> /\ u.taint = {} /\ ~u.doomed /\ ~u.block
           /\ Agree(t, u)
<1> DEFINE u == EndTran(t, how)
<1>1. u.levels = <<>> /\ u.taint = {} /\ ~u.doomed /\ ~u.block /\ u.count = 0
  BY DEF EndTran, NoTran
<1>. HIDE DEF u
<1>2. TranOK(u)
  BY <1>1 DEF TranOK
<1>3. Agree(t, u)
  BY <1>1 DEF Agree
<1>. QED
  BY <1>1, <1>2, <1>3 DEF u

LEMMA StartTranFacts ==
    ASSUME NEW t \in TranT, TranOK(t)
    PROVE  LET u == StartTran(t) IN
           /\ TranOK(u) /\ u.block /\ u.count = t.count + 1
           /\ u.levels = t.levels /\ u.taint = t.taint /\ u.doomed = t.doomed
           /\ Agree(t, u)
<1> DEFINE u == StartTran(t)
<1>1. /\ u.block /\ u.count = t.count + 1 /\ u.levels = t.levels
      /\ u.taint = t.taint /\ u.doomed = t.doomed
  BY DEF StartTran, TranT
<1>2. t.count \in Nat
  BY DEF TranT
<1>. HIDE DEF u
<1>3. TranOK(u)
  BY <1>1, <1>2 DEF TranOK
<1>4. Agree(t, u)
  BY <1>1 DEF Agree
<1>. QED
  BY <1>1, <1>3, <1>4 DEF u

LEMMA CommitTranFacts ==
    ASSUME NEW t \in TranT, TranOK(t)
    PROVE  LET u == CommitTran(t) IN
           /\ TranOK(u) /\ Agree(t, u)
           /\ \/ u.levels = <<>> /\ u.taint = {} /\ ~u.doomed /\ ~u.block
              \/ /\ u.block /\ t.block /\ u.levels = t.levels
                 /\ u.taint = t.taint /\ u.doomed = t.doomed
<1>1. CASE t.count <= 1
  BY <1>1, EndTranFacts DEF CommitTran
<1>2. CASE ~(t.count <= 1)
  <2> DEFINE u == CommitTran(t)
  <2>1. t.count \in Nat /\ t.count > 1 /\ t.block
    BY <1>2 DEF TranT, TranOK
  <2>2. /\ u.block = t.block /\ u.count = t.count - 1 /\ u.levels = t.levels
        /\ u.taint = t.taint /\ u.doomed = t.doomed
    BY <1>2 DEF CommitTran, TranT
  <2>. HIDE DEF u
  <2>3. TranOK(u)
    BY <2>1, <2>2 DEF TranOK
  <2>4. Agree(t, u)
    BY <2>2 DEF Agree
  <2>. QED
    BY <2>1, <2>2, <2>3, <2>4 DEF u
<1>. QED
  BY <1>1, <1>2

LEMMA PushLevelFacts ==
    ASSUME NEW t \in TranT, TranOK(t), t.block, NEW l
    PROVE  LET u == PushLevel(t, l) IN
           /\ TranOK(u) /\ Agree(t, u) /\ u.block
           /\ u.taint = t.taint /\ u.doomed = t.doomed
           /\ Len(u.levels) = Len(t.levels) + 1 /\ u.levels[Len(t.levels) + 1] = l
           /\ \A i \in 1 .. Len(t.levels) : u.levels[i] = t.levels[i]
<1> DEFINE u == PushLevel(t, l)
<1>1. /\ u.block = t.block /\ u.count = t.count /\ u.levels = Append(t.levels, l)
      /\ u.taint = t.taint /\ u.doomed = t.doomed
  BY Zenon DEF PushLevel, TranT
<1>2. t.levels \in Seq({"internal", "user"}) /\ Len(t.levels) \in Nat
  BY DEF TranT
<1>. HIDE DEF u
<1>3. /\ Len(u.levels) = Len(t.levels) + 1 /\ u.levels[Len(t.levels) + 1] = l
      /\ \A i \in 1 .. Len(t.levels) : u.levels[i] = t.levels[i]
  BY <1>1, <1>2
<1>4. TranOK(u)
  BY <1>1 DEF TranOK
<1>5. Agree(t, u)
  BY <1>3 DEF Agree
<1>. QED
  BY <1>1, <1>3, <1>4, <1>5 DEF u

LEMMA RollbackToFacts ==
    ASSUME NEW t \in TranT, TranOK(t), NEW k \in Nat, k < Len(t.levels)
    PROVE  LET u == RollbackTo(t, k) IN
           /\ TranOK(u) /\ Agree(t, u) /\ u.block /\ t.block
           /\ u.taint = t.taint \cap (0 .. k) /\ u.doomed = t.doomed
           /\ Len(u.levels) = k
           /\ \A i \in 1 .. k : u.levels[i] = t.levels[i]
<1> DEFINE u == RollbackTo(t, k)
<1>1. /\ u.block = t.block /\ u.count = t.count /\ u.levels = SubSeq(t.levels, 1, k)
      /\ u.taint = t.taint \cap (0 .. k) /\ u.doomed = t.doomed
  BY DEF RollbackTo, TranT
<1>2. t.levels \in Seq({"internal", "user"}) /\ Len(t.levels) \in Nat
  BY DEF TranT
<1>3. t.block
  BY <1>2 DEF TranOK
<1>. HIDE DEF u
<1>4. Len(u.levels) = k /\ \A i \in 1 .. k : u.levels[i] = t.levels[i]
  BY <1>1, <1>2
<1>5. TranOK(u)
  BY <1>1, <1>3 DEF TranOK
<1>6. Agree(t, u)
  BY <1>2, <1>4 DEF Agree
<1>. QED
  BY <1>1, <1>3, <1>4, <1>5, <1>6 DEF u

LEMMA ReleaseFacts ==
    ASSUME NEW t \in TranT, TranOK(t), Len(t.levels) > 0
    PROVE  LET u == Release(t) IN
           /\ TranOK(u) /\ Agree(t, u) /\ u.block /\ t.block
           /\ (t.taint = {} => u.taint = {}) /\ u.doomed = t.doomed
           /\ Len(u.levels) = Len(t.levels) - 1
           /\ \A i \in 1 .. (Len(t.levels) - 1) : u.levels[i] = t.levels[i]
<1> DEFINE u == Release(t)
<1>1. /\ u.block = t.block /\ u.count = t.count /\ u.levels = Front(t.levels)
      /\ (t.taint = {} => u.taint = {}) /\ u.doomed = t.doomed
  BY DEF Release, TranT
<1>2. t.levels \in Seq({"internal", "user"}) /\ Len(t.levels) \in Nat
  BY DEF TranT
<1>3. t.block
  BY <1>2 DEF TranOK
<1>. HIDE DEF u
<1>4. /\ Len(u.levels) = Len(t.levels) - 1
      /\ \A i \in 1 .. (Len(t.levels) - 1) : u.levels[i] = t.levels[i]
  BY <1>1, <1>2 DEF Front
<1>5. TranOK(u)
  BY <1>1, <1>3 DEF TranOK
<1>6. Agree(t, u)
  BY <1>2, <1>4 DEF Agree
<1>. QED
  BY <1>1, <1>3, <1>4, <1>5, <1>6 DEF u

-----------------------------------------------------------------------------
(* Steps of the innermost frame.                                           *)

\* g is f, less a savepoint that t does not have.
Kept(f, g, t) == /\ g.kind = f.kind /\ g.stmt = f.stmt /\ g.at = f.at
                 /\ g.started = f.started /\ g.impl = f.impl
                 /\ g.sp = IF f.sp > Len(t.levels) THEN 0 ELSE f.sp

LEMMA KeptBySetTop ==
    ASSUME TranInv, n > 0, NEW f \in FrameT, frames' = SetTop(f),
           tran' \in TranT, Len(tran'.levels) >= Len(tran.levels)
    PROVE  /\ Len(frames') = n /\ frames'[n] = f
           /\ \A i \in 1 .. (n - 1) : Kept(frames[i], frames'[i], tran')
<1>1. /\ Len(frames') = n /\ frames'[n] = f
      /\ \A i \in 1 .. (n - 1) : frames'[i] = frames[i]
  BY SetTopFacts DEF TranInv, BlocksInv
<1>2. ASSUME NEW i \in 1 .. (n - 1)
      PROVE  Kept(frames[i], frames[i], tran')
  <2>1. i \in DOMAIN frames /\ frames[i] \in FrameT
    BY TopFacts DEF TranInv, BlocksInv
  <2>2. SpOK(frames[i], tran) /\ frames[i].sp \in Nat
    BY <2>1 DEF TranInv, TranPart, Savepoints, FrameT
  <2>3. Len(tran.levels) \in Nat /\ Len(tran'.levels) \in Nat
    BY DEF TranInv, BlocksInv, Types, TranT
  <2>4. ~(frames[i].sp > Len(tran'.levels))
    BY <2>2, <2>3 DEF SpOK
  <2>. QED
    BY <2>4 DEF Kept
<1>. QED
  BY <1>1, <1>2

LEMMA KeptByLive ==
    ASSUME TranInv, n > 0, NEW f \in FrameT, NEW t \in TranT,
           frames' = Live(SetTop(f), t), t.levels = tran'.levels
    PROVE  /\ Len(frames') = n
           /\ frames'[n] = [f EXCEPT !.sp = IF @ > Len(tran'.levels) THEN 0 ELSE @]
           /\ \A i \in 1 .. (n - 1) : Kept(frames[i], frames'[i], tran')
<1> DEFINE fs == SetTop(f)
<1>1. /\ fs \in Seq(FrameT) /\ Len(fs) = n /\ fs[n] = f
      /\ \A i \in 1 .. (n - 1) : fs[i] = frames[i]
  BY SetTopFacts DEF TranInv, BlocksInv
<1>. HIDE DEF fs
<1>2. /\ Len(frames') = n
      /\ \A i \in 1 .. n : frames'[i] = [fs[i] EXCEPT !.sp = IF @ > Len(t.levels) THEN 0 ELSE @]
  BY <1>1, LiveFacts DEF fs
<1>3. n \in Nat \ {0}
  BY TopFacts DEF TranInv, BlocksInv
<1>4. ASSUME NEW i \in 1 .. (n - 1)
      PROVE  Kept(frames[i], frames'[i], tran')
  <2>1. i \in 1 .. n /\ fs[i] = frames[i] /\ frames[i] \in FrameT
    BY <1>1, <1>3, TopFacts DEF TranInv, BlocksInv
  <2>2. frames'[i] = [frames[i] EXCEPT !.sp = IF @ > Len(tran'.levels) THEN 0 ELSE @]
    BY <1>2, <2>1
  <2>. QED
    BY <2>1, <2>2 DEF Kept, FrameT
<1>. QED
  BY <1>1, <1>2, <1>3, <1>4

\* A function under a DML is the innermost frame, and leaves the transaction alone.
LEMMA InDml ==
    ASSUME TranInv, n > 0, NEW i \in 1 .. (n - 1), InFunctionOfDml(i)
    PROVE  Top.kind = "func" /\ tran.block /\ Top.impl = "off"
<1>1. n \in Nat \ {0} /\ i + 1 \in 1 .. n /\ n \in (i + 1) .. n /\ DOMAIN frames = 1 .. n
  BY TopFacts DEF TranInv, BlocksInv
<1>2. frames[n].kind = "func"
  BY <1>1 DEF TranInv, TranPart, Callees, InFunctionOfDml
<1>3. tran.block /\ frames[n].impl = "off"
  BY <1>1 DEF TranInv, TranPart, DmlsBelow, Protected
<1>. QED
  BY <1>2, <1>3 DEF Top

FuncOK(f) == f.kind = "func" => f.stmt \in {"none", "select"} /\ ~f.started /\ f.sp = 0

LEMMA FramesStep ==
    ASSUME TranInv, n > 0, Len(frames') = n, Types', Agree(tran, tran'),
           \A i \in 1 .. (n - 1) : Kept(frames[i], frames'[i], tran'),
           NEW g, frames'[n] = g, g.kind = Top.kind,
           FuncOK(g), SpOK(g, tran'),
           \A i \in 1 .. (n - 1) : InFunctionOfDml(i) =>
               /\ tran'.block /\ Len(tran'.levels) = Len(tran.levels)
               /\ g.impl = "off"
    PROVE  Savepoints' /\ Callees' /\ DmlsBelow'
<1>1. /\ n \in Nat \ {0} /\ DOMAIN frames = 1 .. n /\ n' = n /\ DOMAIN frames' = 1 .. n
      /\ \A i \in 1 .. n : frames[i] \in FrameT
      /\ \A i \in 1 .. (n - 1) : i \in 1 .. n /\ i + 1 \in 1 .. n
      /\ \A i \in 1 .. n : i = n \/ i \in 1 .. (n - 1)
  BY TopFacts DEF TranInv, BlocksInv, n, Types
<1>2. Len(tran.levels) \in Nat /\ Len(tran'.levels) \in Nat
  BY DEF TranInv, BlocksInv, Types, TranT
<1>3. ASSUME NEW i \in 1 .. (n - 1)
      PROVE  SpOK(frames'[i], tran') /\ frames[i].sp \in Nat
             /\ (frames[i].sp # 0 => frames[i].sp \in 1 .. Len(tran.levels))
  <2>1. SpOK(frames[i], tran) /\ frames[i].sp \in Nat
    BY <1>1, Zenon DEF TranInv, TranPart, Savepoints, FrameT
  <2>2. frames[i].sp # 0 => frames[i].sp \in 1 .. Len(tran.levels)
    BY <1>2, <2>1 DEF SpOK
  <2>3. SpOK(frames'[i], tran')
    <3>1. frames'[i].sp = IF frames[i].sp > Len(tran'.levels) THEN 0 ELSE frames[i].sp
      BY DEF Kept
    <3>2. ASSUME frames'[i].sp # 0
          PROVE  frames'[i].sp <= Len(tran'.levels) /\ tran'.levels[frames'[i].sp] = "internal"
      <4>1. frames'[i].sp = frames[i].sp /\ frames[i].sp <= Len(tran'.levels)
        BY <1>2, <2>1, <3>1, <3>2
      <4>2. tran'.levels[frames[i].sp] = tran.levels[frames[i].sp]
        BY <2>2, <3>2, <4>1 DEF Agree
      <4>. QED
        BY <2>1, <3>2, <4>1, <4>2 DEF SpOK
    <3>. QED
      BY <3>2 DEF SpOK
  <2>. QED
    BY <2>1, <2>2, <2>3
<1>4. Savepoints'
  BY <1>1, <1>3 DEF Savepoints
<1>5. \A i \in 1 .. n : frames'[i].kind = frames[i].kind
  BY <1>1 DEF Kept, Top
<1>6. ASSUME NEW i \in 1 .. n, frames'[i].kind = "func"
      PROVE  /\ frames'[i].stmt \in {"none", "select"}
             /\ ~frames'[i].started
             /\ frames'[i].sp = 0
             /\ \A j \in i .. n : frames'[j].kind = "func"
  <2>1. frames[i].kind = "func"
    BY <1>5, <1>6
  <2>2. \A j \in i .. n : j \in 1 .. n /\ frames[j].kind = "func"
    <3>1. \A j \in i .. n : j \in 1 .. n
      BY <1>1
    <3>. QED
      BY <1>1, <2>1, <3>1, Zenon DEF TranInv, TranPart, Callees
  <2>3. FuncOK(frames[i])
    BY <1>1, <2>1 DEF TranInv, TranPart, Callees, FuncOK
  <2>4. CASE i = n
    BY <1>5, <1>6, <2>2, <2>4 DEF FuncOK
  <2>5. CASE i # n
    <3>1. i \in 1 .. (n - 1) /\ Kept(frames[i], frames'[i], tran')
      BY <1>1, <2>5
    <3>. QED
      BY <1>5, <2>1, <2>2, <2>3, <3>1 DEF FuncOK, Kept
  <2>. QED
    BY <2>4, <2>5
<1>7. ASSUME NEW i \in 1 .. (n - 1)
      PROVE  CalleeOK(frames'[i], frames'[i + 1])
  <2>1. CalleeOK(frames[i], frames[i + 1])
    BY DEF TranInv, TranPart, Callees
  <2>2. frames'[i + 1].kind = frames[i + 1].kind
    BY <1>1, <1>5
  <2>3. frames'[i].stmt = frames[i].stmt /\ frames'[i].at = frames[i].at
    BY DEF Kept
  <2>. QED
    BY <2>1, <2>2, <2>3 DEF CalleeOK
<1>8. Callees'
  BY <1>1, <1>6, <1>7 DEF Callees
<1>9. DmlsBelow'
  <2>1. SUFFICES ASSUME NEW i \in 1 .. (n - 1), InFunctionOfDml(i)'
                 PROVE  /\ Protected(frames'[i], tran')
                        /\ \A j \in (i + 1) .. n : frames'[j].impl = "off"
    BY <1>1 DEF DmlsBelow
  <2>2. InFunctionOfDml(i)
    BY <1>1, <1>5, <2>1 DEF InFunctionOfDml, Kept
  <2>3. Protected(frames[i], tran) /\ \A j \in (i + 1) .. n : frames[j].impl = "off"
    BY <2>2 DEF TranInv, TranPart, DmlsBelow
  <2>4. /\ tran'.block /\ Len(tran'.levels) = Len(tran.levels) /\ g.impl = "off"
    BY <2>2
  <2>5. frames'[i].sp = frames[i].sp /\ frames'[i].started = frames[i].started
    BY <1>2, <1>3, <2>4 DEF Kept
  <2>6. Protected(frames'[i], tran')
    BY <2>3, <2>4, <2>5 DEF Protected
  <2>7. \A j \in (i + 1) .. n : j = n \/ j \in 1 .. (n - 1)
    BY <1>1
  <2>. QED
    BY <2>3, <2>4, <2>6, <2>7 DEF Kept
<1>. QED
  BY <1>4, <1>8, <1>9

-----------------------------------------------------------------------------
(* Every action keeps TranPart.                                            *)

LEMMA TranInit == ASSUME Init PROVE TranPart
<1>1. frames = <<>> /\ err = Calm /\ tran = NoTran /\ n = 0
  BY DEF Init, n
<1>2. TranOK(tran) /\ ~tran.doomed /\ tran.taint = {}
  BY <1>1 DEF TranOK, NoTran
<1>3. Savepoints /\ Callees /\ DmlTop /\ DmlsBelow
  BY <1>1 DEF Savepoints, Callees, DmlTop, DmlsBelow
<1>4. Flight
  BY <1>1, <1>2 DEF Flight, Clean, Calm
<1>. QED
  BY <1>2, <1>3, <1>4 DEF TranPart

LEMMA TopKept ==
    ASSUME TranInv, n > 0
    PROVE  /\ Top \in FrameT /\ n \in Nat \ {0} /\ FuncOK(Top) /\ SpOK(Top, tran)
           /\ tran \in TranT /\ TranOK(tran) /\ Agree(tran, tran)
           /\ Len(tran.levels) \in Nat
<1>1. Top \in FrameT /\ n \in Nat \ {0} /\ n \in DOMAIN frames
  BY TopFacts DEF TranInv, BlocksInv
<1>2. FuncOK(Top) /\ SpOK(Top, tran) /\ TranOK(tran)
  BY <1>1 DEF TranInv, TranPart, Callees, Savepoints, FuncOK, Top
<1>3. tran \in TranT /\ Len(tran.levels) \in Nat
  BY DEF TranInv, BlocksInv, Types, TranT
<1>. QED
  BY <1>1, <1>2, <1>3 DEF Agree

\* Between two statements, without a change to the transaction.
LEMMA QuietStep ==
    ASSUME TranInv, BlocksInv', n > 0, err = Calm, err' = Calm, tran' = tran,
           NEW f \in FrameT, frames' = SetTop(f), f.stmt = "none",
           f.kind = Top.kind, f.sp = Top.sp, f.started = Top.started, f.impl = Top.impl
    PROVE  TranPart'
<1>1. /\ Top \in FrameT /\ n \in Nat \ {0} /\ FuncOK(Top) /\ SpOK(Top, tran)
      /\ tran \in TranT /\ TranOK(tran) /\ Agree(tran, tran)
      /\ Len(tran.levels) \in Nat
  BY TopKept
<1>2. /\ Len(frames') = n /\ frames'[n] = f
      /\ \A i \in 1 .. (n - 1) : Kept(frames[i], frames'[i], tran')
  BY <1>1, KeptBySetTop
<1>3. FuncOK(f) /\ SpOK(f, tran')
  BY <1>1 DEF FuncOK, SpOK
<1>4. \A i \in 1 .. (n - 1) : InFunctionOfDml(i) => tran'.block /\ f.impl = "off"
  BY InDml
<1>5. Savepoints' /\ Callees' /\ DmlsBelow'
  BY <1>1, <1>2, <1>3, <1>4, FramesStep DEF BlocksInv
<1>6. Top' = f /\ n' = n /\ frames' # <<>>
  BY <1>1, <1>2 DEF Top, n
<1>7. DmlTop'
  BY <1>6 DEF DmlTop
<1>8. Flight'
  BY <1>6 DEF TranInv, TranPart, Flight, Calm
<1>. QED
  BY <1>1, <1>5, <1>7, <1>8 DEF TranPart

LEMMA StartBatchTran == ASSUME TranInv, BlocksInv', StartBatch PROVE TranPart'
<1>1. frames' = <<Frame("batch")>> /\ UNCHANGED <<err, tran>> /\ frames = <<>> /\ err = Calm
  BY DEF StartBatch, TranInv, BlocksInv, Shape
<1>2. n' = 1 /\ DOMAIN frames' = {1} /\ frames'[1] = Frame("batch") /\ Top' = Frame("batch")
      /\ frames' # <<>>
  BY <1>1 DEF n, Top
<1>3. Frame("batch").kind = "batch" /\ Frame("batch").stmt = "none" /\ Frame("batch").sp = 0
  BY DEF Frame
<1>4. Savepoints'
  BY <1>2, <1>3 DEF Savepoints, SpOK
<1>5. Callees'
  BY <1>2, <1>3 DEF Callees
<1>6. DmlTop' /\ DmlsBelow'
  BY <1>2, <1>3 DEF DmlTop, DmlsBelow
<1>7. Flight'
  BY <1>1, <1>2 DEF TranInv, TranPart, Flight, Calm
<1>. QED
  BY <1>1, <1>4, <1>5, <1>6, <1>7 DEF TranInv, TranPart

LEMMA BlockStepsTran ==
    ASSUME TranInv, BlocksInv', EnterTry \/ EndTry \/ EndCatch
    PROVE  TranPart'
<1> DEFINE r == Reset(Top)
<1>1. n > 0 /\ err = Calm /\ err' = Calm /\ tran' = tran /\ Top.stmt = "none"
  BY DEF EnterTry, EndTry, EndCatch, Ready
<1>2. Top \in FrameT
  BY <1>1, TopKept
<1>3. r \in FrameT /\ r.kind = Top.kind /\ r.sp = Top.sp /\ r.started = Top.started
      /\ r.impl = Top.impl /\ r.stmt = "none" /\ r.blocks = Top.blocks
  BY <1>1, <1>2, ResetOK, Zenon DEF Reset, FrameT
<1>4. BlocksOK(r)
  BY <1>1, <1>2, TopIsOK, ResetOK, SameBlocksOK DEF TranInv
<1>. HIDE DEF r
<1>5. CASE EnterTry
  <2>1. SaveCtx(r) \in FrameT
    BY <1>3, <1>4, SaveCtxOK
  <2>2. SaveCtx(r).kind = Top.kind /\ SaveCtx(r).sp = Top.sp /\ SaveCtx(r).started = Top.started
        /\ SaveCtx(r).impl = Top.impl /\ SaveCtx(r).stmt = "none"
    BY <1>3 DEF SaveCtx, FrameT
  <2>3. frames' = SetTop(SaveCtx(r))
    BY <1>5 DEF EnterTry, r
  <2>. QED
    BY <1>1, <2>1, <2>2, <2>3, QuietStep
<1>6. CASE EndTry
  <2>1. RestoreFull(r) \in FrameT
    BY <1>3, <1>4, <1>6, RestoreFullOK DEF EndTry
  <2>2. RestoreFull(r).kind = Top.kind /\ RestoreFull(r).sp = Top.sp
        /\ RestoreFull(r).started = Top.started
        /\ RestoreFull(r).impl = Top.impl /\ RestoreFull(r).stmt = "none"
    BY <1>3 DEF RestoreFull, FrameT
  <2>3. frames' = SetTop(RestoreFull(r))
    BY <1>6 DEF EndTry, r
  <2>. QED
    BY <1>1, <2>1, <2>2, <2>3, QuietStep
<1>7. CASE EndCatch
  <2>1. RestorePartial(r) \in FrameT
    BY <1>3, <1>4, <1>7, RestorePartialOK DEF EndCatch
  <2>2. RestorePartial(r).kind = Top.kind /\ RestorePartial(r).sp = Top.sp
        /\ RestorePartial(r).started = Top.started
        /\ RestorePartial(r).impl = Top.impl /\ RestorePartial(r).stmt = "none"
    BY <1>3 DEF RestorePartial, FrameT
  <2>3. frames' = SetTop(RestorePartial(r))
    BY <1>7 DEF EndCatch, r
  <2>. QED
    BY <1>1, <2>1, <2>2, <2>3, QuietStep
<1>. QED
  BY <1>5, <1>6, <1>7

LEMMA BeginStmtTran ==
    ASSUME TranInv, BlocksInv', NEW k \in opts.kinds, BeginStmt(k)
    PROVE  TranPart'
<1> DEFINE implicit == opts.implicit /\ ~tran.block /\ k \in ExecSql
           t == IF implicit THEN StartTran(tran) ELSE tran
           sp == Top.kind # "func" /\ k # "exec" /\ t.block
           r == Reset(Top)
           f == [r EXCEPT
                !.stmt = k, !.at = IF k \in ExecSql THEN "prepare" ELSE "execute",
                !.rows = FALSE, !.before = tran.count, !.started = FALSE,
                !.sp = IF sp THEN Len(tran'.levels) ELSE 0,
                !.impl = IF implicit THEN "start" ELSE "off"]
<1>1. /\ n > 0 /\ err = Calm /\ err' = Calm /\ Top.stmt = "none" /\ Allowed(Top, k)
      /\ tran' = IF sp THEN PushLevel(t, "internal") ELSE t
      /\ frames' = SetTop(f)
  BY DEF BeginStmt, Ready
<1>2. /\ Top \in FrameT /\ n \in Nat \ {0} /\ FuncOK(Top) /\ SpOK(Top, tran)
      /\ tran \in TranT /\ TranOK(tran) /\ Agree(tran, tran)
      /\ Len(tran.levels) \in Nat
  BY <1>1, TopKept
<1>3. /\ t \in TranT /\ TranOK(t) /\ t.levels = tran.levels
      /\ t.taint = tran.taint /\ t.doomed = tran.doomed
  BY <1>2, TranTypes, StartTranFacts
<1>4. r \in FrameT /\ r.kind = Top.kind
  BY <1>2, ResetOK
<1>5. /\ f.kind = Top.kind /\ f.stmt = k /\ ~f.started
      /\ f.sp = (IF sp THEN Len(tran'.levels) ELSE 0)
      /\ f.at = (IF k \in ExecSql THEN "prepare" ELSE "execute")
      /\ f.impl = (IF implicit THEN "start" ELSE "off")
  BY <1>4 DEF FrameT
<1>6. f \in FrameT
  <2>1. k \in AllKinds
    BY OptionsAssumption DEF TranInv, BlocksInv, Types, Settings
  <2>2. Len(tran'.levels) \in Nat /\ tran.count \in Nat
    BY <1>2 DEF TranT, BlocksInv, Types
  <2>. HIDE DEF r, sp, implicit
  <2>. QED
    BY <1>4, <2>1, <2>2, Zenon DEF FrameT
<1>7. /\ TranOK(tran') /\ Agree(tran, tran')
      /\ tran'.taint = tran.taint /\ tran'.doomed = tran.doomed
      /\ Len(tran'.levels) >= Len(tran.levels)
      /\ sp => Len(tran'.levels) = Len(tran.levels) + 1
               /\ tran'.levels[Len(tran'.levels)] = "internal"
      /\ ~sp => tran' = t
  <2>1. CASE sp
    <3>. HIDE DEF t
    <3>. QED
      BY <1>1, <1>2, <1>3, <2>1, PushLevelFacts DEF Agree
  <2>2. CASE ~sp
    <3>. HIDE DEF t
    <3>. QED
      BY <1>1, <1>2, <1>3, <2>2 DEF Agree
  <2>. QED
    BY <2>1, <2>2
<1>8. ASSUME NEW i \in 1 .. (n - 1), InFunctionOfDml(i)
      PROVE  tran'.block /\ Len(tran'.levels) = Len(tran.levels) /\ f.impl = "off"
  <2>1. Top.kind = "func" /\ tran.block
    BY <1>1, <1>8, InDml
  <2>. QED
    BY <1>5, <1>7, <2>1
<1>. HIDE DEF f
<1>9. /\ Len(frames') = n /\ frames'[n] = f
      /\ \A i \in 1 .. (n - 1) : Kept(frames[i], frames'[i], tran')
  BY <1>1, <1>6, <1>7, KeptBySetTop DEF BlocksInv, Types
<1>10. FuncOK(f) /\ SpOK(f, tran')
  <2>1. FuncOK(f)
    BY <1>1, <1>5 DEF FuncOK, Allowed
  <2>2. SpOK(f, tran')
    <3>. HIDE DEF sp
    <3>. QED
      BY <1>2, <1>5, <1>7 DEF SpOK
  <2>. QED
    BY <2>1, <2>2
<1>11. Savepoints' /\ Callees' /\ DmlsBelow'
  BY <1>1, <1>5, <1>7, <1>8, <1>9, <1>10, FramesStep DEF BlocksInv
<1>12. Top' = f /\ n' = n /\ frames' # <<>>
  BY <1>2, <1>9 DEF Top, n
<1>13. DmlTop'
  <2>1. k = "dml" => Top.kind # "func" /\ k # "exec" /\ k \in ExecSql
    BY <1>1 DEF Allowed, ExecSql
  <2>2. k = "dml" /\ tran'.block => sp
    BY <1>7, <2>1
  <2>3. sp => f.sp = Len(tran'.levels) /\ f.sp # 0
    BY <1>2, <1>5, <1>7
  <2>. HIDE DEF sp
  <2>. QED
    BY <1>5, <1>12, <2>1, <2>2, <2>3 DEF DmlTop
<1>14. Flight'
  BY <1>1, <1>7, <1>12 DEF TranInv, TranPart, Flight, Calm, Clean
<1>. QED
  BY <1>7, <1>11, <1>13, <1>14 DEF TranPart

\* A savepoint outlives a change of the transaction, or is forgotten.
LEMMA LiveSpOK ==
    ASSUME NEW f \in FrameT, NEW t \in TranT, NEW u \in TranT, SpOK(f, t), Agree(t, u)
    PROVE  LET g == [f EXCEPT !.sp = IF @ > Len(u.levels) THEN 0 ELSE @] IN
           /\ SpOK(g, u)
           /\ g.kind = f.kind /\ g.stmt = f.stmt /\ g.at = f.at
           /\ g.started = f.started /\ g.impl = f.impl
           /\ g.sp = IF f.sp > Len(u.levels) THEN 0 ELSE f.sp
           /\ FuncOK(f) => FuncOK(g)
<1> DEFINE g == [f EXCEPT !.sp = IF @ > Len(u.levels) THEN 0 ELSE @]
<1>1. /\ g.kind = f.kind /\ g.stmt = f.stmt /\ g.at = f.at
      /\ g.started = f.started /\ g.impl = f.impl
      /\ g.sp = IF f.sp > Len(u.levels) THEN 0 ELSE f.sp
  BY DEF FrameT
<1>2. f.sp \in Nat /\ Len(t.levels) \in Nat /\ Len(u.levels) \in Nat
  BY DEF FrameT, TranT
<1>. HIDE DEF g
<1>3. SpOK(g, u)
  <2>1. SUFFICES ASSUME g.sp # 0
                 PROVE  g.sp <= Len(u.levels) /\ u.levels[g.sp] = "internal"
    BY DEF SpOK
  <2>2. g.sp = f.sp /\ f.sp <= Len(u.levels) /\ f.sp \in 1 .. Len(t.levels)
    BY <1>1, <1>2, <2>1 DEF SpOK
  <2>3. u.levels[f.sp] = t.levels[f.sp]
    BY <2>2 DEF Agree
  <2>. QED
    BY <2>1, <2>2, <2>3 DEF SpOK
<1>4. FuncOK(f) => FuncOK(g)
  BY <1>1 DEF FuncOK
<1>. QED
  BY <1>1, <1>3, <1>4 DEF g

LEMMA CallTran ==
    ASSUME TranInv, BlocksInv', NEW kind \in opts.callees, Call(kind)
    PROVE  TranPart'
<1> DEFINE g == Frame(kind)
<1>1. kind \in {"proc", "trigger", "func"}
  BY OptionsAssumption DEF TranInv, BlocksInv, Types, Settings, FrameKinds
<1>2. /\ n > 0 /\ err = Calm /\ err' = Calm /\ tran' = tran
      /\ kind = "proc" => Top.stmt = "exec"
      /\ kind = "trigger" => Top.stmt = "dml"
      /\ kind = "func" => Top.stmt \in {"select", "dml"} /\ Top.at = "execute"
  BY <1>1, Zenon DEF Call, Executing, Past
<1>3. frames' = Append(frames, g)
  BY DEF Call
<1>4. g.kind = kind /\ g.stmt = "none" /\ ~g.started /\ g.sp = 0 /\ g.impl = "off"
  BY DEF Frame
<1>5. n \in Nat \ {0} /\ DOMAIN frames = 1 .. n /\ frames \in Seq(FrameT) /\ Len(frames) = n
      /\ FuncOK(Top)
  BY <1>2, TopFacts, TopKept DEF TranInv, BlocksInv, Types, n
<1>. HIDE DEF g
<1>6. /\ DOMAIN frames' = 1 .. (n + 1) /\ Len(frames') = n + 1 /\ frames' # <<>>
      /\ frames'[n + 1] = g /\ \A i \in 1 .. n : frames'[i] = frames[i]
  BY <1>3, <1>5
<1>7. n' = n + 1 /\ Top' = g /\ (n + 1) - 1 = n
  BY <1>5, <1>6 DEF n, Top
<1>8. \A i \in 1 .. (n + 1) : i = n + 1 \/ i \in 1 .. n
  BY <1>5
<1>9. Savepoints'
  BY <1>2, <1>4, <1>5, <1>6, <1>8 DEF TranInv, TranPart, Savepoints, SpOK
<1>10. ASSUME NEW i \in 1 .. (n + 1), frames'[i].kind = "func"
       PROVE  /\ frames'[i].stmt \in {"none", "select"}
              /\ ~frames'[i].started
              /\ frames'[i].sp = 0
              /\ \A j \in i .. (n + 1) : frames'[j].kind = "func"
  <2>1. CASE i = n + 1
    BY <1>4, <1>5, <1>6, <1>10, <2>1
  <2>2. CASE i # n + 1
    <3>1. i \in 1 .. n /\ frames'[i] = frames[i] /\ frames[i].kind = "func" /\ n \in i .. n
      BY <1>5, <1>6, <1>8, <1>10, <2>2
    <3>2. /\ frames[i].stmt \in {"none", "select"} /\ ~frames[i].started /\ frames[i].sp = 0
          /\ \A j \in i .. n : frames[j].kind = "func"
      BY <1>5, <3>1 DEF TranInv, TranPart, Callees
    <3>3. Top.kind = "func"
      BY <3>1, <3>2 DEF Top
    <3>4. kind = "func"
      BY <1>1, <1>2, <1>5, <3>3 DEF FuncOK
    <3>5. \A j \in i .. (n + 1) : j = n + 1 \/ (j \in i .. n /\ j \in 1 .. n)
      BY <1>5, <3>1
    <3>. QED
      BY <1>4, <1>6, <3>1, <3>2, <3>4, <3>5
  <2>. QED
    BY <2>1, <2>2
<1>11. ASSUME NEW i \in 1 .. n
       PROVE  CalleeOK(frames'[i], frames'[i + 1])
  <2>1. CASE i = n
    BY <1>1, <1>2, <1>4, <1>6, <2>1 DEF CalleeOK, Top
  <2>2. CASE i # n
    <3>1. i \in 1 .. (n - 1) /\ i + 1 \in 1 .. n
      BY <1>5, <2>2
    <3>. QED
      BY <1>6, <3>1 DEF TranInv, TranPart, Callees
  <2>. QED
    BY <2>1, <2>2
<1>12. Callees'
  BY <1>6, <1>7, <1>10, <1>11 DEF Callees
<1>13. DmlTop'
  BY <1>4, <1>7 DEF DmlTop
<1>14. DmlsBelow'
  <2>1. SUFFICES ASSUME NEW i \in 1 .. n, InFunctionOfDml(i)'
                 PROVE  /\ Protected(frames'[i], tran')
                        /\ \A j \in (i + 1) .. (n + 1) : frames'[j].impl = "off"
    BY <1>7 DEF DmlsBelow
  <2>2. frames'[i] = frames[i]
    BY <1>6
  <2>3. CASE i = n
    <3>1. Top.stmt = "dml" /\ Top.at = "execute"
      BY <1>2, <1>4, <1>6, <2>1, <2>2, <2>3 DEF InFunctionOfDml, Top
    <3>2. Protected(Top, tran)
      BY <1>2, <3>1 DEF TranInv, TranPart, DmlTop
    <3>3. \A j \in (i + 1) .. (n + 1) : j = n + 1
      BY <1>5, <2>3
    <3>. QED
      BY <1>2, <1>4, <1>6, <2>2, <2>3, <3>2, <3>3 DEF Top
  <2>4. CASE i # n
    <3>1. i \in 1 .. (n - 1) /\ i + 1 \in 1 .. n
      BY <1>5, <2>4
    <3>2. InFunctionOfDml(i)
      BY <1>6, <2>1, <2>2, <3>1 DEF InFunctionOfDml
    <3>3. Protected(frames[i], tran) /\ \A j \in (i + 1) .. n : frames[j].impl = "off"
      BY <3>1, <3>2 DEF TranInv, TranPart, DmlsBelow
    <3>4. \A j \in (i + 1) .. (n + 1) : j = n + 1 \/ (j \in (i + 1) .. n /\ j \in 1 .. n)
      BY <1>5, <3>1
    <3>. QED
      BY <1>2, <1>4, <1>6, <2>2, <3>3, <3>4
  <2>. QED
    BY <2>3, <2>4
<1>15. Flight'
  BY <1>2, <1>6 DEF TranInv, TranPart, Flight, Calm
<1>. QED
  BY <1>2, <1>9, <1>12, <1>13, <1>14, <1>15 DEF TranInv, TranPart

LEMMA LiveStep ==
    ASSUME TranInv, BlocksInv', n > 0, NEW f \in FrameT, NEW t \in TranT,
           frames' = Live(SetTop(f), t), t.levels = tran'.levels, Agree(tran, tran'),
           f.kind = Top.kind, FuncOK(f), SpOK(f, tran),
           \A i \in 1 .. (n - 1) : InFunctionOfDml(i) =>
               /\ tran'.block /\ Len(tran'.levels) = Len(tran.levels)
               /\ f.impl = "off"
    PROVE  /\ Savepoints' /\ Callees' /\ DmlsBelow'
           /\ n' = n /\ frames' # <<>>
           /\ Top'.kind = f.kind /\ Top'.stmt = f.stmt /\ Top'.at = f.at
           /\ Top'.started = f.started /\ Top'.impl = f.impl
           /\ Top'.sp = IF f.sp > Len(tran'.levels) THEN 0 ELSE f.sp
<1> DEFINE g == [f EXCEPT !.sp = IF @ > Len(tran'.levels) THEN 0 ELSE @]
<1>1. tran \in TranT /\ tran' \in TranT /\ n \in Nat \ {0}
  BY TopKept DEF BlocksInv, Types
<1>2. /\ Len(frames') = n /\ frames'[n] = g
      /\ \A i \in 1 .. (n - 1) : Kept(frames[i], frames'[i], tran')
  BY KeptByLive
<1>3. /\ SpOK(g, tran') /\ FuncOK(g)
      /\ g.kind = f.kind /\ g.stmt = f.stmt /\ g.at = f.at
      /\ g.started = f.started /\ g.impl = f.impl
      /\ g.sp = IF f.sp > Len(tran'.levels) THEN 0 ELSE f.sp
  BY <1>1, LiveSpOK
<1>. HIDE DEF g
<1>4. Savepoints' /\ Callees' /\ DmlsBelow'
  BY <1>2, <1>3, FramesStep DEF BlocksInv
<1>5. n' = n /\ frames' # <<>> /\ Top' = g
  BY <1>1, <1>2 DEF n, Top
<1>. QED
  BY <1>3, <1>4, <1>5

LEMMA PrepareTran == ASSUME TranInv, BlocksInv', Prepare PROVE TranPart'
<1>1. n > 0 /\ err = Calm /\ err' = Calm /\ Top.stmt # "none" /\ Top.at = "prepare"
  BY DEF Prepare, Executing
<1>2. PICK needed \in ImplicitNeeded(Top.stmt) :
         LET drop == Top.impl = "start" /\ ~needed
             t == IF drop THEN CommitTran(tran) ELSE tran
             start == Top.stmt = "dml" /\ ~t.block
         IN  /\ Top.impl # "start" => \A b \in ImplicitNeeded(Top.stmt) : b => needed
             /\ tran' = IF start THEN StartTran(t) ELSE t
             /\ frames' = Live(SetTop([Top EXCEPT
                  !.at = "execute", !.started = start,
                  !.impl = IF @ = "start" /\ needed THEN "on" ELSE "off"]), tran')
  BY Zenon DEF Prepare
<1> DEFINE drop == Top.impl = "start" /\ ~needed
           t == IF drop THEN CommitTran(tran) ELSE tran
           start == Top.stmt = "dml" /\ ~t.block
           f == [Top EXCEPT
                  !.at = "execute", !.started = start,
                  !.impl = IF @ = "start" /\ needed THEN "on" ELSE "off"]
<1>3. /\ Top \in FrameT /\ n \in Nat \ {0} /\ FuncOK(Top) /\ SpOK(Top, tran)
      /\ tran \in TranT /\ TranOK(tran) /\ Agree(tran, tran)
      /\ Len(tran.levels) \in Nat
  BY <1>1, TopKept
<1>4. /\ t \in TranT /\ TranOK(t) /\ Agree(tran, t)
      /\ Clean(tran) => Clean(t)
  BY <1>3, TranTypes, CommitTranFacts DEF Clean
<1>5. /\ f.kind = Top.kind /\ f.stmt = Top.stmt /\ f.at = "execute" /\ f.started = start
      /\ f.sp = Top.sp
      /\ f.impl = IF Top.impl = "start" /\ needed THEN "on" ELSE "off"
  BY <1>3 DEF FrameT
<1>6. tran' = (IF start THEN StartTran(t) ELSE t) /\ frames' = Live(SetTop(f), tran')
  BY <1>2
<1>7. f \in FrameT
  <2>1. start \in BOOLEAN
    OBVIOUS
  <2>. HIDE DEF start
  <2>. QED
    BY <1>3, <2>1, Zenon DEF FrameT
<1>8. /\ TranOK(tran') /\ Agree(tran, tran')
      /\ Clean(tran) => Clean(tran')
  <2>. HIDE DEF t
  <2>1. /\ TranOK(tran') /\ tran'.levels = t.levels
        /\ tran'.taint = t.taint /\ tran'.doomed = t.doomed
    BY <1>4, <1>6, StartTranFacts
  <2>. QED
    BY <1>4, <2>1 DEF Agree, Clean
<1>9. FuncOK(f) /\ SpOK(f, tran)
  BY <1>3, <1>5, Zenon DEF FuncOK, SpOK
<1>10. ASSUME NEW i \in 1 .. (n - 1), InFunctionOfDml(i)
       PROVE  tran'.block /\ Len(tran'.levels) = Len(tran.levels) /\ f.impl = "off"
  <2>1. Top.kind = "func" /\ tran.block /\ Top.impl = "off"
    BY <1>1, <1>10, InDml
  <2>2. ~drop /\ t = tran /\ ~start
    BY <2>1
  <2>. QED
    BY <1>5, <1>6, <2>1, <2>2
<1>. HIDE DEF f
<1>11. /\ Savepoints' /\ Callees' /\ DmlsBelow'
       /\ n' = n /\ frames' # <<>>
       /\ Top'.stmt = f.stmt /\ Top'.at = f.at /\ Top'.started = f.started
       /\ Top'.sp = IF f.sp > Len(tran'.levels) THEN 0 ELSE f.sp
  BY <1>1, <1>5, <1>6, <1>7, <1>8, <1>9, <1>10, LiveStep DEF BlocksInv, Types
<1>12. DmlTop'
  <2>1. SUFFICES ASSUME Top.stmt = "dml"
                 PROVE  Protected(Top', tran')
    BY <1>5, <1>11 DEF DmlTop
  <2>2. ~drop /\ t = tran
    BY <2>1 DEF ImplicitNeeded
  <2>3. CASE tran.block
    <3>1. Top.sp # 0 /\ Top.sp = Len(tran.levels)
      BY <1>1, <2>1, <2>3 DEF TranInv, TranPart, DmlTop
    <3>2. tran' = tran
      BY <1>6, <2>2, <2>3
    <3>. QED
      BY <1>3, <1>5, <1>11, <2>3, <3>1, <3>2 DEF Protected
  <2>4. CASE ~tran.block
    <3>1. start /\ tran' = StartTran(tran)
      BY <1>6, <2>1, <2>2, <2>4
    <3>2. tran'.block /\ Top.sp = 0
      BY <1>3, <2>4, <3>1, StartTranFacts DEF TranOK, SpOK, FrameT
    <3>3. Top'.sp = 0 /\ Top'.started
      BY <1>3, <1>5, <1>11, <3>1, <3>2, Zenon
    <3>. QED
      BY <3>2, <3>3 DEF Protected
  <2>. QED
    BY <2>3, <2>4
<1>13. Flight'
  BY <1>1, <1>8, <1>11 DEF TranInv, TranPart, Flight, Calm
<1>. QED
  BY <1>8, <1>11, <1>12, <1>13 DEF TranPart

LEMMA FinishTran ==
    ASSUME TranInv, BlocksInv', n > 0, err = Calm,
           NEW f \in FrameT, f.kind = Top.kind, f.sp = Top.sp, FuncOK(f),
           NEW t \in TranT, TranOK(t), Agree(tran, t), Clean(t), Finish(f, t),
           \A i \in 1 .. (n - 1) : InFunctionOfDml(i) => t = tran /\ f.impl = "off"
    PROVE  TranPart'
<1> DEFINE g == [f EXCEPT !.stmt = "none", !.at = "none", !.sp = 0]
<1>1. /\ tran' = (IF OwnSavepoint(f, t) THEN Release(t) ELSE t)
      /\ frames' = Live(SetTop(g), tran') /\ err' = Calm
  BY DEF Finish
<1>2. tran \in TranT /\ tran' \in TranT /\ Len(tran.levels) \in Nat /\ Len(t.levels) \in Nat
  BY TopKept DEF BlocksInv, Types, TranT
<1>3. /\ TranOK(tran') /\ Agree(tran, tran') /\ Clean(tran')
  <2>1. CASE OwnSavepoint(f, t)
    <3>1. Len(t.levels) > 0
      BY <1>2, <2>1 DEF OwnSavepoint, FrameT
    <3>2. /\ TranOK(tran') /\ (t.taint = {} => tran'.taint = {}) /\ tran'.doomed = t.doomed
          /\ Len(tran'.levels) = Len(t.levels) - 1
          /\ \A i \in 1 .. (Len(t.levels) - 1) : tran'.levels[i] = t.levels[i]
      BY <1>1, <2>1, <3>1, ReleaseFacts
    <3>3. Agree(tran, tran')
      BY <1>2, <3>2 DEF Agree
    <3>4. Clean(tran')
      BY <3>2 DEF Clean
    <3>. QED
      BY <3>2, <3>3, <3>4
  <2>2. CASE ~OwnSavepoint(f, t)
    BY <1>1, <2>2
  <2>. QED
    BY <2>1, <2>2
<1>4. g \in FrameT /\ g.kind = f.kind /\ g.stmt = "none" /\ g.sp = 0 /\ g.started = f.started
      /\ g.impl = f.impl
  BY Zenon DEF FrameT
<1>. HIDE DEF g
<1>5. FuncOK(g) /\ SpOK(g, tran)
  BY <1>4 DEF FuncOK, SpOK
<1>6. ASSUME NEW i \in 1 .. (n - 1), InFunctionOfDml(i)
      PROVE  tran'.block /\ Len(tran'.levels) = Len(tran.levels) /\ g.impl = "off"
  <2>1. Top.kind = "func" /\ tran.block
    BY <1>6, InDml
  <2>2. f.sp = 0
    BY <2>1 DEF FuncOK
  <2>3. tran' = tran
    BY <1>1, <1>6, <2>2 DEF OwnSavepoint
  <2>. QED
    BY <1>4, <1>6, <2>1, <2>3
<1>7. /\ Savepoints' /\ Callees' /\ DmlsBelow'
      /\ n' = n /\ frames' # <<>> /\ Top'.stmt = "none"
  BY <1>1, <1>2, <1>3, <1>4, <1>5, <1>6, LiveStep
<1>8. DmlTop'
  BY <1>7 DEF DmlTop
<1>9. Flight'
  BY <1>1, <1>3, <1>7, Zenon DEF Flight, Calm
<1>. QED
  BY <1>3, <1>7, <1>8, <1>9 DEF TranPart

LEMMA CompleteTranPart ==
    ASSUME TranInv, BlocksInv', CompleteSql \/ CompleteExec \/ CompleteTran
    PROVE  TranPart'
<1>1. n > 0 /\ err = Calm
  BY DEF CompleteSql, CompleteExec, CompleteTran, Past, Executing
<1>2. /\ Top \in FrameT /\ n \in Nat \ {0} /\ FuncOK(Top) /\ SpOK(Top, tran)
      /\ tran \in TranT /\ TranOK(tran) /\ Agree(tran, tran)
      /\ Len(tran.levels) \in Nat
  BY <1>1, TopKept
<1>3. Clean(tran)
  BY <1>1 DEF TranInv, TranPart, Flight, Calm
<1>4. CASE CompleteSql
  <2>1. PICK rows \in BOOLEAN :
         Finish([Top EXCEPT !.rows = rows],
                IF Top.started THEN CommitTran(tran) ELSE tran)
    BY <1>4 DEF CompleteSql
  <2> DEFINE f == [Top EXCEPT !.rows = rows]
             t == IF Top.started THEN CommitTran(tran) ELSE tran
  <2>2. f \in FrameT /\ f.kind = Top.kind /\ f.sp = Top.sp /\ FuncOK(f) /\ f.impl = Top.impl
    BY <1>2, Zenon DEF FrameT, FuncOK
  <2>3. t \in TranT /\ TranOK(t) /\ Agree(tran, t) /\ Clean(t)
    BY <1>2, <1>3, TranTypes, CommitTranFacts DEF Clean
  <2>4. ASSUME NEW i \in 1 .. (n - 1), InFunctionOfDml(i)
        PROVE  t = tran /\ f.impl = "off"
    BY <1>1, <1>2, <2>2, <2>4, InDml DEF FuncOK
  <2>5. Finish(f, t)
    BY <2>1
  <2>. HIDE DEF f, t
  <2>. QED
    BY <1>1, <2>2, <2>3, <2>4, <2>5, FinishTran
<1>5. CASE CompleteExec
  <2>1. Finish(Top, tran)
    BY <1>5 DEF CompleteExec
  <2>. QED
    BY <1>1, <1>2, <1>3, <2>1, InDml, FinishTran
<1>6. CASE CompleteTran
  <2> DEFINE t == TranEffect(Top.stmt, tran)
  <2>1. Top.stmt \in TranCmds /\ TranError(Top.stmt, tran) = "none" /\ Finish(Top, t)
    BY <1>6 DEF CompleteTran
  <2>2. \A i \in 1 .. (n - 1) : ~InFunctionOfDml(i)
    BY <1>1, <1>2, <2>1, InDml DEF FuncOK, TranCmds
  <2>3. t \in TranT /\ TranOK(t) /\ Agree(tran, t) /\ Clean(t)
    <3>1. CASE Top.stmt = "begin"
      BY <1>2, <1>3, <3>1, TranTypes, StartTranFacts DEF TranEffect, Clean
    <3>2. CASE Top.stmt = "commit"
      BY <1>2, <1>3, <3>2, TranTypes, CommitTranFacts DEF TranEffect, Clean
    <3>3. CASE Top.stmt = "rollback"
      BY <1>2, <3>3, TranTypes, EndTranFacts DEF TranEffect, RollbackTran, Clean
    <3>4. CASE Top.stmt = "save"
      <4>1. tran.block
        BY <2>1, <3>4 DEF TranError
      <4>. QED
        BY <1>2, <1>3, <3>4, <4>1, TranTypes, PushLevelFacts DEF TranEffect, Clean
    <3>5. CASE Top.stmt = "rollbackto"
      <4>1. UserLevel(tran) # 0
        BY <2>1, <3>5 DEF TranError
      <4>2. UserLevel(tran) - 1 \in Nat /\ UserLevel(tran) - 1 < Len(tran.levels)
        BY <1>2, <4>1, UserLevelFacts
      <4>3. t = RollbackTo(tran, UserLevel(tran) - 1)
        BY <3>5 DEF TranEffect
      <4>4. t \in TranT
        BY <1>2, <4>2, <4>3, LevelTypes
      <4>5. /\ TranOK(t) /\ Agree(tran, t)
            /\ t.taint = tran.taint \cap (0 .. (UserLevel(tran) - 1)) /\ t.doomed = tran.doomed
        BY <1>2, <4>2, <4>3, RollbackToFacts
      <4>. QED
        BY <1>3, <4>4, <4>5 DEF Clean
    <3>. QED
      BY <2>1, <3>1, <3>2, <3>3, <3>4, <3>5 DEF TranCmds
  <2>. HIDE DEF t
  <2>. QED
    BY <1>1, <1>2, <2>1, <2>2, <2>3, FinishTran
<1>. QED
  BY <1>4, <1>5, <1>6

LEMMA FailTran ==
    ASSUME TranInv, BlocksInv', n > 0, err = Calm,
           NEW f \in FrameT, f.kind = Top.kind, f.sp = Top.sp, f.started = Top.started,
           f.impl = Top.impl, f.stmt = Top.stmt, NEW e, Fail(f, e),
           Top.stmt = "dml" => \/ Top.at \in {"prepare", "execute"}
                               \/ e.class \in Unmapped
    PROVE  TranPart'
<1>1. /\ err' = [at |-> "raised", e |-> e] /\ frames' = SetTop(f)
      /\ tran' = [tran EXCEPT !.taint = IF f.stmt = "dml" /\ tran.block
                                        THEN @ \cup {Len(tran.levels)} ELSE @]
  BY DEF Fail
<1>2. /\ Top \in FrameT /\ n \in Nat \ {0} /\ FuncOK(Top) /\ SpOK(Top, tran)
      /\ tran \in TranT /\ TranOK(tran) /\ Agree(tran, tran)
      /\ Len(tran.levels) \in Nat
  BY TopKept
<1>3. /\ tran'.levels = tran.levels /\ tran'.block = tran.block /\ tran'.count = tran.count
      /\ tran'.doomed = tran.doomed
      /\ tran'.taint = IF f.stmt = "dml" /\ tran.block
                       THEN tran.taint \cup {Len(tran.levels)} ELSE tran.taint
  BY <1>1, <1>2 DEF TranT
<1>4. TranOK(tran') /\ Agree(tran, tran')
  BY <1>2, <1>3 DEF TranOK, Agree
<1>5. /\ Len(frames') = n /\ frames'[n] = f
      /\ \A i \in 1 .. (n - 1) : Kept(frames[i], frames'[i], tran')
  <2>1. tran' \in TranT /\ Len(tran'.levels) >= Len(tran.levels)
    BY <1>2, <1>3 DEF BlocksInv, Types
  <2>. QED
    BY <1>1, <2>1, KeptBySetTop, Zenon
<1>6. FuncOK(f) /\ SpOK(f, tran')
  BY <1>2, <1>3 DEF FuncOK, SpOK
<1>7. Savepoints' /\ Callees' /\ DmlsBelow'
  BY <1>3, <1>4, <1>5, <1>6, InDml, FramesStep DEF BlocksInv
<1>8. Top' = f /\ n' = n /\ frames' # <<>>
  BY <1>2, <1>5 DEF Top, n
<1>9. DmlTop'
  BY <1>1 DEF DmlTop, Calm
<1>10. Clean(tran)
  BY DEF TranInv, TranPart, Flight, Calm
<1>11. Clean(tran') \/ Undoable(f, tran', e.class)
  <2>1. CASE ~(f.stmt = "dml" /\ tran.block)
    BY <1>3, <1>10, <2>1 DEF Clean
  <2>2. CASE tran.doomed
    BY <1>3, <2>2 DEF Clean
  <2>3. CASE f.stmt = "dml" /\ tran.block /\ ~tran.doomed
    <3>1. tran'.taint = {Len(tran.levels)} /\ f.kind # "func"
      BY <1>2, <1>3, <1>10, <2>3 DEF Clean, FuncOK
    <3>2. CASE Top.at \in {"prepare", "execute"}
      <4>1. (f.sp # 0 /\ f.sp = Len(tran.levels)) \/ (f.started /\ f.sp = 0)
        BY <2>3, <3>2 DEF TranInv, TranPart, DmlTop, Protected
      <4>. QED
        BY <1>2, <1>3, <3>1, <4>1 DEF Undoable, OwnSavepoint
    <3>3. CASE e.class \in Unmapped
      BY <3>1, <3>3 DEF Undoable
    <3>. QED
      BY <2>3, <3>2, <3>3
  <2>. QED
    BY <2>1, <2>2, <2>3
<1>12. Flight'
  BY <1>1, <1>8, <1>11 DEF Flight
<1>. QED
  BY <1>4, <1>7, <1>9, <1>12 DEF TranPart

LEMMA RaiseTranPart ==
    ASSUME TranInv, BlocksInv', RaiseSql \/ RaiseTran \/ RaiseMismatch \/ RaiseUser \/ Rethrow
    PROVE  TranPart'
<1>1. n > 0 /\ err = Calm /\ Top.at \in {"prepare", "execute", "called"}
  BY DEF RaiseSql, RaiseTran, RaiseMismatch, RaiseUser, Rethrow, Past, Executing
<1>2. Top \in FrameT
  BY <1>1, TopKept
<1>3. CASE RaiseSql
  <2>1. PICK c \in opts.classes, late \in BOOLEAN :
         /\ Top.at = "called" => c \in Unmapped
         /\ late => opts.late /\ Top.stmt = "select" /\ Top.at = "execute"
         /\ Raise([Top EXCEPT !.rows = late], c)
    BY <1>3 DEF RaiseSql
  <2> DEFINE f == [Top EXCEPT !.rows = late]
             e == [id |-> Fresh, class |-> c]
  <2>2. /\ f \in FrameT /\ f.kind = Top.kind /\ f.sp = Top.sp /\ f.started = Top.started
        /\ f.impl = Top.impl /\ f.stmt = Top.stmt
    BY <1>2 DEF FrameT
  <2>3. Fail(f, e) /\ e.class = c
    BY <2>1 DEF Raise
  <2>4. Top.at \in {"prepare", "execute"} \/ e.class \in Unmapped
    BY <1>1, <2>1
  <2>. HIDE DEF f, e
  <2>. QED
    BY <1>1, <2>2, <2>3, <2>4, FailTran
<1>4. ASSUME NEW c, Raise(Top, c), Top.stmt # "dml"
      PROVE  TranPart'
  BY <1>1, <1>2, <1>4, FailTran DEF Raise
<1>5. CASE RaiseTran
  BY <1>4, <1>5 DEF RaiseTran, TranCmds
<1>6. CASE RaiseMismatch
  BY <1>4, <1>6 DEF RaiseMismatch
<1>7. CASE RaiseUser
  BY <1>4, <1>7 DEF RaiseUser
<1>8. CASE Rethrow
  <2> DEFINE f == [Top EXCEPT !.data.rethrow = TRUE]
  <2>1. /\ f \in FrameT /\ f.kind = Top.kind /\ f.sp = Top.sp /\ f.started = Top.started
        /\ f.impl = Top.impl /\ f.stmt = Top.stmt
    BY <1>2, Zenon DEF FrameT, DataT
  <2>2. Top.stmt = "rethrow" /\ Fail(f, Top.cur)
    BY <1>8 DEF Rethrow
  <2>. HIDE DEF f
  <2>. QED
    BY <1>1, <2>1, <2>2, FailTran
<1>. QED
  BY <1>3, <1>5, <1>6, <1>7, <1>8

\* The frame below goes on, with the savepoints as they were.
LEMMA CallerStep ==
    ASSUME TranInv, n > 1, NEW d \in DataT, frames' = Caller(d),
           tran'.levels = tran.levels, tran'.block = tran.block
    PROVE  /\ Savepoints' /\ Callees' /\ DmlsBelow'
           /\ n' = n - 1 /\ n' > 0 /\ frames' # <<>>
           /\ Top'.kind = frames[n - 1].kind /\ Top'.stmt = frames[n - 1].stmt
           /\ Top'.sp = frames[n - 1].sp /\ Top'.started = frames[n - 1].started
           /\ Top'.at = IF Top.kind = "func" THEN frames[n - 1].at ELSE "called"
<1>1. /\ n \in Nat /\ n > 0 /\ DOMAIN frames = 1 .. n /\ \A i \in 1 .. n : frames[i] \in FrameT
      /\ n - 1 \in 1 .. n /\ \A i \in 1 .. (n - 1) : i \in 1 .. n
      /\ \A i \in 1 .. (n - 1) : i = n - 1 \/ i \in 1 .. (n - 2)
      /\ \A i \in 1 .. (n - 2) : i \in 1 .. (n - 1) /\ i + 1 \in 1 .. (n - 1) /\ i \in 1 .. n
  BY DEF TranInv, BlocksInv, Types, n
<1>2. /\ Len(frames') = n - 1 /\ DOMAIN frames' = 1 .. (n - 1)
      /\ frames'[n - 1] = [frames[n - 1] EXCEPT !.data = d,
                              !.at = IF Top.kind = "func" THEN @ ELSE "called"]
      /\ \A i \in 1 .. (n - 2) : frames'[i] = frames[i]
  BY CallerFacts, Zenon DEF TranInv, BlocksInv
<1>3. /\ frames'[n - 1].kind = frames[n - 1].kind /\ frames'[n - 1].stmt = frames[n - 1].stmt
      /\ frames'[n - 1].sp = frames[n - 1].sp /\ frames'[n - 1].started = frames[n - 1].started
      /\ frames'[n - 1].impl = frames[n - 1].impl
      /\ frames'[n - 1].at = IF Top.kind = "func" THEN frames[n - 1].at ELSE "called"
  BY <1>1, <1>2 DEF FrameT
<1>4. \A i \in 1 .. (n - 1) :
         /\ frames'[i].kind = frames[i].kind /\ frames'[i].stmt = frames[i].stmt
         /\ frames'[i].sp = frames[i].sp /\ frames'[i].started = frames[i].started
         /\ frames'[i].impl = frames[i].impl
  BY <1>1, <1>2, <1>3, Zenon
<1>5. n' = n - 1 /\ Top' = frames'[n - 1] /\ frames' # <<>> /\ n' > 0
  BY <1>1, <1>2 DEF n, Top
<1>6. Savepoints'
  BY <1>1, <1>2, <1>4 DEF TranInv, TranPart, Savepoints, SpOK
<1>7. ASSUME NEW i \in 1 .. (n - 1), frames'[i].kind = "func"
      PROVE  /\ frames'[i].stmt \in {"none", "select"}
             /\ ~frames'[i].started
             /\ frames'[i].sp = 0
             /\ \A j \in i .. (n - 1) : frames'[j].kind = "func"
  <2>1. /\ frames[i].stmt \in {"none", "select"} /\ ~frames[i].started /\ frames[i].sp = 0
        /\ \A j \in i .. n : frames[j].kind = "func"
    BY <1>1, <1>4, <1>7, Zenon DEF TranInv, TranPart, Callees
  <2>2. \A j \in i .. (n - 1) : j \in i .. n /\ j \in 1 .. (n - 1)
    BY <1>1
  <2>. QED
    BY <1>4, <2>1, <2>2
<1>8. \A i \in 1 .. (n - 2) : CalleeOK(frames'[i], frames'[i + 1])
  <2>1. \A i \in 1 .. (n - 2) : CalleeOK(frames[i], frames[i + 1])
    BY <1>1 DEF TranInv, TranPart, Callees
  <2>. QED
    BY <1>1, <1>2, <1>4, <2>1 DEF CalleeOK
<1>9. (n - 1) - 1 = n - 2
  BY <1>1
<1>10. Callees'
  BY <1>2, <1>5, <1>7, <1>8, <1>9 DEF Callees
<1>11. DmlsBelow'
  <2>1. SUFFICES ASSUME NEW i \in 1 .. (n - 2), InFunctionOfDml(i)'
                 PROVE  /\ Protected(frames'[i], tran')
                        /\ \A j \in (i + 1) .. (n - 1) : frames'[j].impl = "off"
    BY <1>5, <1>9 DEF DmlsBelow
  <2>2. InFunctionOfDml(i)
    BY <1>1, <1>4, <2>1 DEF InFunctionOfDml
  <2>3. Protected(frames[i], tran) /\ \A j \in (i + 1) .. n : frames[j].impl = "off"
    BY <1>1, <2>2 DEF TranInv, TranPart, DmlsBelow
  <2>4. \A j \in (i + 1) .. (n - 1) : j \in (i + 1) .. n /\ j \in 1 .. (n - 1)
    BY <1>1
  <2>. QED
    BY <1>2, <1>4, <2>3, <2>4 DEF Protected
<1>. QED
  BY <1>3, <1>5, <1>6, <1>10, <1>11

\* What LeftBehind does: at most one more level holds work of a failed statement.
LEMMA LeftBehindFacts ==
    ASSUME TranInv, n > 1
    PROVE  LET u == LeftBehind(tran)
               g == frames[n - 1]
           IN  /\ u.levels = tran.levels /\ u.block = tran.block /\ u.doomed = tran.doomed
               /\ TranOK(u)
               /\ \/ u = tran
                  \/ g.stmt = "dml" /\ tran.block /\ u.taint = tran.taint \cup {g.sp}
<1> DEFINE u == LeftBehind(tran)
           g == frames[n - 1]
<1>1. tran \in TranT /\ TranOK(tran)
  BY DEF TranInv, TranPart, BlocksInv, Types
<1>2. CASE g.stmt = "dml" /\ tran.block /\ (g.sp # 0 \/ g.started)
  <2>1. u = [tran EXCEPT !.taint = @ \cup {g.sp}]
    BY <1>2 DEF LeftBehind
  <2>2. /\ u.levels = tran.levels /\ u.block = tran.block /\ u.doomed = tran.doomed
        /\ u.count = tran.count /\ u.taint = tran.taint \cup {g.sp}
    BY <1>1, <2>1 DEF TranT
  <2>. HIDE DEF u, g
  <2>3. TranOK(u)
    BY <1>1, <1>2, <2>2 DEF TranOK
  <2>. QED
    BY <1>2, <2>2, <2>3 DEF u, g
<1>3. CASE ~(g.stmt = "dml" /\ tran.block /\ (g.sp # 0 \/ g.started))
  BY <1>1, <1>3 DEF LeftBehind
<1>. QED
  BY <1>2, <1>3

LEMMA ReturnTran == ASSUME TranInv, BlocksInv', Return PROVE TranPart'
<1> DEFINE g == frames[n - 1]
<1>1. n > 1 /\ n > 0 /\ err = Calm /\ frames' = Caller(Reset(Top).data)
  BY DEF Return, Ready
<1>2. Reset(Top).data \in DataT
  BY <1>1, TopKept, ResetOK
<1>3. n \in Nat /\ n - 1 \in 1 .. (n - 1) /\ (n - 1) + 1 = n /\ n - 1 \in DOMAIN frames
  BY <1>1, TopFacts DEF TranInv, BlocksInv
<1>4. CalleeOK(g, Top) /\ FuncOK(g)
  <2>1. CalleeOK(frames[n - 1], frames[(n - 1) + 1])
    BY <1>3 DEF TranInv, TranPart, Callees
  <2>. QED
    BY <1>3, <2>1 DEF TranInv, TranPart, Callees, Top, FuncOK
<1>5. CASE TriggerFails
  <2>1. err' = [at |-> "raised", e |-> [id |-> Fresh, class |-> "txn"]] /\ tran' = LeftBehind(tran)
    BY <1>5 DEF Return
  <2>2. tran'.levels = tran.levels /\ tran'.block = tran.block /\ TranOK(tran')
    BY <1>1, <2>1, LeftBehindFacts
  <2>3. /\ Savepoints' /\ Callees' /\ DmlsBelow' /\ frames' # <<>>
        /\ Top'.kind = g.kind
    BY <1>1, <1>2, <2>2, CallerStep
  <2>4. g.kind # "func"
    BY <1>4, <1>5 DEF TriggerFails, CalleeOK, FuncOK
  <2>5. err'.at = "raised" /\ err'.e.class = "txn"
    BY <2>1
  <2>6. Undoable(Top', tran', "txn")
    BY <2>3, <2>4 DEF Undoable
  <2>7. Flight'
    BY <2>3, <2>5, <2>6 DEF Flight
  <2>8. DmlTop'
    BY <2>5 DEF DmlTop, Calm
  <2>. QED
    BY <2>2, <2>3, <2>7, <2>8 DEF TranPart
<1>6. CASE ~TriggerFails
  <2>1. err' = Calm /\ tran' = tran
    BY <1>1, <1>6 DEF Return
  <2>2. /\ Savepoints' /\ Callees' /\ DmlsBelow' /\ frames' # <<>>
        /\ Top'.kind = g.kind /\ Top'.stmt = g.stmt /\ Top'.sp = g.sp /\ Top'.started = g.started
        /\ Top'.at = IF Top.kind = "func" THEN g.at ELSE "called"
    BY <1>1, <1>2, <2>1, CallerStep
  <2>3. DmlTop'
    <3>1. CASE Top.kind # "func"
      BY <2>2, <3>1 DEF DmlTop
    <3>2. CASE Top.kind = "func"
      <4>1. Top'.at = "execute"
        BY <1>4, <2>2, <3>2 DEF CalleeOK
      <4>2. g.stmt = "dml" => Protected(g, tran)
        BY <1>3, <3>2 DEF TranInv, TranPart, DmlsBelow, InFunctionOfDml, Top
      <4>3. g.stmt = "dml" => Protected(Top', tran')
        BY <2>1, <2>2, <4>2 DEF Protected
      <4>. QED
        BY <2>2, <4>1, <4>3 DEF DmlTop
    <3>. QED
      BY <3>1, <3>2
  <2>4. Flight'
    BY <1>1, <2>1, <2>2 DEF TranInv, TranPart, Flight, Calm
  <2>. QED
    BY <2>1, <2>2, <2>3, <2>4 DEF TranInv, TranPart
<1>. QED
  BY <1>5, <1>6

LEMMA BatchEndFacts ==
    ASSUME NEW t \in TranT, TranOK(t), Clean(t), NEW failed
    PROVE  LET u == BatchEnd(t, failed) IN TranOK(u) /\ ~u.doomed /\ u.taint = {}
<1>1. CASE t.doomed
  BY <1>1, EndTranFacts DEF BatchEnd, RollbackTran
<1>2. CASE ~t.doomed
  <2>1. t.taint = {}
    BY <1>2 DEF Clean
  <2>2. CASE failed /\ ~t.block
    <3> DEFINE u == AbortAuto(t)
    <3>1. BatchEnd(t, failed) = u
      BY <1>2, <2>2 DEF BatchEnd
    <3>2. u.block = t.block /\ u.count = t.count /\ u.levels = t.levels /\ ~u.doomed
          /\ u.taint = t.taint
      BY DEF AbortAuto, TranT
    <3>. HIDE DEF u
    <3>3. TranOK(u)
      BY <3>2 DEF TranOK
    <3>. QED
      BY <2>1, <3>1, <3>2, <3>3
  <2>3. CASE ~(failed /\ ~t.block)
    <3>1. BatchEnd(t, failed) = t
      BY <1>2, <2>3 DEF BatchEnd
    <3>. QED
      BY <1>2, <2>1, <3>1
  <2>. QED
    BY <2>2, <2>3
<1>. QED
  BY <1>1, <1>2

\* No frame is left, and the transaction can be committed.
LEMMA NoFramesTran ==
    ASSUME frames' = <<>>, TranOK(tran'), ~tran'.doomed, tran'.taint = {},
           err'.at # "raised", err'.at # "thrown"
    PROVE  TranPart'
<1>1. n' = 0
  BY DEF n
<1>2. Savepoints' /\ Callees' /\ DmlTop' /\ DmlsBelow'
  BY <1>1 DEF Savepoints, Callees, DmlTop, DmlsBelow
<1>3. Flight'
  BY DEF Flight, Clean
<1>. QED
  BY <1>2, <1>3 DEF TranPart

LEMMA EndOfBatchTran == ASSUME TranInv, EndOfBatch PROVE TranPart'
<1>1. err = Calm /\ frames' = <<>> /\ tran' = BatchEnd(tran, FALSE)
      /\ err'.at # "raised" /\ err'.at # "thrown"
  BY DEF EndOfBatch, Ready, Calm
<1>2. tran \in TranT /\ TranOK(tran) /\ Clean(tran)
  BY <1>1 DEF TranInv, TranPart, BlocksInv, Types, Flight, Calm
<1>. QED
  BY <1>1, <1>2, BatchEndFacts, NoFramesTran, Zenon

LEMMA CompileErrorTran == ASSUME TranInv, CompileError PROVE TranPart'
<1>1. frames' = <<>> /\ err = Calm /\ err'.at # "raised" /\ err'.at # "thrown"
  BY DEF CompileError, TranInv, BlocksInv, Shape
<1>2. tran \in TranT /\ TranOK(tran) /\ Clean(tran)
  BY <1>1 DEF TranInv, TranPart, BlocksInv, Types, Flight, Calm
<1>3. PICK doom \in BOOLEAN : /\ doom => tran.block
                              /\ tran' = BatchEnd([tran EXCEPT !.doomed = @ \/ doom], TRUE)
  BY Zenon DEF CompileError
<1> DEFINE u == [tran EXCEPT !.doomed = @ \/ doom]
<1>4. u.block = tran.block /\ u.count = tran.count /\ u.levels = tran.levels
      /\ u.doomed = (tran.doomed \/ doom) /\ u.taint = tran.taint /\ u \in TranT
  BY <1>2 DEF TranT
<1>. HIDE DEF u
<1>5. TranOK(u) /\ Clean(u)
  BY <1>2, <1>3, <1>4, Zenon DEF TranOK, Clean
<1>6. tran' = BatchEnd(u, TRUE)
  BY <1>3 DEF u
<1>. QED
  BY <1>1, <1>4, <1>5, <1>6, BatchEndFacts, NoFramesTran, Zenon

LEMMA RespondTran == ASSUME TranInv, Respond \/ FlushResponse PROVE TranPart'
<1>1. frames = <<>> /\ frames' = <<>> /\ tran' = tran /\ err' = Calm
  BY Zenon DEF Respond, FlushResponse, TranInv, BlocksInv, Shape
<1>2. err.at # "raised"
  BY <1>1 DEF TranInv, BlocksInv, Shape
<1>3. ~tran.doomed /\ tran.taint = {} /\ TranOK(tran)
  BY <1>1, <1>2 DEF TranInv, TranPart, Flight, Clean
<1>. QED
  BY <1>1, <1>3, NoFramesTran DEF Calm

LEMMA CaughtInFunctionTran == ASSUME TranInv, CaughtInFunction PROVE TranPart'
<1>1. err.at = "raised" /\ Top.kind = "func" /\ err' = [err EXCEPT !.at = "thrown"]
      /\ UNCHANGED <<frames, tran>>
  BY DEF CaughtInFunction
<1>2. err'.at = "thrown" /\ Top' = Top /\ n' = n
  BY <1>1 DEF TranInv, BlocksInv, Types, Top, n
<1>3. Clean(tran)
  BY <1>1 DEF TranInv, TranPart, Flight, Undoable
<1>4. Flight'
  BY <1>1, <1>2, <1>3 DEF TranInv, TranPart, Flight
<1>5. DmlTop'
  BY <1>2 DEF DmlTop, Calm
<1>6. Savepoints' /\ Callees' /\ DmlsBelow'
  BY <1>1, <1>2 DEF TranInv, TranPart, Savepoints, Callees, DmlsBelow, InFunctionOfDml
<1>. QED
  BY <1>1, <1>4, <1>5, <1>6 DEF TranInv, TranPart

\* The undo of a failed statement leaves nothing of its work behind, unless its
\* error is one that makes the transaction uncommittable.
LEMMA UndoneFacts ==
    ASSUME NEW f \in FrameT, NEW t \in TranT, TranOK(t), NEW c,
           Clean(t) \/ Undoable(f, t, c)
    PROVE  LET u == ImplicitUndone(f, Undone(f, t)) IN
           /\ u \in TranT /\ TranOK(u) /\ Agree(t, u)
           /\ Clean(u) \/ c \in Unmapped \cup {"txn"}
<1> DEFINE v == Undone(f, t)
<1>1. v \in TranT /\ TranOK(v) /\ Agree(t, v) /\ (Clean(v) \/ c \in Unmapped \cup {"txn"})
  <2>0. v \in TranT
    BY UndoneType
  <2>1. CASE OwnSavepoint(f, t)
    <3>1. f.sp - 1 \in Nat /\ f.sp - 1 < Len(t.levels) /\ f.sp \in Nat
      BY <2>1 DEF OwnSavepoint, FrameT, TranT
    <3>2. v = RollbackTo(t, f.sp - 1)
      BY <2>1 DEF Undone
    <3>3. /\ TranOK(v) /\ Agree(t, v)
          /\ v.taint = t.taint \cap (0 .. (f.sp - 1)) /\ v.doomed = t.doomed
      BY <3>1, <3>2, RollbackToFacts
    <3>4. CASE Clean(t)
      BY <2>0, <3>3, <3>4 DEF Clean
    <3>5. CASE \A k \in t.taint : k >= f.sp
      <4>1. v.taint = {}
        BY <3>1, <3>3, <3>5
      <4>. QED
        BY <2>0, <3>3, <4>1 DEF Clean
    <3>. QED
      BY <2>0, <2>1, <3>3, <3>4, <3>5 DEF Undoable
  <2>2. CASE ~OwnSavepoint(f, t) /\ ~t.block
    <3>1. v = AbortAuto(t)
      BY <2>2 DEF Undone
    <3>2. v.block = t.block /\ v.count = t.count /\ v.levels = t.levels /\ ~v.doomed
          /\ v.taint = t.taint
      BY <3>1 DEF AbortAuto, TranT
    <3>. HIDE DEF v
    <3>. QED
      BY <2>0, <2>2, <3>2 DEF TranOK, Agree, Clean
  <2>3. CASE ~OwnSavepoint(f, t) /\ t.block /\ f.started
    <3>1. v = EndTran(t, "rollback")
      BY <2>3 DEF Undone, RollbackTran
    <3>. QED
      BY <2>0, <3>1, EndTranFacts DEF Clean
  <2>4. CASE ~OwnSavepoint(f, t) /\ t.block /\ ~f.started
    <3>1. v = t
      BY <2>4 DEF Undone
    <3>. QED
      BY <2>0, <2>4, <3>1 DEF Undoable, Agree
  <2>. QED
    BY <2>1, <2>2, <2>3, <2>4
<1>. HIDE DEF v
<1>2. CASE ImplicitUndone(f, v) = v
  BY <1>1, <1>2 DEF v
<1>3. CASE ImplicitUndone(f, v) = RollbackTran(v)
  <2>1. RollbackTran(v) = EndTran(t, "rollback") /\ RollbackTran(v) \in TranT
    BY <1>1, TranTypes DEF RollbackTran, EndTran
  <2>. QED
    BY <1>3, <2>1, EndTranFacts DEF Clean, v
<1>. QED
  BY <1>2, <1>3 DEF ImplicitUndone

LEMMA CaughtTran == ASSUME TranInv, BlocksInv', Caught PROVE TranPart'
<1> DEFINE c == err.e.class
           d == Recorded(Top)
           t == ImplicitUndone(Top, Undone(Top, tran))
           doom == t.block /\ (c \in Unmapped \/ AbortTransaction(d, c))
           f == [Top EXCEPT !.data = d, !.impl = "off",
                !.started = @ /\ t.block,
                !.term = @ \/ (c \in Ignorable /\ AbortCurrentBatch(d, c))]
           g == [f EXCEPT !.stmt = "none", !.at = "none", !.sp = 0]
<1>1. err.at = "raised" /\ n > 0 /\ Top.kind # "func"
  BY DEF Caught, TranInv, BlocksInv, Types, Shape, n
<1>2. /\ Top \in FrameT /\ n \in Nat \ {0} /\ FuncOK(Top) /\ SpOK(Top, tran)
      /\ tran \in TranT /\ TranOK(tran) /\ Agree(tran, tran) /\ n \in DOMAIN frames
  BY <1>1, TopKept, TopFacts DEF TranInv, BlocksInv
<1>3. /\ t \in TranT /\ TranOK(t) /\ Agree(tran, t)
      /\ Clean(t) \/ c \in Unmapped \cup {"txn"}
  BY <1>1, <1>2, UndoneFacts, Zenon DEF TranInv, TranPart, Flight
<1>4. c = "txn" => AbortTransaction(d, c)
  BY DEF AbortTransaction
<1>5. Top.kind = "trigger" => AbortTransaction(d, c)
  BY <1>2 DEF AbortTransaction, PartOfTrigger, Top
<1>6. tran' = [t EXCEPT !.doomed = @ \/ doom]
  BY DEF Caught
<1>7. doom \in BOOLEAN /\ (doom => t.block)
      /\ (t.block /\ c \in Unmapped \cup {"txn"} => doom)
      /\ (t.block /\ Top.kind = "trigger" => doom)
  BY <1>4, <1>5
<1>8. d \in DataT
  BY <1>2, RecordedType DEF TranInv, BlocksInv, Types
<1>9. \/ err' = [err EXCEPT !.at = "thrown"] /\ frames' = Live(SetTop(f), t)
      \/ err' = Calm /\ frames' = Live(SetTop(g), t)
  BY DEF Caught
<1>. HIDE DEF t, doom, c, d
<1>10. /\ tran'.block = t.block /\ tran'.count = t.count /\ tran'.levels = t.levels
       /\ tran'.taint = t.taint /\ tran'.doomed = (t.doomed \/ doom)
  BY <1>3, <1>6, <1>7 DEF TranT
<1>11. TranOK(tran') /\ Agree(tran, tran')
  BY <1>3, <1>7, <1>10 DEF TranOK, Agree
<1>12. Clean(tran')
  BY <1>3, <1>7, <1>10, Zenon DEF TranOK, Clean
<1>13. f \in FrameT /\ f.kind = Top.kind /\ f.sp = Top.sp
  <2>1. (Top.started /\ t.block) \in BOOLEAN
        /\ (Top.term \/ (c \in Ignorable /\ AbortCurrentBatch(d, c))) \in BOOLEAN
    OBVIOUS
  <2>. QED
    BY <1>2, <1>8, <2>1, Zenon DEF FrameT
<1>. HIDE DEF f
<1>14. g \in FrameT /\ g.kind = Top.kind /\ g.sp = 0 /\ g.stmt = "none"
  BY <1>13, Zenon DEF FrameT
<1>. HIDE DEF g
<1>15. FuncOK(f) /\ FuncOK(g) /\ SpOK(f, tran) /\ SpOK(g, tran)
  BY <1>1, <1>2, <1>13, <1>14 DEF FuncOK, SpOK
<1>16. \A i \in 1 .. (n - 1) : ~InFunctionOfDml(i)
  BY <1>1, InDml
<1>17. CASE err' = [err EXCEPT !.at = "thrown"] /\ frames' = Live(SetTop(f), t)
  <2>1. err'.at = "thrown"
    BY <1>17 DEF TranInv, BlocksInv, Types
  <2>2. Savepoints' /\ Callees' /\ DmlsBelow' /\ frames' # <<>> /\ Top'.kind = Top.kind
    BY <1>1, <1>3, <1>10, <1>11, <1>13, <1>15, <1>16, <1>17, LiveStep
  <2>3. DmlTop'
    BY <2>1 DEF DmlTop, Calm
  <2>4. Flight'
    BY <1>7, <1>10, <1>12, <2>1, <2>2 DEF Flight
  <2>. QED
    BY <1>11, <2>2, <2>3, <2>4 DEF TranPart
<1>18. CASE err' = Calm /\ frames' = Live(SetTop(g), t)
  <2>2. Savepoints' /\ Callees' /\ DmlsBelow' /\ frames' # <<>> /\ Top'.stmt = "none"
    BY <1>1, <1>3, <1>10, <1>11, <1>14, <1>15, <1>16, <1>18, LiveStep
  <2>3. DmlTop'
    BY <2>2 DEF DmlTop
  <2>4. Flight'
    BY <1>12, <1>18, <2>2 DEF Flight, Calm
  <2>. QED
    BY <1>11, <2>2, <2>3, <2>4 DEF TranPart
<1>. QED
  BY <1>9, <1>17, <1>18

LEMMA LandTran == ASSUME TranInv, BlocksInv', Land PROVE TranPart'
<1> DEFINE f == Landed(Top, err.e)
           g == [f EXCEPT !.stmt = "none", !.at = "none", !.sp = 0]
<1>1. err.at = "thrown" /\ Top.handler # 0 /\ n > 0 /\ tran' = tran
  BY DEF Land, TranInv, BlocksInv, Types, Shape, n
<1>2. /\ Top \in FrameT /\ n \in Nat \ {0} /\ FuncOK(Top) /\ SpOK(Top, tran)
      /\ tran \in TranT /\ TranOK(tran) /\ Agree(tran, tran)
      /\ Len(tran.levels) \in Nat
  BY <1>1, TopKept
<1>3. f \in FrameT
  BY <1>1, TopIsOK, LandedOK DEF TranInv, BlocksInv, Types, Shape
<1>4. f.kind = Top.kind /\ f.sp = Top.sp /\ f.started = Top.started /\ f.impl = Top.impl
      /\ f.stmt = Top.stmt
  BY <1>2 DEF Landed, FrameT
<1>5. \/ err' = err /\ frames' = SetTop(f)
      \/ err' = Calm /\ frames' = SetTop(g)
  BY DEF Land
<1>. HIDE DEF f
<1>6. g \in FrameT /\ g.kind = Top.kind /\ g.sp = 0 /\ g.started = Top.started
      /\ g.impl = Top.impl /\ g.stmt = "none"
  BY <1>3, <1>4, Zenon DEF FrameT
<1>. HIDE DEF g
<1>7. FuncOK(f) /\ FuncOK(g) /\ SpOK(f, tran') /\ SpOK(g, tran')
  BY <1>1, <1>2, <1>4, <1>6 DEF FuncOK, SpOK
<1>8. PICK h \in {f, g} : frames' = SetTop(h) /\ (err' = err \/ (err' = Calm /\ h = g))
  BY <1>5
<1>9. /\ Len(frames') = n /\ frames'[n] = h
      /\ \A i \in 1 .. (n - 1) : Kept(frames[i], frames'[i], tran')
  BY <1>1, <1>2, <1>3, <1>6, <1>8, KeptBySetTop
<1>10. Savepoints' /\ Callees' /\ DmlsBelow'
  BY <1>1, <1>2, <1>4, <1>6, <1>7, <1>8, <1>9, InDml, FramesStep DEF BlocksInv
<1>11. Top' = h /\ n' = n /\ frames' # <<>> /\ Top'.kind = Top.kind
  BY <1>2, <1>4, <1>6, <1>8, <1>9 DEF Top, n
<1>12. DmlTop'
  BY <1>1, <1>6, <1>8, <1>11 DEF DmlTop, Calm
<1>13. Flight'
  BY <1>1, <1>8, <1>11 DEF TranInv, TranPart, Flight, Calm
<1>. QED
  BY <1>1, <1>2, <1>10, <1>12, <1>13 DEF TranPart

LEMMA UnwindTran == ASSUME TranInv, BlocksInv', Unwind PROVE TranPart'
<1> DEFINE g == frames[n - 1]
<1>1. err.at = "thrown" /\ n > 0 /\ n \in Nat
  BY DEF Unwind, TranInv, BlocksInv, Types, Shape, n
<1>2. tran \in TranT /\ TranOK(tran) /\ Clean(tran) /\ Top \in FrameT
  BY <1>1, TopKept DEF TranInv, TranPart, Flight
<1>3. CASE n = 1
  <2>1. frames' = <<>> /\ tran' = BatchEnd(tran, TRUE) /\ err' = [at |-> "out", e |-> NoError]
    BY <1>3 DEF Unwind
  <2>. QED
    BY <1>2, <2>1, BatchEndFacts, NoFramesTran, Zenon
<1>4. CASE n # 1
  <2>1. n > 1 /\ n - 1 \in 1 .. (n - 1) /\ (n - 1) + 1 = n
    BY <1>1, <1>4
  <2>2. frames' = Caller(Top.data) /\ tran' = LeftBehind(tran) /\ err' = [err EXCEPT !.at = "raised"]
    BY <1>4, Zenon DEF Unwind
  <2>3. Top.data \in DataT /\ Top.kind \in FrameKinds
    BY <1>2 DEF FrameT
  <2>4. CalleeOK(g, Top) /\ FuncOK(g)
    <3>1. CalleeOK(frames[n - 1], frames[(n - 1) + 1])
      BY <2>1 DEF TranInv, TranPart, Callees
    <3>2. n - 1 \in DOMAIN frames
      BY <2>1, TopFacts DEF TranInv, BlocksInv
    <3>. QED
      BY <2>1, <3>1, <3>2 DEF TranInv, TranPart, Callees, Top, FuncOK
  <2>5. /\ tran'.levels = tran.levels /\ tran'.block = tran.block /\ tran'.doomed = tran.doomed
        /\ TranOK(tran')
        /\ \/ tran' = tran
           \/ g.stmt = "dml" /\ tran.block /\ tran'.taint = tran.taint \cup {g.sp}
    BY <2>1, <2>2, LeftBehindFacts
  <2>6. /\ Savepoints' /\ Callees' /\ DmlsBelow' /\ frames' # <<>>
        /\ Top'.kind = g.kind /\ Top'.sp = g.sp /\ Top'.started = g.started
    BY <2>1, <2>2, <2>3, <2>5, CallerStep
  <2>7. err'.at = "raised" /\ err'.e = err.e
    BY <2>2 DEF TranInv, BlocksInv, Types
  <2>8. Clean(tran') \/ Undoable(Top', tran', err'.e.class)
    <3>1. CASE tran' = tran
      BY <1>2, <3>1
    <3>2. CASE tran.doomed
      BY <2>5, <3>2 DEF Clean
    <3>3. CASE g.stmt = "dml" /\ tran.block /\ tran'.taint = tran.taint \cup {g.sp} /\ ~tran.doomed
      <4>1. tran'.taint = {g.sp} /\ g.kind # "func"
        BY <1>2, <2>4, <3>3 DEF Clean, FuncOK
      <4>2. Top.kind # "trigger"
        BY <1>1, <3>3 DEF TranInv, TranPart, Flight
      <4>3. Top.kind = "func"
        BY <2>3, <2>4, <3>3, <4>2 DEF CalleeOK, FrameKinds
      <4>4. Protected(g, tran)
        BY <2>1, <3>3, <4>3 DEF TranInv, TranPart, DmlsBelow, InFunctionOfDml, Top
      <4>5. g.sp \in Nat
        BY <2>1, TopFacts DEF TranInv, BlocksInv, FrameT
      <4>. QED
        BY <2>5, <2>6, <4>1, <4>4, <4>5 DEF Protected, Undoable, OwnSavepoint
    <3>. QED
      BY <2>5, <3>1, <3>2, <3>3
  <2>9. Flight'
    BY <2>6, <2>7, <2>8 DEF Flight
  <2>10. DmlTop'
    BY <2>7 DEF DmlTop, Calm
  <2>. QED
    BY <2>5, <2>6, <2>9, <2>10 DEF TranPart
<1>. QED
  BY <1>3, <1>4

LEMMA TranNext == ASSUME TranInv, [Next]_vars PROVE TranInv'
<1>1. BlocksInv'
  BY BlocksNext DEF TranInv
<1>2. CASE UNCHANGED vars
  <2>1. TranPart'
    BY <1>2, Zenon DEF TranInv, TranPart, vars, Savepoints, Callees, Flight, DmlTop, DmlsBelow,
               InFunctionOfDml, Top, n
  <2>. QED
    BY <1>1, <2>1 DEF TranInv
<1>3. CASE Next
  <2>1. TranPart'
    BY <1>1, <1>3, StartBatchTran, CompileErrorTran, BlockStepsTran, BeginStmtTran,
       PrepareTran, CallTran, CompleteTranPart, RaiseTranPart, ReturnTran, EndOfBatchTran,
       CaughtInFunctionTran, CaughtTran, LandTran, UnwindTran, RespondTran
       DEF Next, Handling
  <2>. QED
    BY <1>1, <2>1 DEF TranInv
<1>. QED
  BY <1>2, <1>3

LEMMA TranInvariance == Spec => []TranInv
<1>1. Init => TranInv
  BY BlocksInit, TranInit DEF TranInv
<1>. QED
  BY <1>1, TranNext, PTL DEF Spec

-----------------------------------------------------------------------------
(* What follows for the client's transactions.                             *)

\* Whatever options a session has set and whatever its code does, what a failed
\* statement has changed is undone before the next one runs, or the transaction
\* is open and can no longer be committed; and no such transaction outlives its
\* batch (dispatch_stmt_handle_error, abort_transaction, terminate_batch).
THEOREM FailedWorkIsNotKept == Spec => []WholeOrDoomed
<1>1. TranInv => WholeOrDoomed
  <2>. SUFFICES ASSUME TranInv PROVE WholeOrDoomed
    OBVIOUS
  <2>1. DoomedIsOpen
    BY DEF TranInv, TranPart, TranOK, Flight, DoomedIsOpen
  <2>2. NoPartialWork
    BY DEF TranInv, TranPart, Flight, Clean, NoPartialWork, Calm
  <2>. QED
    BY <2>1, <2>2 DEF WholeOrDoomed
<1>. QED
  BY <1>1, TranInvariance, PTL
=============================================================================
