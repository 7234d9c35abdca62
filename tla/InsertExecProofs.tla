-------------------------- MODULE InsertExecProofs --------------------------
(***************************************************************************)
(* Proofs about INSERT EXEC, for every depth of calls, every nesting of    *)
(* transactions and every number of tables: insert_exec_ctx belongs to the *)
(* statement that runs, and the statement is atomic.                       *)
(***************************************************************************)
EXTENDS InsertExec, SequenceTheorems, WellFoundedInduction, TLAPS

FrameT == [exec : {"none", "call", "insert"}, try : BOOLEAN, count : Nat, started : BOOLEAN]
TranT == [count : Nat, doomed : BOOLEAN]
CtxT == [level : Nat, oid : Nat, modified : BOOLEAN]

Types == /\ implicit \in BOOLEAN
         /\ frames \in Seq(FrameT) /\ frames # <<>>
         /\ tran \in TranT
         /\ ctx \in CtxT
         /\ buffer \in Nat /\ target \in Nat /\ saved \in Nat
         /\ work \in BOOLEAN /\ flushed \in Nat

\* The frames of a stack that are at an INSERT EXEC.
Inserts(fs) == {i \in 1 .. Len(fs) : fs[i].exec = "insert"}
InsertsBelow(fs, m) == {i \in Inserts(fs) : i <= m}

\* The context c belongs to the one INSERT EXEC of the stack fs, which runs in a
\* transaction t.
Owned(fs, c, t) ==
    /\ \A i \in Inserts(fs) : c.level = i /\ t.count > 0
    /\ c # NoCtx => c.level \in Inserts(fs)

\* A target that nobody changed is the table the context was made for.
Guarded(c, to) == c # NoCtx => c.oid # 0 /\ (~c.modified => to = c.oid)

\* The inductive invariant: a statement of the innermost frame is between
\* EXECs, and the context belongs to the INSERT EXEC below, if there is one.
InsertInv == /\ Types
             /\ Top.exec = "none"
             /\ Owned(frames, ctx, tran)
             /\ Guarded(ctx, target)

-----------------------------------------------------------------------------
(* Sets of frames, and stacks.                                             *)

\* The last frame of a set of frames, 0 if there is none.
LEMMA LastFrame ==
    ASSUME NEW k \in Nat, NEW T \in SUBSET (1 .. k)
    PROVE  /\ Max({0} \cup T) \in {0} \cup T /\ Max({0} \cup T) \in 0 .. k
           /\ \A i \in T : i <= Max({0} \cup T)
<1> DEFINE S == {0} \cup T
           R == {p \in Nat \X Nat : p[1] < p[2]}
           U == {k - x : x \in S}
<1>1. S \subseteq 0 .. k /\ 0 \in S
  OBVIOUS
<1>2. U \subseteq Nat /\ U # {}
  <2>1. k - 0 \in U
    BY <1>1
  <2>2. \A x \in S : k - x \in Nat
    BY <1>1
  <2>. QED
    BY <2>1, <2>2
<1>3. IsWellFoundedOn(R, Nat)
  BY NatLessThanWellFounded, Zenon DEF OpToRel
<1>. HIDE DEF R, S
<1>4. PICK u \in U : \A v \in U : ~(<<v, u>> \in R)
  BY <1>2, <1>3, WFMin
<1>5. PICK x \in S : u = k - x
  BY <1>4
<1>6. ASSUME NEW y \in S PROVE x >= y
  <2>1. k - y \in U /\ k - y \in Nat /\ u \in Nat
    BY <1>2, <1>4
  <2>2. ~(k - y < u)
    BY <1>4, <2>1 DEF R
  <2>. QED
    BY <1>1, <1>5, <2>1, <2>2
<1>7. Max(S) \in S /\ \A y \in S : Max(S) >= y
  BY <1>6 DEF Max
<1>8. Max(S) \in 0 .. k /\ \A y \in S : y <= Max(S)
  BY <1>1, <1>7
<1>. QED
  BY <1>7, <1>8 DEF S

LEMMA LandingInStack ==
    ASSUME NEW class, NEW k \in Nat, NEW tries \in SUBSET (1 .. k)
    PROVE  Landing(class, tries, k) \in 0 .. k
<1>1. {i \in tries : i < k} \in SUBSET (1 .. k)
  OBVIOUS
<1>2. Max({0} \cup {i \in tries : i < k}) \in 0 .. k
  BY <1>1, LastFrame, Zenon
<1>3. Max({0} \cup tries) \in 0 .. k
  BY LastFrame, Zenon
<1>. QED
  BY <1>2, <1>3 DEF Landing

\* The last frame of a set that is not empty.
LEMMA LastTry ==
    ASSUME NEW k \in Nat, NEW T \in SUBSET (1 .. k), T # {}
    PROVE  Max(T) \in 1 .. k
<1>1. PICK m \in {0} \cup T : m = Max({0} \cup T) /\ \A i \in T : i <= m
  BY LastFrame
<1>2. m \in T
  <2>1. PICK i \in T : i <= m /\ i \in 1 .. k
    BY <1>1
  <2>2. m # 0
    BY <2>1
  <2>. QED
    BY <1>1, <2>2
<1>4. \A i \in T : m >= i
  BY <1>1, <1>2
<1>5. Max(T) = CHOOSE x \in T : \A i \in T : x >= i
  BY DEF Max
<1>6. Max(T) \in T
  BY <1>2, <1>4, <1>5
<1>. QED
  BY <1>6

\* A stack cut to its first m frames, with an idle frame on top.
LEMMA CutStack ==
    ASSUME NEW fs \in Seq(FrameT), NEW m \in Nat, m <= Len(fs),
           NEW f \in FrameT, f.exec = "none",
           NEW gs, gs = Append(SubSeq(fs, 1, m), f)
    PROVE  /\ gs \in Seq(FrameT) /\ gs # <<>> /\ gs[Len(gs)] = f
           /\ Inserts(gs) = InsertsBelow(fs, m)
<1>1. SubSeq(fs, 1, m) \in Seq(FrameT) /\ Len(SubSeq(fs, 1, m)) = m
      /\ \A i \in 1 .. m : SubSeq(fs, 1, m)[i] = fs[i]
  OBVIOUS
<1>2. /\ gs \in Seq(FrameT) /\ Len(gs) = m + 1 /\ gs[m + 1] = f
      /\ \A i \in 1 .. m : gs[i] = fs[i]
  BY <1>1
<1>3. \A i \in 1 .. (m + 1) : i = m + 1 \/ i \in 1 .. m
  OBVIOUS
<1>4. \A i \in 1 .. m : i \in 1 .. (m + 1) /\ i \in 1 .. Len(fs)
  OBVIOUS
<1>5. Inserts(gs) = InsertsBelow(fs, m)
  <2>1. ASSUME NEW i \in Inserts(gs) PROVE i \in Inserts(fs) /\ i <= m
    <3>1. i \in 1 .. (m + 1) /\ gs[i].exec = "insert"
      BY <1>2 DEF Inserts
    <3>2. i \in 1 .. m
      BY <1>2, <1>3, <3>1
    <3>. QED
      BY <1>2, <1>4, <3>1, <3>2 DEF Inserts
  <2>2. ASSUME NEW i \in Inserts(fs), i <= m PROVE i \in Inserts(gs)
    <3>1. i \in 1 .. m /\ fs[i].exec = "insert"
      BY <2>2 DEF Inserts
    <3>. QED
      BY <1>2, <1>4, <3>1 DEF Inserts
  <2>. QED
    BY <2>1, <2>2 DEF InsertsBelow
<1>. QED
  BY <1>2, <1>5

LEMMA FrameType == Frame \in FrameT /\ Frame.exec = "none" /\ NoCtx \in CtxT /\ NoTran \in TranT
BY DEF Frame, FrameT, NoCtx, CtxT, NoTran, TranT

LEMMA IdleStack ==
    ASSUME NEW fs \in Seq(FrameT), NEW m \in Nat, m <= Len(fs),
           NEW gs, gs = Append(SubSeq(fs, 1, m), Frame)
    PROVE  /\ gs \in Seq(FrameT) /\ gs # <<>> /\ gs[Len(gs)] = Frame
           /\ Inserts(gs) = InsertsBelow(fs, m)
<1>1. Frame \in FrameT /\ Frame.exec = "none"
  BY FrameType
<1>2. gs \in Seq(FrameT)
  BY <1>1, CutStack
<1>3. gs # <<>>
  <2>1. SubSeq(fs, 1, m) \in Seq(FrameT)
    OBVIOUS
  <2>. QED
    BY <1>1, <2>1
<1>4. gs[Len(gs)] = Frame
  BY <1>1, CutStack
<1>5. Inserts(gs) = InsertsBelow(fs, m)
  BY <1>1, CutStack
<1>. QED
  BY <1>2, <1>3, <1>4, <1>5

LEMMA TopFacts ==
    ASSUME Types
    PROVE  d \in Nat \ {0} /\ Top \in FrameT /\ DOMAIN frames = 1 .. d /\ Len(frames) = d
BY DEF Types, d, Top

\* A change of the innermost frame.
LEMMA SetTopStack ==
    ASSUME Types, NEW f \in FrameT
    PROVE  /\ SetTop(f) \in Seq(FrameT) /\ Len(SetTop(f)) = d /\ SetTop(f)[d] = f
           /\ \A i \in 1 .. (d - 1) : SetTop(f)[i] = frames[i]
<1>1. d \in Nat \ {0} /\ frames \in Seq(FrameT) /\ Len(frames) = d
  BY TopFacts DEF Types
<1>. QED
  BY <1>1 DEF SetTop

\* Where the INSERT EXEC is, and that Running finds it.
LEMMA RunningIs ==
    ASSUME NEW fs \in Seq(FrameT), NEW c, NEW t, Owned(fs, c, t)
    PROVE  LET r == Max({0} \cup {i \in 1 .. Len(fs) : fs[i].exec = "insert"}) IN
           /\ r # 0 <=> Inserts(fs) # {}
           /\ r # 0 => r \in Inserts(fs) /\ r = c.level
<1> DEFINE T == {i \in 1 .. Len(fs) : fs[i].exec = "insert"}
           r == Max({0} \cup T)
<1>1. T = Inserts(fs) /\ T \in SUBSET (1 .. Len(fs)) /\ Len(fs) \in Nat
  BY DEF Inserts
<1>. HIDE DEF T
<1>2. r \in {0} \cup T /\ \A i \in T : i <= r
  BY <1>1, LastFrame
<1>3. \A i \in T : i # 0 /\ i \in Nat
  BY <1>1
<1>. HIDE DEF r
<1>4. r # 0 <=> T # {}
  BY <1>2, <1>3
<1>. QED
  BY <1>1, <1>2, <1>4 DEF Owned, r, T

-----------------------------------------------------------------------------
(* Errors.                                                                 *)

\* What holds when the statement of frame k raises an error.
Raisable(fs, k, c, t) ==
    /\ \A i, j \in Inserts(fs) : i <= k /\ j <= k => i = j
    /\ \A i \in Inserts(fs) : i < k => c.level = i /\ t.count > 0
    /\ c # NoCtx => c.level \in Inserts(fs) /\ c.level <= k

\* The error is reported and the batch goes on.
Continues(class, fs, k) == class \in {"ignorable", "count"} /\ {i \in 1 .. k : fs[i].try} = {}

\* The stack and the context after the error agree: PG_FINALLY of an INSERT EXEC
\* the error leaves resets the context, and no other.  The transaction of the
\* statement goes with it.
RaisedWell(fs, k) ==
    /\ InsertInv'
    /\ saved' = saved
    /\ Inserts(frames') # {} => work' = work
    /\ \A i \in Inserts(fs) : i <= k /\ fs[i].started /\ Inserts(frames') = {}
                               => tran'.count = 0 /\ ~work'

LEMMA RaiseStep ==
    ASSUME Types, NEW fs \in Seq(FrameT), NEW k \in 1 .. Len(fs), NEW c \in CtxT,
           NEW t \in TranT, NEW class, Raise(class, fs, k, c, t),
           Raisable(fs, k, c, t), Guarded(c, target),
           fs[k].exec = "insert" => ~Continues(class, fs, k),
           buffer' \in Nat, flushed' \in Nat
    PROVE  RaisedWell(fs, k)
<1> DEFINE tries == {i \in 1 .. k : fs[i].try}
           go == Continues(class, fs, k)
           at == Landing(class, tries, k)
           left == {i \in 1 .. k : i >= at /\ fs[i].exec = "insert"}
           ended == \E i \in left : fs[i].started
           doomed == t.doomed \/ (t.count > 0 /\ Dooms(class, tries))
           undo == ~go /\ (ended \/ (at = 0 /\ doomed))
<1>1. /\ frames' = CASE go -> [SubSeq(fs, 1, k) EXCEPT ![k] = [Frame EXCEPT !.try = @]]
                     [] ~go /\ at = 0 -> <<Frame>>
                     [] OTHER -> Append(SubSeq(fs, 1, at - 1), Frame)
      /\ tran' = CASE undo -> NoTran
                   [] OTHER -> [t EXCEPT !.doomed = doomed]
      /\ ctx' = IF go \/ (left = {} /\ at # 0) THEN c ELSE NoCtx
      /\ target' = IF undo THEN saved ELSE target
      /\ work' = (work /\ ~undo)
      /\ UNCHANGED <<implicit, saved>>
  BY DEF Raise, Continues
<1>2. k \in Nat /\ Len(fs) \in Nat /\ k <= Len(fs) /\ tries \in SUBSET (1 .. k)
  OBVIOUS
<1>3. at \in 0 .. k
  BY <1>2, LandingInStack
<1>4. doomed \in BOOLEAN /\ undo \in BOOLEAN
  BY DEF TranT, Dooms
<1>5. left = {i \in Inserts(fs) : i <= k /\ i >= at}
  BY <1>2, <1>3 DEF Inserts
<1>. HIDE DEF at, left, doomed
<1>6. [t EXCEPT !.doomed = doomed] \in TranT /\ [t EXCEPT !.doomed = doomed].count = t.count
  BY <1>4 DEF TranT
<1>7. tran' \in TranT /\ (undo => tran'.count = 0) /\ (~undo => tran'.count = t.count)
  BY <1>1, <1>6, FrameType DEF NoTran
<1>. HIDE DEF go, ended
<1>8. PICK m \in Nat : /\ m <= Len(fs) /\ frames' = Append(SubSeq(fs, 1, m), Frame)
                       /\ go => m = k - 1
                       /\ ~go /\ at = 0 => m = 0
                       /\ ~go /\ at # 0 => m = at - 1
  <2>1. CASE go
    <3>1. [Frame EXCEPT !.try = @] = Frame
      BY DEF Frame
    <3>2. frames' = [SubSeq(fs, 1, k) EXCEPT ![k] = Frame]
      BY <1>1, <2>1, <3>1
    <3>3. SubSeq(fs, 1, k) \in Seq(FrameT) /\ Len(SubSeq(fs, 1, k)) = k
      BY <1>2
    <3>4. [SubSeq(fs, 1, k) EXCEPT ![k] = Frame] = Append(SubSeq(fs, 1, k - 1), Frame)
      <4> DEFINE x == [SubSeq(fs, 1, k) EXCEPT ![k] = Frame]
                 y == Append(SubSeq(fs, 1, k - 1), Frame)
      <4>1. x \in Seq(FrameT) /\ Len(x) = k /\ x[k] = Frame
            /\ \A i \in 1 .. (k - 1) : x[i] = fs[i]
        <5> DEFINE z == SubSeq(fs, 1, k)
        <5>1. /\ z \in Seq(FrameT) /\ Len(z) = k /\ k \in DOMAIN z
              /\ \A i \in 1 .. (k - 1) : z[i] = fs[i] /\ i # k /\ i \in DOMAIN z
          BY <1>2
        <5>2. x = [z EXCEPT ![k] = Frame]
          OBVIOUS
        <5>. HIDE DEF z, x
        <5>3. x \in Seq(FrameT) /\ Len(x) = k
          BY <5>1, <5>2, FrameType
        <5>4. x[k] = Frame /\ \A i \in 1 .. (k - 1) : x[i] = fs[i]
          BY <5>1, <5>2
        <5>. QED
          BY <5>3, <5>4
      <4>2. y \in Seq(FrameT) /\ Len(y) = k /\ y[k] = Frame
            /\ \A i \in 1 .. (k - 1) : y[i] = fs[i]
        BY <1>2, FrameType
      <4>3. \A i \in 1 .. k : i = k \/ i \in 1 .. (k - 1)
        BY <1>2
      <4>. HIDE DEF x, y
      <4>4. \A i \in 1 .. k : x[i] = y[i]
        BY <4>1, <4>2, <4>3
      <4>5. x = y
        BY <4>1, <4>2, <4>4, SeqEqual
      <4>. QED
        BY <4>5 DEF x, y
    <3>. QED
      BY <1>2, <2>1, <3>2, <3>4
  <2>2. CASE ~go /\ at = 0
    <3>1. SubSeq(fs, 1, 0) = <<>>
      BY <1>2
    <3>2. Append(<<>>, Frame) = <<Frame>>
      BY FrameType
    <3>. QED
      BY <1>1, <1>2, <2>2, <3>1, <3>2
  <2>3. CASE ~go /\ at # 0
    BY <1>1, <1>2, <1>3, <2>3
  <2>. QED
    BY <2>1, <2>2, <2>3
<1>9. /\ frames' \in Seq(FrameT) /\ frames' # <<>> /\ frames'[Len(frames')] = Frame
      /\ Inserts(frames') = InsertsBelow(fs, m)
  <2>1. m <= Len(fs) /\ frames' = Append(SubSeq(fs, 1, m), Frame)
    BY <1>8
  <2>. QED
    BY <2>1, IdleStack
<1>10. \A i \in Inserts(fs) : i \in Nat \ {0}
  BY DEF Inserts
<1>11. k \in Inserts(fs) => ~go
  BY DEF Inserts, go
\* An INSERT EXEC that stays on the stack keeps its context and its transaction.
<1>12. ASSUME NEW i \in Inserts(frames')
       PROVE  i \in Inserts(fs) /\ i < k /\ ctx' = c /\ ~undo
  <2>1. i \in Inserts(fs) /\ i <= m /\ i \in Nat \ {0}
    BY <1>9, <1>10 DEF InsertsBelow
  <2>2. CASE go
    BY <1>1, <1>2, <1>8, <2>1, <2>2
  <2>3. CASE ~go
    <3>1. at # 0 /\ m = at - 1 /\ i < at /\ i < k
      BY <1>3, <1>8, <2>1, <2>3
    <3>2. left = {}
      <4>1. SUFFICES ASSUME NEW j \in left PROVE FALSE
        OBVIOUS
      <4>2. j \in Inserts(fs) /\ j <= k /\ j >= at /\ j \in Nat
        BY <1>5, <1>10
      <4>3. i = j
        BY <1>2, <2>1, <3>1, <4>2 DEF Raisable
      <4>. QED
        BY <1>3, <3>1, <4>2, <4>3
    <3>. QED
      BY <1>1, <2>1, <2>3, <3>1, <3>2 DEF ended
  <2>. QED
    BY <2>2, <2>3
<1>13. Owned(frames', ctx', tran')
  <2>1. ASSUME NEW i \in Inserts(frames')
        PROVE  ctx'.level = i /\ tran'.count > 0
    BY <1>7, <1>12 DEF Raisable
  <2>2. ASSUME ctx' # NoCtx
        PROVE  ctx'.level \in Inserts(frames')
    <3>1. ctx' = c /\ (go \/ (left = {} /\ at # 0))
      BY <1>1, <2>2
    <3>2. c.level \in Inserts(fs) /\ c.level <= k /\ c.level \in Nat
      BY <1>10, <2>2, <3>1 DEF Raisable
    <3>3. CASE go
      <4>1. c.level # k
        BY <1>11, <3>2, <3>3
      <4>. QED
        BY <1>2, <1>8, <1>9, <3>1, <3>2, <3>3, <4>1 DEF InsertsBelow
    <3>4. CASE ~go
      <4>1. c.level \notin left
        BY <3>1, <3>4
      <4>2. c.level < at
        BY <1>3, <1>5, <3>2, <4>1
      <4>. QED
        BY <1>3, <1>8, <1>9, <3>1, <3>2, <3>4, <4>2 DEF InsertsBelow
    <3>. QED
      BY <3>3, <3>4
  <2>. QED
    BY <2>1, <2>2 DEF Owned
<1>14. Guarded(ctx', target')
  <2>1. SUFFICES ASSUME ctx' # NoCtx PROVE ctx' = c /\ target' = target
    BY DEF Guarded
  <2>2. ctx'.level \in Inserts(frames')
    BY <1>13, <2>1 DEF Owned
  <2>. QED
    BY <1>1, <1>12, <2>2
<1>15. Types'
  <2>1. ctx' \in CtxT
    BY <1>1, FrameType
  <2>2. target' \in Nat /\ saved' \in Nat /\ work' \in BOOLEAN /\ implicit' \in BOOLEAN
    BY <1>1, <1>4 DEF Types
  <2>. QED
    BY <1>7, <1>9, <2>1, <2>2 DEF Types
<1>16. InsertInv'
  <2>1. Top' = Frame
    BY <1>9 DEF Top, d
  <2>. QED
    BY <1>13, <1>14, <1>15, <2>1, FrameType DEF InsertInv
<1>17. Inserts(frames') # {} => work' = work
  BY <1>1, <1>12 DEF Types
<1>18. ASSUME NEW i \in Inserts(fs), i <= k, fs[i].started, Inserts(frames') = {}
       PROVE  tran'.count = 0 /\ ~work'
  <2>1. i \in Nat \ {0} /\ ~(i <= m)
    BY <1>9, <1>10, <1>18 DEF InsertsBelow
  <2>2. ~go
    <3>1. SUFFICES ASSUME go PROVE FALSE
      OBVIOUS
    <3>2. i = k
      BY <1>2, <1>8, <1>18, <2>1, <3>1
    <3>. QED
      BY <1>11, <1>18, <3>1, <3>2
  <2>3. i >= at
    BY <1>3, <1>8, <2>1, <2>2
  <2>4. i \in left
    BY <1>5, <1>18, <2>3
  <2>5. undo
    BY <1>18, <2>2, <2>4 DEF ended
  <2>. QED
    BY <1>1, <1>7, <2>5
<1>. QED
  BY <1>1, <1>16, <1>17, <1>18 DEF RaisedWell

-----------------------------------------------------------------------------
(* Steps.                                                                  *)

\* A step keeps the invariant; inside an INSERT EXEC it neither commits nor
\* undoes anything; and a step that ends one ends it whole.
StepOK ==
    /\ InsertInv'
    /\ Inserts(frames) # {} /\ Inserts(frames') # {} => saved' = saved /\ (work => work')
    /\ flushed' # flushed => flushed' \in {0, ctx.oid}
    /\ \A i \in Inserts(frames) :
          Inserts(frames') = {} /\ frames[i].started /\ ~implicit /\ tran.count = 1
            => tran'.count = 0 /\ ~work'

\* The running INSERT EXEC stays, with its context and in a transaction.
LEMMA StayStep ==
    ASSUME InsertInv, Types', Top'.exec = "none", Inserts(frames') = Inserts(frames),
           ctx'.level = ctx.level, ctx' = NoCtx <=> ctx = NoCtx, Guarded(ctx', target'),
           Inserts(frames) # {} => tran'.count > 0 /\ saved' = saved /\ (work => work'),
           flushed' = flushed
    PROVE  StepOK
<1>1. Owned(frames', ctx', tran')
  BY DEF InsertInv, Owned
<1>. QED
  BY <1>1 DEF StepOK, InsertInv

LEMMA SetTopInserts ==
    ASSUME Types, Top.exec = "none", NEW f \in FrameT
    PROVE  Inserts(SetTop(f)) = Inserts(frames) \cup (IF f.exec = "insert" THEN {d} ELSE {})
<1>1. d \in Nat \ {0} /\ Len(frames) = d /\ frames[d].exec = "none"
  BY TopFacts DEF Top
<1>2. /\ Len(SetTop(f)) = d /\ SetTop(f)[d] = f
      /\ \A i \in 1 .. (d - 1) : SetTop(f)[i] = frames[i]
  BY SetTopStack
<1>3. \A i \in 1 .. d : i = d \/ i \in 1 .. (d - 1)
  BY <1>1
<1>. HIDE DEF d
<1>. QED
  BY <1>1, <1>2, <1>3 DEF Inserts

LEMMA BelowTop ==
    ASSUME InsertInv, NEW i \in Inserts(frames)
    PROVE  i \in Nat \ {0} /\ i <= d - 1 /\ i = ctx.level /\ tran.count > 0 /\ ctx # NoCtx
<1>1. d \in Nat \ {0} /\ Len(frames) = d /\ frames[d].exec = "none"
  BY TopFacts DEF InsertInv, Top
<1>2. i \in 1 .. d /\ frames[i].exec = "insert"
  BY <1>1 DEF Inserts
<1>3. i # d
  BY <1>1, <1>2
<1>4. i = ctx.level /\ tran.count > 0
  BY DEF InsertInv, Owned
<1>5. ctx # NoCtx
  BY <1>2, <1>4 DEF NoCtx
<1>. QED
  BY <1>1, <1>2, <1>3, <1>4, <1>5

LEMMA ActiveInserts ==
    ASSUME InsertInv
    PROVE  Active <=> Inserts(frames) # {}
BY BelowTop DEF Active, InsertInv, Owned

\* An error of a statement of the innermost frame.
LEMMA FailsStep == ASSUME InsertInv, NEW class, Fails(class) PROVE StepOK
<1>1. Types /\ frames \in Seq(FrameT) /\ d \in 1 .. Len(frames) /\ ctx \in CtxT /\ tran \in TranT
      /\ d \in Nat
  BY TopFacts DEF InsertInv, Types
<1>2. Raise(class, frames, d, ctx, tran) /\ UNCHANGED <<buffer, flushed>>
  BY DEF Fails
<1>3. Raisable(frames, d, ctx, tran)
  <2>1. \A i \in Inserts(frames) : i = ctx.level /\ tran.count > 0 /\ i <= d - 1 /\ i \in Nat
    BY BelowTop
  <2>2. ctx # NoCtx => ctx.level \in Inserts(frames)
    BY DEF InsertInv, Owned
  <2>3. \A i \in Nat : i <= d - 1 => i <= d
    BY <1>1
  <2>. QED
    BY <2>1, <2>2, <2>3 DEF Raisable
<1>4. frames[d].exec # "insert" /\ buffer' \in Nat /\ flushed' \in Nat
  BY <1>2 DEF InsertInv, Top, Types
<1>5. RaisedWell(frames, d)
  BY <1>1, <1>2, <1>3, <1>4, RaiseStep DEF InsertInv
<1>6. \A i \in Inserts(frames) : i <= d
  BY <1>1, BelowTop
<1>. QED
  BY <1>2, <1>5, <1>6 DEF RaisedWell, StepOK

LEMMA TryStep == ASSUME InsertInv, BeginTry \/ EndTry PROVE StepOK
<1>1. PICK b \in BOOLEAN : frames' = SetTop([Top EXCEPT !.try = b])
  BY DEF BeginTry, EndTry
<1>2. UNCHANGED <<implicit, tran, ctx, buffer, target, saved, work, flushed>>
  BY DEF BeginTry, EndTry
<1> DEFINE f == [Top EXCEPT !.try = b]
<1>3. d \in Nat \ {0} /\ Top \in FrameT
  BY TopFacts DEF InsertInv
<1>4. f \in FrameT /\ f.exec = "none"
  BY <1>3 DEF FrameT, InsertInv
<1>. HIDE DEF f
<1>5. /\ frames' \in Seq(FrameT) /\ Len(frames') = d /\ frames'[d] = f
      /\ Inserts(frames') = Inserts(frames)
  BY <1>1, <1>4, SetTopStack, SetTopInserts DEF InsertInv, f
<1>6. frames' # <<>> /\ Top' = f
  BY <1>3, <1>5 DEF Top, d
<1>7. Types'
  BY <1>2, <1>5, <1>6 DEF InsertInv, Types
<1>8. Inserts(frames) # {} => tran.count > 0
  BY BelowTop
<1>. QED
  BY <1>2, <1>4, <1>5, <1>6, <1>7, <1>8, StayStep DEF InsertInv

\* Statements that leave the stack alone.
LEMMA SameStack ==
    ASSUME InsertInv, frames' = frames, UNCHANGED <<implicit, flushed>>,
           tran' \in TranT, ctx' \in CtxT, buffer' \in Nat, target' \in Nat, saved' \in Nat,
           work' \in BOOLEAN,
           ctx'.level = ctx.level, ctx' = NoCtx <=> ctx = NoCtx, Guarded(ctx', target'),
           Inserts(frames) # {} => tran'.count > 0 /\ saved' = saved /\ (work => work')
    PROVE  StepOK
<1>1. Types'
  BY DEF InsertInv, Types
<1>2. Top' = Top /\ Inserts(frames') = Inserts(frames)
  BY DEF Top, d
<1>. QED
  BY <1>1, <1>2, StayStep DEF InsertInv

LEMMA WriteStep == ASSUME InsertInv, Dml \/ DropTarget \/ CreateTarget PROVE StepOK
<1>1. PICK o : Write(o) /\ o \in Nat
  <2>1. CASE Dml
    BY <2>1 DEF Dml, InsertInv, Types
  <2>2. CASE DropTarget
    BY <2>2 DEF DropTarget
  <2>3. CASE CreateTarget
    <3>1. PICK o \in (1 .. MaxTables) \ {saved, ctx.oid} : Write(o)
      BY <2>3 DEF CreateTarget
    <3>. QED
      BY <3>1, BoundsAssumption
  <2>. QED
    BY <2>1, <2>2, <2>3
<1>2. UNCHANGED <<implicit, frames, tran, buffer, flushed>>
  BY DEF Dml, DropTarget, CreateTarget
<1>3. tran \in TranT /\ tran.count \in Nat /\ ctx \in CtxT /\ buffer \in Nat /\ saved \in Nat
  BY DEF InsertInv, Types, TranT
<1>4. target' = o /\ saved' \in Nat /\ work' \in BOOLEAN
      /\ (tran.count > 0 => saved' = saved /\ work')
  <2>1. target' = o /\ saved' = (IF tran.count = 0 THEN o ELSE saved) /\ work' = (tran.count > 0)
    BY <1>1 DEF Write
  <2>2. tran.count > 0 => tran.count # 0
    BY <1>3
  <2>3. work' \in BOOLEAN
    BY <2>1
  <2>. QED
    BY <1>1, <1>3, <2>1, <2>2, <2>3, Zenon
<1>5. /\ ctx' \in CtxT /\ ctx'.level = ctx.level /\ (ctx' = NoCtx <=> ctx = NoCtx)
      /\ Guarded(ctx', target')
  <2>1. CASE Dml
    BY <1>3, <2>1 DEF Dml, Write, InsertInv
  <2>2. CASE CreateTarget
    <3>1. ctx' = ctx /\ target = 0
      BY <2>2 DEF CreateTarget
    <3>2. ctx # NoCtx => ctx.oid # 0 /\ ctx.modified
      BY <3>1 DEF InsertInv, Guarded
    <3>. QED
      BY <1>3, <3>1, <3>2 DEF Guarded
  <2>3. CASE DropTarget
    <3>1. ctx' = Noted(ctx)
      BY <2>3 DEF DropTarget
    <3> DEFINE b == ctx.modified \/ (ctx # NoCtx /\ ctx.oid = target)
    <3>2. ctx' = [ctx EXCEPT !.modified = b] /\ b \in BOOLEAN
      BY <1>3, <3>1 DEF Noted, CtxT
    <3>3. ctx # NoCtx => b
      BY DEF InsertInv, Guarded
    <3>4. ctx = NoCtx => b = FALSE
      BY DEF NoCtx
    <3>. HIDE DEF b
    <3>5. ctx' \in CtxT /\ ctx'.level = ctx.level /\ ctx'.oid = ctx.oid /\ ctx'.modified = b
      BY <1>3, <3>2 DEF CtxT
    <3>6. ctx = NoCtx => ctx' = NoCtx
      <4>1. [NoCtx EXCEPT !.modified = FALSE] = NoCtx
        <5> DEFINE x == [NoCtx EXCEPT !.modified = FALSE]
        <5>1. x \in CtxT /\ x.level = 0 /\ x.oid = 0 /\ x.modified = FALSE
          BY DEF NoCtx, CtxT
        <5>. HIDE DEF x
        <5>2. x = NoCtx
          BY <5>1 DEF NoCtx, CtxT
        <5>. QED
          BY <5>2 DEF x
      <4>. QED
        BY <3>2, <3>4, <4>1, Zenon
    <3>7. ctx' = NoCtx => ctx = NoCtx
      <4>1. NoCtx.modified = FALSE
        BY DEF NoCtx
      <4>. QED
        BY <3>3, <3>5, <4>1, Zenon
    <3>8. Guarded(ctx', target')
      BY <3>3, <3>5, <3>6 DEF Guarded, InsertInv
    <3>. QED
      BY <3>5, <3>6, <3>7, <3>8
  <2>. QED
    BY <2>1, <2>2, <2>3
<1>6. Inserts(frames) # {} => tran.count > 0
  BY BelowTop
<1>. QED
  BY <1>1, <1>2, <1>3, <1>4, <1>5, <1>6, SameStack

LEMMA SelectStep == ASSUME InsertInv, Select \/ SelectFails \/ SelectMismatch PROVE StepOK
<1>1. CASE Select
  <2>1. buffer' = buffer + 1 /\ UNCHANGED <<implicit, frames, tran, ctx, target, saved, work, flushed>>
    BY <1>1 DEF Select
  <2>2. buffer' \in Nat
    BY <2>1 DEF InsertInv, Types
  <2>3. Inserts(frames) # {} => tran.count > 0
    BY BelowTop
  <2>. QED
    BY <2>1, <2>2, <2>3, SameStack DEF InsertInv, Types
<1>2. CASE SelectFails \/ SelectMismatch
  BY <1>2, FailsStep DEF SelectFails, SelectMismatch
<1>. QED
  BY <1>1, <1>2

\* The end of a transaction outside any INSERT EXEC.
LEMMA EndTranStep ==
    ASSUME InsertInv, ~Active, NEW t \in Nat, EndTran(t)
    PROVE  StepOK
<1>1. Inserts(frames) = {} /\ ctx = NoCtx
  BY ActiveInserts DEF Active
<1>2. tran' \in TranT /\ ctx' \in CtxT /\ ctx' = NoCtx /\ buffer' \in Nat
  BY DEF EndTran, NoTran, NoCtx, TranT, CtxT
<1>3. target' \in Nat /\ saved' \in Nat /\ work' \in BOOLEAN /\ frames' = frames
      /\ UNCHANGED <<implicit, flushed>>
  BY DEF EndTran
<1>4. Guarded(ctx', target')
  BY <1>2 DEF Guarded
<1>. QED
  BY <1>1, <1>2, <1>3, <1>4, SameStack

LEMMA TranStep == ASSUME InsertInv, BeginTran \/ CommitTran \/ RollbackTran PROVE StepOK
<1>1. tran \in TranT /\ tran.count \in Nat /\ target \in Nat /\ saved \in Nat
  BY DEF InsertInv, Types, TranT
<1>2. CASE \E class : Fails(class)
  BY <1>2, FailsStep
<1>3. CASE ~Active /\ (EndTran(target) \/ EndTran(saved))
  BY <1>1, <1>3, EndTranStep
<1>4. CASE \E n \in Nat : /\ tran' = [tran EXCEPT !.count = n] /\ (Active => n > 0)
                          /\ UNCHANGED <<implicit, frames, ctx, buffer, target, saved, work, flushed>>
  <2>1. PICK n \in Nat : /\ tran' = [tran EXCEPT !.count = n] /\ (Active => n > 0)
                         /\ UNCHANGED <<implicit, frames, ctx, buffer, target, saved, work, flushed>>
    BY <1>4
  <2>2. tran' \in TranT /\ tran'.count = n
    BY <1>1, <2>1 DEF TranT
  <2>3. Inserts(frames) # {} => tran'.count > 0
    BY <2>1, <2>2, ActiveInserts
  <2>. QED
    BY <2>1, <2>2, <2>3, SameStack DEF InsertInv, Types
<1>5. CASE BeginTran
  <2>1. CASE tran.doomed
    BY <1>2, <1>5, <2>1 DEF BeginTran
  <2>2. CASE ~tran.doomed
    <3>1. /\ tran' = [tran EXCEPT !.count = tran.count + 1]
          /\ UNCHANGED <<implicit, frames, ctx, buffer, target, saved, work, flushed>>
      BY <1>5, <2>2 DEF BeginTran
    <3>2. tran.count + 1 \in Nat /\ tran.count + 1 > 0
      BY <1>1
    <3>. QED
      BY <1>4, <3>1, <3>2
  <2>. QED
    BY <2>1, <2>2
<1>6. CASE CommitTran
  <2>1. CASE tran.doomed \/ Blocked(TRUE)
    BY <1>2, <1>6, <2>1 DEF CommitTran
  <2>2. CASE ~tran.doomed /\ ~Blocked(TRUE) /\ tran.count = 1
    <3>1. EndTran(target)
      BY <1>6, <2>2 DEF CommitTran
    <3>2. ~Active
      BY <2>2 DEF Blocked
    <3>. QED
      BY <1>3, <3>1, <3>2
  <2>3. CASE ~tran.doomed /\ ~Blocked(TRUE) /\ tran.count # 1
    <3>1. /\ tran' = [tran EXCEPT !.count = tran.count - 1] /\ tran.count > 0
          /\ UNCHANGED <<implicit, frames, ctx, buffer, target, saved, work, flushed>>
      BY <1>6, <2>3 DEF CommitTran
    <3>2. tran.count - 1 \in Nat /\ tran.count - 1 > 0
      BY <1>1, <2>3, <3>1
    <3>. QED
      BY <1>4, <3>1, <3>2
  <2>. QED
    BY <2>1, <2>2, <2>3
<1>7. CASE RollbackTran
  <2>1. CASE Blocked(FALSE)
    BY <1>2, <1>7, <2>1 DEF RollbackTran
  <2>2. CASE ~Blocked(FALSE)
    <3>1. EndTran(saved) /\ ~Active
      BY <1>7, <2>2 DEF RollbackTran, Blocked
    <3>. QED
      BY <1>3, <3>1
  <2>. QED
    BY <2>1, <2>2
<1>. QED
  BY <1>5, <1>6, <1>7

\* A stack cut above frame m, with an idle frame of its own on top, keeps the
\* INSERT EXECs up to m.
LEMMA PlainPush ==
    ASSUME NEW fs \in Seq(FrameT), NEW f \in FrameT, f.exec = "none"
    PROVE  /\ Append(fs, f) \in Seq(FrameT) /\ Append(fs, f) # <<>>
           /\ Append(fs, f)[Len(Append(fs, f))] = f
           /\ Inserts(Append(fs, f)) = Inserts(fs)
<1> DEFINE g == Append(fs, f)
           n == Len(fs)
<1>1. n \in Nat /\ g \in Seq(FrameT) /\ Len(g) = n + 1 /\ g[n + 1] = f
  OBVIOUS
<1>2. \A i \in 1 .. n : g[i] = fs[i]
  OBVIOUS
<1>3. \A i \in 1 .. (n + 1) : i = n + 1 \/ i \in 1 .. n
  BY <1>1
<1>4. 1 .. n \subseteq 1 .. (n + 1)
  BY <1>1
<1>. HIDE DEF g
<1>5. g # <<>>
  BY <1>1
<1>6. Inserts(g) = Inserts(fs)
  BY <1>1, <1>2, <1>3, <1>4 DEF Inserts
<1>. QED
  BY <1>1, <1>5, <1>6 DEF g

LEMMA ExecStep == ASSUME InsertInv, Exec PROVE StepOK
<1> DEFINE f == [Top EXCEPT !.exec = "call", !.count = tran.count]
           fs == SetTop(f)
<1>1. frames' = Append(fs, Frame)
      /\ UNCHANGED <<implicit, tran, ctx, buffer, target, saved, work, flushed>>
  BY DEF Exec
<1>2. f \in FrameT /\ f.exec = "call"
  BY TopFacts DEF InsertInv, Types, FrameT, TranT
<1>. HIDE DEF f
<1>3. fs \in Seq(FrameT) /\ Inserts(fs) = Inserts(frames)
  BY <1>2, SetTopStack, SetTopInserts DEF InsertInv
<1>. HIDE DEF fs
<1>4. Frame \in FrameT /\ Frame.exec = "none"
  BY DEF Frame, FrameT
<1>5. /\ frames' \in Seq(FrameT) /\ frames' # <<>> /\ frames'[Len(frames')] = Frame
      /\ Inserts(frames') = Inserts(frames)
  BY <1>1, <1>3, <1>4, PlainPush
<1>6. Types' /\ Top'.exec = "none"
  BY <1>1, <1>4, <1>5 DEF InsertInv, Types, Top, d
<1>7. Inserts(frames) # {} => tran.count > 0
  BY BelowTop
<1>. QED
  BY <1>1, <1>5, <1>6, <1>7, StayStep DEF InsertInv

\* The INSERT EXECs of the stack when the caller of the innermost frame goes on.
LEMMA Popped ==
    ASSUME InsertInv, d > 1
    PROVE  InsertsBelow(frames, d - 2)
             = Inserts(frames) \ (IF frames[d - 1].exec = "insert" THEN {d - 1} ELSE {})
<1>1. d \in Nat /\ Len(frames) = d /\ d - 1 \in 1 .. d
  BY TopFacts DEF InsertInv
<1>2. \A i \in Inserts(frames) : i \in Nat /\ i <= d - 1
  BY BelowTop
<1>3. \A i \in Nat : i <= d - 1 => (i <= d - 2 <=> i # d - 1)
  BY <1>1
<1>4. d - 1 \in Inserts(frames) <=> frames[d - 1].exec = "insert"
  BY <1>1 DEF Inserts
<1>. HIDE DEF d
<1>. QED
  BY <1>2, <1>3, <1>4 DEF InsertsBelow

\* An error at the EXEC that the innermost frame was called by.
LEMMA CallerRaises ==
    ASSUME InsertInv, d > 1, NEW class, Raise(class, frames, d - 1, ctx, tran),
           UNCHANGED <<buffer, flushed>>,
           frames[d - 1].exec = "insert" => ~Continues(class, frames, d - 1)
    PROVE  StepOK
<1>1. Types /\ frames \in Seq(FrameT) /\ d - 1 \in 1 .. Len(frames) /\ ctx \in CtxT /\ tran \in TranT
      /\ d - 1 \in Nat
  BY TopFacts DEF InsertInv, Types
<1>2. \A i \in Inserts(frames) : i = ctx.level /\ tran.count > 0 /\ i <= d - 1
  BY BelowTop
<1>3. ctx # NoCtx => ctx.level \in Inserts(frames)
  BY DEF InsertInv, Owned
<1>4. Raisable(frames, d - 1, ctx, tran)
  BY <1>2, <1>3 DEF Raisable
<1>5. buffer' \in Nat /\ flushed' \in Nat /\ Guarded(ctx, target)
  BY DEF InsertInv, Types
<1>6. RaisedWell(frames, d - 1)
  BY <1>1, <1>4, <1>5, RaiseStep
<1>. QED
  BY <1>2, <1>6 DEF RaisedWell, StepOK

LEMMA ReturnStep == ASSUME InsertInv, Return PROVE StepOK
<1> DEFINE f == frames[d - 1]
           g == [Frame EXCEPT !.try = f.try]
<1>1. d > 1 /\ f.exec = "call" /\ UNCHANGED <<buffer, flushed>>
  BY DEF Return
<1>2. CASE ~implicit /\ f.count # tran.count
  <2>1. Raise("count", frames, d - 1, ctx, tran)
    BY <1>2 DEF Return
  <2>. QED
    BY <1>1, <2>1, CallerRaises
<1>3. CASE ~(~implicit /\ f.count # tran.count)
  <2>1. frames' = Append(SubSeq(frames, 1, d - 2), g) /\ UNCHANGED <<implicit, tran, ctx, target, saved, work>>
    BY <1>3 DEF Return
  <2>2. frames \in Seq(FrameT) /\ d - 2 \in Nat /\ d - 2 <= Len(frames) /\ f \in FrameT
    BY <1>1, TopFacts DEF InsertInv, Types
  <2>3. g \in FrameT /\ g.exec = "none"
    BY <2>2 DEF Frame, FrameT
  <2>4. Inserts(frames) = InsertsBelow(frames, d - 2)
    BY <1>1, Popped
  <2>. HIDE DEF g, f
  <2>5. /\ frames' \in Seq(FrameT) /\ frames' # <<>> /\ frames'[Len(frames')] = g
        /\ Inserts(frames') = Inserts(frames)
    <3> DEFINE fs == SubSeq(frames, 1, d - 2)
    <3>1. fs \in Seq(FrameT)
      BY <2>2
    <3>2. Inserts(frames') = InsertsBelow(frames, d - 2)
      BY <2>1, <2>2, <2>3, CutStack
    <3>. HIDE DEF fs
    <3>3. frames' = Append(fs, g)
      BY <2>1 DEF fs
    <3>. QED
      BY <2>3, <2>4, <3>1, <3>2, <3>3, PlainPush
  <2>6. Types' /\ Top'.exec = "none"
    BY <1>1, <2>1, <2>3, <2>5 DEF InsertInv, Types, Top, d
  <2>7. Inserts(frames) # {} => tran.count > 0
    BY BelowTop
  <2>. QED
    BY <1>1, <2>1, <2>5, <2>6, <2>7, StayStep DEF InsertInv
<1>. QED
  BY <1>2, <1>3

LEMMA EndBatchStep == ASSUME InsertInv, EndBatch PROVE StepOK
<1>1. d = 1 /\ frames' = <<Frame>> /\ ctx' = NoCtx /\ UNCHANGED <<implicit, buffer, saved, flushed>>
  BY DEF EndBatch
<1>2. tran' \in TranT /\ target' \in Nat /\ work' \in BOOLEAN
  BY FrameType DEF EndBatch, InsertInv, Types
<1>3. Inserts(frames) = {}
  <2>1. ASSUME NEW i \in Inserts(frames) PROVE FALSE
    <3>1. i \in Nat \ {0} /\ i <= d - 1
      BY BelowTop
    <3>. QED
      BY <1>1, <3>1
  <2>. QED
    BY <2>1
<1>4. frames' \in Seq(FrameT) /\ frames' # <<>> /\ Len(frames') = 1 /\ frames'[1] = Frame
  BY <1>1, FrameType
<1>5. Inserts(frames') = {}
  <2>1. \A i \in 1 .. 1 : i = 1
    OBVIOUS
  <2>. QED
    BY <1>4, <2>1, FrameType DEF Inserts
<1>6. Types' /\ Top'.exec = "none" /\ Guarded(ctx', target')
  BY <1>1, <1>2, <1>4, FrameType DEF InsertInv, Types, Top, d, Guarded
<1>7. ctx = NoCtx
  BY <1>3, ActiveInserts DEF Active
<1>. QED
  BY <1>1, <1>3, <1>5, <1>6, <1>7, StayStep DEF InsertInv

\* insert_exec_setup: inside another INSERT EXEC it fails; a missing target or an
\* uncommittable transaction fails after the transaction was started.
LEMMA InsertExecStep == ASSUME InsertInv, InsertExec PROVE StepOK
<1> DEFINE f == [Top EXCEPT !.exec = "insert", !.count = tran.count, !.started = Starts]
           t == IF Starts THEN [tran EXCEPT !.count = 1] ELSE tran
           fs == SetTop(f)
<1>1. d \in Nat \ {0} /\ tran \in TranT /\ tran.count \in Nat /\ target \in Nat /\ Top \in FrameT
  BY TopFacts DEF InsertInv, Types, TranT
<1>2. f \in FrameT /\ f.exec = "insert"
  BY <1>1 DEF FrameT, Starts
<1>3. t \in TranT /\ t.count > 0
  BY <1>1 DEF TranT, Starts
<1>. HIDE DEF f, t
<1>4. fs \in Seq(FrameT) /\ Len(fs) = d /\ fs[d] = f /\ Inserts(fs) = Inserts(frames) \cup {d}
  BY <1>2, SetTopStack, SetTopInserts DEF InsertInv
<1>. HIDE DEF fs
<1>5. CASE Active
  BY <1>5, FailsStep DEF InsertExec
<1>6. CASE ~Active
  <2>1. ctx = NoCtx /\ Inserts(frames) = {} /\ Inserts(fs) = {d}
    BY <1>4, <1>6, ActiveInserts DEF Active
  <2>2. CASE target = 0 \/ tran.doomed
    <3> DEFINE class == IF tran.doomed THEN "stop" ELSE "missing"
    <3>1. Raise(class, fs, d, ctx, t) /\ UNCHANGED <<buffer, flushed>>
      BY <1>6, <2>2 DEF InsertExec, fs, f, t
    <3>2. ~Continues(class, fs, d)
      BY DEF Continues
    <3>3. Raisable(fs, d, ctx, t)
      BY <1>1, <2>1 DEF Raisable
    <3>4. Types /\ d \in 1 .. Len(fs) /\ ctx \in CtxT /\ buffer' \in Nat /\ flushed' \in Nat
          /\ Guarded(ctx, target)
      BY <1>1, <1>4, <3>1 DEF InsertInv, Types
    <3>. HIDE DEF class
    <3>5. RaisedWell(fs, d)
      BY <1>3, <1>4, <3>1, <3>2, <3>3, <3>4, RaiseStep
    <3>. QED
      BY <2>1, <3>1, <3>5 DEF RaisedWell, StepOK
  <2>3. CASE ~(target = 0 \/ tran.doomed)
    <3>1. /\ tran' = t /\ ctx' = [level |-> d, oid |-> target, modified |-> FALSE]
          /\ frames' = Append(fs, Frame) /\ buffer' = 0 /\ flushed' = 0
          /\ UNCHANGED <<implicit, target, saved, work>>
      BY <1>6, <2>3 DEF InsertExec, fs, f, t
    <3>2. /\ frames' \in Seq(FrameT) /\ frames' # <<>> /\ frames'[Len(frames')] = Frame
          /\ Inserts(frames') = {d}
      BY <1>4, <2>1, <3>1, FrameType, PlainPush
    <3>3. ctx' \in CtxT /\ ctx'.level = d /\ ctx'.oid = target /\ ctx'.modified = FALSE
      BY <1>1, <3>1 DEF CtxT
    <3>4. Types' /\ Top'.exec = "none"
      BY <1>3, <3>1, <3>2, <3>3, FrameType DEF InsertInv, Types, Top, d
    <3>5. Owned(frames', ctx', tran')
      BY <1>3, <3>1, <3>2, <3>3 DEF Owned
    <3>6. Guarded(ctx', target')
      BY <2>3, <3>1, <3>3 DEF Guarded
    <3>. QED
      BY <2>1, <3>1, <3>4, <3>5, <3>6 DEF StepOK, InsertInv
  <2>. QED
    BY <2>2, <2>3
<1>. QED
  BY <1>5, <1>6

\* The transaction after the statement, and when it is over.
LEMMA CleanedTran ==
    ASSUME NEW f \in FrameT, NEW t \in TranT, implicit \in BOOLEAN
    PROVE  /\ Cleaned(f, t) \in TranT
           /\ f.started /\ ~implicit /\ t.count = 1 => Cleaned(f, t).count = 0
<1>1. NoTran \in TranT /\ NoTran.count = 0
  BY DEF NoTran, TranT
<1>2. t.count \in Nat /\ (~(t.count <= 1) => t.count - 1 \in Nat)
  BY DEF TranT
<1>3. ~(t.count <= 1) => [t EXCEPT !.count = t.count - 1] \in TranT
  BY <1>2 DEF TranT
<1>. QED
  BY <1>1, <1>2, <1>3 DEF Cleaned

\* insert_exec_flush_and_cleanup, and the check of the transaction count.
LEMMA InsertExecReturnStep == ASSUME InsertInv, InsertExecReturn PROVE StepOK
<1> DEFINE f == frames[d - 1]
           tries == {i \in 1 .. d - 1 : frames[i].try}
           t == Cleaned(f, tran)
           again == ~implicit /\ f.count # t.count /\ tries # {}
           Flushes(ok) ==
             /\ saved' = IF t.count = 0 THEN target ELSE saved
             /\ work' = (t.count > 0 /\ (work \/ ok))
             /\ ctx' = NoCtx /\ buffer' = 0
             /\ flushed' = IF ok THEN target ELSE 0
             /\ frames' = IF again THEN Append(SubSeq(frames, 1, Max(tries) - 1), Frame)
                          ELSE Append(SubSeq(frames, 1, d - 2), [Frame EXCEPT !.try = f.try])
             /\ tran' = [t EXCEPT !.doomed = again /\ t.count > 0]
             /\ UNCHANGED <<implicit, target>>
<1>1. d > 1 /\ f.exec = "insert"
  BY DEF InsertExecReturn
<1>2. /\ frames \in Seq(FrameT) /\ d \in Nat /\ Len(frames) = d /\ f \in FrameT
      /\ tran \in TranT /\ implicit \in BOOLEAN /\ target \in Nat /\ saved \in Nat
  BY <1>1, TopFacts DEF InsertInv, Types
<1>3. CASE FlushError # "none"
  <2>1. Raise(FlushError, frames, d - 1, ctx, tran) /\ UNCHANGED <<buffer, flushed>>
    BY <1>3 DEF InsertExecReturn
  <2>2. ~Continues(FlushError, frames, d - 1)
    BY <1>3 DEF FlushError, Continues
  <2>. QED
    BY <1>1, <2>1, <2>2, CallerRaises
<1>4. CASE tries # {} /\ Raise("ignorable", frames, d - 1, ctx, tran) /\ UNCHANGED <<buffer, flushed>>
  <2>1. ~Continues("ignorable", frames, d - 1)
    BY <1>4 DEF Continues
  <2>. QED
    BY <1>1, <1>4, <2>1, CallerRaises
<1>5. ASSUME FlushError = "none", NEW ok \in BOOLEAN, Flushes(ok) PROVE StepOK
  <2>1. t \in TranT /\ (f.started /\ ~implicit /\ tran.count = 1 => t.count = 0)
    BY <1>2, CleanedTran
  <2>2. d - 1 \in Inserts(frames) /\ d - 1 \in Nat
    BY <1>1, <1>2 DEF Inserts
  <2>3. Inserts(frames) = {d - 1} /\ ctx # NoCtx
    <3>1. d - 1 = ctx.level /\ ctx # NoCtx
      BY <2>2, BelowTop
    <3>2. \A i \in Inserts(frames) : i = ctx.level
      BY BelowTop
    <3>. QED
      BY <2>2, <3>1, <3>2
  <2>4. target = ctx.oid
    BY <1>5, <2>3 DEF FlushError, InsertInv, Guarded
  <2>. HIDE DEF t, again
  <2>5. PICK m \in Nat, g \in FrameT :
          m <= d - 2 /\ g.exec = "none" /\ frames' = Append(SubSeq(frames, 1, m), g)
    <3>1. CASE again
      <4>1. tries # {} /\ tries \in SUBSET (1 .. d - 1) /\ d - 1 \in Nat
        BY <1>1, <1>2, <3>1 DEF again
      <4>2. Max(tries) \in 1 .. d - 1
        BY <4>1, LastTry
      <4>3. Max(tries) - 1 \in Nat /\ Max(tries) - 1 <= d - 2
        BY <1>2, <4>2
      <4>. QED
        BY <1>5, <3>1, <4>3, FrameType
    <3>2. CASE ~again
      <4>1. [Frame EXCEPT !.try = f.try] \in FrameT /\ [Frame EXCEPT !.try = f.try].exec = "none"
        BY <1>2 DEF Frame, FrameT
      <4>2. d - 2 \in Nat /\ d - 2 <= d - 2
        BY <1>1, <1>2
      <4>. QED
        BY <1>5, <3>2, <4>1, <4>2
    <3>. QED
      BY <3>1, <3>2
  <2>6. frames' \in Seq(FrameT) /\ frames' # <<>> /\ frames'[Len(frames')].exec = "none"
    <3>1. SubSeq(frames, 1, m) \in Seq(FrameT)
      BY <1>2, <2>5
    <3>. QED
      BY <2>5, <3>1, PlainPush
  <2>7. Inserts(frames') = {}
    <3>1. m <= Len(frames)
      BY <1>2, <2>5
    <3>2. Inserts(frames') = InsertsBelow(frames, m)
      BY <1>2, <2>5, <3>1, CutStack
    <3>3. ~(d - 1 <= m)
      BY <1>2, <2>5
    <3>. QED
      BY <2>3, <3>2, <3>3 DEF InsertsBelow
  <2>8. tran' \in TranT /\ tran'.count = t.count
    <3>1. (again /\ t.count > 0) \in BOOLEAN
      BY DEF again
    <3>. QED
      BY <1>5, <2>1, <3>1 DEF TranT
  <2>9. work' \in BOOLEAN /\ (t.count = 0 => ~work')
    <3>1. work' = (t.count > 0 /\ (work \/ ok))
      BY <1>5
    <3>2. t.count = 0 => ~(t.count > 0)
      BY <2>1 DEF TranT
    <3>3. work' \in BOOLEAN
      BY <3>1
    <3>. QED
      BY <3>1, <3>2, <3>3, Zenon
  <2>10. saved' \in Nat /\ flushed' \in {0, target} /\ flushed' \in Nat /\ ctx' = NoCtx /\ buffer' = 0
         /\ UNCHANGED <<implicit, target>>
    BY <1>2, <1>5
  <2>11. InsertInv'
    <3>1. Types'
      BY <1>2, <2>6, <2>8, <2>9, <2>10, FrameType DEF Types
    <3>2. Owned(frames', ctx', tran') /\ Guarded(ctx', target')
      BY <2>7, <2>10 DEF Owned, Guarded
    <3>. QED
      BY <2>6, <3>1, <3>2 DEF InsertInv, Top, d
  <2>12. \A i \in Inserts(frames) : frames[i].started /\ ~implicit /\ tran.count = 1
            => tran'.count = 0 /\ ~work'
    BY <2>1, <2>3, <2>8, <2>9
  <2>. QED
    BY <2>4, <2>7, <2>10, <2>11, <2>12 DEF StepOK
<1>. QED
  BY <1>3, <1>4, <1>5 DEF InsertExecReturn

-----------------------------------------------------------------------------
(* Every behaviour.                                                        *)

LEMMA InsertInit == ASSUME Init PROVE InsertInv
<1>1. Frame \in FrameT /\ Frame.exec = "none" /\ NoCtx \in CtxT /\ NoTran \in TranT
  BY FrameType
<1>2. frames \in Seq(FrameT) /\ frames # <<>> /\ Len(frames) = 1 /\ frames[1] = Frame
  BY <1>1 DEF Init
<1>3. Types
  BY <1>1, <1>2 DEF Init, Types
<1>4. Inserts(frames) = {}
  <2>1. \A i \in 1 .. 1 : i = 1
    OBVIOUS
  <2>. QED
    BY <1>1, <1>2, <2>1 DEF Inserts
<1>. QED
  BY <1>1, <1>2, <1>3, <1>4 DEF Init, InsertInv, Owned, Guarded, Top, d

LEMMA InsertNext == ASSUME InsertInv, [Next]_vars PROVE StepOK
<1>1. CASE Next
  BY <1>1, TryStep, FailsStep, WriteStep, TranStep, SelectStep, ExecStep, ReturnStep,
     InsertExecStep, InsertExecReturnStep, EndBatchStep DEF Next, StatementFails
<1>2. CASE UNCHANGED vars
  <2>1. UNCHANGED <<implicit, frames, tran, ctx, buffer, target, saved, work, flushed>>
    BY <1>2 DEF vars
  <2>2. Inserts(frames) # {} => tran.count > 0
    BY BelowTop
  <2>. QED
    BY <2>1, <2>2, SameStack DEF InsertInv, Types
<1>. QED
  BY <1>1, <1>2

LEMMA InsertInvariance == Spec => []InsertInv
<1>1. Init => InsertInv
  BY InsertInit
<1>2. InsertInv /\ [Next]_vars => InsertInv'
  BY InsertNext DEF StepOK
<1>. QED
  BY <1>1, <1>2, PTL DEF Spec

\* insert_exec_ctx is set exactly while an INSERT EXEC runs and is that of the
\* statement, at every depth of calls and whatever errors, nested INSERT EXECs
\* and ends of transactions come between: the reset in PG_FINALLY and in
\* pltsql_xact_cb never takes the context from a procedure that still runs.
THEOREM ContextIsTheStatements == Spec => []ContextMatchesStatement
<1>1. InsertInv => ContextMatchesStatement
  <2>. SUFFICES ASSUME InsertInv PROVE ContextMatchesStatement
    OBVIOUS
  <2>2. frames \in Seq(FrameT) /\ Owned(frames, ctx, tran)
    BY DEF InsertInv, Types
  <2>3. (Running # 0 <=> Inserts(frames) # {}) /\ (Running # 0 => Running = ctx.level)
    BY <2>2, RunningIs DEF Running, d
  <2>. QED
    BY <2>3, ActiveInserts DEF ContextMatchesStatement
<1>. QED
  BY <1>1, InsertInvariance, PTL

\* An INSERT EXEC is atomic, for every procedure it runs: no COMMIT or ROLLBACK
\* of the procedure ends the transaction under it, its rows go into the table
\* the buffer was made from, and the transaction started for it ends with it.
THEOREM InsertExecIsAtomic == Spec => InsertExecAtomic
<1> DEFINE Inside == Running # 0 /\ Running' # 0
                       => tran'.count > 0 /\ saved' = saved /\ (work => work')
           Whole == /\ flushed' # flushed => flushed' \in {0, ctx.oid}
                    /\ Running # 0 /\ Running' = 0 /\ frames[Running].started
                         /\ ~implicit /\ tran.count = 1
                         => tran'.count = 0 /\ ~work'
<1>1. ASSUME InsertInv, [Next]_vars PROVE Inside /\ Whole
  <2>1. StepOK /\ InsertInv'
    BY <1>1, InsertNext DEF StepOK
  <2>2. frames \in Seq(FrameT) /\ Owned(frames, ctx, tran)
        /\ frames' \in Seq(FrameT) /\ Owned(frames', ctx', tran')
    BY <1>1, <2>1 DEF InsertInv, Types
  <2>3. (Running # 0 <=> Inserts(frames) # {}) /\ (Running # 0 => Running \in Inserts(frames))
    BY <2>2, RunningIs DEF Running, d
  <2>4. Running' # 0 <=> Inserts(frames') # {}
    BY <2>2, RunningIs DEF Running, d
  <2>5. Inserts(frames') # {} => tran'.count > 0
    BY <2>2 DEF Owned
  <2>. QED
    BY <2>1, <2>3, <2>4, <2>5 DEF StepOK
<1>2. InsertInv /\ [Next]_vars => [Inside]_vars /\ [Whole]_vars
  BY <1>1
<1>3. Spec => [][Inside]_vars /\ [][Whole]_vars
  BY <1>2, InsertInvariance, PTL DEF Spec
<1>. QED
  BY <1>3 DEF InsertExecAtomic, NothingEndsInside, EndsWhole
=============================================================================
