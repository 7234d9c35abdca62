--------------------------- MODULE TsqlExecProofs ---------------------------
(***************************************************************************)
(* Proofs about TsqlExec, for every session, that is every setting of SET  *)
(* options and all kinds of statements, callees and errors, and for every  *)
(* bound on the nesting of frames, blocks, transactions and savepoints.    *)
(* The first part is about TRY...CATCH.                                    *)
(***************************************************************************)
EXTENDS TsqlExec, SequenceTheorems, WellFoundedInduction, TLAPS

-----------------------------------------------------------------------------
(* Types, but for the response.                                            *)

Types == /\ opts \in Options
         /\ frames \in Seq(FrameT)
         /\ err \in [at : {"none", "raised", "thrown", "out"}, e : Error]
         /\ tran \in TranT
         /\ req \in {"idle", "running", "flush"}

\* Where the request, the frames and the error in flight stand to each other:
\* frames only run within a request, and an error in flight is in a frame and is
\* not NoError.
Shape == /\ req # "running" => frames = <<>> /\ err = Calm
         /\ err.at \in {"raised", "thrown"} => frames # <<>> /\ err.e # NoError
         /\ err.at \in {"none", "out"} => err.e = NoError
         /\ err.at = "out" => frames = <<>>

-----------------------------------------------------------------------------
(* TRY...CATCH.                                                            *)

\* h is the innermost TRY block of the first k blocks of b, 0 if none is.
LastTry(b, k, h) == /\ h \in 0 .. k
                    /\ h # 0 => b[h] = NoError
                    /\ \A j \in (h + 1) .. k : b[j] # NoError

\* e is the error that the innermost CATCH block of the first k blocks of b
\* caught, NoError if none of them is a CATCH block.
LastCaught(b, k, e) ==
    \/ e = NoError /\ \A j \in 1 .. k : b[j] = NoError
    \/ /\ e # NoError
       /\ \E c \in 1 .. k : /\ b[c] = e
                            /\ \A j \in (c + 1) .. k : b[j] = NoError

\* Context j of a frame mirrors block j, and has saved what is to be restored
\* when the block ends: the exception stack and the error of the blocks around
\* it.  Without the latter nothing would be known of a frame that leaves a block.
CtxOK(f, j) == /\ f.ctx[j].restored <=> f.blocks[j] # NoError
               /\ LastTry(f.blocks, j - 1, f.ctx[j].handler)
               /\ LastCaught(f.blocks, j - 1, f.ctx[j].saved)

BlocksOK(f) ==
    /\ Len(f.ctx) = Len(f.blocks)
    /\ \A j \in 1 .. Len(f.blocks) : CtxOK(f, j)
    /\ LastTry(f.blocks, Len(f.blocks), f.handler)
    /\ f.handler # 0 => f.idx = f.handler
    /\ LastCaught(f.blocks, Len(f.blocks), f.cur)

\* THROW without arguments stands where there is an error to throw again, so
\* that what a TRY block lets through is never NoError.
RethrowOK(f) == f.stmt = "rethrow" => f.cur # NoError

Blocks == \A i \in DOMAIN frames : BlocksOK(frames[i]) /\ RethrowOK(frames[i])

\* The inductive invariant behind the theorems about TRY...CATCH.
BlocksInv == Types /\ Shape /\ Blocks

\* The innermost TRY block that handler names is the one the program is in.
LEMMA LastTryIsInnermost ==
    ASSUME NEW f \in FrameT, NEW h, LastTry(f.blocks, Len(f.blocks), h)
    PROVE  InnermostTry(f) = h
<1> DEFINE b == f.blocks
           tries == {i \in DOMAIN b : b[i] = NoError}
<1>1. b \in Seq(Error) /\ Len(b) \in Nat /\ DOMAIN b = 1 .. Len(b)
  BY DEF FrameT
<1>2. h \in 0 .. Len(b) /\ \A j \in tries : j <= h
  BY <1>1 DEF LastTry
<1>3. CASE h = 0
  <2>1. tries = {}
    BY <1>1, <1>2, <1>3
  <2>. QED
    BY <2>1, <1>3 DEF InnermostTry
<1>4. CASE h # 0
  <2>1. h \in tries
    BY <1>1, <1>2, <1>4 DEF LastTry
  <2>2. \A i \in tries : (\A j \in tries : j <= i) => i = h
    BY <1>1, <1>2, <2>1
  <2>3. (CHOOSE i \in tries : \A j \in tries : j <= i) = h
    BY <1>2, <2>1, <2>2
  <2>. QED
    BY <2>1, <2>3 DEF InnermostTry
<1>. QED
  BY <1>3, <1>4

\* restore_ctx_full and restore_ctx_partial1 make the innermost TRY block that
\* is still running the current context, and keep the one they leave if none is.
LEMMA NextActiveIs ==
    ASSUME NEW ctx, NEW b, NEW i \in Nat \ {0}, NEW h,
           LastTry(b, i - 1, h),
           \A j \in 1 .. (i - 1) : ctx[j].restored <=> b[j] # NoError
    PROVE  NextActive(ctx, i) = IF h = 0 THEN i ELSE h
<1> DEFINE active == {j \in 1 .. (i - 1) : ~ctx[j].restored}
<1>1. h \in 0 .. (i - 1) /\ \A j \in active : j <= h
  BY DEF LastTry
<1>2. CASE h = 0
  <2>1. active = {}
    BY <1>1, <1>2
  <2>. QED
    BY <2>1, <1>2 DEF NextActive
<1>3. CASE h # 0
  <2>1. h \in active
    BY <1>1, <1>3 DEF LastTry
  <2>2. \A k \in active : (\A j \in active : j <= k) => k = h
    BY <1>1, <2>1
  <2>3. (CHOOSE k \in active : \A j \in active : j <= k) = h
    BY <1>1, <2>1, <2>2
  <2>. QED
    BY <1>3, <2>1, <2>3 DEF NextActive
<1>. QED
  BY <1>2, <1>3

\* LastTry and LastCaught look at the first k blocks only.
LEMMA LastTryAgrees ==
    ASSUME NEW b, NEW c, NEW k \in Nat, NEW h,
           \A j \in 1 .. k : b[j] = c[j], LastTry(b, k, h)
    PROVE  LastTry(c, k, h)
<1>1. h \in 0 .. k /\ (h # 0 => h \in 1 .. k)
  BY DEF LastTry
<1>2. \A j \in (h + 1) .. k : j \in 1 .. k
  BY <1>1
<1>. QED
  BY <1>1, <1>2 DEF LastTry

LEMMA LastCaughtAgrees ==
    ASSUME NEW b, NEW c, NEW k \in Nat, NEW e,
           \A j \in 1 .. k : b[j] = c[j], LastCaught(b, k, e)
    PROVE  LastCaught(c, k, e)
<1>1. CASE e = NoError
  BY <1>1 DEF LastCaught
<1>2. CASE e # NoError
  <2>1. PICK i \in 1 .. k : b[i] = e /\ \A j \in (i + 1) .. k : b[j] = NoError
    BY <1>2 DEF LastCaught
  <2>2. \A j \in (i + 1) .. k : j \in 1 .. k
    OBVIOUS
  <2>. QED
    BY <1>2, <2>1, <2>2 DEF LastCaught
<1>. QED
  BY <1>1, <1>2

\* A TRY block does not change the error that the CATCH blocks around it see.
LEMMA LastCaughtAtTry ==
    ASSUME NEW b, NEW k \in Nat, NEW e, b[k + 1] = NoError
    PROVE  LastCaught(b, k + 1, e) <=> LastCaught(b, k, e)
<1>1. CASE e = NoError
  <2>1. \A j \in 1 .. (k + 1) : j \in 1 .. k \/ j = k + 1
    OBVIOUS
  <2>2. \A j \in 1 .. k : j \in 1 .. (k + 1)
    OBVIOUS
  <2>. QED
    BY <1>1, <2>1, <2>2 DEF LastCaught
<1>2. ASSUME e # NoError, LastCaught(b, k, e)
      PROVE  LastCaught(b, k + 1, e)
  <2>1. PICK i \in 1 .. k : b[i] = e /\ \A j \in (i + 1) .. k : b[j] = NoError
    BY <1>2 DEF LastCaught
  <2>2. i \in 1 .. (k + 1) /\ \A j \in (i + 1) .. (k + 1) : b[j] = NoError
    BY <2>1
  <2>. QED
    BY <1>2, <2>1, <2>2 DEF LastCaught
<1>3. ASSUME e # NoError, LastCaught(b, k + 1, e)
      PROVE  LastCaught(b, k, e)
  <2>1. PICK i \in 1 .. (k + 1) : b[i] = e /\ \A j \in (i + 1) .. (k + 1) : b[j] = NoError
    BY <1>3 DEF LastCaught
  <2>2. i \in 1 .. k /\ \A j \in (i + 1) .. k : b[j] = NoError
    BY <1>3, <2>1
  <2>. QED
    BY <1>3, <2>1, <2>2 DEF LastCaught
<1>. QED
  BY <1>1, <1>2, <1>3

LEMMA CtxAgrees ==
    ASSUME NEW f, NEW g, NEW j \in Nat \ {0}, CtxOK(f, j), g.ctx[j] = f.ctx[j],
           \A i \in 1 .. j : g.blocks[i] = f.blocks[i]
    PROVE  CtxOK(g, j)
<1>1. j - 1 \in Nat /\ j \in 1 .. j /\ \A i \in 1 .. (j - 1) : f.blocks[i] = g.blocks[i]
  OBVIOUS
<1>2. LastTry(g.blocks, j - 1, f.ctx[j].handler)
  BY <1>1, LastTryAgrees DEF CtxOK
<1>3. LastCaught(g.blocks, j - 1, f.ctx[j].saved)
  BY <1>1, LastCaughtAgrees DEF CtxOK
<1>. QED
  BY <1>1, <1>2, <1>3 DEF CtxOK

LEMMA SaveCtxOK ==
    ASSUME NEW f \in FrameT, BlocksOK(f)
    PROVE  SaveCtx(f) \in FrameT /\ BlocksOK(SaveCtx(f))
<1> DEFINE g == SaveCtx(f)
           k == Len(f.blocks)
           c == [handler |-> f.handler, saved |-> f.cur, restored |-> FALSE]
<1>1. f.blocks \in Seq(Error) /\ f.ctx \in Seq(CtxT) /\ k \in Nat /\ Len(f.ctx) = k
      /\ c \in CtxT /\ NoError \in Error
  BY DEF FrameT, CtxT, BlocksOK, Error
<1>2. g.blocks = Append(f.blocks, NoError) /\ g.ctx = Append(f.ctx, c)
      /\ g.idx = k + 1 /\ g.handler = k + 1 /\ g.cur = f.cur
  BY <1>1 DEF SaveCtx, FrameT
<1>3. g \in FrameT
  <2>1. /\ Append(f.ctx, c) \in Seq(CtxT)
        /\ Append(f.blocks, NoError) \in Seq(Error)
        /\ Len(f.ctx) + 1 \in Nat
    BY <1>1
  <2>. HIDE DEF c
  <2>. QED
    BY <2>1, Zenon DEF SaveCtx, FrameT, c
<1>4. /\ Len(g.blocks) = k + 1 /\ Len(g.ctx) = k + 1
      /\ g.blocks[k + 1] = NoError /\ g.ctx[k + 1] = c
      /\ \A j \in 1 .. k : g.blocks[j] = f.blocks[j] /\ g.ctx[j] = f.ctx[j]
  BY <1>1, <1>2
<1> HIDE DEF g
<1>5. ASSUME NEW j \in 1 .. k
      PROVE  CtxOK(g, j)
  <2>1. j \in Nat \ {0} /\ \A i \in 1 .. j : g.blocks[i] = f.blocks[i]
    BY <1>1, <1>4
  <2>. QED
    BY <1>4, <2>1, CtxAgrees DEF BlocksOK
<1>6. LastTry(g.blocks, k, f.handler) /\ LastCaught(g.blocks, k, f.cur)
  BY <1>1, <1>4, LastTryAgrees, LastCaughtAgrees DEF BlocksOK
<1>7. LastTry(g.blocks, k + 1, k + 1)
  BY <1>1, <1>4 DEF LastTry
<1>8. LastCaught(g.blocks, k + 1, f.cur)
  BY <1>1, <1>4, <1>6, LastCaughtAtTry, Zenon
<1>9. BlocksOK(g)
  <2>1. (k + 1) - 1 = k /\ \A j \in 1 .. (k + 1) : j \in 1 .. k \/ j = k + 1
    BY <1>1
  <2>2. CtxOK(g, k + 1)
    BY <1>4, <1>6, <2>1 DEF CtxOK
  <2>3. \A j \in 1 .. (k + 1) : CtxOK(g, j)
    BY <1>5, <2>1, <2>2
  <2>. QED
    BY <1>2, <1>4, <1>7, <1>8, <2>3 DEF BlocksOK
<1>. QED
  BY <1>3, <1>9 DEF g
\* The end of a TRY block.
LEMMA RestoreFullOK ==
    ASSUME NEW f \in FrameT, BlocksOK(f), f.blocks # <<>>, Last(f.blocks) = NoError
    PROVE  RestoreFull(f) \in FrameT /\ BlocksOK(RestoreFull(f))
<1> DEFINE g == RestoreFull(f)
           k == Len(f.blocks)
<1>1. f.blocks \in Seq(Error) /\ f.ctx \in Seq(CtxT) /\ k \in Nat /\ Len(f.ctx) = k
      /\ k # 0 /\ f.blocks[k] = NoError
  BY DEF FrameT, CtxT, BlocksOK, Last
<1>2. f.handler = k /\ f.idx = k
  BY <1>1 DEF BlocksOK, LastTry
<1>3. /\ Front(f.ctx) \in Seq(CtxT) /\ Front(f.blocks) \in Seq(Error)
      /\ Len(Front(f.ctx)) = k - 1 /\ Len(Front(f.blocks)) = k - 1
      /\ \A j \in 1 .. (k - 1) : Front(f.ctx)[j] = f.ctx[j] /\ Front(f.blocks)[j] = f.blocks[j]
  BY <1>1 DEF Front
<1>4. /\ f.ctx[k] \in CtxT
      /\ LastTry(f.blocks, k - 1, f.ctx[k].handler)
      /\ \A j \in 1 .. (k - 1) : f.ctx[j].restored <=> f.blocks[j] # NoError
  BY <1>1 DEF BlocksOK, CtxOK
<1>5. NextActive(Front(f.ctx), f.idx) = IF f.ctx[k].handler = 0 THEN k ELSE f.ctx[k].handler
  <2>1. k \in Nat \ {0} /\ f.ctx[k].handler \in Nat
    BY <1>1, <1>4 DEF CtxT
  <2>2. \A j \in 1 .. (k - 1) : Front(f.ctx)[j].restored <=> f.blocks[j] # NoError
    BY <1>3, <1>4
  <2>. QED
    BY <1>2, <1>4, <2>1, <2>2, NextActiveIs
<1>6. /\ g.blocks = Front(f.blocks) /\ g.ctx = Front(f.ctx) /\ g.cur = f.cur
      /\ g.handler = f.ctx[k].handler
      /\ g.handler # 0 => g.idx = g.handler
  BY <1>2, <1>5 DEF RestoreFull, FrameT
<1>7. g \in FrameT
  <2>1. f.ctx[f.idx].handler \in Nat /\ NextActive(Front(f.ctx), f.idx) \in Nat
    BY <1>1, <1>2, <1>4, <1>5 DEF CtxT
  <2>. QED
    BY <1>3, <2>1, Zenon DEF RestoreFull, FrameT
<1>8. k - 1 \in Nat /\ (k - 1) + 1 = k
  BY <1>1
<1>9. LastCaught(f.blocks, k - 1, f.cur)
  BY <1>1, <1>8, LastCaughtAtTry DEF BlocksOK
<1> HIDE DEF g
<1>10. LastTry(g.blocks, k - 1, g.handler)
  BY <1>3, <1>4, <1>6, <1>8, LastTryAgrees
<1>11. LastCaught(g.blocks, k - 1, g.cur)
  BY <1>3, <1>6, <1>8, <1>9, LastCaughtAgrees, Zenon
<1>12. ASSUME NEW j \in 1 .. (k - 1)
       PROVE  CtxOK(g, j)
  <2>1. j \in Nat \ {0} /\ j \in 1 .. k /\ \A i \in 1 .. j : g.blocks[i] = f.blocks[i]
    BY <1>1, <1>3, <1>6
  <2>2. g.ctx[j] = f.ctx[j]
    BY <1>3, <1>6
  <2>. QED
    BY <2>1, <2>2, CtxAgrees DEF BlocksOK
<1>13. BlocksOK(g)
  BY <1>3, <1>6, <1>10, <1>11, <1>12 DEF BlocksOK
<1>. QED
  BY <1>7, <1>13 DEF g

\* The end of a CATCH block.
LEMMA RestorePartialOK ==
    ASSUME NEW f \in FrameT, BlocksOK(f), f.blocks # <<>>, Last(f.blocks) # NoError
    PROVE  RestorePartial(f) \in FrameT /\ BlocksOK(RestorePartial(f))
<1> DEFINE g == RestorePartial(f)
           k == Len(f.blocks)
<1>1. f.blocks \in Seq(Error) /\ f.ctx \in Seq(CtxT) /\ k \in Nat /\ Len(f.ctx) = k
      /\ k # 0 /\ f.blocks[k] # NoError /\ Last(f.ctx) = f.ctx[k]
  BY DEF FrameT, CtxT, BlocksOK, Last
<1>2. /\ Front(f.ctx) \in Seq(CtxT) /\ Front(f.blocks) \in Seq(Error)
      /\ Len(Front(f.ctx)) = k - 1 /\ Len(Front(f.blocks)) = k - 1
      /\ \A j \in 1 .. (k - 1) : Front(f.ctx)[j] = f.ctx[j] /\ Front(f.blocks)[j] = f.blocks[j]
  BY <1>1 DEF Front
<1>3. f.ctx[k] \in CtxT /\ LastCaught(f.blocks, k - 1, f.ctx[k].saved)
  BY <1>1 DEF BlocksOK, CtxOK
<1>4. LastTry(f.blocks, k - 1, f.handler)
  BY <1>1 DEF BlocksOK, LastTry
<1>5. /\ g.blocks = Front(f.blocks) /\ g.ctx = Front(f.ctx)
      /\ g.cur = f.ctx[k].saved /\ g.handler = f.handler /\ g.idx = f.idx
  BY <1>1 DEF RestorePartial, FrameT
<1>6. g \in FrameT
  BY <1>1, <1>2, <1>3, Zenon DEF RestorePartial, FrameT, CtxT
<1> HIDE DEF g
<1>7. k - 1 \in Nat /\ \A j \in 1 .. (k - 1) : f.blocks[j] = g.blocks[j]
  BY <1>1, <1>2, <1>5
<1>8. LastTry(g.blocks, k - 1, g.handler)
  BY <1>4, <1>5, <1>7, LastTryAgrees, Zenon
<1>9. LastCaught(g.blocks, k - 1, g.cur)
  BY <1>3, <1>5, <1>7, LastCaughtAgrees, Zenon
<1>10. ASSUME NEW j \in 1 .. (k - 1)
       PROVE  CtxOK(g, j)
  <2>1. j \in Nat \ {0} /\ j \in 1 .. k /\ \A i \in 1 .. j : g.blocks[i] = f.blocks[i]
    BY <1>1, <1>2, <1>5
  <2>2. g.ctx[j] = f.ctx[j]
    BY <1>2, <1>5
  <2>. QED
    BY <2>1, <2>2, CtxAgrees DEF BlocksOK
<1>11. BlocksOK(g)
  BY <1>2, <1>5, <1>8, <1>9, <1>10 DEF BlocksOK
<1>. QED
  BY <1>6, <1>11 DEF g

\* An error that lands at the innermost TRY block of the frame.
LEMMA LandedOK ==
    ASSUME NEW f \in FrameT, BlocksOK(f), f.handler # 0, NEW e \in Error, e # NoError
    PROVE  Landed(f, e) \in FrameT /\ BlocksOK(Landed(f, e))
<1> DEFINE g == Landed(f, e)
           k == f.handler
           kept == SubSeq(f.ctx, 1, k)
           left == [kept EXCEPT ![k].restored = TRUE]
           b == Append(SubSeq(f.blocks, 1, k - 1), e)
<1>1. /\ f.blocks \in Seq(Error) /\ f.ctx \in Seq(CtxT) /\ Len(f.blocks) \in Nat
      /\ Len(f.ctx) = Len(f.blocks) /\ k \in 1 .. Len(f.blocks)
      /\ f.idx = k /\ InnermostTry(f) = k
  BY LastTryIsInnermost DEF FrameT, BlocksOK, LastTry
<1>2. /\ kept \in Seq(CtxT) /\ Len(kept) = k /\ \A j \in 1 .. k : kept[j] = f.ctx[j]
  BY <1>1
<1>3. f.ctx[k] \in CtxT /\ LastTry(f.blocks, k - 1, f.ctx[k].handler) /\ CtxOK(f, k)
  BY <1>1 DEF BlocksOK, CtxOK
<1>4. /\ left \in Seq(CtxT) /\ Len(left) = k /\ left[k].restored = TRUE
      /\ left[k].handler = f.ctx[k].handler /\ left[k].saved = f.ctx[k].saved
      /\ \A j \in 1 .. (k - 1) : left[j] = f.ctx[j]
  <2>1. [f.ctx[k] EXCEPT !.restored = TRUE] \in CtxT
    BY <1>3, Zenon DEF CtxT
  <2>2. DOMAIN kept = 1 .. k /\ k \in DOMAIN kept
    BY <1>1, <1>2
  <2>. HIDE DEF kept
  <2>3. left[k] = [f.ctx[k] EXCEPT !.restored = TRUE]
    BY <1>2, <2>2, Zenon
  <2>4. \A j \in 1 .. (k - 1) : left[j] = f.ctx[j]
    BY <1>1, <1>2, <2>2
  <2>5. DOMAIN left = 1 .. k /\ \A j \in 1 .. k : left[j] \in CtxT
    <3>1. \A j \in 1 .. k : j = k \/ j \in 1 .. (k - 1)
      BY <1>1
    <3>2. \A j \in 1 .. (k - 1) : f.ctx[j] \in CtxT
      BY <1>1
    <3>. QED
      BY <2>1, <2>2, <2>3, <2>4, <3>1, <3>2, Zenon
  <2>. HIDE DEF left
  <2>6. left \in Seq(CtxT) /\ Len(left) = k
    <3>1. left = [j \in 1 .. k |-> left[j]]
      BY <2>2, <2>5, Zenon DEF left
    <3>2. k \in Nat
      BY <1>1
    <3>. QED
      BY <2>5, <3>1, <3>2
  <2>. QED
    BY <1>3, <2>3, <2>4, <2>6 DEF CtxT
<1>5. /\ b \in Seq(Error) /\ Len(b) = k /\ b[k] = e
      /\ \A j \in 1 .. (k - 1) : b[j] = f.blocks[j]
  BY <1>1
<1>6. NextActive(left, k) = IF f.ctx[k].handler = 0 THEN k ELSE f.ctx[k].handler
  <2>1. k \in Nat \ {0} /\ \A j \in 1 .. (k - 1) : left[j].restored <=> f.blocks[j] # NoError
    BY <1>1, <1>4 DEF BlocksOK, CtxOK
  <2>. HIDE DEF left
  <2>. QED
    BY <1>3, <2>1, NextActiveIs
<1>. HIDE DEF left, b
<1>7. /\ g = [f EXCEPT !.ctx = left, !.handler = f.ctx[k].handler, !.cur = e,
                       !.idx = NextActive(left, k), !.blocks = b]
  BY <1>1 DEF Landed, left, b
<1>8. /\ g.ctx = left /\ g.blocks = b /\ g.handler = f.ctx[k].handler
      /\ g.idx = NextActive(left, k) /\ g.cur = e
  BY <1>7 DEF FrameT
<1>9. f.ctx[k].handler \in Nat /\ NextActive(left, k) \in Nat
  BY <1>1, <1>3, <1>6 DEF CtxT
<1>10. g \in FrameT
  BY <1>4, <1>5, <1>7, <1>9, Zenon DEF FrameT
<1> HIDE DEF g
<1>11. LastTry(b, k, g.handler)
  <2>1. LastTry(b, k - 1, g.handler)
    <3>1. k - 1 \in Nat /\ \A j \in 1 .. (k - 1) : f.blocks[j] = b[j]
      BY <1>1, <1>5
    <3>. QED
      BY <1>3, <1>8, <3>1, LastTryAgrees
  <2>. QED
    BY <1>1, <1>5, <2>1 DEF LastTry
<1>12. LastCaught(b, k, e)
  BY <1>1, <1>5 DEF LastCaught
<1>13. ASSUME NEW j \in 1 .. (k - 1)
       PROVE  CtxOK(g, j)
  <2>1. j \in Nat \ {0} /\ j \in 1 .. Len(f.blocks)
        /\ \A i \in 1 .. j : g.blocks[i] = f.blocks[i]
    BY <1>1, <1>5, <1>8
  <2>2. g.ctx[j] = f.ctx[j]
    BY <1>4, <1>8
  <2>. QED
    BY <2>1, <2>2, CtxAgrees DEF BlocksOK
<1>14. CtxOK(g, k)
  <2>1. k - 1 \in Nat /\ \A j \in 1 .. (k - 1) : f.blocks[j] = b[j]
    BY <1>1, <1>5
  <2>2. LastTry(b, k - 1, f.ctx[k].handler)
    BY <1>3, <2>1, LastTryAgrees, Zenon
  <2>3. LastCaught(b, k - 1, f.ctx[k].saved)
    BY <1>3, <2>1, LastCaughtAgrees DEF CtxOK
  <2>. QED
    BY <1>4, <1>5, <1>8, <2>2, <2>3 DEF CtxOK
<1>15. \A j \in 1 .. k : CtxOK(g, j)
  <2>1. \A j \in 1 .. k : j \in 1 .. (k - 1) \/ j = k
    BY <1>1
  <2>. QED
    BY <1>13, <1>14, <2>1
<1>16. BlocksOK(g)
  BY <1>4, <1>5, <1>6, <1>8, <1>11, <1>12, <1>15 DEF BlocksOK
<1>. QED
  BY <1>10, <1>16 DEF g
-----------------------------------------------------------------------------
(* The operators on transactions and on the stack of frames.               *)

\* A set of positions has a last one.
LEMMA LargestExists ==
    ASSUME NEW k \in Nat, NEW T \in SUBSET (1 .. k), T # {}
    PROVE  \E x \in T : \A y \in T : y <= x
<1> DEFINE R == {p \in Nat \X Nat : p[1] < p[2]}
           U == {k - x : x \in T}
<1>1. U \subseteq Nat /\ U # {}
  <2>1. PICK x \in T : TRUE
    OBVIOUS
  <2>2. k - x \in U
    BY <2>1
  <2>3. \A y \in T : k - y \in Nat
    OBVIOUS
  <2>. QED
    BY <2>2, <2>3
<1>2. IsWellFoundedOn(R, Nat)
  BY NatLessThanWellFounded, Zenon DEF OpToRel
<1>. HIDE DEF R
<1>3. PICK u \in U : \A v \in U : ~(<<v, u>> \in R)
  BY <1>1, <1>2, WFMin, Zenon
<1>4. PICK x \in T : u = k - x
  BY <1>3
<1>5. ASSUME NEW y \in T
      PROVE  y <= x
  <2>1. k - y \in U /\ k - y \in Nat /\ u \in Nat
    BY <1>1, <1>3
  <2>2. ~(k - y < u)
    BY <1>3, <2>1, Zenon DEF R
  <2>. QED
    BY <1>4, <2>1, <2>2
<1>. QED
  BY <1>5

\* The user's savepoint is found if there is one.
LEMMA UserLevelFacts ==
    ASSUME NEW t \in TranT
    PROVE  /\ UserLevel(t) \in 0 .. Len(t.levels)
           /\ UserLevel(t) # 0 => t.levels[UserLevel(t)] = "user"
<1> DEFINE user == {i \in DOMAIN t.levels : t.levels[i] = "user"}
           last == CHOOSE i \in user : \A j \in user : j <= i
<1>1. t.levels \in Seq({"internal", "user"}) /\ Len(t.levels) \in Nat
      /\ DOMAIN t.levels = 1 .. Len(t.levels)
  BY DEF TranT
<1>2. CASE user = {}
  BY <1>1, <1>2 DEF UserLevel
<1>3. CASE user # {}
  <2>1. \E i \in user : \A j \in user : j <= i
    BY <1>1, <1>3, LargestExists, Zenon
  <2>2. last \in user
    BY <2>1
  <2>3. UserLevel(t) = last
    BY <1>3 DEF UserLevel
  <2>. QED
    BY <1>1, <2>2, <2>3
<1>. QED
  BY <1>2, <1>3

LEMMA TranTypes ==
    ASSUME NEW t \in TranT
    PROVE  /\ StartTran(t) \in TranT
           /\ CommitTran(t) \in TranT
           /\ RollbackTran(t) \in TranT
           /\ AbortAuto(t) \in TranT
           /\ PushLevel(t, "internal") \in TranT
           /\ PushLevel(t, "user") \in TranT
<1>1. NoTran \in TranT
  BY DEF NoTran, TranT
<1>2. EndTran(t, "commit") \in TranT /\ EndTran(t, "rollback") \in TranT
  BY <1>1 DEF EndTran, TranT
<1>3. StartTran(t) \in TranT
  <2>1. t.count + 1 \in Nat
    BY DEF TranT
  <2>. QED
    BY <2>1, Zenon DEF StartTran, TranT
<1>4. CommitTran(t) \in TranT
  <2>1. CASE t.count <= 1
    BY <1>2, <2>1 DEF CommitTran
  <2>2. CASE ~(t.count <= 1)
    <3>1. t.count \in Nat /\ t.count - 1 \in Nat
      BY <2>2 DEF TranT
    <3>. QED
      BY <2>2, <3>1 DEF CommitTran, TranT
  <2>. QED
    BY <2>1, <2>2
<1>5. RollbackTran(t) \in TranT
  BY <1>2 DEF RollbackTran
<1>6. AbortAuto(t) \in TranT
  BY Zenon DEF AbortAuto, TranT
<1>7. PushLevel(t, "internal") \in TranT /\ PushLevel(t, "user") \in TranT
  <2>1. /\ Append(t.levels, "internal") \in Seq({"internal", "user"})
        /\ Append(t.levels, "user") \in Seq({"internal", "user"})
    BY DEF TranT
  <2>. QED
    BY <2>1, Zenon DEF PushLevel, TranT
<1>. QED
  BY <1>3, <1>4, <1>5, <1>6, <1>7

LEMMA LevelTypes ==
    ASSUME NEW t \in TranT, NEW k \in Nat
    PROVE  /\ k <= Len(t.levels) => RollbackTo(t, k) \in TranT
           /\ Len(t.levels) > 0 => Release(t) \in TranT
<1>1. t.levels \in Seq({"internal", "user"}) /\ Len(t.levels) \in Nat
      /\ t.taint \in SUBSET Nat
  BY DEF TranT
<1>2. ASSUME k <= Len(t.levels)
      PROVE  RollbackTo(t, k) \in TranT
  <2>1. SubSeq(t.levels, 1, k) \in Seq({"internal", "user"})
    BY <1>1, <1>2
  <2>2. t.taint \cap (0 .. k) \in SUBSET Nat
    BY <1>1
  <2>. QED
    BY <2>1, <2>2, Zenon DEF RollbackTo, TranT
<1>3. ASSUME Len(t.levels) > 0
      PROVE  Release(t) \in TranT
  <2>1. Front(t.levels) \in Seq({"internal", "user"})
    BY <1>1, <1>3 DEF Front
  <2>2. (t.taint \ {Len(t.levels)})
          \cup (IF Len(t.levels) \in t.taint THEN {Len(t.levels) - 1} ELSE {}) \in SUBSET Nat
    BY <1>1, <1>3
  <2>. QED
    BY <2>1, <2>2, Zenon DEF Release, TranT
<1>. QED
  BY <1>2, <1>3

LEMMA TopFacts ==
    ASSUME Types, n > 0
    PROVE  /\ n \in Nat \ {0} /\ DOMAIN frames = 1 .. n /\ n \in DOMAIN frames
           /\ frames # <<>> /\ Top \in FrameT
           /\ \A i \in 1 .. n : frames[i] \in FrameT
BY DEF Types, n, Top

LEMMA SetTopFacts ==
    ASSUME Types, n > 0, NEW f \in FrameT
    PROVE  /\ SetTop(f) \in Seq(FrameT) /\ Len(SetTop(f)) = n
           /\ DOMAIN SetTop(f) = 1 .. n
           /\ SetTop(f)[n] = f
           /\ \A i \in 1 .. (n - 1) : SetTop(f)[i] = frames[i]
BY DEF Types, n, SetTop

LEMMA LiveFacts ==
    ASSUME NEW fs \in Seq(FrameT), NEW t \in TranT
    PROVE  /\ Live(fs, t) \in Seq(FrameT) /\ Len(Live(fs, t)) = Len(fs)
           /\ DOMAIN Live(fs, t) = 1 .. Len(fs)
           /\ \A i \in 1 .. Len(fs) :
                 Live(fs, t)[i] = [fs[i] EXCEPT !.sp = IF @ > Len(t.levels) THEN 0 ELSE @]
<1>1. Len(fs) \in Nat /\ DOMAIN fs = 1 .. Len(fs) /\ \A i \in 1 .. Len(fs) : fs[i] \in FrameT
  OBVIOUS
<1>2. ASSUME NEW i \in 1 .. Len(fs)
      PROVE  [fs[i] EXCEPT !.sp = IF @ > Len(t.levels) THEN 0 ELSE @] \in FrameT
  BY <1>1, Zenon DEF FrameT
<1>. QED
  BY <1>1, <1>2 DEF Live

LEMMA CallerFacts ==
    ASSUME Types, n > 1, NEW d \in DataT
    PROVE  /\ Caller(d) \in Seq(FrameT) /\ Len(Caller(d)) = n - 1
           /\ DOMAIN Caller(d) = 1 .. (n - 1)
           /\ Caller(d)[n - 1] = [frames[n - 1] EXCEPT !.data = d,
                                     !.at = IF Top.kind = "func" THEN @ ELSE "called"]
           /\ \A i \in 1 .. (n - 2) : Caller(d)[i] = frames[i]
<1> DEFINE g == [frames[n - 1] EXCEPT !.data = d,
                    !.at = IF Top.kind = "func" THEN @ ELSE "called"]
<1>1. n \in Nat /\ n - 1 \in 1 .. n /\ frames \in Seq(FrameT) /\ Len(frames) = n
  BY DEF Types, n
<1>2. frames[n - 1] \in FrameT
  BY <1>1
<1>3. g \in FrameT
  BY <1>2, Zenon DEF FrameT
<1>4. SubSeq(frames, 1, n - 2) \in Seq(FrameT) /\ Len(SubSeq(frames, 1, n - 2)) = n - 2
      /\ \A i \in 1 .. (n - 2) : SubSeq(frames, 1, n - 2)[i] = frames[i]
  BY <1>1
<1>5. Caller(d) = Append(SubSeq(frames, 1, n - 2), g)
  BY DEF Caller
<1>. HIDE DEF g
<1>6. Caller(d) \in Seq(FrameT) /\ Len(Caller(d)) = n - 1
      /\ Caller(d)[n - 1] = g
      /\ \A i \in 1 .. (n - 2) : Caller(d)[i] = frames[i]
  BY <1>1, <1>3, <1>4, <1>5
<1>. QED
  BY <1>1, <1>6 DEF g
-----------------------------------------------------------------------------
(* Every action keeps BlocksInv.                                           *)

\* g has the blocks of f, and its statement unless that has ended.
SameBlocks(f, g) == /\ g.ctx = f.ctx /\ g.idx = f.idx /\ g.handler = f.handler
                    /\ g.cur = f.cur /\ g.blocks = f.blocks
                    /\ g.stmt \in {f.stmt, "none"}

LEMMA SameBlocksOK ==
    ASSUME NEW f, NEW g, SameBlocks(f, g), BlocksOK(f), RethrowOK(f)
    PROVE  BlocksOK(g) /\ RethrowOK(g)
<1>1. \A j : CtxOK(f, j) => CtxOK(g, j)
  BY DEF SameBlocks, CtxOK
<1>2. BlocksOK(g)
  BY <1>1 DEF SameBlocks, BlocksOK
<1>3. RethrowOK(g)
  BY DEF SameBlocks, RethrowOK
<1>. QED
  BY <1>2, <1>3

\* A step that changes the innermost frame, and may take savepoints away.
LEMMA TopChanges ==
    ASSUME Types, Blocks, n > 0, NEW f \in FrameT, BlocksOK(f), RethrowOK(f),
           NEW t \in TranT, frames' = SetTop(f) \/ frames' = Live(SetTop(f), t)
    PROVE  frames' \in Seq(FrameT) /\ Len(frames') = n /\ frames' # <<>> /\ Blocks'
<1> DEFINE fs == SetTop(f)
<1>1. /\ fs \in Seq(FrameT) /\ Len(fs) = n /\ DOMAIN fs = 1 .. n /\ fs[n] = f
      /\ \A i \in 1 .. (n - 1) : fs[i] = frames[i]
  BY SetTopFacts
<1>2. n \in Nat \ {0} /\ DOMAIN frames = 1 .. n
  BY TopFacts
<1>. HIDE DEF fs
<1>3. ASSUME NEW i \in 1 .. n
      PROVE  BlocksOK(fs[i]) /\ RethrowOK(fs[i])
  <2>1. CASE i = n
    BY <1>1, <2>1
  <2>2. CASE i # n
    <3>1. i \in 1 .. (n - 1) /\ i \in DOMAIN frames
      BY <1>2, <2>2
    <3>. QED
      BY <1>1, <3>1 DEF Blocks
  <2>. QED
    BY <2>1, <2>2
<1>4. CASE frames' = fs
  BY <1>1, <1>2, <1>3, <1>4 DEF Blocks
<1>5. CASE frames' = Live(fs, t)
  <2>1. /\ frames' \in Seq(FrameT) /\ Len(frames') = n /\ DOMAIN frames' = 1 .. n
        /\ \A i \in 1 .. n : frames'[i] = [fs[i] EXCEPT !.sp = IF @ > Len(t.levels) THEN 0 ELSE @]
    BY <1>1, <1>5, LiveFacts
  <2>2. ASSUME NEW i \in 1 .. n
        PROVE  BlocksOK(frames'[i]) /\ RethrowOK(frames'[i])
    <3>1. fs[i] \in FrameT
      BY <1>1
    <3>2. SameBlocks(fs[i], frames'[i])
      BY <2>1, <3>1, Zenon DEF SameBlocks, FrameT
    <3>. QED
      BY <1>3, <3>2, SameBlocksOK
  <2>. QED
    BY <1>2, <2>1, <2>2 DEF Blocks
<1>. QED
  BY <1>4, <1>5 DEF fs

LEMMA ResetOK ==
    ASSUME NEW f \in FrameT
    PROVE  /\ Reset(f) \in FrameT
           /\ SameBlocks(f, Reset(f))
           /\ Reset(f).data \in DataT
           /\ \A g : g = Reset(f) => g.kind = f.kind /\ g.sp = f.sp /\ g.started = f.started
                       /\ g.at = f.at /\ g.stmt = f.stmt
<1>1. [NoData EXCEPT !.trig = f.kind = "trigger" /\ f.data.trig] \in DataT
  BY Zenon DEF NoData, DataT, FrameT
<1>. QED
  BY <1>1 DEF Reset, FrameT, SameBlocks

LEMMA BlocksInit == ASSUME Init PROVE BlocksInv
<1>1. Types
  BY DEF Init, Types, NoTran, TranT, Calm, NoError, Error
<1>2. Shape /\ Blocks
  BY DEF Init, Shape, Blocks, Calm
<1>. QED
  BY <1>1, <1>2 DEF BlocksInv

LEMMA NewFrameOK ==
    ASSUME NEW k \in FrameKinds
    PROVE  Frame(k) \in FrameT /\ BlocksOK(Frame(k)) /\ RethrowOK(Frame(k))
<1>1. Frame(k) \in FrameT
  BY DEF Frame, FrameT, NoData, DataT, Error
<1>2. BlocksOK(Frame(k)) /\ RethrowOK(Frame(k))
  BY DEF Frame, BlocksOK, RethrowOK, LastTry, LastCaught
<1>. QED
  BY <1>1, <1>2

LEMMA StartBatchBlocks == ASSUME BlocksInv, StartBatch PROVE BlocksInv'
<1>1. Frame("batch") \in FrameT /\ BlocksOK(Frame("batch")) /\ RethrowOK(Frame("batch"))
  BY NewFrameOK DEF FrameKinds
<1>2. frames' = <<Frame("batch")>> /\ UNCHANGED <<opts, err, tran>> /\ req' = "running" /\ req = "idle"
  BY DEF StartBatch
<1>3. frames' \in Seq(FrameT) /\ DOMAIN frames' = {1} /\ frames'[1] = Frame("batch")
  BY <1>1, <1>2
<1>4. Types'
  BY <1>2, <1>3 DEF BlocksInv, Types
<1>5. Shape'
  BY <1>2 DEF BlocksInv, Shape, Calm
<1>6. Blocks'
  BY <1>1, <1>3 DEF Blocks
<1>. QED
  BY <1>4, <1>5, <1>6 DEF BlocksInv

\* In a step of the innermost frame only the frames, the transaction and the
\* error in flight change.
LEMMA RunningShape ==
    ASSUME Types, Shape, n > 0, frames' # <<>>, req' = req,
           \/ err' = Calm
           \/ err'.at \in {"raised", "thrown"} /\ err'.e # NoError
    PROVE  Shape'
BY DEF Types, Shape, Calm, n

LEMMA TopStep ==
    ASSUME BlocksInv, n > 0, NEW f \in FrameT, BlocksOK(f), RethrowOK(f),
           NEW t \in TranT, frames' = SetTop(f) \/ frames' = Live(SetTop(f), t),
           tran' \in TranT, opts' = opts, req' = req,
           \/ err' = Calm
           \/ err' \in [at : {"raised", "thrown"}, e : Error \ {NoError}]
    PROVE  BlocksInv'
<1>1. frames' \in Seq(FrameT) /\ frames' # <<>> /\ Blocks'
  BY TopChanges DEF BlocksInv
<1>2. Shape'
  BY <1>1, RunningShape DEF BlocksInv
<1>3. Types'
  BY <1>1 DEF BlocksInv, Types, Calm, Error
<1>. QED
  BY <1>1, <1>2, <1>3 DEF BlocksInv

LEMMA TopIsOK ==
    ASSUME BlocksInv, n > 0
    PROVE  Top \in FrameT /\ BlocksOK(Top) /\ RethrowOK(Top) /\ n \in Nat \ {0}
BY TopFacts DEF BlocksInv, Blocks, Top

LEMMA EnterTryBlocks == ASSUME BlocksInv, EnterTry PROVE BlocksInv'
<1> DEFINE r == Reset(Top)
<1>1. n > 0 /\ err = Calm /\ Top.stmt = "none"
      /\ frames' = SetTop(SaveCtx(r)) /\ UNCHANGED <<opts, err, tran, req>>
  BY DEF EnterTry, Ready
<1>2. r \in FrameT /\ BlocksOK(r) /\ RethrowOK(r) /\ r.stmt = "none"
  BY <1>1, TopIsOK, ResetOK, SameBlocksOK DEF SameBlocks
<1>. HIDE DEF r
<1>3. SaveCtx(r) \in FrameT /\ BlocksOK(SaveCtx(r))
  BY <1>2, SaveCtxOK
<1>4. RethrowOK(SaveCtx(r))
  BY <1>2 DEF RethrowOK, SaveCtx, FrameT
<1>. QED
  BY <1>1, <1>3, <1>4, TopStep DEF BlocksInv, Types

LEMMA EndTryBlocks == ASSUME BlocksInv, EndTry PROVE BlocksInv'
<1> DEFINE r == Reset(Top)
<1>1. n > 0 /\ err = Calm /\ Top.stmt = "none"
      /\ Top.blocks # <<>> /\ Last(Top.blocks) = NoError
      /\ frames' = SetTop(RestoreFull(r)) /\ UNCHANGED <<opts, err, tran, req>>
  BY DEF EndTry, Ready
<1>2. r \in FrameT /\ BlocksOK(r) /\ RethrowOK(r) /\ r.stmt = "none" /\ r.blocks = Top.blocks
  BY <1>1, TopIsOK, ResetOK, SameBlocksOK DEF SameBlocks
<1>. HIDE DEF r
<1>3. RestoreFull(r) \in FrameT /\ BlocksOK(RestoreFull(r))
  BY <1>1, <1>2, RestoreFullOK
<1>4. RethrowOK(RestoreFull(r))
  BY <1>2 DEF RethrowOK, RestoreFull, FrameT
<1>. QED
  BY <1>1, <1>3, <1>4, TopStep DEF BlocksInv, Types

LEMMA EndCatchBlocks == ASSUME BlocksInv, EndCatch PROVE BlocksInv'
<1> DEFINE r == Reset(Top)
<1>1. n > 0 /\ err = Calm /\ Top.stmt = "none"
      /\ Top.blocks # <<>> /\ Last(Top.blocks) # NoError
      /\ frames' = SetTop(RestorePartial(r)) /\ UNCHANGED <<opts, err, tran, req>>
  BY DEF EndCatch, Ready
<1>2. r \in FrameT /\ BlocksOK(r) /\ RethrowOK(r) /\ r.stmt = "none" /\ r.blocks = Top.blocks
  BY <1>1, TopIsOK, ResetOK, SameBlocksOK DEF SameBlocks
<1>. HIDE DEF r
<1>3. RestorePartial(r) \in FrameT /\ BlocksOK(RestorePartial(r))
  BY <1>1, <1>2, RestorePartialOK
<1>4. RethrowOK(RestorePartial(r))
  BY <1>2 DEF RethrowOK, RestorePartial, FrameT
<1>. QED
  BY <1>1, <1>3, <1>4, TopStep DEF BlocksInv, Types

LEMMA BeginStmtBlocks ==
    ASSUME BlocksInv, NEW k \in opts.kinds, BeginStmt(k)
    PROVE  BlocksInv'
<1> DEFINE implicit == opts.implicit /\ ~tran.block /\ k \in ExecSql
           t == IF implicit THEN StartTran(tran) ELSE tran
           sp == Top.kind # "func" /\ k # "exec" /\ t.block
           r == Reset(Top)
           f == [r EXCEPT
                !.stmt = k, !.at = IF k \in ExecSql THEN "prepare" ELSE "execute",
                !.rows = FALSE, !.before = tran.count, !.started = FALSE,
                !.sp = IF sp THEN Len(tran'.levels) ELSE 0,
                !.impl = IF implicit THEN "start" ELSE "off"]
<1>1. /\ n > 0 /\ err = Calm /\ Top.stmt = "none" /\ Allowed(Top, k)
      /\ tran' = IF sp THEN PushLevel(t, "internal") ELSE t
      /\ frames' = SetTop(f) /\ UNCHANGED <<opts, err, req>>
  BY DEF BeginStmt, Ready
<1>2. r \in FrameT /\ BlocksOK(r) /\ r.cur = Top.cur /\ SameBlocks(Top, r)
  BY <1>1, TopIsOK, ResetOK, SameBlocksOK DEF SameBlocks
<1>3. t \in TranT /\ tran' \in TranT
  BY <1>1, TranTypes DEF BlocksInv, Types
<1>4. k \in AllKinds
  BY OptionsAssumption DEF BlocksInv, Types, Settings
<1>5. Len(tran'.levels) \in Nat /\ tran.count \in Nat
  BY <1>3 DEF TranT, BlocksInv, Types
<1>. HIDE DEF r, sp, implicit
<1>6. f \in FrameT
  BY <1>2, <1>4, <1>5, Zenon DEF FrameT
<1>7. /\ f.ctx = r.ctx /\ f.idx = r.idx /\ f.handler = r.handler
      /\ f.cur = r.cur /\ f.blocks = r.blocks /\ f.stmt = k
  BY <1>2 DEF FrameT
<1>. HIDE DEF f
<1>8. BlocksOK(f)
  BY <1>2, <1>7 DEF BlocksOK, CtxOK
<1>9. RethrowOK(f)
  BY <1>1, <1>2, <1>7 DEF RethrowOK, Allowed
<1>. QED
  BY <1>1, <1>3, <1>6, <1>8, <1>9, TopStep

LEMMA PrepareBlocks == ASSUME BlocksInv, Prepare PROVE BlocksInv'
<1>1. n > 0 /\ err = Calm /\ UNCHANGED <<opts, err, tds, req>>
  BY DEF Prepare, Executing
<1>2. PICK needed \in ImplicitNeeded(Top.stmt) :
         LET drop == Top.impl = "start" /\ ~needed
             t == IF drop THEN CommitTran(tran) ELSE tran
             start == Top.stmt = "dml" /\ ~t.block
         IN  /\ Top.impl # "start" => \A b \in ImplicitNeeded(Top.stmt) : b => needed
             /\ tran' = IF start THEN StartTran(t) ELSE t
             /\ frames' = Live(SetTop([Top EXCEPT
                  !.at = "execute", !.started = start,
                  !.impl = IF @ = "start" /\ needed THEN "on" ELSE "off"]), tran')
  BY Zenon DEF Prepare
<1> DEFINE drop == Top.impl = "start" /\ ~needed
           t == IF drop THEN CommitTran(tran) ELSE tran
           start == Top.stmt = "dml" /\ ~t.block
           f == [Top EXCEPT
                  !.at = "execute", !.started = start,
                  !.impl = IF @ = "start" /\ needed THEN "on" ELSE "off"]
<1>3. t \in TranT /\ tran' \in TranT
  BY <1>2, TranTypes DEF BlocksInv, Types
<1>4. Top \in FrameT /\ BlocksOK(Top) /\ RethrowOK(Top)
  BY <1>1, TopIsOK
<1>5. start \in BOOLEAN
  OBVIOUS
<1>6. frames' = Live(SetTop(f), tran')
  BY <1>2
<1>. HIDE DEF start
<1>7. f \in FrameT /\ SameBlocks(Top, f)
  BY <1>4, <1>5, Zenon DEF FrameT, SameBlocks
<1>. HIDE DEF f
<1>. QED
  BY <1>1, <1>3, <1>4, <1>6, <1>7, SameBlocksOK, TopStep

LEMMA CallBlocks ==
    ASSUME BlocksInv, NEW kind \in opts.callees, Call(kind)
    PROVE  BlocksInv'
<1>1. kind \in FrameKinds
  BY OptionsAssumption DEF BlocksInv, Types, Settings
<1>2. kind \in {"proc", "trigger", "func"}
  BY OptionsAssumption DEF BlocksInv, Types, Settings, FrameKinds
<1>3. n > 0 /\ err = Calm
  BY <1>2, Zenon DEF Call, Executing, Past
<1>4. frames' = Append(frames, Frame(kind)) /\ UNCHANGED <<opts, err, tran, tds, req>>
  BY DEF Call
<1>5. Frame(kind) \in FrameT /\ BlocksOK(Frame(kind)) /\ RethrowOK(Frame(kind))
  BY <1>1, NewFrameOK
<1>6. n \in Nat \ {0} /\ DOMAIN frames = 1 .. n /\ frames \in Seq(FrameT) /\ Len(frames) = n
  BY <1>3, TopFacts DEF BlocksInv, Types, n
<1>7. /\ frames' \in Seq(FrameT) /\ DOMAIN frames' = 1 .. (n + 1)
      /\ frames'[n + 1] = Frame(kind) /\ \A i \in 1 .. n : frames'[i] = frames[i]
      /\ frames' # <<>>
  BY <1>4, <1>5, <1>6
<1>8. Blocks'
  <2>1. \A i \in 1 .. (n + 1) : i \in 1 .. n \/ i = n + 1
    BY <1>6
  <2>. QED
    BY <1>5, <1>6, <1>7, <2>1 DEF BlocksInv, Blocks
<1>9. Types'
  BY <1>4, <1>7 DEF BlocksInv, Types
<1>10. Shape'
  BY <1>3, <1>4, <1>7, RunningShape DEF BlocksInv
<1>. QED
  BY <1>8, <1>9, <1>10 DEF BlocksInv

LEMMA FinishBlocks ==
    ASSUME BlocksInv, n > 0, err = Calm, NEW f \in FrameT, SameBlocks(Top, f),
           NEW t \in TranT, Finish(f, t)
    PROVE  BlocksInv'
<1> DEFINE g == [f EXCEPT !.stmt = "none", !.at = "none", !.sp = 0]
<1>1. tran' \in TranT
  <2>1. CASE OwnSavepoint(f, t)
    <3>1. Len(t.levels) > 0
      BY <2>1 DEF OwnSavepoint, FrameT, TranT
    <3>2. Release(t) \in TranT
      BY <3>1, LevelTypes
    <3>. QED
      BY <2>1, <3>2 DEF Finish
  <2>2. CASE ~OwnSavepoint(f, t)
    BY <2>2 DEF Finish
  <2>. QED
    BY <2>1, <2>2
<1>2. g \in FrameT /\ SameBlocks(Top, g)
  BY Zenon DEF FrameT, SameBlocks
<1>3. frames' = Live(SetTop(g), tran') /\ UNCHANGED <<opts, err, req>>
  BY DEF Finish
<1>4. BlocksOK(g) /\ RethrowOK(g)
  BY <1>2, TopIsOK, SameBlocksOK
<1>. HIDE DEF g
<1>. QED
  BY <1>1, <1>2, <1>3, <1>4, TopStep

LEMMA CompleteBlocks ==
    ASSUME BlocksInv, CompleteSql \/ CompleteExec \/ CompleteTran
    PROVE  BlocksInv'
<1>1. n > 0 /\ err = Calm
  BY DEF CompleteSql, CompleteExec, CompleteTran, Past, Executing
<1>2. Top \in FrameT /\ SameBlocks(Top, Top) /\ tran \in TranT
  BY <1>1, TopIsOK DEF SameBlocks, BlocksInv, Types
<1>3. CASE CompleteSql
  <2>1. PICK rows \in BOOLEAN :
         Finish([Top EXCEPT !.rows = rows],
                IF Top.started THEN CommitTran(tran) ELSE tran)
    BY <1>3 DEF CompleteSql
  <2>2. [Top EXCEPT !.rows = rows] \in FrameT /\ SameBlocks(Top, [Top EXCEPT !.rows = rows])
    BY <1>2 DEF FrameT, SameBlocks
  <2>3. (IF Top.started THEN CommitTran(tran) ELSE tran) \in TranT
    BY <1>2, TranTypes
  <2>. QED
    BY <1>1, <2>1, <2>2, <2>3, FinishBlocks
<1>4. CASE CompleteExec
  BY <1>1, <1>2, <1>4, FinishBlocks DEF CompleteExec
<1>5. CASE CompleteTran
  <2>1. Top.stmt \in TranCmds /\ TranError(Top.stmt, tran) = "none"
        /\ Finish(Top, TranEffect(Top.stmt, tran))
    BY <1>5 DEF CompleteTran
  <2>2. TranEffect(Top.stmt, tran) \in TranT
    <3>1. CASE Top.stmt \in {"begin", "commit", "rollback", "save"}
      BY <1>2, <3>1, TranTypes DEF TranEffect
    <3>2. CASE Top.stmt = "rollbackto"
      <4>1. UserLevel(tran) # 0
        BY <2>1, <3>2 DEF TranError
      <4>2. UserLevel(tran) - 1 \in Nat /\ UserLevel(tran) - 1 <= Len(tran.levels)
        BY <1>2, <4>1, UserLevelFacts DEF TranT
      <4>3. RollbackTo(tran, UserLevel(tran) - 1) \in TranT
        BY <1>2, <4>2, LevelTypes
      <4>. QED
        BY <3>2, <4>3 DEF TranEffect
    <3>. QED
      BY <2>1, <3>1, <3>2 DEF TranCmds
  <2>. QED
    BY <1>1, <1>2, <2>1, <2>2, FinishBlocks
<1>. QED
  BY <1>3, <1>4, <1>5

LEMMA FailBlocks ==
    ASSUME BlocksInv, n > 0, NEW f \in FrameT, SameBlocks(Top, f),
           NEW e \in Error, e # NoError, Fail(f, e)
    PROVE  BlocksInv'
<1>1. tran' \in TranT
  <2>1. Len(tran.levels) \in Nat /\ tran.taint \in SUBSET Nat
    BY DEF BlocksInv, Types, TranT
  <2>2. (IF f.stmt = "dml" /\ tran.block
         THEN tran.taint \cup {Len(tran.levels)} ELSE tran.taint) \in SUBSET Nat
    BY <2>1
  <2>. QED
    BY <2>2 DEF Fail, BlocksInv, Types, TranT
<1>2. BlocksOK(f) /\ RethrowOK(f)
  BY TopIsOK, SameBlocksOK
<1>3. frames' = SetTop(f) /\ UNCHANGED <<opts, req>> /\ err' = [at |-> "raised", e |-> e]
  BY DEF Fail
<1>4. err' \in [at : {"raised", "thrown"}, e : Error \ {NoError}]
  BY <1>3
<1>. QED
  BY <1>1, <1>2, <1>3, <1>4, TopStep

LEMMA FreshIsError ==
    ASSUME ErrorIds \ InUse # {}, NEW c \in AllClasses
    PROVE  [id |-> Fresh, class |-> c] \in Error \ {NoError}
<1>1. Fresh \in ErrorIds
  BY DEF Fresh
<1>2. Fresh # 0
  BY <1>1, BoundsAssumption
<1>. QED
  BY <1>1, <1>2 DEF Error, NoError

LEMMA TranErrorClass ==
    ASSUME NEW k, NEW t, TranError(k, t) # "none"
    PROVE  TranError(k, t) \in {"batch", "txn", "statement"}
BY DEF TranError

LEMMA RaiseBlocks ==
    ASSUME BlocksInv, RaiseSql \/ RaiseTran \/ RaiseMismatch \/ RaiseUser \/ Rethrow
    PROVE  BlocksInv'
<1>1. n > 0
  BY DEF RaiseSql, RaiseTran, RaiseMismatch, RaiseUser, Rethrow, Past, Executing
<1>2. Top \in FrameT /\ SameBlocks(Top, Top) /\ RethrowOK(Top)
  BY <1>1, TopIsOK DEF SameBlocks
<1>3. ASSUME NEW f \in FrameT, SameBlocks(Top, f), NEW c \in AllClasses, Raise(f, c)
      PROVE  BlocksInv'
  BY <1>1, <1>3, FreshIsError, FailBlocks DEF Raise
<1>4. CASE RaiseSql
  <2>1. PICK c \in opts.classes, late \in BOOLEAN :
         /\ Top.at = "called" => c \in Unmapped
         /\ late => opts.late /\ Top.stmt = "select" /\ Top.at = "execute"
         /\ Raise([Top EXCEPT !.rows = late], c)
    BY <1>4 DEF RaiseSql
  <2>2. c \in AllClasses
    BY OptionsAssumption DEF BlocksInv, Types, Settings
  <2>3. [Top EXCEPT !.rows = late] \in FrameT /\ SameBlocks(Top, [Top EXCEPT !.rows = late])
    BY <1>2 DEF FrameT, SameBlocks
  <2>. QED
    BY <1>3, <2>1, <2>2, <2>3
<1>5. CASE RaiseTran
  <2>1. TranError(Top.stmt, tran) \in AllClasses /\ Raise(Top, TranError(Top.stmt, tran))
    BY <1>5, TranErrorClass DEF RaiseTran, AllClasses
  <2>. QED
    BY <1>2, <1>3, <2>1
<1>6. CASE RaiseMismatch
  <2>1. "trancount" \in AllClasses /\ Raise(Top, "trancount")
    BY <1>6 DEF RaiseMismatch, AllClasses
  <2>. QED
    BY <1>2, <1>3, <2>1
<1>7. CASE RaiseUser
  <2>1. PICK c \in AllClasses : Raise(Top, c)
    BY <1>7 DEF RaiseUser, AllClasses
  <2>. QED
    BY <1>2, <1>3, <2>1
<1>8. CASE Rethrow
  <2>1. Top.stmt = "rethrow" /\ Fail([Top EXCEPT !.data.rethrow = TRUE], Top.cur)
    BY <1>8 DEF Rethrow
  <2>2. Top.cur \in Error /\ Top.cur # NoError
    BY <1>2, <2>1 DEF RethrowOK, FrameT
  <2>3. [Top EXCEPT !.data.rethrow = TRUE] \in FrameT
        /\ SameBlocks(Top, [Top EXCEPT !.data.rethrow = TRUE])
    BY <1>2, Zenon DEF FrameT, DataT, SameBlocks
  <2>. QED
    BY <1>1, <2>1, <2>2, <2>3, FailBlocks
<1>. QED
  BY <1>4, <1>5, <1>6, <1>7, <1>8

\* The frame below goes on where the callee was called.
LEMMA CallerBlocks ==
    ASSUME BlocksInv, n > 1, NEW d \in DataT, frames' = Caller(d),
           tran' \in TranT, opts' = opts, req' = req,
           \/ err' = Calm
           \/ err' \in [at : {"raised", "thrown"}, e : Error \ {NoError}]
    PROVE  BlocksInv'
<1>1. n > 0 /\ n \in Nat /\ frames \in Seq(FrameT) /\ DOMAIN frames = 1 .. n
  BY DEF BlocksInv, Types, n
<1>2. /\ frames' \in Seq(FrameT) /\ Len(frames') = n - 1
      /\ DOMAIN frames' = 1 .. (n - 1)
      /\ frames'[n - 1] = [frames[n - 1] EXCEPT !.data = d,
                              !.at = IF Top.kind = "func" THEN @ ELSE "called"]
      /\ \A i \in 1 .. (n - 2) : frames'[i] = frames[i]
  BY CallerFacts, Zenon DEF BlocksInv
<1>3. ASSUME NEW i \in 1 .. (n - 1)
      PROVE  SameBlocks(frames[i], frames'[i])
  <2>1. frames[i] \in FrameT
    BY <1>1
  <2>2. CASE i = n - 1
    BY <1>2, <2>1, <2>2, Zenon DEF SameBlocks, FrameT
  <2>3. CASE i # n - 1
    <3>1. i \in 1 .. (n - 2)
      BY <1>1, <2>3
    <3>. QED
      BY <1>2, <3>1 DEF SameBlocks
  <2>. QED
    BY <2>2, <2>3
<1>4. Blocks'
  <2>1. \A i \in 1 .. (n - 1) : i \in DOMAIN frames
    BY <1>1
  <2>. QED
    BY <1>2, <1>3, <2>1, SameBlocksOK DEF BlocksInv, Blocks
<1>5. frames' # <<>>
  BY <1>1, <1>2
<1>6. Types'
  BY <1>2 DEF BlocksInv, Types, Calm, Error
<1>7. Shape'
  BY <1>1, <1>5, RunningShape DEF BlocksInv
<1>. QED
  BY <1>4, <1>6, <1>7 DEF BlocksInv

LEMMA LeftBehindType ==
    ASSUME BlocksInv, n > 1
    PROVE  LeftBehind(tran) \in TranT
<1> DEFINE g == frames[n - 1]
<1>1. g \in FrameT
  BY DEF BlocksInv, Types, n
<1>2. tran \in TranT /\ tran.taint \in SUBSET Nat /\ g.sp \in Nat
  BY <1>1, Zenon DEF BlocksInv, Types, TranT, FrameT
<1>3. tran.taint \cup {g.sp} \in SUBSET Nat
  BY <1>2
<1>4. [tran EXCEPT !.taint = @ \cup {g.sp}] \in TranT
  BY <1>2, <1>3 DEF TranT
<1>. QED
  BY <1>2, <1>4 DEF LeftBehind

LEMMA ReturnBlocks == ASSUME BlocksInv, Return PROVE BlocksInv'
<1>1. n > 1 /\ n > 0 /\ err = Calm /\ frames' = Caller(Reset(Top).data) /\ UNCHANGED <<opts, req>>
  BY DEF Return, Ready
<1>2. Reset(Top).data \in DataT
  BY <1>1, TopIsOK, ResetOK
<1>3. tran' \in TranT
  BY <1>1, LeftBehindType DEF Return, BlocksInv, Types
<1>4. \/ err' = Calm
      \/ err' \in [at : {"raised", "thrown"}, e : Error \ {NoError}]
  <2>1. "txn" \in AllClasses
    BY DEF AllClasses
  <2>. QED
    BY <1>1, <2>1, FreshIsError DEF Return
<1>. QED
  BY <1>1, <1>2, <1>3, <1>4, CallerBlocks

LEMMA BatchEndType ==
    ASSUME NEW t \in TranT, NEW failed \in BOOLEAN
    PROVE  BatchEnd(t, failed) \in TranT
BY TranTypes DEF BatchEnd

\* A step after which no frame is left.
LEMMA NoFrames ==
    ASSUME BlocksInv, frames' = <<>>, tran' \in TranT, opts' = opts,
           req' \in {"idle", "running", "flush"}, req' # "running" => err' = Calm,
           err' \in {Calm, [at |-> "out", e |-> NoError]}
    PROVE  BlocksInv'
<1>1. Types'
  BY DEF BlocksInv, Types, Calm, Error
<1>2. Shape'
  BY DEF Shape, Calm
<1>3. Blocks'
  BY DEF Blocks
<1>. QED
  BY <1>1, <1>2, <1>3 DEF BlocksInv

LEMMA EndOfBatchBlocks == ASSUME BlocksInv, EndOfBatch PROVE BlocksInv'
<1>1. req = "running"
  <2>1. n > 0
    BY DEF EndOfBatch, Ready
  <2>2. frames # <<>>
    BY <2>1, TopFacts DEF BlocksInv
  <2>. QED
    BY <2>2 DEF BlocksInv, Shape
<1>2. tran' \in TranT
  BY BatchEndType, Zenon DEF EndOfBatch, BlocksInv, Types
<1>. QED
  BY <1>1, <1>2, NoFrames DEF EndOfBatch

LEMMA CompileErrorBlocks == ASSUME BlocksInv, CompileError PROVE BlocksInv'
<1>1. frames' = <<>> /\ req' = "running" /\ opts' = opts /\ err' = [at |-> "out", e |-> NoError]
  BY DEF CompileError, BlocksInv, Shape
<1>2. tran' \in TranT
  <2>1. PICK doom \in BOOLEAN : tran' = BatchEnd([tran EXCEPT !.doomed = @ \/ doom], TRUE)
    BY Zenon DEF CompileError
  <2>2. [tran EXCEPT !.doomed = @ \/ doom] \in TranT
    BY DEF BlocksInv, Types, TranT
  <2>. QED
    BY <2>1, <2>2, BatchEndType, Zenon
<1>. QED
  BY <1>1, <1>2, NoFrames

LEMMA RespondBlocks == ASSUME BlocksInv, Respond \/ FlushResponse PROVE BlocksInv'
<1>1. CASE Respond
  BY <1>1, NoFrames DEF Respond, BlocksInv, Types
<1>2. CASE FlushResponse
  BY <1>2, NoFrames DEF FlushResponse, BlocksInv, Types, Shape
<1>. QED
  BY <1>1, <1>2

LEMMA CaughtInFunctionBlocks == ASSUME BlocksInv, CaughtInFunction PROVE BlocksInv'
<1>1. err.at = "raised" /\ err' = [err EXCEPT !.at = "thrown"] /\ UNCHANGED <<opts, frames, tran, req>>
  BY DEF CaughtInFunction
<1>2. err' \in [at : {"raised", "thrown"}, e : Error \ {NoError}]
  BY <1>1 DEF BlocksInv, Types, Shape
<1>3. Types'
  BY <1>1, <1>2 DEF BlocksInv, Types
<1>4. Shape'
  BY <1>1, <1>2 DEF BlocksInv, Types, Shape, Calm
<1>5. Blocks'
  BY <1>1 DEF BlocksInv, Blocks
<1>. QED
  BY <1>3, <1>4, <1>5 DEF BlocksInv

LEMMA UndoneType ==
    ASSUME NEW f \in FrameT, NEW t \in TranT
    PROVE  Undone(f, t) \in TranT /\ ImplicitUndone(f, t) \in TranT
<1>1. Undone(f, t) \in TranT
  <2>1. CASE OwnSavepoint(f, t)
    <3>1. f.sp - 1 \in Nat /\ f.sp - 1 <= Len(t.levels)
      BY <2>1 DEF OwnSavepoint, FrameT, TranT
    <3>2. RollbackTo(t, f.sp - 1) \in TranT
      BY <3>1, LevelTypes
    <3>. QED
      BY <2>1, <3>2 DEF Undone
  <2>2. CASE ~OwnSavepoint(f, t)
    BY <2>2, TranTypes DEF Undone
  <2>. QED
    BY <2>1, <2>2
<1>. QED
  BY <1>1, TranTypes DEF ImplicitUndone

LEMMA RecordedType ==
    ASSUME NEW f \in FrameT, n \in Nat, opts \in Options
    PROVE  Recorded(f) \in DataT
<1>1. f.data \in DataT
  BY DEF FrameT
<1>2. opts.xact \in BOOLEAN
  BY OptionsAssumption DEF Settings
<1>3. [f.data EXCEPT !.raiser = n, !.xact = @ \/ opts.xact,
                        !.trig = @ \/ f.kind = "trigger"] \in DataT
  BY <1>1, <1>2, Zenon DEF DataT
<1>. QED
  BY <1>1, <1>3 DEF Recorded

LEMMA CaughtBlocks == ASSUME BlocksInv, Caught PROVE BlocksInv'
<1> DEFINE c == err.e.class
           d == Recorded(Top)
           t == ImplicitUndone(Top, Undone(Top, tran))
           doom == t.block /\ (c \in Unmapped \/ AbortTransaction(d, c))
           out == c \in Unmapped \/ AbortExecution(d, c)
           term == Top.term \/ (c \in Ignorable /\ AbortCurrentBatch(d, c))
           f == [Top EXCEPT !.data = d, !.impl = "off",
                !.started = @ /\ t.block,
                !.term = @ \/ (c \in Ignorable /\ AbortCurrentBatch(d, c))]
           g == [f EXCEPT !.stmt = "none", !.at = "none", !.sp = 0]
<1>1. err.at = "raised" /\ n > 0 /\ UNCHANGED <<opts, req>>
  BY DEF Caught, BlocksInv, Types, Shape, n
<1>2. Top \in FrameT /\ BlocksOK(Top) /\ RethrowOK(Top) /\ n \in Nat
  BY <1>1, TopIsOK
<1>3. d \in DataT
  BY <1>2, RecordedType DEF BlocksInv, Types
<1>4. t \in TranT
  BY <1>2, UndoneType DEF BlocksInv, Types
<1>5. tran' \in TranT
  <2>1. tran' = [t EXCEPT !.doomed = @ \/ doom]
    BY DEF Caught
  <2>2. doom \in BOOLEAN
    OBVIOUS
  <2>. HIDE DEF t, doom
  <2>. QED
    BY <1>4, <2>1, <2>2 DEF TranT
<1>6. f \in FrameT /\ SameBlocks(Top, f)
  <2>1. (Top.started /\ t.block) \in BOOLEAN /\ (Top.term \/ (c \in Ignorable /\ AbortCurrentBatch(d, c))) \in BOOLEAN
    OBVIOUS
  <2>. HIDE DEF t, d, c
  <2>. QED
    BY <1>2, <1>3, <2>1, Zenon DEF FrameT, SameBlocks
<1>7. \/ err' = [err EXCEPT !.at = "thrown"] /\ frames' = Live(SetTop(f), t)
      \/ err' = Calm /\ frames' = Live(SetTop(g), t)
  BY DEF Caught
<1>. HIDE DEF f, t
<1>8. g \in FrameT /\ SameBlocks(Top, g)
  BY <1>6, Zenon DEF FrameT, SameBlocks
<1>. HIDE DEF g
<1>9. BlocksOK(f) /\ RethrowOK(f) /\ BlocksOK(g) /\ RethrowOK(g)
  BY <1>2, <1>6, <1>8, SameBlocksOK
<1>10. [err EXCEPT !.at = "thrown"] \in [at : {"raised", "thrown"}, e : Error \ {NoError}]
  BY <1>1 DEF BlocksInv, Types, Shape
<1>. QED
  BY <1>1, <1>4, <1>5, <1>6, <1>7, <1>8, <1>9, <1>10, TopStep

LEMMA LandBlocks == ASSUME BlocksInv, Land PROVE BlocksInv'
<1> DEFINE f == Landed(Top, err.e)
           g == [f EXCEPT !.stmt = "none", !.at = "none", !.sp = 0]
<1>1. err.at = "thrown" /\ Top.handler # 0 /\ n > 0 /\ UNCHANGED <<opts, tran, req>>
  BY DEF Land, BlocksInv, Types, Shape, n
<1>2. Top \in FrameT /\ BlocksOK(Top) /\ err.e \in Error /\ err.e # NoError /\ tran \in TranT
  BY <1>1, TopIsOK DEF BlocksInv, Types, Shape
<1>3. f \in FrameT /\ BlocksOK(f)
  BY <1>1, <1>2, LandedOK
<1>4. f.cur = err.e
  BY <1>2 DEF Landed, FrameT
<1>5. \/ err' = err /\ frames' = SetTop(f)
      \/ err' = Calm /\ frames' = SetTop(g)
  BY DEF Land
<1>. HIDE DEF f
<1>6. g \in FrameT /\ SameBlocks(f, g)
  BY <1>3, Zenon DEF FrameT, SameBlocks
<1>. HIDE DEF g
<1>7. RethrowOK(f)
  BY <1>2, <1>4 DEF RethrowOK
<1>8. BlocksOK(g) /\ RethrowOK(g)
  BY <1>3, <1>6, <1>7, SameBlocksOK
<1>9. err \in [at : {"raised", "thrown"}, e : Error \ {NoError}]
  BY <1>1 DEF BlocksInv, Types, Shape
<1>. QED
  BY <1>1, <1>2, <1>3, <1>5, <1>6, <1>7, <1>8, <1>9, TopStep

LEMMA UnwindBlocks == ASSUME BlocksInv, Unwind PROVE BlocksInv'
<1>1. err.at = "thrown" /\ n > 0 /\ UNCHANGED <<opts, req>> /\ req = "running"
  BY DEF Unwind, BlocksInv, Types, Shape, Calm, n
<1>2. CASE n = 1
  <2>1. frames' = <<>> /\ tran' = BatchEnd(tran, TRUE) /\ err' = [at |-> "out", e |-> NoError]
    BY <1>2 DEF Unwind
  <2>2. tran' \in TranT
    BY <2>1, BatchEndType, Zenon DEF BlocksInv, Types
  <2>. QED
    BY <1>1, <2>1, <2>2, NoFrames
<1>3. CASE n # 1
  <2>1. n > 1
    <3>1. n \in Nat
      BY DEF BlocksInv, Types, n
    <3>. QED
      BY <1>1, <1>3, <3>1
  <2>2. frames' = Caller(Top.data) /\ tran' = LeftBehind(tran) /\ err' = [err EXCEPT !.at = "raised"]
    BY <1>3, Zenon DEF Unwind
  <2>3. Top.data \in DataT
    BY <1>1, TopIsOK DEF FrameT
  <2>4. err' \in [at : {"raised", "thrown"}, e : Error \ {NoError}]
    BY <1>1, <2>2 DEF BlocksInv, Types, Shape
  <2>. QED
    BY <1>1, <2>1, <2>2, <2>3, <2>4, LeftBehindType, CallerBlocks
<1>. QED
  BY <1>2, <1>3

LEMMA BlocksNext == ASSUME BlocksInv, [Next]_vars PROVE BlocksInv'
<1>1. CASE UNCHANGED vars
  BY <1>1 DEF BlocksInv, vars, Types, Shape, Blocks
<1>2. CASE Next
  BY <1>2, StartBatchBlocks, CompileErrorBlocks, EnterTryBlocks, EndTryBlocks,
     EndCatchBlocks, BeginStmtBlocks, PrepareBlocks, CallBlocks, CompleteBlocks,
     RaiseBlocks, ReturnBlocks, EndOfBatchBlocks, CaughtInFunctionBlocks,
     CaughtBlocks, LandBlocks, UnwindBlocks, RespondBlocks DEF Next, Handling
<1>. QED
  BY <1>1, <1>2

LEMMA BlocksInvariance == Spec => []BlocksInv
BY BlocksInit, BlocksNext, PTL DEF Spec

-----------------------------------------------------------------------------
(* What follows for the client's program.                                  *)

LEMMA BlocksImplyHandler == ASSUME BlocksInv PROVE HandlerIsInnermostTry
<1>1. SUFFICES ASSUME NEW i \in DOMAIN frames
      PROVE  LET f == frames[i] IN
             /\ Len(f.ctx) = Len(f.blocks)
             /\ \A j \in DOMAIN f.ctx : f.ctx[j].restored <=> f.blocks[j] # NoError
             /\ f.handler = InnermostTry(f)
             /\ f.handler # 0 => f.idx = f.handler
  BY DEF HandlerIsInnermostTry
<1> DEFINE f == frames[i]
<1>2. f \in FrameT /\ BlocksOK(f)
  BY DEF BlocksInv, Types, Blocks
<1>. HIDE DEF f
<1>3. DOMAIN f.ctx = 1 .. Len(f.blocks)
  BY <1>2 DEF FrameT, BlocksOK
<1>4. f.handler = InnermostTry(f)
  BY <1>2, LastTryIsInnermost, Zenon DEF BlocksOK
<1>5. \A j \in DOMAIN f.ctx : f.ctx[j].restored <=> f.blocks[j] # NoError
  BY <1>2, <1>3 DEF BlocksOK, CtxOK
<1>. QED
  BY <1>2, <1>4, <1>5 DEF BlocksOK, f

LEMMA BlocksImplyCaught == ASSUME BlocksInv PROVE CatchSeesItsError
<1>1. SUFFICES ASSUME NEW i \in DOMAIN frames
      PROVE  LET f == frames[i]
                 caught == {j \in DOMAIN f.blocks : f.blocks[j] # NoError}
             IN  f.cur = IF caught = {} THEN NoError ELSE f.blocks[Max(caught)]
  BY DEF CatchSeesItsError
<1> DEFINE f == frames[i]
           caught == {j \in DOMAIN f.blocks : f.blocks[j] # NoError}
<1>2. f \in FrameT /\ BlocksOK(f)
  BY DEF BlocksInv, Types, Blocks
<1>. HIDE DEF f
<1>3. DOMAIN f.blocks = 1 .. Len(f.blocks) /\ Len(f.blocks) \in Nat
      /\ LastCaught(f.blocks, Len(f.blocks), f.cur)
  BY <1>2 DEF FrameT, BlocksOK
<1>4. CASE f.cur = NoError
  <2>1. caught = {}
    BY <1>3, <1>4 DEF LastCaught
  <2>. QED
    BY <1>4, <2>1 DEF f
<1>5. CASE f.cur # NoError
  <2>1. PICK c \in 1 .. Len(f.blocks) :
           f.blocks[c] = f.cur /\ \A j \in (c + 1) .. Len(f.blocks) : f.blocks[j] = NoError
    BY <1>3, <1>5 DEF LastCaught
  <2>2. c \in caught /\ \A j \in caught : j <= c /\ j \in Nat
    BY <1>3, <1>5, <2>1
  <2>3. \A k \in caught : (\A j \in caught : k >= j) => k = c
    BY <2>2
  <2>4. (CHOOSE k \in caught : \A j \in caught : k >= j) = c
    BY <2>2, <2>3
  <2>5. Max(caught) = c
    BY <2>4 DEF Max
  <2>. QED
    BY <2>1, <2>2, <2>5, Zenon DEF f
<1>. QED
  BY <1>4, <1>5

\* The error contexts and the exception stack of every frame follow the TRY and
\* CATCH blocks its program is in, whatever errors its statements and those of
\* its callees meet (create_error_ctx, restore_ctx_full, restore_ctx_partial1
\* and 2): an error goes to the innermost TRY block that is still running.
THEOREM ErrorsReachInnermostTry == Spec => []HandlerIsInnermostTry
BY BlocksInvariance, BlocksImplyHandler, PTL

\* A CATCH block sees the error it caught, for as long as it runs, and code
\* outside of one sees none (cur_error, restore_ctx_partial2).
THEOREM CatchBlocksSeeTheirError == Spec => []CatchSeesItsError
BY BlocksInvariance, BlocksImplyCaught, PTL
=============================================================================
