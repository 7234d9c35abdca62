------------------------------ MODULE Cursors ------------------------------
(***************************************************************************)
(* The cursors of one session: the language cursors of T-SQL (DECLARE,     *)
(* OPEN, FETCH, CLOSE, DEALLOCATE, SET @v = CURSOR ...) and the API cursors *)
(* of the sp_cursor* procedures.  Both kinds are entries of one session    *)
(* table, CursorHashTable, beside the portals PostgreSQL keeps for the     *)
(* cursors that are open.  The table is plain memory; the portals follow   *)
(* the transactions.  The model is about keeping the two in step.          *)
(*                                                                         *)
(* Every frame of the stack runs the same procedure, which has a cursor    *)
(* "c", a cursor variable "v" and, in some scopes, a SET @v = CURSOR FOR.   *)
(***************************************************************************)
EXTENDS Integers, Sequences, FiniteSets, SequencesExt, Functions

CONSTANTS
  NRows,        \* the rows of every cursor's query
  Scopes,       \* the sessions checked: [depth, anon, api, plans, far], bounds on the
                \* nested calls, the API cursors and the prepared plans,
                \* whether the procedure has a SET @v = CURSOR FOR, and
                \* whether sp_cursorfetch does more than NEXT
  NHandles,     \* bound: the range of the two 32-bit handle counters
  Null          \* the value of a cursor variable that is not set

VARIABLES
  scope,    \* which of the Scopes this session is
  frames,   \* the stack of running procedures: [c, v, anon], names or Null
  entries,  \* CursorHashTable: name -> [op, auto, scroll]
  portals,  \* the open portals: name -> [pos, held, pinned]
  prepared, \* CursorPreparedHandleHashTable: handle -> [plan, auto]
  tran,     \* the user's transaction: "none", "open" or "failed"
  lost,     \* the API cursors whose portal a rollback dropped
  out       \* what the last step answered: a fetch, a refused call, or nothing of note

Quiet == [what |-> "nothing"]

vars == <<scope, frames, entries, portals, prepared, tran, lost, out>>

-----------------------------------------------------------------------------
(* Names.  An API cursor is named by its handle.  A declared cursor is     *)
(* named after the address of its variable, which every call copies; an    *)
(* anonymous one after an address of the compiled procedure.               *)

ApiName(h) == <<"api", h>>
DeclaredName(depth) == <<"declared", depth>>
AnonymousName(depth) == <<"anonymous", 0>>

IsApi(n) == n[1] = "api"
Top == frames[Len(frames)]
SetTop(f) == [frames EXCEPT ![Len(frames)] = f]

Without(f, S) == Restrict(f, DOMAIN f \ S)
With(f, k, x) == [n \in DOMAIN f \cup {k} |-> IF n = k THEN x ELSE f[n]]

NewEntry(auto, scroll) == [op |-> "new", auto |-> auto, scroll |-> scroll]
SetOp(es, n, op) ==
  [k \in DOMAIN es |-> IF k = n THEN [es[k] EXCEPT !.op = op] ELSE es[k]]

\* The handle counters go on to the next handle that is not in use.  Handles
\* differ only in being in use, so the least free one stands for it.
Least(S) == CHOOSE i \in S : \A j \in S : i <= j
FreeHandles == {h \in 1..NHandles : ApiName(h) \notin DOMAIN entries}
FreePrepared == (1..NHandles) \ DOMAIN prepared

-----------------------------------------------------------------------------
(* Transactions.  A statement outside a user transaction is its own: its   *)
(* end materialises the portals that are WITH HOLD or pinned.              *)

Held(ps) == [n \in DOMAIN ps |-> [ps[n] EXCEPT !.held = TRUE]]


\* HoldPinnedPortals: the open language cursors, before any end of transaction.
HoldPinned(ps) ==
  [n \in DOMAIN ps |-> [ps[n] EXCEPT !.held = @ \/ ps[n].pinned]]

\* The end of a statement: outside a user transaction it commits.
Settle(ps) == IF tran = "none" THEN Held(ps) ELSE ps

\* What an abort of the transaction leaves of the portals.
Survive(ps) == Restrict(ps, {n \in DOMAIN ps : ps[n].held})

BeginTran ==
  /\ tran = "none"
  /\ tran' = "open"
  /\ out' = Quiet
  /\ UNCHANGED <<frames, entries, portals, prepared, lost>>

CommitTran ==
  /\ tran = "open"
  /\ tran' = "none"
  /\ portals' = Held(HoldPinned(portals))
  /\ out' = Quiet
  /\ UNCHANGED <<frames, entries, prepared, lost>>

\* ROLLBACK, and an error that aborts the transaction and that the batch
\* handles: pinned portals are held first, the others that are not go.
RollbackTran ==
  /\ tran # "none"
  /\ tran' = "none"
  /\ portals' = Survive(HoldPinned(portals))
  /\ lost' = lost \cup (DOMAIN portals \ DOMAIN portals')
  /\ out' = Quiet
  /\ UNCHANGED <<frames, entries, prepared>>

\* ROLLBACK to a savepoint: the portals opened since then, `since`, go.
RollbackToSavepoint ==
  /\ tran = "open"
  /\ \E since \in SUBSET {n \in DOMAIN portals : ~HoldPinned(portals)[n].held} :
       /\ portals' = Without(HoldPinned(portals), since)
       /\ lost' = lost \cup since
  /\ out' = Quiet
  /\ UNCHANGED <<frames, entries, prepared, tran>>

\* A request that fails as a remote procedure call, outside any batch, aborts
\* the transaction it runs in; in a batch the error is the statement's.
Fail ==
  IF frames = <<>> /\ tran = "open"
    THEN /\ tran' = "failed"
         /\ portals' = Survive(portals)
         /\ lost' = lost \cup (DOMAIN portals \ DOMAIN portals')
    ELSE UNCHANGED <<tran, portals, lost>>

-----------------------------------------------------------------------------
(* Calls.                                                                  *)

\* A call of the procedure: pltsql_init_anonymous_cursors enters its
\* anonymous cursor in the table, and raises an error if the name is there.
Call ==
  /\ tran # "failed" /\ Len(frames) < scope.depth
  /\ LET n == AnonymousName(Len(frames) + 1)
     IN  /\ scope.anon => n \notin DOMAIN entries
         /\ frames' = Append(frames,
                        [c |-> Null, v |-> Null, anon |-> IF scope.anon THEN n ELSE Null])
         /\ entries' = IF scope.anon THEN With(entries, n, NewEntry(FALSE, TRUE))
                                    ELSE entries
  /\ out' = Quiet
  /\ UNCHANGED <<portals, prepared, tran, lost>>

\* The name is taken: "duplicate cursor name", and the call does not start.
CallRefused ==
  /\ scope.anon /\ frames # <<>> /\ Len(frames) < scope.depth
  /\ AnonymousName(Len(frames) + 1) \in DOMAIN entries
  /\ out' = [what |-> "duplicate cursor name"]
  /\ UNCHANGED <<frames, entries, portals, prepared, tran, lost>>

\* Mutant of LocalCursors: anonymous cursors are forgotten.
LocalCursorsDeclared(f) == {f.c} \ {Null}

\* pltsql_cleanup_local_cursors: the cursors (not the variables) of a frame.
LocalCursors(f) == {f.c, f.anon} \ {Null}

\* The end of a call, by RETURN or by an error that leaves the procedure.
Return ==
  /\ frames # <<>>
  /\ frames' = Front(frames)
  /\ portals' = Settle(Without(portals, LocalCursors(Top)))
  /\ entries' = Without(entries, LocalCursors(Top))
  /\ out' = Quiet
  /\ UNCHANGED <<prepared, tran, lost>>

-----------------------------------------------------------------------------
(* Language cursors.                                                       *)

\* DECLARE c CURSOR: refused while c is open or not deallocated.
Declare ==
  /\ frames # <<>>
  /\ LET n == DeclaredName(Len(frames))
         gone == {k \in {Top.c} \cap DOMAIN entries :
                    k \notin DOMAIN portals /\ entries[k].op = "deallocate"}
     IN  /\ Top.c \in DOMAIN entries => Top.c \in gone
         /\ n \notin DOMAIN entries \ gone
         /\ FreeHandles # {}
         /\ entries' = With(Without(entries, gone), n, NewEntry(FALSE, TRUE))
         /\ frames' = SetTop([Top EXCEPT !.c = n])
  /\ portals' = Settle(portals)
  /\ out' = Quiet
  /\ UNCHANGED <<prepared, tran, lost>>

\* SET @v = c, and SET @v = CURSOR FOR ..., which refers to the anonymous one.
SetVariable ==
  /\ frames # <<>>
  /\ \E n \in LocalCursors(Top) : n # Top.v /\ frames' = SetTop([Top EXCEPT !.v = n])
  /\ portals' = Settle(portals)
  /\ out' = Quiet
  /\ UNCHANGED <<entries, prepared, tran, lost>>

\* What a statement of the running procedure can name.
Refs == {Top.c, Top.v} \ {Null}

\* OPEN: the name must have no portal; a variable needs the cursor's entry.
\* The new portal is pinned.
Open ==
  /\ frames # <<>> /\ tran # "failed"
  /\ \E n \in Refs :
       /\ n \notin DOMAIN portals
       /\ n \in DOMAIN entries
       /\ portals' = Settle(With(portals, n, [pos |-> 0, held |-> FALSE, pinned |-> TRUE]))
       /\ entries' = SetOp(entries, n, "open")
  /\ out' = Quiet
  /\ UNCHANGED <<frames, prepared, tran, lost>>

\* Where n rows forward, n rows back and row k lead; NRows + 1 is "after the
\* last row".
Forward(pos, n) == IF pos + n > NRows THEN NRows + 1 ELSE pos + n
Backward(pos, n) == IF pos <= n THEN 0 ELSE pos - n
Absolute(k) == IF k >= 0 THEN Forward(0, k) ELSE IF -k > NRows THEN 0 ELSE NRows + 1 + k

\* FETCH records the operation.  The row a language cursor is on is left out:
\* the positions are those of the API cursors, below.
Fetch ==
  /\ frames # <<>>
  /\ \E n \in Refs \cap DOMAIN portals :
       entries' = SetOp(entries, n, "fetch")
  /\ portals' = Settle(portals)
  /\ out' = Quiet
  /\ UNCHANGED <<frames, prepared, tran, lost>>

Close ==
  /\ frames # <<>>
  /\ \E n \in Refs \cap DOMAIN portals :
       /\ portals' = Settle(Without(portals, {n}))
       /\ entries' = SetOp(entries, n, "close")
  /\ out' = Quiet
  /\ UNCHANGED <<frames, prepared, tran, lost>>

\* DEALLOCATE closes the portal if there is one and marks the entry; a
\* variable is then Null, a cursor keeps its name.
Deallocate ==
  /\ frames # <<>>
  /\ \E r \in {"c", "v"} :
       /\ Top[r] # Null
       /\ portals' = Settle(Without(portals, {Top[r]}))
       /\ entries' = SetOp(entries, Top[r], "deallocate")
       /\ frames' = IF r = "v" THEN SetTop([Top EXCEPT !.v = Null]) ELSE frames
  /\ out' = Quiet
  /\ UNCHANGED <<prepared, tran, lost>>

-----------------------------------------------------------------------------
(* API cursors.                                                            *)

\* The entry and the portal of a new API cursor, WITH HOLD.
Opened(auto, scroll) ==
  /\ Cardinality({n \in DOMAIN entries : IsApi(n)}) < scope.api
  /\ FreeHandles # {}
  /\ LET n == ApiName(Least(FreeHandles))
     IN  /\ entries' = With(entries, n, [NewEntry(auto, scroll) EXCEPT !.op = "open"])
         /\ portals' = Settle(With(portals, n, [pos |-> 0, held |-> FALSE, pinned |-> FALSE]))

\* sp_cursoropen.  AUTO_CLOSE cursors are opened FORWARD_ONLY here.
CursorOpen ==
  /\ tran # "failed"
  /\ \E auto \in BOOLEAN : Opened(auto, ~auto)
  /\ out' = Quiet
  /\ UNCHANGED <<frames, prepared, tran, lost>>

\* sp_cursorprepare; sp_cursorprepexec also opens a cursor of the new plan.
CursorPrepare ==
  /\ tran # "failed"
  /\ Cardinality(DOMAIN prepared) < scope.plans
  /\ prepared' = With(prepared, Least(FreePrepared), "kept")
  /\ portals' = Settle(portals)
  /\ out' = Quiet
  /\ UNCHANGED <<frames, entries, tran, lost>>

\* sp_cursorexecute.  A freed plan has no defined outcome and is left out.
CursorExecute ==
  /\ tran # "failed"
  /\ \E p \in DOMAIN prepared : prepared[p] = "kept"
  /\ Opened(FALSE, TRUE)
  /\ out' = Quiet
  /\ UNCHANGED <<frames, prepared, tran, lost>>

\* Opening the portal fails: the handler deletes the entry and, because
\* save_plan is false for sp_cursorexecute too, frees the plan it was given.
CursorExecuteFails ==
  /\ tran # "failed"
  /\ FreeHandles # {}
  /\ \/ \E p \in DOMAIN prepared :
          prepared[p] = "kept" /\ prepared' = [prepared EXCEPT ![p] = "freed"]
     \/ UNCHANGED prepared
  /\ Fail
  /\ out' = Quiet
  /\ UNCHANGED <<frames, entries>>

CursorUnprepare ==
  /\ \E p \in DOMAIN prepared : prepared' = Without(prepared, {p})
  /\ portals' = Settle(portals)
  /\ out' = Quiet
  /\ UNCHANGED <<frames, entries, tran, lost>>

\* The rows from a to b, forward or backward.
RowsFrom(a, b) == [i \in 1..(IF b < a THEN 0 ELSE b - a + 1) |-> a + i - 1]


\* Where sp_cursorfetch moves the portal before it reads n rows.
StartOf(kind, k, n, pos) ==
  CASE kind = "first"    -> Absolute(0)
    [] kind = "last"     -> Absolute(-n - 1)
    [] kind = "absolute" -> Absolute(k - 1)
    [] OTHER             -> pos

\* A NO SCROLL portal only moves forward; only FIRST and LAST accept n = 0.
FetchRequests(scroll) ==
  {[kind |-> "next", k |-> 0, n |-> n] : n \in 1..2}
  \cup {r \in [kind : {"prev"}, k : {0}, n : 1..2] : scroll}
  \cup {r \in [kind : {"first", "last"}, k : {0}, n : 0..2] : scroll}
  \cup {r \in [kind : {"absolute"}, k : -2..(NRows + 1), n : {2}] : scroll}

\* The cursor is AUTO_CLOSE and the fetch ran past its last row.
AutoCloses(e, end) == e.auto /\ end > NRows

CursorFetch ==
  \E n \in {m \in DOMAIN entries : IsApi(m)} \cap DOMAIN portals :
  \E r \in FetchRequests(entries[n].scroll /\ scope.far) :
    LET from == StartOf(r.kind, r.k, r.n, portals[n].pos)
        end  == IF r.kind = "prev" THEN Backward(from, r.n) ELSE Forward(from, r.n)
        rows == IF r.kind = "prev"
                  THEN Reverse(RowsFrom(IF end = 0 THEN 1 ELSE end, from - 1))
                  ELSE RowsFrom(from + 1, IF end > NRows THEN NRows ELSE end)
        gone == AutoCloses(entries[n], end)
    IN  /\ portals' = Settle(IF gone THEN Without(portals, {n})
                             ELSE [portals EXCEPT ![n].pos = end])
        /\ entries' = IF gone THEN Without(entries, {n}) ELSE SetOp(entries, n, "fetch")
        /\ out' = [what |-> "fetch", req |-> r, before |-> portals[n].pos, rows |-> rows,
                   auto |-> entries[n].auto, closed |-> gone]
        /\ UNCHANGED <<frames, prepared, tran, lost>>

\* sp_cursorclose needs the entry and the portal.
CursorClose ==
  /\ \E n \in {m \in DOMAIN entries : IsApi(m)} \cap DOMAIN portals :
       /\ portals' = Settle(Without(portals, {n}))
       /\ entries' = Without(entries, {n})
  /\ out' = Quiet
  /\ UNCHANGED <<frames, prepared, tran, lost>>

\* sp_cursorclose and sp_cursorfetch of a handle without its portal.
CursorMissing ==
  /\ \E n \in DOMAIN entries : IsApi(n) /\ n \notin DOMAIN portals
  /\ Fail
  /\ out' = Quiet
  /\ UNCHANGED <<frames, entries, prepared>>

\* The connection is reset: the transaction is aborted, every portal is
\* dropped, the tables are emptied.
ResetConnection ==
  /\ frames = <<>>
  /\ tran' = "none"
  /\ portals' = <<>> /\ entries' = <<>> /\ prepared' = <<>> /\ lost' = {}
  /\ out' = Quiet
  /\ UNCHANGED frames

-----------------------------------------------------------------------------
Init ==
  /\ scope \in Scopes
  /\ frames = <<>> /\ entries = <<>> /\ portals = <<>> /\ prepared = <<>>
  /\ tran = "none" /\ lost = {} /\ out = Quiet

Next ==
 /\ UNCHANGED scope
 /\\/ BeginTran \/ CommitTran \/ RollbackTran \/ RollbackToSavepoint
   \/ Call \/ CallRefused \/ Return
   \/ Declare \/ SetVariable \/ Open \/ Fetch \/ Close \/ Deallocate
   \/ CursorOpen \/ CursorPrepare \/ CursorExecute \/ CursorExecuteFails
   \/ CursorUnprepare \/ CursorFetch \/ CursorClose \/ CursorMissing
   \/ ResetConnection

Spec == Init /\ [][Next]_vars

-----------------------------------------------------------------------------
(* Properties.                                                             *)

\* The cursor table and the portals agree: every portal belongs to an entry
\* recorded as open, and every cursor recorded as open has its portal, except
\* the API cursors that a rollback of the transaction that opened them has
\* closed.  Language cursors stay open through COMMIT and ROLLBACK, because
\* OPEN pins their portals and every end of a transaction holds them first.
TableMatchesPortals ==
  LET open == {n \in DOMAIN entries : entries[n].op \in {"open", "fetch"}}
  IN  /\ DOMAIN portals = open \ lost
      /\ \A n \in lost : IsApi(n)

\* Local cursors live as long as their call: the language cursors in the table
\* are those of the running procedures, each of exactly one of them, so that
\* the end of a call closes its own cursors and no others
\* (pltsql_cleanup_local_cursors).
FramesOwnCursors ==
  /\ {n \in DOMAIN entries : ~IsApi(n)} = UNION {LocalCursors(f) : f \in Range(frames)}
  /\ \A i, j \in DOMAIN frames :
       i # j => LocalCursors(frames[i]) \cap LocalCursors(frames[j]) = {}


=============================================================================
