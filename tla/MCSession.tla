----------------------------- MODULE MCSession -----------------------------
(***************************************************************************)
(* What a session keeps, for TLC: table variables (TableVariable), cursors *)
(* (Cursors), handles of prepared batches and XML documents                *)
(* (SessionHandles) and the context of INSERT EXEC (InsertExec).  The code *)
(* keeps them apart, so a behaviour is about one of them, and the          *)
(* variables of the others keep their initial values.                      *)
(***************************************************************************)
EXTENDS InsertExec, MCTableVariable, TLC

CONSTANTS NRows, Scopes, NHandles, Null,
          Texts, MaxHandle, MaxDocs

VARIABLES
    about,  \* what this behaviour is about
    scope, cframes, entries, portals, prepared, ctran, lost, out,
    part, cache, nextId, client, ran, exists, docs, bits, current, made, hsaved, undone

cursorVars == <<scope, cframes, entries, portals, prepared, ctran, lost, out>>
handleVars == <<part, cache, nextId, client, ran, exists, docs, bits, current, made,
                hsaved, undone>>
allVars == <<about, tableVars, cursorVars, handleVars, vars>>

Cur == INSTANCE Cursors WITH frames <- cframes, tran <- ctran
Han == INSTANCE SessionHandles WITH saved <- hsaved

\* No definition names a key.
KeySymmetry == Permutations(Keys)

\* Nested calls; a procedure beside an API cursor; an API cursor that scrolls;
\* two API cursors and a prepared plan.
MCScopes ==
  {[depth |-> 2, anon |-> TRUE, api |-> 0, plans |-> 0, far |-> FALSE],
   [depth |-> 2, anon |-> FALSE, api |-> 0, plans |-> 0, far |-> FALSE],
   [depth |-> 1, anon |-> TRUE, api |-> 1, plans |-> 0, far |-> FALSE],
   [depth |-> 0, anon |-> FALSE, api |-> 1, plans |-> 0, far |-> TRUE],
   [depth |-> 0, anon |-> FALSE, api |-> 2, plans |-> 1, far |-> FALSE]}

MCInit ==
    /\ about \in {"tables", "cursors", "handles", "insert"}
    /\ Init /\ TableInit /\ Cur!Init /\ Han!Init
    /\ about # "cursors" => scope.plans = 1
    /\ about # "handles" => part = "batches"
    /\ about # "insert" => ~implicit

MCNext ==
    \/ about = "tables" /\ TableNext /\ UNCHANGED <<about, cursorVars, handleVars, vars>>
    \/ about = "cursors" /\ Cur!Next /\ UNCHANGED <<about, tableVars, handleVars, vars>>
    \/ about = "handles" /\ Han!Next /\ UNCHANGED <<about, tableVars, cursorVars, vars>>
    \/ about = "insert" /\ Next /\ UNCHANGED <<about, tableVars, cursorVars, handleVars>>

MCSpec == MCInit /\ [][MCNext]_allVars

=============================================================================
