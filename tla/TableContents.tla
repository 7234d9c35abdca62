--------------------------- MODULE TableContents ---------------------------
(***************************************************************************)
(* What a table variable promises: a statement changes all of the rows it  *)
(* names or, when it fails, none; nothing else changes them, neither the   *)
(* commit nor the rollback of a transaction or of a savepoint.             *)
(***************************************************************************)
EXTENDS Naturals

CONSTANTS Calls, None

VARIABLES
    rows,     \* the rows, each <<key, value>>
    call,     \* the statement under way, or None
    result    \* how the last statement ended

rvars == <<rows, call, result>>

KeysOf(R) == {r[1] : r \in R}

\* The rows after INSERT, DELETE ... WHERE key IN, UPDATE ... SET value += 1.
Effect(c, R) ==
    IF c.op = "insert" THEN R \cup {<<k, 0>> : k \in c.keys}
    ELSE IF c.op = "delete" THEN {r \in R : r[1] \notin c.keys}
    ELSE {IF r[1] \in c.keys THEN <<r[1], (r[2] + 1) % 2>> ELSE r : r \in R}

Clash(c, R) == c.op = "insert" /\ c.keys \cap KeysOf(R) # {}

RInit == rows = {} /\ call = None /\ result = "none"

Begin == /\ call = None
         /\ call' \in Calls /\ result' = "none"
         /\ UNCHANGED rows

Finish == /\ call # None
          /\ ~Clash(call, rows)
          /\ rows' = Effect(call, rows)
          /\ call' = None /\ result' = "ok"

Refuse == /\ call # None
          /\ Clash(call, rows)
          /\ call' = None /\ result' = "duplicate"
          /\ UNCHANGED rows

Break == /\ call # None
         /\ call' = None /\ result' = "error"
         /\ UNCHANGED rows

\* The table variable goes out of scope.
Vanish == /\ call = None
          /\ rows' = {}
          /\ UNCHANGED <<call, result>>

RNext == Begin \/ Finish \/ Refuse \/ Break \/ Vanish

ContentsSpec == RInit /\ [][RNext]_rvars
=============================================================================
