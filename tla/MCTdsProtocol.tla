--------------------------- MODULE MCTdsProtocol ---------------------------
(***************************************************************************)
(* Instances of TdsProtocol for TLC.                                       *)
(***************************************************************************)
EXTENDS TdsProtocol

Plain(k) == [kind |-> k, calls |-> 1, next |-> FALSE, reset |-> FALSE, flaw |-> "none"]
Resets(m) == [m EXCEPT !.reset = TRUE]
Two(f) == [Plain("rpc") EXCEPT !.calls = 2, !.flaw = f]

\* Every kind of message, flawed ones and ones that reset the connection.
AllMessages ==
    {Plain(k) : k \in Kinds}
      \cup {Two(f) : f \in {"none", "parse"}} \cup {Resets(Two(f)) : f \in {"none", "parse"}}
      \cup {Resets(Plain("batch"))}
      \cup {[Plain("rollback") EXCEPT !.next = TRUE]}
      \cup {[Plain("batch") EXCEPT !.flaw = f] : f \in {"skiptran", "empty"}}
      \cup {[Plain("commit") EXCEPT !.flaw = "corrupt"]}
Flawed == {Plain("begin"), Plain("batch"), [Plain("rpc") EXCEPT !.flaw = "parse"]}
=============================================================================
