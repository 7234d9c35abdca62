------------------------------- MODULE Codegen --------------------------------
(***************************************************************************)
(* From the tree of a T-SQL batch to the codes the iterative executor runs *)
(* (analyzer.c, codegen.c): control flow becomes GOTOs between positions   *)
(* of one vector, a TRY...CATCH becomes SAVE_CTX / RESTORE_CTX, and every  *)
(* jump that leaves TRY or CATCH blocks is preceded by the restores that   *)
(* those blocks will no longer execute.                                    *)
(*                                                                         *)
(* The codes are run here beside the tree itself: `at` is where the batch  *)
(* is according to its structure, pc where the executor is.  Conditions    *)
(* and the failure of statements are nondeterministic.                     *)
(*                                                                         *)
(* A node is a record [k, body, other]; a statement list is a sequence of  *)
(* nodes.  A node is identified by its path: the index in the list, which  *)
(* of the node's two lists is entered, the index in it, and so on.  There  *)
(* is one user label.                                                      *)
(***************************************************************************)
EXTENDS Integers, Sequences, SequencesExt, FiniteSetsExt

CONSTANT Programs   \* the batches considered

VARIABLES
    prog, \* the batch
    exec_codes, \* the code generated for it
    pc,   \* estate->pc, counted from 1
    errs, \* estate->err_ctx_stack: [target, done] for target_pc, partial_restored
    at    \* history: the node the batch is at by its structure

vars == <<prog, exec_codes, pc, errs, at>>

Node(k, body, other) == [k |-> k, body |-> body, other |-> other]
Leaf(k) == Node(k, <<>>, <<>>)
BODY == 1
OTHER_ == 2
End == <<>>

ListOf(n, b) == IF b = BODY THEN n.body ELSE n.other

\* The list a path is in, and its node.
NodeList(p, path) ==
    FoldLeftDomain(LAMBDA l, i : IF i % 2 = 0 THEN ListOf(l[path[i - 1]], path[i]) ELSE l,
                   p, path)
NodeAt(p, path) == NodeList(p, path)[Last(path)]
Parent(path) == SubSeq(path, 1, Len(path) - 2)
Child(path, b) == path \o <<b, 1>>
Ancestors(path) == {SubSeq(path, 1, i) : i \in {j \in 1 .. Len(path) : j % 2 = 1}}

RECURSIVE Paths(_, _)
Paths(l, at0) ==
    UNION {LET p == Append(at0, i)
           IN  {p} \cup Paths(l[i].body, Append(p, BODY)) \cup Paths(l[i].other, Append(p, OTHER_))
           : i \in DOMAIN l}

-----------------------------------------------------------------------------
\* analyzer.c

\* analyze's traversal: the stacks of TRY...CATCH statements and loops at each
\* node.  A loop is on its own stack, a TRY...CATCH only on those of its parts.
RECURSIVE SaveScope(_, _, _, _)
SaveScope(l, at0, tries, loops) ==
    UNION {LET n == l[i]
               p == Append(at0, i)
               in == IF n.k = "while" THEN Append(loops, p) ELSE loops
               Try(b) == IF n.k = "try" THEN Append(tries, [stmt |-> p, try |-> b]) ELSE tries
           IN  {[node |-> p, tries |-> tries, loops |-> in]}
               \cup SaveScope(n.body, Append(p, BODY), Try(TRUE), in)
               \cup SaveScope(n.other, Append(p, OTHER_), Try(FALSE), in)
           : i \in DOMAIN l}

\* Mutant of CheckGotoTryCatch: only the depth is compared.
CheckGotoTryCatchDepth(src, dst) == Len(src) >= Len(dst)

\* A GOTO stays in the blocks of its label.
CheckGotoTryCatch(src, dst) == IsPrefix(dst, src)
CheckGotoLoop(src, dst) == IsPrefix(dst, src)

Labels(p) == {x \in Paths(p, <<>>) : NodeAt(p, x).k = "label"}
Scope(sc, x) == CHOOSE s \in sc : s.node = x

\* Whether the batch is accepted: one definition of the label if it is used,
\* BREAK and CONTINUE in a loop, no GOTO into a loop or a TRY...CATCH.
Accepted(p) ==
    LET sc == SaveScope(p, <<>>, <<>>, <<>>)
        ls == Labels(p)
    IN  /\ \A x, y \in ls : x = y
        /\ \A s \in sc :
             CASE NodeAt(p, s.node).k \in {"break", "continue"} -> s.loops # <<>>
               [] NodeAt(p, s.node).k = "goto" ->
                    \E x \in ls : /\ CheckGotoTryCatch(s.tries, Scope(sc, x).tries)
                                  /\ CheckGotoLoop(s.loops, Scope(sc, x).loops)
               [] OTHER -> TRUE

-----------------------------------------------------------------------------
\* codegen.c.  The generator is [codes, labels]: the vector, and the positions
\* of the labels.

Silent == <<0>>
Code(op, node, label) == [op |-> op, node |-> node, label |-> label]
Label(kind, node) == <<kind, node>>
UserLabel == Label("user", <<>>)

add_stmt(g, c) == [g EXCEPT !.codes = Append(@, c)]
create_and_register_label(g, l) == [g EXCEPT !.labels = @ \cup {<<l, Len(g.codes) + 1>>}]

\* The restores for the blocks of src that a jump to dst leaves, innermost
\* first.
Restores(src, dst) ==
    [i \in 1 .. Max({0, Len(src) - Len(dst)}) |->
        Code(IF src[Len(src) + 1 - i].try THEN "restore_full" ELSE "restore_partial",
             Silent, <<>>)]

cleanup_exception_context(src, dst, g) == [g EXCEPT !.codes = @ \o Restores(src, dst)]

RECURSIVE Walk(_, _, _, _)

\* The list of a node, or the batch.
WalkList(sc, l, at0, g) ==
    FoldLeftDomain(LAMBDA acc, i : Walk(sc, l[i], Append(at0, i), acc), g, l)

stmt_if_act(sc, n, p, g) ==
    LET else == Label(IF n.k = "ifelse" THEN "else_begin" ELSE "else_end", p)
        g1 == add_stmt(g, Code("goto_unless", p, else))
        g2 == WalkList(sc, n.body, Append(p, BODY), g1)
        g3 == create_and_register_label(
                 add_stmt(g2, Code("goto", Silent, Label("else_end", p))), Label("else_begin", p))
        g4 == WalkList(sc, n.other, Append(p, OTHER_), g3)
    IN  create_and_register_label(IF n.k = "ifelse" THEN g4 ELSE g2, Label("else_end", p))

stmt_try_catch_act(sc, n, p, g) ==
    LET g1 == add_stmt(g, Code("save", p, Label("catch_begin", p)))
        g2 == WalkList(sc, n.body, Append(p, BODY), g1)
        g3 == add_stmt(g2, Code("restore_full", Silent, <<>>))
        g4 == add_stmt(g3, Code("goto", Silent, Label("catch_end", p)))
        g5 == create_and_register_label(g4, Label("catch_begin", p))
        g6 == WalkList(sc, n.other, Append(p, OTHER_), g5)
        g7 == add_stmt(g6, Code("restore_partial", Silent, <<>>))
    IN  create_and_register_label(g7, Label("catch_end", p))

stmt_while_act(sc, n, p, g) ==
    LET g1 == create_and_register_label(g, Label("loop_begin", p))
        g2 == add_stmt(g1, Code("goto_unless", p, Label("loop_end", p)))
        g3 == WalkList(sc, n.body, Append(p, BODY), g2)
        g4 == add_stmt(g3, Code("goto", Silent, Label("loop_begin", p)))
    IN  create_and_register_label(g4, Label("loop_end", p))


\* BREAK and CONTINUE.
stmt_exit_act(sc, n, p, g) ==
    LET loop == Last(Scope(sc, p).loops)
        g1 == cleanup_exception_context(Scope(sc, p).tries, Scope(sc, loop).tries, g)
    IN  add_stmt(g1, Code("goto", p,
                          Label(IF n.k = "break" THEN "loop_end" ELSE "loop_begin", loop)))

stmt_return_act(sc, p, g) ==
    LET g1 == add_stmt(g, Code("exec", p, <<>>))
        g2 == cleanup_exception_context(Scope(sc, p).tries, <<>>, g1)
    IN  add_stmt(g2, Code("goto", Silent, Label("end_of_proc", <<>>)))

stmt_goto_act(sc, p, g) ==
    LET label == CHOOSE s \in sc : s.label
        g1 == cleanup_exception_context(Scope(sc, p).tries, label.tries, g)
    IN  add_stmt(g1, Code("goto", p, UserLabel))

stmt_default_act(p, g) == add_stmt(g, Code("exec", p, <<>>))

Walk(sc, n, p, g) ==
    CASE n.k \in {"if", "ifelse"} -> stmt_if_act(sc, n, p, g)
      [] n.k = "try" -> stmt_try_catch_act(sc, n, p, g)
      [] n.k = "while" -> stmt_while_act(sc, n, p, g)
      [] n.k \in {"break", "continue"} -> stmt_exit_act(sc, n, p, g)
      [] n.k = "return" -> stmt_return_act(sc, p, g)
      [] n.k = "goto" -> stmt_goto_act(sc, p, g)
      [] n.k = "label" -> create_and_register_label(g, UserLabel)
      [] OTHER -> stmt_default_act(p, g)

\* resolve_labels: labels become positions.
resolve_labels(g) ==
    [i \in DOMAIN g.codes |->
        LET c == g.codes[i]
        IN  [op |-> c.op, node |-> c.node,
             target |-> IF c.label = <<>> THEN 0
                        ELSE (CHOOSE x \in g.labels : x[1] = c.label)[2]]]

gen_exec_code(p) ==
    LET sc == {[node |-> s.node, tries |-> s.tries, loops |-> s.loops,
                label |-> NodeAt(p, s.node).k = "label"] : s \in SaveScope(p, <<>>, <<>>, <<>>)}
        g == WalkList(sc, p, <<>>, [codes |-> <<>>, labels |-> {}])
    IN  resolve_labels(create_and_register_label(g, Label("end_of_proc", <<>>)))

Valid == {p \in Programs : Accepted(p)}

-----------------------------------------------------------------------------
\* The structure of the batch: where it goes from a node.

RECURSIVE Following(_, _), Skip(_, _)

\* After the node is done.
Following(p, path) ==
    IF Last(path) < Len(NodeList(p, path))
    THEN Skip(p, [path EXCEPT ![Len(path)] = @ + 1])
    ELSE LET up == Parent(path)
         IN  CASE up = End -> End
               [] up # End /\ NodeAt(p, up).k = "while" -> up
               [] OTHER -> Following(p, up)

\* A label is passed.
Skip(p, path) == IF NodeAt(p, path).k = "label" THEN Following(p, path) ELSE path

Enter(p, path, b) == IF ListOf(NodeAt(p, path), b) = <<>> THEN Following(p, path)
                     ELSE Skip(p, Child(path, b))

Innermost(p, path, k, b) ==
    LET in == {x \in Ancestors(path) \ {path} :
                 NodeAt(p, x).k = k /\ path[Len(x) + 1] \in b}
    IN  IF in = {} THEN End ELSE CHOOSE x \in in : \A y \in in : Len(y) <= Len(x)

\* The blocks a node is in, outermost first, as the executor should have them.
Nesting(p, path) ==
    LET in == SetToSortSeq({x \in Ancestors(path) \ {path} : NodeAt(p, x).k = "try"},
                           LAMBDA x, y : Len(x) < Len(y))
    IN  [i \in DOMAIN in |-> [stmt |-> in[i], try |-> path[Len(in[i]) + 1] = BODY]]

\* A node completes, with the value of its condition.
Completed(p, path, cond) ==
    LET k == NodeAt(p, path).k
        loop == Innermost(p, path, "while", {BODY})
    IN  CASE k \in {"if", "while"} /\ ~cond -> Following(p, path)
          [] k = "ifelse" /\ ~cond -> Enter(p, path, OTHER_)
          [] k \in {"if", "ifelse", "while", "try"} /\ cond -> Enter(p, path, BODY)
          [] k = "break" -> Following(p, loop)
          [] k = "continue" -> loop
          [] k = "return" -> End
          [] k = "goto" -> Following(p, CHOOSE x \in Labels(p) : TRUE)
          [] OTHER -> Following(p, path)

-----------------------------------------------------------------------------
\* exec_stmt_iterative.

InitAt(p) == /\ prog = p /\ exec_codes = gen_exec_code(p) /\ pc = 1 /\ errs = <<>>
             /\ at = Skip(p, <<1>>)
Init == \E p \in Valid : InitAt(p)

code == exec_codes[pc]
Running == pc <= Len(exec_codes)

\* A code that stands for a node of the batch completes.
Executed(cond) == at' = IF code.node = Silent THEN at ELSE Completed(prog, at, cond)

Exec == /\ Running /\ code.op = "exec"
        /\ pc' = pc + 1 /\ Executed(TRUE) /\ UNCHANGED <<prog, exec_codes, errs>>

Goto == /\ Running /\ code.op = "goto"
        /\ pc' = code.target /\ Executed(TRUE) /\ UNCHANGED <<prog, exec_codes, errs>>

Condition == /\ Running /\ code.op = "goto_unless"
             /\ \E cond \in BOOLEAN : /\ pc' = IF cond THEN pc + 1 ELSE code.target
                                      /\ Executed(cond)
             /\ UNCHANGED <<prog, exec_codes, errs>>

SaveCtx == /\ Running /\ code.op = "save"
           /\ errs' = Append(errs, [target |-> code.target, done |-> FALSE])
           /\ pc' = pc + 1 /\ Executed(TRUE) /\ UNCHANGED <<prog, exec_codes>>

RestoreCtx == /\ Running /\ code.op \in {"restore_full", "restore_partial"}
              /\ errs # <<>>
              /\ errs' = Front(errs)
              /\ pc' = pc + 1 /\ Executed(TRUE) /\ UNCHANGED <<prog, exec_codes>>

Handlers == {i \in DOMAIN errs : ~errs[i].done}

\* A statement or a condition fails: the innermost TRY block not yet left by
\* an error takes it; without one the batch is over.
Fail == /\ Running /\ code.op \in {"exec", "goto_unless"}
        /\ LET i == Max({0} \cup Handlers)
               try == Innermost(prog, at, "try", {BODY})
           IN  /\ errs' = IF i = 0 THEN <<>>
                          ELSE Append(SubSeq(errs, 1, i - 1), [errs[i] EXCEPT !.done = TRUE])
               /\ pc' = IF i = 0 THEN Len(exec_codes) + 1 ELSE errs[i].target
               /\ at' = IF try = End THEN End ELSE Enter(prog, try, OTHER_)
        /\ UNCHANGED <<prog, exec_codes>>

Next == Exec \/ Goto \/ Condition \/ SaveCtx \/ RestoreCtx \/ Fail

Spec == Init /\ [][Next]_vars

-----------------------------------------------------------------------------

\* When a statement runs, the error contexts are those of the TRY and CATCH
\* blocks around it: no jump leaves one behind or removes one too many.
HandlersMatchNesting ==
    IF Running
    THEN /\ code.op \in {"exec", "goto_unless"} =>
              LET nest == Nesting(prog, code.node)
              IN  /\ Len(errs) = Len(nest)
                  /\ \A i \in DOMAIN nest : errs[i].done = ~nest[i].try
         /\ code.op \in {"restore_full", "restore_partial"} =>
              errs # <<>> /\ Last(errs).done = (code.op = "restore_partial")
    ELSE errs = <<>>
=============================================================================
