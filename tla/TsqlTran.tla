------------------------------ MODULE TsqlTran ------------------------------
(***************************************************************************)
(* What a T-SQL session is promised about its transaction: @@TRANCOUNT,    *)
(* XACT_STATE() and how a transaction ends.  A transaction that an error   *)
(* has made uncommittable can only be rolled back.                         *)
(***************************************************************************)
EXTENDS Naturals

CONSTANT MaxCount   \* bound on @@TRANCOUNT

VARIABLES
    count,   \* @@TRANCOUNT
    state,   \* XACT_STATE(): "none" is 0, "active" is 1, "doomed" is -1
    end      \* how the last transaction ended

tvars == <<count, state, end>>

TInit == count = 0 /\ state = "none" /\ end = "none"

Begin == /\ state # "doomed" /\ count < MaxCount
         /\ count' = count + 1
         /\ state' = "active"
         /\ UNCHANGED end

CommitInner == /\ state = "active" /\ count > 1
               /\ count' = count - 1
               /\ UNCHANGED <<state, end>>

Commit == /\ state = "active" /\ count = 1
          /\ count' = 0 /\ state' = "none" /\ end' = "commit"

Rollback == /\ state # "none"
            /\ count' = 0 /\ state' = "none" /\ end' = "rollback"

\* An error makes the transaction uncommittable; @@TRANCOUNT stays.
Doom == /\ state = "active"
        /\ state' = "doomed"
        /\ UNCHANGED <<count, end>>

TNext == Begin \/ CommitInner \/ Commit \/ Rollback \/ Doom

TSpec == TInit /\ [][TNext]_tvars
=============================================================================
