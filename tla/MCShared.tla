------------------------------ MODULE MCShared ------------------------------
(***************************************************************************)
(* The two structures in shared memory, for TLC: the cache of parsed       *)
(* batches (ParseCache) and the application locks (AppLock), here with     *)
(* fairness.  They share no state, so a behaviour is about one of them,    *)
(* and the variables of the other keep their initial values.               *)
(***************************************************************************)
EXTENDS MCParseCache

CONSTANTS Resources, Modes, MaxKey, MaxTry, Timeouts, MaxHold, MaxRefs

VARIABLES
    about,  \* what this behaviour is about
    gres, gref, local, held, inTxn, lpc, call

lockVars == <<gres, gref, local, held, inTxn, lpc, call>>
allVars == <<about, vars, lockVars>>

\* Locks of transactions, on resources with the same candidate keys.  No
\* session is terminated while it waits, so that the counts are exact.
Lock == INSTANCE AppLock WITH
    Hash <- [r \in Resources |-> 0],
    OwnersOf <- [r \in Resources |-> {"Transaction"}],
    Terminable <- {},
    pc <- lpc

MCInit == about \in {"parses", "locks"} /\ Init /\ Lock!Init
MCNext ==
    \/ about = "parses" /\ Next /\ UNCHANGED <<about, lockVars>>
    \/ about = "locks" /\ Lock!Next /\ UNCHANGED <<about, vars>>

\* A session that runs goes on running, and a request that cannot be granted
\* times out or is picked by the deadlock detector; callers are free.
MCSpec ==
    /\ MCInit /\ [][MCNext]_allVars
    /\ \A s \in Sessions :
         WF_allVars(about = "locks" /\ Lock!Step(s) /\ UNCHANGED <<about, vars>>)

\* The properties of AppLock, stated there.  A session may hold several modes of
\* a key here: the stack of its local entry, the locks and the count agree.
LocksExact == Lock!LocksSound /\ Lock!RefcountExact
CallsReturn == Lock!CallsReturn
=============================================================================
