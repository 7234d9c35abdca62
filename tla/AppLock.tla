------------------------------ MODULE AppLock ------------------------------
(***************************************************************************)
(* T-SQL application locks (contrib/babelfishpg_tsql/src/applock.c).       *)
(*                                                                         *)
(* A session names a lock by a string, the resource.  The string is hashed *)
(* to an integer key, and the key is locked in PostgreSQL's lock manager.  *)
(* Two caches keep the books: the global one, in shared memory, says which *)
(* resource owns a key and counts the references to it; the local one, one *)
(* per session, lists the modes the session holds on a key and the owner.  *)
(* Every access to the global cache is one critical section of the         *)
(* lightweight lock TsqlApplockSyncLock, and is one step here: what        *)
(* happens between two critical sections of a call can interleave with     *)
(* the steps of any other session.                                         *)
(***************************************************************************)
EXTENDS Integers, Sequences, FiniteSets

CONSTANTS
    Sessions,     \* the backends
    Resources,    \* resource names; none is the empty string
    Modes,        \* the lock modes the callers use, of IS, S, U, IX and X
    MaxKey,       \* INT64_MAX: keys are 0 .. MaxKey
    Hash,         \* applock_simple_hash, resource by resource
    MaxTry,       \* APPLOCK_MAX_TRY_SEARCH_KEY
    OwnersOf,     \* the lock owners the callers use for each resource
    Timeouts,     \* the time-outs the callers use
    Terminable,   \* sessions that may be terminated while they wait
    MaxHold,      \* bound on the modes a session holds on a key
    MaxRefs       \* bound on the references to a key when one is leaked

Free == "free"          \* the key has no entry in the global cache
Blank == "blank"        \* an entry whose resource is the empty string
NoResource == "none"    \* the resource of an absent local entry
Owners == {"Session", "Transaction"}
AllModes == {"IS", "S", "U", "IX", "X"}
LockKeys == 0 .. MaxKey
NoKey == -1

ASSUME SessionsAssumption == IsFiniteSet(Sessions)
ASSUME ResourcesAssumption == Resources \cap {Free, Blank, NoResource} = {}
ASSUME ModesAssumption == Modes \subseteq AllModes
ASSUME HashAssumption == /\ MaxKey \in Nat \ {0}
                         /\ Hash \in [Resources -> 0 .. (MaxKey - 1)]
                         /\ MaxTry \in Nat \ {0}
ASSUME CallerAssumption == /\ OwnersOf \in [Resources -> SUBSET Owners]
                           /\ Timeouts \subseteq {"nowait", "finite", "forever"}
                           /\ Terminable \subseteq Sessions
                           /\ MaxHold \in Nat \ {0}
                           /\ MaxRefs \in Nat

VARIABLES
    gres,   \* global cache: the resource of each key
    gref,   \* global cache: the reference count of each key
    local,  \* local caches: resource, stack of modes and owner of each key
    held,   \* PostgreSQL's lock manager: how often each lock is held
    inTxn,  \* is a transaction block active in the session?
    pc,     \* where the session is between two critical sections
    call    \* the arguments of its call, and the key found for it

vars == <<gres, gref, local, held, inTxn, pc, call>>

-----------------------------------------------------------------------------
(* Keys: the hash of the resource, and the keys tried after it. *)

\* The i-th key tried: key = (key % INT64_MAX) + 1 iterated i times.
Candidate(r, i) ==
    IF i = 0 THEN Hash[r] ELSE ((Hash[r] + i - 1) % MaxKey) + 1

Tries == 0 .. (MaxTry - 1)

\* The first of a non-empty set of tries.
First(T) == CHOOSE i \in T : \A j \in T : i <= j

\* The tries at which the global cache names r, and those with no entry.
Matching(r) == {i \in Tries : gres[Candidate(r, i)] = r}
Unused(r) == {i \in Tries : gres[Candidate(r, i)] = Free}

\* The key found for r in the global cache (defined when Matching(r) # {}).
KeyGlobal(r) == Candidate(r, First(Matching(r)))

-----------------------------------------------------------------------------
(* The lock manager, external: conflicts, granting and deadlock detection. *)

\* The table of compatibility, by its incompatible pairs.
Conflicts == {<<"X", m>> : m \in AllModes} \cup {<<m, "X">> : m \in AllModes}
             \cup {<<"S", "IX">>, <<"IX", "S">>}
             \cup {<<"U", "IX">>, <<"IX", "U">>, <<"U", "U">>}

LockIds == LockKeys \X Owners \X Modes
NoLocks == [l \in LockIds |-> 0]

\* t holds a lock on the key s is asking for that conflicts with its mode.
Blocks(t, s) ==
    \E o \in Owners, m \in Modes :
        /\ held[t][<<call[s].key, o, m>>] > 0
        /\ <<call[s].mode, m>> \in Conflicts

Grantable(s) == \A t \in Sessions \ {s} : ~Blocks(t, s)

\* s is a member of a set of sessions each waiting for another of the set.
Deadlocked(s) ==
    \E D \in SUBSET Sessions :
        /\ s \in D
        /\ \A x \in D : pc[x] = "acquire" /\ \E y \in D \ {x} : Blocks(y, x)

-----------------------------------------------------------------------------
(* The caches. *)

NoEntry == [resource |-> NoResource, modes |-> <<>>, owner |-> "Session"]
EmptyCache == [k \in LockKeys |-> NoEntry]

\* An entry exists exactly while its reference count, the length of its
\* stack of modes, is not 0.
HasEntry(s, k) == local[s][k].modes # <<>>

\* A mutant of Unref: the entry is deleted whatever its count.
UnrefDeletes(k) ==
    /\ gres' = [gres EXCEPT ![k] = Free]
    /\ gref' = [gref EXCEPT ![k] = 0]

\* ApplockUnrefGlobalCache
Unref(k) ==
    /\ gres' = [gres EXCEPT ![k] = IF gref[k] = 1 THEN Free ELSE @]
    /\ gref' = [gref EXCEPT ![k] = IF gres[k] = Free THEN @ ELSE @ - 1]

\* ++refcount of an entry that exists.
Ref(k) == /\ gref' = [gref EXCEPT ![k] = @ + 1]
          /\ UNCHANGED gres

NoCall == [kind |-> "none", resource |-> NoResource, mode |-> "none",
           owner |-> "Session", timeout |-> "none", key |-> NoKey]

Continue(s, label, c) ==
    /\ pc' = [pc EXCEPT ![s] = label]
    /\ call' = [call EXCEPT ![s] = c]

\* The call returns: 0, or the code named at the action.
Return(s) == Continue(s, "idle", NoCall)

-----------------------------------------------------------------------------
Init ==
    /\ gres = [k \in LockKeys |-> Free]
    /\ gref = [k \in LockKeys |-> 0]
    /\ local = [s \in Sessions |-> EmptyCache]
    /\ held = [s \in Sessions |-> NoLocks]
    /\ inTxn = [s \in Sessions |-> FALSE]
    /\ pc = [s \in Sessions |-> "idle"]
    /\ call = [s \in Sessions |-> NoCall]

(***************************************************************************)
(* _sp_getapplock_internal, called by sp_getapplock (kind "get") and, with *)
(* a time-out of 0, by APPLOCK_TEST (kind "test").                         *)
(***************************************************************************)

\* The call and the search of the global cache, under the shared lock.  Both
\* callers refuse a transaction lock outside a transaction block, with -999 or
\* an error, before anything is changed.
Search(s, kind, r, m, o, t) ==
    /\ pc[s] = "idle"
    /\ o \in OwnersOf[r]
    /\ o = "Transaction" => inTxn[s]
    /\ kind = "test" => t = "nowait"
    /\ \A k \in LockKeys : Len(local[s][k].modes) < MaxHold
    /\ LET c == [kind |-> kind, resource |-> r, mode |-> m, owner |-> o,
                 timeout |-> t, key |-> NoKey]
       IN  IF Matching(r) # {}
           THEN Continue(s, "ref", [c EXCEPT !.key = KeyGlobal(r)])
           ELSE Continue(s, "generate", c)
    /\ UNCHANGED <<gres, gref, local, held, inTxn>>

\* A mutant of RefFound: the count is not incremented.
RefFoundUncounted(s) ==
    /\ pc[s] = "ref"
    /\ gres[call[s].key] # Free
    /\ Continue(s, "acquire", call[s])
    /\ UNCHANGED <<gres, gref, local, held, inTxn>>

\* HASH_ENTER of the key found, under the exclusive lock: whatever entry is
\* there now gets a reference.
RefFound(s) ==
    /\ pc[s] = "ref"
    /\ gres[call[s].key] # Free
    /\ Ref(call[s].key)
    /\ Continue(s, "acquire", call[s])
    /\ UNCHANGED <<local, held, inTxn>>

\* The entry is gone: HASH_ENTER has made a new one, which is left as the
\* last Unref left its memory (no resource, no references).
RefVanished(s) ==
    /\ pc[s] = "ref"
    /\ gres[call[s].key] = Free
    /\ gres' = [gres EXCEPT ![call[s].key] = Blank]
    /\ Continue(s, "generate", [call[s] EXCEPT !.key = NoKey])
    /\ UNCHANGED <<gref, local, held, inTxn>>

\* Mutants of GenerateKey: the first free candidate is taken without a look at
\* the others; a new entry starts at 0; a match found late is not counted.
GenerateKeyBlindly(s) ==
    /\ pc[s] = "generate"
    /\ LET r == call[s].resource
           k == Candidate(r, First(Unused(r)))
       IN  /\ Unused(r) # {}
           /\ gres' = [gres EXCEPT ![k] = r]
           /\ gref' = [gref EXCEPT ![k] = 1]
           /\ Continue(s, "acquire", [call[s] EXCEPT !.key = k])
    /\ UNCHANGED <<local, held, inTxn>>

GenerateKeyFrom(s, first, more) ==
    /\ pc[s] = "generate"
    /\ LET r == call[s].resource
           k == IF Matching(r) # {} THEN KeyGlobal(r)
                ELSE Candidate(r, First(Unused(r)))
       IN  /\ Matching(r) \cup Unused(r) # {}
           /\ gres' = [gres EXCEPT ![k] = r]
           /\ gref' = [gref EXCEPT ![k] = IF Matching(r) # {} THEN @ + more
                                          ELSE first]
           /\ Continue(s, "acquire", [call[s] EXCEPT !.key = k])
    /\ UNCHANGED <<local, held, inTxn>>

GenerateKeyZero(s) == GenerateKeyFrom(s, 0, 1)
GenerateKeyUncounted(s) == GenerateKeyFrom(s, 1, 0)

\* A new key, under the exclusive lock: every candidate is examined before
\* the first one without an entry is taken.
GenerateKey(s) ==
    /\ pc[s] = "generate"
    /\ LET r == call[s].resource IN
       \/ /\ Matching(r) # {}
          /\ Ref(KeyGlobal(r))
          /\ Continue(s, "acquire", [call[s] EXCEPT !.key = KeyGlobal(r)])
       \/ /\ Matching(r) = {}
          /\ Unused(r) # {}
          /\ LET k == Candidate(r, First(Unused(r)))
             IN  /\ gres' = [gres EXCEPT ![k] = r]
                 /\ gref' = [gref EXCEPT ![k] = 1]
                 /\ Continue(s, "acquire", [call[s] EXCEPT !.key = k])
       \/ /\ Matching(r) = {}      \* no usable key: -999
          /\ Unused(r) = {}
          /\ Return(s)
          /\ UNCHANGED <<gres, gref>>
    /\ UNCHANGED <<local, held, inTxn>>

\* LockAcquire succeeds; the local entry is inserted or updated, and its owner
\* overwritten.  APPLOCK_TEST goes on to release the lock.
AcquireGranted(s) ==
    /\ pc[s] = "acquire"
    /\ Grantable(s)
    /\ LET c == call[s]
           k == c.key
       IN  /\ held' = [held EXCEPT ![s][<<k, c.owner, c.mode>>] = @ + 1]
           /\ local' = [local EXCEPT ![s][k] =
                           [resource |-> c.resource,
                            modes |-> <<c.mode>> \o local[s][k].modes,
                            owner |-> c.owner]]
    /\ IF call[s].kind = "test"
       THEN Continue(s, "search", call[s])
       ELSE Return(s)
    /\ UNCHANGED <<gres, gref, inTxn>>

\* Mutants of AcquireFails: the reference is kept; a time-out is not noticed.
AcquireFailsKeeping(s) ==
    /\ pc[s] = "acquire"
    /\ ~Grantable(s)
    /\ call[s].timeout \in {"nowait", "finite"} \/ Deadlocked(s)
    /\ Return(s)
    /\ UNCHANGED <<gres, gref, local, held, inTxn>>

AcquireFailsAtOnce(s) ==
    /\ pc[s] = "acquire"
    /\ ~Grantable(s)
    /\ call[s].timeout = "nowait"
    /\ Unref(call[s].key)
    /\ Return(s)
    /\ UNCHANGED <<local, held, inTxn>>

\* LockAcquire fails: not available at once (-999), timed out (-1), victim of a
\* deadlock (-3) or, in the next action, cancelled while waiting (-2).  The
\* reference to the key is dropped.
AcquireFails(s) ==
    /\ pc[s] = "acquire"
    /\ ~Grantable(s)
    /\ call[s].timeout \in {"nowait", "finite"} \/ Deadlocked(s)
    /\ Unref(call[s].key)
    /\ Return(s)
    /\ UNCHANGED <<local, held, inTxn>>

AcquireCancelled(s) ==
    /\ pc[s] = "acquire"
    /\ ~Grantable(s)
    /\ call[s].timeout # "nowait"
    /\ Unref(call[s].key)
    /\ Return(s)
    /\ UNCHANGED <<local, held, inTxn>>

(***************************************************************************)
(* _sp_releaseapplock_internal, called by sp_releaseapplock and, for the   *)
(* lock it has just acquired, by APPLOCK_TEST.                             *)
(***************************************************************************)

\* The search of the global cache.  When it finds nothing, the code releases
\* TsqlApplockSyncLock, which the search has released already: the server
\* raises an error, and the transaction, if any, is rolled back.
ReleaseSearch(s, c) ==
    /\ IF Matching(c.resource) # {}
       THEN Continue(s, "release", [c EXCEPT !.key = KeyGlobal(c.resource)])
       ELSE Continue(s, IF inTxn[s] THEN "cleanup" ELSE "idle", NoCall)
    /\ UNCHANGED <<gres, gref, local, held, inTxn>>

Release(s, r, o) ==
    /\ pc[s] = "idle"
    /\ o \in OwnersOf[r]
    /\ ReleaseSearch(s, [NoCall EXCEPT !.kind = "release", !.resource = r,
                                       !.owner = o])

TestRelease(s) ==
    /\ pc[s] = "search"
    /\ ReleaseSearch(s, call[s])

\* The session has an entry for the key, with this owner, and the lock
\* manager agrees that it holds the mode on top of the stack.
Releasable(s) ==
    LET k == call[s].key
        e == local[s][k]
    IN  /\ HasEntry(s, k)
        /\ e.owner = call[s].owner
        /\ held[s][<<k, e.owner, Head(e.modes)>>] > 0

\* What is left of an entry when the top of its stack is popped.
PopMode(e) == IF Len(e.modes) = 1 THEN NoEntry
              ELSE [e EXCEPT !.modes = Tail(@)]

ReleaseLock(s) ==
    /\ pc[s] = "release"
    /\ Releasable(s)
    /\ LET k == call[s].key
           e == local[s][k]
       IN  /\ held' = [held EXCEPT ![s][<<k, e.owner, Head(e.modes)>>] = @ - 1]
           /\ local' = [local EXCEPT ![s][k] = PopMode(e)]
    /\ Continue(s, "unref", call[s])
    /\ UNCHANGED <<gres, gref, inTxn>>

\* -999; APPLOCK_TEST, which cannot be left with the lock, panics.
ReleaseRefused(s) ==
    /\ pc[s] = "release"
    /\ ~Releasable(s)
    /\ Continue(s, IF call[s].kind = "test" THEN "panic" ELSE "idle", NoCall)
    /\ UNCHANGED <<gres, gref, local, held, inTxn>>

ReleaseUnref(s) ==
    /\ pc[s] = "unref"
    /\ Unref(call[s].key)
    /\ Return(s)
    /\ UNCHANGED <<local, held, inTxn>>

(***************************************************************************)
(* Transactions and sessions: the server calls ApplockRemoveCache when a   *)
(* transaction ends, and when the session does (release_session).          *)
(***************************************************************************)
BeginTransaction(s) ==
    /\ pc[s] = "idle"
    /\ ~inTxn[s]
    /\ inTxn' = [inTxn EXCEPT ![s] = TRUE]
    /\ UNCHANGED <<gres, gref, local, held, pc, call>>

EndTransaction(s) ==
    /\ pc[s] = "idle"
    /\ inTxn[s]
    /\ Continue(s, "cleanup", NoCall)
    /\ UNCHANGED <<gres, gref, local, held, inTxn>>

EndSession(s) ==
    /\ pc[s] = "idle"
    /\ Continue(s, "cleanup", [NoCall EXCEPT !.kind = "exit"])
    /\ UNCHANGED <<gres, gref, local, held, inTxn>>

\* FATAL while waiting in LockAcquire: PG_CATCH is not run, and the session
\* exits.  The reference it took to the key is in no local entry.
Terminated(s) ==
    /\ s \in Terminable
    /\ pc[s] = "acquire"
    /\ call[s].timeout # "nowait" /\ ~Grantable(s)
    /\ gref[call[s].key] <= MaxRefs
    /\ Continue(s, "cleanup", [NoCall EXCEPT !.kind = "exit"])
    /\ UNCHANGED <<gres, gref, local, held, inTxn>>

\* A mutant of Removable: the owner of an entry is not looked at.
RemovableAll(s) == {k \in LockKeys : HasEntry(s, k)}

\* The local entries ApplockRemoveCache removes.
Removable(s) ==
    {k \in LockKeys : /\ HasEntry(s, k)
                      /\ call[s].kind = "exit" \/ local[s][k].owner = "Transaction"}

\* One turn of its inner loop.  The entry loses one node of its stack for each
\* reference dropped, and the next entry is begun when none is left.
RemoveCache(s) ==
    /\ pc[s] = "cleanup"
    /\ \E k \in Removable(s) :
         /\ call[s].key \in {NoKey, k}
         /\ Unref(k)
         /\ local' = [local EXCEPT ![s][k] = PopMode(local[s][k])]
         /\ Continue(s, "cleanup", [call[s] EXCEPT !.key =
                       IF Len(local[s][k].modes) = 1 THEN NoKey ELSE k])
    /\ UNCHANGED <<held, inTxn>>

\* LockReleaseAll, once all the entries are gone.
ReleaseAll(s) ==
    /\ pc[s] = "cleanup"
    /\ Removable(s) = {}
    /\ held' = [held EXCEPT ![s] =
                  [l \in LockIds |->
                     IF call[s].kind = "exit" \/ l[2] = "Transaction"
                     THEN 0 ELSE held[s][l]]]
    /\ inTxn' = [inTxn EXCEPT ![s] = FALSE]
    /\ Return(s)
    /\ UNCHANGED <<gres, gref, local>>

-----------------------------------------------------------------------------
Step(s) == RefFound(s) \/ RefVanished(s) \/ GenerateKey(s)
           \/ AcquireGranted(s) \/ AcquireFails(s)
           \/ TestRelease(s) \/ ReleaseLock(s) \/ ReleaseRefused(s)
           \/ ReleaseUnref(s) \/ RemoveCache(s) \/ ReleaseAll(s)

Begin(s) == \/ \E kind \in {"get", "test"}, r \in Resources, m \in Modes,
                  o \in Owners, t \in Timeouts : Search(s, kind, r, m, o, t)
            \/ \E r \in Resources, o \in Owners : Release(s, r, o)
            \/ BeginTransaction(s) \/ EndTransaction(s) \/ EndSession(s)

Next == \E s \in Sessions :
            Step(s) \/ Begin(s) \/ AcquireCancelled(s) \/ Terminated(s)

Spec == Init /\ [][Next]_vars

-----------------------------------------------------------------------------
(* Properties. *)

Call == [kind : {"none", "get", "test", "release", "exit"},
         resource : Resources \cup {NoResource},
         mode : Modes \cup {"none"},
         owner : Owners,
         timeout : Timeouts \cup {"none"},
         key : LockKeys \cup {NoKey}]

Entry == [resource : Resources \cup {NoResource}, modes : Seq(Modes),
          owner : Owners]

Labels == {"idle", "ref", "generate", "acquire", "search", "release", "unref",
           "cleanup", "panic"}

\* The shape of the caches, of the lock manager's table and of a call; no count
\* of references or of locks goes below 0.
TypeOK ==
    /\ gres \in [LockKeys -> Resources \cup {Free, Blank}]
    /\ gref \in [LockKeys -> Nat]
    /\ local \in [Sessions -> [LockKeys -> Entry]]
    /\ held \in [Sessions -> [LockIds -> Nat]]
    /\ inTxn \in [Sessions -> BOOLEAN]
    /\ pc \in [Sessions -> Labels]
    /\ call \in [Sessions -> Call]

\* The number of references session s has on key k: one for each mode in its
\* local entry, and one for a lock it is waiting for or has just released.
Own(s, k) ==
    Len(local[s][k].modes)
    + (IF pc[s] \in {"acquire", "unref"} /\ call[s].key = k THEN 1 ELSE 0)

\* The references to key k, each session's own numbered from 1.
Numbered(count) == UNION {{s} \X (1 .. count[s]) : s \in Sessions}
RefsAt(k) == Numbered([s \in Sessions |-> Own(s, k)])

\* No two keys name the same resource: the search of every candidate under the
\* exclusive lock in ApplockGetUsableKey keeps a resource from getting a second
\* key while it has one.
UniqueKey ==
    \A j, k \in LockKeys : gres[j] \in Resources /\ gres[j] = gres[k] => j = k

\* The global count never falls below the references that exist, so a key with
\* a holder or a waiter is never given back, whatever the interleaving of
\* ApplockGetUsableKey, ApplockUnrefGlobalCache and ApplockRemoveCache.
RefcountCovers ==
    \A k \in LockKeys : /\ Cardinality(RefsAt(k)) <= gref[k]
                        /\ gres[k] = Free => gref[k] = 0

\* When no session is terminated while it waits, the global count is exact:
\* every path that takes a reference, the failing ones included, drops it once.
RefcountExact ==
    Terminable = {} => \A k \in LockKeys : gref[k] = Cardinality(RefsAt(k))

\* A key a session holds is, in the global cache, the key of the resource that
\* the session asked for: the release of a lock and the next request for the
\* resource both find the key through the global cache.
HolderKeyNamed ==
    \A s \in Sessions, k \in LockKeys :
        HasEntry(s, k) => gres[k] = local[s][k].resource

ModesHeld(s, r) ==
    UNION {{local[s][k].modes[i] : i \in 1 .. Len(local[s][k].modes)} :
              k \in {j \in LockKeys : local[s][j].resource = r}}

\* Two sessions never hold the same resource in modes that conflict in the
\* table of compatibility.
MutualExclusion ==
    \A s, t \in Sessions, r \in Resources :
        s # t => (ModesHeld(s, r) \X ModesHeld(t, r)) \cap Conflicts = {}

\* Outside ApplockRemoveCache a session's local cache lists the locks the lock
\* manager says it holds, mode by mode and owner by owner.
CacheMatchesLocks ==
    \A s \in Sessions : pc[s] # "cleanup" =>
        \A k \in LockKeys, o \in Owners, m \in Modes :
            held[s][<<k, o, m>>] =
                IF local[s][k].owner = o
                THEN Cardinality({i \in 1 .. Len(local[s][k].modes) :
                                      local[s][k].modes[i] = m})
                ELSE 0

\* The locks of the sessions are sound: no conflict, and the caches agree with
\* each other and with the lock manager.
LocksSound == TypeOK /\ MutualExclusion /\ HolderKeyNamed /\ CacheMatchesLocks

\* s has a lock on r with owner o, according to its local cache.
HoldsAs(s, r, o) ==
    \E k \in LockKeys : /\ HasEntry(s, k)
                        /\ local[s][k].resource = r
                        /\ local[s][k].owner = o

\* s takes a step of a release of r with owner o.
Releasing(s, r, o) ==
    \/ Release(s, r, o)
    \/ /\ call[s].resource = r
       /\ call[s].owner = o
       /\ TestRelease(s) \/ ReleaseLock(s) \/ ReleaseRefused(s)

\* The release of a lock the session holds with that owner is never refused,
\* raises no error and, in APPLOCK_TEST, does not panic.
OwnLockReleasable ==
    [][\A s \in Sessions, r \in Resources, o \in Owners :
          Releasing(s, r, o) /\ HoldsAs(s, r, o)
              => pc'[s] \in {"release", "unref"}]_vars

\* Every call comes back, and every end of a transaction or session completes,
\* when the requests have a finite time-out.
CallsReturn == \A s \in Sessions : pc[s] # "idle" ~> pc[s] = "idle"

=============================================================================
