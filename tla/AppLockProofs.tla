--------------------------- MODULE AppLockProofs ---------------------------
(***************************************************************************)
(* Proofs about AppLock, for any number of sessions, resources and keys,   *)
(* any hash function and any mixture of owners, time-outs and terminations.*)
(***************************************************************************)
EXTENDS AppLock, FiniteSetTheorems, WellFoundedInduction, TLAPS

-----------------------------------------------------------------------------
(* Keys. *)

\* A candidate is a key: the arithmetic of key = (key % INT64_MAX) + 1.
LEMMA CandidateIsKey ==
    ASSUME NEW r \in Resources, NEW i \in Tries
    PROVE  Candidate(r, i) \in LockKeys
BY HashAssumption DEF Candidate, LockKeys, Tries

\* A non-empty set of tries has a first element.
LEMMA FirstExists ==
    ASSUME NEW T \in SUBSET Tries, T # {}
    PROVE  First(T) \in T
<1> DEFINE R == {p \in Nat \X Nat : p[1] < p[2]}
<1>1. T \subseteq Nat
  BY HashAssumption DEF Tries
<1>2. IsWellFoundedOn(R, Nat)
  BY NatLessThanWellFounded, Zenon DEF OpToRel
<1>3. PICK i \in T : \A j \in T : ~(<<j, i>> \in R)
  BY <1>1, <1>2, WFMin
<1>4. ASSUME NEW j \in T
      PROVE  i <= j
  <2>1. i \in Nat /\ j \in Nat /\ <<j, i>> \notin R
    BY <1>1, <1>3
  <2>2. j < i => <<j, i>> \in R
    BY <2>1
  <2>. QED
    BY <2>1, <2>2
<1>. QED
  BY <1>4 DEF First

-----------------------------------------------------------------------------
(* Counting references: Numbered(count) has as many elements as all the    *)
(* counts together, so one more reference of a session is one more element.*)

\* The references to a key are finitely many.
LEMMA NumberedFinite ==
    ASSUME NEW count \in [Sessions -> Nat]
    PROVE  IsFiniteSet(Numbered(count))
<1> DEFINE F == [s \in Sessions |-> {s} \X (1 .. count[s])]
           T == {{s} \X (1 .. count[s]) : s \in Sessions}
<1>1. F \in Surjection(Sessions, T)
  BY DEF Surjection
<1>2. IsFiniteSet(T)
  BY <1>1, FS_Surjection, SessionsAssumption
<1>3. ASSUME NEW s \in Sessions
      PROVE  IsFiniteSet({s} \X (1 .. count[s]))
  <2>1. IsFiniteSet({s})
    BY FS_Singleton
  <2>2. IsFiniteSet(1 .. count[s])
    BY FS_Interval
  <2>. QED
    BY <2>1, <2>2, FS_Product
<1>4. IsFiniteSet(UNION T)
  BY <1>2, <1>3, FS_UNION
<1>. QED
  BY <1>4 DEF Numbered

\* One more reference of a session is one more element.
LEMMA NumberedMore ==
    ASSUME NEW count \in [Sessions -> Nat], NEW more \in [Sessions -> Nat],
           NEW s \in Sessions, more = [count EXCEPT ![s] = @ + 1]
    PROVE  Cardinality(Numbered(more)) = Cardinality(Numbered(count)) + 1
<1> DEFINE x == <<s, count[s] + 1>>
<1>1. x \notin Numbered(count)
  BY DEF Numbered
<1>2. Numbered(more) = Numbered(count) \cup {x}
  <2>1. ASSUME NEW y \in Numbered(more)
        PROVE  y \in Numbered(count) \cup {x}
    <3>1. PICK t \in Sessions : y \in {t} \X (1 .. more[t])
      BY DEF Numbered
    <3>2. PICK n \in 1 .. more[t] : y = <<t, n>>
      BY <3>1
    <3>3. CASE n \in 1 .. count[t]
      BY <3>2, <3>3 DEF Numbered
    <3>4. CASE n \notin 1 .. count[t]
      <4>1. t = s /\ n = count[s] + 1
        BY <3>2, <3>4
      <4>. QED
        BY <3>2, <4>1
    <3>. QED
      BY <3>3, <3>4
  <2>2. ASSUME NEW y \in Numbered(count)
        PROVE  y \in Numbered(more)
    <3>1. PICK t \in Sessions : y \in {t} \X (1 .. count[t])
      BY DEF Numbered
    <3>2. 1 .. count[t] \subseteq 1 .. more[t]
      OBVIOUS
    <3>. QED
      BY <3>1, <3>2 DEF Numbered
  <2>3. x \in Numbered(more)
    <3>1. x \in {s} \X (1 .. more[s])
      OBVIOUS
    <3>. QED
      BY <3>1 DEF Numbered
  <2>. QED
    BY <2>1, <2>2, <2>3
<1>3. IsFiniteSet(Numbered(count)) /\ Cardinality(Numbered(count)) \in Nat
  BY NumberedFinite, FS_CardinalityType
<1>. QED
  BY <1>1, <1>2, <1>3, FS_AddElement

\* What a change of one session's count does to the number of references.
LEMMA NumberedStep ==
    ASSUME NEW f \in [Sessions -> Nat], NEW g \in [Sessions -> Nat],
           NEW s \in Sessions, \A t \in Sessions \ {s} : g[t] = f[t]
    PROVE  /\ g[s] = f[s] => Cardinality(Numbered(g)) = Cardinality(Numbered(f))
           /\ g[s] = f[s] + 1 =>
                 Cardinality(Numbered(g)) = Cardinality(Numbered(f)) + 1
           /\ f[s] = g[s] + 1 =>
                 Cardinality(Numbered(f)) = Cardinality(Numbered(g)) + 1
<1>1. g[s] = f[s] => g = f
  OBVIOUS
<1>2. g[s] = f[s] + 1 => g = [f EXCEPT ![s] = @ + 1]
  OBVIOUS
<1>3. f[s] = g[s] + 1 => f = [g EXCEPT ![s] = @ + 1]
  OBVIOUS
<1>. QED
  BY <1>1, <1>2, <1>3, NumberedMore

\* A session with a reference makes the number of references positive.
LEMMA NumberedPositive ==
    ASSUME NEW f \in [Sessions -> Nat], NEW s \in Sessions, f[s] > 0
    PROVE  Cardinality(Numbered(f)) > 0
<1>1. <<s, 1>> \in Numbered(f)
  BY DEF Numbered
<1>. QED
  BY <1>1, NumberedFinite, FS_EmptySet, FS_CardinalityType

-----------------------------------------------------------------------------
(* The inductive invariant. *)

\* TypeOK, but for the sign of the reference counts.
Shape ==
    /\ gres \in [LockKeys -> Resources \cup {Free, Blank}]
    /\ gref \in [LockKeys -> Int]
    /\ local \in [Sessions -> [LockKeys -> Entry]]
    /\ held \in [Sessions -> [LockIds -> Nat]]
    /\ inTxn \in [Sessions -> BOOLEAN]
    /\ pc \in [Sessions -> Labels]
    /\ call \in [Sessions -> Call]

\* A call has the arguments and the key that its next step uses.
CallOK ==
    \A s \in Sessions :
        /\ pc[s] \in {"ref", "acquire", "release", "unref"} => call[s].key \in LockKeys
        /\ pc[s] \in {"ref", "generate", "acquire", "search"} =>
              call[s].resource \in Resources /\ call[s].mode \in Modes

\* The reference count of a key against the references to it.
CountOK(k) ==
    /\ gref[k] \in Nat
    /\ Cardinality(RefsAt(k)) <= gref[k]
    /\ gres[k] = Free => gref[k] = 0
    /\ Terminable = {} => gref[k] = Cardinality(RefsAt(k))

Counts == \A k \in LockKeys : CountOK(k)

\* A key that names a resource is one of its candidates.
CandidateKeys ==
    \A k \in LockKeys : gres[k] \in Resources =>
        \E i \in Tries : k = Candidate(gres[k], i)

IInv == Shape /\ CallOK /\ Counts /\ CandidateKeys /\ UniqueKey

\* The key found for a resource is a key that names it.
LEMMA KeyGlobalNames ==
    ASSUME NEW r \in Resources, Matching(r) # {}
    PROVE  KeyGlobal(r) \in LockKeys /\ gres[KeyGlobal(r)] = r
<1>1. First(Matching(r)) \in Matching(r)
  BY FirstExists DEF Matching
<1>. QED
  BY <1>1, CandidateIsKey DEF Matching, KeyGlobal

\* The candidate taken for a new entry is a key without one.
LEMMA UnusedIsFree ==
    ASSUME NEW r \in Resources, Unused(r) # {}
    PROVE  /\ First(Unused(r)) \in Tries
           /\ Candidate(r, First(Unused(r))) \in LockKeys
           /\ gres[Candidate(r, First(Unused(r)))] = Free
<1>1. First(Unused(r)) \in Unused(r)
  BY FirstExists DEF Unused
<1>. QED
  BY <1>1, CandidateIsKey DEF Unused

\* Popping a non-empty stack of modes shortens it by one.
LEMMA PopModeType ==
    ASSUME NEW e \in Entry, e.modes # <<>>
    PROVE  /\ PopMode(e) \in Entry
           /\ Len(PopMode(e).modes) = Len(e.modes) - 1
           /\ Len(e.modes) \in Nat \ {0}
           /\ Head(e.modes) \in Modes
BY DEF PopMode, Entry, NoEntry, Owners

-----------------------------------------------------------------------------
(* Shape and CallOK are preserved. *)

\* The arguments of a call.
LEMMA NoCallType == NoCall \in Call
BY DEF NoCall, Call, Owners

\* Storing the key found in the arguments of a call changes nothing else.
LEMMA WithKey ==
    ASSUME NEW c \in Call, NEW k \in LockKeys \cup {NoKey}
    PROVE  /\ [c EXCEPT !.key = k] \in Call
           /\ [c EXCEPT !.key = k].key = k
           /\ [c EXCEPT !.key = k].resource = c.resource
           /\ [c EXCEPT !.key = k].mode = c.mode
BY DEF Call

\* A step that continues or ends a call of one session.
LEMMA ContinueType ==
    ASSUME Shape, CallOK, NEW s \in Sessions, NEW l \in Labels, NEW c \in Call,
           Continue(s, l, c),
           l \in {"ref", "acquire", "release", "unref"} => c.key \in LockKeys,
           l \in {"ref", "generate", "acquire", "search"} =>
               c.resource \in Resources /\ c.mode \in Modes,
           gres' \in [LockKeys -> Resources \cup {Free, Blank}],
           gref' \in [LockKeys -> Int],
           local' \in [Sessions -> [LockKeys -> Entry]],
           held' \in [Sessions -> [LockIds -> Nat]],
           inTxn' \in [Sessions -> BOOLEAN]
    PROVE  Shape' /\ CallOK'
<1>1. /\ pc' \in [Sessions -> Labels]
      /\ call' \in [Sessions -> Call]
      /\ pc'[s] = l /\ call'[s] = c
      /\ \A t \in Sessions \ {s} : pc'[t] = pc[t] /\ call'[t] = call[t]
  BY DEF Shape, Continue
<1>2. Shape'
  BY <1>1 DEF Shape
<1>3. CallOK'
  BY <1>1 DEF CallOK
<1>. QED
  BY <1>2, <1>3

\* ApplockUnrefGlobalCache keeps the shape of the global cache.
LEMMA UnrefType ==
    ASSUME Shape, NEW k \in LockKeys, Unref(k)
    PROVE  /\ gres' \in [LockKeys -> Resources \cup {Free, Blank}]
           /\ gref' \in [LockKeys -> Int]
BY DEF Shape, Unref

\* A new reference keeps the shape of the global cache.
LEMMA RefType ==
    ASSUME Shape, NEW k \in LockKeys, Ref(k)
    PROVE  /\ gres' \in [LockKeys -> Resources \cup {Free, Blank}]
           /\ gref' \in [LockKeys -> Int]
BY DEF Shape, Ref

\* A step of a session that is in a call, or begins one, or begins or ends a
\* transaction: the shape of the state and of the calls is kept.
LEMMA ShapeStep ==
    ASSUME Shape, CallOK, NEW s \in Sessions,
           Step(s) \/ Begin(s) \/ AcquireCancelled(s) \/ Terminated(s)
    PROVE  Shape' /\ CallOK'
<1>1. /\ call[s] \in Call /\ pc[s] \in Labels
      /\ call[s].key \in LockKeys \cup {NoKey}
      /\ call[s].owner \in Owners
  BY DEF Shape, Call
<1>2. ASSUME NEW kind \in {"get", "test"}, NEW r \in Resources, NEW m \in Modes,
             NEW o \in Owners, NEW t \in Timeouts, Search(s, kind, r, m, o, t)
      PROVE  Shape' /\ CallOK'
  <2> DEFINE c == [kind |-> kind, resource |-> r, mode |-> m, owner |-> o,
                   timeout |-> t, key |-> NoKey]
  <2>1. c \in Call /\ c.resource = r /\ c.mode = m
    BY DEF Call
  <2> HIDE DEF c
  <2>2. CASE Matching(r) # {}
    <3>1. Continue(s, "ref", [c EXCEPT !.key = KeyGlobal(r)])
      BY <1>2, <2>2 DEF Search, c
    <3>2. KeyGlobal(r) \in LockKeys
      BY <2>2, KeyGlobalNames
    <3>3. UNCHANGED <<gres, gref, local, held, inTxn>>
      BY <1>2 DEF Search
    <3> DEFINE d == [c EXCEPT !.key = KeyGlobal(r)]
    <3>4. d \in Call /\ d.key = KeyGlobal(r) /\ d.resource = r /\ d.mode = m
      BY <2>1, <3>2, WithKey
    <3>5. Continue(s, "ref", d)
      BY <3>1
    <3> HIDE DEF d
    <3>. QED
      BY <3>2, <3>3, <3>4, <3>5, ContinueType DEF Shape, Labels
  <2>3. CASE Matching(r) = {}
    <3>1. Continue(s, "generate", c) /\ UNCHANGED <<gres, gref, local, held, inTxn>>
      BY <1>2, <2>3 DEF Search, c
    <3>. QED
      BY <2>1, <3>1, ContinueType DEF Shape, Labels
  <2>. QED
    BY <2>2, <2>3
<1>3. CASE RefFound(s)
  <2>1. call[s].key \in LockKeys /\ call[s].resource \in Resources /\ call[s].mode \in Modes
    BY <1>3 DEF CallOK, RefFound
  <2>. QED
    BY <1>1, <1>3, <2>1, ContinueType, RefType DEF RefFound, Shape, Labels
<1>4. CASE RefVanished(s)
  <2>1. call[s].key \in LockKeys /\ call[s].resource \in Resources /\ call[s].mode \in Modes
    BY <1>4 DEF CallOK, RefVanished
  <2>2. gres' \in [LockKeys -> Resources \cup {Free, Blank}]
    BY <1>4, <2>1 DEF RefVanished, Shape
  <2> DEFINE d == [call[s] EXCEPT !.key = NoKey]
  <2>3. Continue(s, "generate", d) /\ UNCHANGED <<gref, local, held, inTxn>>
    BY <1>4 DEF RefVanished
  <2>4. d \in Call /\ d.resource \in Resources /\ d.mode \in Modes
    BY <1>1, <2>1, WithKey
  <2> HIDE DEF d
  <2>. QED
    BY <2>2, <2>3, <2>4, ContinueType DEF Shape, Labels
<1>5. CASE GenerateKey(s)
  <2>1. call[s].resource \in Resources /\ call[s].mode \in Modes
    BY <1>5 DEF CallOK, GenerateKey
  <2> DEFINE r == call[s].resource
             k0 == Candidate(r, First(Unused(r)))
  <2>2. UNCHANGED <<local, held, inTxn>>
    BY <1>5 DEF GenerateKey
  <2>3. CASE Matching(r) # {}
    <3>1. KeyGlobal(r) \in LockKeys
      BY <2>1, <2>3, KeyGlobalNames
    <3>2. Ref(KeyGlobal(r)) /\ Continue(s, "acquire", [call[s] EXCEPT !.key = KeyGlobal(r)])
      BY <1>5, <2>3 DEF GenerateKey
    <3> DEFINE d == [call[s] EXCEPT !.key = KeyGlobal(r)]
    <3>3. d \in Call /\ d.key \in LockKeys /\ d.resource \in Resources /\ d.mode \in Modes
      BY <1>1, <2>1, <3>1, WithKey
    <3>4. Continue(s, "acquire", d)
      BY <3>2
    <3>5. /\ gres' \in [LockKeys -> Resources \cup {Free, Blank}]
          /\ gref' \in [LockKeys -> Int]
      BY <3>1, <3>2, RefType
    <3> HIDE DEF d
    <3>. QED
      BY <2>2, <3>3, <3>4, <3>5, ContinueType DEF Shape, Labels
  <2>4. CASE Matching(r) = {} /\ Unused(r) # {}
    <3>1. k0 \in LockKeys
      BY <2>1, <2>4, UnusedIsFree
    <3>2. /\ gres' = [gres EXCEPT ![k0] = r] /\ gref' = [gref EXCEPT ![k0] = 1]
          /\ Continue(s, "acquire", [call[s] EXCEPT !.key = k0])
      BY <1>5, <2>4 DEF GenerateKey
    <3>3. /\ gres' \in [LockKeys -> Resources \cup {Free, Blank}]
          /\ gref' \in [LockKeys -> Int]
      BY <2>1, <3>1, <3>2 DEF Shape
    <3> DEFINE d == [call[s] EXCEPT !.key = k0]
    <3>4. d \in Call /\ d.key \in LockKeys /\ d.resource \in Resources /\ d.mode \in Modes
      BY <1>1, <2>1, <3>1, WithKey
    <3>5. Continue(s, "acquire", d)
      BY <3>2
    <3> HIDE DEF d
    <3>. QED
      BY <2>2, <3>3, <3>4, <3>5, ContinueType DEF Shape, Labels
  <2>5. CASE Matching(r) = {} /\ Unused(r) = {}
    <3>1. Continue(s, "idle", NoCall) /\ UNCHANGED <<gres, gref>>
      BY <1>5, <2>5 DEF GenerateKey, Return
    <3>. QED
      BY <1>5, <3>1, NoCallType, ContinueType DEF GenerateKey, Shape, Labels
  <2>. QED
    BY <2>3, <2>4, <2>5
<1>6. CASE AcquireGranted(s)
  <2> DEFINE c == call[s]
             k == c.key
             e == [resource |-> c.resource, modes |-> <<c.mode>> \o local[s][k].modes,
                   owner |-> c.owner]
             l == <<k, c.owner, c.mode>>
  <2>1. k \in LockKeys /\ c.resource \in Resources /\ c.mode \in Modes /\ c.owner \in Owners
    BY <1>1, <1>6 DEF CallOK, AcquireGranted
  <2>2. e \in Entry
    BY <2>1 DEF Shape, Entry
  <2>3. l \in LockIds
    BY <2>1 DEF LockIds
  <2>4. held' \in [Sessions -> [LockIds -> Nat]]
    BY <1>6, <2>3 DEF AcquireGranted, Shape
  <2>5. local' \in [Sessions -> [LockKeys -> Entry]]
    BY <1>6, <2>1, <2>2 DEF AcquireGranted, Shape
  <2>6. Continue(s, "search", call[s]) \/ Continue(s, "idle", NoCall)
    BY <1>6 DEF AcquireGranted, Return
  <2>7. UNCHANGED <<gres, gref, inTxn>>
    BY <1>6 DEF AcquireGranted
  <2>. QED
    BY <1>1, <2>1, <2>4, <2>5, <2>6, <2>7, NoCallType, ContinueType
       DEF Shape, Labels
<1>7. CASE AcquireFails(s) \/ AcquireCancelled(s)
  <2>1. /\ call[s].key \in LockKeys /\ Unref(call[s].key)
        /\ Continue(s, "idle", NoCall) /\ UNCHANGED <<local, held, inTxn>>
    BY <1>7 DEF CallOK, AcquireFails, AcquireCancelled, Return
  <2>. QED
    BY <2>1, UnrefType, NoCallType, ContinueType DEF Shape, Labels
<1>8. ASSUME NEW c \in Call, c.resource \in Resources, ReleaseSearch(s, c)
      PROVE  Shape' /\ CallOK'
  <2>1. UNCHANGED <<gres, gref, local, held, inTxn>>
    BY <1>8 DEF ReleaseSearch
  <2>2. CASE Matching(c.resource) # {}
    <3>1. KeyGlobal(c.resource) \in LockKeys
      BY <1>8, <2>2, KeyGlobalNames
    <3> DEFINE d == [c EXCEPT !.key = KeyGlobal(c.resource)]
    <3>2. Continue(s, "release", d)
      BY <1>8, <2>2 DEF ReleaseSearch
    <3>4. d \in Call /\ d.key \in LockKeys
      BY <3>1, WithKey
    <3> HIDE DEF d
    <3>. QED
      BY <2>1, <3>2, <3>4, ContinueType DEF Shape, Labels
  <2>3. CASE Matching(c.resource) = {}
    <3>1. Continue(s, "cleanup", NoCall) \/ Continue(s, "idle", NoCall)
      BY <1>8, <2>3 DEF ReleaseSearch
    <3>. QED
      BY <2>1, <3>1, NoCallType, ContinueType DEF Shape, Labels
  <2>. QED
    BY <2>2, <2>3
<1>9. ASSUME NEW r \in Resources, NEW o \in Owners, Release(s, r, o)
      PROVE  Shape' /\ CallOK'
  <2> DEFINE c == [NoCall EXCEPT !.kind = "release", !.resource = r, !.owner = o]
  <2>1. c \in Call /\ c.resource = r
    BY DEF NoCall, Call
  <2>2. ReleaseSearch(s, c)
    BY <1>9 DEF Release
  <2>. QED
    BY <1>8, <2>1, <2>2
<1>10. CASE TestRelease(s)
  BY <1>1, <1>8, <1>10 DEF TestRelease, CallOK
<1>11. CASE ReleaseLock(s)
  <2> DEFINE k == call[s].key
             e == local[s][k]
             l == <<k, e.owner, Head(e.modes)>>
  <2>1. k \in LockKeys /\ e \in Entry /\ e.modes # <<>> /\ held[s][l] > 0
    BY <1>11 DEF ReleaseLock, CallOK, Shape, Releasable, HasEntry
  <2>2. l \in LockIds /\ PopMode(e) \in Entry
    BY <2>1, PopModeType DEF LockIds, Entry
  <2>3. /\ held' = [held EXCEPT ![s][l] = @ - 1]
        /\ local' = [local EXCEPT ![s][k] = PopMode(e)]
        /\ Continue(s, "unref", call[s]) /\ UNCHANGED <<gres, gref, inTxn>>
    BY <1>11 DEF ReleaseLock
  <2> HIDE DEF k, e, l
  <2>4. held' \in [Sessions -> [LockIds -> Nat]]
    BY <2>1, <2>2, <2>3 DEF Shape
  <2>5. local' \in [Sessions -> [LockKeys -> Entry]]
    BY <2>1, <2>2, <2>3 DEF Shape
  <2>. QED
    BY <1>1, <2>1, <2>3, <2>4, <2>5, ContinueType DEF Shape, Labels, k
<1>12. CASE ReleaseRefused(s)
  <2>1. Continue(s, "panic", NoCall) \/ Continue(s, "idle", NoCall)
    BY <1>12 DEF ReleaseRefused
  <2>. QED
    BY <1>12, <2>1, NoCallType, ContinueType DEF ReleaseRefused, Shape, Labels
<1>13. CASE ReleaseUnref(s)
  <2>1. /\ call[s].key \in LockKeys /\ Unref(call[s].key)
        /\ Continue(s, "idle", NoCall) /\ UNCHANGED <<local, held, inTxn>>
    BY <1>13 DEF CallOK, ReleaseUnref, Return
  <2>. QED
    BY <2>1, UnrefType, NoCallType, ContinueType DEF Shape, Labels
<1>14. CASE RemoveCache(s)
  <2>1. PICK k \in Removable(s) :
          /\ Unref(k)
          /\ local' = [local EXCEPT ![s][k] = PopMode(local[s][k])]
          /\ Continue(s, "cleanup", [call[s] EXCEPT !.key =
                        IF Len(local[s][k].modes) = 1 THEN NoKey ELSE k])
    BY <1>14 DEF RemoveCache
  <2>2. k \in LockKeys /\ local[s][k] \in Entry /\ local[s][k].modes # <<>>
    BY DEF Removable, HasEntry, Shape
  <2>3. local' \in [Sessions -> [LockKeys -> Entry]]
    BY <2>1, <2>2, PopModeType DEF Shape
  <2>4. [call[s] EXCEPT !.key = IF Len(local[s][k].modes) = 1 THEN NoKey ELSE k] \in Call
    BY <1>1, <2>2 DEF Call
  <2>. QED
    BY <1>14, <2>1, <2>2, <2>3, <2>4, UnrefType, ContinueType
       DEF RemoveCache, Shape, Labels
<1>15. CASE ReleaseAll(s)
  <2>1. held' \in [Sessions -> [LockIds -> Nat]]
    BY <1>15 DEF ReleaseAll, Shape
  <2>2. inTxn' \in [Sessions -> BOOLEAN]
    BY <1>15 DEF ReleaseAll, Shape
  <2>3. Continue(s, "idle", NoCall) /\ UNCHANGED <<gres, gref, local>>
    BY <1>15 DEF ReleaseAll, Return
  <2>. QED
    BY <2>1, <2>2, <2>3, NoCallType, ContinueType DEF Shape, Labels
<1>16. CASE BeginTransaction(s)
  <2>1. inTxn' \in [Sessions -> BOOLEAN] /\ UNCHANGED <<gres, gref, local, held, pc, call>>
    BY <1>16 DEF BeginTransaction, Shape
  <2>. QED
    BY <2>1 DEF Shape, CallOK
<1>17. CASE EndTransaction(s) \/ EndSession(s) \/ Terminated(s)
  <2>1. [NoCall EXCEPT !.kind = "exit"] \in Call
    BY NoCallType DEF Call
  <2>2. /\ \E c \in Call : Continue(s, "cleanup", c)
        /\ UNCHANGED <<gres, gref, local, held, inTxn>>
    BY <1>17, <2>1, NoCallType DEF EndTransaction, EndSession, Terminated
  <2>. QED
    BY <2>2, ContinueType DEF Shape, Labels
<1>. QED
  BY <1>2, <1>3, <1>4, <1>5, <1>6, <1>7, <1>9, <1>10, <1>11, <1>12, <1>13, <1>14,
     <1>15, <1>16, <1>17 DEF Step, Begin

-----------------------------------------------------------------------------
(* The reference counts. *)

\* The stack of modes of an entry has a length.
LEMMA StackLength ==
    ASSUME NEW e \in Entry
    PROVE  Len(e.modes) \in Nat
BY DEF Entry

\* The references of each session, and of all of them, are a number.
LEMMA OwnType ==
    ASSUME Shape, NEW k \in LockKeys
    PROVE  /\ \A s \in Sessions : Own(s, k) \in Nat
           /\ [s \in Sessions |-> Own(s, k)] \in [Sessions -> Nat]
           /\ Cardinality(RefsAt(k)) \in Nat
<1>1. \A s \in Sessions : local[s][k] \in Entry
  BY DEF Shape
<1>2. ASSUME NEW s \in Sessions
      PROVE  Own(s, k) \in Nat
  <2> DEFINE n == Len(local[s][k].modes)
             d == IF pc[s] \in {"acquire", "unref"} /\ call[s].key = k THEN 1 ELSE 0
  <2>1. n \in Nat
    BY <1>1, StackLength
  <2>2. d \in Nat
    OBVIOUS
  <2>3. Own(s, k) = n + d
    BY DEF Own
  <2> HIDE DEF n, d
  <2>. QED
    BY <2>1, <2>2, <2>3
<1>. QED
  BY <1>2, NumberedFinite, FS_CardinalityType DEF RefsAt

\* The same after a step.
LEMMA OwnTypeNext ==
    ASSUME Shape', NEW k \in LockKeys
    PROVE  /\ \A s \in Sessions : Own(s, k)' \in Nat
           /\ [s \in Sessions |-> Own(s, k)'] \in [Sessions -> Nat]
           /\ RefsAt(k)' = Numbered([s \in Sessions |-> Own(s, k)'])
           /\ Cardinality(RefsAt(k))' \in Nat
<1>1. \A s \in Sessions : local'[s][k] \in Entry
  BY DEF Shape
<1>2. ASSUME NEW s \in Sessions
      PROVE  Own(s, k)' \in Nat
  <2> DEFINE n == Len(local'[s][k].modes)
             d == IF pc'[s] \in {"acquire", "unref"} /\ call'[s].key = k THEN 1 ELSE 0
  <2>1. n \in Nat
    BY <1>1, StackLength
  <2>2. d \in Nat
    OBVIOUS
  <2>3. Own(s, k)' = n + d
    BY DEF Own
  <2> HIDE DEF n, d
  <2>. QED
    BY <2>1, <2>2, <2>3
<1>3. RefsAt(k)' = Numbered([s \in Sessions |-> Own(s, k)'])
  BY DEF RefsAt, Numbered
<1>. QED
  BY <1>2, <1>3, NumberedFinite, FS_CardinalityType

\* The number of references to a key, before and after a step of session s
\* that changes no other session's references.
LEMMA RefsStep ==
    ASSUME Shape, Shape', NEW k \in LockKeys, NEW s \in Sessions,
           \A t \in Sessions \ {s} : Own(t, k)' = Own(t, k)
    PROVE  /\ Own(s, k)' = Own(s, k) =>
                 Cardinality(RefsAt(k))' = Cardinality(RefsAt(k))
           /\ Own(s, k)' = Own(s, k) + 1 =>
                 Cardinality(RefsAt(k))' = Cardinality(RefsAt(k)) + 1
           /\ Own(s, k) = Own(s, k)' + 1 =>
                 Cardinality(RefsAt(k)) = Cardinality(RefsAt(k))' + 1
<1> DEFINE f == [t \in Sessions |-> Own(t, k)]
           g == [t \in Sessions |-> Own(t, k)']
<1>1. f \in [Sessions -> Nat] /\ f[s] = Own(s, k)
  BY OwnType
<1>3. g \in [Sessions -> Nat] /\ g[s] = Own(s, k)'
  BY OwnTypeNext
<1>4. \A t \in Sessions \ {s} : g[t] = f[t]
  OBVIOUS
<1>5. RefsAt(k) = Numbered(f) /\ RefsAt(k)' = Numbered(g)
  BY OwnTypeNext DEF RefsAt
<1> HIDE DEF f, g
<1>. QED
  BY <1>1, <1>3, <1>4, <1>5, NumberedStep

\* The counts after a step that changes nobody's references to k.
LEMMA QuietStep ==
    ASSUME Shape, Shape', NEW k \in LockKeys, NEW s \in Sessions, CountOK(k),
           \A t \in Sessions : Own(t, k)' = Own(t, k),
           gref'[k] = gref[k], gres'[k] = Free => gres[k] = Free
    PROVE  CountOK(k)'
<1>1. Cardinality(RefsAt(k))' = Cardinality(RefsAt(k))
  BY RefsStep
<1>. QED
  BY <1>1 DEF CountOK

\* The counts after a step by which s takes a reference to k.
LEMMA TakeStep ==
    ASSUME Shape, Shape', NEW k \in LockKeys, NEW s \in Sessions, CountOK(k),
           \A t \in Sessions \ {s} : Own(t, k)' = Own(t, k),
           Own(s, k)' = Own(s, k) + 1,
           gref'[k] = gref[k] + 1, gres'[k] # Free
    PROVE  CountOK(k)'
<1>1. Cardinality(RefsAt(k))' = Cardinality(RefsAt(k)) + 1
  BY RefsStep
<1>. QED
  BY <1>1, OwnType DEF CountOK

\* The counts after ApplockUnrefGlobalCache(k), when s drops a reference: the
\* count was at least 1, so it stays a natural number and the entry goes
\* exactly when it reaches 0.
LEMMA DropStep ==
    ASSUME Shape, Shape', NEW k \in LockKeys, NEW s \in Sessions, CountOK(k),
           \A t \in Sessions \ {s} : Own(t, k)' = Own(t, k),
           Own(s, k) = Own(s, k)' + 1, Unref(k)
    PROVE  CountOK(k)'
<1>1. Cardinality(RefsAt(k)) = Cardinality(RefsAt(k))' + 1
  BY RefsStep
<1>2. Cardinality(RefsAt(k))' \in Nat
  BY OwnTypeNext
<1>3. gref[k] \in Nat /\ gref[k] >= 1 /\ gres[k] # Free
  BY <1>1, <1>2 DEF CountOK
<1>4. gref'[k] = gref[k] - 1 /\ gres'[k] = IF gref[k] = 1 THEN Free ELSE gres[k]
  BY <1>3 DEF Unref, Shape
<1>. QED
  BY <1>1, <1>2, <1>3, <1>4 DEF CountOK

\* The counts after a session is terminated with a reference to k.
LEMMA LeakStep ==
    ASSUME Shape, Shape', NEW k \in LockKeys, NEW s \in Sessions, CountOK(k),
           \A t \in Sessions \ {s} : Own(t, k)' = Own(t, k),
           Own(s, k) = Own(s, k)' + 1,
           gref'[k] = gref[k], gres'[k] = gres[k], Terminable # {}
    PROVE  CountOK(k)'
<1>1. Cardinality(RefsAt(k)) = Cardinality(RefsAt(k))' + 1
  BY RefsStep
<1>2. Cardinality(RefsAt(k))' \in Nat
  BY OwnTypeNext
<1>. QED
  BY <1>1, <1>2 DEF CountOK

\* 1 when a call at label l with arguments c has a reference to k of its own.
Pending(l, c, k) == IF l \in {"acquire", "unref"} /\ c.key = k THEN 1 ELSE 0

\* Own, before and after a step that continues a call of s.
LEMMA OwnContinue ==
    ASSUME Shape, NEW s \in Sessions, NEW l, NEW c, Continue(s, l, c),
           \A t \in Sessions \ {s} : local'[t] = local[t], NEW k \in LockKeys
    PROVE  /\ \A t \in Sessions \ {s} : Own(t, k)' = Own(t, k)
           /\ Own(s, k) = Len(local[s][k].modes) + Pending(pc[s], call[s], k)
           /\ Own(s, k)' = Len(local'[s][k].modes) + Pending(l, c, k)
<1>1. /\ \A t \in Sessions \ {s} : pc'[t] = pc[t] /\ call'[t] = call[t]
      /\ pc'[s] = l /\ call'[s] = c
  BY DEF Shape, Continue
<1>. QED
  BY <1>1 DEF Own, Pending

\* A call that is continued without a change of anybody's references.
LEMMA QuietContinue ==
    ASSUME Shape, Shape', Counts, NEW s \in Sessions, NEW l, NEW c,
           Continue(s, l, c), UNCHANGED <<local, gref>>,
           pc[s] \notin {"acquire", "unref"}, l \notin {"acquire", "unref"},
           \A k \in LockKeys : gres'[k] = Free => gres[k] = Free
    PROVE  Counts'
<1> SUFFICES ASSUME NEW k \in LockKeys PROVE CountOK(k)'
  BY DEF Counts
<1>1. Pending(pc[s], call[s], k) = 0 /\ Pending(l, c, k) = 0
  BY DEF Pending
<1>2. \A t \in Sessions : Own(t, k)' = Own(t, k)
  BY <1>1, OwnContinue
<1>. QED
  BY <1>2, QuietStep DEF Counts

\* A call that takes a reference to j before it waits for the lock.
LEMMA TakeContinue ==
    ASSUME Shape, Shape', Counts, NEW s \in Sessions, NEW c, NEW j \in LockKeys,
           Continue(s, "acquire", c), c.key = j, UNCHANGED local,
           pc[s] \notin {"acquire", "unref"},
           gref'[j] = gref[j] + 1, gres'[j] # Free,
           \A k \in LockKeys \ {j} : gref'[k] = gref[k] /\ gres'[k] = gres[k]
    PROVE  Counts'
<1> SUFFICES ASSUME NEW k \in LockKeys PROVE CountOK(k)'
  BY DEF Counts
<1>1. Pending(pc[s], call[s], k) = 0 /\ Pending("acquire", c, k) = IF j = k THEN 1 ELSE 0
  BY DEF Pending
<1>2. /\ \A t \in Sessions \ {s} : Own(t, k)' = Own(t, k)
      /\ Own(s, k) = Len(local[s][k].modes) + Pending(pc[s], call[s], k)
      /\ Own(s, k)' = Len(local[s][k].modes) + Pending("acquire", c, k)
  BY OwnContinue
<1>3. Len(local[s][k].modes) \in Nat
  BY StackLength DEF Shape
<1>4. CASE k = j
  <2>1. Own(s, k)' = Own(s, k) + 1
    BY <1>1, <1>2, <1>3, <1>4
  <2>. QED
    BY <1>2, <1>4, <2>1, TakeStep DEF Counts
<1>5. CASE k # j
  <2>1. \A t \in Sessions : Own(t, k)' = Own(t, k)
    BY <1>1, <1>2, <1>3, <1>5
  <2>. QED
    BY <1>5, <2>1, QuietStep DEF Counts
<1>. QED
  BY <1>4, <1>5

\* A call that gives up the reference it was waiting with, or was about to drop.
LEMMA DropContinue ==
    ASSUME Shape, Shape', Counts, NEW s \in Sessions, NEW l, NEW c,
           NEW j \in LockKeys, Continue(s, l, c), UNCHANGED local,
           pc[s] \in {"acquire", "unref"}, call[s].key = j,
           l \notin {"acquire", "unref"},
           Unref(j) \/ (UNCHANGED <<gref, gres>> /\ Terminable # {})
    PROVE  Counts'
<1> SUFFICES ASSUME NEW k \in LockKeys PROVE CountOK(k)'
  BY DEF Counts
<1>1. Pending(l, c, k) = 0 /\ Pending(pc[s], call[s], k) = IF j = k THEN 1 ELSE 0
  BY DEF Pending
<1>2. /\ \A t \in Sessions \ {s} : Own(t, k)' = Own(t, k)
      /\ Own(s, k) = Len(local[s][k].modes) + Pending(pc[s], call[s], k)
      /\ Own(s, k)' = Len(local[s][k].modes) + Pending(l, c, k)
  BY OwnContinue
<1>3. Len(local[s][k].modes) \in Nat
  BY StackLength DEF Shape
<1>4. CASE k = j
  <2>1. Own(s, k) = Own(s, k)' + 1
    BY <1>1, <1>2, <1>3, <1>4
  <2>. QED
    BY <1>2, <1>4, <2>1, DropStep, LeakStep DEF Counts
<1>5. CASE k # j
  <2>1. \A t \in Sessions : Own(t, k)' = Own(t, k)
    BY <1>1, <1>2, <1>3, <1>5
  <2>2. gref'[k] = gref[k] /\ gres'[k] = gres[k]
    BY <1>5 DEF Unref, Shape
  <2>. QED
    BY <2>1, <2>2, QuietStep DEF Counts
<1>. QED
  BY <1>4, <1>5

\* The lock is granted: the reference passes from the call to the local entry.
LEMMA GrantedCounts ==
    ASSUME Shape, CallOK, Shape', Counts, NEW s \in Sessions, AcquireGranted(s)
    PROVE  Counts'
<1> SUFFICES ASSUME NEW k \in LockKeys PROVE CountOK(k)'
  BY DEF Counts
<1>1. PICK j \in LockKeys : j = call[s].key
  BY DEF AcquireGranted, CallOK
<1>2. call[s].mode \in Modes /\ pc[s] = "acquire"
  BY DEF AcquireGranted, CallOK
<1>3. PICK l \in {"search", "idle"} : \E c : Continue(s, l, c)
  BY DEF AcquireGranted, Return
<1>4. PICK c : Continue(s, l, c)
  BY <1>3, SMTT(30)
<1>5. /\ \A t \in Sessions \ {s} : local'[t] = local[t]
      /\ local'[s][j].modes = <<call[s].mode>> \o local[s][j].modes
      /\ k # j => local'[s][k] = local[s][k]
  BY <1>1 DEF AcquireGranted, Shape
<1>6. local[s][k] \in Entry /\ local[s][j].modes \in Seq(Modes)
  BY <1>1 DEF Shape, Entry
<1>7. Len(local[s][k].modes) \in Nat
  BY <1>6, StackLength
<1>8. Len(local'[s][j].modes) = Len(local[s][j].modes) + 1
  BY <1>2, <1>5, <1>6
<1>9. Pending(l, c, k) = 0 /\ Pending(pc[s], call[s], k) = IF k = j THEN 1 ELSE 0
  BY <1>1, <1>2 DEF Pending
<1>10. /\ \A t \in Sessions \ {s} : Own(t, k)' = Own(t, k)
       /\ Own(s, k) = Len(local[s][k].modes) + Pending(pc[s], call[s], k)
       /\ Own(s, k)' = Len(local'[s][k].modes) + Pending(l, c, k)
  BY <1>4, <1>5, OwnContinue
<1>11. CASE k = j
  <2>1. Own(s, k)' = Own(s, k)
    BY <1>7, <1>8, <1>9, <1>10, <1>11
  <2>. QED
    BY <1>10, <2>1, QuietStep DEF Counts, AcquireGranted
<1>12. CASE k # j
  <2>1. Own(s, k)' = Own(s, k)
    BY <1>5, <1>9, <1>10, <1>12
  <2>. QED
    BY <1>10, <2>1, QuietStep DEF Counts, AcquireGranted
<1>. QED
  BY <1>11, <1>12

\* The lock is released: the reference passes from the local entry to the call.
LEMMA ReleasedCounts ==
    ASSUME Shape, CallOK, Shape', Counts, NEW s \in Sessions, ReleaseLock(s)
    PROVE  Counts'
<1> SUFFICES ASSUME NEW k \in LockKeys PROVE CountOK(k)'
  BY DEF Counts
<1>1. PICK j \in LockKeys : j = call[s].key
  BY DEF ReleaseLock, CallOK
<1>2. pc[s] = "release" /\ Continue(s, "unref", call[s])
  BY DEF ReleaseLock
<1>3. local[s][j] \in Entry /\ local[s][k] \in Entry
  BY DEF Shape
<1>4. local[s][j].modes # <<>>
  BY <1>1 DEF ReleaseLock, Releasable, HasEntry
<1>5. /\ \A t \in Sessions \ {s} : local'[t] = local[t]
      /\ local'[s][j] = PopMode(local[s][j])
      /\ k # j => local'[s][k] = local[s][k]
  BY <1>1 DEF ReleaseLock, Shape
<1>6. /\ Len(local'[s][j].modes) = Len(local[s][j].modes) - 1
      /\ Len(local[s][j].modes) \in Nat
  BY <1>3, <1>4, <1>5, PopModeType, StackLength
<1>7. /\ Pending(pc[s], call[s], k) = 0
      /\ Pending("unref", call[s], k) = IF k = j THEN 1 ELSE 0
  BY <1>1, <1>2 DEF Pending
<1>8. /\ \A t \in Sessions \ {s} : Own(t, k)' = Own(t, k)
      /\ Own(s, k) = Len(local[s][k].modes) + Pending(pc[s], call[s], k)
      /\ Own(s, k)' = Len(local'[s][k].modes) + Pending("unref", call[s], k)
  BY <1>2, <1>5, OwnContinue, SMTT(30)
<1>9. CASE k = j
  <2>1. Own(s, k)' = Own(s, k)
    BY <1>6, <1>7, <1>8, <1>9
  <2>. QED
    BY <1>8, <2>1, QuietStep DEF Counts, ReleaseLock
<1>10. CASE k # j
  <2>1. Own(s, k)' = Own(s, k)
    BY <1>5, <1>7, <1>8, <1>10
  <2>. QED
    BY <1>8, <2>1, QuietStep DEF Counts, ReleaseLock
<1>. QED
  BY <1>9, <1>10

\* A turn of the loop of ApplockRemoveCache drops one reference of one entry.
LEMMA RemovedCounts ==
    ASSUME Shape, CallOK, Shape', Counts, NEW s \in Sessions, RemoveCache(s)
    PROVE  Counts'
<1> SUFFICES ASSUME NEW k \in LockKeys PROVE CountOK(k)'
  BY DEF Counts
<1>1. PICK j \in Removable(s) :
          /\ Unref(j)
          /\ local' = [local EXCEPT ![s][j] = PopMode(local[s][j])]
          /\ \E c : Continue(s, "cleanup", c)
  BY DEF RemoveCache
<1>2. PICK c : Continue(s, "cleanup", c)
  BY <1>1
<1>3. /\ j \in LockKeys /\ pc[s] = "cleanup"
      /\ local[s][j] \in Entry /\ local[s][j].modes # <<>> /\ local[s][k] \in Entry
  BY DEF Removable, HasEntry, Shape, RemoveCache
<1>4. /\ \A t \in Sessions \ {s} : local'[t] = local[t]
      /\ local'[s][j] = PopMode(local[s][j])
      /\ k # j => local'[s][k] = local[s][k]
  BY <1>1, <1>3 DEF Shape
<1>5. /\ Len(local'[s][j].modes) = Len(local[s][j].modes) - 1
      /\ Len(local[s][j].modes) \in Nat
      /\ Len(local[s][k].modes) \in Nat
  BY <1>3, <1>4, PopModeType, StackLength
<1>6. Pending(pc[s], call[s], k) = 0 /\ Pending("cleanup", c, k) = 0
  BY <1>3 DEF Pending
<1>7. /\ \A t \in Sessions \ {s} : Own(t, k)' = Own(t, k)
      /\ Own(s, k) = Len(local[s][k].modes) + Pending(pc[s], call[s], k)
      /\ Own(s, k)' = Len(local'[s][k].modes) + Pending("cleanup", c, k)
  BY <1>2, <1>4, OwnContinue
<1>8. CASE k = j
  <2>1. Own(s, k) = Own(s, k)' + 1
    BY <1>5, <1>6, <1>7, <1>8
  <2>. QED
    BY <1>1, <1>7, <1>8, <2>1, DropStep DEF Counts
<1>9. CASE k # j
  <2>1. Own(s, k)' = Own(s, k)
    BY <1>4, <1>6, <1>7, <1>9
  <2>2. gref'[k] = gref[k] /\ gres'[k] = gres[k]
    BY <1>1, <1>9 DEF Unref, Shape
  <2>. QED
    BY <1>7, <2>1, <2>2, QuietStep DEF Counts
<1>. QED
  BY <1>8, <1>9

\* Every step keeps the reference counts.
LEMMA CountStep ==
    ASSUME Shape, CallOK, Counts, Shape', NEW s \in Sessions,
           Step(s) \/ Begin(s) \/ AcquireCancelled(s) \/ Terminated(s)
    PROVE  Counts'
<1>1. ASSUME NEW kind, NEW r \in Resources, NEW m, NEW o, NEW t,
             Search(s, kind, r, m, o, t)
      PROVE  Counts'
  <2>1. /\ pc[s] = "idle" /\ UNCHANGED <<gres, gref, local>>
        /\ \E l \in {"ref", "generate"} : \E c : Continue(s, l, c)
    BY <1>1, SMTT(30) DEF Search
  <2>. QED
    BY <2>1, QuietContinue
<1>2. CASE RefFound(s)
  <2>1. PICK j \in LockKeys : j = call[s].key
    BY <1>2 DEF RefFound, CallOK
  <2>2. /\ pc[s] = "ref" /\ gres[j] # Free /\ Ref(j) /\ UNCHANGED local
        /\ Continue(s, "acquire", call[s])
    BY <1>2, <2>1 DEF RefFound
  <2>3. /\ gref'[j] = gref[j] + 1 /\ gres'[j] # Free
        /\ \A k \in LockKeys \ {j} : gref'[k] = gref[k] /\ gres'[k] = gres[k]
    BY <2>2 DEF Ref, Shape
  <2>. QED
    BY <2>1, <2>2, <2>3, TakeContinue
<1>3. CASE RefVanished(s)
  <2>1. /\ pc[s] = "ref" /\ UNCHANGED <<gref, local>>
        /\ \E c : Continue(s, "generate", c)
    BY <1>3 DEF RefVanished
  <2>2. \A k \in LockKeys : gres'[k] = Free => gres[k] = Free
    BY <1>3 DEF RefVanished, Shape, Free, Blank
  <2>. QED
    BY <2>1, <2>2, QuietContinue
<1>4. CASE GenerateKey(s)
  <2>1. PICK r \in Resources : r = call[s].resource
    BY <1>4 DEF GenerateKey, CallOK
  <2>2. pc[s] = "generate" /\ UNCHANGED local /\ call[s] \in Call
    BY <1>4 DEF GenerateKey, Shape
  <2>3. CASE Matching(r) # {}
    <3>1. PICK j \in LockKeys : j = KeyGlobal(r) /\ gres[j] = r
      BY <2>3, KeyGlobalNames
    <3>2. Ref(j) /\ Continue(s, "acquire", [call[s] EXCEPT !.key = j])
      BY <1>4, <2>1, <2>3, <3>1 DEF GenerateKey
    <3>3. [call[s] EXCEPT !.key = j].key = j
      BY <2>2, WithKey
    <3>4. /\ gref'[j] = gref[j] + 1 /\ gres'[j] # Free
          /\ \A k \in LockKeys \ {j} : gref'[k] = gref[k] /\ gres'[k] = gres[k]
      BY <3>1, <3>2, ResourcesAssumption DEF Ref, Shape
    <3>. QED
      BY <2>2, <3>2, <3>3, <3>4, TakeContinue
  <2>4. CASE Matching(r) = {} /\ Unused(r) # {}
    <3>1. PICK j \in LockKeys : j = Candidate(r, First(Unused(r))) /\ gres[j] = Free
      BY <2>4, UnusedIsFree
    <3>2. /\ gres' = [gres EXCEPT ![j] = r] /\ gref' = [gref EXCEPT ![j] = 1]
          /\ Continue(s, "acquire", [call[s] EXCEPT !.key = j])
      BY <1>4, <2>1, <2>4, <3>1 DEF GenerateKey
    <3>3. [call[s] EXCEPT !.key = j].key = j
      BY <2>2, WithKey
    <3>4. gref[j] = 0
      BY <3>1 DEF Counts, CountOK
    <3>5. /\ gref'[j] = gref[j] + 1 /\ gres'[j] # Free
          /\ \A k \in LockKeys \ {j} : gref'[k] = gref[k] /\ gres'[k] = gres[k]
      BY <3>2, <3>4, ResourcesAssumption DEF Shape
    <3>. QED
      BY <2>2, <3>2, <3>3, <3>5, TakeContinue
  <2>5. CASE Matching(r) = {} /\ Unused(r) = {}
    <3>1. Continue(s, "idle", NoCall) /\ UNCHANGED <<gres, gref>>
      BY <1>4, <2>1, <2>5 DEF GenerateKey, Return
    <3>. QED
      BY <2>2, <3>1, QuietContinue
  <2>. QED
    BY <2>3, <2>4, <2>5
<1>5. CASE AcquireFails(s) \/ AcquireCancelled(s) \/ ReleaseUnref(s) \/ Terminated(s)
  <2>1. PICK j \in LockKeys : j = call[s].key
    BY <1>5 DEF CallOK, AcquireFails, AcquireCancelled, ReleaseUnref, Terminated
  <2>2. PICK l \in {"idle", "cleanup"} : \E c : Continue(s, l, c)
    BY <1>5 DEF AcquireFails, AcquireCancelled, ReleaseUnref, Terminated, Return
  <2>3. PICK c : Continue(s, l, c)
    BY <2>2
  <2>4. /\ UNCHANGED local /\ pc[s] \in {"acquire", "unref"}
        /\ Unref(j) \/ (UNCHANGED <<gref, gres>> /\ Terminable # {})
    BY <1>5, <2>1 DEF AcquireFails, AcquireCancelled, ReleaseUnref, Terminated
  <2>. QED
    BY <2>1, <2>3, <2>4, DropContinue
<1>6. ASSUME NEW c, ReleaseSearch(s, c), pc[s] \in {"idle", "search"}
      PROVE  Counts'
  <2>1. /\ UNCHANGED <<gres, gref, local>>
        /\ \E l \in {"release", "cleanup", "idle"} : \E d : Continue(s, l, d)
    BY <1>6 DEF ReleaseSearch
  <2>. QED
    BY <1>6, <2>1, QuietContinue
<1>7. ASSUME NEW r, NEW o, Release(s, r, o)
      PROVE  Counts'
  BY <1>6, <1>7 DEF Release
<1>8. CASE TestRelease(s)
  BY <1>6, <1>8 DEF TestRelease
<1>9. CASE ReleaseRefused(s) \/ ReleaseAll(s) \/ EndTransaction(s) \/ EndSession(s)
  <2>1. /\ UNCHANGED <<gres, gref, local>> /\ pc[s] \in {"release", "cleanup", "idle"}
        /\ \E l \in {"idle", "panic", "cleanup"} : \E c : Continue(s, l, c)
    BY <1>9 DEF ReleaseRefused, ReleaseAll, EndTransaction, EndSession, Return
  <2>. QED
    BY <2>1, QuietContinue
<1>10. CASE BeginTransaction(s)
  <2>1. UNCHANGED <<gres, gref, local, pc, call>>
    BY <1>10 DEF BeginTransaction
  <2>2. \A k \in LockKeys, t \in Sessions : Own(t, k)' = Own(t, k)
    BY <2>1 DEF Own
  <2>. QED
    BY <2>1, <2>2, QuietStep DEF Counts
<1>. QED
  BY <1>1, <1>2, <1>3, <1>4, <1>5, <1>7, <1>8, <1>9, <1>10, GrantedCounts,
     ReleasedCounts, RemovedCounts DEF Step, Begin

-----------------------------------------------------------------------------
(* The keys of resources. *)

\* A step that names no new resource keeps the keys of the resources.
LEMMA NamesKept ==
    ASSUME Shape, CandidateKeys, UniqueKey,
           \A k \in LockKeys : gres'[k] \in {gres[k], Free, Blank}
    PROVE  CandidateKeys' /\ UniqueKey'
<1>1. \A k \in LockKeys : gres'[k] \in Resources => gres'[k] = gres[k]
  BY ResourcesAssumption
<1>. QED
  BY <1>1 DEF CandidateKeys, UniqueKey

\* Every step keeps the key of a resource unique.  Only ApplockGetUsableKey
\* gives a key to a resource, when no candidate of the resource names it; and a
\* key that names a resource is one of its candidates.
LEMMA KeyStep ==
    ASSUME Shape, CallOK, CandidateKeys, UniqueKey, NEW s \in Sessions,
           Step(s) \/ Begin(s) \/ AcquireCancelled(s) \/ Terminated(s)
    PROVE  CandidateKeys' /\ UniqueKey'
<1>1. CASE UNCHANGED gres
  BY <1>1, NamesKept
<1>2. ASSUME NEW j \in LockKeys, Unref(j)
      PROVE  CandidateKeys' /\ UniqueKey'
  <2>1. \A k \in LockKeys : gres'[k] \in {gres[k], Free, Blank}
    BY <1>2 DEF Unref, Shape
  <2>. QED
    BY <2>1, NamesKept
<1>3. CASE RefVanished(s)
  <2>1. \A k \in LockKeys : gres'[k] \in {gres[k], Free, Blank}
    BY <1>3 DEF RefVanished, Shape
  <2>. QED
    BY <2>1, NamesKept
<1>4. CASE GenerateKey(s)
  <2>1. PICK r \in Resources : r = call[s].resource
    BY <1>4 DEF GenerateKey, CallOK
  <2>2. CASE Matching(r) = {} /\ Unused(r) # {}
    <3> DEFINE i == First(Unused(r))
               j == Candidate(r, i)
    <3>1. i \in Tries /\ j \in LockKeys /\ gres[j] = Free
      BY <2>2, UnusedIsFree
    <3>2. gres' = [gres EXCEPT ![j] = r]
      BY <1>4, <2>1, <2>2 DEF GenerateKey
    <3>3. gres'[j] = r /\ \A k \in LockKeys \ {j} : gres'[k] = gres[k]
      BY <3>1, <3>2 DEF Shape
    <3>4. \A k \in LockKeys : gres[k] # r
      BY <2>2 DEF CandidateKeys, Matching
    <3>5. UniqueKey'
      BY <3>3, <3>4 DEF UniqueKey
    <3>6. ASSUME NEW k \in LockKeys, gres'[k] \in Resources
          PROVE  \E n \in Tries : k = Candidate(gres'[k], n)
      BY <3>1, <3>3, <3>6 DEF CandidateKeys
    <3>7. CandidateKeys'
      BY <3>6 DEF CandidateKeys, Candidate
    <3>. QED
      BY <3>5, <3>7
  <2>3. CASE ~(Matching(r) = {} /\ Unused(r) # {})
    <3>1. UNCHANGED gres
      BY <1>4, <2>1, <2>3 DEF GenerateKey, Ref
    <3>. QED
      BY <1>1, <3>1
  <2>. QED
    BY <2>2, <2>3
<1>5. CASE AcquireFails(s) \/ AcquireCancelled(s) \/ ReleaseUnref(s)
  BY <1>2, <1>5 DEF AcquireFails, AcquireCancelled, ReleaseUnref, CallOK
<1>6. CASE RemoveCache(s)
  BY <1>2, <1>6 DEF RemoveCache, Removable
<1>7. ASSUME NEW kind, NEW r, NEW m, NEW o, NEW t, Search(s, kind, r, m, o, t)
      PROVE  UNCHANGED gres
  BY <1>7 DEF Search
<1>8. ASSUME NEW r, NEW o, Release(s, r, o)
      PROVE  UNCHANGED gres
  BY <1>8 DEF Release, ReleaseSearch
<1>9. CASE \/ RefFound(s) \/ AcquireGranted(s) \/ TestRelease(s) \/ ReleaseLock(s)
           \/ ReleaseRefused(s) \/ ReleaseAll(s) \/ BeginTransaction(s)
           \/ EndTransaction(s) \/ EndSession(s) \/ Terminated(s)
  <2>1. UNCHANGED gres
    BY <1>9 DEF RefFound, Ref, AcquireGranted, TestRelease, ReleaseSearch, ReleaseLock,
       ReleaseRefused, ReleaseAll, BeginTransaction, EndTransaction, EndSession,
       Terminated
  <2>. QED
    BY <1>1, <2>1
<1>. QED
  BY <1>1, <1>3, <1>4, <1>5, <1>6, <1>7, <1>8, <1>9 DEF Step, Begin

-----------------------------------------------------------------------------
(* The theorems. *)

\* The inductive invariant holds when the server starts.
LEMMA InvariantInit == Init => IInv
<1> SUFFICES ASSUME Init PROVE IInv
  OBVIOUS
<1>1. NoEntry \in Entry
  BY DEF NoEntry, Entry, Owners
<1>2. Shape
  <2>1. local \in [Sessions -> [LockKeys -> Entry]]
    BY <1>1 DEF Init, EmptyCache
  <2>2. call \in [Sessions -> Call]
    BY NoCallType DEF Init
  <2>3. held \in [Sessions -> [LockIds -> Nat]]
    BY DEF Init, NoLocks
  <2>4. pc \in [Sessions -> Labels] /\ inTxn \in [Sessions -> BOOLEAN]
    BY DEF Init, Labels
  <2>5. gres \in [LockKeys -> Resources \cup {Free, Blank}] /\ gref \in [LockKeys -> Int]
    BY DEF Init
  <2>. QED
    BY <2>1, <2>2, <2>3, <2>4, <2>5 DEF Shape
<1>3. CallOK
  BY DEF Init, CallOK
<1>4. ASSUME NEW k \in LockKeys
      PROVE  CountOK(k)
  <2>1. ASSUME NEW s \in Sessions
        PROVE  Own(s, k) = 0
    <3>1. local[s][k].modes = <<>> /\ pc[s] = "idle"
      BY DEF Init, EmptyCache, NoEntry
    <3>2. Len(local[s][k].modes) = 0
      BY <3>1
    <3>3. (IF pc[s] \in {"acquire", "unref"} /\ call[s].key = k THEN 1 ELSE 0) = 0
      BY <3>1
    <3>4. Own(s, k) = 0 + 0
      BY <3>2, <3>3, Zenon DEF Own
    <3>. QED
      BY <3>4
  <2>2. RefsAt(k) = {}
    BY <2>1 DEF RefsAt, Numbered
  <2>3. Cardinality(RefsAt(k)) = 0
    BY <2>2, FS_EmptySet
  <2>4. gref[k] = 0
    BY DEF Init
  <2>. QED
    BY <2>3, <2>4 DEF CountOK
<1>5. \A k \in LockKeys : gres[k] \notin Resources
  BY ResourcesAssumption DEF Init
<1>6. CandidateKeys /\ UniqueKey
  BY <1>5 DEF CandidateKeys, UniqueKey
<1>. QED
  BY <1>2, <1>3, <1>4, <1>6 DEF IInv, Counts

\* Every step, and stuttering, keeps the inductive invariant.
LEMMA InvariantStep == IInv /\ [Next]_vars => IInv'
<1> SUFFICES ASSUME IInv, [Next]_vars PROVE IInv'
  OBVIOUS
<1>1. CASE Next
  <2>1. PICK s \in Sessions :
            Step(s) \/ Begin(s) \/ AcquireCancelled(s) \/ Terminated(s)
    BY <1>1 DEF Next
  <2>2. Shape' /\ CallOK'
    BY <2>1, ShapeStep DEF IInv
  <2>3. Counts'
    BY <2>1, <2>2, CountStep DEF IInv
  <2>4. CandidateKeys' /\ UniqueKey'
    BY <2>1, KeyStep DEF IInv
  <2>. QED
    BY <2>2, <2>3, <2>4 DEF IInv
<1>2. CASE UNCHANGED vars
  <2>1. Shape' /\ CallOK'
    BY <1>2 DEF vars, IInv, Shape, CallOK
  <2>2. ASSUME NEW k \in LockKeys
        PROVE  CountOK(k)'
    <3>1. \A t \in Sessions : Own(t, k)' = Own(t, k)
      BY <1>2 DEF vars, Own
    <3>2. RefsAt(k)' = RefsAt(k)
      BY <2>1, <3>1, OwnTypeNext DEF RefsAt
    <3>3. UNCHANGED <<gres, gref>> /\ CountOK(k)
      BY <1>2 DEF vars, IInv, Counts
    <3>. QED
      BY <3>2, <3>3 DEF CountOK
  <2>3. CandidateKeys' /\ UniqueKey'
    BY <1>2 DEF vars, IInv, CandidateKeys, UniqueKey, Candidate
  <2>. QED
    BY <2>1, <2>2, <2>3 DEF IInv, Counts
<1>. QED
  BY <1>1, <1>2

\* The invariant always holds: the caches and the calls are well formed, the
\* counts cover the references and no resource has two keys.
THEOREM Invariance == Spec => []IInv
BY InvariantInit, InvariantStep, PTL DEF Spec

\* The caches, the lock table and the calls keep their shape, and no count of
\* the global cache goes below 0 whatever the order of Unref calls.
THEOREM TypeCorrectness == Spec => []TypeOK
<1>1. IInv => TypeOK
  BY DEF IInv, Shape, Counts, CountOK, TypeOK
<1>. QED
  BY <1>1, Invariance, PTL

\* ApplockGetUsableKey never gives a resource a second key while it has one.
THEOREM KeysAreUnique == Spec => []UniqueKey
<1>1. IInv => UniqueKey
  BY DEF IInv
<1>. QED
  BY <1>1, Invariance, PTL

\* The global count of a key is never below the references sessions have to it,
\* and a key without an entry has none.
THEOREM CountsCoverReferences == Spec => []RefcountCovers
<1>1. IInv => RefcountCovers
  BY DEF IInv, Counts, CountOK, RefcountCovers
<1>. QED
  BY <1>1, Invariance, PTL

\* Without a termination in LockAcquire the count is exactly the number of
\* references, in every interleaving and on every failing path.
THEOREM CountsAreExact == Spec => []RefcountExact
<1>1. IInv => RefcountExact
  BY DEF IInv, Counts, CountOK, RefcountExact
<1>. QED
  BY <1>1, Invariance, PTL

=============================================================================
