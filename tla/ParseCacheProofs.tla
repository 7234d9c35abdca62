-------------------------- MODULE ParseCacheProofs --------------------------
(***************************************************************************)
(* Proofs about ParseCache, for any number of backends, batches, keys and  *)
(* slots and any hash functions that satisfy the assumptions.              *)
(***************************************************************************)
EXTENDS ParseCache, FiniteSetTheorems, TLAPS

-----------------------------------------------------------------------------
(* Type correctness. *)

\* A batch has a key of the table, and its parse is a parse.
LEMMA BatchTypes ==
    ASSUME NEW s \in Sessions, NEW b \in Batches
    PROVE  Key(b) \in Keys /\ Parse(s, b) \in Parses
BY KeysTellDatabases DEF Key, Sig, Parses

\* The datums of a parse are a sequence of parses.
LEMMA DatumsType ==
    ASSUME NEW p \in Parses
    PROVE  Datums(p) \in Seq(Parses)
BY DEF Datums

\* What put stores is an entry.
LEMMA EntryOfType ==
    ASSUME TypeOK, NEW s \in Sessions, pc[s] = "write", tree[s] \in Parses
    PROVE  batch[s] \in Batches /\ EntryOf(s) \in EntryType
<1>1. batch[s] \in Batches /\ clock \in Nat
  BY DEF TypeOK
<1>. QED
  BY <1>1 DEF EntryOf, EntryType

\* A set of victims is finite and counted by a natural number.
LEMMA VictimsFinite ==
    ASSUME NEW v \in SUBSET Entries
    PROVE  /\ IsFiniteSet(Entries) /\ Cardinality(Entries) \in Nat
           /\ IsFiniteSet(v) /\ Cardinality(v) \in Nat
<1>1. Entries \subseteq Keys /\ IsFiniteSet(Keys)
  BY ParseCacheConstants DEF Entries
<1>. QED
  BY <1>1, FS_Subset, FS_CardinalityType

\* A counter that goes up stays a natural number.
LEMMA CountType ==
    ASSUME stats \in [Counters -> Nat], NEW c \in Counters, Count(c)
    PROVE  stats' \in [Counters -> Nat]
BY DEF Count

\* The same for an increase by any amount.
LEMMA BumpType ==
    ASSUME NEW f \in [Counters -> Nat], NEW c \in Counters, NEW n \in Nat
    PROVE  [f EXCEPT ![c] = @ + n] \in [Counters -> Nat]
OBVIOUS

\* A backend that is done with its batch has its initial state.
LEMMA ResetType ==
    ASSUME TypeOK, NEW s \in Sessions, Reset(s)
    PROVE  /\ batch' \in [Sessions -> Batches \cup {None}]
           /\ tree' \in [Sessions -> Parses \cup {None}]
           /\ added' \in [Sessions -> Seq(Parses)]
<1>1. <<>> \in Seq(Parses)
  OBVIOUS
<1>. QED
  BY <1>1 DEF Reset, TypeOK

\* The parse a backend is about to store has been installed.
TreeInstalled ==
  \A s \in Sessions : pc[s] \in {"write", "compiled"} => tree[s] \in Parses

\* The inductive invariant behind TypeOK: an update of last_used_at finds
\* an entry only because the writers wait for the readers.
TypeInv == TypeOK /\ TreeInstalled /\ EntryHeld

\* TypeInv holds initially.
LEMMA TypeInit == Init => TypeInv
BY DEF Init, TypeInv, TypeOK, TreeInstalled, EntryHeld, Counters

\* Every step of a backend, and of the clock, keeps the types.
LEMMA TypeNext == TypeInv /\ [Next]_vars => TypeOK' /\ TreeInstalled'
<1> SUFFICES ASSUME TypeInv, [Next]_vars
             PROVE  TypeOK' /\ TreeInstalled'
  OBVIOUS
<1> USE DEF TypeInv, TypeOK, TreeInstalled
<1>1. CASE Tick
  BY <1>1 DEF Tick
<1>2. ASSUME NEW s \in Sessions, GetOrParse(s)
      PROVE  TypeOK' /\ TreeInstalled'
  <2>1. PICK b \in Batches : batch' = [batch EXCEPT ![s] = b]
    BY <1>2 DEF GetOrParse
  <2>2. pc' = [pc EXCEPT ![s] = "get"] /\ pc[s] = "idle"
    BY <1>2 DEF GetOrParse, Goto
  <2>3. /\ UNCHANGED <<cache, stats, clock, got, tree, added>>
        /\ requests' = requests + 1
    BY <1>2 DEF GetOrParse
  <2>4. b # None
    BY <2>1, NoneIsNothing
  <2>5. \A t \in Sessions : pc'[t] = "idle" <=> batch'[t] = None
    BY <2>1, <2>2, <2>4
  <2>6. \A t \in Sessions : pc'[t] \in {"touch", "restore"} <=> got'[t] # None
    BY <2>2, <2>3
  <2>. QED
    BY <2>1, <2>2, <2>3, <2>5, <2>6
<1>3. ASSUME NEW s \in Sessions, GetMiss(s)
      PROVE  TypeOK' /\ TreeInstalled'
  <2>1. stats' \in [Counters -> Nat]
    BY <1>3, CountType DEF GetMiss, Counters
  <2>. QED
    BY <1>3, <2>1 DEF GetMiss, Goto
<1>4. ASSUME NEW s \in Sessions, GetCopy(s)
      PROVE  TypeOK' /\ TreeInstalled'
  <2> DEFINE k == Key(batch[s])
             c == [parse |-> cache[k].parse, now |-> clock]
  <2>1. batch[s] \in Batches /\ k \in Keys
    BY <1>4, BatchTypes DEF GetCopy
  <2>2. cache[k] \in EntryType
    BY <1>4, <2>1 DEF GetCopy, Found
  <2>3. c \in CopyType /\ c # None
    BY <2>2, NoneIsNothing DEF EntryType, CopyType
  <2>4. got' = [got EXCEPT ![s] = c]
    BY <1>4 DEF GetCopy
  <2>. QED
    BY <1>4, <2>1, <2>3, <2>4 DEF GetCopy, Goto
<1>5. ASSUME NEW s \in Sessions, Touch(s)
      PROVE  TypeOK' /\ TreeInstalled'
  <2> DEFINE k == Key(batch[s])
  <2>1. k \in Keys /\ got[s] \in CopyType
    BY <1>5, BatchTypes DEF Touch
  <2>2. cache[k] \in EntryType
    BY <1>5, <2>1 DEF Touch, EntryHeld
  <2>3. [cache[k] EXCEPT !.stamp = got[s].now] \in EntryType
    BY <2>1, <2>2 DEF EntryType, CopyType
  <2>4. cache' \in [Keys -> EntryType \cup {None}]
    BY <1>5, <2>1, <2>3 DEF Touch
  <2>. QED
    BY <1>5, <2>1, <2>4 DEF Touch, Goto
<1>6. ASSUME NEW s \in Sessions, Restore(s)
      PROVE  TypeOK' /\ TreeInstalled'
  <2>1. got[s].parse \in Parses
    BY <1>6 DEF Restore, CopyType
  <2>2. Datums(got[s].parse) \in Seq(Parses)
    BY <2>1, DatumsType
  <2>3. added[s] \o Datums(got[s].parse) \in Seq(Parses)
    BY <2>2
  <2>4. stats' \in [Counters -> Nat]
    <3>1. Count("hits") /\ "hits" \in Counters
      BY <1>6 DEF Restore, Counters
    <3>. QED
      BY <3>1, CountType
  <2>. QED
    BY <1>6, <2>1, <2>3, <2>4 DEF Restore, Goto
<1>7. ASSUME NEW s \in Sessions, RestoreFails(s)
      PROVE  TypeOK' /\ TreeInstalled'
  <2> DEFINE f == [stats EXCEPT !["errors"] = @ + 1]
  <2>1. f \in [Counters -> Nat] /\ f["misses"] = stats["misses"]
    BY BumpType DEF Counters
  <2>2. stats' = [f EXCEPT !["misses"] = f["misses"] + 1]
    BY <1>7, <2>1, Zenon DEF RestoreFails
  <2>3. stats' \in [Counters -> Nat]
    <3> HIDE DEF f
    <3>. QED  BY <2>1, <2>2, BumpType DEF Counters
  <2>. QED
    BY <1>7, <2>3 DEF RestoreFails, Goto
<1>8. ASSUME NEW s \in Sessions, ParseError(s)
      PROVE  TypeOK' /\ TreeInstalled'
  <2>1. /\ batch' \in [Sessions -> Batches \cup {None}]
        /\ tree' \in [Sessions -> Parses \cup {None}]
        /\ added' \in [Sessions -> Seq(Parses)]
    BY <1>8, ResetType DEF ParseError
  <2>. QED
    BY <1>8, <2>1 DEF ParseError, Reset, Goto
<1>9. ASSUME NEW s \in Sessions, AntlrParse(s)
      PROVE  TypeOK' /\ TreeInstalled'
  <2>1. Parse(s, batch[s]) \in Parses
    BY <1>9, BatchTypes DEF AntlrParse
  <2>2. added[s] \o Datums(Parse(s, batch[s])) \in Seq(Parses)
    BY <2>1, DatumsType
  <2>. QED
    BY <1>9, <2>1, <2>2 DEF AntlrParse, Goto
<1>10. ASSUME NEW s \in Sessions, NotStored(s)
       PROVE  TypeOK' /\ TreeInstalled'
  BY <1>10 DEF NotStored, Goto
<1>11. ASSUME NEW s \in Sessions, WriteFails(s)
       PROVE  TypeOK' /\ TreeInstalled'
  <2>1. stats' \in [Counters -> Nat]
    BY <1>11, CountType DEF WriteFails, Counters
  <2>. QED
    BY <1>11, <2>1 DEF WriteFails, Goto
<1>12. ASSUME NEW s \in Sessions, PutCollision(s)
       PROVE  TypeOK' /\ TreeInstalled'
  <2>1. stats' \in [Counters -> Nat]
    BY <1>12, CountType DEF PutCollision, Counters
  <2>. QED
    BY <1>12, <2>1 DEF PutCollision, Goto
<1>13. ASSUME NEW s \in Sessions, PutUpdate(s)
       PROVE  TypeOK' /\ TreeInstalled'
  <2>1. pc[s] = "write"
    BY <1>13 DEF PutUpdate
  <2>2. EntryOf(s) \in EntryType /\ Key(batch[s]) \in Keys
    BY <2>1, EntryOfType, BatchTypes
  <2>3. stats' \in [Counters -> Nat]
    BY <1>13, CountType DEF PutUpdate, Counters
  <2>. QED
    BY <1>13, <2>1, <2>2, <2>3 DEF PutUpdate, Goto
<1>14. ASSUME NEW s \in Sessions, PutInsert(s)
       PROVE  TypeOK' /\ TreeInstalled'
  <2>1. pc[s] = "write"
    BY <1>14 DEF PutInsert
  <2>2. EntryOf(s) \in EntryType /\ Key(batch[s]) \in Keys
    BY <2>1, EntryOfType, BatchTypes
  <2>3. PICK v \in SUBSET Entries : Enter(s, v)
    BY <1>14 DEF PutInsert, Oldest
  <2>4. Cardinality(v) \in Nat
    BY VictimsFinite
  <2>5. cache' \in [Keys -> EntryType \cup {None}]
    BY <2>2, <2>3 DEF Enter
  <2>6. stats' \in [Counters -> Nat]
    <3> DEFINE f == [stats EXCEPT !["evictions"] = @ + Cardinality(v)]
    <3>1. f \in [Counters -> Nat]
      BY <2>4, BumpType DEF Counters
    <3>2. \/ stats' = [f EXCEPT !["writes"] = @ + 1]
          \/ stats' = [f EXCEPT !["errors"] = @ + 1]
      <4>1. CASE Cardinality(Entries \ v) < NumSlots
        BY <2>3, <4>1, Zenon DEF Enter
      <4>2. CASE ~(Cardinality(Entries \ v) < NumSlots)
        BY <2>3, <4>2, Zenon DEF Enter
      <4>. QED
        BY <4>1, <4>2
    <3> HIDE DEF f
    <3>3. [f EXCEPT !["writes"] = @ + 1] \in [Counters -> Nat]
      BY <3>1, BumpType DEF Counters
    <3>4. [f EXCEPT !["errors"] = @ + 1] \in [Counters -> Nat]
      BY <3>1, BumpType DEF Counters
    <3>. QED
      BY <3>2, <3>3, <3>4, Zenon
  <2>. QED
    BY <1>14, <2>1, <2>5, <2>6 DEF PutInsert, Goto
<1>15. ASSUME NEW s \in Sessions, Execute(s)
       PROVE  TypeOK' /\ TreeInstalled'
  <2>1. /\ batch' \in [Sessions -> Batches \cup {None}]
        /\ tree' \in [Sessions -> Parses \cup {None}]
        /\ added' \in [Sessions -> Seq(Parses)]
    BY <1>15, ResetType DEF Execute
  <2>. QED
    BY <1>15, <2>1 DEF Execute, Reset, Goto
<1>16. ASSUME NEW s \in Sessions, Flush(s)
       PROVE  TypeOK' /\ TreeInstalled'
  BY <1>16 DEF Flush
<1>17. CASE UNCHANGED vars
  BY <1>17 DEF vars
<1>. QED
  BY <1>1, <1>2, <1>3, <1>4, <1>5, <1>6, <1>7, <1>8, <1>9, <1>10, <1>11, <1>12,
     <1>13, <1>14, <1>15, <1>16, <1>17 DEF Next, Step

\* The writers wait for the readers: what a reader has found stays.
LEMMA HeldNext == TypeInv /\ [Next]_vars => EntryHeld'
<1> SUFFICES ASSUME TypeInv, [Next]_vars, NEW r \in Sessions, pc'[r] = "touch"
             PROVE  cache'[Key(batch'[r])] # None
  BY DEF EntryHeld
<1>1. ASSUME pc[r] = "touch", batch'[r] = batch[r],
             cache[Key(batch[r])] # None => cache'[Key(batch[r])] # None
      PROVE  cache'[Key(batch'[r])] # None
  BY <1>1 DEF TypeInv, EntryHeld
<1>2. CASE Tick
  BY <1>2, <1>1 DEF Tick
<1>3. CASE UNCHANGED vars
  BY <1>3, <1>1 DEF vars
<1>4. ASSUME NEW s \in Sessions, GetOrParse(s) \/ GetMiss(s) \/ Restore(s) \/ RestoreFails(s)
                                \/ ParseError(s) \/ AntlrParse(s) \/ NotStored(s)
                                \/ WriteFails(s) \/ PutCollision(s) \/ Execute(s)
      PROVE  cache'[Key(batch'[r])] # None
  <2>1. pc[r] = "touch" /\ batch'[r] = batch[r] /\ cache' = cache
    BY <1>4 DEF TypeInv, TypeOK, GetOrParse, GetMiss, Restore, RestoreFails, ParseError,
                AntlrParse, NotStored, WriteFails, PutCollision, Execute, Reset, Goto
  <2>. QED
    BY <1>1, <2>1
<1>5. ASSUME NEW s \in Sessions, GetCopy(s)
      PROVE  cache'[Key(batch'[r])] # None
  <2>1. cache' = cache /\ batch' = batch /\ cache[Key(batch[s])] # None
    BY <1>5 DEF GetCopy, Found
  <2>2. r # s => pc[r] = "touch"
    BY <1>5 DEF GetCopy, Goto, TypeInv, TypeOK
  <2>. QED
    BY <1>1, <2>1, <2>2
<1>6. ASSUME NEW s \in Sessions, Touch(s)
      PROVE  cache'[Key(batch'[r])] # None
  <2>1. pc[r] = "touch" /\ batch' = batch
    BY <1>6 DEF Touch, Goto, TypeInv, TypeOK
  <2>2. batch[r] \in Batches /\ batch[s] \in Batches /\ got[s].now \in Nat
    BY <1>6, <2>1 DEF Touch, TypeInv, TypeOK, CopyType
  <2>3. Key(batch[r]) \in Keys /\ Key(batch[s]) \in Keys
    BY <2>2, BatchTypes
  <2>4. cache[Key(batch[s])] \in EntryType
    BY <1>6, <2>3 DEF Touch, TypeInv, TypeOK, EntryHeld
  <2>5. [cache[Key(batch[s])] EXCEPT !.stamp = got[s].now] # None
    BY <2>2, <2>4, NoneIsNothing DEF EntryType
  <2>6. cache' = [cache EXCEPT ![Key(batch[s])] = [cache[Key(batch[s])] EXCEPT !.stamp = got[s].now]]
    BY <1>6 DEF Touch
  <2>7. cache[Key(batch[r])] # None => cache'[Key(batch[r])] # None
    BY <2>3, <2>5, <2>6 DEF TypeInv, TypeOK
  <2>. QED
    BY <1>1, <2>1, <2>7
<1>7. ASSUME NEW s \in Sessions, PutUpdate(s) \/ PutInsert(s) \/ Flush(s)
      PROVE  cache'[Key(batch'[r])] # None
  <2>1. pc[r] # "touch"
    BY <1>7 DEF PutUpdate, PutInsert, Flush, SharedLockFree
  <2>2. pc'[r] # "touch"
    BY <1>7, <2>1 DEF PutUpdate, PutInsert, Flush, Goto, TypeInv, TypeOK
  <2>. QED
    BY <2>2
<1>. QED
  BY <1>2, <1>3, <1>4, <1>5, <1>6, <1>7 DEF Next, Step

\* TypeInv holds in every reachable state.
LEMMA ParseCacheTypes == Spec => []TypeInv
<1>1. TypeInv /\ [Next]_vars => TypeInv'
  BY TypeNext, HeldNext DEF TypeInv
<1>. QED
  BY <1>1, TypeInit, PTL DEF Spec

\* The types of all variables are right in every reachable state.
THEOREM TypeCorrect == Spec => []TypeOK
BY ParseCacheTypes, PTL DEF TypeInv

\* No entry disappears under a backend that has copied it and is about to
\* write its last_used_at.
THEOREM EntriesHeld == Spec => []EntryHeld
BY ParseCacheTypes, PTL DEF TypeInv
-----------------------------------------------------------------------------
(* Every batch runs its own parse. *)

\* What a lookup accepts is the parse of the batch it was made for: the key
\* tells the database, the text is compared, the signature with the number
\* of datums tells the parameters.
LEMMA HitIsOwn ==
    ASSUME TypeOK, EntriesGenuine, NEW s \in Sessions, pc[s] = "get", Found(s)
    PROVE  IsParseOf(cache[Key(batch[s])].parse, s, batch[s])
<1> DEFINE c == batch[s]
           e == cache[Key(c)]
<1>1. c \in Batches
  BY DEF TypeOK
<1>2. Key(c) \in Entries
  BY <1>1, BatchTypes DEF Found, Entries
<1>3. PICK r \in Sessions, b \in Batches :
        /\ e.parse = Parse(r, b)
        /\ Key(c) = Key(b)
        /\ e.text = b.text /\ e.sig = Sig(b)
        /\ e.nDatums = NumDatums(b.params)
        /\ e.version = VersionOf[r]
        /\ b.text \notin Invalid \cup Unshared
  BY <1>2 DEF EntriesGenuine, Genuine
<1>4. e.text = c.text /\ e.sig = Sig(c) /\ e.nDatums = NumDatums(c.params)
        /\ e.version = VersionOf[s]
  BY DEF Found, Usable, EntryMatches
<1>5. b.params = c.params
  BY <1>1, <1>3, <1>4, SignaturesTellParams DEF Sig
<1>6. b.db = c.db
  BY <1>1, <1>3, <1>4, KeysTellDatabases DEF Sig, Key
<1>. QED
  BY <1>3, <1>4, <1>5, <1>6 DEF IsParseOf, Parse

\* A copy of an entry is the parse of the batch it was made for.
CopyIsOwn ==
  \A s \in Sessions : pc[s] \in {"touch", "restore"} =>
    IsParseOf(got[s].parse, s, batch[s])

\* Nothing is added to the datums before the parse or the restore.
NothingAdded ==
  \A s \in Sessions : pc[s] \notin {"write", "compiled"} => added[s] = <<>>

\* Only a fresh parse is about to be stored.
StoresFresh ==
  \A s \in Sessions : pc[s] = "write" =>
    tree[s] = Parse(s, batch[s]) /\ batch[s].text \notin Invalid

OwnInv == EntriesGenuine /\ CopyIsOwn /\ NothingAdded /\ StoresFresh /\ RunsOwnParse

LEMMA OwnInit == Init => OwnInv
BY DEF Init, OwnInv, EntriesGenuine, Entries, CopyIsOwn, NothingAdded, StoresFresh,
       RunsOwnParse

\* A stored entry is genuine.
LEMMA StoredIsGenuine ==
    ASSUME TypeInv, StoresFresh, NEW s \in Sessions, pc[s] = "write", Cacheable(s)
    PROVE  Genuine(Key(batch[s]), EntryOf(s))
<1>1. batch[s] \in Batches
  BY DEF TypeInv, TypeOK
<1>2. tree[s] = Parse(s, batch[s]) /\ batch[s].text \notin Invalid \cup Unshared
  BY DEF StoresFresh, Cacheable
<1>. QED
  BY <1>1, <1>2 DEF Genuine, EntryOf

\* No step puts anything but a genuine entry into the table.
LEMMA GenuineNext ==
    ASSUME TypeInv, OwnInv, [Next]_vars
    PROVE  EntriesGenuine'
<1> SUFFICES ASSUME NEW k \in Keys, cache'[k] # None
             PROVE  Genuine(k, cache'[k])
  BY DEF EntriesGenuine, Entries
<1>1. ASSUME cache'[k] = cache[k]
      PROVE  Genuine(k, cache'[k])
  BY <1>1 DEF OwnInv, EntriesGenuine, Entries
<1>2. CASE cache' = cache
  BY <1>1, <1>2
<1>3. ASSUME NEW s \in Sessions, Touch(s)
      PROVE  Genuine(k, cache'[k])
  <2>1. Key(batch[s]) \in Keys
    BY <1>3, BatchTypes DEF Touch, TypeInv, TypeOK
  <2>2. CASE k # Key(batch[s])
    BY <1>1, <1>3, <2>1, <2>2 DEF Touch, TypeInv, TypeOK
  <2>3. CASE k = Key(batch[s])
    <3>1. cache[k] # None /\ cache[k] \in EntryType
      BY <1>3, <2>3 DEF Touch, TypeInv, TypeOK, EntryHeld
    <3>2. Genuine(k, cache[k])
      BY <3>1 DEF OwnInv, EntriesGenuine, Entries
    <3>3. cache'[k] = [cache[k] EXCEPT !.stamp = got[s].now]
      BY <1>3, <2>3 DEF Touch, TypeInv, TypeOK
    <3>4. /\ cache'[k].parse = cache[k].parse /\ cache'[k].text = cache[k].text
          /\ cache'[k].sig = cache[k].sig /\ cache'[k].nDatums = cache[k].nDatums
          /\ cache'[k].version = cache[k].version
      BY <3>1, <3>3 DEF EntryType
    <3>. QED
      BY <3>2, <3>4 DEF Genuine
  <2>. QED
    BY <2>2, <2>3
<1>4. ASSUME NEW s \in Sessions, PutUpdate(s)
      PROVE  Genuine(k, cache'[k])
  <2>1. Genuine(Key(batch[s]), EntryOf(s))
    BY <1>4, StoredIsGenuine DEF PutUpdate, OwnInv
  <2>2. k # Key(batch[s]) => cache'[k] = cache[k]
    BY <1>4 DEF PutUpdate, TypeInv, TypeOK
  <2>3. k = Key(batch[s]) => cache'[k] = EntryOf(s)
    BY <1>4 DEF PutUpdate, TypeInv, TypeOK
  <2>. QED
    BY <1>1, <2>1, <2>2, <2>3
<1>5. ASSUME NEW s \in Sessions, PutInsert(s)
      PROVE  Genuine(k, cache'[k])
  <2>1. Genuine(Key(batch[s]), EntryOf(s))
    BY <1>5, StoredIsGenuine DEF PutInsert, OwnInv
  <2>2. PICK v : Enter(s, v)
    BY <1>5 DEF PutInsert
  <2>3. k # Key(batch[s]) => cache'[k] = cache[k]
    BY <2>2 DEF Enter
  <2>4. k = Key(batch[s]) => cache'[k] = EntryOf(s) \/ cache'[k] = cache[k]
    BY <2>2 DEF Enter
  <2>. QED
    BY <1>1, <2>1, <2>3, <2>4, Zenon
<1>6. ASSUME NEW s \in Sessions, Flush(s)
      PROVE  Genuine(k, cache'[k])
  BY <1>6 DEF Flush
<1>. QED
  BY <1>2, <1>3, <1>4, <1>5, <1>6
  DEF Next, Step, vars, Tick, GetOrParse, GetMiss, GetCopy, Restore, RestoreFails,
      ParseError, AntlrParse, NotStored, WriteFails, PutCollision, Execute

\* Installing a parse of one's own, with its datums and nothing before them.
LEMMA OwnDatums ==
    ASSUME NEW p \in Parses
    PROVE  <<>> \o Datums(p) = Datums(p)
<1>1. Datums(p) \in Seq(Parses)
  BY DatumsType
<1>. QED
  BY <1>1

\* A fresh parse is one's own.
LEMMA FreshIsOwn ==
    ASSUME NEW s, NEW b
    PROVE  IsParseOf(Parse(s, b), s, b)
BY DEF IsParseOf, Parse

\* What OwnInv says of one backend.
SessionOwn(s) ==
  /\ pc[s] \in {"touch", "restore"} => IsParseOf(got[s].parse, s, batch[s])
  /\ pc[s] \notin {"write", "compiled"} => added[s] = <<>>
  /\ pc[s] = "write" => tree[s] = Parse(s, batch[s]) /\ batch[s].text \notin Invalid
  /\ pc[s] \in {"write", "compiled"} =>
       IsParseOf(tree[s], s, batch[s]) /\ added[s] = Datums(tree[s])

\* No step makes a backend hold, store or run a parse of another batch.
LEMMA SessionNext ==
    ASSUME TypeInv, OwnInv, [Next]_vars, NEW r \in Sessions
    PROVE  SessionOwn(r)'
<1>1. SessionOwn(r)
  BY DEF OwnInv, CopyIsOwn, NothingAdded, StoresFresh, RunsOwnParse, SessionOwn
<1>2. ASSUME pc'[r] = pc[r], batch'[r] = batch[r], got'[r] = got[r], tree'[r] = tree[r],
             added'[r] = added[r]
      PROVE  SessionOwn(r)'
  BY <1>1, <1>2 DEF SessionOwn
<1>3. CASE Tick \/ UNCHANGED vars
  BY <1>2, <1>3 DEF Tick, vars
<1>4. ASSUME NEW s \in Sessions, Step(s), s # r
      PROVE  SessionOwn(r)'
  <2>1. pc'[r] = pc[r] /\ batch'[r] = batch[r]
    BY <1>4 DEF TypeInv, TypeOK, Step, GetOrParse, GetMiss, GetCopy, Touch, Restore,
       RestoreFails, ParseError, AntlrParse, NotStored, WriteFails, PutCollision,
       PutUpdate, PutInsert, Execute, Flush, Reset, Goto
  <2>2. got'[r] = got[r]
    BY <1>4 DEF TypeInv, TypeOK, Step, GetOrParse, GetMiss, GetCopy, Touch, Restore,
       RestoreFails, ParseError, AntlrParse, NotStored, WriteFails, PutCollision,
       PutUpdate, PutInsert, Execute, Flush
  <2>3. tree'[r] = tree[r] /\ added'[r] = added[r]
    BY <1>4 DEF TypeInv, TypeOK, Step, GetOrParse, GetMiss, GetCopy, Touch, Restore,
       RestoreFails, ParseError, AntlrParse, NotStored, WriteFails, PutCollision,
       PutUpdate, PutInsert, Execute, Flush, Reset
  <2>. QED
    BY <1>2, <2>1, <2>2, <2>3
<1>5. CASE GetOrParse(r) \/ GetMiss(r)
  <2>1. pc[r] \in {"idle", "get"} /\ pc'[r] \in {"get", "parse"} /\ added' = added
    BY <1>5 DEF GetOrParse, GetMiss, Goto, TypeInv, TypeOK
  <2>. QED
    BY <1>1, <2>1 DEF SessionOwn
<1>6. CASE GetCopy(r)
  <2>1. pc'[r] = "touch" /\ pc[r] = "get" /\ added' = added /\ batch' = batch
    BY <1>6 DEF GetCopy, Goto, TypeInv, TypeOK
  <2>2. got'[r].parse = cache[Key(batch[r])].parse
    BY <1>6 DEF GetCopy, TypeInv, TypeOK
  <2>3. IsParseOf(cache[Key(batch[r])].parse, r, batch[r])
    BY <1>6, <2>1, HitIsOwn DEF GetCopy, TypeInv, OwnInv
  <2>. QED
    BY <1>1, <2>1, <2>2, <2>3 DEF SessionOwn
<1>7. CASE Touch(r)
  <2>1. pc[r] = "touch" /\ pc'[r] = "restore" /\ got' = got /\ batch' = batch /\ added' = added
    BY <1>7 DEF Touch, Goto, TypeInv, TypeOK
  <2>. QED
    BY <1>1, <2>1 DEF SessionOwn
<1>8. CASE Restore(r)
  <2>1. /\ pc[r] = "restore" /\ pc'[r] = "compiled" /\ batch' = batch
        /\ tree'[r] = got[r].parse
        /\ added'[r] = added[r] \o Datums(got[r].parse)
    BY <1>8 DEF Restore, Goto, TypeInv, TypeOK
  <2>2. got[r].parse \in Parses
    BY <2>1 DEF TypeInv, TypeOK, CopyType
  <2>3. added[r] = <<>> /\ IsParseOf(got[r].parse, r, batch[r])
    BY <1>1, <2>1 DEF SessionOwn
  <2>4. added'[r] = Datums(tree'[r])
    BY <2>1, <2>2, <2>3, OwnDatums
  <2>. QED
    BY <2>1, <2>3, <2>4 DEF SessionOwn
<1>9. CASE RestoreFails(r)
  <2>1. pc[r] = "restore" /\ pc'[r] = "parse" /\ added' = added
    BY <1>9 DEF RestoreFails, Goto, TypeInv, TypeOK
  <2>. QED
    BY <1>1, <2>1 DEF SessionOwn
<1>10. CASE ParseError(r) \/ Execute(r)
  <2>1. pc'[r] = "idle" /\ added'[r] = <<>>
    BY <1>10 DEF ParseError, Execute, Reset, Goto, TypeInv, TypeOK
  <2>. QED
    BY <2>1 DEF SessionOwn
<1>11. CASE AntlrParse(r)
  <2>1. /\ pc[r] = "parse" /\ pc'[r] = "write" /\ batch' = batch
        /\ batch[r].text \notin Invalid /\ batch[r] \in Batches
        /\ tree'[r] = Parse(r, batch[r])
        /\ added'[r] = added[r] \o Datums(Parse(r, batch[r]))
    BY <1>11 DEF AntlrParse, Goto, TypeInv, TypeOK
  <2>2. added[r] = <<>> /\ Parse(r, batch[r]) \in Parses
    BY <1>1, <2>1, BatchTypes DEF SessionOwn
  <2>3. added'[r] = Datums(tree'[r])
    BY <2>1, <2>2, OwnDatums
  <2>. QED
    BY <2>1, <2>3, FreshIsOwn DEF SessionOwn
<1>12. CASE NotStored(r) \/ WriteFails(r) \/ PutCollision(r) \/ PutUpdate(r) \/ PutInsert(r)
  <2>1. /\ pc[r] = "write" /\ pc'[r] = "compiled"
        /\ batch' = batch /\ tree' = tree /\ added' = added
    BY <1>12 DEF NotStored, WriteFails, PutCollision, PutUpdate, PutInsert, Goto,
                 TypeInv, TypeOK
  <2>. QED
    BY <1>1, <2>1 DEF SessionOwn
<1>13. CASE Flush(r)
  BY <1>2, <1>13 DEF Flush
<1>. QED
  BY <1>3, <1>4, <1>5, <1>6, <1>7, <1>8, <1>9, <1>10, <1>11, <1>12, <1>13 DEF Next, Step

\* OwnInv is inductive relative to TypeInv, and so holds in every state.
LEMMA OwnAlways == Spec => []OwnInv
<1>1. ASSUME TypeInv, OwnInv, [Next]_vars
      PROVE  OwnInv'
  <2>1. \A r \in Sessions : SessionOwn(r)'
    BY <1>1, SessionNext
  <2>2. EntriesGenuine'
    BY <1>1, GenuineNext
  <2>. QED
    BY <2>1, <2>2 DEF OwnInv, CopyIsOwn, NothingAdded, StoresFresh, RunsOwnParse, SessionOwn
<1>. QED
  BY <1>1, OwnInit, ParseCacheTypes, PTL DEF Spec

\* Whatever other backends store, evict and flush, and whatever collides, a
\* compiled batch runs the parse of its own text, database, parameters and
\* parser version, with the datums of that parse added once.
THEOREM RunsOwn == Spec => []RunsOwnParse
BY OwnAlways, PTL DEF OwnInv

\* Every entry holds the parse of a batch with its key, text, signature,
\* number of datums and version.
THEOREM EntriesAreGenuine == Spec => []EntriesGenuine
BY OwnAlways, PTL DEF OwnInv

-----------------------------------------------------------------------------
(* Collisions. *)

\* A step leaves the text and the signature of an entry that stays alone.
LEMMA CollisionStep ==
    ASSUME TypeInv, [Next]_vars, NEW k \in Keys, cache[k] # None, cache'[k] # None
    PROVE  cache'[k].text = cache[k].text /\ cache'[k].sig = cache[k].sig
<1>1. CASE cache'[k] = cache[k]
  BY <1>1
<1>2. ASSUME NEW s \in Sessions, Touch(s)
      PROVE  cache'[k].text = cache[k].text /\ cache'[k].sig = cache[k].sig
  <2>1. cache[k] \in EntryType
    BY DEF TypeInv, TypeOK
  <2>2. cache'[k] = cache[k] \/ cache'[k] = [cache[k] EXCEPT !.stamp = got[s].now]
    BY <1>2 DEF Touch, TypeInv, TypeOK
  <2>. QED
    BY <2>1, <2>2 DEF EntryType
<1>3. ASSUME NEW s \in Sessions, PutUpdate(s)
      PROVE  cache'[k].text = cache[k].text /\ cache'[k].sig = cache[k].sig
  <2>1. CASE k # Key(batch[s])
    BY <1>1, <1>3, <2>1 DEF PutUpdate, TypeInv, TypeOK
  <2>2. CASE k = Key(batch[s])
    BY <1>3, <2>2 DEF PutUpdate, EntryMatches, EntryOf, TypeInv, TypeOK
  <2>. QED
    BY <2>1, <2>2
<1>4. ASSUME NEW s \in Sessions, PutInsert(s)
      PROVE  cache'[k] = cache[k]
  <2>1. PICK v : Enter(s, v)
    BY <1>4 DEF PutInsert
  <2>2. k # Key(batch[s])
    BY <1>4 DEF PutInsert
  <2>. QED
    BY <2>1, <2>2 DEF Enter
<1>5. ASSUME NEW s \in Sessions, Flush(s)
      PROVE  FALSE
  BY <1>5 DEF Flush
<1>. QED
  BY <1>1, <1>2, <1>3, <1>4, <1>5
  DEF Next, Step, vars, Tick, GetOrParse, GetMiss, GetCopy, Restore, RestoreFails,
      ParseError, AntlrParse, NotStored, WriteFails, PutCollision, Execute

\* A batch whose key is taken by another text or signature never replaces
\* the entry it collides with.
THEOREM CollisionsKeep == Spec => CollisionKeepsEntry
<1>1. ASSUME TypeInv, [Next]_vars
      PROVE  [\A k \in Keys : cache[k] # None /\ cache'[k] # None =>
                cache'[k].text = cache[k].text /\ cache'[k].sig = cache[k].sig]_vars
  BY <1>1, CollisionStep
<1>. QED
  BY <1>1, ParseCacheTypes, PTL DEF Spec, CollisionKeepsEntry

-----------------------------------------------------------------------------
(* Slots. *)

\* A step that leaves the set of entries alone and evicts nothing.
LEMMA SlotsKept ==
    ASSUME TypeOK, SlotsAccounted, Entries' = Entries,
           stats'["evictions"] = stats["evictions"],
           stats'["writes"] \in Nat, stats'["writes"] >= stats["writes"]
    PROVE  SlotsAccounted'
<1>1. Cardinality(Entries) \in Nat
  BY VictimsFinite
<1>2. stats["evictions"] \in Nat /\ stats["writes"] \in Nat
  BY DEF TypeOK, Counters
<1>3. Cardinality(Entries)' = Cardinality(Entries)
  OBVIOUS
<1>. QED
  BY <1>1, <1>2, <1>3, ParseCacheConstants DEF SlotsAccounted

\* A new entry takes one slot, after the victims have given up theirs.
LEMMA SlotsEntered ==
    ASSUME TypeOK, SlotsAccounted, NEW s \in Sessions, NEW v \in SUBSET Entries,
           Enter(s, v), Key(batch[s]) \in Keys, cache[Key(batch[s])] = None,
           EntryOf(s) # None
    PROVE  SlotsAccounted'
<1> DEFINE k == Key(batch[s])
           E == Entries
           n == Cardinality(E)
           d == Cardinality(v)
<1>1. IsFiniteSet(E) /\ n \in Nat /\ d \in Nat
  BY VictimsFinite
<1>2. IsFiniteSet(E \ v) /\ Cardinality(E \ v) = n - d
  <2>1. E \cap v = v
    OBVIOUS
  <2>. QED
    BY <1>1, <2>1, FS_Difference
<1>3. Cardinality((E \ v) \cup {k}) = n - d + 1
  <2>1. k \notin E \ v
    BY DEF Entries
  <2>. QED
    BY <1>2, <2>1, FS_AddElement
<1>4. stats["evictions"] \in Nat /\ stats["writes"] \in Nat /\ n + stats["evictions"] <= stats["writes"]
  BY DEF TypeOK, Counters, SlotsAccounted
<1>5. CASE n - d < NumSlots
  <2>1. cache' = [[l \in Keys |-> IF l \in v THEN None ELSE cache[l]] EXCEPT ![k] = EntryOf(s)]
    BY <1>2, <1>5 DEF Enter
  <2>2. Entries' = (E \ v) \cup {k}
    BY <2>1 DEF Entries
  <2>3. stats'["evictions"] = stats["evictions"] + d /\ stats'["writes"] = stats["writes"] + 1
    BY <1>2, <1>5 DEF Enter, TypeOK, Counters
  <2>. QED
    BY <1>1, <1>3, <1>4, <1>5, <2>2, <2>3, ParseCacheConstants DEF SlotsAccounted
<1>6. CASE ~(n - d < NumSlots)
  <2>1. cache' = [l \in Keys |-> IF l \in v THEN None ELSE cache[l]]
    BY <1>2, <1>6 DEF Enter
  <2>2. Entries' = E \ v
    BY <2>1 DEF Entries
  <2>3. stats'["evictions"] = stats["evictions"] + d /\ stats'["writes"] = stats["writes"]
    BY <1>2, <1>6 DEF Enter, TypeOK, Counters
  <2>4. n <= NumSlots
    BY DEF SlotsAccounted
  <2>. QED
    BY <1>1, <1>2, <1>4, <2>2, <2>3, <2>4, ParseCacheConstants DEF SlotsAccounted
<1>. QED
  BY <1>5, <1>6

\* The table never outgrows its slots and the counters account for it.
LEMMA SlotsNext ==
    ASSUME TypeInv, SlotsAccounted, [Next]_vars
    PROVE  SlotsAccounted'
<1> USE DEF TypeInv
<1>1. CASE UNCHANGED <<cache, stats>>
  BY <1>1 DEF SlotsAccounted, Entries
<1>2. ASSUME cache' = cache, NEW c \in {"hits", "misses", "errors"}, Count(c)
      PROVE  SlotsAccounted'
  <2>1. Entries' = Entries
    BY <1>2 DEF Entries
  <2>2. stats'["evictions"] = stats["evictions"] /\ stats'["writes"] = stats["writes"]
    BY <1>2 DEF Count, TypeOK, Counters
  <2>3. stats["writes"] \in Nat
    BY DEF TypeOK, Counters
  <2>. QED
    BY <2>1, <2>2, <2>3, SlotsKept
<1>3. ASSUME NEW s \in Sessions, RestoreFails(s)
      PROVE  SlotsAccounted'
  <2>1. Entries' = Entries
    BY <1>3 DEF RestoreFails, Entries
  <2>2. stats'["evictions"] = stats["evictions"] /\ stats'["writes"] = stats["writes"]
    BY <1>3 DEF RestoreFails, TypeOK, Counters
  <2>3. stats["writes"] \in Nat
    BY DEF TypeOK, Counters
  <2>. QED
    BY <2>1, <2>2, <2>3, SlotsKept
<1>4. ASSUME NEW s \in Sessions, Touch(s)
      PROVE  SlotsAccounted'
  <2>1. Key(batch[s]) \in Keys /\ cache[Key(batch[s])] \in EntryType /\ got[s].now \in Nat
    BY <1>4, BatchTypes DEF Touch, TypeOK, EntryHeld, CopyType
  <2>2. [cache[Key(batch[s])] EXCEPT !.stamp = got[s].now] # None /\ cache[Key(batch[s])] # None
    BY <2>1, NoneIsNothing DEF EntryType
  <2>3. cache' = [cache EXCEPT ![Key(batch[s])] = [cache[Key(batch[s])] EXCEPT !.stamp = got[s].now]]
    BY <1>4 DEF Touch
  <2>4. Entries' = Entries
    BY <2>1, <2>2, <2>3 DEF Entries, TypeOK
  <2>5. stats' = stats /\ stats["writes"] \in Nat
    BY <1>4 DEF Touch, TypeOK, Counters
  <2>. QED
    BY <2>4, <2>5, SlotsKept
<1>5. ASSUME NEW s \in Sessions, PutUpdate(s)
      PROVE  SlotsAccounted'
  <2>1. EntryOf(s) # None /\ Key(batch[s]) \in Keys /\ cache[Key(batch[s])] # None
    BY <1>5, EntryOfType, BatchTypes, NoneIsNothing DEF PutUpdate, TreeInstalled
  <2>2. Entries' = Entries
    BY <1>5, <2>1 DEF PutUpdate, Entries, TypeOK
  <2>3. /\ stats["writes"] \in Nat /\ stats'["evictions"] = stats["evictions"]
        /\ stats'["writes"] = stats["writes"] + 1
    BY <1>5 DEF PutUpdate, Count, TypeOK, Counters
  <2>. QED
    BY <2>2, <2>3, SlotsKept
<1>6. ASSUME NEW s \in Sessions, PutInsert(s)
      PROVE  SlotsAccounted'
  <2>1. EntryOf(s) # None /\ Key(batch[s]) \in Keys /\ cache[Key(batch[s])] = None
    <3>1. pc[s] = "write" /\ cache[Key(batch[s])] = None
      BY <1>6 DEF PutInsert
    <3>2. EntryOf(s) \in EntryType /\ Key(batch[s]) \in Keys
      BY <3>1, EntryOfType, BatchTypes DEF TreeInstalled
    <3>. QED
      BY <3>1, <3>2, NoneIsNothing
  <2>2. PICK v \in SUBSET Entries : Enter(s, v)
    BY <1>6 DEF PutInsert, Oldest
  <2>. QED
    BY <2>1, <2>2, SlotsEntered
<1>7. ASSUME NEW s \in Sessions, Flush(s)
      PROVE  SlotsAccounted'
  <2>1. Entries' = {}
    BY <1>7 DEF Flush, Entries
  <2>2. stats'["evictions"] = 0 /\ stats'["writes"] = 0
    BY <1>7 DEF Flush, Counters
  <2>3. Cardinality(Entries)' = 0
    BY <2>1, FS_EmptySet
  <2>. QED
    BY <2>2, <2>3, ParseCacheConstants DEF SlotsAccounted
<1>. QED
  BY <1>1, <1>2, <1>3, <1>4, <1>5, <1>6, <1>7
  DEF Next, Step, vars, Tick, GetOrParse, GetMiss, GetCopy, Restore,
      ParseError, AntlrParse, NotStored, WriteFails, PutCollision, Execute

\* The table never holds more entries than slots, and every entry was
\* written and not evicted since the last flush.
THEOREM SlotsAreAccounted == Spec => []SlotsAccounted
<1>1. Init => SlotsAccounted
  <2> SUFFICES ASSUME Init PROVE SlotsAccounted
    OBVIOUS
  <2>1. Entries = {} /\ stats["evictions"] = 0 /\ stats["writes"] = 0
    BY DEF Init, Entries, Counters
  <2>. QED
    BY <2>1, FS_EmptySet, ParseCacheConstants DEF SlotsAccounted
<1>2. TypeInv /\ SlotsAccounted /\ [Next]_vars => SlotsAccounted'
  BY SlotsNext
<1>. QED
  BY <1>1, <1>2, ParseCacheTypes, PTL DEF Spec

\* The shared table is sound, whatever the backends do to it.
THEOREM CacheIsSound == Spec => []CacheSound
BY TypeCorrect, EntriesAreGenuine, SlotsAreAccounted, PTL DEF CacheSound
=============================================================================
