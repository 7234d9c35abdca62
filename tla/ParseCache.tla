----------------------------- MODULE ParseCache -----------------------------
(***************************************************************************)
(* The cache of ANTLR parse trees that all backends share                  *)
(* (babelfishpg_tsql/src/antlr_batch_parse_cache.c).                       *)
(*                                                                         *)
(* A backend that compiles an sp_prepexec batch looks the batch up by a    *)
(* hash of its text, database and parameters, installs the tree and the    *)
(* datums it finds, or else runs ANTLR and stores the result.  A lookup    *)
(* holds the shared lock, a store and a flush the exclusive one; between   *)
(* them the backends interleave.  The exclusive sections are one step      *)
(* each, the shared section is two: the copy of the entry with the reading *)
(* of the clock, and the update of last_used_at.                           *)
(*                                                                         *)
(* A batch is a record of what the outcome of a parse depends on; the      *)
(* parse of a batch is that record with the version of the parser, so that *)
(* two parses are equal exactly when everything they depend on is.  The    *)
(* datums a parse adds are one datum, standing for all, or none.           *)
(***************************************************************************)
EXTENDS Integers, FiniteSets, Sequences

CONSTANTS
  Sessions,     \* backends
  VersionOf,    \* [Sessions -> versions]: BABELFISH_VERSION_STR of its library
  Batches,      \* records [text, db, params, setting] that clients may send
  Declaring,    \* texts that declare variables: their parse adds a datum
  Invalid,      \* texts that ANTLR rejects
  Unshared,     \* texts with a variable of a user-defined or table type
  Keys,         \* cache keys
  KeyOf(_,_,_), \* hash of text, database and parameter signature
  SigOf(_),     \* hash of the parameters' types, modes and names
  NumDatums(_), \* pltsql_nDatums before the parse: parameters, globals
  NumSlots,     \* capacity of the shared hash table
  MinVictims,   \* ANTLR_BATCH_PARSE_CACHE_MIN_VICTIMS
  Percent,      \* ANTLR_BATCH_PARSE_CACHE_DEALLOC_PERCENT
  MaxRequests,  \* bound on the batches sent
  MaxClock,     \* bound on the clock
  None

(***************************************************************************)
(* What the code relies on and does not check.  An entry does not record   *)
(* its database: the same text and signature in two databases must hash to *)
(* two keys.  Of the parameters it records the 64-bit signature and the    *)
(* number of datums: these must tell the parameters apart.                 *)
(***************************************************************************)
ASSUME KeysTellDatabases ==
  \A b, c \in Batches :
    /\ KeyOf(b.text, b.db, SigOf(b.params)) \in Keys
    /\ (b.text = c.text /\ SigOf(b.params) = SigOf(c.params) /\ b.db # c.db) =>
         KeyOf(b.text, b.db, SigOf(b.params)) # KeyOf(c.text, c.db, SigOf(c.params))

ASSUME SignaturesTellParams ==
  \A b, c \in Batches :
    SigOf(b.params) = SigOf(c.params) /\ NumDatums(b.params) = NumDatums(c.params) =>
      b.params = c.params

ASSUME ParseCacheConstants ==
  /\ IsFiniteSet(Keys)
  /\ NumSlots \in Nat \ {0}
  /\ MinVictims \in Nat \ {0}
  /\ Percent \in 0..100
  /\ MaxRequests \in Nat
  /\ MaxClock \in Nat

VARIABLES
  cache,     \* [Keys -> entry or None]
  stats,     \* the counters of the shared state
  clock,     \* GetCurrentTimestamp
  pc,        \* [Sessions -> where the backend is]
  batch,     \* [Sessions -> the batch being compiled, or None]
  got,       \* [Sessions -> [parse, now]: the copy made by get, or None]
  tree,      \* [Sessions -> pltsql_parse_result, or None]
  added,     \* [Sessions -> datums added by the parse or the restore]
  requests   \* bound: batches sent so far

vars == <<cache, stats, clock, pc, batch, got, tree, added, requests>>

Counters == {"hits", "misses", "writes", "evictions", "errors"}

Sig(b) == SigOf(b.params)
Key(b) == KeyOf(b.text, b.db, Sig(b))

(***************************************************************************)
(* antlr_parser_cpp: what a fresh parse of b by s gives.                   *)
(***************************************************************************)
Parse(s, b) == [text |-> b.text, db |-> b.db, params |-> b.params,
                setting |-> b.setting, version |-> VersionOf[s]]

Datums(p) == IF p.text \in Declaring THEN <<p>> ELSE <<>>

Entries == {k \in Keys : cache[k] # None}

Init ==
  /\ cache = [k \in Keys |-> None]
  /\ stats = [c \in Counters |-> 0]
  /\ clock = 0
  /\ pc = [s \in Sessions |-> "idle"]
  /\ batch = [s \in Sessions |-> None]
  /\ got = [s \in Sessions |-> None]
  /\ tree = [s \in Sessions |-> None]
  /\ added = [s \in Sessions |-> <<>>]
  /\ requests = 0

Goto(s, l) == pc' = [pc EXCEPT ![s] = l]

Count(c) == stats' = [stats EXCEPT ![c] = @ + 1]

(***************************************************************************)
(* The time goes on.                                                       *)
(***************************************************************************)
Tick ==
  /\ clock < MaxClock
  /\ clock' = clock + 1
  /\ UNCHANGED <<cache, stats, pc, batch, got, tree, added, requests>>

(***************************************************************************)
(* antlr_batch_parse_cache_get_or_parse starts for a batch.                *)
(***************************************************************************)
GetOrParse(s) ==
  /\ pc[s] = "idle"
  /\ requests < MaxRequests
  /\ \E b \in Batches : batch' = [batch EXCEPT ![s] = b]
  /\ requests' = requests + 1
  /\ Goto(s, "get")
  /\ UNCHANGED <<cache, stats, clock, got, tree, added>>

(***************************************************************************)
(* The text and the signature are the only parts of the key that an entry  *)
(* can be compared with.                                                   *)
(***************************************************************************)
EntryMatchesEither(e, b) == e.text = b.text \/ e.sig = Sig(b)

EntryMatches(e, b) == e.text = b.text /\ e.sig = Sig(b)

UsableNoDatums(s, e) ==
  /\ EntryMatches(e, batch[s])
  /\ e.version = VersionOf[s]

Usable(s, e) ==
  /\ EntryMatches(e, batch[s])
  /\ e.nDatums = NumDatums(batch[s].params)
  /\ e.version = VersionOf[s]

Found(s) == cache[Key(batch[s])] # None /\ Usable(s, cache[Key(batch[s])])

GetMiss(s) ==
  /\ pc[s] = "get"
  /\ ~Found(s)
  /\ Count("misses")
  /\ Goto(s, "parse")
  /\ UNCHANGED <<cache, clock, batch, got, tree, added, requests>>

(***************************************************************************)
(* The entry is copied and the clock read; the shared lock is kept.        *)
(***************************************************************************)
GetCopy(s) ==
  LET k == Key(batch[s]) IN
  /\ pc[s] = "get"
  /\ Found(s)
  /\ got' = [got EXCEPT ![s] = [parse |-> cache[k].parse, now |-> clock]]
  /\ Goto(s, "touch")
  /\ UNCHANGED <<cache, stats, clock, batch, tree, added, requests>>

Touch(s) ==
  /\ pc[s] = "touch"
  /\ cache' = [cache EXCEPT ![Key(batch[s])].stamp = got[s].now]
  /\ Goto(s, "restore")
  /\ UNCHANGED <<stats, clock, batch, got, tree, added, requests>>

SharedLockFree == \A s \in Sessions : pc[s] # "touch"

(***************************************************************************)
(* antlr_batch_parse_cache_read after the lookup: the tree and the datums  *)
(* are made from the copy, outside the lock.                               *)
(***************************************************************************)
RestoreKeepsCopy(s) ==
  /\ pc[s] = "restore"
  /\ tree' = [tree EXCEPT ![s] = got[s].parse]
  /\ added' = [added EXCEPT ![s] = @ \o Datums(got[s].parse)]
  /\ Count("hits")
  /\ Goto(s, "compiled")
  /\ UNCHANGED <<cache, clock, batch, got, requests>>

Restore(s) ==
  /\ pc[s] = "restore"
  /\ tree' = [tree EXCEPT ![s] = got[s].parse]
  /\ added' = [added EXCEPT ![s] = @ \o Datums(got[s].parse)]
  /\ got' = [got EXCEPT ![s] = None]
  /\ Count("hits")
  /\ Goto(s, "compiled")
  /\ UNCHANGED <<cache, clock, batch, requests>>

(***************************************************************************)
(* pltsql_stringToNode fails on the tree or on the datums: an error and a  *)
(* miss are counted, nothing is installed.  (The check of the numbers of   *)
(* the datums cannot fail: they were written from nDatums on, and get has  *)
(* compared nDatums.)                                                      *)
(***************************************************************************)
RestoreFails(s) ==
  /\ pc[s] = "restore"
  /\ got' = [got EXCEPT ![s] = None]
  /\ stats' = [stats EXCEPT !["errors"] = @ + 1, !["misses"] = @ + 1]
  /\ Goto(s, "parse")
  /\ UNCHANGED <<cache, clock, batch, tree, added, requests>>

(***************************************************************************)
(* The full parse after a miss.  A text that is rejected raises its error  *)
(* and ends the compilation.                                               *)
(***************************************************************************)
Reset(s) ==
  /\ batch' = [batch EXCEPT ![s] = None]
  /\ tree' = [tree EXCEPT ![s] = None]
  /\ added' = [added EXCEPT ![s] = <<>>]
  /\ Goto(s, "idle")

ParseError(s) ==
  /\ pc[s] = "parse"
  /\ batch[s].text \in Invalid
  /\ Reset(s)
  /\ UNCHANGED <<cache, stats, clock, got, requests>>

AntlrParse(s) ==
  /\ pc[s] = "parse"
  /\ batch[s].text \notin Invalid
  /\ tree' = [tree EXCEPT ![s] = Parse(s, batch[s])]
  /\ added' = [added EXCEPT ![s] = @ \o Datums(Parse(s, batch[s]))]
  /\ Goto(s, "write")
  /\ UNCHANGED <<cache, stats, clock, batch, got, requests>>

(***************************************************************************)
(* antlr_batch_parse_cache_write stores nothing when a datum cannot be     *)
(* shared or the sizes are outside the limits of the session, and counts   *)
(* an error when the subtransaction around it fails.                       *)
(***************************************************************************)
Cacheable(s) == batch[s].text \notin Unshared

NotStored(s) ==
  /\ pc[s] = "write"
  /\ Goto(s, "compiled")
  /\ UNCHANGED <<cache, stats, clock, batch, got, tree, added, requests>>

WriteFails(s) ==
  /\ pc[s] = "write"
  /\ Count("errors")
  /\ Goto(s, "compiled")
  /\ UNCHANGED <<cache, clock, batch, got, tree, added, requests>>

(***************************************************************************)
(* antlr_batch_parse_cache_put, under the exclusive lock.                  *)
(***************************************************************************)
Smaller(m, n) == IF m < n THEN m ELSE n
Larger(m, n) == IF m < n THEN n ELSE m

NumToDrop(n) == Smaller(Larger(MinVictims, (n * Percent) \div 100), n)

(***************************************************************************)
(* The sets of entries that the sort by last_used_at can put first; it     *)
(* leaves the order of equal stamps open.                                  *)
(***************************************************************************)
Oldest(n) ==
  {v \in SUBSET Entries :
     /\ Cardinality(v) = n
     /\ \A k \in v, l \in Entries \ v : cache[k].stamp <= cache[l].stamp}

EntryOfLate(s) ==
  [text |-> batch[s].text, sig |-> Sig(batch[s]),
   nDatums |-> NumDatums(batch[s].params) + Len(added[s]), version |-> VersionOf[s],
   parse |-> tree[s], stamp |-> clock]

EntryOf(s) == [text |-> batch[s].text, sig |-> Sig(batch[s]),
               nDatums |-> NumDatums(batch[s].params), version |-> VersionOf[s],
               parse |-> tree[s], stamp |-> clock]

PutCollision(s) ==
  LET e == cache[Key(batch[s])] IN
  /\ pc[s] = "write" /\ Cacheable(s) /\ SharedLockFree
  /\ e # None /\ ~EntryMatches(e, batch[s])
  /\ Count("errors")
  /\ Goto(s, "compiled")
  /\ UNCHANGED <<cache, clock, batch, got, tree, added, requests>>

PutUpdate(s) ==
  LET k == Key(batch[s]) IN
  /\ pc[s] = "write" /\ Cacheable(s) /\ SharedLockFree
  /\ cache[k] # None /\ EntryMatches(cache[k], batch[s])
  /\ cache' = [cache EXCEPT ![k] = EntryOf(s)]
  /\ Count("writes")
  /\ Goto(s, "compiled")
  /\ UNCHANGED <<clock, batch, got, tree, added, requests>>

(***************************************************************************)
(* A new entry.  A full table first loses its oldest entries; hash_enter   *)
(* returns NULL, and the entry is dropped, if it is full even then.        *)
(***************************************************************************)
MustEvict == Cardinality(Entries) >= NumSlots

Enter(s, victims) ==
  LET k == Key(batch[s])
      left == [l \in Keys |-> IF l \in victims THEN None ELSE cache[l]]
      evicted == [stats EXCEPT !["evictions"] = @ + Cardinality(victims)]
  IN IF Cardinality(Entries \ victims) < NumSlots
     THEN /\ cache' = [left EXCEPT ![k] = EntryOf(s)]
          /\ stats' = [evicted EXCEPT !["writes"] = @ + 1]
     ELSE /\ cache' = left
          /\ stats' = [evicted EXCEPT !["errors"] = @ + 1]

PutInsert(s) ==
  /\ pc[s] = "write" /\ Cacheable(s) /\ SharedLockFree
  /\ cache[Key(batch[s])] = None
  /\ \E victims \in IF MustEvict THEN Oldest(NumToDrop(Cardinality(Entries)))
                                 ELSE {{}} :
       Enter(s, victims)
  /\ Goto(s, "compiled")
  /\ UNCHANGED <<clock, batch, got, tree, added, requests>>

(***************************************************************************)
(* The compiled batch runs; the next one starts from nothing.              *)
(***************************************************************************)
Execute(s) ==
  /\ pc[s] = "compiled"
  /\ Reset(s)
  /\ UNCHANGED <<cache, stats, clock, got, requests>>

(***************************************************************************)
(* antlr_batch_parse_cache_flush.                                          *)
(***************************************************************************)
FlushKeepsEvictions(s) ==
  /\ pc[s] = "idle" /\ SharedLockFree
  /\ cache' = [k \in Keys |-> None]
  /\ stats' = [c \in Counters |-> IF c = "evictions" THEN stats[c] ELSE 0]
  /\ UNCHANGED <<clock, pc, batch, got, tree, added, requests>>

Flush(s) ==
  /\ pc[s] = "idle" /\ SharedLockFree
  /\ cache' = [k \in Keys |-> None]
  /\ stats' = [c \in Counters |-> 0]
  /\ UNCHANGED <<clock, pc, batch, got, tree, added, requests>>

Step(s) ==
  \/ GetOrParse(s)
  \/ GetMiss(s)
  \/ GetCopy(s)
  \/ Touch(s)
  \/ Restore(s)
  \/ RestoreFails(s)
  \/ ParseError(s)
  \/ AntlrParse(s)
  \/ NotStored(s)
  \/ WriteFails(s)
  \/ PutCollision(s)
  \/ PutUpdate(s)
  \/ PutInsert(s)
  \/ Execute(s)
  \/ Flush(s)

Next == Tick \/ \E s \in Sessions : Step(s)

Spec == Init /\ [][Next]_vars
-----------------------------------------------------------------------------

Parses == {Parse(s, b) : s \in Sessions, b \in Batches}

EntryType == [text : {b.text : b \in Batches}, sig : {Sig(b) : b \in Batches},
              nDatums : {NumDatums(b.params) : b \in Batches},
              version : {VersionOf[s] : s \in Sessions},
              parse : Parses, stamp : Nat]

CopyType == [parse : Parses, now : Nat]

ASSUME NoneIsNothing ==
  /\ None \notin Batches
  /\ None \notin EntryType
  /\ None \notin CopyType

(***************************************************************************)
(* Every variable has its type; a backend has a batch exactly while it     *)
(* compiles one, and a copy exactly between lookup and restore.            *)
(***************************************************************************)
TypeOK ==
  /\ cache \in [Keys -> EntryType \cup {None}]
  /\ stats \in [Counters -> Nat]
  /\ clock \in Nat
  /\ pc \in [Sessions -> {"idle", "get", "touch", "restore", "parse", "write", "compiled"}]
  /\ batch \in [Sessions -> Batches \cup {None}]
  /\ got \in [Sessions -> CopyType \cup {None}]
  /\ tree \in [Sessions -> Parses \cup {None}]
  /\ added \in [Sessions -> Seq(Parses)]
  /\ requests \in Nat
  /\ \A s \in Sessions : (pc[s] = "idle") <=> (batch[s] = None)
  /\ \A s \in Sessions : (pc[s] \in {"touch", "restore"}) <=> (got[s] # None)

(***************************************************************************)
(* The entry a backend has copied is still in the table when it writes its *)
(* last_used_at: no put, eviction or flush comes between (get, "Copy under *)
(* the lock so a concurrent eviction cannot overwrite it").                *)
(***************************************************************************)
EntryHeld ==
  \A s \in Sessions : pc[s] = "touch" => cache[Key(batch[s])] # None

(***************************************************************************)
(* p is what a fresh parse of b by s would give.  The settings of the      *)
(* session, which the key leaves out, count only for a text whose types    *)
(* they resolve.                                                           *)
(***************************************************************************)
IsParseOf(p, s, b) ==
  p = [Parse(s, b) EXCEPT !.setting = IF b.text \in Unshared THEN @ ELSE p.setting]

(***************************************************************************)
(* Whatever the other backends store, evict and flush meanwhile, and       *)
(* however texts and signatures collide, a compiled batch runs the parse   *)
(* of its own text in its own database with its own parameters by its own  *)
(* version of the parser, with the datums of that parse added once: a hit, *)
(* a miss and a restore that failed on the way cannot be told apart.       *)
(* (get_or_parse, "On a hit, pltsql_parse_result and the datums come from  *)
(* the cache.  On a miss, run ANTLR".)                                     *)
(***************************************************************************)
RunsOwnParse ==
  \A s \in Sessions : pc[s] \in {"write", "compiled"} =>
    /\ IsParseOf(tree[s], s, batch[s])
    /\ added[s] = Datums(tree[s])


(***************************************************************************)
(* Every entry holds the parse of a batch that has the entry's key, text,  *)
(* signature, datum count and version, that ANTLR accepted, and that is    *)
(* the same for every session.                                             *)
(***************************************************************************)
Genuine(k, e) ==
  \E s \in Sessions, b \in Batches :
    /\ e.parse = Parse(s, b)
    /\ k = Key(b)
    /\ e.text = b.text /\ e.sig = Sig(b)
    /\ e.nDatums = NumDatums(b.params)
    /\ e.version = VersionOf[s]
    /\ b.text \notin Invalid \cup Unshared

EntriesGenuine == \A k \in Entries : Genuine(k, cache[k])

(***************************************************************************)
(* The table never holds more entries than slots were reserved at server   *)
(* start, and the counters account for its contents: since the last flush  *)
(* every entry was written, and those evicted are gone (put, evict_lru,    *)
(* flush).                                                                 *)
(***************************************************************************)
SlotsAccounted ==
  /\ Cardinality(Entries) <= NumSlots
  /\ Cardinality(Entries) + stats["evictions"] <= stats["writes"]

(***************************************************************************)
(* The shared table is sound: typed, genuine and accounted for.            *)
(***************************************************************************)
CacheSound == TypeOK /\ EntriesGenuine /\ SlotsAccounted

(***************************************************************************)
(* An entry that a key has belongs to the same text and signature until it *)
(* is evicted or flushed: a collision never replaces it (put, "Key already *)
(* used by different text or signature").                                  *)
(***************************************************************************)
CollisionKeepsEntry ==
  [][\A k \in Keys : cache[k] # None /\ cache'[k] # None =>
       cache'[k].text = cache[k].text /\ cache'[k].sig = cache[k].sig]_vars
=============================================================================
