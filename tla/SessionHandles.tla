--------------------------- MODULE SessionHandles ---------------------------
(***************************************************************************)
(* The handles a session gives out: the prepared batches of sp_prepare,    *)
(* sp_prepexec and sp_execute, kept with the compiled functions, and the   *)
(* documents of sp_xml_preparedocument, kept as rows of a temporary table  *)
(* beside a bitmap of the handles in use.  The table follows the           *)
(* transactions; the cache, the bitmap and the counters do not.            *)
(***************************************************************************)
EXTENDS Integers, FiniteSets, Functions

CONSTANTS
  Texts,        \* the batches a client prepares
  MaxHandle,    \* INT32_MAX for batches, XML_HANDLE_COUNTER_INVALID - 1 for documents
  MaxDocs       \* bound: the documents prepared in one session

VARIABLES
  part,     \* the session uses "batches" or "documents": they share no state
  cache,    \* the compiled batches: handle -> text
  nextId,   \* cur_handle_id
  client,   \* the prepared statements of the client: [handle, text, since]
  ran,      \* the last sp_execute: the text the client meant, the text that ran
  exists,   \* the session's temporary table of documents exists
  docs,     \* its rows: [id, doc]
  bits,     \* active_xml_handles_counter
  current,  \* current_xml_handle_counter
  made,     \* the documents prepared so far
  saved,    \* exists and docs as they were when the transaction began
  undone    \* the handles whose removal was rolled back

batchVars == <<cache, nextId, client, ran>>
docVars == <<exists, docs, bits, current, made, saved, undone>>
vars == <<part, cache, nextId, client, ran, exists, docs, bits, current, made, saved, undone>>

-----------------------------------------------------------------------------
(* Prepared batches.                                                       *)

Nothing == [meant |-> "nothing", got |-> "nothing"]

\* Mutant of NextHandleId: the counter starts again one handle early.
NextHandleIdEarly(h) == (h % (MaxHandle - 1)) + 1

\* The handle after h; after the last one the handles start again at 1.
NextHandleId(h) == (h % MaxHandle) + 1

\* cache_compiled_batch: an entry of that handle is overwritten.
Cache(t) ==
  /\ cache' = [h \in DOMAIN cache \cup {nextId} |-> IF h = nextId THEN t ELSE cache[h]]
  /\ nextId' = NextHandleId(nextId)

\* The client's statements after one more batch was cached: each is older.
Older == {[s EXCEPT !.since = IF @ < MaxHandle THEN @ + 1 ELSE @] : s \in client}
Told(t) == {s \in Older : s.handle # nextId} \cup {[handle |-> nextId, text |-> t, since |-> 0]}

\* sp_prepare, and sp_prepexec that succeeds: the client is sent the handle.
Prepare(t) ==
  /\ Cache(t)
  /\ client' = Told(t)
  /\ ran' = Nothing
  /\ UNCHANGED docVars

\* sp_prepexec of a batch that compiles and then fails: it stays cached, and
\* the error takes the place of the handle.
PrepExecFails(t) ==
  /\ Cache(t)
  /\ client' = Older
  /\ ran' = Nothing
  /\ UNCHANGED docVars

\* sp_execute of a handle the client holds; a handle not found is an error.
Execute(s) ==
  /\ s.handle \in DOMAIN cache
  /\ ran' = [meant |-> s.text, got |-> cache[s.handle]]
  /\ UNCHANGED <<cache, nextId, client, docVars>>

Unprepare(s) ==
  /\ cache' = Restrict(cache, DOMAIN cache \ {s.handle})
  /\ client' = client \ {s}
  /\ ran' = Nothing
  /\ UNCHANGED <<nextId, docVars>>

-----------------------------------------------------------------------------
(* Documents.                                                              *)


\* A handle is usable when its bit is not set, or no row has it.
Usable(h, rows) == h \notin bits \/ \A d \in rows : d.id # h

\* The next usable handle after h, going round; h itself is not tried again.
NextDocument(h, rows) ==
  LET Later(i) == ((h + i - 1) % MaxHandle) + 1
      good == {i \in 1..MaxHandle : Later(i) # h /\ Usable(Later(i), rows)}
  IN  IF good = {} THEN 0 ELSE Later(CHOOSE i \in good : \A j \in good : i <= j)

\* sp_xml_preparedocument creates the table if it is not there, which starts
\* the handles again, and adds a row.
PrepareDocument ==
  LET rows == IF exists THEN docs ELSE {}
      h == NextDocument(IF exists THEN current ELSE 0, rows)
  IN  /\ made < MaxDocs
      /\ h # 0
      /\ exists' = TRUE
      /\ docs' = rows \cup {[id |-> h, doc |-> made]}
      /\ bits' = bits \cup {h}
      /\ current' = h
      /\ made' = made + 1
      /\ UNCHANGED <<saved, undone, batchVars>>

\* sp_xml_removedocument: the bit and a row must be there; both go.
RemoveDocument(h) ==
  /\ h \in bits /\ exists
  /\ \E d \in docs : d.id = h /\ docs' = docs \ {d}
  /\ bits' = bits \ {h}
  /\ UNCHANGED <<exists, current, made, saved, undone, batchVars>>

\* Saved states are sets of at most one, so that "no transaction" is the empty set.
BeginTran ==
  /\ saved = {}
  /\ saved' = {[exists |-> exists, docs |-> docs]}
  /\ UNCHANGED <<exists, docs, bits, current, made, undone, batchVars>>

CommitTran ==
  /\ saved # {}
  /\ saved' = {}
  /\ UNCHANGED <<exists, docs, bits, current, made, undone, batchVars>>

RollbackTran ==
  \E s \in saved :
    /\ exists' = s.exists
    /\ docs' = s.docs
    /\ saved' = {}
    /\ undone' = undone \cup {d.id : d \in s.docs \ docs}
    /\ UNCHANGED <<bits, current, made, batchVars>>

\* reset_cached_batch walks the handles down from the next one;
\* reset_cached_xml_handle forgets the table, the bitmap and the counter.
ResetConnection ==
  /\ cache' = Restrict(cache, DOMAIN cache \ 1..nextId)
  /\ nextId' = 1
  /\ client' = {} /\ ran' = Nothing
  /\ exists' = FALSE /\ docs' = {} /\ bits' = {} /\ current' = 0
  /\ saved' = {} /\ undone' = {}
  /\ UNCHANGED made

-----------------------------------------------------------------------------
Init ==
  /\ part \in {"batches", "documents"}
  /\ cache = <<>> /\ nextId = 1 /\ client = {} /\ ran = Nothing
  /\ exists = FALSE /\ docs = {} /\ bits = {} /\ current = 0 /\ made = 0
  /\ saved = {} /\ undone = {}

NextBatch ==
  /\ part = "batches"
  /\ \/ \E t \in Texts : Prepare(t) \/ PrepExecFails(t)
     \/ \E s \in client : Execute(s) \/ Unprepare(s)

NextDoc ==
  /\ part = "documents"
  /\ \/ PrepareDocument
     \/ \E h \in 1..MaxHandle : RemoveDocument(h)
     \/ BeginTran \/ CommitTran \/ RollbackTran

Next == UNCHANGED part /\ (NextBatch \/ NextDoc \/ ResetConnection)

Spec == Init /\ [][Next]_vars

-----------------------------------------------------------------------------
(* Properties.                                                             *)

\* A prepared handle runs the batch it was given out for, until it is
\* unprepared or the connection is reset, as long as fewer batches were cached
\* since than there are handles (cache_compiled_batch overwrites after that).
HandleRunsOwnBatch ==
  /\ \A s \in client : s.since < MaxHandle =>
       s.handle \in DOMAIN cache /\ cache[s.handle] = s.text
  /\ \A s1, s2 \in client : s1.handle = s2.handle => s1 = s2

\* "document_id is always odd and unique": no two documents share a handle, and
\* every document can be removed because its bit is set, whatever was rolled
\* back and however the handles went round.  The exception is a document whose
\* own removal was rolled back: its row is back and its bit is not.
DocumentsUnique ==
  \A d \in docs :
    d.id \notin undone =>
      /\ d.id \in bits
      /\ \A e \in docs : e.id = d.id => e = d

=============================================================================
