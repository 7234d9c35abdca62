---------------------------- MODULE TdsProtocol ----------------------------
(***************************************************************************)
(* The request loop of a TDS backend (babelfishpg_tds, tdsprotocol.c): the *)
(* phases of TdsSocketBackend, batches of RPC calls in one message, the    *)
(* reset of a connection, by a flag of the packet or by sp_reset_-         *)
(* connection, and transaction management requests (tdsxact.c).            *)
(*                                                                         *)
(* PostgreSQL's main loop calls TdsSocketBackend twice per round, to read  *)
(* a command and to process it; an error thrown out of it, or an interrupt *)
(* between the two calls, ends the round.  The phase says what a call does.*)
(*                                                                         *)
(* What a request does inside the executor is the subject of TsqlExec; here*)
(* it only leaves the session in some state.  The bytes of the messages    *)
(* are the subject of TdsReceive.                                          *)
(***************************************************************************)
EXTENDS Integers, Sequences

CONSTANTS
    Messages,      \* the messages clients send
    MaxRequests,   \* bound on the messages of a connection
    Resetting,     \* may a request call sp_reset_connection?
    Timeouts       \* is statement_timeout set?

Kinds == {"batch", "rpc", "begin", "commit", "rollback", "bulk", "attention"}
TxnKinds == {"begin", "commit", "rollback"}

\* calls is the number of RPC calls in the message, next the flag of a COMMIT
\* or ROLLBACK request that begins another transaction, reset the flag
\* RESETCON.  flaw says what is wrong with the message, if anything: its last
\* call cannot be parsed, its length is corrupt, RESETCONSKIPTRAN, no data.
Flaws == {"none", "parse", "corrupt", "skiptran", "empty"}
Message == [kind : Kinds, calls : Nat \ {0}, next : BOOLEAN, reset : BOOLEAN,
            flaw : Flaws]

ASSUME MessagesAssumption ==
    /\ Messages \subseteq Message
    /\ \A m \in Messages : m.kind # "rpc" => m.calls = 1
ASSUME BoundsAssumption ==
    MaxRequests \in Nat /\ {Resetting, Timeouts} \subseteq BOOLEAN

NoMessage == [kind |-> "none"]
NoRequest == [kind |-> "none", left |-> 0]

VARIABLES
    pipe,     \* messages on the wire
    phase,    \* TdsRequestCtrl->phase
    request,  \* TdsRequestCtrl->request and how many of its calls are left
    status,   \* RESETCON in TdsRequestCtrl->status
    saved,    \* resetCon
    flag,     \* resetTdsConnectionFlag
    main,     \* where the main loop is
    timer,    \* is the statement timeout running?
    sess,     \* the session
    resp,     \* the tokens of the response so far
    hist      \* history: messages sent and read, responses sent, the message
              \* in progress and how many of its calls have been executed

vars == <<pipe, phase, request, status, saved, flag, main, timer, sess, resp, hist>>

\* A session: its transaction, whether its settings, temporary tables or
\* handles differ from those of a new one, and whether its default isolation
\* level does.
Fresh == [tran |-> "none", dirty |-> FALSE, isolation |-> FALSE]

\* A response: is there a DONE token, an ERROR token, which environment change
\* tokens?
NoTokens == [done |-> FALSE, error |-> FALSE, env |-> {}]

Running == main \in {"read", "process"}
Waiting == Running /\ phase = "fetch" /\ request = NoRequest /\ saved = NoMessage

-----------------------------------------------------------------------------
(* The client and the main loop                                            *)

\* A client waits for the response before it sends the next request; it may
\* cancel a request, though not one that resets the connection.
Send(m) ==
    /\ main # "exit" /\ hist.asked < MaxRequests
    /\ \/ m.kind # "attention" /\ hist.asked = hist.sent
       \/ m.kind = "attention" /\ hist.asked = hist.sent + 1
            /\ \/ pipe = <<>> /\ ~hist.cur.reset
               \/ pipe # <<>> /\ ~pipe[1].reset
    /\ pipe' = Append(pipe, m)
    /\ hist' = [hist EXCEPT !.asked = @ + 1]
    /\ UNCHANGED <<phase, request, status, saved, flag, main, timer, sess, resp>>

\* TdsSocketBackend returns to the main loop, which checks for interrupts
\* between reading a command and processing it.
Return == main' = IF main = "read" THEN "check" ELSE "read"

Proceed == /\ main = "check"
           /\ main' = "process"
           /\ UNCHANGED <<pipe, phase, request, status, saved, flag, timer, sess, resp, hist>>

\* The statement timeout strikes there.
Interrupt == /\ main = "check" /\ timer
             /\ main' = "error"
             /\ UNCHANGED <<pipe, phase, request, status, saved, flag, timer, sess, resp, hist>>

\* The error handler of the main loop: the error is reported, the transaction
\* aborted, which leaves a transaction block in the aborted state, and all
\* timers are stopped.
MainError ==
    /\ main = "error"
    /\ main' = "read"
    /\ timer' = FALSE
    /\ resp' = [resp EXCEPT !.error = TRUE]
    /\ sess' = [sess EXCEPT !.tran = IF @ = "none" THEN "none" ELSE "aborted"]
    /\ UNCHANGED <<pipe, phase, request, status, saved, flag, hist>>

-----------------------------------------------------------------------------
(* The reset of a connection                                               *)

\* As ResetSession, without aborting the transaction.
ResetSessionInTran(s, keep) ==
    [Fresh EXCEPT !.isolation = keep /\ s.isolation, !.tran = s.tran]

\* TdsDiscardAll and reset_session_properties, after the transaction was
\* aborted; the isolation level is kept unless sp_reset_connection asked.
ResetSession(s, keep) == [Fresh EXCEPT !.isolation = keep /\ s.isolation]

\* What TdsProtocolInit makes of TdsRequestCtrl->status.
StatusAfterInit(st) == FALSE

\* TdsProtocolInit.
ProtocolInit(st) == /\ phase' = "init" /\ request' = NoRequest
                    /\ status' = StatusAfterInit(st)

\* As WithoutReset, forgetting to clear RESETCON.
WithReset(m) == m

\* The message is saved without RESETCON.
WithoutReset(m) == [m EXCEPT !.reset = FALSE]

\* Two errors and a DONE token are flushed and the connection ends.
Kill(h) == /\ main' = "exit"
           /\ resp' = NoTokens
           /\ hist' = [h EXCEPT !.killed = TRUE]

Exit == /\ main' = "exit"
        /\ UNCHANGED <<resp, hist>>

-----------------------------------------------------------------------------
(* The phases of TdsSocketBackend                                          *)

Init == /\ pipe = <<>> /\ phase = "init" /\ request = NoRequest
        /\ status = FALSE /\ saved = NoMessage /\ flag = FALSE
        /\ main = "read" /\ timer = FALSE
        /\ sess = Fresh /\ resp = NoTokens
        /\ hist = [asked |-> 0, read |-> 0, sent |-> 0, cur |-> NoMessage,
                   ran |-> 0, killed |-> FALSE]

\* TDS_REQUEST_PHASE_INIT: the type and encoding caches are loaded.
InitPhase ==
    /\ Running /\ phase = "init"
    /\ \/ /\ phase' = "fetch"
          /\ UNCHANGED <<main, resp, hist>>
       \/ Kill(hist) /\ UNCHANGED phase
    /\ UNCHANGED <<pipe, request, status, saved, flag, timer, sess>>

\* The message GetTDSRequest works on: the one saved over a reset, a new one,
\* or the rest of a batch of calls; and whether its status has RESETCON.
Got == CASE saved # NoMessage -> [m |-> saved, reset |-> saved.reset, left |-> saved.calls]
         [] saved = NoMessage /\ request = NoRequest ->
                [m |-> pipe[1], reset |-> pipe[1].reset, left |-> pipe[1].calls]
         [] OTHER -> [m |-> hist.cur, reset |-> status, left |-> request.left]

CanFetch == Running /\ phase = "fetch" /\ (Waiting => pipe # <<>>)

\* A new message is read.
Taken == IF Waiting THEN [hist EXCEPT !.read = @ + 1, !.cur = pipe[1], !.ran = 0]
                    ELSE hist
StatusRead == IF Waiting THEN pipe[1].reset ELSE status
Read == pipe' = IF Waiting THEN Tail(pipe) ELSE pipe

\* The error of GetTDSRequest leaves TdsSocketBackend.
Throw == phase' = "error" /\ main' = "error"

\* GetTDSRequest of a message that resets the connection: it is saved, the
\* database of the login is set and the connection reset.
FetchReset ==
    /\ CanFetch /\ Got.reset
    /\ Read
    /\ saved' = WithoutReset(Got.m)
    /\ \/ /\ ProtocolInit(StatusRead)
          /\ sess' = ResetSession(sess, TRUE)
          /\ resp' = NoTokens
          /\ hist' = Taken
          /\ UNCHANGED main
       \/ Kill(Taken) /\ UNCHANGED <<phase, request, status, sess>>
    /\ UNCHANGED <<flag, timer>>

\* GetTDSRequest of a message that is refused: with an error, or as the end of
\* the connection.
FetchRefused ==
    /\ CanFetch /\ ~Got.reset /\ Got.m.flaw # "none"
    /\ Got.m.flaw = "parse" => Got.left = 1
    /\ Read /\ hist' = Taken /\ status' = StatusRead
    /\ saved' = NoMessage
    /\ timer' = (timer \/ (Timeouts /\ Got.m.flaw = "parse"))
    /\ IF Got.m.flaw \in {"parse", "skiptran"} THEN Throw
       ELSE main' = "exit" /\ UNCHANGED phase
    /\ UNCHANGED <<request, flag, sess, resp>>

\* GetTDSRequest of a message it can parse, at least its next call.
FetchRequest ==
    /\ CanFetch /\ ~Got.reset
    /\ Got.m.flaw = "none" \/ (Got.m.flaw = "parse" /\ Got.left > 1)
    /\ Read /\ hist' = Taken /\ status' = StatusRead
    /\ saved' = NoMessage
    /\ timer' = (timer \/ Timeouts)
    /\ request' = [kind |-> Got.m.kind, left |-> Got.left]
    /\ phase' = "process"
    /\ Return
    /\ UNCHANGED <<flag, sess, resp>>

\* What executing call k of the session may leave behind.
After(k, s) ==
    CASE k = "attention" -> {s}
      [] k = "begin" -> {[s EXCEPT !.tran = t] : t \in {"open", s.tran}}
      [] k \in {"commit", "rollback"} -> {[s EXCEPT !.tran = t] : t \in {"none", s.tran}}
      [] OTHER -> {[tran |-> t, dirty |-> d, isolation |-> i] :
                     t \in {"none", "open"}, d \in {s.dirty, TRUE}, i \in BOOLEAN}

\* The environment change tokens of ProcessTxnMgmtRequest; block says whether
\* a transaction block is active after its commands.
EnvTokens(m, block) ==
    (CASE m.kind = "begin" -> {"begin"}
       [] m.kind = "commit" -> {"commit"}
       [] m.kind = "rollback" /\ ~block -> {"rollback"}
       [] OTHER -> {})
    \cup IF m.next THEN {"begin"} ELSE {}

\* As AfterCall, with a batch of calls flushed after its first one.
AfterCallFlushes(left) == "flush"

\* As AfterCall, with one call too many.
AfterCallOneMore(left) == IF left >= 0 THEN "fetch" ELSE "flush"

\* The phase after a call has been processed, by the calls left.
AfterCall(left) == IF left > 0 THEN "fetch" ELSE "flush"

\* TDS_REQUEST_PHASE_PROCESS: an aborted transaction block ends the connection,
\* otherwise the call is executed; an error is reported and followed by a DONE
\* token, and its transaction management request sends no other tokens.
Process ==
    /\ Running /\ phase = "process" /\ sess.tran # "aborted"
    /\ \E s \in After(request.kind, sess), ok \in BOOLEAN,
          r \in (IF Resetting /\ request.kind \in {"batch", "rpc"} THEN BOOLEAN ELSE {FALSE}) :
         LET m == hist.cur
             next == m.next /\ request.kind \in TxnKinds
             s1 == IF next /\ ok THEN [s EXCEPT !.tran = "open"] ELSE s
         IN  /\ request.kind = "attention" => ok
             /\ ok /\ request.kind = "begin" => s.tran = "open"
             /\ ok /\ request.kind \in {"commit", "rollback"} => sess.tran = "open"
             /\ sess' = s1
             /\ flag' = (flag \/ r)
             /\ resp' = [resp EXCEPT
                  !.done = TRUE, !.error = @ \/ ~ok,
                  !.env = IF ok /\ request.kind \in TxnKinds
                          THEN @ \cup EnvTokens(m, s1.tran # "none") ELSE @]
    /\ timer' = FALSE
    /\ request' = [request EXCEPT !.left = @ - 1]
    /\ phase' = AfterCall(request.left - 1)
    /\ hist' = [hist EXCEPT !.ran = @ + 1]
    /\ Return
    /\ UNCHANGED <<pipe, status, saved>>

ProcessAborted ==
    /\ Running /\ phase = "process" /\ sess.tran = "aborted"
    /\ Exit
    /\ UNCHANGED <<pipe, phase, request, status, saved, flag, timer, sess>>

\* As Flush, forgetting the reset.
FlushOnly ==
    /\ Running /\ phase = "flush"
    /\ hist' = [hist EXCEPT !.sent = @ + 1] /\ resp' = NoTokens
    /\ request' = NoRequest /\ phase' = "fetch"
    /\ UNCHANGED <<pipe, status, saved, flag, main, timer, sess>>

\* TDS_REQUEST_PHASE_FLUSH: the response is sent; if sp_reset_connection was
\* called the database of the login is set before, and the connection reset
\* after that.
Flush ==
    /\ Running /\ phase = "flush"
    /\ LET h == [hist EXCEPT !.sent = @ + 1] IN
       \/ /\ ~flag
          /\ hist' = h /\ resp' = NoTokens
          /\ request' = NoRequest /\ phase' = "fetch"
          /\ UNCHANGED <<status, flag, sess, main>>
       \/ /\ flag
          /\ hist' = h /\ resp' = NoTokens
          /\ ProtocolInit(status)
          /\ sess' = ResetSession(sess, FALSE)
          /\ flag' = FALSE
          /\ UNCHANGED main
       \/ /\ flag
          /\ Kill(hist) \/ Kill(h)
          /\ UNCHANGED <<status, flag, sess, request, phase>>
    /\ UNCHANGED <<pipe, saved, timer>>

\* As ErrorPhase, going on without a response.
ErrorPhaseSilent ==
    /\ Running /\ phase = "error"
    /\ resp' = NoTokens /\ request' = NoRequest
    /\ phase' = "fetch"
    /\ UNCHANGED <<pipe, status, saved, flag, main, timer, sess, hist>>

\* TDS_REQUEST_PHASE_ERROR: the error has been reported, its DONE token follows.
ErrorPhase ==
    /\ Running /\ phase = "error"
    /\ resp' = [resp EXCEPT !.done = TRUE]
    /\ phase' = "flush"
    /\ UNCHANGED <<pipe, request, status, saved, flag, main, timer, sess, hist>>

\* The client closes the connection while the server waits for a request.
Close == /\ Waiting /\ pipe = <<>>
         /\ Exit
         /\ UNCHANGED <<pipe, phase, request, status, saved, flag, timer, sess>>

Server == \/ Proceed \/ Interrupt \/ MainError \/ InitPhase
          \/ FetchReset \/ FetchRefused \/ FetchRequest
          \/ Process \/ ProcessAborted \/ Flush \/ ErrorPhase

Next == Server \/ Close \/ \E m \in Messages : Send(m)

Spec == Init /\ [][Next]_vars

-----------------------------------------------------------------------------

\* Type invariant of the request loop.
TypeOK ==
    /\ pipe \in Seq(Messages)
    /\ phase \in {"init", "fetch", "process", "flush", "error"}
    /\ request \in [kind : Kinds \cup {"none"}, left : Nat]
    /\ status \in BOOLEAN /\ flag \in BOOLEAN /\ timer \in BOOLEAN
    /\ saved \in Message \cup {NoMessage}
    /\ main \in {"read", "check", "process", "error", "exit"}
    /\ sess \in [tran : {"none", "open", "aborted"}, dirty : BOOLEAN, isolation : BOOLEAN]
    /\ resp \in [done : BOOLEAN, error : BOOLEAN,
                 env : SUBSET {"begin", "commit", "rollback"}]
    /\ hist.sent <= hist.read /\ hist.read <= hist.asked /\ hist.asked <= MaxRequests

\* One response for each message: whatever the calls, errors, resets and
\* interrupts of a message, it is answered once before the next one is read,
\* and the server never sends a response nobody asked for
\* (TdsSocketBackend).
OneResponse == /\ hist.sent \in {hist.read - 1, hist.read}
               /\ Waiting /\ phase # "init" => hist.sent = hist.read

\* The calls of a message are executed in turn, each once; only an error keeps
\* one of them from being executed (RestoreRPCBatch, RPCBatchExists).
CallsRunOnce ==
    /\ hist.cur # NoMessage => hist.ran <= hist.cur.calls
    /\ Running /\ phase = "flush" /\ ~resp.error => hist.ran = hist.cur.calls

\* A message with RESETCON is executed in a session that keeps nothing of the
\* past but the isolation level (GetTDSRequest, ResetTDSConnection).
ServedAfterReset ==
    phase = "process" /\ hist.cur.reset /\ hist.ran = 0
      => sess.tran = "none" /\ ~sess.dirty

\* While the server waits for the client neither a reset nor the statement
\* timeout is pending: the first would strike at a later request, the second
\* at a client that is only slow.
IdleIsQuiet == Waiting => ~flag /\ ~timer

\* The request loop serves the messages in turn.
ServesInTurn == TypeOK /\ OneResponse /\ CallsRunOnce /\ IdleIsQuiet

\* "We shouldn't be in this state as we handle the aborted case on
\* babelfishpg_tsql extension itself": no request meets an aborted
\* transaction block (ProcessTDSRequest).
NoAbortedBlock == phase = "process" /\ Running => sess.tran # "aborted"

\* Every message is answered, or the connection ends.
Answered == \A i \in 1 .. MaxRequests :
    hist.asked >= i ~> (hist.sent >= i \/ main = "exit")
=============================================================================
