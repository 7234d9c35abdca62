------------------------- MODULE TdsProtocolProofs -------------------------
(***************************************************************************)
(* Proofs about TdsProtocol, for any set of messages, any number of them,  *)
(* and with or without timeouts and calls of sp_reset_connection.          *)
(***************************************************************************)
EXTENDS TdsProtocol, SequenceTheorems, TLAPS

\* A message is being served: it has been read and not been answered.
Busy == \/ request # NoRequest
        \/ saved # NoMessage
        \/ phase \in {"process", "flush", "error"}

\* The history counts: every message sent is read or on the wire, and between
\* two phases of a live connection exactly the message being served is owed a
\* response.
Counted ==
    /\ hist \in [asked : Nat, read : Nat, sent : Nat,
                 cur : Messages \cup {NoMessage}, ran : Nat, killed : BOOLEAN]
    /\ hist.asked = hist.read + Len(pipe)
    /\ hist.asked <= MaxRequests
    /\ hist.sent \in {hist.read - 1, hist.read}
    /\ hist.cur # NoMessage => hist.ran <= hist.cur.calls
    /\ main # "exit" => /\ Busy => hist.sent = hist.read - 1
                        /\ ~Busy => hist.sent = hist.read

\* A message saved over a reset waits for a fresh session to be served in.
SavedOK ==
    main # "exit" /\ saved # NoMessage =>
        /\ phase \in {"init", "fetch"}
        /\ request = NoRequest
        /\ saved = WithoutReset(hist.cur)
        /\ hist.ran = 0
        /\ sess.tran = "none" /\ ~sess.dirty

\* What is left of the request and what has been executed make up the message.
RequestOK ==
    main # "exit" =>
        /\ ~status
        /\ Busy => hist.cur \in Messages
        /\ phase = "init" => request = NoRequest
        /\ phase = "process" \/ (phase = "fetch" /\ request # NoRequest) =>
             /\ request.left > 0
             /\ request.kind = hist.cur.kind
             /\ hist.ran + request.left = hist.cur.calls
             /\ phase = "fetch" => hist.ran > 0
        /\ phase = "flush" /\ ~resp.error => hist.ran = hist.cur.calls

\* The statement timeout runs only over a request about to be processed, and
\* an error is reported before its phase begins.
MainOK ==
    main # "exit" =>
        /\ timer => phase = "process" \/ (phase = "error" /\ main = "error")
        /\ phase = "error" => main = "error" \/ (Running /\ resp.error)
        /\ main = "error" => phase \in {"process", "error"}
        /\ ~Busy => ~flag

\* The inductive invariant of the request loop.
Inv == TypeOK /\ Counted /\ SavedOK /\ RequestOK /\ MainOK /\ ServedAfterReset

-----------------------------------------------------------------------------
(* Facts about messages.                                                   *)

\* A message is not NoMessage, and is one of Message.
LEMMA MessageFacts ==
    ASSUME NEW m \in Messages
    PROVE  /\ m \in Message /\ m # NoMessage
           /\ m.kind \in Kinds /\ m.kind # "none"
           /\ m.calls \in Nat /\ m.calls > 0
           /\ m.reset \in BOOLEAN /\ m.next \in BOOLEAN /\ m.flaw \in Flaws
<1>1. m \in Message
  BY MessagesAssumption
<1>2. m.kind \in Kinds /\ m.kind # "none"
  BY <1>1 DEF Message, Kinds
<1>3. m # NoMessage
  BY <1>2 DEF NoMessage
<1>. QED
  BY <1>1, <1>2, <1>3 DEF Message

\* A message saved without RESETCON differs from it in that flag only.
LEMMA WithoutResetFacts ==
    ASSUME NEW m \in Messages
    PROVE  /\ WithoutReset(m) \in Message /\ WithoutReset(m) # NoMessage
           /\ WithoutReset(m).kind = m.kind /\ WithoutReset(m).calls = m.calls
           /\ WithoutReset(m).flaw = m.flaw /\ ~WithoutReset(m).reset
<1>1. m \in Message /\ m.kind # "none"
  BY MessageFacts
<1>2. /\ WithoutReset(m) \in Message
      /\ WithoutReset(m).kind = m.kind /\ WithoutReset(m).calls = m.calls
      /\ WithoutReset(m).flaw = m.flaw /\ ~WithoutReset(m).reset
  BY <1>1 DEF WithoutReset, Message
<1>3. WithoutReset(m) # NoMessage
  BY <1>1, <1>2 DEF NoMessage
<1>. QED
  BY <1>2, <1>3

\* The message at the front of the wire, and what is behind it.
LEMMA PipeFacts ==
    ASSUME pipe \in Seq(Messages), pipe # <<>>
    PROVE  /\ pipe[1] \in Messages
           /\ Tail(pipe) \in Seq(Messages) /\ Len(Tail(pipe)) = Len(pipe) - 1
           /\ Len(pipe) \in Nat /\ Len(pipe) > 0
OBVIOUS

-----------------------------------------------------------------------------
(* The inductive invariant.                                                *)

\* It holds when the connection is set up.
LEMMA InvInit == Init => Inv
<1> SUFFICES ASSUME Init PROVE Inv
  OBVIOUS
<1>1. ~Busy
  BY DEF Init, Busy
<1>2. TypeOK
  <2>1. <<>> \in Seq(Messages)
    OBVIOUS
  <2>2. NoRequest \in [kind : Kinds \cup {"none"}, left : Nat]
    BY DEF NoRequest
  <2>3. Fresh \in [tran : {"none", "open", "aborted"}, dirty : BOOLEAN, isolation : BOOLEAN]
    BY DEF Fresh
  <2>4. NoTokens \in [done : BOOLEAN, error : BOOLEAN,
                       env : SUBSET {"begin", "commit", "rollback"}]
    BY DEF NoTokens
  <2>5. hist.sent <= hist.read /\ hist.read <= hist.asked /\ hist.asked <= MaxRequests
    BY BoundsAssumption DEF Init
  <2>6. /\ phase \in {"init", "fetch", "process", "flush", "error"}
        /\ main \in {"read", "check", "process", "error", "exit"}
    BY DEF Init
  <2>7. status \in BOOLEAN /\ flag \in BOOLEAN /\ timer \in BOOLEAN
    BY DEF Init
  <2>. QED
    BY <2>1, <2>2, <2>3, <2>4, <2>5, <2>6, <2>7, Zenon DEF Init, TypeOK
<1>3. Counted
  BY <1>1, BoundsAssumption DEF Init, Counted
<1>4. SavedOK /\ RequestOK /\ MainOK /\ ServedAfterReset
  BY <1>1 DEF Init, SavedOK, RequestOK, MainOK, ServedAfterReset
<1>. QED
  BY <1>2, <1>3, <1>4 DEF Inv

\* It implies what is claimed of the request loop.
LEMMA InvImplies == Inv => ServesInTurn /\ ServedAfterReset
<1> SUFFICES ASSUME Inv PROVE ServesInTurn
  BY DEF Inv
<1>1. OneResponse
  BY DEF Inv, Counted, OneResponse, Busy, Waiting, Running
<1>2. CallsRunOnce
  BY DEF Inv, Counted, RequestOK, CallsRunOnce, Running
<1>3. IdleIsQuiet
  BY DEF Inv, MainOK, IdleIsQuiet, Waiting, Running, Busy
<1>. QED
  BY <1>1, <1>2, <1>3 DEF Inv, ServesInTurn

-----------------------------------------------------------------------------
(* Every step keeps it.  The steps that change only the main loop first.   *)

\* A step of the client, which appends to the wire.
LEMMA SendKeeps == ASSUME Inv, NEW m \in Messages, Send(m) PROVE Inv'
<1>1. Append(pipe, m) \in Seq(Messages) /\ Len(Append(pipe, m)) = Len(pipe) + 1
  BY DEF Inv, TypeOK
<1>2. hist.asked < MaxRequests /\ hist.asked \in Nat /\ MaxRequests \in Nat
  BY BoundsAssumption DEF Send, Inv, Counted
<1>3. /\ hist'.asked = hist.asked + 1 /\ hist'.read = hist.read /\ hist'.sent = hist.sent
      /\ hist'.cur = hist.cur /\ hist'.ran = hist.ran
      /\ hist' \in [asked : Nat, read : Nat, sent : Nat,
                     cur : Messages \cup {NoMessage}, ran : Nat, killed : BOOLEAN]
  BY <1>2 DEF Send, Inv, Counted
<1>4. UNCHANGED <<phase, request, status, saved, flag, main, timer, sess, resp>>
      /\ pipe' = Append(pipe, m)
  BY DEF Send
<1>5. TypeOK'
  BY <1>1, <1>2, <1>3, <1>4 DEF Inv, TypeOK, Counted
<1>6. Counted'
  <2>1. Len(pipe) \in Nat /\ hist.read \in Nat /\ hist.sent \in Nat
    BY DEF Inv, TypeOK, Counted
  <2>2. Busy' <=> Busy
    BY <1>4 DEF Busy
  <2>3. Len(pipe') = Len(pipe) + 1
    BY <1>1, <1>4
  <2>4. hist.asked = hist.read + Len(pipe)
    BY DEF Inv, Counted
  <2>5. hist'.asked = hist'.read + Len(pipe') /\ hist'.asked <= MaxRequests
    BY <1>2, <1>3, <2>1, <2>3, <2>4
  <2>. QED
    BY <1>3, <1>4, <2>2, <2>5 DEF Inv, Counted
<1>7. SavedOK' /\ RequestOK' /\ MainOK' /\ ServedAfterReset'
  BY <1>3, <1>4 DEF Inv, SavedOK, RequestOK, MainOK, ServedAfterReset, Busy, Running
<1>. QED
  BY <1>5, <1>6, <1>7 DEF Inv

\* The steps of the main loop: a check for interrupts, and an error reported.
LEMMA MainKeeps == ASSUME Inv, Proceed \/ Interrupt \/ MainError PROVE Inv'
<1>1. CASE Proceed
  <2>1. TypeOK' /\ Counted'
    BY <1>1 DEF Proceed, Inv, TypeOK, Counted, Busy
  <2>2. SavedOK' /\ RequestOK' /\ MainOK' /\ ServedAfterReset'
    BY <1>1 DEF Proceed, Inv, SavedOK, RequestOK, MainOK, ServedAfterReset, Busy, Running
  <2>. QED
    BY <2>1, <2>2 DEF Inv
<1>2. CASE Interrupt
  <2>1. TypeOK' /\ Counted'
    BY <1>2 DEF Interrupt, Inv, TypeOK, Counted, Busy
  <2>2. SavedOK' /\ RequestOK' /\ MainOK' /\ ServedAfterReset'
    BY <1>2 DEF Interrupt, Inv, SavedOK, RequestOK, MainOK, ServedAfterReset, Busy, Running
  <2>. QED
    BY <2>1, <2>2 DEF Inv
<1>3. CASE MainError
  <2>1. /\ resp'.error /\ resp' \in [done : BOOLEAN, error : BOOLEAN,
                                     env : SUBSET {"begin", "commit", "rollback"}]
        /\ sess' \in [tran : {"none", "open", "aborted"}, dirty : BOOLEAN, isolation : BOOLEAN]
        /\ sess'.dirty = sess.dirty /\ (sess.tran = "none" => sess'.tran = "none")
    BY <1>3 DEF MainError, Inv, TypeOK
  <2>2. /\ UNCHANGED <<pipe, phase, request, status, saved, flag, hist>>
        /\ main = "error" /\ main' = "read" /\ ~timer' /\ timer' \in BOOLEAN
    BY <1>3 DEF MainError
  <2>3. TypeOK' /\ Counted'
    BY <2>1, <2>2 DEF Inv, TypeOK, Counted, Busy
  <2>4. SavedOK' /\ RequestOK' /\ MainOK' /\ ServedAfterReset'
    BY <2>1, <2>2 DEF Inv, SavedOK, RequestOK, MainOK, ServedAfterReset, Busy, Running
  <2>. QED
    BY <2>3, <2>4 DEF Inv
<1>. QED
  BY <1>1, <1>2, <1>3

\* The phases that do not look at a message.
LEMMA InitPhaseKeeps == ASSUME Inv, InitPhase PROVE Inv'
<1>1. UNCHANGED <<pipe, request, status, saved, flag, timer, sess>> /\ Running /\ phase = "init"
  BY DEF InitPhase
<1>2. CASE phase' = "fetch" /\ UNCHANGED <<main, resp, hist>>
  <2>1. TypeOK' /\ Counted'
    BY <1>1, <1>2 DEF Inv, TypeOK, Counted, Busy
  <2>2. SavedOK' /\ RequestOK' /\ MainOK' /\ ServedAfterReset'
    BY <1>1, <1>2 DEF Inv, SavedOK, RequestOK, MainOK, ServedAfterReset, Busy, Running
  <2>. QED
    BY <2>1, <2>2 DEF Inv
<1>3. CASE Kill(hist) /\ UNCHANGED phase
  <2>1. /\ main' = "exit" /\ resp' = NoTokens
        /\ hist' = [hist EXCEPT !.killed = TRUE]
    BY <1>3 DEF Kill
  <2>2. TypeOK'
    BY <1>1, <1>3, <2>1 DEF Inv, TypeOK, Counted, NoTokens
  <2>3. Counted'
    BY <1>1, <2>1 DEF Inv, Counted
  <2>4. SavedOK' /\ RequestOK' /\ MainOK' /\ ServedAfterReset'
    BY <1>1, <1>3, <2>1 DEF SavedOK, RequestOK, MainOK, ServedAfterReset
  <2>. QED
    BY <2>2, <2>3, <2>4 DEF Inv
<1>. QED
  BY <1>2, <1>3 DEF InitPhase

-----------------------------------------------------------------------------
(* TDS_REQUEST_PHASE_FETCH.                                                *)

\* The history after a message was read, or the rest of one taken up.
LEMMA TakenFacts ==
    ASSUME Inv, CanFetch, Read
    PROVE  /\ pipe' \in Seq(Messages) /\ Len(pipe') \in Nat
           /\ Taken \in [asked : Nat, read : Nat, sent : Nat,
                          cur : Messages, ran : Nat, killed : BOOLEAN]
           /\ Taken.asked = Taken.read + Len(pipe')
           /\ Taken.asked <= MaxRequests
           /\ Taken.sent = Taken.read - 1
           /\ Taken.ran <= Taken.cur.calls
           /\ Waiting => Taken.cur = pipe[1] /\ Taken.ran = 0
           /\ ~Waiting => Taken = hist
<1>1. main # "exit" /\ phase = "fetch"
  BY DEF CanFetch, Running
<1>2. CASE Waiting
  <2>1. /\ pipe[1] \in Messages
        /\ Tail(pipe) \in Seq(Messages) /\ Len(Tail(pipe)) = Len(pipe) - 1
        /\ Len(pipe) \in Nat /\ Len(pipe) > 0
    BY <1>2, PipeFacts DEF CanFetch, Inv, TypeOK
  <2>2. pipe' = Tail(pipe) /\ Taken = [hist EXCEPT !.read = @ + 1, !.cur = pipe[1], !.ran = 0]
    BY <1>2 DEF Read, Taken
  <2>3. hist.sent = hist.read
    BY <1>1, <1>2 DEF Inv, Counted, Busy, Waiting
  <2>4. /\ hist \in [asked : Nat, read : Nat, sent : Nat,
                 cur : Messages \cup {NoMessage}, ran : Nat, killed : BOOLEAN]
        /\ hist.asked = hist.read + Len(pipe)
        /\ hist.asked <= MaxRequests
    BY DEF Inv, Counted
  <2>5. /\ Taken.read = hist.read + 1 /\ Taken.asked = hist.asked /\ Taken.sent = hist.sent
        /\ Taken.cur = pipe[1] /\ Taken.ran = 0 /\ Taken.killed = hist.killed
        /\ Taken = [asked |-> hist.asked, read |-> hist.read + 1, sent |-> hist.sent,
                    cur |-> pipe[1], ran |-> 0, killed |-> hist.killed]
    BY <2>2, <2>4
  <2>7. Taken \in [asked : Nat, read : Nat, sent : Nat,
                   cur : Messages, ran : Nat, killed : BOOLEAN]
    BY <2>1, <2>4, <2>5
  <2>6. Taken.ran <= Taken.cur.calls
    BY <2>1, <2>5, MessageFacts
  <2>. QED
    BY <1>2, <2>1, <2>2, <2>3, <2>4, <2>5, <2>6, <2>7
<1>3. CASE ~Waiting
  <2>1. Busy
    BY <1>1, <1>3 DEF CanFetch, Waiting, Busy
  <2>2. hist.cur \in Messages
    BY <1>1, <2>1 DEF Inv, RequestOK
  <2>3. hist.cur # NoMessage
    BY <2>2, MessageFacts
  <2>4. pipe' = pipe /\ Taken = hist
    BY <1>3 DEF Read, Taken
  <2>. QED
    BY <1>1, <1>3, <2>1, <2>2, <2>3, <2>4 DEF Inv, Counted, TypeOK
<1>. QED
  BY <1>2, <1>3

\* What GetTDSRequest works on is the message in progress: all of it, with or
\* without its RESETCON, or the calls that are left.
LEMMA GotFacts ==
    ASSUME Inv, CanFetch, Read
    PROVE  /\ Got.left = Taken.cur.calls - Taken.ran
           /\ Got.left \in Nat /\ Got.left > 0
           /\ Got.m.kind = Taken.cur.kind /\ Got.m.flaw = Taken.cur.flaw
           /\ Got.reset <=> Waiting /\ pipe[1].reset
           /\ Got.reset => Got.m = Taken.cur /\ Taken.cur.reset
           /\ ~Got.reset => ~StatusRead
           /\ ~Got.reset /\ Taken.cur.reset /\ Taken.ran = 0 =>
                sess.tran = "none" /\ ~sess.dirty
<1>1. main # "exit" /\ phase = "fetch" /\ ~status
  BY DEF CanFetch, Running, Inv, RequestOK
<1>2. Taken.cur \in Messages /\ Taken.ran \in Nat /\ Taken.ran <= Taken.cur.calls
  BY TakenFacts
<1>3. Taken.cur.calls \in Nat /\ Taken.cur.calls > 0 /\ Taken.cur.reset \in BOOLEAN
  BY <1>2, MessageFacts
<1>4. CASE saved # NoMessage
  <2>1. Got = [m |-> saved, reset |-> saved.reset, left |-> saved.calls]
    BY <1>4 DEF Got
  <2>2. ~Waiting /\ Taken = hist /\ StatusRead = status
    BY <1>4 DEF Waiting, Taken, StatusRead
  <2>3. saved = WithoutReset(hist.cur) /\ hist.ran = 0 /\ sess.tran = "none" /\ ~sess.dirty
    BY <1>1, <1>4 DEF Inv, SavedOK
  <2>4. /\ saved.kind = hist.cur.kind /\ saved.calls = hist.cur.calls
        /\ saved.flaw = hist.cur.flaw /\ ~saved.reset
    BY <1>2, <2>2, <2>3, WithoutResetFacts
  <2>. QED
    BY <1>1, <1>3, <2>1, <2>2, <2>3, <2>4
<1>5. CASE saved = NoMessage /\ request = NoRequest
  <2>1. Got = [m |-> pipe[1], reset |-> pipe[1].reset, left |-> pipe[1].calls]
    BY <1>5 DEF Got
  <2>2. Waiting /\ StatusRead = pipe[1].reset
    BY <1>1, <1>5 DEF Waiting, CanFetch, StatusRead
  <2>3. Taken.cur = pipe[1] /\ Taken.ran = 0
    BY <2>2, TakenFacts
  <2>. QED
    BY <1>3, <2>1, <2>2, <2>3
<1>6. CASE saved = NoMessage /\ request # NoRequest
  <2>1. Got = [m |-> hist.cur, reset |-> status, left |-> request.left]
    BY <1>6 DEF Got
  <2>2. ~Waiting /\ Taken = hist /\ StatusRead = status
    BY <1>6 DEF Waiting, Taken, StatusRead
  <2>3. request.left > 0 /\ request.left \in Nat /\ hist.ran + request.left = hist.cur.calls
    BY <1>1, <1>6 DEF Inv, RequestOK, TypeOK
  <2>4. hist.ran > 0
    BY <1>1, <1>6 DEF Inv, RequestOK
  <2>. QED
    BY <1>1, <1>2, <1>3, <2>1, <2>2, <2>3, <2>4
<1>. QED
  BY <1>4, <1>5, <1>6

\* A message without RESETCON leaves none in TdsRequestCtrl->status.
LEMMA StatusFacts ==
    ASSUME Inv, CanFetch, Read, ~Got.reset
    PROVE  ~StatusRead /\ StatusRead \in BOOLEAN
<1>1. ~StatusRead
  BY GotFacts
<1>2. CASE Waiting
  <2>1. pipe[1] \in Messages
    BY <1>2, PipeFacts DEF CanFetch, Inv, TypeOK
  <2>2. pipe[1].reset \in BOOLEAN
    BY <2>1, MessageFacts
  <2>. QED
    BY <1>1, <1>2, <2>2 DEF StatusRead
<1>3. CASE ~Waiting
  BY <1>1, <1>3 DEF StatusRead, Inv, TypeOK
<1>. QED
  BY <1>2, <1>3

\* A message that resets the connection is saved, and the session is fresh.
LEMMA FetchResetKeeps == ASSUME Inv, FetchReset PROVE Inv'
<1>1. /\ CanFetch /\ Got.reset /\ Read /\ main # "exit" /\ phase = "fetch"
      /\ saved' = WithoutReset(Got.m) /\ UNCHANGED <<flag, timer>>
  BY DEF FetchReset, CanFetch, Running
<1>2. Waiting /\ Got.m = Taken.cur /\ Taken.cur.reset
  BY <1>1, GotFacts
<1>3. /\ pipe' \in Seq(Messages) /\ Len(pipe') \in Nat
      /\ Taken \in [asked : Nat, read : Nat, sent : Nat,
                     cur : Messages, ran : Nat, killed : BOOLEAN]
      /\ Taken.asked = Taken.read + Len(pipe')
      /\ Taken.asked <= MaxRequests
      /\ Taken.sent = Taken.read - 1
      /\ Taken.ran <= Taken.cur.calls
      /\ Taken.ran = 0
  BY <1>1, <1>2, TakenFacts
<1>4. saved' \in Message /\ saved' # NoMessage /\ ~flag /\ ~timer
  <2>1. saved' \in Message /\ saved' # NoMessage
    BY <1>1, <1>2, <1>3, WithoutResetFacts
  <2>2. ~Busy
    BY <1>2 DEF Waiting, Busy
  <2>. QED
    BY <1>1, <2>1, <2>2 DEF Inv, MainOK
<1>5. CASE /\ ProtocolInit(StatusRead)
           /\ sess' = ResetSession(sess, TRUE)
           /\ resp' = NoTokens
           /\ hist' = Taken
           /\ UNCHANGED main
  <2>1. phase' = "init" /\ request' = NoRequest /\ ~status' /\ status' \in BOOLEAN
    BY <1>5 DEF ProtocolInit, StatusAfterInit
  <2>2. /\ sess'.tran = "none" /\ ~sess'.dirty
        /\ sess' \in [tran : {"none", "open", "aborted"}, dirty : BOOLEAN, isolation : BOOLEAN]
    BY <1>5 DEF ResetSession, Fresh, Inv, TypeOK
  <2>3. NoRequest \in [kind : Kinds \cup {"none"}, left : Nat]
        /\ NoTokens \in [done : BOOLEAN, error : BOOLEAN,
                         env : SUBSET {"begin", "commit", "rollback"}]
    BY DEF NoRequest, NoTokens
  <2>4. TypeOK'
    <3>1. hist'.sent <= hist'.read /\ hist'.read <= hist'.asked /\ hist'.asked <= MaxRequests
      BY <1>3, <1>5
    <3>2. /\ phase' \in {"init", "fetch", "process", "flush", "error"}
          /\ request' \in [kind : Kinds \cup {"none"}, left : Nat]
          /\ resp' \in [done : BOOLEAN, error : BOOLEAN,
                         env : SUBSET {"begin", "commit", "rollback"}]
      BY <1>5, <2>1, <2>3
    <3>3. flag' \in BOOLEAN /\ timer' \in BOOLEAN
          /\ main' \in {"read", "check", "process", "error", "exit"}
      BY <1>1, <1>5 DEF Inv, TypeOK
    <3>. QED
      BY <1>3, <1>4, <2>1, <2>2, <3>1, <3>2, <3>3, Zenon DEF TypeOK
  <2>5. Counted'
    BY <1>3, <1>4, <1>5, <2>1 DEF Counted, Busy
  <2>6. SavedOK' /\ RequestOK'
    BY <1>1, <1>2, <1>3, <1>5, <2>1, <2>2 DEF SavedOK, RequestOK
  <2>7. MainOK' /\ ServedAfterReset'
    BY <1>1, <1>2, <1>4, <1>5, <2>1 DEF MainOK, ServedAfterReset, Waiting, Running
  <2>. QED
    BY <2>4, <2>5, <2>6, <2>7 DEF Inv
<1>6. CASE Kill(Taken) /\ UNCHANGED <<phase, request, status, sess>>
  <2>1. /\ main' = "exit" /\ resp' = NoTokens
        /\ hist' = [Taken EXCEPT !.killed = TRUE]
    BY <1>6 DEF Kill
  <2>2. /\ hist' \in [asked : Nat, read : Nat, sent : Nat,
                       cur : Messages, ran : Nat, killed : BOOLEAN]
        /\ hist'.asked = Taken.asked /\ hist'.read = Taken.read /\ hist'.sent = Taken.sent
        /\ hist'.cur = Taken.cur /\ hist'.ran = Taken.ran
    BY <1>3, <2>1
  <2>3. TypeOK'
    BY <1>1, <1>3, <1>4, <1>6, <2>1, <2>2 DEF Inv, TypeOK, NoTokens
  <2>4. Counted'
    BY <1>3, <2>1, <2>2 DEF Counted
  <2>5. SavedOK' /\ RequestOK' /\ MainOK' /\ ServedAfterReset'
    BY <1>1, <1>6, <2>1 DEF SavedOK, RequestOK, MainOK, ServedAfterReset
  <2>. QED
    BY <2>3, <2>4, <2>5 DEF Inv
<1>. QED
  BY <1>5, <1>6 DEF FetchReset

\* A message that is refused: the error phase follows, or the connection ends.
LEMMA FetchRefusedKeeps == ASSUME Inv, FetchRefused PROVE Inv'
<1>1. /\ CanFetch /\ ~Got.reset /\ Read /\ main # "exit" /\ phase = "fetch"
      /\ saved' = NoMessage /\ hist' = Taken /\ status' = StatusRead
      /\ UNCHANGED <<request, flag, sess, resp>>
  BY DEF FetchRefused, CanFetch, Running
<1>2. /\ pipe' \in Seq(Messages) /\ Len(pipe') \in Nat
      /\ hist' \in [asked : Nat, read : Nat, sent : Nat,
                     cur : Messages, ran : Nat, killed : BOOLEAN]
      /\ hist'.asked = hist'.read + Len(pipe')
      /\ hist'.asked <= MaxRequests
      /\ hist'.sent = hist'.read - 1
      /\ hist'.ran <= hist'.cur.calls
  BY <1>1, TakenFacts
<1>3. ~status' /\ status' \in BOOLEAN
  BY <1>1, StatusFacts
<1>4. timer' \in BOOLEAN
  BY BoundsAssumption DEF FetchRefused, Inv, TypeOK
<1>5. \/ phase' = "error" /\ main' = "error"
      \/ phase' = "fetch" /\ main' = "exit"
  BY <1>1 DEF FetchRefused, Throw
<1>6. TypeOK'
  BY <1>1, <1>2, <1>3, <1>4, <1>5 DEF Inv, TypeOK
<1>7. Counted'
  BY <1>2, <1>5 DEF Counted, Busy
<1>8. SavedOK' /\ ServedAfterReset'
  BY <1>1, <1>5 DEF SavedOK, ServedAfterReset
<1>9. RequestOK' /\ MainOK'
  BY <1>2, <1>3, <1>5 DEF RequestOK, MainOK, Busy
<1>. QED
  BY <1>6, <1>7, <1>8, <1>9 DEF Inv

\* A call is ready to be processed: a message just read, saved or in progress.
LEMMA FetchRequestKeeps == ASSUME Inv, FetchRequest PROVE Inv'
<1>1. /\ CanFetch /\ ~Got.reset /\ Read /\ main \in {"read", "process"} /\ phase = "fetch"
      /\ saved' = NoMessage /\ hist' = Taken /\ status' = StatusRead
      /\ request' = [kind |-> Got.m.kind, left |-> Got.left]
      /\ phase' = "process" /\ main' \in {"read", "check"}
      /\ UNCHANGED <<flag, sess, resp>>
  BY DEF FetchRequest, CanFetch, Running, Return
<1>2. /\ pipe' \in Seq(Messages) /\ Len(pipe') \in Nat
      /\ hist' \in [asked : Nat, read : Nat, sent : Nat,
                     cur : Messages, ran : Nat, killed : BOOLEAN]
      /\ hist'.asked = hist'.read + Len(pipe')
      /\ hist'.asked <= MaxRequests
      /\ hist'.sent = hist'.read - 1
      /\ hist'.ran <= hist'.cur.calls
  BY <1>1, TakenFacts
<1>3. ~status' /\ status' \in BOOLEAN
  BY <1>1, StatusFacts
<1>4. timer' \in BOOLEAN
  BY BoundsAssumption DEF FetchRequest, Inv, TypeOK
<1>5. /\ request'.left = hist'.cur.calls - hist'.ran /\ request'.left \in Nat /\ request'.left > 0
      /\ request'.kind = hist'.cur.kind
      /\ hist'.cur.reset /\ hist'.ran = 0 => sess.tran = "none" /\ ~sess.dirty
  BY <1>1, GotFacts
<1>6. hist'.cur.kind \in Kinds /\ hist'.cur.calls \in Nat /\ hist'.ran \in Nat
  BY <1>2, MessageFacts
<1>7. request' \in [kind : Kinds \cup {"none"}, left : Nat]
  BY <1>1, <1>5, <1>6
<1>8. TypeOK'
  BY <1>1, <1>2, <1>3, <1>4, <1>7 DEF Inv, TypeOK
<1>9. Counted'
  BY <1>1, <1>2 DEF Counted, Busy
<1>10. SavedOK' /\ ServedAfterReset'
  BY <1>1, <1>5 DEF SavedOK, ServedAfterReset
<1>11. RequestOK' /\ MainOK'
  BY <1>1, <1>2, <1>3, <1>5, <1>6 DEF RequestOK, MainOK, Busy
<1>. QED
  BY <1>8, <1>9, <1>10, <1>11 DEF Inv

-----------------------------------------------------------------------------
(* The other phases.                                                       *)

\* What a call leaves is a session, and its tokens are environment changes.
LEMMA AfterType ==
    ASSUME sess \in [tran : {"none", "open", "aborted"}, dirty : BOOLEAN, isolation : BOOLEAN],
           NEW k, NEW s \in After(k, sess)
    PROVE  s \in [tran : {"none", "open", "aborted"}, dirty : BOOLEAN, isolation : BOOLEAN]
<1>1. CASE k = "attention"
  BY <1>1 DEF After
<1>2. CASE k \in {"begin", "commit", "rollback"}
  <2>1. \E t \in {"none", "open", "aborted"} : s = [sess EXCEPT !.tran = t]
    BY <1>2 DEF After
  <2>. QED
    BY <2>1
<1>3. CASE k \notin {"attention", "begin", "commit", "rollback"}
  <2>1. \E t \in {"none", "open"}, d \in {sess.dirty, TRUE}, i \in BOOLEAN :
          s = [tran |-> t, dirty |-> d, isolation |-> i]
    BY <1>3 DEF After
  <2>2. sess.dirty \in BOOLEAN
    OBVIOUS
  <2>3. \E t \in {"none", "open"}, d \in BOOLEAN, i \in BOOLEAN :
          s = [tran |-> t, dirty |-> d, isolation |-> i]
    BY <2>1, <2>2, Zenon
  <2>. QED
    BY <2>3
<1>. QED
  BY <1>1, <1>2, <1>3

\* A call is processed: one less is left, one more executed, and the batch of
\* calls goes on or its response is flushed.
LEMMA ProcessKeeps == ASSUME Inv, Process PROVE Inv'
<1>1. /\ main \in {"read", "process"} /\ phase = "process"
      /\ ~timer' /\ timer' \in BOOLEAN
      /\ request' = [request EXCEPT !.left = @ - 1]
      /\ phase' = AfterCall(request.left - 1)
      /\ hist' = [hist EXCEPT !.ran = @ + 1]
      /\ main' \in {"read", "check"}
      /\ UNCHANGED <<pipe, status, saved>>
  BY DEF Process, Running, Return
<1>2. /\ hist.cur \in Messages /\ saved = NoMessage /\ ~status
      /\ request.left > 0 /\ hist.ran + request.left = hist.cur.calls
      /\ request.kind = hist.cur.kind /\ hist.sent = hist.read - 1
  BY <1>1 DEF Inv, RequestOK, SavedOK, Counted, Busy
<1>3. /\ request \in [kind : Kinds \cup {"none"}, left : Nat]
      /\ hist \in [asked : Nat, read : Nat, sent : Nat,
                    cur : Messages \cup {NoMessage}, ran : Nat, killed : BOOLEAN]
      /\ hist.cur.calls \in Nat /\ hist.cur.kind # "none"
  BY <1>2, MessageFacts DEF Inv, TypeOK, Counted
<1>4. /\ request' \in [kind : Kinds \cup {"none"}, left : Nat]
      /\ request'.left = request.left - 1 /\ request'.kind = request.kind
  BY <1>1, <1>2, <1>3
<1>5. /\ hist' \in [asked : Nat, read : Nat, sent : Nat,
                     cur : Messages \cup {NoMessage}, ran : Nat, killed : BOOLEAN]
      /\ hist'.asked = hist.asked /\ hist'.read = hist.read /\ hist'.sent = hist.sent
      /\ hist'.cur = hist.cur /\ hist'.ran = hist.ran + 1
  BY <1>1, <1>3
<1>6. /\ sess' \in [tran : {"none", "open", "aborted"}, dirty : BOOLEAN, isolation : BOOLEAN]
      /\ flag' \in BOOLEAN
      /\ resp' \in [done : BOOLEAN, error : BOOLEAN,
                     env : SUBSET {"begin", "commit", "rollback"}]
  <2>1. PICK s \in After(request.kind, sess), ok \in BOOLEAN,
             r \in (IF Resetting /\ request.kind \in {"batch", "rpc"} THEN BOOLEAN ELSE {FALSE}) :
          LET m == hist.cur
              next == m.next /\ request.kind \in TxnKinds
              s1 == IF next /\ ok THEN [s EXCEPT !.tran = "open"] ELSE s
          IN  /\ request.kind = "attention" => ok
              /\ ok /\ request.kind = "begin" => s.tran = "open"
              /\ ok /\ request.kind \in {"commit", "rollback"} => sess.tran = "open"
              /\ sess' = s1
              /\ flag' = (flag \/ r)
              /\ resp' = [resp EXCEPT
                   !.done = TRUE, !.error = @ \/ ~ok,
                   !.env = IF ok /\ request.kind \in TxnKinds
                           THEN @ \cup EnvTokens(m, s1.tran # "none") ELSE @]
    BY DEF Process
  <2>2. s \in [tran : {"none", "open", "aborted"}, dirty : BOOLEAN, isolation : BOOLEAN]
    BY AfterType DEF Inv, TypeOK
  <2>3. \A b \in BOOLEAN : EnvTokens(hist.cur, b) \subseteq {"begin", "commit", "rollback"}
    BY DEF EnvTokens
  <2>4. sess' \in [tran : {"none", "open", "aborted"}, dirty : BOOLEAN, isolation : BOOLEAN]
    BY <2>1, <2>2
  <2>5. flag' \in BOOLEAN
    BY <2>1 DEF Inv, TypeOK
  <2>6. resp \in [done : BOOLEAN, error : BOOLEAN,
                  env : SUBSET {"begin", "commit", "rollback"}]
    BY DEF Inv, TypeOK
  <2>7. \E e \in BOOLEAN, v \in SUBSET {"begin", "commit", "rollback"} :
          resp' = [resp EXCEPT !.done = TRUE, !.error = e, !.env = v]
    BY <2>1, <2>3, <2>6
  <2>. QED
    BY <2>4, <2>5, <2>6, <2>7
<1>7. phase' = IF request'.left > 0 THEN "fetch" ELSE "flush"
  BY <1>1, <1>4 DEF AfterCall
<1>8. request' # NoRequest
  BY <1>2, <1>3, <1>4 DEF NoRequest
<1>9. TypeOK'
  BY <1>1, <1>4, <1>5, <1>6, <1>7 DEF Inv, TypeOK
<1>10. Counted'
  BY <1>1, <1>2, <1>3, <1>5, <1>8 DEF Inv, Counted, Busy
<1>11. SavedOK' /\ ServedAfterReset'
  BY <1>1, <1>2, <1>7 DEF SavedOK, ServedAfterReset
<1>12. RequestOK' /\ MainOK'
  BY <1>1, <1>2, <1>3, <1>4, <1>5, <1>7, <1>8 DEF RequestOK, MainOK, Busy
<1>. QED
  BY <1>9, <1>10, <1>11, <1>12 DEF Inv

\* The connection ends, in an aborted transaction or at the client's wish.
LEMMA ExitKeeps == ASSUME Inv, ProcessAborted \/ Close PROVE Inv'
<1>1. /\ main' = "exit"
      /\ UNCHANGED <<pipe, phase, request, status, saved, flag, timer, sess, resp, hist>>
  BY DEF ProcessAborted, Close, Exit
<1>2. TypeOK' /\ Counted'
  BY <1>1 DEF Inv, TypeOK, Counted
<1>3. SavedOK' /\ RequestOK' /\ MainOK' /\ ServedAfterReset'
  BY <1>1 DEF Inv, SavedOK, RequestOK, MainOK, ServedAfterReset
<1>. QED
  BY <1>2, <1>3 DEF Inv

\* The error phase adds its DONE token.
LEMMA ErrorPhaseKeeps == ASSUME Inv, ErrorPhase PROVE Inv'
<1>1. /\ Running /\ phase = "error" /\ phase' = "flush"
      /\ resp' = [resp EXCEPT !.done = TRUE]
      /\ UNCHANGED <<pipe, request, status, saved, flag, main, timer, sess, hist>>
  BY DEF ErrorPhase
<1>2. resp.error /\ saved = NoMessage /\ ~timer
  BY <1>1 DEF Inv, MainOK, SavedOK, Running
<1>3. /\ resp'.error
      /\ resp' \in [done : BOOLEAN, error : BOOLEAN,
                     env : SUBSET {"begin", "commit", "rollback"}]
  BY <1>1, <1>2 DEF Inv, TypeOK
<1>4. TypeOK' /\ Counted'
  BY <1>1, <1>3 DEF Inv, TypeOK, Counted, Busy
<1>5. SavedOK' /\ RequestOK' /\ MainOK' /\ ServedAfterReset'
  BY <1>1, <1>2, <1>3 DEF Inv, SavedOK, RequestOK, MainOK, ServedAfterReset, Running, Busy
<1>. QED
  BY <1>4, <1>5 DEF Inv

\* The response is flushed, and the connection reset where sp_reset_connection
\* was called.
LEMMA FlushKeeps == ASSUME Inv, Flush PROVE Inv'
<1> DEFINE h == [hist EXCEPT !.sent = @ + 1]
<1>1. Running /\ phase = "flush" /\ main # "exit" /\ UNCHANGED <<pipe, saved, timer>>
  BY DEF Flush, Running
<1>2. saved = NoMessage /\ ~timer /\ ~status /\ hist.cur \in Messages /\ hist.sent = hist.read - 1
  BY <1>1 DEF Inv, SavedOK, MainOK, RequestOK, Counted, Busy
<1>3. /\ h \in [asked : Nat, read : Nat, sent : Nat,
                 cur : Messages \cup {NoMessage}, ran : Nat, killed : BOOLEAN]
      /\ h.asked = hist.asked /\ h.read = hist.read /\ h.sent = hist.read
      /\ h.cur = hist.cur /\ h.ran = hist.ran
  BY <1>2 DEF Inv, Counted
<1>4. /\ NoRequest \in [kind : Kinds \cup {"none"}, left : Nat]
      /\ NoTokens \in [done : BOOLEAN, error : BOOLEAN,
                       env : SUBSET {"begin", "commit", "rollback"}]
  BY DEF NoRequest, NoTokens
<1>5. CASE /\ hist' = h /\ resp' = NoTokens /\ request' = NoRequest /\ phase' \in {"init", "fetch"}
           /\ ~flag' /\ flag' \in BOOLEAN /\ ~status' /\ status' \in BOOLEAN
           /\ sess' \in [tran : {"none", "open", "aborted"}, dirty : BOOLEAN, isolation : BOOLEAN]
           /\ UNCHANGED main
  <2>1. hist'.sent <= hist'.read /\ hist'.read <= hist'.asked /\ hist'.asked <= MaxRequests
    BY <1>3, <1>5 DEF Inv, TypeOK, Counted
  <2>2. TypeOK'
    BY <1>1, <1>4, <1>5, <2>1 DEF Inv, TypeOK
  <2>3. ~Busy'
    BY <1>1, <1>2, <1>5 DEF Busy
  <2>4. Counted'
    BY <1>1, <1>3, <1>5, <2>3 DEF Inv, Counted
  <2>5. SavedOK' /\ RequestOK' /\ MainOK' /\ ServedAfterReset'
    BY <1>1, <1>2, <1>5, <2>3 DEF SavedOK, RequestOK, MainOK, ServedAfterReset, Running
  <2>. QED
    BY <2>2, <2>4, <2>5 DEF Inv
<1>6. CASE Kill(hist) \/ Kill(h)
  <2>1. /\ main' = "exit" /\ resp' = NoTokens
        /\ hist' = [hist EXCEPT !.killed = TRUE] \/ hist' = [h EXCEPT !.killed = TRUE]
    BY <1>6 DEF Kill
  <2>2. UNCHANGED <<status, flag, sess, request, phase>>
    BY <1>1, <2>1 DEF Flush, Running
  <2>3. /\ hist' \in [asked : Nat, read : Nat, sent : Nat,
                       cur : Messages \cup {NoMessage}, ran : Nat, killed : BOOLEAN]
        /\ hist'.asked = hist.asked /\ hist'.read = hist.read
        /\ hist'.sent \in {hist.read - 1, hist.read}
        /\ hist'.cur = hist.cur /\ hist'.ran = hist.ran
    BY <1>2, <1>3, <2>1 DEF Inv, Counted
  <2>4. TypeOK'
    BY <1>1, <1>4, <2>1, <2>2, <2>3 DEF Inv, TypeOK, Counted
  <2>5. Counted'
    BY <1>1, <2>1, <2>3 DEF Inv, Counted
  <2>6. SavedOK' /\ RequestOK' /\ MainOK' /\ ServedAfterReset'
    BY <1>1, <2>1, <2>2 DEF SavedOK, RequestOK, MainOK, ServedAfterReset
  <2>. QED
    BY <2>4, <2>5, <2>6 DEF Inv
<1>7. CASE ~flag /\ ~(Kill(hist) \/ Kill(h))
  <2>1. /\ hist' = h /\ resp' = NoTokens
        /\ request' = NoRequest /\ phase' = "fetch"
        /\ UNCHANGED <<status, flag, sess, main>>
    BY <1>7 DEF Flush
  <2>. QED
    BY <1>2, <1>5, <1>7, <2>1 DEF Inv, TypeOK
<1>8. CASE flag /\ ~(Kill(hist) \/ Kill(h))
  <2>1. /\ hist' = h /\ resp' = NoTokens
        /\ ProtocolInit(status)
        /\ sess' = ResetSession(sess, FALSE)
        /\ flag' = FALSE
        /\ UNCHANGED main
    BY <1>8 DEF Flush
  <2>2. sess' \in [tran : {"none", "open", "aborted"}, dirty : BOOLEAN, isolation : BOOLEAN]
    BY <2>1 DEF ResetSession, Fresh
  <2>3. ~flag' /\ flag' \in BOOLEAN
    BY <2>1
  <2>4. /\ phase' \in {"init", "fetch"} /\ request' = NoRequest
        /\ ~status' /\ status' \in BOOLEAN
    BY <2>1 DEF ProtocolInit, StatusAfterInit
  <2>. QED
    BY <1>5, <2>1, <2>2, <2>3, <2>4
<1>. QED
  BY <1>6, <1>7, <1>8

\* Every step keeps the invariant.
LEMMA InvNext == Inv /\ [Next]_vars => Inv'
<1> SUFFICES ASSUME Inv, [Next]_vars PROVE Inv'
  OBVIOUS
<1>1. ASSUME NEW m \in Messages, Send(m) PROVE Inv'
  BY <1>1, SendKeeps
<1>2. CASE Proceed \/ Interrupt \/ MainError
  BY <1>2, MainKeeps
<1>3. CASE InitPhase
  BY <1>3, InitPhaseKeeps
<1>4. CASE FetchReset
  BY <1>4, FetchResetKeeps
<1>5. CASE FetchRefused
  BY <1>5, FetchRefusedKeeps
<1>6. CASE FetchRequest
  BY <1>6, FetchRequestKeeps
<1>7. CASE Process
  BY <1>7, ProcessKeeps
<1>8. CASE ProcessAborted \/ Close
  BY <1>8, ExitKeeps
<1>9. CASE Flush
  BY <1>9, FlushKeeps
<1>10. CASE ErrorPhase
  BY <1>10, ErrorPhaseKeeps
<1>11. CASE UNCHANGED vars
  <2>1. TypeOK' /\ Counted'
    BY <1>11 DEF vars, Inv, TypeOK, Counted, Busy
  <2>2. SavedOK' /\ RequestOK' /\ MainOK' /\ ServedAfterReset'
    BY <1>11 DEF vars, Inv, SavedOK, RequestOK, MainOK, ServedAfterReset, Busy, Running
  <2>. QED
    BY <2>1, <2>2 DEF Inv
<1>. QED
  BY <1>1, <1>2, <1>3, <1>4, <1>5, <1>6, <1>7, <1>8, <1>9, <1>10, <1>11 DEF Next, Server

-----------------------------------------------------------------------------
(* The theorems.                                                           *)

\* The invariant holds of every behaviour.
LEMMA Invariance == Spec => []Inv
BY InvInit, InvNext, PTL DEF Spec

\* TdsSocketBackend serves the messages in turn: each is answered once before
\* the next is read, its calls are executed once each and in order, and no
\* reset or timeout is left pending for a client that is only slow.
THEOREM MessagesServedInTurn == Spec => []ServesInTurn
<1>1. Inv => ServesInTurn
  BY InvImplies
<1>. QED
  BY <1>1, Invariance, PTL

\* A message with RESETCON is executed in a fresh session, whatever the one
\* before has left (GetTDSRequest, ResetTDSConnection).
THEOREM ResetBeforeService == Spec => []ServedAfterReset
<1>1. Inv => ServedAfterReset
  BY InvImplies
<1>. QED
  BY <1>1, Invariance, PTL
=============================================================================
