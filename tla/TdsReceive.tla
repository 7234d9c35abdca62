----------------------------- MODULE TdsReceive -----------------------------
(***************************************************************************)
(* The receive side of the TDS wire (babelfishpg_tds, tdscomm.c).          *)
(*                                                                         *)
(* A client message travels as packets, each a header and some data; the   *)
(* socket hands the server bytes in pieces of any size.  TdsReadsocket     *)
(* fills one buffer, TdsProcessHeader takes a header from its front, and   *)
(* the readers of the layer above consume exactly the data the header      *)
(* announced.  A byte is <<i, k>>: byte k, from 0, of packet i of sent.    *)
(* The unread bytes of TdsRecvBuffer are buf.  TdsReadsocket moves them to *)
(* the front of the buffer before it reads, so that neither TdsRecvStart   *)
(* nor TdsRecvEnd matters beyond how many unread bytes there are.          *)
(*                                                                         *)
(* The client keeps one request outstanding and may cancel it with an      *)
(* attention, a packet without data, after which it waits for the          *)
(* acknowledgement.                                                        *)
(***************************************************************************)
EXTENDS Integers, Sequences

CONSTANTS
    HeaderSize,   \* TDS_PACKET_HEADER_SIZE
    BufferSize,   \* TdsBufferSize, the packet size agreed at login
    Requests,     \* the message types of the client's requests
    FirstSizes,   \* data sizes of the first packet of a message
    MoreSizes,    \* data sizes of its other packets
    ResetBits,    \* values of the RESETCON bit of a query's first packet
    Interrupted,  \* types of requests an attention may break off
    MaxSent       \* bound on the packets sent

\* What the constants have to satisfy
SizesAssumption == /\ HeaderSize \in Nat \ {0}
                   /\ BufferSize \in Nat
                   /\ BufferSize > HeaderSize
                   /\ FirstSizes \subseteq Nat
                   /\ MoreSizes \subseteq Nat
ClientAssumption == /\ Requests \subseteq {"query", "bulk"}
                    /\ Interrupted \subseteq Requests
                    /\ ResetBits \subseteq BOOLEAN
                    /\ MaxSent \in Nat

VARIABLES
    sent,      \* every packet the client has sent
    wire,      \* bytes on their way to the server
    client,    \* what the client is doing
    closed,    \* has the client closed the connection?
    buf,       \* the unread bytes of TdsRecvBuffer
    left,      \* TdsLeftInPacket
    doHeader,  \* TdsDoProcessHeader
    hdr,       \* the packet whose header was read last: its type and status
               \* are TdsRecvMessageType and TdsRecvPacketStatus; 0 after reset
    at,        \* where the server is
    ret,       \* the loop TdsRecvbuf returns to
    op,        \* the reader called by the layer above
    need,      \* bytes TdsGetbytes has yet to deliver
    msg,       \* the unit being read: its first packet, and the data so far
    request,   \* the first packet of the request being processed
    taken,     \* packets handed to the layer above, or discarded for it
    got        \* the units handed over

clientVars == <<sent, client, closed>>
recvVars == <<left, doHeader, hdr>>
callVars == <<op, need, msg>>
unitVars == <<request, taken, got>>
vars == <<clientVars, wire, buf, recvVars, at, ret, callVars, unitVars>>

Packet == [type : Requests \cup {"attention"}, size : Nat,
           eom : BOOLEAN, reset : BOOLEAN]
NoUnit == [from |-> 0, data |-> <<>>]
Dead == {"eof", "fatal"}

\* The bytes of packet i.
Bytes(i, p) == [k \in 1 .. (HeaderSize + p.size) |-> <<i, k - 1>>]

\* The header fields as the server knows them: none before the first packet
\* and after TdsCommReset.
RecvType == IF hdr = 0 THEN "none" ELSE sent[hdr].type
RecvEom == hdr # 0 /\ sent[hdr].eom

Init == /\ sent = <<>>
        /\ wire = <<>>
        /\ client = "ready"
        /\ closed = FALSE
        /\ buf = <<>>
        /\ left = 0
        /\ doHeader = TRUE
        /\ hdr = 0
        /\ at = "idle"
        /\ ret = "next"
        /\ op = "request"
        /\ need = 0
        /\ msg = NoUnit
        /\ request = 0
        /\ taken = 0
        /\ got = <<>>

-----------------------------------------------------------------------------
(* The client *)

Transmit(p) == /\ ~closed
               /\ at \notin Dead
               /\ Len(sent) < MaxSent
               /\ sent' = Append(sent, p)
               /\ wire' = wire \o Bytes(Len(sent) + 1, p)
               /\ UNCHANGED <<closed, buf, recvVars, at, ret, callVars, unitVars>>

\* The first packet of a request.  Only a query carries RESETCON: a bulk load
\* always follows the query that announces it.  (The field is repeated on the
\* other packets of the message; the server looks at the first one.)
SendFirst == \E t \in Requests, n \in FirstSizes, e \in BOOLEAN,
                r \in ResetBits :
    /\ client = "ready"
    /\ r => t = "query"
    /\ Transmit([type |-> t, size |-> n, eom |-> e, reset |-> r])
    /\ client' = IF ~e THEN "sending" ELSE IF r THEN "resetting" ELSE "waiting"

SendMore == \E n \in MoreSizes, e \in BOOLEAN :
    /\ client = "sending"
    /\ Transmit([sent[Len(sent)] EXCEPT !.size = n, !.eom = e])
    /\ client' = IF ~e THEN "sending"
                 ELSE IF sent[Len(sent)].reset THEN "resetting" ELSE "waiting"

\* The client cancels the request it waits for, or one it is still sending.
\* A request with RESETCON is not cancelled: TdsCommReset empties the buffer,
\* and with it an attention that has arrived.
SendAttention ==
    /\ \/ client = "waiting"
       \/ client = "sending" /\ sent[Len(sent)].type \in Interrupted
    /\ Transmit([type |-> "attention", size |-> 0, eom |-> TRUE, reset |-> FALSE])
    /\ client' = "cancelling"

Close == /\ ~closed
         /\ closed' = TRUE
         /\ UNCHANGED <<sent, client, wire, buf, recvVars, at, ret, callVars, unitVars>>

-----------------------------------------------------------------------------
(* The socket and the buffer *)

\* A read that forgets how full the buffer is.
ReadsocketUnbounded == \E r \in 1 .. Len(wire) :
    /\ buf' = buf \o SubSeq(wire, 1, r)
    /\ wire' = SubSeq(wire, r + 1, Len(wire))

\* One read, of any number of bytes that have arrived and fit.
Readsocket == \E r \in 1 .. Len(wire) :
    /\ r <= BufferSize - Len(buf)
    /\ buf' = buf \o SubSeq(wire, 1, r)
    /\ wire' = SubSeq(wire, r + 1, Len(wire))

\* The points at which the server waits for the socket.
Reading == \/ at = "recvbuf" /\ buf = <<>>
           \/ at = "header" /\ Len(buf) < HeaderSize
           \/ at = "data"

\* A read that returns no bytes: the readers return EOF and the backend ends.
ReadEof == /\ Reading
           /\ closed
           /\ wire = <<>>
           /\ at' = "eof"
           /\ UNCHANGED <<clientVars, wire, buf, recvVars, ret, callVars, unitVars>>

\* TdsRecvbuf: a new packet starts in the buffer.
RecvbufHeader == /\ at = "recvbuf"
                 /\ left = 0
                 /\ buf # <<>>
                 /\ at' = "header"
                 /\ UNCHANGED <<clientVars, wire, buf, recvVars, ret, callVars, unitVars>>

\* TdsRecvbuf: the buffer is empty.
RecvbufRead == /\ at = "recvbuf"
               /\ buf = <<>>
               /\ Readsocket
               /\ at' = IF left = 0 /\ doHeader THEN "header" ELSE ret
               /\ UNCHANGED <<clientVars, recvVars, ret, callVars, unitVars>>

\* TdsProcessHeader: wait for the whole header.
HeaderRead == /\ at = "header"
              /\ Len(buf) < HeaderSize
              /\ Readsocket
              /\ UNCHANGED <<clientVars, recvVars, at, ret, callVars, unitVars>>

\* TdsProcessHeader: the announced length exceeds the packet size.
HeaderTooLong == /\ at = "header"
                 /\ Len(buf) >= HeaderSize
                 /\ sent[Head(buf)[1]].size + HeaderSize > BufferSize
                 /\ hdr' = Head(buf)[1]
                 /\ at' = "fatal"
                 /\ UNCHANGED <<clientVars, wire, buf, left, doHeader, ret,
                                callVars, unitVars>>

\* A header whose length is taken for the length of the data.
ProcessHeaderUncounted ==
    /\ at = "header"
    /\ Len(buf) >= HeaderSize
    /\ sent[Head(buf)[1]].size + HeaderSize <= BufferSize
    /\ hdr' = Head(buf)[1]
    /\ left' = sent[Head(buf)[1]].size + HeaderSize
    /\ buf' = SubSeq(buf, HeaderSize + 1, Len(buf))
    /\ doHeader' = FALSE
    /\ at' = IF left' > 0 /\ buf' = <<>> THEN "data" ELSE ret
    /\ UNCHANGED <<clientVars, wire, ret, callVars, unitVars>>

\* TdsProcessHeader, and the rest of TdsRecvbuf: with data announced and none
\* in the buffer, TdsRecvbuf reads once more.
ProcessHeader ==
    /\ at = "header"
    /\ Len(buf) >= HeaderSize
    /\ sent[Head(buf)[1]].size + HeaderSize <= BufferSize
    /\ hdr' = Head(buf)[1]
    /\ left' = sent[Head(buf)[1]].size
    /\ buf' = SubSeq(buf, HeaderSize + 1, Len(buf))
    /\ doHeader' = FALSE
    /\ at' = IF left' > 0 /\ buf' = <<>> THEN "data" ELSE ret
    /\ UNCHANGED <<clientVars, wire, ret, callVars, unitVars>>

DataRead == /\ at = "data"
            /\ Readsocket
            /\ at' = ret
            /\ UNCHANGED <<clientVars, recvVars, ret, callVars, unitVars>>

-----------------------------------------------------------------------------
(* The readers *)

Call(reader) == /\ op' = reader
                /\ at' = "next"
                /\ ret' = "next"
                /\ msg' = NoUnit
                /\ UNCHANGED <<clientVars, wire, buf, recvVars, need, unitVars>>

\* GetTDSRequest calls TdsReadNextRequest.
ReadNextRequest == at = "idle" /\ Call("request")

\* A bulk load in process fetches its next packet, or discards what is left
\* of the message after an error; both only while EOM has not been seen.
BulkOpen == at = "process" /\ sent[request].type = "bulk" /\ ~RecvEom
ReadNextPendingBcp == BulkOpen /\ Call("pending")
DiscardAllPendingBcp == BulkOpen /\ Call("discard")

\* The loop of TdsReadNextBuffer.
NeedsBuffer == (left > 0 /\ buf = <<>>) \/ doHeader
NextBufferWait == /\ at = "next"
                  /\ NeedsBuffer
                  /\ at' = "recvbuf"
                  /\ ret' = "next"
                  /\ UNCHANGED <<clientVars, wire, buf, recvVars, callVars, unitVars>>

\* A packet that is not part of the bulk load, in the middle of it.
OutOfBand == /\ at = "next"
             /\ ~NeedsBuffer
             /\ op = "pending"
             /\ RecvType # "bulk"
             /\ at' = "fatal"
             /\ UNCHANGED <<clientVars, wire, buf, recvVars, ret, callVars, unitVars>>

\* TdsReadNextBuffer returns; the reader asks for the data of the packet.
NextBuffer == /\ at = "next"
              /\ ~NeedsBuffer
              /\ op = "pending" => RecvType = "bulk"
              /\ at' = "get"
              /\ need' = left
              /\ msg' = IF msg.from = 0 THEN [msg EXCEPT !.from = hdr] ELSE msg
              /\ UNCHANGED <<clientVars, wire, buf, recvVars, ret, op, unitVars>>

\* TdsGetbytes, TdsDiscardbytes: nothing of the packet is in the buffer.
GetbytesWait == /\ at = "get"
                /\ need > 0
                /\ left = 0 \/ buf = <<>>
                /\ at' = "recvbuf"
                /\ ret' = "get"
                /\ UNCHANGED <<clientVars, wire, buf, recvVars, callVars, unitVars>>

Smaller(m, n) == IF m < n THEN m ELSE n

\* TdsGetbytes, TdsDiscardbytes: consume what there is, and TdsConsumedBytes.
Getbytes ==
    /\ at = "get"
    /\ need > 0
    /\ left > 0
    /\ buf # <<>>
    /\ LET amount == Smaller(Smaller(left, Len(buf)), need)
       IN  /\ msg' = IF op = "discard" THEN msg
                     ELSE [msg EXCEPT !.data = @ \o SubSeq(buf, 1, amount)]
           /\ buf' = SubSeq(buf, amount + 1, Len(buf))
           /\ left' = left - amount
           /\ need' = need - amount
           /\ doHeader' = (left' = 0 \/ doHeader)
    /\ UNCHANGED <<clientVars, wire, hdr, at, ret, op, unitVars>>

\* The packet is consumed and the reader wants another one.
NextPacket == /\ at = "get"
              /\ need = 0
              /\ ~RecvEom
              /\ \/ op = "request" /\ RecvType # "bulk"
                 \/ op = "discard"
              /\ at' = "next"
              /\ UNCHANGED <<clientVars, wire, buf, recvVars, ret, callVars, unitVars>>


\* The reader returns.  TdsReadNextRequest returns a whole message, or the
\* first packet of a bulk load, and expects a header next: after a bulk
\* packet, or when a packet without data has left the buffer empty.  The
\* attention that ends a discard has no data: its header stays in force, and
\* the next TdsReadNextRequest hands it over.
Return ==
    /\ at = "get"
    /\ need = 0
    /\ \/ RecvEom
       \/ op = "pending"
       \/ op = "request" /\ RecvType = "bulk"
    /\ doHeader' = \/ doHeader
                   \/ op = "request" /\ ~RecvEom
                   \/ op = "request" /\ left = 0 /\ buf = <<>>
    /\ request' = IF op = "request" THEN msg.from ELSE request
    /\ taken' = IF op = "discard" /\ RecvType # "bulk" THEN hdr - 1 ELSE hdr
    /\ got' = IF op = "discard" THEN got
              ELSE Append(got, [from |-> msg.from, to |-> hdr, data |-> msg.data])
    /\ at' = IF op = "request" /\ sent[msg.from].reset THEN "reset" ELSE "process"
    /\ UNCHANGED <<clientVars, wire, buf, left, hdr, ret, callVars>>

\* ResetTDSConnection calls TdsCommReset when the request asked for it.
CommReset == /\ at = "reset"
             /\ buf' = <<>>
             /\ left' = 0
             /\ hdr' = 0
             /\ at' = "process"
             /\ UNCHANGED <<clientVars, wire, doHeader, ret, callVars, unitVars>>


\* The response to the request is flushed to the client.
ClientAfter == IF sent[request].type = "attention" THEN "ready"
               ELSE IF client = "cancelling" THEN "cancelling" ELSE "ready"
Respond == /\ at = "process"
           /\ sent[request].type = "bulk" => RecvEom
           /\ at' = "idle"
           /\ client' = ClientAfter
           /\ UNCHANGED <<sent, closed, wire, buf, recvVars, ret, callVars, unitVars>>

\* The backend has exited.
Exited == at \in Dead /\ UNCHANGED vars

Server == \/ ReadEof \/ RecvbufHeader \/ RecvbufRead \/ HeaderRead
          \/ HeaderTooLong \/ ProcessHeader \/ DataRead
          \/ ReadNextRequest \/ NextBufferWait \/ OutOfBand \/ NextBuffer
          \/ GetbytesWait \/ Getbytes \/ NextPacket \/ Return
          \/ CommReset \/ Respond

Next == \/ SendFirst \/ SendMore \/ SendAttention \/ Close
        \/ Server
        \/ ReadNextPendingBcp \/ DiscardAllPendingBcp
        \/ Exited

Spec == Init /\ [][Next]_vars

-----------------------------------------------------------------------------
(* Properties *)

\* The variables keep their types; the buffer is never overrun, and no reader
\* asks for more than the packet has left.
TypeOK == /\ sent \in Seq(Packet)
          /\ client \in {"ready", "sending", "waiting", "resetting", "cancelling"}
          /\ closed \in BOOLEAN
          /\ left \in 0 .. (BufferSize - HeaderSize)
          /\ doHeader \in BOOLEAN
          /\ hdr \in 0 .. Len(sent)
          /\ at \in {"idle", "next", "recvbuf", "header", "data", "get",
                     "process", "reset"} \cup Dead
          /\ ret \in {"next", "get"}
          /\ op \in {"request", "pending", "discard"}
          /\ need \in 0 .. left
          /\ Len(buf) <= BufferSize
          /\ taken \in 0 .. Len(sent)

\* TdsProcessHeader always reads a header: the first unread byte is the first
\* byte of a packet whenever the server is about to interpret it as one, and
\* the previous packet is used up (the FATAL error of tdscomm.c:237 is never
\* raised).
HeaderAtBoundary == at = "header" => /\ left = 0
                                     /\ buf # <<>> => Head(buf)[2] = 0

\* The buffer is neither overrun nor read at the wrong place.
BufferSound == TypeOK /\ HeaderAtBoundary
=============================================================================
