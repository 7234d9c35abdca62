----------------------------- MODULE TdsConnect -----------------------------
(***************************************************************************)
(* How a TDS connection comes up (tdslogin.c, tdssecure.c, tds_srv.c) and  *)
(* how the server's messages are cut into packets (the sending half of     *)
(* tdscomm.c): PRELOGIN and its answer, the TLS handshake wrapped in       *)
(* PRELOGIN packets, LOGIN7, authentication, the login acknowledgement     *)
(* that announces the packet size, and the responses that follow.          *)
(*                                                                         *)
(* Reading requests is TdsReceive's subject: here a request arrives whole. *)
(* TLS itself, Kerberos and pg_hba.conf are external: an outcome is chosen.*)
(* A TLS flight of each side stands for the handshake.                     *)
(***************************************************************************)
EXTENDS Naturals, Sequences, SequencesExt, FiniteSets, FiniteSetsExt

CONSTANTS
    HeaderSize,        \* bytes of a packet header
    InitSize,          \* TDS_DEFAULT_INIT_PACKET_SIZE
    Granule,           \* packet sizes are multiples of it (4 in the code)
    MinSize, MaxSize,  \* packet sizes a client may ask for
    Peers,             \* the servers and clients that meet; size 0 asks for the
                       \* server's default
    Cuts,              \* the packets a client's TLS flight may be cut into:
                       \* sequences of data sizes
    Lengths,           \* lengths of the server's messages, and of its TLS flight
    Writes,            \* lengths given to one TdsPutbytes
    MaxBytes           \* bound on the length of the response after the login

VARIABLES
    conf,      \* the server: TLS usable on this socket, encryption forced,
               \* tds_default_packet_size, method in pg_hba.conf
    client,    \* the client: what it offers, the size it asks for, how it
               \* authenticates, the encryption it was told, its packet limit
    at,        \* how far the connection is
    enc,       \* loadEncryption
    tls,       \* port->ssl_in_use
    bufSize,   \* TdsBufferSize
    sendBuf,   \* data between the header and TdsSendCur in TdsSendBuffer
    cur,       \* what the message in progress was given so far
    messages,  \* the messages the server has finished
    wire,      \* the packets it has sent
    socket,    \* bytes of the client's TLS flight not yet read
    cut,       \* the packets it was cut into
    pktRead,   \* pkt_bytes_read
    pktLen,    \* pkt_data.header.length
    given      \* the bytes OpenSSL has been given

connVars == <<conf, client, at, enc, tls>>
sendVars == <<bufSize, sendBuf, cur, messages, wire>>
readVars == <<socket, cut, pktRead, pktLen, given>>
vars == <<connVars, sendVars, readVars>>


Init ==
    /\ \E p \in Peers :
          /\ conf = [ssl |-> p.ssl, force |-> p.force, dflt |-> p.dflt, method |-> p.method]
          /\ client = [option |-> p.option, size |-> p.size, auth |-> p.auth,
                       told |-> "none", limit |-> InitSize]
    /\ at = "prelogin"
    /\ enc = "off"
    /\ tls = FALSE
    /\ bufSize = InitSize
    /\ sendBuf = <<>>
    /\ cur = <<>>
    /\ messages = <<>>
    /\ wire = <<>>
    /\ socket = <<>>
    /\ cut = <<>>
    /\ pktRead = 0
    /\ pktLen = 0
    /\ given = <<>>

-----------------------------------------------------------------------------
(* Sending (tdscomm.c) *)

\* TdsFillHeader and the write of InternalFlush: one packet.  What the client
\* expects at this moment is kept with it.
TdsFillHeader(type, data, last) ==
    [type |-> type, eom |-> last, data |-> data, tls |-> tls,
     at |-> at, limit |-> client.limit]

\* Mutant of Room: the header is forgotten.
RoomWithHeader(size) == size

\* The data a packet has room for.
Room(size) == size - HeaderSize

\* Mutant of InternalPutbytes: the buffer is flushed once, not while it is full.
InternalPutbytesOnce(buf, bytes) ==
    LET all == buf \o bytes
        n == Room(bufSize)
        over == Len(all) > n
    IN [packets |-> IF over THEN <<TdsFillHeader("response", SubSeq(all, 1, n), FALSE)>>
                    ELSE <<>>,
        buf |-> IF over THEN SubSeq(all, n + 1, Min({2 * n, Len(all)})) ELSE all]

\* InternalPutbytes: the buffer is flushed when it is full and there is more to
\* put in, so what stays behind is never empty.
InternalPutbytes(buf, bytes) ==
    LET all == buf \o bytes
        n == Room(bufSize)
        full == IF all = <<>> THEN 0 ELSE (Len(all) - 1) \div n
    IN [packets |-> [i \in 1 .. full |->
                        TdsFillHeader("response", SubSeq(all, (i - 1) * n + 1, i * n), FALSE)],
        buf |-> SubSeq(all, full * n + 1, Len(all))]

\* The bytes of message number i.
Bytes(i, from, len) == [k \in 1 .. len |-> <<i, from + k>>]

\* A whole message of len bytes: TdsSetMessageType, the puts and TdsFlush.
SendMessage(len) ==
    LET bytes == Bytes(Len(messages) + 1, 0, len)
        put == InternalPutbytes(sendBuf, bytes)
    IN /\ wire' = wire \o put.packets \o <<TdsFillHeader("response", put.buf, TRUE)>>
       /\ messages' = Append(messages, bytes)
       /\ UNCHANGED <<sendBuf, cur>>

\* The connection ends.  A FATAL error is first sent and flushed
\* (emit_tds_log); COMMERROR and a bad status tell the client nothing.
EndSilently == /\ at' = "closed"
               /\ UNCHANGED sendVars
EndWithError == /\ at' = "closed"
                /\ SendMessage(1)
                /\ UNCHANGED bufSize

-----------------------------------------------------------------------------
(* PRELOGIN *)

\* SetPreLoginResponseVal on the ENCRYPTION option: the answer.
PreLoginAnswer(option) ==
    CASE option = "absent" -> "none"
      [] ~conf.ssl -> "not_sup"
      [] conf.ssl /\ option \in {"on", "req"} -> "on"
      [] conf.ssl /\ option \in {"off", "not_sup"} /\ conf.force -> "req"
      [] OTHER -> option

\* MakePreLoginResponse: loadEncryption is the answer; without the option it
\* stays 0, which is TDS_ENCRYPT_OFF.
LoadEncryption(option) == IF option = "absent" THEN "off" ELSE PreLoginAnswer(option)

\* The client's side of the handshake.  One that was not told to encrypt sends
\* LOGIN7 at once, and one that cannot encrypt hangs up.
ClientFlight(told) ==
    IF told \in {"on", "off", "req"} /\ client.option # "not_sup" THEN Cuts
    ELSE IF told = "none" THEN {<<1>>} ELSE {<<>>}

FlightBytes(c) == FlattenSeq([i \in 1 .. Len(c) |->
                      [k \in 1 .. (HeaderSize + c[i]) |-> <<i, k>>]])

\* ParsePreLoginRequest, MakePreLoginResponse and TdsFlush in TdsProcessLogin.
PreLogin ==
    /\ at = "prelogin"
    /\ IF client.option = "other" /\ conf.ssl
       THEN /\ EndWithError
            /\ UNCHANGED <<client, enc, readVars>>
       ELSE /\ \E len \in Lengths : SendMessage(len)
            /\ client' = [client EXCEPT !.told = PreLoginAnswer(client.option)]
            /\ enc' = LoadEncryption(client.option)
            /\ IF enc' = "not_sup"
               THEN at' = "login" /\ UNCHANGED readVars
               ELSE \* Tds_be_tls_open_server needs an SSL context
                    /\ at' = IF conf.ssl THEN "handshake" ELSE "closed"
                    /\ \E c \in ClientFlight(client'.told) :
                          cut' = c /\ socket' = FlightBytes(c)
                    /\ UNCHANGED <<pktRead, pktLen, given>>
            /\ UNCHANGED bufSize
    /\ UNCHANGED <<conf, tls>>

-----------------------------------------------------------------------------
(* The TLS handshake (tdssecure.c) *)

\* SslRead: the socket has any number of the bytes asked for.
SslRead(size) == 1 .. Min({size, Len(socket)})
Drop(n) == SubSeq(socket, n + 1, Len(socket))

\* The header of the next packet, in as many reads as it takes.  LOGIN7 where
\* TLS was expected is FATAL.
HandShakeReadHeader ==
    /\ at = "handshake"
    /\ pktRead < HeaderSize
    /\ \E n \in SslRead(HeaderSize - pktRead) :
        /\ socket' = Drop(n)
        /\ pktRead' = pktRead + n
        /\ pktLen' = IF pktRead' = HeaderSize THEN HeaderSize + cut[socket[n][1]] ELSE pktLen
        /\ IF pktRead' = HeaderSize /\ client.told = "none"
           THEN EndWithError
           ELSE UNCHANGED <<at, sendVars>>
    /\ UNCHANGED <<conf, client, enc, tls, cut, given>>

\* Mutant of Clamped: OpenSSL gets as much as it asks for.
ClampedNever(size) == size

\* What SslHandShakeRead may still read for OpenSSL: no further than the end of
\* the packet.
Clamped(size) == IF pktRead + size > pktLen THEN pktLen - pktRead ELSE size

\* The data: OpenSSL asks for any part of the flight it still needs.
HandShakeReadData ==
    /\ at = "handshake"
    /\ pktRead >= HeaderSize
    /\ \E size \in 1 .. Len(socket) : \E n \in SslRead(Clamped(size)) :
        /\ given' = given \o SubSeq(socket, 1, n)
        /\ socket' = Drop(n)
        /\ pktRead' = IF pktRead + n = pktLen THEN 0 ELSE pktRead + n
    /\ UNCHANGED <<connVars, sendVars, cut, pktLen>>

\* SslHandShakeWrite: chunks that fit a packet, EOM on the last.
SslHandShakeWrite(bytes) ==
    LET n == Room(InitSize)
        count == (Len(bytes) + n - 1) \div n
    IN [i \in 1 .. count |->
            TdsFillHeader("prelogin", SubSeq(bytes, (i - 1) * n + 1, Min({i * n, Len(bytes)})), i = count)]

\* SSL_accept succeeds once it has the whole flight; the server's own flight
\* goes out.  From here on the socket is read and written through TLS.
HandShakeDone ==
    /\ at = "handshake"
    /\ cut # <<>>
    /\ socket = <<>>
    /\ \E len \in Lengths :
        LET bytes == Bytes(Len(messages) + 1, 0, len)
        IN /\ wire' = wire \o SslHandShakeWrite(bytes)
           /\ messages' = Append(messages, bytes)
    /\ tls' = TRUE
    /\ at' = "login"
    /\ UNCHANGED <<conf, client, enc, bufSize, sendBuf, cur, readVars>>

\* The client has hung up, or SSL_accept refuses what it was given.
HandShakeFails ==
    /\ at = "handshake"
    /\ EndSilently
    /\ UNCHANGED <<conf, client, enc, tls, readVars>>

-----------------------------------------------------------------------------
(* LOGIN7 *)

\* ValidateLoginRequest on the packet size.
ValidSize(size) == size = 0 \/ size \in MinSize .. MaxSize

\* ProcessLoginInternal: a malformed request ends the connection silently, an
\* invalid version, size or user name with an error.  Login-only encryption
\* ends here.
ProcessLogin ==
    /\ at = "login"
    /\ \/ EndSilently /\ UNCHANGED tls
       \/ EndWithError /\ UNCHANGED tls
       \/ /\ ValidSize(client.size)
          /\ at' = "auth"
          /\ tls' = (tls /\ enc # "off")
          /\ UNCHANGED sendVars
    /\ UNCHANGED <<conf, client, enc, readVars>>

\* The outcome of TdsClientAuthentication: gss is CheckGSSAuth's verdict on the
\* SSPI data, right whether the password is the role's.  A rejecting or
\* unsupported method refuses; password entries accept a Kerberos login too.
Verdict(gss, right) ==
    /\ client.auth = "sspi" => gss
    /\ \/ conf.method = "trust"
       \/ conf.method \in {"gss", "password"} /\ client.auth = "sspi"
       \/ conf.method = "password" /\ client.auth = "password" /\ right

\* CheckGSSAuth sends its token, if it has one, as a message of its own.
TdsClientAuthentication ==
    /\ at = "auth"
    /\ \E gss, right \in BOOLEAN :
        IF Verdict(gss, right)
        THEN /\ at' = "ack"
             /\ \/ UNCHANGED sendVars
                \/ client.auth = "sspi" /\ SendMessage(2) /\ UNCHANGED bufSize
        ELSE EndWithError
    /\ UNCHANGED <<conf, client, enc, tls, readVars>>

\* The size the connection goes on with, and whether the client is told.
PacketSize == IF client.size = 0 THEN conf.dflt
              ELSE IF client.size = conf.dflt THEN client.size
              ELSE (client.size \div Granule) * Granule
Announced == client.size # conf.dflt

\* Mutant of TdsSendLoginAck: the rounding is applied after the client was told.
TdsSendLoginAckUnrounded ==
    /\ at = "ack"
    /\ \E len \in Lengths : SendMessage(len)
    /\ client' = [client EXCEPT !.limit = PacketSize]
    /\ bufSize' = IF client.size = 0 THEN conf.dflt ELSE client.size
    /\ at' = "ready"
    /\ UNCHANGED <<conf, enc, tls, readVars>>

\* TdsSendLoginAck: the acknowledgement, flushed before TdsSetBufferSize; a
\* login that is not Babelfish's, or has no access to its database, gets an
\* error in its place.
TdsSendLoginAck ==
    /\ at = "ack"
    /\ \/ /\ \E len \in Lengths : SendMessage(len)
          /\ client' = [client EXCEPT !.limit = IF Announced THEN PacketSize ELSE client.size]
          /\ bufSize' = PacketSize
          /\ at' = "ready"
       \/ EndWithError /\ UNCHANGED client
    /\ UNCHANGED <<conf, enc, tls, readVars>>

-----------------------------------------------------------------------------
(* A response *)

TdsPutbytes ==
    /\ at = "ready"
    /\ \E len \in Writes :
        LET bytes == Bytes(Len(messages) + 1, Len(cur), len)
            put == InternalPutbytes(sendBuf, bytes)
        IN /\ Len(cur) + len <= MaxBytes
           /\ wire' = wire \o put.packets
           /\ sendBuf' = put.buf
           /\ cur' = cur \o bytes
    /\ UNCHANGED <<connVars, bufSize, messages, readVars>>

TdsSocketFlush ==
    /\ at = "ready"
    /\ cur # <<>>
    /\ wire' = Append(wire, TdsFillHeader("response", sendBuf, TRUE))
    /\ messages' = Append(messages, cur)
    /\ sendBuf' = <<>>
    /\ cur' = <<>>
    /\ at' = "done"
    /\ UNCHANGED <<conf, client, enc, tls, bufSize, readVars>>

\* InternalFlush on a failed write: the buffered data is dropped and the next
\* CHECK_FOR_INTERRUPTS ends the connection.
ConnectionLost ==
    /\ at = "ready"
    /\ cur # <<>>
    /\ sendBuf' = <<>>
    /\ at' = "closed"
    /\ UNCHANGED <<conf, client, enc, tls, bufSize, cur, messages, wire, readVars>>

Next == \/ PreLogin
        \/ HandShakeReadHeader \/ HandShakeReadData \/ HandShakeDone \/ HandShakeFails
        \/ ProcessLogin \/ TdsClientAuthentication \/ TdsSendLoginAck
        \/ TdsPutbytes \/ TdsSocketFlush \/ ConnectionLost

Spec == Init /\ [][Next]_vars

-----------------------------------------------------------------------------
\* The packets put together again.
Ends == SetToSortSeq({i \in 1 .. Len(wire) : wire[i].eom}, LAMBDA a, b : a < b)
Data(i, j) == FlattenSeq([k \in 1 .. (j + 1 - i) |-> wire[i + k - 1].data])
Received == [m \in 1 .. Len(Ends) |->
                Data(IF m = 1 THEN 1 ELSE Ends[m - 1] + 1, Ends[m])]
Pending == Data(IF Ends = <<>> THEN 1 ELSE Last(Ends) + 1, Len(wire))

\* A client that joins packets up to end-of-message gets exactly the messages
\* the server wrote, in order, and of the message in progress a prefix that the
\* buffer continues: no put, full buffer, flush or TLS chunk loses, repeats or
\* tears a byte (InternalPutbytes, InternalFlush, SslHandShakeWrite).
NothingTorn == /\ Received = messages
               /\ at # "closed" => Pending \o sendBuf = cur

\* Every packet is what the client is prepared for when it comes: no longer
\* than the packet size in force on its side, also across the change of size at
\* the login, and from the end of LOGIN7 on encrypted exactly if it was told
\* that the connection is (MakePreLoginResponse, TdsFreeSslStruct,
\* TdsSetBufferSize).
AsNegotiated == \A i \in 1 .. Len(wire) :
    /\ Len(wire[i].data) + HeaderSize <= wire[i].limit
    /\ wire[i].at \in {"auth", "ack", "ready"} =>
          wire[i].tls = (client.told \in {"on", "req"})

\* The server's messages arrive, from the first answer to PRELOGIN to the
\* responses after the login, in packets the client accepts.
MessagesArrive == NothingTorn /\ AsNegotiated

\* However the socket cuts its reads, OpenSSL is given the client's TLS bytes,
\* all of them and none of the headers they travel under (SslHandShakeRead).
HandshakeInOrder ==
    LET data == FlattenSeq([i \in 1 .. Len(cut) |->
                   [k \in 1 .. cut[i] |-> <<i, HeaderSize + k>>]])
    IN /\ IsPrefix(given, data)
       /\ tls => given = data
=============================================================================
