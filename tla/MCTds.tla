------------------------------- MODULE MCTds -------------------------------
(***************************************************************************)
(* The TDS extension for TLC.  A connection is set up (TdsConnect), its    *)
(* bytes are received (TdsReceive) and its requests are served             *)
(* (TdsProtocol).  Each layer uses of the one below only what that one's   *)
(* properties promise, so a behaviour is about one of them, and the        *)
(* variables of the others keep their initial values.                      *)
(***************************************************************************)
EXTENDS MCTdsProtocol

CONSTANTS HeaderSize, BufferSize, Requests, FirstSizes, MoreSizes, ResetBits,
          Interrupted, MaxSent,
          InitSize, Granule, MinSize, MaxSize, Peers, Cuts, Lengths, Writes, MaxBytes

VARIABLES
    layer,  \* the layer this behaviour is about
    sent, rwire, rclient, closed, buf, left, doHeader, hdr, rat, ret, op, need,
    msg, rrequest, taken, got,
    conf, client, at, enc, tls, bufSize, sendBuf, cur, messages, wire, socket,
    cut, pktRead, pktLen, given

recvVars == <<sent, rwire, rclient, closed, buf, left, doHeader, hdr, rat, ret, op,
              need, msg, rrequest, taken, got>>
connVars == <<conf, client, at, enc, tls, bufSize, sendBuf, cur, messages, wire,
              socket, cut, pktRead, pktLen, given>>
allVars == <<layer, vars, recvVars, connVars>>

Recv == INSTANCE MCTdsReceive WITH
    wire <- rwire, client <- rclient, at <- rat, request <- rrequest
Conn == INSTANCE TdsConnect

ASSUME Recv!SizesAssumption /\ Recv!ClientAssumption

\* The peers differ in what they encrypt, in the packet size, or in how the
\* client authenticates.
MCCuts == {<<3>>, <<1, 2>>, <<2, 1>>}
Peer(ssl, force, dflt, method, option, size, auth) ==
    [ssl |-> ssl, force |-> force, dflt |-> dflt, method |-> method,
     option |-> option, size |-> size, auth |-> auth]
MCPeers ==
    {Peer(s, f, 6, "trust", o, 8, "nothing") :
        s, f \in BOOLEAN, o \in {"on", "off", "not_sup", "req", "other", "absent"}}
    \cup {Peer(TRUE, FALSE, d, "password", "not_sup", n, "password") :
            d \in {4, 6, 8}, n \in {0, 3, 4, 5, 6, 8, 9}}
    \cup {Peer(TRUE, TRUE, 6, m, "on", 0, a) :
            m \in {"reject", "unsupported", "gss", "password", "trust", "oauth"},
            a \in {"password", "nothing", "sspi"}}

MCInit ==
    /\ layer \in {"connect", "receive", "serve"}
    /\ Init /\ Recv!Init /\ Conn!Init
    /\ layer # "connect" => conf.ssl /\ ~conf.force /\ client.option = "req"

Serve == layer = "serve" /\ Next /\ UNCHANGED <<layer, recvVars, connVars>>
Receive == layer = "receive" /\ Recv!Next /\ UNCHANGED <<layer, vars, connVars>>
Connect == layer = "connect" /\ Conn!Next /\ UNCHANGED <<layer, vars, recvVars>>

\* A client may leave a connection alone for ever once it is set up, and may
\* have no more requests; a reader that stops with bytes to read is a deadlock.
Rest == layer # "receive" /\ UNCHANGED allVars

MCNext == Serve \/ Receive \/ Connect \/ Rest

\* The server's process runs; the client and the network may do nothing, but
\* bytes that have arrived are read.
MCSpec ==
    /\ MCInit /\ [][MCNext]_allVars
    /\ WF_allVars(layer = "serve" /\ Server /\ UNCHANGED <<layer, recvVars, connVars>>)
    /\ WF_allVars(layer = "receive" /\ Recv!ServerRuns /\ UNCHANGED <<layer, vars, connVars>>)

\* The properties of TdsReceive and TdsConnect, stated in their modules.
BufferSound == Recv!BufferSound
MessagesArrive == Conn!MessagesArrive
HandshakeInOrder == Conn!HandshakeInOrder
=============================================================================
