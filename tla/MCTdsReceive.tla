---------------------------- MODULE MCTdsReceive ----------------------------
(***************************************************************************)
(* Properties and instances of TdsReceive for TLC.                         *)
(***************************************************************************)
EXTENDS TdsReceive

\* The layer above receives what the client sent: tdscomm.c hands over the
\* packets in order and once each, whole messages with all of their data and
\* nothing else, however the socket splits the bytes.
Channel == INSTANCE TdsChannel


\* The server's process runs; the client and the network may do nothing, but
\* bytes that have arrived are read.
ServerRuns == Server \/ ReadNextPendingBcp \/ DiscardAllPendingBcp
=============================================================================
