----------------------------- MODULE TdsChannel -----------------------------
(***************************************************************************)
(* What the receive side of the TDS wire promises: the packets the client  *)
(* has sent reach the layer above in order, each once, as units that are   *)
(* whole messages; a bulk load is handed over packet by packet, and the    *)
(* rest of one may be discarded.                                           *)
(***************************************************************************)
EXTENDS Integers, Sequences, SequencesExt

CONSTANT HeaderSize   \* bytes of a packet that are not data

VARIABLES
    sent,    \* the packets sent
    taken,   \* how many of them have been handed over or discarded
    got      \* the units handed over

cvars == <<sent, taken, got>>

\* The data of packets i .. j.  Byte k, from 0, of packet i is <<i, k>>.
Data(i, j) == FlattenSeq([p \in 1 .. (j - i + 1) |->
                  [k \in 1 .. sent[i + p - 1].size |->
                      <<i + p - 1, HeaderSize + k - 1>>]])

CInit == sent = <<>> /\ taken = 0 /\ got = <<>>

\* The client sends one more packet, whatever it is.
Send == /\ Len(sent') = Len(sent) + 1
        /\ sent' = Append(sent, sent'[Len(sent')])
        /\ UNCHANGED <<taken, got>>

\* Packet n is the first one after those taken that ends a message.
Ends(n) == sent[n].eom /\ \A i \in (taken + 1) .. (n - 1) : ~sent[i].eom

\* A message, or one packet of a bulk load, is handed over.
Deliver == \E n \in (taken + 1) .. Len(sent) :
    /\ \/ Ends(n)
       \/ n = taken + 1 /\ sent[n].type = "bulk"
    /\ taken' = n
    /\ got' = Append(got, [from |-> taken + 1, to |-> n, data |-> Data(taken + 1, n)])
    /\ UNCHANGED sent

\* The rest of a bulk load that was begun is thrown away, up to its end or to
\* the attention that breaks it off.
Discard == \E n \in (taken + 1) .. Len(sent) :
    /\ taken > 0
    /\ ~sent[taken].eom
    /\ \A i \in taken .. n : sent[i].type = "bulk"
    /\ \A i \in taken .. (n - 1) : ~sent[i].eom
    /\ sent[n].eom \/ (n < Len(sent) /\ sent[n + 1].type = "attention")
    /\ taken' = n
    /\ UNCHANGED <<sent, got>>

ChannelSpec == CInit /\ [][Send \/ Deliver \/ Discard]_cvars
=============================================================================
