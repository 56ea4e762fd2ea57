------------------------------ MODULE Channel ------------------------------
(***************************************************************************)
(* What the command queue of the server and a connection promise: whatever *)
(* was sent is received once, in the order in which it was sent.           *)
(***************************************************************************)
EXTENDS Naturals, Sequences

CONSTANT Item

VARIABLES sent, got

ChannelInit == sent = << >> /\ got = << >>

Send == /\ \E x \in Item : sent' = Append(sent, x)
        /\ got' = got

Receive == /\ Len(got) < Len(sent)
           /\ got' = Append(got, sent[Len(got) + 1])
           /\ sent' = sent

ChannelSpec == ChannelInit /\ [][Send \/ Receive]_<<sent, got>>
=============================================================================
