------------------------------- MODULE Channel -------------------------------
(***************************************************************************)
(* What one direction of an established connection promises: a stream.    *)
(* The receiver gets the messages in the order in which they were sent,    *)
(* each once, none from anywhere else, and may at any time give up for     *)
(* good.                                                                   *)
(***************************************************************************)
EXTENDS Naturals, Sequences

CONSTANT Messages

VARIABLES
    sent,       \* everything handed to the channel
    received,   \* everything the receiver accepted
    over        \* the receiver has given up

ChannelInit ==
    /\ sent \in Seq(Messages)
    /\ received = <<>>
    /\ over = FALSE

\* The sender adds any number of messages.
ChannelSend ==
    /\ sent' \in Seq(Messages)
    /\ Len(sent) <= Len(sent')
    /\ \A i \in 1 .. Len(sent) : sent'[i] = sent[i]
    /\ UNCHANGED <<received, over>>

\* The receiver takes the next message, and may give up because of it.
ChannelReceive ==
    /\ ~over
    /\ Len(received) < Len(sent)
    /\ received' = Append(received, sent[Len(received) + 1])
    /\ over' \in BOOLEAN
    /\ UNCHANGED sent

GiveUp ==
    /\ ~over
    /\ over' = TRUE
    /\ UNCHANGED <<sent, received>>

ChannelNext == ChannelSend \/ ChannelReceive \/ GiveUp

ChannelSpec == ChannelInit /\ [][ChannelNext]_<<sent, received, over>>
=============================================================================
