-------------------------- MODULE BroadcastChannel --------------------------
(***************************************************************************)
(* What a MessageQueue promises to its local readers: each of them gets    *)
(* every message once and in the order in which they were written.         *)
(***************************************************************************)
EXTENDS Naturals, Sequences

CONSTANTS Readers, Messages

VARIABLES
    sent,      \* the messages written
    received   \* received[r]: the messages that reader r got

ChannelInit == sent = << >> /\ received = [r \in Readers |-> << >>]

\* enqueue
Put(m) == sent' = Append(sent, m) /\ UNCHANGED received

\* dequeue
Get(r) ==
    /\ Len(received[r]) < Len(sent)
    /\ received' = [received EXCEPT ![r] = Append(@, sent[Len(@) + 1])]
    /\ UNCHANGED sent

ChannelNext == (\E m \in Messages : Put(m)) \/ (\E r \in Readers : Get(r))

ChannelSpec == ChannelInit /\ [][ChannelNext]_<<sent, received>>
=============================================================================
