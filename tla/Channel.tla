------------------------------ MODULE Channel ------------------------------
(***************************************************************************)
(* What a pipe promises the programs at its two ends: a bounded channel    *)
(* that delivers every byte once and in the order in which it was written, *)
(* takes nothing when nobody can read it any more, and whose ends close    *)
(* for good.                                                               *)
(***************************************************************************)
EXTENDS Naturals, Sequences

CONSTANT Capacity

VARIABLES
  sent,     \* how many bytes have been written: they are numbered 1, 2, ...
  got,      \* the bytes delivered
  open      \* which of the ends "read" and "write" are open

channelVars == <<sent, got, open>>

ChannelInit == sent = 0 /\ got = <<>> /\ open = {"read", "write"}

Put(k) ==
  /\ "read" \in open /\ sent + k <= Len(got) + Capacity
  /\ sent' = sent + k
  /\ UNCHANGED <<got, open>>

Deliver(k) ==
  /\ Len(got) + k <= sent
  /\ got' = [i \in 1..(Len(got) + k) |-> i]
  /\ UNCHANGED <<sent, open>>

Close(end) ==
  /\ end \in open
  /\ open' = open \ {end}
  /\ UNCHANGED <<sent, got>>

ChannelNext ==
  \/ \E k \in 1..Capacity : Put(k) \/ Deliver(k)
  \/ \E end \in open : Close(end)

ChannelSpec == ChannelInit /\ [][ChannelNext]_channelVars
=============================================================================
