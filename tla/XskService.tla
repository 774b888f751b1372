----------------------------- MODULE XskService -----------------------------
(***************************************************************************)
(* What an AF_XDP socket promises the code above it, with no rings, no     *)
(* indices and no UMEM frames in sight:                                    *)
(*                                                                         *)
(*   - packets the driver accepted come out of rx_peek in the order they   *)
(*     arrived, none lost, none twice, each with the bytes it arrived with;*)
(*   - a packet handed over by tx_submit leaves with exactly the bytes it  *)
(*     was built with, whatever the user does while the driver has it.     *)
(*                                                                         *)
(* XskRings implements this specification (XskRings!Service).              *)
(***************************************************************************)
EXTENDS Naturals, Sequences

CONSTANTS
  Payload,     \* packet contents
  NoPayload,   \* no packet
  Buffers,     \* names for the packets the user may have outstanding
  InboxLimit   \* how many received packets may wait for the user

VARIABLES
  inbox,       \* payloads received and not yet read by the user, in order
  got,         \* the payload the user is being given, or NoPayload
  outbox       \* for each buffer, the payload the driver has yet to send

svars == <<inbox, got, outbox>>

Init ==
  /\ inbox = <<>>
  /\ got = NoPayload
  /\ outbox = [b \in Buffers |-> NoPayload]

\* The driver receives a packet and has room for it.
Arrive ==
  \E p \in Payload :
    /\ Len(inbox) < InboxLimit
    /\ inbox' = Append(inbox, p)
    /\ UNCHANGED <<got, outbox>>

\* The user is given the oldest packet.
Take ==
  /\ got = NoPayload
  /\ inbox # <<>>
  /\ got' = Head(inbox)
  /\ inbox' = Tail(inbox)
  /\ UNCHANGED outbox

\* The user is finished with that packet.
Done ==
  /\ got # NoPayload
  /\ got' = NoPayload
  /\ UNCHANGED <<inbox, outbox>>

\* The user hands a packet over for transmission.
Submit ==
  \E b \in Buffers, p \in Payload :
    /\ outbox[b] = NoPayload
    /\ outbox' = [outbox EXCEPT ![b] = p]
    /\ UNCHANGED <<inbox, got>>

\* The driver has sent a packet and will not look at its bytes again.
Transmit ==
  \E b \in Buffers :
    /\ outbox[b] # NoPayload
    /\ outbox' = [outbox EXCEPT ![b] = NoPayload]
    /\ UNCHANGED <<inbox, got>>

Next == Arrive \/ Take \/ Done \/ Submit \/ Transmit

Spec == Init /\ [][Next]_svars
=============================================================================
