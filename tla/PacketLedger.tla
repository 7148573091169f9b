---------------------------- MODULE PacketLedger ----------------------------
(***************************************************************************)
(* What the resend machinery promises about each packet handed to it,      *)
(* without queue, order or timers: it is transmitted, retransmitted while  *)
(* it is pending and fewer than MAX_ATTEMPTS transmissions were made, and  *)
(* ends either confirmed by an acknowledgement or, after MAX_ATTEMPTS      *)
(* transmissions and not before, given up.  Any number of packets may      *)
(* move in one step: a handler may write several packets.                  *)
(***************************************************************************)
EXTENDS Integers

CONSTANTS
  Packets,      \* the packets, each known by its SEQ doubleword
  MAX_ATTEMPTS  \* transmissions before a packet is given up

VARIABLES
  fate,   \* fate[p]: what became of packet p
  sends   \* sends[p]: how often packet p was put on the wire

vars == <<fate, sends>>

Init ==
  /\ fate = [p \in Packets |-> "unsent"]
  /\ sends = [p \in Packets |-> 0]

Submit(p) ==
  /\ fate[p] = "unsent" /\ fate'[p] = "pending"
  /\ sends'[p] = 1

Retransmit(p) ==
  /\ fate[p] = "pending" /\ fate'[p] = "pending"
  /\ sends[p] < MAX_ATTEMPTS
  /\ sends'[p] = sends[p] + 1

Confirm(p) ==
  /\ fate[p] = "pending" /\ fate'[p] = "acked"
  /\ sends'[p] = sends[p]

GiveUp(p) ==
  /\ fate[p] = "pending" /\ fate'[p] = "discarded"
  /\ sends[p] = MAX_ATTEMPTS
  /\ sends'[p] = sends[p]

Rest(p) == fate'[p] = fate[p] /\ sends'[p] = sends[p]

Next == \A p \in Packets :
  Submit(p) \/ Retransmit(p) \/ Confirm(p) \/ GiveUp(p) \/ Rest(p)

Spec == Init /\ [][Next]_vars
=============================================================================
