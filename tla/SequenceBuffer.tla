-------------------------- MODULE SequenceBuffer --------------------------
(***************************************************************************)
(* node/src/sub_lib/sequence_buffer.rs: packets go in in any order and come *)
(* out in the order of their sequence numbers.  A packet is any record with *)
(* a field `seq`.                                                           *)
(***************************************************************************)
EXTENDS Integers, FiniteSets

CONSTANTS
    MaxSequence,   \* u64::MAX
    ReorderWindow  \* MAX_SEQUENCE_REORDER_WINDOW

EmptyBuffer == [next |-> 0, exhausted |-> FALSE, packets |-> {}]

\* seen_sequence_numbers holds the numbers of the packets in the heap: both are
\* changed together, by push, poll and repush
Seen(b) == {p.seq : p \in b.packets}

\* Mutant: a packet however far ahead is kept
PushWithoutWindow(b, packet) ==
    IF \/ b.exhausted
       \/ packet.seq < b.next
       \/ packet.seq \in Seen(b)
    THEN b
    ELSE [b EXCEPT !.packets = @ \cup {packet}]

Push(b, packet) ==
    IF \/ b.exhausted
       \/ packet.seq < b.next
       \/ packet.seq \in Seen(b)
       \/ packet.seq - b.next >= ReorderWindow
    THEN b
    ELSE [b EXCEPT !.packets = @ \cup {packet}]

\* The packet poll would return
Ready(b) == {p \in b.packets : p.seq = b.next}

\* The buffer after poll has returned packet p
Polled(b, p) ==
    [next |-> IF b.next < MaxSequence THEN b.next + 1 ELSE b.next,
     exhausted |-> b.next = MaxSequence,
     packets |-> b.packets \ {p}]

\* repush panics on a packet that does not follow the last poll
RepushIsProper(b, packet) ==
    IF b.exhausted THEN packet.seq = MaxSequence ELSE packet.seq = b.next - 1

\* Mutant: the next number to write is not set back
RepushBehind(b, packet) == [b EXCEPT !.packets = @ \cup {packet}]

Repush(b, packet) ==
    [next |-> packet.seq, exhausted |-> FALSE, packets |-> b.packets \cup {packet}]
===========================================================================
