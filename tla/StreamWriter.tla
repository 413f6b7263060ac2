--------------------------- MODULE StreamWriter ---------------------------
(***************************************************************************)
(* The three futures that write a TCP stream: StreamWriterSorted (to the   *)
(* browser), the ProxyClient's StreamWriter (to a server) and              *)
(* StreamWriterUnsorted (to a Node).  Each reads a channel that another    *)
(* thread feeds and closes, and writes as much as the socket takes.        *)
(*                                                                         *)
(* A future runs only when it is woken, and what it waits for is what its  *)
(* last poll registered: the channel when reading it gave NotReady, the    *)
(* socket when writing gave NotReady.  A poll is split where the other     *)
(* thread can come in between: at each read of the channel.                *)
(***************************************************************************)
EXTENDS Integers, Sequences, FiniteSets

CONSTANTS
    MaxSequence,    \* u64::MAX
    ReorderWindow,  \* MAX_SEQUENCE_REORDER_WINDOW
    MaxErrors,      \* MAX_CONSECUTIVE_WRITE_ERRORS
    MaxBytes,       \* bound: bytes in a packet
    MaxSends        \* bound: packets put into the channel

ASSUME WriterAssumption ==
    /\ MaxSequence \in Nat /\ ReorderWindow \in Nat /\ MaxErrors \in Nat
    /\ MaxBytes \in Nat /\ MaxSends \in Nat

INSTANCE SequenceBuffer

VARIABLES
    kind,     \* which of the three
    length,   \* the content of each packet: its number of bytes
    final,    \* the packet with last_data
    channel, open,         \* rx_to_write; whether the sending side exists
    sends,
    task,     \* parked | reading | writing | done | failed
    closed,   \* ReadChannelStatus of this poll
    shuttingDown,          \* shutting_down
    waits, woken,          \* what the future has registered for; it is woken
    buffer,   \* sequence_buffer, or for the unsorted writer `buf`
    errors,   \* consecutive_write_errors of this poll
    written,  \* bytes the socket has taken: <<packet, index>>
    panicked

given == <<kind, length, final>>
writerVars == <<given, channel, open, sends, task, closed, shuttingDown, waits, woken,
          buffer, errors, written, panicked>>

Numbers == 0 .. MaxSequence

WriterInit ==
    /\ kind \in {"sorted", "exit", "unsorted"}
    /\ length \in [Numbers -> 0 .. MaxBytes]
    /\ final \in Numbers
    /\ channel = <<>> /\ open = TRUE /\ sends = 0
    /\ task = "reading" /\ closed = FALSE /\ shuttingDown = FALSE
    /\ waits = {} /\ woken = FALSE
    /\ buffer = EmptyBuffer
    /\ errors = 0 /\ written = <<>> /\ panicked = FALSE

---------------------------------------------------------------------------
\* The other threads.  Packets arrive in any order and more than once; for the
\* unsorted writer the order of the channel is all there is.

Notify(what) == woken' = (woken \/ what \in waits)

SendPacket(n) ==
    /\ open /\ sends < MaxSends
    /\ kind = "unsorted" => n = sends
    /\ sends' = sends + 1
    /\ channel' = Append(channel, [seq |-> n, skip |-> 0])
    /\ Notify("channel")
    /\ UNCHANGED <<given, open, task, closed, shuttingDown, waits, buffer, errors,
                   written, panicked>>

Close ==
    /\ open
    /\ open' = FALSE
    /\ Notify("channel")
    /\ UNCHANGED <<given, channel, sends, task, closed, shuttingDown, waits, buffer,
                   errors, written, panicked>>

Writable ==
    /\ "socket" \in waits
    /\ Notify("socket")
    /\ waits' = waits \ {"socket"}
    /\ UNCHANGED <<given, channel, open, sends, task, closed, shuttingDown, buffer,
                   errors, written, panicked>>

---------------------------------------------------------------------------
\* poll

Wake ==
    /\ task = "parked" /\ woken
    /\ woken' = FALSE /\ waits' = {}
    /\ task' = IF shuttingDown THEN "done" ELSE "reading"
    /\ errors' = 0
    /\ UNCHANGED <<given, channel, open, sends, closed, shuttingDown, buffer, written,
                   panicked>>

\* Mutant: one packet is read in a poll, and the rest of the channel is left
ReadOnePacket ==
    /\ task = "reading" /\ channel # <<>>
    /\ channel' = Tail(channel)
    /\ buffer' = IF kind = "unsorted"
                 THEN [buffer EXCEPT !.packets = {Head(channel)}]
                 ELSE Push(buffer, Head(channel))
    /\ task' = IF kind = "unsorted" THEN task ELSE "writing"
    /\ UNCHANGED <<given, open, sends, closed, shuttingDown, waits, woken, errors,
                   written, panicked>>

\* read_data_from_channel, one packet; the unsorted writer takes one only when
\* it has none to write
ReadPacket ==
    /\ task = "reading" /\ channel # <<>>
    /\ kind = "unsorted" => buffer.packets = {}
    /\ channel' = Tail(channel)
    /\ buffer' = IF kind = "unsorted"
                 THEN [buffer EXCEPT !.packets = {Head(channel)}]
                 ELSE Push(buffer, Head(channel))
    /\ UNCHANGED <<given, open, sends, task, closed, shuttingDown, waits, woken, errors,
                   written, panicked>>

\* The channel gives NotReady or its end.  The unsorted writer returns at once.
ReadEnds ==
    /\ task = "reading" /\ channel = <<>>
    /\ kind = "unsorted" => buffer.packets = {}
    /\ closed' = ~open
    /\ waits' = IF open THEN {"channel"} ELSE {}
    /\ task' = IF kind # "unsorted" THEN "writing"
               ELSE IF open THEN "parked" ELSE "done"
    /\ UNCHANGED <<given, channel, open, sends, shuttingDown, woken, buffer, errors,
                   written, panicked>>

\* The packet to write: sequence_buffer.poll(), or `buf`
Current == IF kind = "unsorted" THEN buffer.packets ELSE Ready(buffer)
Writing(p) ==
    /\ task = IF kind = "unsorted" THEN "reading" ELSE "writing"
    /\ p \in Current

\* What is left of a packet goes back
PutBack(p, skip) ==
    LET rest == [p EXCEPT !.skip = skip]
        polled == Polled(buffer, p)
    IN IF kind = "unsorted"
       THEN buffer' = [buffer EXCEPT !.packets = {rest}] /\ UNCHANGED panicked
       ELSE /\ buffer' = Repush(polled, rest)
            /\ panicked' = ~RepushIsProper(polled, rest)

WriteError(p) ==
    /\ Writing(p)
    /\ errors' = errors + 1
    /\ \/ /\ task' = "failed"
          /\ UNCHANGED <<buffer, panicked>>
       \/ /\ errors' < MaxErrors
          /\ PutBack(p, p.skip)
          /\ UNCHANGED task
    /\ UNCHANGED <<given, channel, open, sends, closed, shuttingDown, waits, woken, written>>

WriteNotReady(p) ==
    /\ Writing(p)
    /\ PutBack(p, p.skip)
    /\ task' = "parked"
    /\ waits' = waits \cup {"socket"}
    /\ UNCHANGED <<given, channel, open, sends, closed, shuttingDown, woken, errors, written>>

\* The socket takes `count` bytes; after the last one of the last packet the
\* sorted writers shut the stream down
WriteBytes(p, count) ==
    LET left == length[p.seq] - p.skip
        ends == count = left /\ kind # "unsorted" /\ p.seq = final
    IN /\ Writing(p)
       /\ count <= left /\ (count > 0 \/ left = 0)
       /\ errors' = 0
       /\ written' = written \o [i \in 1 .. count |-> <<p.seq, p.skip + i>>]
       /\ IF count < left THEN PutBack(p, p.skip + count)
          ELSE /\ buffer' = IF kind = "unsorted" THEN [buffer EXCEPT !.packets = {}]
                            ELSE Polled(buffer, p)
               /\ UNCHANGED panicked
       /\ shuttingDown' = ends
       /\ task' = IF ~ends THEN task ELSE IF closed THEN "done" ELSE "parked"
    /\ UNCHANGED <<given, channel, open, sends, closed, waits, woken>>

\* Nothing to write: the future ends if the channel has
WriteEnds ==
    /\ task = "writing" /\ Current = {}
    /\ task' = IF closed THEN "done" ELSE "parked"
    /\ UNCHANGED <<given, channel, open, sends, closed, shuttingDown, waits, woken,
                   buffer, errors, written, panicked>>

---------------------------------------------------------------------------
Write(p) ==
    \/ WriteError(p) \/ WriteNotReady(p)
    \/ \E count \in 0 .. MaxBytes : WriteBytes(p, count)

WriterNext ==
    \/ \E n \in Numbers : SendPacket(n)
    \/ Close \/ Writable \/ Wake
    \/ ReadPacket \/ ReadEnds
    \/ \E p \in buffer.packets : Write(p)
    \/ WriteEnds

WriterSpec == WriterInit /\ [][WriterNext]_writerVars

\* The executor runs a future that is woken, and a socket whose buffer is full
\* becomes writable again: sooner or later it takes bytes
WriterFairness ==
    /\ WF_writerVars(Writable) /\ WF_writerVars(Wake)
    /\ WF_writerVars(ReadPacket) /\ WF_writerVars(ReadEnds) /\ WF_writerVars(WriteEnds)
    /\ WF_writerVars(\E p \in buffer.packets : Write(p))
    /\ SF_writerVars(\E p \in buffer.packets, count \in 0 .. MaxBytes : WriteBytes(p, count))
WriterFairSpec == WriterSpec /\ WriterFairness

---------------------------------------------------------------------------
WriterTypeOK ==
    /\ task \in {"parked", "reading", "writing", "done", "failed"}
    /\ waits \subseteq {"channel", "socket"}
    /\ buffer.next \in Numbers /\ Seen(buffer) \subseteq Numbers
    /\ Cardinality(buffer.packets) <= ReorderWindow
    /\ errors \in 0 .. MaxErrors

\* The sequences b[1] .. b[k], one after the other
Flat(b, k) == LET flat[i \in 0 .. k] == IF i = 0 THEN <<>> ELSE flat[i - 1] \o b[i] IN flat[k]

\* All that is to be written, in order; a sorted writer ends with the last data
Bytes == [n \in 1 .. MaxSequence + 1 |-> [i \in 1 .. length[n - 1] |-> <<n - 1, i>>]]
Count == IF kind = "unsorted" THEN MaxSequence + 1 ELSE final + 1
Content == Flat(Bytes, Count)

Ended == task \in {"done", "failed"}

Ordered == INSTANCE OrderedStream WITH
    content <- Content, output <- written, over <- Ended \/ shuttingDown

\* Each of the three futures implements OrderedStream: what reaches the socket is a
\* beginning of the packets' bytes in the order of their sequence numbers, each byte
\* once, whatever the order and repetition in the channel and however often a write
\* is cut short or refused (push, poll, repush), and nothing follows the last data,
\* a failure or the end of the future.  And repush is never called on a packet other
\* than the one polled last ("improper use of repush"), not even at the end of the
\* sequence numbers.
WritesInOrder == Ordered!Spec /\ []~panicked

\* No wake-up is lost: what can be written is written or the stream has failed, and
\* when the sending side is gone the future ends.
WritesOn ==
    /\ []<>(Ended \/ shuttingDown \/ (channel = <<>> /\ Current = {}))
    /\ [](~open => <>Ended)
===========================================================================
