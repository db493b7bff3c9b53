------------------------------ MODULE GhostFifo ------------------------------
(***************************************************************************)
(* What the ghost listener promises to thread_up: a bounded first-in       *)
(* first-out queue.  Whatever ghost.c does with indices, locks and copies, *)
(* a caller of ghost_get sees packets in the order in which they were      *)
(* stored, each once, whole, and never more than it asked for - as long as *)
(* the size they state is that of what they bring.  What comes of one that *)
(* states more is not its own, or is the end of all promises.              *)
(***************************************************************************)
EXTENDS Naturals, Sequences

CONSTANTS
  Packets,    \* the packets ghost nodes can send
  Oversized,  \* those that state a size larger than they have
  Junk,       \* what a caller gets for one of these
  Capacity    \* how many packets the listener keeps for thread_up

VARIABLES
  queue,      \* packets stored and not yet fetched, oldest first
  batch,      \* what the last completed ghost_get handed over
  defined     \* the listener still promises something

fifoVars == <<queue, batch, defined>>

Init == queue = <<>> /\ batch = <<>> /\ defined = TRUE

Store(p) ==
  /\ defined /\ Len(queue) < Capacity
  /\ queue' = Append(queue, p)
  /\ UNCHANGED <<batch, defined>>

Fetched(p) == IF p \in Oversized THEN Junk ELSE p

Fetch(n) ==
  /\ defined /\ n <= Len(queue)
  /\ batch' = [k \in 1 .. n |-> Fetched(queue[k])]
  /\ queue' = SubSeq(queue, n + 1, Len(queue))
  /\ UNCHANGED defined

\* Only a packet of a wrong size ends the promises.
Overrun ==
  /\ defined /\ \E k \in 1 .. Len(queue) : queue[k] \in Oversized
  /\ defined' = FALSE
  /\ UNCHANGED <<queue, batch>>

Next ==
  \/ Overrun
  \/ \E p \in Packets : Store(p)
  \/ \E n \in 0 .. Capacity : Fetch(n)

Spec == Init /\ [][Next]_fifoVars
=============================================================================
