------------------------------ MODULE GhostRing ------------------------------
(***************************************************************************)
(* The circular packet buffer of ghost.c.  thread_ghost (one producer)     *)
(* stores datagrams of the ghost node server, thread_up (one consumer)     *)
(* collects them with ghost_get.  The mutex cb_ghost only covers single    *)
(* reads and writes of the indices: the memcpy into a slot and the readRX  *)
(* of a slot run unlocked, and each is a step of its own here.  A critical *)
(* section of one access is one action, so the mutex needs no variable.    *)
(*                                                                         *)
(* A packet states its size in its bytes 36 and 37, and nobody compares it *)
(* with what was received.  One that states more than it brought makes     *)
(* readRX copy what follows it in the buffer, and one that states more     *)
(* than 256 makes it write behind the payload it fills.                    *)
(***************************************************************************)
EXTENDS Integers, Sequences

CONSTANTS
  Packets,              \* datagram contents
  Oversized,            \* those that state a larger size than they have
  Junk,                 \* slot bytes that are no packet: initial or half-written
  GHST_NM_RCV,          \* slots of the buffer (12)
  GHST_MIN_PACKETSIZE,  \* bytes of a packet without payload (38)
  GHST_RX_BUFFSIZE,     \* bytes of a slot (320)
  NB_PKT_MAX            \* packets thread_up handles per round (8)

ASSUME GhostAssumption ==
  /\ GHST_NM_RCV \in Nat /\ GHST_NM_RCV > 1
  /\ GHST_MIN_PACKETSIZE \in Nat
  /\ GHST_RX_BUFFSIZE \in Nat
  /\ NB_PKT_MAX \in Nat
  /\ Junk \notin Packets
  /\ Oversized \subseteq Packets

VARIABLES
  ghst_bgn,   \* slot the producer fills next
  ghst_end,   \* oldest unread slot
  buffRX,     \* slot contents
  rx_pc,      \* where thread_ghost is in its receive loop
  buff_down,  \* the datagram thread_ghost holds
  next,       \* thread_ghost's local: the slot after ghst_bgn
  get_pc,     \* where thread_up is in ghost_get
  get_pkt,    \* ghost_get's local: how many packets it will copy
  pkt_data,   \* the packets it has copied so far
  rxpkt       \* the packets the last completed ghost_get returned

prodVars == <<ghst_bgn, buffRX, rx_pc, buff_down, next>>
consVars == <<ghst_end, get_pc, get_pkt, pkt_data, rxpkt>>
vars     == <<ghst_bgn, ghst_end, buffRX, rx_pc, buff_down, next,
              get_pc, get_pkt, pkt_data, rxpkt>>

Slots == 0 .. (GHST_NM_RCV - 1)

\* Mutant of Ahead: the index does not wrap around.
AheadNoWrap(s, k) == s + k

\* The slot k places after slot s.
Ahead(s, k) == (s + k) % GHST_NM_RCV

\* Packets stored and not yet released, as ghost_get counts them.
Avail == (ghst_bgn - ghst_end + GHST_NM_RCV) % GHST_NM_RCV

Unread == {Ahead(ghst_end, k) : k \in 0 .. (Avail - 1)}

\* The lengths thread_ghost accepts: 4 header bytes and a packet.
Lengths == (4 + GHST_MIN_PACKETSIZE) .. (4 + GHST_RX_BUFFSIZE)

Datagrams == [pkt : Packets, len : Lengths]

\* State after ghost_start.
Init ==
  /\ ghst_bgn = 0
  /\ ghst_end = 0
  /\ buffRX = [s \in Slots |-> Junk]
  /\ rx_pc = "recv"
  /\ buff_down \in Datagrams
  /\ next = 0
  /\ get_pc = "call"
  /\ get_pkt = 0
  /\ pkt_data = <<>>
  /\ rxpkt = <<>>

(***************************************************************************)
(* thread_ghost.  A datagram that fails the size or header test changes    *)
(* nothing and is left out.                                                *)
(***************************************************************************)
RecvDatagram(d) ==
  /\ rx_pc = "recv"
  /\ buff_down' = d
  /\ next' = Ahead(ghst_bgn, 1)
  /\ rx_pc' = "test"
  /\ UNCHANGED <<ghst_bgn, buffRX>>
  /\ UNCHANGED consVars

\* Mutant of Full: the buffer is never full.
NeverFull == FALSE

Full == next = ghst_end

\* Under cb_ghost: a full buffer drops the datagram.
TestFull ==
  /\ rx_pc = "test"
  /\ rx_pc' = IF Full THEN "recv" ELSE "copy"
  /\ UNCHANGED <<ghst_bgn, buffRX, buff_down, next>>
  /\ UNCHANGED consVars

\* Mutant of CopyBegin: the index is published before the copy.
PublishFirst ==
  /\ rx_pc = "copy"
  /\ ghst_bgn' = next
  /\ rx_pc' = "copying"
  /\ UNCHANGED <<buffRX, buff_down, next>>
  /\ UNCHANGED consVars

\* The memcpy starts: from here to CopyEnd the slot is half-written.
CopyBegin ==
  /\ rx_pc = "copy"
  /\ buffRX' = [buffRX EXCEPT ![ghst_bgn] = Junk]
  /\ rx_pc' = "copying"
  /\ UNCHANGED <<ghst_bgn, buff_down, next>>
  /\ UNCHANGED consVars

\* memcpy moves msg_len - 3 bytes, one more than the packet has, so the
\* longest packet also overwrites the first byte after its slot.
Spill == IF buff_down.len - 3 > GHST_RX_BUFFSIZE THEN {ghst_bgn + 1} ELSE {}

CopyEnd ==
  /\ rx_pc = "copying"
  /\ buffRX' = [s \in Slots |-> IF s = ghst_bgn THEN buff_down.pkt
                                ELSE IF s \in Spill THEN Junk
                                ELSE buffRX[s]]
  /\ rx_pc' = "publish"
  /\ UNCHANGED <<ghst_bgn, buff_down, next>>
  /\ UNCHANGED consVars

Publish ==
  /\ rx_pc = "publish"
  /\ ghst_bgn' = next
  /\ rx_pc' = "recv"
  /\ UNCHANGED <<buffRX, buff_down, next>>
  /\ UNCHANGED consVars

(***************************************************************************)
(* ghost_get, called by thread_up with max_pkt = NB_PKT_MAX - nb_pkt.  The *)
(* HAL's error value nb_pkt = -1 makes max_pkt NB_PKT_MAX + 1.             *)
(***************************************************************************)
Rooms == 0 .. (NB_PKT_MAX + 1)

CountAvail(max_pkt) ==
  /\ get_pc = "call"
  /\ get_pkt' = IF Avail < max_pkt THEN Avail ELSE max_pkt
  /\ pkt_data' = <<>>
  /\ get_pc' = "copy"
  /\ UNCHANGED <<ghst_end, rxpkt>>
  /\ UNCHANGED prodVars

\* A packet that states a larger size than it has comes with bytes that are
\* not its own.
Fetched(p) == IF p \in Oversized THEN Junk ELSE p

\* Mutant of ReadRX: reads start one slot too late.
ReadRXNext ==
  /\ get_pc = "copy"
  /\ Len(pkt_data) < get_pkt
  /\ pkt_data' = Append(pkt_data,
                        Fetched(buffRX[Ahead(ghst_end, Len(pkt_data) + 1)]))
  /\ UNCHANGED <<ghst_end, get_pc, get_pkt, rxpkt>>
  /\ UNCHANGED prodVars

ReadRX ==
  /\ get_pc = "copy"
  /\ Len(pkt_data) < get_pkt
  /\ pkt_data' = Append(pkt_data,
                        Fetched(buffRX[Ahead(ghst_end, Len(pkt_data))]))
  /\ UNCHANGED <<ghst_end, get_pc, get_pkt, rxpkt>>
  /\ UNCHANGED prodVars

\* The memcpy of readRX writes behind the payload, over the other packets
\* of thread_up and whatever comes next.  What the program does from there
\* on is not described.
Overrun ==
  /\ get_pc = "copy"
  /\ Len(pkt_data) < get_pkt
  /\ buffRX[Ahead(ghst_end, Len(pkt_data))] \in Oversized
  /\ get_pc' = "undefined"
  /\ UNCHANGED <<ghst_end, get_pkt, pkt_data, rxpkt>>
  /\ UNCHANGED prodVars

\* Mutant of Shift: the slots read are not released.
ShiftKeep ==
  /\ get_pc = "copy"
  /\ Len(pkt_data) = get_pkt
  /\ rxpkt' = pkt_data
  /\ get_pc' = "call"
  /\ UNCHANGED <<ghst_end, get_pkt, pkt_data>>
  /\ UNCHANGED prodVars

Shift ==
  /\ get_pc = "copy"
  /\ Len(pkt_data) = get_pkt
  /\ ghst_end' = Ahead(ghst_end, get_pkt)
  /\ rxpkt' = pkt_data
  /\ get_pc' = "call"
  /\ UNCHANGED <<get_pkt, pkt_data>>
  /\ UNCHANGED prodVars

ThreadGhost ==
  \/ \E d \in Datagrams : RecvDatagram(d)
  \/ TestFull
  \/ CopyBegin
  \/ CopyEnd
  \/ Publish

GhostGet ==
  \/ \E max_pkt \in Rooms : CountAvail(max_pkt)
  \/ ReadRX \/ Overrun
  \/ Shift

Defined == get_pc # "undefined"

Next == Defined /\ (ThreadGhost \/ GhostGet)

Spec == Init /\ [][Next]_vars

\* Some call of ghost_get leaves room for a ghost packet again and again:
\* thread_up calls it every round, and the concentrator does not fill all of
\* rxpkt[NB_PKT_MAX] on every round.
Fairness ==
  /\ SF_vars(\E max_pkt \in Rooms \ {0} : CountAvail(max_pkt))
  /\ WF_vars(ReadRX)
  /\ WF_vars(Shift)

FairSpec == Spec /\ Fairness
-----------------------------------------------------------------------------
TypeOK ==
  /\ ghst_bgn \in Slots
  /\ ghst_end \in Slots
  /\ buffRX \in [Slots -> Packets \cup {Junk}]
  /\ rx_pc \in {"recv", "test", "copy", "copying", "publish"}
  /\ buff_down \in Datagrams
  /\ next \in Slots
  /\ get_pc \in {"call", "copy", "undefined"}
  /\ get_pkt \in 0 .. (GHST_NM_RCV - 1)
  /\ pkt_data \in Seq(Packets \cup {Junk})
  /\ rxpkt \in Seq(Packets \cup {Junk})

\* The slots thread_ghost may be writing to: its own and, for the longest
\* packets, the byte after it.
Writing == IF rx_pc \in {"copy", "copying", "publish"}
           THEN ({ghst_bgn} \cup Spill) \cap Slots ELSE {}

\* The packets ghost_get still has to read, by their slots.
ToRead == IF get_pc = "copy"
          THEN {Ahead(ghst_end, k) : k \in Len(pkt_data) .. (get_pkt - 1)}
          ELSE {}

\* The slots the memcpy of readRX may run through: that of the packet and,
\* for an oversized one, those behind it.
Extent(s) == IF buffRX[s] \in Oversized THEN s .. (GHST_NM_RCV - 1) ELSE {s}

Reading == UNION {Extent(s) : s \in ToRead}

\* Memcpy and readRX never touch the same slot, although neither holds
\* cb_ghost: the full test made earlier still protects the reader when the
\* copy happens, however the two threads interleave.  This is true of
\* packets that state the size they have; an oversized one makes readRX run
\* on into slots that thread_ghost may be writing.
NoSharedSlot ==
  (\A s \in ToRead : buffRX[s] \notin Oversized) => Writing \cap Reading = {}

\* Every unread slot holds a whole packet: the index is published only after
\* the copy, and the surplus byte of a longest packet lands in a free slot.
UnreadIntact == \A s \in Unread : buffRX[s] \in Packets

\* The unread packets, oldest first.
Queue == [k \in 1 .. Avail |-> buffRX[Ahead(ghst_end, k - 1)]]

\* Ghost packets reach thread_up in order, each once and, if they have the
\* size they state, whole: the ring implements the bounded queue, one slot
\* being sacrificed to tell a full buffer from an empty one.  An oversized
\* packet spoils no packet but itself, unless it is so large that readRX
\* writes behind its payload; nothing else ends what is promised.
Fifo == INSTANCE GhostFifo WITH
  Capacity <- GHST_NM_RCV - 1, queue <- Queue, batch <- rxpkt,
  defined <- Defined

RefinesFifo == Fifo!Spec

\* No packet stays in the buffer for ever: an occupied slot is released.
EveryPacketFetched ==
  \A s \in Slots : s \in Unread ~> s \notin Unread \/ ~Defined
=============================================================================
