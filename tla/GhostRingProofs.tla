--------------------------- MODULE GhostRingProofs ---------------------------
(***************************************************************************)
(* Proofs about GhostRing for every buffer size, packet set and batch      *)
(* size.  The modular index arithmetic of ghost.c is eliminated once, in   *)
(* AheadValue and AvailValue; every other step is linear.                  *)
(***************************************************************************)
EXTENDS GhostRing, SequenceTheorems, TLAPS

\* thread_ghost has passed the full test and not yet published.
Filling == rx_pc \in {"copy", "copying", "publish"}

\* The local next of thread_ghost is up to date, and the room it found free
\* is still free: the consumer only ever frees more.
ProducerInv ==
  /\ rx_pc # "recv" => next = Ahead(ghst_bgn, 1)
  /\ Filling => Avail < GHST_NM_RCV - 1
  /\ rx_pc = "publish" => buffRX[ghst_bgn] = buff_down.pkt

\* What ghost_get counted is still there, and what it copied is what the
\* oldest slots hold, as far as it can be fetched.
ConsumerInv ==
  get_pc = "copy" =>
    /\ Len(pkt_data) <= get_pkt
    /\ get_pkt <= Avail
    /\ \A k \in 1 .. Len(pkt_data) :
         pkt_data[k] = Fetched(buffRX[Ahead(ghst_end, k - 1)])

IInv == TypeOK /\ ProducerInv /\ ConsumerInv /\ UnreadIntact

-----------------------------------------------------------------------------
\* Index arithmetic without the remainder operator.
LEMMA AheadValue ==
  ASSUME NEW s \in Slots, NEW k \in 0 .. GHST_NM_RCV
  PROVE  /\ Ahead(s, k) \in Slots
         /\ Ahead(s, k) = IF s + k < GHST_NM_RCV THEN s + k
                          ELSE s + k - GHST_NM_RCV
  BY GhostAssumption, SMT DEF Ahead, Slots

\* The distance from slot e to slot b.
Distance(b, e) == IF b >= e THEN b - e ELSE b - e + GHST_NM_RCV

LEMMA DistanceValue ==
  ASSUME NEW b \in Slots, NEW e \in Slots
  PROVE  /\ (b - e + GHST_NM_RCV) % GHST_NM_RCV = Distance(b, e)
         /\ Distance(b, e) \in 0 .. (GHST_NM_RCV - 1)
  BY GhostAssumption, SMT DEF Slots, Distance

LEMMA AvailValue ==
  TypeOK => /\ Avail = Distance(ghst_bgn, ghst_end)
            /\ Avail \in 0 .. (GHST_NM_RCV - 1)
  BY DistanceValue DEF TypeOK, Avail

LEMMA AvailValuePrime ==
  TypeOK' => /\ Avail' = Distance(ghst_bgn', ghst_end')
             /\ Avail' \in 0 .. (GHST_NM_RCV - 1)
  BY DistanceValue DEF TypeOK, Avail

\* The initial state satisfies the inductive invariant.
LEMMA InitIInv == Init => IInv
  <1> SUFFICES ASSUME Init PROVE IInv
    OBVIOUS
  <1>1. TypeOK
    BY GhostAssumption DEF Init, TypeOK, Slots
  <1>2. Avail = 0
    BY <1>1, AvailValue DEF Init, TypeOK
  <1>3. ProducerInv /\ ConsumerInv
    BY DEF Init, ProducerInv, ConsumerInv, Filling
  <1>4. UnreadIntact
    BY <1>2 DEF UnreadIntact, Unread
  <1> QED
    BY <1>1, <1>3, <1>4 DEF IInv

\* Releasing the n oldest slots shortens the distance by n and renumbers the
\* slots that remain.
LEMMA ReleaseValue ==
  ASSUME NEW b \in Slots, NEW e \in Slots, NEW n \in 0 .. Distance(b, e)
  PROVE  /\ Distance(b, Ahead(e, n)) = Distance(b, e) - n
         /\ \A k \in 0 .. (Distance(b, e) - n - 1) :
              Ahead(Ahead(e, n), k) = Ahead(e, n + k)
  <1>1. Distance(b, e) \in 0 .. (GHST_NM_RCV - 1)
    BY DistanceValue
  <1>2. /\ Ahead(e, n) \in Slots
        /\ Ahead(e, n) = IF e + n < GHST_NM_RCV THEN e + n
                         ELSE e + n - GHST_NM_RCV
    BY <1>1, AheadValue, GhostAssumption
  <1>3. Distance(b, Ahead(e, n)) = Distance(b, e) - n
    BY <1>1, <1>2, GhostAssumption DEF Distance, Slots
  <1>4. ASSUME NEW k \in 0 .. (Distance(b, e) - n - 1)
        PROVE  Ahead(Ahead(e, n), k) = Ahead(e, n + k)
    <2>1. k \in 0 .. GHST_NM_RCV /\ n + k \in 0 .. GHST_NM_RCV
      BY <1>1, GhostAssumption
    <2>2. Ahead(Ahead(e, n), k) = IF Ahead(e, n) + k < GHST_NM_RCV
                                  THEN Ahead(e, n) + k
                                  ELSE Ahead(e, n) + k - GHST_NM_RCV
      BY <1>2, <2>1, AheadValue
    <2>3. Ahead(e, n + k) = IF e + (n + k) < GHST_NM_RCV
                            THEN e + (n + k)
                            ELSE e + (n + k) - GHST_NM_RCV
      BY <2>1, AheadValue
    <2> QED
      BY <1>1, <1>2, <2>1, <2>2, <2>3, GhostAssumption DEF Distance, Slots
  <1> QED
    BY <1>3, <1>4

\* Counting from ghst_end, the first slot past the unread ones is ghst_bgn.
LEMMA UnreadSlots ==
  TypeOK =>
    /\ Ahead(ghst_end, Avail) = ghst_bgn
    /\ \A k \in 0 .. (Avail - 1) :
         /\ Ahead(ghst_end, k) \in Slots
         /\ Ahead(ghst_end, k) # ghst_bgn
         /\ Avail < GHST_NM_RCV - 1 => Ahead(ghst_end, k) # ghst_bgn + 1
  <1> SUFFICES ASSUME TypeOK
               PROVE  /\ Ahead(ghst_end, Avail) = ghst_bgn
                      /\ \A k \in 0 .. (Avail - 1) :
                           /\ Ahead(ghst_end, k) \in Slots
                           /\ Ahead(ghst_end, k) # ghst_bgn
                           /\ Avail < GHST_NM_RCV - 1
                                => Ahead(ghst_end, k) # ghst_bgn + 1
    OBVIOUS
  <1>1. ghst_bgn \in Slots /\ ghst_end \in Slots
    BY DEF TypeOK
  <1>2. /\ Avail = Distance(ghst_bgn, ghst_end)
        /\ Avail \in 0 .. (GHST_NM_RCV - 1)
    BY AvailValue
  <1>3. Ahead(ghst_end, Avail) = ghst_bgn
    <2>1. /\ Avail \in 0 .. GHST_NM_RCV
          /\ Ahead(ghst_end, Avail) = IF ghst_end + Avail < GHST_NM_RCV
                                      THEN ghst_end + Avail
                                      ELSE ghst_end + Avail - GHST_NM_RCV
      BY <1>1, <1>2, AheadValue, GhostAssumption
    <2> QED
      BY <1>1, <1>2, <2>1, GhostAssumption DEF Distance, Slots
  <1>4. ASSUME NEW k \in 0 .. (Avail - 1)
        PROVE  /\ Ahead(ghst_end, k) \in Slots
               /\ Ahead(ghst_end, k) # ghst_bgn
               /\ Avail < GHST_NM_RCV - 1
                    => Ahead(ghst_end, k) # ghst_bgn + 1
    <2>1. k \in 0 .. GHST_NM_RCV
      BY <1>2, GhostAssumption
    <2>2. /\ Ahead(ghst_end, k) \in Slots
          /\ Ahead(ghst_end, k) = IF ghst_end + k < GHST_NM_RCV
                                  THEN ghst_end + k
                                  ELSE ghst_end + k - GHST_NM_RCV
      BY <1>1, <2>1, AheadValue
    <2> QED
      BY <1>1, <1>2, <2>2, GhostAssumption DEF Distance, Slots
  <1> QED
    BY <1>3, <1>4

\* The type invariant is inductive on its own.
LEMMA StepTypeOK == TypeOK /\ [Next]_vars => TypeOK'
  <1> SUFFICES ASSUME TypeOK, [Next]_vars PROVE TypeOK'
    OBVIOUS
  <1>1. Avail \in 0 .. (GHST_NM_RCV - 1)
    BY AvailValue
  <1>2. ASSUME NEW d \in Datagrams, RecvDatagram(d) PROVE TypeOK'
    <2>1. Ahead(ghst_bgn, 1) \in Slots
      BY AheadValue, GhostAssumption DEF TypeOK
    <2> QED
      BY <1>2, <2>1 DEF RecvDatagram, consVars, TypeOK
  <1>3. CASE TestFull
    BY <1>3 DEF TestFull, consVars, TypeOK
  <1>4. CASE CopyBegin
    BY <1>4 DEF CopyBegin, consVars, TypeOK
  <1>5. CASE CopyEnd
    <2>1. buff_down.pkt \in Packets
      BY DEF TypeOK, Datagrams
    <2> QED
      BY <1>5, <2>1 DEF CopyEnd, consVars, TypeOK
  <1>6. CASE Publish
    BY <1>6 DEF Publish, consVars, TypeOK
  <1>7. ASSUME NEW max_pkt \in Rooms, CountAvail(max_pkt) PROVE TypeOK'
    <2>1. get_pkt' \in 0 .. (GHST_NM_RCV - 1)
      BY <1>1, <1>7, GhostAssumption DEF CountAvail, Rooms
    <2> QED
      BY <1>7, <2>1 DEF CountAvail, prodVars, TypeOK
  <1>8. CASE ReadRX
    <2>1. Ahead(ghst_end, Len(pkt_data)) \in Slots
      <3>1. Len(pkt_data) \in 0 .. GHST_NM_RCV
        BY <1>8, GhostAssumption DEF ReadRX, TypeOK
      <3> QED
        BY <3>1, AheadValue DEF TypeOK
    <2> QED
      BY <1>8, <2>1 DEF ReadRX, Fetched, prodVars, TypeOK
  <1>9. CASE Shift
    <2>1. Ahead(ghst_end, get_pkt) \in Slots
      BY AheadValue, GhostAssumption DEF TypeOK
    <2> QED
      BY <1>9, <2>1 DEF Shift, prodVars, TypeOK
  <1>10. CASE UNCHANGED vars
    BY <1>10 DEF vars, TypeOK
  <1>11. CASE Overrun
    BY <1>11 DEF Overrun, prodVars, TypeOK
  <1> QED
    BY <1>2, <1>3, <1>4, <1>5, <1>6, <1>7, <1>8, <1>9, <1>10, <1>11
    DEF Next, ThreadGhost, GhostGet

\* Every variable of ghost.c's buffer keeps its type, indices included.
THEOREM SpecTypeOK == Spec => []TypeOK
  <1>1. Init => TypeOK
    BY InitIInv DEF IInv
  <1> QED
    BY <1>1, StepTypeOK, PTL DEF Spec

-----------------------------------------------------------------------------
\* Publishing adds one to what ghost_get counts.
LEMMA PublishCount ==
  ASSUME IInv, Publish, TypeOK'
  PROVE  Avail' = Avail + 1
  <1>0. /\ Avail \in 0 .. (GHST_NM_RCV - 1)
        /\ ghst_bgn \in Slots /\ ghst_end \in Slots
    BY AvailValue DEF IInv, TypeOK
  <1>1. Ahead(ghst_bgn, 1) = IF ghst_bgn + 1 < GHST_NM_RCV
                             THEN ghst_bgn + 1
                             ELSE ghst_bgn + 1 - GHST_NM_RCV
    BY <1>0, AheadValue, GhostAssumption
  <1>2. ghst_bgn' = Ahead(ghst_bgn, 1) /\ ghst_end' = ghst_end
    BY DEF Publish, IInv, ProducerInv, consVars
  <1>3. Avail < GHST_NM_RCV - 1
    BY DEF Publish, IInv, ProducerInv, Filling
  <1>4. /\ Avail = Distance(ghst_bgn, ghst_end)
        /\ Avail' = Distance(ghst_bgn', ghst_end')
    BY AvailValue, AvailValuePrime DEF IInv
  <1> QED
    BY <1>0, <1>1, <1>2, <1>3, <1>4, GhostAssumption DEF Distance, Slots

\* Shifting takes away get_pkt packets and renumbers the others.
LEMMA ShiftCount ==
  ASSUME IInv, Shift, TypeOK', get_pkt \in 0 .. Avail
  PROVE  /\ Avail' = Avail - get_pkt
         /\ \A k \in 0 .. (Avail - get_pkt - 1) :
              Ahead(ghst_end', k) = Ahead(ghst_end, get_pkt + k)
  <1>1. ghst_end' = Ahead(ghst_end, get_pkt) /\ ghst_bgn' = ghst_bgn
    BY DEF Shift, prodVars
  <1>2. /\ Avail = Distance(ghst_bgn, ghst_end)
        /\ Avail' = Distance(ghst_bgn', ghst_end')
        /\ ghst_bgn \in Slots /\ ghst_end \in Slots
    BY AvailValue, AvailValuePrime DEF IInv, TypeOK
  <1> QED
    BY <1>1, <1>2, ReleaseValue

\* The producer half of a step: thread_ghost moves.
LEMMA ProducerStep ==
  ASSUME IInv, ThreadGhost, TypeOK'
  PROVE  IInv'
  <1> USE DEF IInv, consVars
  <1>0. /\ Avail \in 0 .. (GHST_NM_RCV - 1)
        /\ ghst_bgn \in Slots /\ ghst_end \in Slots
    BY AvailValue DEF TypeOK
  <1>1. ASSUME NEW d \in Datagrams, RecvDatagram(d) PROVE IInv'
    <2>1. Avail' = Avail /\ Unread' = Unread
      BY <1>1 DEF RecvDatagram, Avail, Unread, Ahead
    <2> QED
      BY <1>1, <2>1
      DEF RecvDatagram, ProducerInv, ConsumerInv, Filling, UnreadIntact, Ahead
  <1>2. CASE TestFull
    <2>1. Avail' = Avail /\ Unread' = Unread
      BY <1>2 DEF TestFull, Avail, Unread, Ahead
    <2>2. Filling' => Avail < GHST_NM_RCV - 1
      <3>1. SUFFICES ASSUME Filling' PROVE Avail < GHST_NM_RCV - 1
        OBVIOUS
      <3>2. Ahead(ghst_bgn, 1) # ghst_end
        BY <1>2, <3>1 DEF TestFull, Full, Filling, ProducerInv
      <3>3. Ahead(ghst_bgn, 1) = IF ghst_bgn + 1 < GHST_NM_RCV
                                 THEN ghst_bgn + 1
                                 ELSE ghst_bgn + 1 - GHST_NM_RCV
        BY <1>0, AheadValue, GhostAssumption
      <3>4. Avail = Distance(ghst_bgn, ghst_end)
        BY AvailValue
      <3> QED
        BY <1>0, <3>2, <3>3, <3>4, GhostAssumption DEF Distance, Slots
    <2> QED
      BY <1>2, <2>1, <2>2
      DEF TestFull, ProducerInv, ConsumerInv, Filling, UnreadIntact, Ahead
  <1>3. CASE CopyBegin
    <2>1. Avail' = Avail /\ Unread' = Unread
      BY <1>3 DEF CopyBegin, Avail, Unread, Ahead
    <2>2. \A k \in 0 .. (Avail - 1) :
            buffRX'[Ahead(ghst_end, k)] = buffRX[Ahead(ghst_end, k)]
      BY <1>3, UnreadSlots DEF CopyBegin, TypeOK
    <2>3. UnreadIntact'
      BY <2>1, <2>2 DEF UnreadIntact, Unread
    <2>4. ConsumerInv'
      BY <1>0, <1>3, <2>1, <2>2 DEF CopyBegin, ConsumerInv, Ahead, TypeOK
    <2>5. ProducerInv'
      BY <1>3, <2>1 DEF CopyBegin, ProducerInv, Filling, Ahead
    <2> QED
      BY <2>3, <2>4, <2>5
  <1>4. CASE CopyEnd
    <2>1. Avail' = Avail /\ Unread' = Unread
      BY <1>4 DEF CopyEnd, Avail, Unread, Ahead
    <2>2. \A k \in 0 .. (Avail - 1) :
            buffRX'[Ahead(ghst_end, k)] = buffRX[Ahead(ghst_end, k)]
      <3>1. Avail < GHST_NM_RCV - 1
        BY <1>4 DEF CopyEnd, ProducerInv, Filling
      <3> QED
        BY <1>4, <3>1, UnreadSlots DEF CopyEnd, Spill
    <2>3. UnreadIntact'
      BY <2>1, <2>2 DEF UnreadIntact, Unread
    <2>4. ConsumerInv'
      <3>1. UNCHANGED <<ghst_end, get_pc, get_pkt, pkt_data>>
        BY <1>4 DEF CopyEnd
      <3>2. ASSUME get_pc = "copy", NEW k \in 1 .. Len(pkt_data)
            PROVE  pkt_data[k] = Fetched(buffRX'[Ahead(ghst_end, k - 1)])
        <4>1. k - 1 \in 0 .. (Avail - 1)
          BY <1>0, <3>2 DEF ConsumerInv, TypeOK
        <4> QED
          BY <2>2, <3>2, <4>1 DEF ConsumerInv
      <3> QED
        BY <2>1, <3>1, <3>2 DEF ConsumerInv, Ahead
    <2>5. ProducerInv'
      BY <1>0, <1>4, <2>1 DEF CopyEnd, ProducerInv, Filling, Ahead
    <2> QED
      BY <2>3, <2>4, <2>5
  <1>5. CASE Publish
    <2>1. Avail' = Avail + 1
      BY <1>5, PublishCount
    <2>2. UnreadIntact'
      <3>1. \A k \in 0 .. (Avail - 1) :
              buffRX[Ahead(ghst_end, k)] \in Packets
        BY DEF UnreadIntact, Unread
      <3>2. buffRX[Ahead(ghst_end, Avail)] \in Packets
        BY <1>5, UnreadSlots DEF Publish, ProducerInv, TypeOK, Datagrams
      <3>3. \A k \in 0 .. Avail : buffRX[Ahead(ghst_end, k)] \in Packets
        BY <1>0, <3>1, <3>2
      <3> QED
        BY <1>0, <1>5, <2>1, <3>3 DEF UnreadIntact, Unread, Publish, Ahead
    <2>3. ConsumerInv'
      BY <1>0, <1>5, <2>1 DEF Publish, ConsumerInv, Ahead, TypeOK
    <2>4. ProducerInv'
      BY <1>5 DEF Publish, ProducerInv, Filling
    <2> QED
      BY <2>2, <2>3, <2>4
  <1> QED
    BY <1>1, <1>2, <1>3, <1>4, <1>5 DEF ThreadGhost

\* The consumer half: ghost_get moves.
LEMMA ConsumerStep ==
  ASSUME IInv, GhostGet, TypeOK'
  PROVE  IInv'
  <1> USE DEF IInv, prodVars
  <1>0. /\ Avail \in 0 .. (GHST_NM_RCV - 1)
        /\ ghst_bgn \in Slots /\ ghst_end \in Slots
    BY AvailValue DEF TypeOK
  <1>1. ASSUME NEW max_pkt \in Rooms, CountAvail(max_pkt) PROVE IInv'
    <2>1. Avail' = Avail /\ Unread' = Unread
      BY <1>1 DEF CountAvail, Avail, Unread, Ahead
    <2>2. get_pkt' \in 0 .. Avail /\ pkt_data' = <<>>
      BY <1>0, <1>1, GhostAssumption DEF CountAvail, Rooms
    <2>3. ConsumerInv'
      BY <2>1, <2>2 DEF ConsumerInv
    <2> QED
      BY <1>1, <2>1, <2>3
      DEF CountAvail, ProducerInv, Filling, UnreadIntact, Ahead
  <1>2. CASE ReadRX
    <2>1. Avail' = Avail /\ Unread' = Unread
      BY <1>2 DEF ReadRX, Avail, Unread, Ahead
    <2>2. ConsumerInv'
      <3>1. pkt_data' = Append(pkt_data,
                               Fetched(buffRX[Ahead(ghst_end, Len(pkt_data))]))
        BY <1>2 DEF ReadRX
      <3>2. Len(pkt_data') = Len(pkt_data) + 1 /\ Len(pkt_data) \in Nat
        BY <3>1 DEF TypeOK
      <3>3. ASSUME NEW k \in 1 .. Len(pkt_data')
            PROVE  pkt_data'[k] = Fetched(buffRX[Ahead(ghst_end, k - 1)])
        <4>1. CASE k = Len(pkt_data) + 1
          BY <3>1, <3>2, <4>1 DEF TypeOK
        <4>2. CASE k \in 1 .. Len(pkt_data)
          BY <1>2, <3>1, <4>2 DEF TypeOK, ReadRX, ConsumerInv
        <4> QED
          BY <3>2, <4>1, <4>2
      <3> QED
        BY <1>2, <2>1, <3>2, <3>3 DEF ReadRX, ConsumerInv, Ahead, TypeOK
    <2> QED
      BY <1>2, <2>1, <2>2
      DEF ReadRX, ProducerInv, Filling, UnreadIntact, Ahead
  <1>3. CASE Shift
    <2>1. get_pkt \in 0 .. Avail
      BY <1>0, <1>3 DEF Shift, ConsumerInv, TypeOK
    <2>2. /\ Avail' = Avail - get_pkt
          /\ \A k \in 0 .. (Avail - get_pkt - 1) :
               Ahead(ghst_end', k) = Ahead(ghst_end, get_pkt + k)
      BY <1>3, <2>1, ShiftCount
    <2>3. UnreadIntact'
      <3>1. \A k \in 0 .. (Avail - 1) :
              buffRX[Ahead(ghst_end, k)] \in Packets
        BY DEF UnreadIntact, Unread
      <3> QED
        BY <1>0, <1>3, <2>1, <2>2, <3>1 DEF UnreadIntact, Unread, Shift
    <2>4. ProducerInv'
      BY <1>0, <1>3, <2>1, <2>2, GhostAssumption
      DEF Shift, ProducerInv, Filling, Ahead
    <2> QED
      BY <1>3, <2>3, <2>4 DEF Shift, ConsumerInv
  <1>4. CASE Overrun
    <2>1. Avail' = Avail /\ Unread' = Unread
      BY <1>4 DEF Overrun, Avail, Unread, Ahead
    <2> QED
      BY <1>4, <2>1
      DEF Overrun, ProducerInv, ConsumerInv, Filling, UnreadIntact, Ahead
  <1> QED
    BY <1>1, <1>2, <1>3, <1>4 DEF GhostGet

\* The inductive invariant holds in every reachable state.
LEMMA SpecIInv == Spec => []IInv
  <1>1. IInv /\ [Next]_vars => IInv'
    <2> SUFFICES ASSUME IInv, [Next]_vars PROVE IInv'
      OBVIOUS
    <2>1. TypeOK'
      BY StepTypeOK DEF IInv
    <2>2. CASE ThreadGhost
      BY <2>1, <2>2, ProducerStep
    <2>3. CASE GhostGet
      BY <2>1, <2>3, ConsumerStep
    <2>4. CASE UNCHANGED vars
      BY <2>4 DEF vars, IInv, TypeOK, ProducerInv, ConsumerInv, Filling,
                  UnreadIntact, Unread, Avail, Ahead, Fetched
    <2> QED
      BY <2>2, <2>3, <2>4 DEF Next
  <1> QED
    BY InitIInv, <1>1, PTL DEF Spec

\* Every packet ghost_get has yet to release is whole, whatever the buffer
\* size: publishing after the copy is enough, and so is one free slot to
\* absorb the surplus byte of memcpy.
THEOREM SpecUnreadIntact == Spec => []UnreadIntact
  BY SpecIInv, PTL DEF IInv

\* The unlocked memcpy and the unlocked readRX never meet in a slot while
\* the packets to be read have the size they state.
THEOREM SpecNoSharedSlot == Spec => []NoSharedSlot
  <1>1. IInv => NoSharedSlot
    <2> SUFFICES ASSUME IInv, \A s \in ToRead : buffRX[s] \notin Oversized,
                        NEW s \in Writing, s \in Reading
                 PROVE  FALSE
      BY DEF NoSharedSlot
    <2>0. s \in ToRead
      BY DEF Reading, Extent
    <2>1. Filling /\ Avail < GHST_NM_RCV - 1 /\ get_pc = "copy"
      BY <2>0 DEF Writing, ToRead, IInv, ProducerInv, Filling
    <2>2. PICK k \in Len(pkt_data) .. (get_pkt - 1) : s = Ahead(ghst_end, k)
      BY <2>0, <2>1 DEF ToRead
    <2>3. k \in 0 .. (Avail - 1)
      <3>1. Avail \in Nat
        BY AvailValue DEF IInv
      <3> QED
        BY <2>1, <2>2, <3>1 DEF IInv, ConsumerInv, TypeOK
    <2>4. s = ghst_bgn \/ s = ghst_bgn + 1
      BY DEF Writing, Spill
    <2> QED
      BY <2>1, <2>2, <2>3, <2>4, UnreadSlots DEF IInv
  <1> QED
    BY <1>1, SpecIInv, PTL

-----------------------------------------------------------------------------
LEMMA FunctionIsSeq ==
  ASSUME NEW S, NEW n \in Nat, NEW f \in [1 .. n -> S]
  PROVE  f \in Seq(S) /\ Len(f) = n
  BY SeqDef

\* The mapped queue is a sequence of whole packets, of the length ghost_get
\* counts.
LEMMA QueueIsSeq ==
  IInv => Queue \in Seq(Packets) /\ Len(Queue) = Avail
  <1> SUFFICES ASSUME IInv
               PROVE  Queue \in Seq(Packets) /\ Len(Queue) = Avail
    OBVIOUS
  <1>1. Avail \in Nat
    BY AvailValue DEF IInv
  <1>2. Queue \in [1 .. Avail -> Packets]
    BY <1>1 DEF IInv, UnreadIntact, Unread, Queue
  <1> QED
    BY <1>1, <1>2, FunctionIsSeq

LEMMA QueueIsSeqPrime ==
  (IInv => Queue \in Seq(Packets) /\ Len(Queue) = Avail)'
  BY QueueIsSeq, PTL

\* Storing a packet: Publish makes the filled slot the end of the queue.
LEMMA PublishIsStore ==
  ASSUME IInv, IInv', Publish, Defined
  PROVE  Fifo!Store(buff_down.pkt)
  <1>1. /\ Avail \in 0 .. (GHST_NM_RCV - 1)
        /\ Avail' \in 0 .. (GHST_NM_RCV - 1)
        /\ ghst_bgn \in Slots /\ ghst_end \in Slots
    BY AvailValue, AvailValuePrime DEF IInv, TypeOK
  <1>2. Avail < GHST_NM_RCV - 1
    BY DEF Publish, IInv, ProducerInv, Filling
  <1>3. Avail' = Avail + 1
    BY PublishCount DEF IInv
  <1>4. Queue' = Append(Queue, buff_down.pkt)
    <2>1. buff_down.pkt \in Packets
      BY DEF IInv, TypeOK, Datagrams
    <2>2. /\ Append(Queue, buff_down.pkt) \in Seq(Packets)
          /\ Len(Append(Queue, buff_down.pkt)) = Avail + 1
      BY <2>1, QueueIsSeq
    <2>3. Queue' \in Seq(Packets) /\ Len(Queue') = Avail + 1
      BY <1>3, QueueIsSeqPrime
    <2>4. ASSUME NEW k \in 1 .. (Avail + 1)
          PROVE  Queue'[k] = Append(Queue, buff_down.pkt)[k]
      <3>1. Queue'[k] = buffRX[Ahead(ghst_end, k - 1)]
        BY <1>3 DEF Queue, Publish, consVars, Ahead
      <3>2. CASE k = Avail + 1
        <4>1. Ahead(ghst_end, k - 1) = ghst_bgn
          BY <1>1, <3>2, UnreadSlots DEF IInv
        <4>2. Append(Queue, buff_down.pkt)[k] = buff_down.pkt
          BY <2>1, <3>2, QueueIsSeq
        <4> QED
          BY <3>1, <4>1, <4>2 DEF Publish, IInv, ProducerInv
      <3>3. CASE k \in 1 .. Avail
        <4>1. Append(Queue, buff_down.pkt)[k] = Queue[k]
          BY <2>1, <3>3, QueueIsSeq
        <4> QED
          BY <3>1, <3>3, <4>1 DEF Queue
      <3> QED
        <4>1. k = Avail + 1 \/ k \in 1 .. Avail
          BY <1>1, GhostAssumption
        <4> QED
          BY <3>2, <3>3, <4>1
    <2> QED
      BY <2>2, <2>3, <2>4, SeqEqual
  <1> QED
    BY <1>1, <1>2, <1>4, QueueIsSeq DEF Fifo!Store, Publish, consVars, Defined

\* Fetching: Shift removes exactly the packets that were copied.
LEMMA ShiftIsFetch ==
  ASSUME IInv, IInv', Shift
  PROVE  Fifo!Fetch(get_pkt)
  <1>1. /\ Avail \in 0 .. (GHST_NM_RCV - 1)
        /\ Avail' \in 0 .. (GHST_NM_RCV - 1)
        /\ ghst_bgn \in Slots /\ ghst_end \in Slots
    BY AvailValue, AvailValuePrime DEF IInv, TypeOK
  <1>2. get_pkt \in 0 .. Avail /\ Len(pkt_data) = get_pkt
    BY <1>1 DEF Shift, IInv, ConsumerInv, TypeOK
  <1>3. /\ Avail' = Avail - get_pkt
        /\ \A k \in 0 .. (Avail - get_pkt - 1) :
             Ahead(ghst_end', k) = Ahead(ghst_end, get_pkt + k)
    BY <1>2, ShiftCount DEF IInv
  <1>4. rxpkt' = [k \in 1 .. get_pkt |-> Fifo!Fetched(Queue[k])]
    <2> DEFINE batch == [k \in 1 .. get_pkt |-> Fifo!Fetched(Queue[k])]
    <2>1. pkt_data \in Seq(Packets \cup {Junk})
      BY DEF IInv, TypeOK
    <2>2. \A k \in 1 .. get_pkt : Fifo!Fetched(Queue[k]) \in Packets \cup {Junk}
      BY <1>1, <1>2, QueueIsSeq DEF Fifo!Fetched
    <2>3. batch \in Seq(Packets \cup {Junk}) /\ Len(batch) = get_pkt
      <3>1. batch \in [1 .. get_pkt -> Packets \cup {Junk}] /\ get_pkt \in Nat
        BY <1>1, <1>2, <2>2
      <3> QED
        BY <3>1, FunctionIsSeq
    <2>4. \A k \in 1 .. get_pkt : pkt_data[k] = batch[k]
      BY <1>1, <1>2 DEF Shift, IInv, ConsumerInv, Queue, Fetched, Fifo!Fetched
    <2>5. pkt_data = batch
      BY <1>2, <2>1, <2>3, <2>4, SeqEqual
    <2> QED
      BY <2>5 DEF Shift
  <1>5. Queue' = SubSeq(Queue, get_pkt + 1, Len(Queue))
    <2>1. \A k \in (get_pkt + 1) .. Avail : Queue[k] \in Packets
      BY <1>1, <1>2, QueueIsSeq
    <2>2. /\ SubSeq(Queue, get_pkt + 1, Avail) \in Seq(Packets)
          /\ Len(SubSeq(Queue, get_pkt + 1, Avail)) = Avail - get_pkt
          /\ \A k \in 1 .. (Avail - get_pkt) :
               SubSeq(Queue, get_pkt + 1, Avail)[k] = Queue[get_pkt + k]
      BY <1>1, <1>2, <2>1, SubSeqProperties
    <2>3. ASSUME NEW k \in 1 .. (Avail - get_pkt)
          PROVE  Queue'[k] = Queue[get_pkt + k]
      <3>1. Queue'[k] = buffRX[Ahead(ghst_end', k - 1)]
        BY <1>3 DEF Queue, Shift, prodVars, Ahead
      <3>2. Ahead(ghst_end', k - 1) = Ahead(ghst_end, get_pkt + (k - 1))
        BY <1>1, <1>2, <1>3
      <3>3. Queue[get_pkt + k] = buffRX[Ahead(ghst_end, get_pkt + k - 1)]
        BY <1>1, <1>2 DEF Queue
      <3>4. get_pkt + (k - 1) = get_pkt + k - 1
        BY <1>1, <1>2
      <3> QED
        BY <3>1, <3>2, <3>3, <3>4
    <2>4. Queue' \in Seq(Packets) /\ Len(Queue') = Avail - get_pkt
      BY <1>3, QueueIsSeqPrime
    <2> QED
      BY <2>2, <2>3, <2>4, SeqEqual, QueueIsSeq
  <1> QED
    BY <1>1, <1>2, <1>4, <1>5, QueueIsSeq
    DEF Fifo!Fetch, Shift, Defined, prodVars

\* An overrun is one of a packet that is still queued.
LEMMA OverrunIsOverrun ==
  ASSUME IInv, IInv', Overrun, UNCHANGED <<Queue, rxpkt>>
  PROVE  Fifo!Overrun
  <1> DEFINE k == Len(pkt_data) + 1
  <1>1. /\ Avail \in 0 .. (GHST_NM_RCV - 1)
        /\ get_pc = "copy" /\ get_pkt <= Avail /\ Len(pkt_data) < get_pkt
        /\ Len(pkt_data) \in Nat /\ get_pkt \in Nat
    BY AvailValue DEF IInv, ConsumerInv, Overrun, TypeOK
  <1>2. k \in 1 .. Avail /\ k - 1 = Len(pkt_data)
    BY <1>1
  <1>3. Queue[k] \in Oversized
    BY <1>2 DEF Queue, Overrun
  <1>4. Len(Queue) = Avail
    BY QueueIsSeq
  <1> QED
    BY <1>1, <1>2, <1>3, <1>4 DEF Fifo!Overrun, Overrun, Defined

\* Every other step leaves the mapped queue alone.
LEMMA OtherStepsStutter ==
  ASSUME IInv, IInv',
         \/ \E d \in Datagrams : RecvDatagram(d)
         \/ TestFull \/ CopyBegin \/ CopyEnd
         \/ \E max_pkt \in Rooms : CountAvail(max_pkt)
         \/ ReadRX \/ Overrun \/ UNCHANGED vars
  PROVE  UNCHANGED <<Queue, rxpkt>> /\ (Overrun \/ UNCHANGED Defined)
  <1>1. UNCHANGED <<ghst_bgn, ghst_end, rxpkt>>
    BY DEF RecvDatagram, TestFull, CopyBegin, CopyEnd, CountAvail, ReadRX,
           Overrun, prodVars, consVars, vars
  <1>2. Avail' = Avail /\ Avail \in 0 .. (GHST_NM_RCV - 1)
    BY <1>1, AvailValue DEF Avail, IInv
  <1>3. ASSUME NEW k \in 1 .. Avail
        PROVE  buffRX'[Ahead(ghst_end, k - 1)] = buffRX[Ahead(ghst_end, k - 1)]
    <2>1. k - 1 \in 0 .. (Avail - 1)
      BY <1>2
    <2>2. /\ Ahead(ghst_end, k - 1) \in Slots
          /\ Ahead(ghst_end, k - 1) # ghst_bgn
          /\ Avail < GHST_NM_RCV - 1
               => Ahead(ghst_end, k - 1) # ghst_bgn + 1
      BY <2>1, UnreadSlots DEF IInv
    <2>3. CASE CopyBegin
      BY <2>2, <2>3 DEF CopyBegin, IInv, TypeOK
    <2>4. CASE CopyEnd
      BY <2>2, <2>4 DEF CopyEnd, Spill, IInv, ProducerInv, Filling
    <2>5. CASE UNCHANGED buffRX
      BY <2>5
    <2> QED
      BY <2>3, <2>4, <2>5
      DEF RecvDatagram, TestFull, CountAvail, ReadRX, Overrun, prodVars, vars
  <1>4. Queue' = Queue
    BY <1>1, <1>2, <1>3 DEF Queue, Ahead
  <1>5. Overrun \/ UNCHANGED Defined
    BY DEF RecvDatagram, TestFull, CopyBegin, CopyEnd, CountAvail, ReadRX,
           consVars, vars, Defined
  <1> QED
    BY <1>1, <1>4, <1>5

\* The ring buffer of ghost.c implements the bounded first-in first-out
\* queue: no interleaving of the listener and ghost_get loses, repeats,
\* reorders or tears a stored packet that has the size it states, for every
\* number of slots, until readRX writes behind the payload of an oversized one.
THEOREM SpecRefinesFifo == Spec => RefinesFifo
  <1>1. Init => Fifo!Init
    <2> SUFFICES ASSUME Init PROVE Fifo!Init
      OBVIOUS
    <2>1. Len(Queue) = 0 /\ Queue \in Seq(Packets)
      <3>1. Avail = 0
        BY InitIInv, AvailValue, GhostAssumption
        DEF Init, IInv, Distance, Slots, TypeOK
      <3> QED
        BY <3>1, InitIInv, QueueIsSeq
    <2> QED
      BY <2>1, EmptySeq DEF Fifo!Init, Init, Defined
  <1>2. IInv /\ IInv' /\ [Next]_vars => [Fifo!Next]_(Fifo!fifoVars)
    <2> SUFFICES ASSUME IInv, IInv', [Next]_vars
                 PROVE  [Fifo!Next]_(Fifo!fifoVars)
      OBVIOUS
    <2>1. CASE Publish
      <3>1. Defined
        BY <2>1 DEF Next, vars, Publish, IInv, ProducerInv, Defined
      <3> QED
        BY <2>1, <3>1, PublishIsStore DEF Fifo!Next, IInv, TypeOK, Datagrams
    <2>2. CASE Shift
      BY <2>2, ShiftIsFetch DEF Fifo!Next, IInv, TypeOK
    <2>3. CASE ~Publish /\ ~Shift
      <3>1. UNCHANGED <<Queue, rxpkt>> /\ (Overrun \/ UNCHANGED Defined)
        BY <2>3, OtherStepsStutter DEF Next, ThreadGhost, GhostGet
      <3>2. CASE Overrun
        BY <3>1, <3>2, OverrunIsOverrun DEF Fifo!Next
      <3>3. CASE UNCHANGED Defined
        BY <3>1, <3>3 DEF Fifo!fifoVars
      <3> QED
        BY <3>1, <3>2, <3>3
    <2> QED
      BY <2>1, <2>2, <2>3
  <1> QED
    BY <1>1, <1>2, SpecIInv, PTL DEF Spec, RefinesFifo, Fifo!Spec
=============================================================================
