---------------------------- MODULE BeaconProofs ----------------------------
(***************************************************************************)
(* Proofs that the crystal correction is sound and that the seconds in a   *)
(* beacon are bounded, for every number of servers, age limit and length   *)
(* of average.                                                             *)
(***************************************************************************)
EXTENDS Beacon, TLAPS

\* What links the reference, its validation and the beacon being prepared.
TimeInv ==
  /\ reference <= now /\ checked <= now /\ now - checked <= 2
  /\ gps_ref_valid => checked - reference <= GPS_REF_MAX_AGE
  /\ \A s \in Servers : pc[s] \in {"tune", "send"} =>
       now + 1 - field_time[s] \in 0..(GPS_REF_MAX_AGE + 2)
  /\ tx # None => now + 1 - tx.latitude \in 0..(GPS_REF_MAX_AGE + 2)

\* The samples counted, the samples summed and the correction agree.
SampleInv ==
  /\ since = init_cpt
  /\ init_cpt <= XERR_INIT_AVG =>
       init_acc = init_cpt /\ ~xtal_correct_ok /\ xtal_correct = 0
  /\ init_cpt > XERR_INIT_AVG =>
       xtal_correct_ok /\ xtal_correct = XERR_INIT_AVG

IInv == TypeOK /\ TimeInv /\ BeaconSecondsBounded /\ SampleInv /\ AverageSound

\* A later reference is not older.
LEMMA LaterIsYounger ==
  ASSUME NEW a \in Int, NEW b \in Int, NEW c \in Int, NEW m \in Int,
         a - b <= m, c >= b
  PROVE  a - c <= m
  OBVIOUS

LEMMA InitIInv == Init => IInv
<1> SUFFICES ASSUME Init PROVE IInv
  OBVIOUS
<1> USE BeaconAssumption DEF Init
<1>1. TypeOK
  <2>1. /\ rmc \in BOOLEAN /\ beacon_next_pps \in BOOLEAN
        /\ gps_ref_valid \in BOOLEAN /\ xtal_correct_ok \in BOOLEAN
    OBVIOUS
  <2>2. /\ now \in Nat /\ reference \in Int /\ checked \in Nat
        /\ unserved \in Int /\ init_cpt \in 0..XERR_INIT_AVG + 1
        /\ init_acc \in Nat /\ since \in 0..XERR_INIT_AVG + 1
        /\ xtal_correct \in Nat
    BY DEF Expired
  <2>3. /\ pc \in [Servers -> {"recv", "take", "tune", "send", "poll"}]
        /\ field_time \in [Servers -> Int] /\ freq_hz \in [Servers -> Nat]
    OBVIOUS
  <2> QED
    BY <2>1, <2>2, <2>3 DEF TypeOK
<1>2. TimeInv /\ BeaconSecondsBounded
  BY DEF TimeInv, BeaconSecondsBounded, Expired
<1>3. SampleInv /\ AverageSound
  BY DEF SampleInv, AverageSound
<1> QED
  BY <1>1, <1>2, <1>3 DEF IInv

LEMMA NextTypeOK == TypeOK /\ SampleInv /\ [Next]_vars => TypeOK'
<1> SUFFICES ASSUME TypeOK, SampleInv, [Next]_vars PROVE TypeOK'
  OBVIOUS
<1> USE BeaconAssumption
<1>1. CASE LoseFrame
  BY <1>1 DEF LoseFrame, TypeOK, sharedVars, validVars, downVars, radioVars
<1>2. CASE Frame
  <2>1. beacon_next_pps' \in BOOLEAN
    BY <1>2 DEF Frame
  <2>2. unserved' \in Int
    BY <1>2 DEF Frame, TypeOK
  <2> QED
    BY <1>2, <2>1, <2>2 DEF Frame, TypeOK, validVars, downVars, radioVars
<1>3. CASE Sync
  BY <1>3 DEF Sync, TypeOK, validVars, downVars, radioVars
<1>4. CASE Validate
  <2>1. gps_ref_valid' \in BOOLEAN
    BY <1>4 DEF Validate, Recent
  <2> QED
    BY <1>4, <2>1 DEF Validate, TypeOK, gpsVars, downVars, radioVars
<1>5. CASE Correct
  <2>1. CASE ~gps_ref_valid /\ Drop
    <3>1. xtal_correct_ok' \in BOOLEAN
      BY <2>1 DEF Drop
    <3> QED
      BY <1>5, <2>1, <3>1
      DEF Correct, Drop, TypeOK, gpsVars, downVars, radioVars
  <2>2. CASE since' = Capped(since) /\ (Accumulate \/ Average \/ Track)
    <3>1. since' \in 0..XERR_INIT_AVG + 1
      BY <2>2 DEF Capped, TypeOK
    <3>2. /\ init_cpt' \in 0..XERR_INIT_AVG + 1 /\ init_acc' \in Nat
          /\ xtal_correct' \in Nat
      BY <2>2 DEF Accumulate, Average, Track, TypeOK
    <3>3. xtal_correct_ok' \in BOOLEAN
      BY <2>2, Zenon DEF Accumulate, Average, Track, TypeOK
    <3> QED
      BY <1>5, <3>1, <3>2, <3>3
      DEF Correct, TypeOK, gpsVars, downVars, radioVars
  <2> QED
    BY <1>5, <2>1, <2>2 DEF Correct
<1>6. CASE Pulse
  <2>1. air' \in Sent \cup {None}
    <3>1. CASE tx = None
      BY <1>6, <3>1 DEF Pulse, TypeOK
    <3>2. CASE tx # None
      BY <1>6, <3>2 DEF Pulse, TypeOK, Loaded, Sent, None
    <3> QED
      BY <3>1, <3>2
  <2> QED
    BY <1>6, <2>1 DEF Pulse, TypeOK, sharedVars, validVars, downVars
<1>7. ASSUME NEW s \in Servers, ThreadDown(s) PROVE TypeOK'
  <2>1. CASE Notice(s)
    BY <2>1 DEF Notice, ToDown, TypeOK, gpsVars, sharedVars, validVars,
                radioVars
  <2>2. CASE Take(s)
    <3>1. beacon_next_pps' \in BOOLEAN
      BY <2>2 DEF Take
    <3>2. /\ field_time' \in [Servers -> Int]
          /\ pc' \in [Servers -> {"recv", "take", "tune", "send", "poll"}]
      BY <2>2 DEF Take, ToDown, TypeOK
    <3> QED
      BY <2>2, <3>1, <3>2 DEF Take, TypeOK, gpsVars, validVars, radioVars
  <2>3. CASE Tune(s)
    BY <2>3 DEF Tune, ToDown, TypeOK, gpsVars, sharedVars, validVars, radioVars
  <2>4. CASE Send(s)
    BY <2>4 DEF Send, ToDown, TypeOK, Loaded, gpsVars, validVars
  <2>5. CASE Poll(s)
    BY <2>5 DEF Poll, ToDown, TypeOK, gpsVars, sharedVars, validVars, radioVars
  <2> QED
    BY <1>7, <2>1, <2>2, <2>3, <2>4, <2>5 DEF ThreadDown
<1>8. CASE UNCHANGED vars
  BY <1>8 DEF vars, gpsVars, sharedVars, validVars, downVars, radioVars, TypeOK
<1> QED
  BY <1>1, <1>2, <1>3, <1>4, <1>5, <1>6, <1>7, <1>8
  DEF Next, ThreadGps, ThreadValid

LEMMA NextTime ==
  TypeOK /\ TimeInv /\ BeaconSecondsBounded /\ [Next]_vars
    => TimeInv' /\ BeaconSecondsBounded'
<1> SUFFICES ASSUME TypeOK, TimeInv, BeaconSecondsBounded, [Next]_vars
             PROVE TimeInv' /\ BeaconSecondsBounded'
  OBVIOUS
<1> USE BeaconAssumption DEF TypeOK, TimeInv, BeaconSecondsBounded
<1>1. CASE LoseFrame
  BY <1>1 DEF LoseFrame, sharedVars, validVars, downVars, radioVars
<1>2. CASE Frame
  BY <1>2 DEF Frame, validVars, downVars, radioVars
<1>3. CASE Sync
  <2>1. reference' >= reference /\ reference' <= now
    BY <1>3 DEF Sync
  <2>2. gps_ref_valid' => gps_ref_valid
    BY <1>3 DEF Sync
  <2>3. UNCHANGED <<now, checked, pc, field_time, tx, air>>
    BY <1>3 DEF Sync, validVars, downVars, radioVars
  <2>4. reference' \in Int
    BY <1>3 DEF Sync
  <2>5. gps_ref_valid' => checked' - reference' <= GPS_REF_MAX_AGE
    <3> SUFFICES ASSUME gps_ref_valid
                 PROVE checked - reference' <= GPS_REF_MAX_AGE
      BY <2>2, <2>3
    <3>1. checked - reference <= GPS_REF_MAX_AGE
      OBVIOUS
    <3>2. /\ checked \in Int /\ reference \in Int
          /\ GPS_REF_MAX_AGE \in Int
      OBVIOUS
    <3> HIDE DEF TypeOK, TimeInv, BeaconSecondsBounded
    <3> QED
      BY <2>1, <2>4, <3>1, <3>2, LaterIsYounger
  <2> QED
    BY <2>1, <2>3, <2>5
<1>4. CASE Validate
  <2>1. gps_ref_valid' => now - reference <= GPS_REF_MAX_AGE
    BY <1>4 DEF Validate, Recent
  <2>2. /\ checked' = now
        /\ UNCHANGED <<now, reference, pc, field_time, tx, air>>
    BY <1>4 DEF Validate, downVars, radioVars
  <2> QED
    BY <2>1, <2>2
<1>5. CASE Correct
  BY <1>5 DEF Correct, downVars, radioVars
<1>6. CASE Pulse
  <2>1. BeaconSecondsBounded'
    <3>1. CASE tx = None
      BY <1>6, <3>1 DEF Pulse
    <3>2. CASE tx # None
      <4>1. /\ air'.latitude = tx.latitude
            /\ air'.at = now + 1
        BY <1>6, <3>2 DEF Pulse
      <4>2. now + 1 - tx.latitude \in 0..(GPS_REF_MAX_AGE + 2)
        BY <3>2 DEF TimeInv
      <4>3. air'.at - air'.latitude \in 0..(GPS_REF_MAX_AGE + 2)
        <5>1. tx.latitude \in Int /\ now + 1 \in Int
          BY <3>2 DEF Loaded
        <5> QED
          BY <4>1, <4>2, <5>1
      <4> QED
        BY <4>3
    <3> QED
      BY <3>1, <3>2
  <2>2. \A s \in Servers : pc'[s] \notin {"tune", "send"}
    BY <1>6 DEF Pulse, Timely, downVars
  <2> QED
    BY <1>6, <2>1, <2>2 DEF Pulse, Timely, sharedVars, validVars, downVars
<1>7. ASSUME NEW s \in Servers, ThreadDown(s)
      PROVE TimeInv' /\ BeaconSecondsBounded'
  <2>1. CASE Notice(s)
    BY <2>1 DEF Notice, ToDown, sharedVars, validVars, radioVars
  <2>2. CASE Take(s)
    BY <2>2 DEF Take, ToDown, validVars, radioVars
  <2>3. CASE Tune(s)
    BY <2>3 DEF Tune, ToDown, sharedVars, validVars, radioVars
  <2>4. CASE Send(s)
    BY <2>4 DEF Send, ToDown, validVars
  <2>5. CASE Poll(s)
    BY <2>5 DEF Poll, ToDown, sharedVars, validVars, radioVars
  <2> QED
    BY <1>7, <2>1, <2>2, <2>3, <2>4, <2>5 DEF ThreadDown
<1>8. CASE UNCHANGED vars
  BY <1>8 DEF vars, sharedVars, validVars, downVars, radioVars
<1> QED
  BY <1>1, <1>2, <1>3, <1>4, <1>5, <1>6, <1>7, <1>8
  DEF Next, ThreadGps, ThreadValid

LEMMA NextSamples ==
  TypeOK /\ SampleInv /\ AverageSound /\ [Next]_vars
    => SampleInv' /\ AverageSound'
<1> SUFFICES ASSUME TypeOK, SampleInv, AverageSound, [Next]_vars
             PROVE SampleInv' /\ AverageSound'
  OBVIOUS
<1> USE BeaconAssumption DEF TypeOK, SampleInv, AverageSound
<1>1. CASE LoseFrame
  BY <1>1 DEF LoseFrame, sharedVars, validVars, downVars
<1>2. CASE Frame
  BY <1>2 DEF Frame, validVars, downVars
<1>3. CASE Sync
  BY <1>3 DEF Sync, validVars, downVars
<1>4. CASE Validate
  BY <1>4 DEF Validate, downVars
<1>5. CASE Correct
  <2>1. CASE Drop
    BY <1>5, <2>1 DEF Correct, Drop, downVars
  <2>2. CASE since' = Capped(since) /\ Accumulate
    BY <1>5, <2>2 DEF Correct, Capped, Accumulate, downVars
  <2>3. CASE since' = Capped(since) /\ Average
    BY <1>5, <2>3 DEF Correct, Capped, Average, downVars
  <2>4. CASE since' = Capped(since) /\ Track
    BY <1>5, <2>4 DEF Correct, Capped, Track, downVars
  <2> QED
    BY <1>5, <2>1, <2>2, <2>3, <2>4 DEF Correct
<1>6. CASE Pulse
  BY <1>6 DEF Pulse, sharedVars, validVars, downVars
<1>7. ASSUME NEW s \in Servers, ThreadDown(s)
      PROVE SampleInv' /\ AverageSound'
  <2>1. CASE Notice(s)
    BY <2>1 DEF Notice, sharedVars, validVars
  <2>2. CASE Take(s)
    BY <2>2 DEF Take, validVars
  <2>3. CASE Tune(s)
    <3>1. xtal_correct \in {0, XERR_INIT_AVG}
      OBVIOUS
    <3>2. \A r \in Servers : freq_hz'[r] \in {0, XERR_INIT_AVG}
      BY <2>3, <3>1 DEF Tune
    <3> QED
      BY <2>3, <3>2 DEF Tune, sharedVars, validVars
  <2>4. CASE Send(s)
    BY <2>4 DEF Send, validVars
  <2>5. CASE Poll(s)
    BY <2>5 DEF Poll, sharedVars, validVars
  <2> QED
    BY <1>7, <2>1, <2>2, <2>3, <2>4, <2>5 DEF ThreadDown
<1>8. CASE UNCHANGED vars
  BY <1>8 DEF vars, sharedVars, validVars, downVars
<1> QED
  BY <1>1, <1>2, <1>3, <1>4, <1>5, <1>6, <1>7, <1>8
  DEF Next, ThreadGps, ThreadValid

LEMMA SpecIInv == Spec => []IInv
<1>1. IInv /\ [Next]_vars => IInv'
  BY NextTypeOK, NextTime, NextSamples DEF IInv
<1> QED
  BY InitIInv, <1>1, PTL DEF Spec

\* Type correctness of the time threads and of the beacon part of thread_down.
THEOREM SpecTypeOK == Spec => []TypeOK
  BY SpecIInv, PTL DEF IInv

\* thread_valid declares usable only a correction averaged over XERR_INIT_AVG
\* samples of one uninterrupted validity, and no beacon uses another one.
THEOREM SpecAverageSound == Spec => []AverageSound
  BY SpecIInv, PTL DEF IInv

\* The seconds that a beacon carries, in the bytes of its latitude, are never
\* ahead of the pulse it is sent at and at most GPS_REF_MAX_AGE + 2 behind it,
\* however often thread_gps fails to renew the reference.
THEOREM SpecBeaconSecondsBounded == Spec => []BeaconSecondsBounded
  BY SpecIInv, PTL DEF IInv
-----------------------------------------------------------------------------
(***************************************************************************)
(* Requests and beacons, with one server.                                  *)
(***************************************************************************)
OneServer == \A s, t \in Servers : s = t

Requested == IF beacon_next_pps THEN 1 ELSE 0

\* The beacons that thread_down may still load without another request.  The
\* request it goes to take may have been withdrawn, and raised again, since.
Owed(s) ==
  CASE pc[s] = "take" -> 1
    [] pc[s] \in {"tune", "send"} -> 1 + Requested
    [] OTHER -> Requested

RequestInv == unserved >= 0 /\ \A s \in Servers : unserved >= Owed(s)

LEMMA InitRequest == Init => RequestInv
  BY DEF Init, RequestInv, Owed, Requested

LEMMA NextRequest ==
  OneServer /\ IInv /\ RequestInv /\ [Next]_vars => RequestInv'
<1> SUFFICES ASSUME OneServer, TypeOK, RequestInv, [Next]_vars
             PROVE RequestInv'
  BY DEF IInv
<1> USE DEF TypeOK, RequestInv, Owed, Requested
<1>1. CASE LoseFrame
  BY <1>1 DEF LoseFrame, sharedVars, downVars
<1>2. CASE Frame
  BY <1>2 DEF Frame, downVars
<1>3. CASE Sync
  BY <1>3 DEF Sync, downVars
<1>4. CASE Validate
  BY <1>4 DEF Validate, downVars
<1>5. CASE Correct
  BY <1>5 DEF Correct, downVars
<1>6. CASE Pulse
  BY <1>6 DEF Pulse, sharedVars, downVars
<1>7. ASSUME NEW s \in Servers, ThreadDown(s) PROVE RequestInv'
  <2>1. CASE Notice(s)
    BY <2>1 DEF Notice, ToDown, sharedVars, OneServer
  <2>2. CASE Take(s)
    BY <2>2 DEF Take, ToDown, OneServer
  <2>3. CASE Tune(s)
    BY <2>3 DEF Tune, ToDown, sharedVars, OneServer
  <2>4. CASE Send(s)
    BY <2>4 DEF Send, ToDown, OneServer
  <2>5. CASE Poll(s)
    BY <2>5 DEF Poll, ToDown, sharedVars, OneServer
  <2> QED
    BY <1>7, <2>1, <2>2, <2>3, <2>4, <2>5 DEF ThreadDown
<1>8. CASE UNCHANGED vars
  BY <1>8 DEF vars, sharedVars, downVars
<1> QED
  BY <1>1, <1>2, <1>3, <1>4, <1>5, <1>6, <1>7, <1>8
  DEF Next, ThreadGps, ThreadValid

\* With one server no more beacons are loaded than beacon_next_pps was raised,
\* although it is seen without a mutex and may be withdrawn or raised again
\* before it is taken.
THEOREM SpecOneBeaconPerRequest ==
  ASSUME OneServer
  PROVE  Spec => []OneBeaconPerRequest
<1>1. IInv /\ RequestInv /\ [Next]_vars => RequestInv'
  BY OneServer, NextRequest
<1>2. RequestInv => OneBeaconPerRequest
  BY DEF RequestInv, OneBeaconPerRequest
<1> QED BY SpecIInv, InitRequest, <1>1, <1>2, PTL DEF Spec
=============================================================================
