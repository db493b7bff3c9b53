------------------------------- MODULE Beacon -------------------------------
(***************************************************************************)
(* Time in poly_pkt_fwd.c: thread_gps ties the concentrator's clock to UTC *)
(* once a second and says when a beacon is due, thread_valid ages that     *)
(* reference and averages the crystal correction, and the thread_down that *)
(* sees the request loads a beacon the concentrator sends at the next PPS. *)
(*                                                                         *)
(* Time passes in PPS pulses.  Timely, the guard of Pulse, is the one      *)
(* assumption on speed: thread_gps is done with a frame, and a thread_down *)
(* has handed over the beacon it began, before the next pulse, and         *)
(* thread_valid, which sleeps one second, misses at most one.  Reading the *)
(* request may take longer.  The system clock is not set back.             *)
(***************************************************************************)
EXTENDS Integers

CONSTANTS
  Servers,          \* servers with a running thread_down
  beacon_period,    \* gtw_conf.beacon_period, in seconds
  beacon_offset,    \* gtw_conf.beacon_offset
  GPS_REF_MAX_AGE,  \* age at which a reference expires: 30
  XERR_INIT_AVG,    \* samples of the initial average: 128
  MaxTime           \* bound: seconds

ASSUME BeaconAssumption ==
  /\ beacon_period \in Nat \ {0} /\ beacon_offset \in Nat
  /\ GPS_REF_MAX_AGE \in Nat /\ XERR_INIT_AVG \in Nat \ {0}
  /\ MaxTime \in Nat

VARIABLES
  now,              \* UTC second of the latest pulse
  rmc,              \* its RMC frame has not been read yet
  gps_pc,           \* where thread_gps is
  beacon_next_pps,  \* gtw_conf.beacon_next_pps
  unserved,         \* history: times it was raised, less the beacons loaded
  reference,        \* second of time_reference_gps.utc and .systime
  gps_ref_valid,    \* it was recent when thread_valid last looked
  checked,          \* when that was
  valid_pc,         \* where thread_valid is
  init_cpt,         \* its samples so far
  init_acc,         \* how many samples its sum holds
  since,            \* history: valid samples in a row
  xtal_correct_ok,
  xtal_correct,     \* samples behind the factor, 0 for the factor 1.0
  pc,               \* where each thread_down is
  field_time,       \* the time it computed for its beacon
  freq_hz,          \* the correction of its beacon's frequency
  tx,               \* the beacon the concentrator will send at the next pulse
  air               \* the latest beacon sent, and its second

gpsVars   == <<rmc, gps_pc>>
validVars == <<checked, valid_pc, init_cpt, init_acc, since>>
downVars  == <<pc, field_time, freq_hz>>
radioVars == <<tx, air>>
sharedVars == <<beacon_next_pps, unserved, reference, gps_ref_valid,
                xtal_correct_ok, xtal_correct>>
vars == <<now, gpsVars, sharedVars, validVars, downVars, radioVars>>

None == [latitude |-> -1]

\* Bytes 3 to 6 of beacon_pkt.payload, its time, are written by nobody.
Unwritten == "uninitialised"

Expired == -1 - GPS_REF_MAX_AGE

Init ==
  /\ now = 0
  /\ rmc = FALSE
  /\ gps_pc = "read"
  /\ beacon_next_pps = FALSE /\ unserved = 0
  /\ reference = Expired
  /\ gps_ref_valid = FALSE /\ checked = 0
  /\ valid_pc = "check"
  /\ init_cpt = 0 /\ init_acc = 0 /\ since = 0
  /\ xtal_correct_ok = FALSE /\ xtal_correct = 0
  /\ pc = [s \in Servers |-> "recv"]
  /\ field_time = [s \in Servers |-> 0]
  /\ freq_hz = [s \in Servers |-> 0]
  /\ tx = None /\ air = None

(***************************************************************************)
(* thread_gps.                                                             *)
(***************************************************************************)
\* No frame, an unreadable one, or one without UTC: nothing else is done.
LoseFrame ==
  /\ gps_pc = "read" /\ rmc
  /\ rmc' = FALSE
  /\ UNCHANGED <<now, gps_pc, sharedVars, validVars, downVars, radioVars>>

\* The beacon for the next second is requested, or an old request withdrawn.
Frame ==
  /\ gps_pc = "read" /\ rmc
  /\ rmc' = FALSE
  /\ beacon_next_pps' = ((now + 1) % beacon_period = beacon_offset)
  /\ unserved' = IF beacon_next_pps' /\ ~beacon_next_pps THEN unserved + 1
                 ELSE unserved
  /\ gps_pc' = "sync"
  /\ UNCHANGED <<now, reference, gps_ref_valid, xtal_correct_ok, xtal_correct,
                 validVars, downVars, radioVars>>

\* lgw_get_trigcnt and lgw_gps_sync.  The reference stays if either fails.
Sync ==
  /\ gps_pc = "sync"
  /\ reference' \in {reference, now}
  /\ gps_pc' = "read"
  /\ UNCHANGED <<now, rmc, beacon_next_pps, unserved, gps_ref_valid,
                 xtal_correct_ok, xtal_correct, validVars, downVars,
                 radioVars>>

(***************************************************************************)
(* thread_valid.                                                           *)
(***************************************************************************)
Recent == now - reference <= GPS_REF_MAX_AGE

\* Mutant of Validate: an old reference is not invalidated.
ValidateForGood ==
  /\ valid_pc = "check"
  /\ gps_ref_valid' = (gps_ref_valid \/ Recent)
  /\ checked' = now
  /\ valid_pc' = "correct"
  /\ UNCHANGED <<now, gpsVars, beacon_next_pps, unserved, reference, init_cpt,
                 init_acc, since, xtal_correct_ok, xtal_correct, downVars,
                 radioVars>>

\* Under mx_timeref.  ref_valid_local is gps_ref_valid, which no other thread
\* sets.
Validate ==
  /\ valid_pc = "check"
  /\ gps_ref_valid' = Recent
  /\ checked' = now
  /\ valid_pc' = "correct"
  /\ UNCHANGED <<now, gpsVars, beacon_next_pps, unserved, reference, init_cpt,
                 init_acc, since, xtal_correct_ok, xtal_correct, downVars,
                 radioVars>>

Capped(n) == IF n > XERR_INIT_AVG THEN n ELSE n + 1

\* Mutant of Drop: the samples are not counted afresh.
DropCorrectionOnly ==
  /\ xtal_correct_ok' = FALSE /\ xtal_correct' = 0
  /\ since' = 0
  /\ UNCHANGED <<init_cpt, init_acc>>

\* Mutant of Drop: the sum is not cleared.
DropKeepsSum ==
  /\ xtal_correct_ok' = FALSE /\ xtal_correct' = 0
  /\ init_cpt' = 0 /\ since' = 0
  /\ UNCHANGED init_acc

\* A reference that is not valid drops the correction and the samples.
Drop ==
  /\ xtal_correct_ok' = FALSE /\ xtal_correct' = 0
  /\ init_cpt' = 0 /\ init_acc' = 0 /\ since' = 0

Accumulate ==
  /\ init_cpt < XERR_INIT_AVG
  /\ init_acc' = init_acc + 1 /\ init_cpt' = init_cpt + 1
  /\ UNCHANGED <<xtal_correct_ok, xtal_correct>>

\* The factor is XERR_INIT_AVG divided by the sum.
Average ==
  /\ init_cpt = XERR_INIT_AVG
  /\ xtal_correct' = init_acc /\ xtal_correct_ok' = TRUE
  /\ init_cpt' = init_cpt + 1
  /\ UNCHANGED init_acc

\* Mutant of Track: samples are still counted.
TrackCounts ==
  /\ init_cpt > XERR_INIT_AVG
  /\ init_cpt' = init_cpt + 1
  /\ UNCHANGED <<init_acc, xtal_correct_ok, xtal_correct>>

\* The low-pass filter moves an average towards the latest sample.
Track ==
  /\ init_cpt > XERR_INIT_AVG
  /\ UNCHANGED <<init_cpt, init_acc, xtal_correct_ok, xtal_correct>>

Correct ==
  /\ valid_pc = "correct"
  /\ \/ ~gps_ref_valid /\ Drop
     \/ gps_ref_valid /\ since' = Capped(since)
        /\ (Accumulate \/ Average \/ Track)
  /\ valid_pc' = "check"
  /\ UNCHANGED <<now, gpsVars, beacon_next_pps, unserved, reference,
                 gps_ref_valid, checked, downVars, radioVars>>

(***************************************************************************)
(* thread_down, after each recv.                                           *)
(***************************************************************************)
ToDown(s, to) == pc' = [pc EXCEPT ![s] = to]

\* The request is seen without a mutex.
Notice(s) ==
  /\ pc[s] = "recv" /\ beacon_next_pps
  /\ ToDown(s, "take")
  /\ UNCHANGED <<now, gpsVars, sharedVars, validVars, field_time, freq_hz,
                 radioVars>>

\* Mutant of Take: the request stays up.
TakeKeepsRequest(s) ==
  /\ pc[s] = "take"
  /\ IF gps_ref_valid /\ xtal_correct_ok
     THEN /\ field_time' = [field_time EXCEPT ![s] = reference + 1]
          /\ ToDown(s, "tune")
     ELSE ToDown(s, "recv") /\ UNCHANGED field_time
  /\ UNCHANGED <<now, gpsVars, sharedVars, validVars, freq_hz, radioVars>>

\* Under mx_timeref, but xtal_correct_ok is not covered by it.
Take(s) ==
  /\ pc[s] = "take"
  /\ beacon_next_pps' = FALSE
  /\ IF gps_ref_valid /\ xtal_correct_ok
     THEN /\ field_time' = [field_time EXCEPT ![s] = reference + 1]
          /\ ToDown(s, "tune")
     ELSE ToDown(s, "recv") /\ UNCHANGED field_time
  /\ UNCHANGED <<now, gpsVars, unserved, reference, gps_ref_valid,
                 xtal_correct_ok, xtal_correct, validVars, freq_hz,
                 radioVars>>

Tune(s) ==
  /\ pc[s] = "tune"
  /\ freq_hz' = [freq_hz EXCEPT ![s] = xtal_correct]
  /\ ToDown(s, "send")
  /\ UNCHANGED <<now, gpsVars, sharedVars, validVars, field_time, radioVars>>

\* lgw_send arms the concentrator for the next pulse, or fails.  field_time
\* has gone into bytes 9 to 12, over the latitude.
Send(s) ==
  /\ pc[s] = "send"
  /\ \/ /\ tx' = [time |-> Unwritten, latitude |-> field_time[s],
                    freq |-> freq_hz[s]]
        /\ unserved' = unserved - 1
        /\ ToDown(s, "poll")
     \/ ToDown(s, "recv") /\ UNCHANGED <<tx, unserved>>
  /\ UNCHANGED <<now, gpsVars, beacon_next_pps, reference, gps_ref_valid,
                 xtal_correct_ok, xtal_correct, validVars, field_time,
                 freq_hz, air>>

\* The transmitter is free, or was not for a second and a half.
Poll(s) ==
  /\ pc[s] = "poll"
  /\ ToDown(s, "recv")
  /\ UNCHANGED <<now, gpsVars, sharedVars, validVars, field_time, freq_hz,
                 radioVars>>

ThreadGps == LoseFrame \/ Frame \/ Sync
ThreadValid == Validate \/ Correct
ThreadDown(s) == Notice(s) \/ Take(s) \/ Tune(s) \/ Send(s) \/ Poll(s)

(***************************************************************************)
(* The GPS pulse.                                                          *)
(***************************************************************************)
Timely ==
  /\ gps_pc = "read" /\ ~rmc
  /\ now - checked < 2
  /\ \A s \in Servers : pc[s] \notin {"tune", "send"}

Pulse ==
  /\ now < MaxTime /\ Timely
  /\ now' = now + 1
  /\ rmc' = TRUE
  /\ tx' = None
  /\ air' = IF tx = None THEN air
            ELSE [time |-> tx.time, latitude |-> tx.latitude,
                  freq |-> tx.freq, at |-> now + 1]
  /\ UNCHANGED <<gps_pc, sharedVars, validVars, downVars>>

Next ==
  \/ ThreadGps \/ ThreadValid \/ Pulse
  \/ \E s \in Servers : ThreadDown(s)

Spec == Init /\ [][Next]_vars

\* The loop of thread_valid sleeps and never blocks.
FairSpec == Spec /\ WF_vars(ThreadValid)
-----------------------------------------------------------------------------
Loaded == [time : {Unwritten}, latitude : Int, freq : Nat]

Sent == [time : {Unwritten}, latitude : Int, freq : Nat, at : Nat]

TypeOK ==
  /\ now \in Nat /\ reference \in Int /\ checked \in Nat
  /\ rmc \in BOOLEAN /\ gps_pc \in {"read", "sync"}
  /\ beacon_next_pps \in BOOLEAN /\ unserved \in Int
  /\ gps_ref_valid \in BOOLEAN /\ valid_pc \in {"check", "correct"}
  /\ init_cpt \in 0..XERR_INIT_AVG + 1 /\ init_acc \in Nat
  /\ since \in 0..XERR_INIT_AVG + 1
  /\ xtal_correct_ok \in BOOLEAN /\ xtal_correct \in Nat
  /\ pc \in [Servers -> {"recv", "take", "tune", "send", "poll"}]
  /\ field_time \in [Servers -> Int] /\ freq_hz \in [Servers -> Nat]
  /\ tx \in Loaded \cup {None}
  /\ air \in Sent \cup {None}

\* A correction that is declared usable, and one a beacon is tuned with, was
\* averaged over XERR_INIT_AVG samples, all taken since the reference was last
\* found invalid.  A beacon may also be tuned with the factor 1.0, when the
\* correction is dropped after the beacon was begun.
AverageSound ==
  /\ xtal_correct_ok => xtal_correct = XERR_INIT_AVG /\ since > XERR_INIT_AVG
  /\ \A s \in Servers : freq_hz[s] \in {0, XERR_INIT_AVG}

\* The seconds a beacon on the air carries, which are in the bytes of its
\* latitude, are those of no later pulse, and at most GPS_REF_MAX_AGE and the
\* two seconds between validations behind: the request is raised for the next
\* pulse, but they are counted from a reference that may be old.
BeaconSecondsBounded ==
  air # None => air.at - air.latitude \in 0..(GPS_REF_MAX_AGE + 2)

\* With one server, a request yields at most one beacon.
OneBeaconPerRequest == unserved >= 0

\* The correction comes back when the reference stays recent, whatever was
\* accumulated before it was lost.
CorrectionRecovers == (<>[]Recent) => <>[]xtal_correct_ok
=============================================================================
