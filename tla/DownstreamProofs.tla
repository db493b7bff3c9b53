-------------------------- MODULE DownstreamProofs --------------------------
(***************************************************************************)
(* Proofs about the thread_downs, for every set of servers and tokens and  *)
(* every threshold and width of the counters: a snapshot never splits a    *)
(* transmission, and autoquit needs that many unanswered polls.            *)
(***************************************************************************)
EXTENDS Downstream, TLAPS

Labels == {"wait", "top", "sent", "listen", "acked", "resp", "concent", "tx",
           "ended"}
Values == 0 .. (Wrap - 1)

\* TypeOK in two parts, for provers that are good at one of them.
Flags ==
  /\ alive \in BOOLEAN /\ exit_sig \in BOOLEAN /\ quit_sig \in BOOLEAN
  /\ req_ack \in [Servers -> BOOLEAN]

Typed ==
  /\ quitter \subseteq Servers /\ silent \subseteq Servers
  /\ pc \in [Servers -> Labels]
  /\ token \in [Servers -> Tokens]
  /\ autoquit_cnt \in [Servers -> Nat]
  /\ missed \in [Servers -> Nat]
  /\ pulled \in [Servers -> SUBSET Tokens]
  /\ pulls \in [Servers -> Nat] /\ resps \in Nat
  /\ mx_meas_dw \in Servers \cup {"free", "main"}
  /\ mx_concent \in Servers \cup {"free", "main", "up"}
  /\ meas \in [Counters -> Values] /\ cp \in [Counters -> Values]
  /\ main_pc \in {"wait", "reset", "trigcnt", "trig", "join", "halt", "exit"}

\* Who holds which mutex.
Locks ==
  /\ \A s \in Servers :
       /\ mx_meas_dw = s <=> pc[s] \in {"concent", "tx"}
       /\ mx_concent = s <=> pc[s] = "tx"
  /\ mx_meas_dw = "main" <=> main_pc = "reset"
  /\ mx_concent = "main" <=> main_pc = "trig"

\* The verdicts on f["dgram"] responses, all but n of them.
Balanced(f, n) == f["dgram"] = (f["ok"] + f["fail"] + n) % Wrap

\* The thread that holds the counters has one response without a verdict.
Tallied ==
  /\ Balanced(meas, IF mx_meas_dw \in Servers THEN 1 ELSE 0)
  /\ Balanced(cp, 0)

\* Polls of s since an accepted PULL_ACK, against those that ended without
\* one: the poll that is under way is not among the latter.
Unanswered(s) ==
  autoquit_threshold > 0 =>
    /\ autoquit_cnt[s] <= autoquit_threshold
    /\ pc[s] = "sent" => autoquit_cnt[s] < autoquit_threshold
    /\ IF pc[s] \in {"wait", "top", "sent", "ended"}
       THEN autoquit_cnt[s] <= missed[s]
       ELSE IF req_ack[s] THEN autoquit_cnt[s] = 0
       ELSE autoquit_cnt[s] <= missed[s] + 1

Polls == \A s \in Servers : Unanswered(s)

\* A thread that quit is over, and its count stands.
Quit == \A s \in quitter : pc[s] = "ended" /\ missed[s] >= autoquit_threshold

Core == Typed /\ Locks /\ Tallied /\ Polls /\ Quit

IInv == Flags /\ Core
-----------------------------------------------------------------------------
LEMMA IncIs ==
  ASSUME NEW n \in Values
  PROVE  Inc(n) \in Values /\ Inc(n) = IF n + 1 < Wrap THEN n + 1 ELSE 0
  BY DownstreamAssumption, SMT DEF Values, Inc

LEMMA SumIs ==
  ASSUME NEW a \in Values, NEW b \in Values, NEW n \in {0, 1}
  PROVE  (a + b + n) % Wrap = IF a + b + n < Wrap THEN a + b + n
                              ELSE a + b + n - Wrap
  BY DownstreamAssumption, SMT DEF Values

\* A sum one larger, whichever of its parts is counted.
LEMMA IncSum ==
  ASSUME NEW a \in Values, NEW b \in Values
  PROVE  /\ Inc((a + b + 0) % Wrap) = (a + b + 1) % Wrap
         /\ (Inc(a) + b + 0) % Wrap = (a + b + 1) % Wrap
<1>1. a \in Int /\ b \in Int /\ Wrap \in Nat \ {0}
      /\ 0 <= a /\ a < Wrap /\ 0 <= b /\ b < Wrap
  BY DownstreamAssumption DEF Values
<1>2. (a + b + 1) % Wrap = IF a + b + 1 < Wrap THEN a + b + 1 ELSE a + b + 1 - Wrap
  BY SumIs
<1>3. Inc((a + b + 0) % Wrap) = (a + b + 1) % Wrap
  <2> DEFINE r == IF a + b < Wrap THEN a + b ELSE a + b - Wrap
  <2>1. r \in Values /\ (a + b + 0) % Wrap = r
    <3>1. (a + b + 0) % Wrap = IF a + b + 0 < Wrap THEN a + b + 0
                               ELSE a + b + 0 - Wrap
      BY SumIs
    <3> QED
      BY <1>1, <3>1 DEF Values
  <2>2. Inc(r) = IF r + 1 < Wrap THEN r + 1 ELSE 0
    BY <2>1, IncIs
  <2> QED
    BY <1>1, <1>2, <2>1, <2>2
<1>4. (Inc(a) + b + 0) % Wrap = (a + b + 1) % Wrap
  <2> DEFINE i == IF a + 1 < Wrap THEN a + 1 ELSE 0
  <2>1. Inc(a) = i /\ i \in Values
    BY IncIs
  <2>2. (i + b + 0) % Wrap = IF i + b + 0 < Wrap THEN i + b + 0 ELSE i + b + 0 - Wrap
    BY <2>1, SumIs
  <2> QED
    BY <1>1, <1>2, <2>1, <2>2
<1> QED
  BY <1>3, <1>4

\* One count more keeps the balance: of a response, or of its verdict.
LEMMA CountKeeps ==
  ASSUME NEW f \in [Counters -> Values], NEW c \in Counters, NEW n \in {0, 1},
         Balanced(f, n)
  PROVE  LET g == [f EXCEPT ![c] = Inc(@)]
         IN  /\ g \in [Counters -> Values]
             /\ c \in {"sent", "ack"} => Balanced(g, n)
             /\ c = "dgram" /\ n = 0 => Balanced(g, 1)
             /\ c \in {"ok", "fail"} /\ n = 1 => Balanced(g, 0)
<1> DEFINE g == [f EXCEPT ![c] = Inc(@)]
<1>1. \A d \in Counters : f[d] \in Values /\ Inc(f[d]) \in Values
  BY IncIs
<1>2. g \in [Counters -> Values]
  BY <1>1
<1>3. \A d \in Counters : g[d] = IF d = c THEN Inc(f[d]) ELSE f[d]
  BY <1>1
<1>4. {"dgram", "ok", "fail", "sent", "ack"} = Counters
  BY DEF Counters
<1> HIDE DEF g
<1>5. f["dgram"] = (f["ok"] + f["fail"] + n) % Wrap
  BY DEF Balanced
<1>6. CASE c \in {"sent", "ack"}
  BY <1>2, <1>3, <1>4, <1>5, <1>6 DEF Balanced, g
<1>7. CASE c = "dgram" /\ n = 0
  <2>1. g["dgram"] = Inc(f["dgram"]) /\ g["ok"] = f["ok"] /\ g["fail"] = f["fail"]
    BY <1>3, <1>4, <1>7
  <2>2. Inc(f["dgram"]) = (f["ok"] + f["fail"] + 1) % Wrap
    BY <1>1, <1>4, <1>5, <1>7, IncSum
  <2> QED
    BY <1>2, <1>7, <2>1, <2>2 DEF Balanced, g
<1>8. CASE c \in {"ok", "fail"} /\ n = 1
  <2> DEFINE d == IF c = "ok" THEN "fail" ELSE "ok"
  <2>1. /\ g["dgram"] = f["dgram"] /\ g[c] = Inc(f[c]) /\ g[d] = f[d]
        /\ d \in Counters /\ f["dgram"] = (f[c] + f[d] + 1) % Wrap
    BY <1>1, <1>3, <1>4, <1>5, <1>8 DEF Values
  <2>2. f["dgram"] = (Inc(f[c]) + f[d] + 0) % Wrap
    BY <1>1, <1>8, <2>1, IncSum
  <2>3. f["dgram"] = (g["ok"] + g["fail"] + 0) % Wrap
    BY <1>1, <1>8, <2>1, <2>2 DEF Values
  <2> QED
    BY <1>2, <1>8, <2>1, <2>3 DEF Balanced, g
<1> QED
  BY <1>2, <1>4, <1>6, <1>7, <1>8 DEF g

LEMMA ZeroIs == Zero \in [Counters -> Values] /\ Balanced(Zero, 0)
<1>1. 0 \in Values /\ 0 % Wrap = 0
  BY DownstreamAssumption, SMT DEF Values
<1> QED
  BY <1>1 DEF Zero, Counters, Balanced

LEMMA TypeOKParts == TypeOK <=> Flags /\ Typed
<1>1. {alive, exit_sig, quit_sig} \subseteq BOOLEAN
        <=> alive \in BOOLEAN /\ exit_sig \in BOOLEAN /\ quit_sig \in BOOLEAN
  BY Zenon
<1> QED
  BY <1>1, Zenon DEF TypeOK, Flags, Typed, Labels, Values

LEMMA InitIInv == Init => IInv
<1> SUFFICES ASSUME Init PROVE IInv
  OBVIOUS
<1>1. Flags
  BY Zenon DEF Init, Flags
<1>2. Typed
  BY ZeroIs DEF Init, Typed, Labels
<1>3. Locks /\ Tallied
  BY DownstreamAssumption, ZeroIs DEF Init, Locks, Tallied
<1>4. Polls /\ Quit
  BY DownstreamAssumption DEF Init, Polls, Unanswered, Quit
<1> QED
  BY <1>1, <1>2, <1>3, <1>4 DEF IInv, Core
-----------------------------------------------------------------------------
\* Every Boolean variable is assigned a Boolean.
LEMMA NextFlags == Flags /\ [Next]_vars => Flags'
<1> SUFFICES ASSUME Flags, [Next]_vars PROVE Flags'
  OBVIOUS
<1> USE DEF Flags, flags, sigs, threadVars, mainVars
<1>1. ASSUME NEW s \in Servers, ThreadDown(s) PROVE Flags'
  <2>1. CASE Ended(s) \/ Autoquit(s) \/ CountAck(s) \/ RecvResp(s) \/ FatalResp(s)
    BY <2>1, Zenon DEF Ended, Autoquit, CountAck, RecvResp, FatalResp
  <2>2. CASE CountResp(s) \/ LockConcent(s) \/ Transmit(s, "ok")
             \/ Transmit(s, "fail") \/ Elapsed(s)
    BY <2>2, Zenon DEF CountResp, LockConcent, Transmit, Elapsed
  <2>3. ASSUME NEW t \in Tokens, SendPull(s, t) PROVE Flags'
    BY <2>3, Zenon DEF SendPull
  <2>4. CASE CountPull(s)
    BY <2>4, Zenon DEF CountPull
  <2>5. ASSUME NEW t \in Tokens, RecvAck(s, t) PROVE Flags'
    BY <2>5, Zenon DEF RecvAck
  <2> QED
    BY <1>1, <2>1, <2>2, <2>3, <2>4, <2>5, Zenon DEF ThreadDown
<1>2. ASSUME NEW s \in Servers, FallSilent(s) \/ Activate(s) \/ SockoptFails(s)
      PROVE  Flags'
  BY <1>2, Zenon DEF FallSilent, Activate, SockoptFails
<1>3. CASE Main
  BY <1>3, Zenon DEF Main, StatsCopy, StatsReset, BeginTrigcnt, EndTrigcnt,
                     JoinUp, Halted, Exit
<1>4. CASE Signal \/ BeginFetch \/ EndFetch \/ UNCHANGED vars
  BY <1>4, Zenon DEF Signal, BeginFetch, EndFetch, vars
<1> QED
  BY <1>1, <1>2, <1>3, <1>4, Zenon DEF Next

\* A count stays in its range.
LEMMA CountTyped ==
  ASSUME Typed, NEW c \in Counters, Count(c)
  PROVE  meas' \in [Counters -> Values]
<1>1. \A d \in Counters : meas[d] \in Values
  BY DEF Typed
<1> QED
  BY <1>1, IncIs DEF Typed, Count

LEMMA NextTyped == Typed /\ [Next]_vars => Typed'
<1> SUFFICES ASSUME Typed, [Next]_vars PROVE Typed'
  OBVIOUS
<1> USE DEF Labels, Goto, flags, sigs, threadVars, mainVars
<1>0. \A n \in Nat : Inc(n) \in Nat
  BY DownstreamAssumption, SMT DEF Inc
<1>1. ASSUME NEW s \in Servers, ThreadDown(s) PROVE Typed'
  <2>1. CASE Ended(s) \/ Autoquit(s) \/ FatalResp(s)
    BY <2>1 DEF Typed, Ended, Autoquit, FatalResp
  <2>2. ASSUME NEW t \in Tokens, SendPull(s, t) PROVE Typed'
    BY <2>2 DEF Typed, SendPull
  <2>3. CASE CountPull(s)
    <3>1. meas' \in [Counters -> Values]
      BY <2>3, CountTyped DEF CountPull, Counters
    <3>2. autoquit_cnt' \in [Servers -> Nat] /\ pulls' \in [Servers -> Nat]
      BY <1>0, <2>3 DEF Typed, CountPull
    <3> QED
      BY <2>3, <3>1, <3>2 DEF Typed, CountPull
  <2>4. CASE Elapsed(s)
    BY <2>4 DEF Typed, Elapsed
  <2>5. ASSUME NEW t \in Tokens, RecvAck(s, t) PROVE Typed'
    BY <2>5 DEF Typed, RecvAck
  <2>6. CASE CountAck(s)
    <3>1. meas' \in [Counters -> Values]
      BY <2>6, CountTyped DEF CountAck, Counters
    <3> QED
      BY <2>6, <3>1 DEF Typed, CountAck
  <2>7. CASE RecvResp(s)
    BY <1>0, <2>7 DEF Typed, RecvResp
  <2>8. CASE CountResp(s)
    <3>1. meas' \in [Counters -> Values]
      BY <2>8, CountTyped DEF CountResp, Counters
    <3> QED
      BY <2>8, <3>1 DEF Typed, CountResp
  <2>9. CASE LockConcent(s)
    BY <2>9 DEF Typed, LockConcent
  <2>10. ASSUME NEW r \in {"ok", "fail"}, Transmit(s, r) PROVE Typed'
    <3>1. meas' \in [Counters -> Values]
      BY <2>10, CountTyped DEF Transmit, Counters
    <3> QED
      BY <2>10, <3>1 DEF Typed, Transmit
  <2> QED
    BY <1>1, <2>1, <2>2, <2>3, <2>4, <2>5, <2>6, <2>7, <2>8, <2>9, <2>10
    DEF ThreadDown
<1>2. ASSUME NEW s \in Servers, FallSilent(s) \/ Activate(s) \/ SockoptFails(s)
      PROVE  Typed'
  BY <1>2, DownstreamAssumption DEF Typed, FallSilent, Activate, SockoptFails
<1>3. CASE StatsCopy \/ StatsReset
  BY <1>3, ZeroIs DEF Typed, StatsCopy, StatsReset
<1>4. CASE BeginTrigcnt \/ EndTrigcnt
  BY <1>4, ZeroIs DEF Typed, BeginTrigcnt, EndTrigcnt
<1>5. CASE JoinUp \/ Halted \/ Exit
  BY <1>5 DEF Typed, JoinUp, Halted, Exit
<1>6. CASE Signal \/ BeginFetch \/ EndFetch \/ UNCHANGED vars
  BY <1>6 DEF Typed, Signal, BeginFetch, EndFetch, vars
<1> QED
  BY <1>1, <1>2, <1>3, <1>4, <1>5, <1>6 DEF Next, Main

LEMMA NextLocks == Typed /\ Locks /\ [Next]_vars => Locks'
<1> SUFFICES ASSUME Typed, Locks, [Next]_vars PROVE Locks'
  OBVIOUS
<1> USE DownstreamAssumption
    DEF Locks, Typed, Goto, flags, sigs, threadVars, mainVars
<1>1. ASSUME NEW s \in Servers, ThreadDown(s) PROVE Locks'
  <2>1. CASE Ended(s) \/ Autoquit(s) \/ FatalResp(s) \/ CountPull(s) \/ Elapsed(s)
             \/ CountAck(s) \/ RecvResp(s)
    BY <2>1 DEF Ended, Autoquit, FatalResp, CountPull, Elapsed, CountAck, RecvResp
  <2>2. ASSUME NEW t \in Tokens, SendPull(s, t) \/ RecvAck(s, t) PROVE Locks'
    BY <2>2 DEF SendPull, RecvAck
  <2>3. CASE CountResp(s)
    BY <2>3 DEF CountResp
  <2>4. CASE LockConcent(s)
    BY <2>4 DEF LockConcent
  <2>5. ASSUME NEW r \in {"ok", "fail"}, Transmit(s, r) PROVE Locks'
    BY <2>5 DEF Transmit
  <2> QED
    BY <1>1, <2>1, <2>2, <2>3, <2>4, <2>5 DEF ThreadDown
<1>2. ASSUME NEW s \in Servers, FallSilent(s) \/ Activate(s) \/ SockoptFails(s)
      PROVE  Locks'
  BY <1>2 DEF FallSilent, Activate, SockoptFails
<1>3. CASE Main
  BY <1>3 DEF Main, StatsCopy, StatsReset, BeginTrigcnt, EndTrigcnt,
              JoinUp, Halted, Exit
<1>4. CASE Signal \/ BeginFetch \/ EndFetch \/ UNCHANGED vars
  BY <1>4 DEF Signal, BeginFetch, EndFetch, vars
<1> QED
  BY <1>1, <1>2, <1>3, <1>4 DEF Next

LEMMA NextTallied ==
  Typed /\ Locks /\ Tallied /\ [Next]_vars => Tallied'
<1> SUFFICES ASSUME Typed, Locks, Tallied, [Next]_vars PROVE Tallied'
  OBVIOUS
<1> USE DownstreamAssumption DEF flags, sigs, threadVars, mainVars
<1>1. ASSUME NEW s \in Servers, CountPull(s) \/ CountAck(s) PROVE Tallied'
  <2>1. Balanced(meas, 0) /\ Balanced(cp, 0)
    BY <1>1 DEF Tallied, CountPull, CountAck
  <2>2. PICK c \in {"sent", "ack"} : Count(c)
    BY <1>1 DEF CountPull, CountAck
  <2>3. Balanced(meas', 0)
    BY <2>1, <2>2, CountKeeps DEF Typed, Counters, Count
  <2> QED
    BY <1>1, <2>1, <2>3 DEF Tallied, Balanced, CountPull, CountAck
<1>2. ASSUME NEW s \in Servers, CountResp(s) PROVE Tallied'
  <2>1. Balanced(meas, 0) /\ Balanced(cp, 0)
    BY <1>2 DEF Tallied, CountResp
  <2>2. Balanced(meas', 1)
    BY <1>2, <2>1, CountKeeps DEF Typed, Counters, Count, CountResp
  <2> QED
    BY <1>2, <2>1, <2>2 DEF Tallied, Balanced, CountResp
<1>3. ASSUME NEW s \in Servers, NEW r \in {"ok", "fail"}, Transmit(s, r)
      PROVE  Tallied'
  <2>1. Balanced(meas, 1) /\ Balanced(cp, 0)
    BY <1>3 DEF Locks, Tallied, Transmit
  <2>2. Balanced(meas', 0)
    BY <1>3, <2>1, CountKeeps DEF Typed, Counters, Count, Transmit
  <2> QED
    BY <1>3, <2>1, <2>2 DEF Tallied, Balanced, Transmit
<1>4. CASE StatsCopy
  BY <1>4 DEF Tallied, Balanced, StatsCopy
<1>5. CASE StatsReset
  BY <1>5, ZeroIs DEF Tallied, Balanced, StatsReset
<1>6. CASE BeginTrigcnt
  BY <1>6, ZeroIs DEF Tallied, Balanced, BeginTrigcnt
<1>7. ASSUME UNCHANGED <<meas, cp, mx_meas_dw>> PROVE Tallied'
  BY <1>7 DEF Tallied, Balanced
<1>8. CASE EndTrigcnt \/ JoinUp \/ Halted \/ Exit
           \/ Signal \/ BeginFetch \/ EndFetch \/ UNCHANGED vars
  BY <1>7, <1>8 DEF EndTrigcnt, JoinUp, Halted, Exit, Signal, BeginFetch,
                    EndFetch, vars
<1>9. ASSUME NEW s \in Servers,
             \/ FallSilent(s) \/ Activate(s) \/ SockoptFails(s)
             \/ Ended(s) \/ Autoquit(s)
             \/ Elapsed(s) \/ RecvResp(s) \/ FatalResp(s) \/ LockConcent(s)
             \/ \E t \in Tokens : SendPull(s, t) \/ RecvAck(s, t)
      PROVE  Tallied'
  BY <1>7, <1>9 DEF FallSilent, Activate, SockoptFails, Ended, Autoquit, Elapsed, RecvResp,
                    FatalResp, LockConcent, SendPull, RecvAck
<1> QED
  BY <1>1, <1>2, <1>3, <1>4, <1>5, <1>6, <1>8, <1>9 DEF Next, Main, ThreadDown

LEMMA NextPolls == Flags /\ Typed /\ Polls /\ [Next]_vars => Polls'
<1> SUFFICES ASSUME Flags, Typed, Polls, [Next]_vars, NEW u \in Servers
             PROVE  Unanswered(u)'
  BY DEF Polls
<1> USE DownstreamAssumption DEF Typed, Labels, Goto, flags, sigs, mainVars
<1>0. Unanswered(u)
  BY DEF Polls
<1>1. ASSUME NEW s \in Servers, ThreadDown(s) PROVE Unanswered(u)'
  <2>1. CASE Ended(s) \/ Autoquit(s)
    BY <1>0, <2>1 DEF Unanswered, Ended, Autoquit
  <2>2. ASSUME NEW t \in Tokens, SendPull(s, t) PROVE Unanswered(u)'
    BY <1>0, <2>2 DEF Unanswered, SendPull, Silence
  <2>3. CASE CountPull(s)
    BY <1>0, <2>3 DEF Flags, Unanswered, CountPull
  <2>4. CASE Elapsed(s)
    BY <1>0, <2>4 DEF Unanswered, Elapsed
  <2>5. ASSUME NEW t \in Tokens, RecvAck(s, t) PROVE Unanswered(u)'
    BY <1>0, <2>5 DEF Flags, Unanswered, RecvAck
  <2>6. CASE CountAck(s) \/ RecvResp(s)
    BY <1>0, <2>6 DEF Unanswered, CountAck, RecvResp
  <2>7. CASE FatalResp(s)
    BY <1>0, <2>7 DEF Unanswered, FatalResp, threadVars
  <2>8. CASE CountResp(s) \/ LockConcent(s)
    BY <1>0, <2>8 DEF Unanswered, CountResp, LockConcent
  <2>9. ASSUME NEW r \in {"ok", "fail"}, Transmit(s, r) PROVE Unanswered(u)'
    BY <1>0, <2>9 DEF Unanswered, Transmit
  <2> QED
    BY <1>1, <2>1, <2>2, <2>3, <2>4, <2>5, <2>6, <2>7, <2>8, <2>9 DEF ThreadDown
<1>2. ASSUME NEW s \in Servers, Activate(s) PROVE Unanswered(u)'
  BY <1>0, <1>2 DEF Unanswered, Activate
<1>3. ASSUME UNCHANGED threadVars PROVE Unanswered(u)'
  BY <1>0, <1>3 DEF Unanswered, threadVars
<1>4. ASSUME NEW s \in Servers, FallSilent(s) \/ SockoptFails(s)
      PROVE  UNCHANGED threadVars
  BY <1>4 DEF FallSilent, SockoptFails
<1>5. CASE Main \/ Signal \/ BeginFetch \/ EndFetch \/ UNCHANGED vars
  BY <1>3, <1>5 DEF Main, StatsCopy, StatsReset, BeginTrigcnt, EndTrigcnt,
                    JoinUp, Halted, Exit, Signal, BeginFetch, EndFetch, vars
<1> QED
  BY <1>1, <1>2, <1>3, <1>4, <1>5 DEF Next

LEMMA NextQuit == Typed /\ Polls /\ Quit /\ [Next]_vars => Quit'
<1> SUFFICES ASSUME Typed, Polls, Quit, [Next]_vars PROVE Quit'
  OBVIOUS
<1> USE DownstreamAssumption DEF Typed, Goto, flags, sigs, mainVars, Quit
<1>1. ASSUME NEW s \in Servers, Autoquit(s) PROVE Quit'
  BY <1>1 DEF Polls, Unanswered, Autoquit, Silence
<1>2. ASSUME NEW s \in Servers, pc[s] # "ended",
             UNCHANGED quitter,
             \A u \in Servers \ {s} : pc'[u] = pc[u] /\ missed'[u] = missed[u]
      PROVE  Quit'
  BY <1>2
<1>3. ASSUME NEW s \in Servers,
             \/ Activate(s) \/ Ended(s) \/ Elapsed(s) \/ RecvResp(s)
             \/ CountPull(s) \/ CountAck(s) \/ CountResp(s) \/ LockConcent(s)
             \/ \E t \in Tokens : SendPull(s, t) \/ RecvAck(s, t)
             \/ \E r \in {"ok", "fail"} : Transmit(s, r)
      PROVE  Quit'
  BY <1>2, <1>3 DEF Activate, Ended, Elapsed, RecvResp, CountPull, CountAck,
                    CountResp, LockConcent, SendPull, RecvAck, Transmit
<1>4. ASSUME UNCHANGED <<quitter, pc, missed>> PROVE Quit'
  BY <1>4
<1>5. ASSUME NEW s \in Servers, FallSilent(s) \/ SockoptFails(s) \/ FatalResp(s)
      PROVE  Quit'
  BY <1>4, <1>5 DEF FallSilent, SockoptFails, FatalResp, threadVars
<1>6. CASE Main \/ Signal \/ BeginFetch \/ EndFetch \/ UNCHANGED vars
  BY <1>4, <1>6 DEF Main, StatsCopy, StatsReset, BeginTrigcnt, EndTrigcnt,
                    JoinUp, Halted, Exit, Signal, BeginFetch, EndFetch, vars,
                    threadVars
<1> QED
  BY <1>1, <1>3, <1>5, <1>6 DEF Next, ThreadDown

LEMMA SpecIInv == Spec => []IInv
<1>1. IInv /\ [Next]_vars => IInv'
  BY NextFlags, NextTyped, NextLocks, NextTallied, NextPolls, NextQuit
  DEF IInv, Core
<1> QED
  BY <1>1, InitIInv, PTL DEF Spec
-----------------------------------------------------------------------------
\* The variables of the thread_downs and main keep their types.
THEOREM SpecTypeOK == Spec => []TypeOK
<1>1. IInv => TypeOK
  BY TypeOKParts DEF IInv, Core
<1> QED
  BY <1>1, SpecIInv, PTL

\* main's snapshots hold a response with its verdict or not at all, modulo
\* the width of the counters, for any number of threads.
THEOREM SpecTxAccounted == Spec => []TxAccounted
<1>1. IInv => TxAccounted
  <2> SUFFICES ASSUME Typed, Balanced(cp, 0) PROVE TxAccounted
    BY DEF IInv, Core, Tallied
  <2>1. cp["ok"] \in Int /\ cp["fail"] \in Int
    BY DEF Typed, Values, Counters
  <2> QED
    BY <2>1 DEF Balanced, TxAccounted
<1> QED
  BY <1>1, SpecIInv, PTL

\* A thread_down quits the program only after autoquit_threshold polls in a
\* row without an accepted PULL_ACK, for any threshold.
THEOREM SpecAutoquitJustified == Spec => []AutoquitJustified
<1>1. IInv => AutoquitJustified
  BY DEF IInv, Core, Quit, AutoquitJustified
<1> QED
  BY <1>1, SpecIInv, PTL

\* lgw_send is called by one thread at a time, never within lgw_receive or
\* main's lgw_get_trigcnt.
TransmitAlone ==
  \A s \in Servers : pc[s] = "tx" =>
    /\ mx_concent \notin {"up", "main"} /\ main_pc # "trig"
    /\ \A t \in Servers \ {s} : pc[t] # "tx"

\* The two mutexes keep every transmission alone with the concentrator, but
\* for the lgw_stop of main, which takes neither.
THEOREM SpecTransmitAlone == Spec => []TransmitAlone
<1>1. IInv => TransmitAlone
  BY DownstreamAssumption DEF IInv, Core, Locks, TransmitAlone
<1> QED
  BY <1>1, SpecIInv, PTL
=============================================================================
