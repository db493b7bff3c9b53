------------------------------ MODULE Monitor ------------------------------
(***************************************************************************)
(* monitor.c: thread_monitor opens and closes tunnels at the command of a  *)
(* monitor server.  A tunnel is a child process, known by its process id   *)
(* only; it may end by itself, takes its time to obey SIGTERM, and its id  *)
(* may then go to another process.  SIGCHLD is ignored, so that a dead     *)
(* child leaves no trace.  Shell commands touch no tunnel; PolyStart adds  *)
(* them, with the configuration they come from.                            *)
(***************************************************************************)
EXTENDS Integers

CONSTANT Pids   \* process ids the system gives out

ASSUME MonitorAssumption == Pids \subseteq Nat \ {0}

Tunnels == {"ssh", "ngrok", "web"}

VARIABLES
  monitor_run,  \* the monitor thread is running
  pid,          \* ssh_pid, ngrok_pid and web_pid, 0 for none
  proc,         \* per id, "none", "other" or the tunnel it is
  told          \* ids of tunnels that were sent SIGTERM

vars == <<monitor_run, pid, proc, told>>

Init ==
  /\ monitor_run = FALSE
  /\ pid = [k \in Tunnels |-> 0]
  /\ proc = [p \in Pids |-> "none"]
  /\ told = {}

\* monitor_start: "You cannot start a running monitor listener."
Start ==
  /\ ~monitor_run
  /\ monitor_run' = TRUE
  /\ UNCHANGED <<pid, proc, told>>

\* Mutant of Rivals: each kind looks at its own process id only.
OwnOnly(k) == {k}

\* Mutant of Rivals: each kind looks at the other's process id only.
OtherOnly(k) == CASE k = "ssh" -> {"ngrok"} [] k = "ngrok" -> {"ssh"}
                  [] OTHER -> {"web"}

\* ssh and ngrok lead to the same local port.
Rivals(k) == IF k = "web" THEN {"web"} ELSE {"ssh", "ngrok"}

Busy(k) == \E r \in Rivals(k) : pid[r] > 0

\* open_ssh, open_ngrok, open_web: fork may fail, and leaves 0.
Open(k) ==
  /\ monitor_run /\ ~Busy(k)
  /\ \E p \in Pids :
       /\ proc[p] = "none"
       /\ proc' = [proc EXCEPT ![p] = k]
       /\ pid' = [pid EXCEPT ![k] = p]
  /\ UNCHANGED <<monitor_run, told>>

\* close_ssh, close_ngrok, close_web: kill reaches whatever process has the
\* id now.  If there is none, or it is not ours to kill, the id is kept.
Close(k) ==
  /\ monitor_run /\ pid[k] > 0 /\ proc[pid[k]] # "none"
  /\ IF proc[pid[k]] = "other"
     THEN proc' = [proc EXCEPT ![pid[k]] = "none"] /\ UNCHANGED told
     ELSE told' = told \cup {pid[k]} /\ UNCHANGED proc
  /\ pid' = [pid EXCEPT ![k] = 0]
  /\ UNCHANGED monitor_run

\* monitor_stop leaves the tunnels alone.
Stop ==
  /\ monitor_run
  /\ monitor_run' = FALSE
  /\ UNCHANGED <<pid, proc, told>>

\* A process ends: a tunnel that was told to, lost its connection or could
\* not be executed, or one of the system's.
Ends(p) ==
  /\ proc[p] # "none"
  /\ proc' = [proc EXCEPT ![p] = "none"]
  /\ told' = told \ {p}
  /\ UNCHANGED <<monitor_run, pid>>

OtherStarts(p) ==
  /\ proc[p] = "none"
  /\ proc' = [proc EXCEPT ![p] = "other"]
  /\ UNCHANGED <<monitor_run, pid, told>>

Command(k) == Open(k) \/ Close(k)

Next ==
  \/ \E k \in Tunnels : Command(k)
  \/ Start \/ Stop
  \/ \E p \in Pids : Ends(p) \/ OtherStarts(p)

Spec == Init /\ [][Next]_vars
-----------------------------------------------------------------------------
TypeOK ==
  /\ monitor_run \in BOOLEAN
  /\ pid \in [Tunnels -> Pids \cup {0}]
  /\ proc \in [Pids -> Tunnels \cup {"none", "other"}]
  /\ told \subseteq Pids

\* A tunnel that was not told to end can still be closed by a command: its
\* process id is the recorded one, whatever ids were given out again.
NoTunnelLost ==
  \A p \in Pids : proc[p] \in Tunnels /\ p \notin told => pid[proc[p]] = p

\* No two processes, neither of them told to end, tunnel to the SSH port.
OneSshTunnel ==
  \A p, q \in Pids \ told :
    proc[p] \in {"ssh", "ngrok"} /\ proc[q] \in {"ssh", "ngrok"} => p = q
=============================================================================
