----------------------------- MODULE IdleWatchdog -----------------------------
(***************************************************************************)
(* When a session is killed (AcpHost._idle_watchdog, acp_host.py): a task  *)
(* that sleeps, looks at the clock and at the last sign of life, and gives *)
(* up on a session silent for idle_timeout, or older than the ceiling if   *)
(* there is one.  The handshake comes first, under limits of its own.      *)
(*                                                                         *)
(* Time is counted in ticks.  A sleeping task is woken when its sleep is   *)
(* over or up to Lag ticks later, when the event loop was busy.            *)
(***************************************************************************)
EXTENDS Integers

CONSTANTS IdleTimeouts,  \* values of ACP_IDLE_TIMEOUT, positive (config.py)
          Ceilings,      \* values of ACP_PROMPT_TIMEOUT, 0: none
          MaxPoll,       \* the 5.0 seconds of poll
          Lag,           \* how late the event loop may wake the watchdog
          MaxTime        \* bound: how long the clock runs

ASSUME WatchdogAssumption ==
  /\ IdleTimeouts \subseteq Nat \ {0}
  /\ Ceilings \subseteq Nat
  /\ MaxPoll \in Nat \ {0}
  /\ Lag \in Nat
  /\ MaxTime \in Nat

VARIABLES idle_timeout,   \* the settings, fixed at start
          ceiling,
          now,            \* time.monotonic()
          last_activity,  \* HostClient.last_activity
          phase,          \* "handshake", "watching", or why the session ended
          started,        \* when the watchdog started
          wake,           \* when its current sleep is over
          heard           \* history: the last sign of life since the prompt was sent

settings == <<idle_timeout, ceiling>>
vars == <<settings, now, last_activity, phase, started, wake, heard>>

Least(a, b) == IF a <= b THEN a ELSE b

(* faulty: the interval forgets how near the idle limit is. *)
CoarsePoll == MaxPoll

(* `min(idle_timeout, ceiling if ceiling > 0 else idle_timeout, 5.0)` *)
poll == Least(Least(idle_timeout, IF ceiling > 0 THEN ceiling ELSE idle_timeout), MaxPoll)

(* HostClient.__init__ *)
Init ==
  /\ idle_timeout \in IdleTimeouts
  /\ ceiling \in Ceilings
  /\ now = 0
  /\ last_activity = 0
  /\ phase = "handshake"
  /\ started = 0
  /\ wake = 0
  /\ heard = 0

Alive == phase \in {"handshake", "watching"}

(* Time passes, but no further than a sleeping watchdog may oversleep. *)
Tick ==
  /\ Alive
  /\ now < MaxTime
  /\ phase = "watching" => now < wake + Lag
  /\ now' = now + 1
  /\ UNCHANGED <<settings, last_activity, phase, started, wake, heard>>

(* A session/update, or a line on the harness's stderr, which already logs  *)
(* during the handshake.                                                    *)
Heartbeat ==
  /\ Alive
  /\ last_activity' = now
  /\ heard' = now
  /\ UNCHANGED <<settings, now, phase, started, wake>>

(* faulty: the handshake is charged to the idle budget. *)
KeepActivity == UNCHANGED last_activity

(* faulty: the prompt starts with one poll of credit. *)
RearmWithCredit == last_activity' = now + poll

RearmActivity == last_activity' = now

(* The prompt is sent and the watchdog begins its first sleep. *)
Prompt ==
  /\ phase = "handshake"
  /\ RearmActivity
  /\ phase' = "watching"
  /\ started' = now
  /\ wake' = now + poll
  /\ heard' = now
  /\ UNCHANGED <<settings, now>>

(* faulty: the age is measured against the idle limit as well. *)
TooOldStopwatch == now - started >= idle_timeout

TooOld == ceiling > 0 /\ now - started >= ceiling

(* faulty: exactly idle_timeout does not count yet. *)
SilentForLonger == now - last_activity > idle_timeout

Silent == now - last_activity >= idle_timeout

(* One turn of the watchdog's loop. *)
Check ==
  /\ phase = "watching"
  /\ now >= wake
  /\ \/ Silent /\ phase' = "idle" /\ UNCHANGED wake
     \/ ~Silent /\ TooOld /\ phase' = "ceiling" /\ UNCHANGED wake
     \/ ~Silent /\ ~TooOld /\ wake' = now + poll /\ UNCHANGED phase
  /\ UNCHANGED <<settings, now, last_activity, started, heard>>

(* The prompt ends by itself, well or badly. *)
Answer ==
  /\ phase = "watching"
  /\ phase' = "answered"
  /\ UNCHANGED <<settings, now, last_activity, started, wake, heard>>

Next == Tick \/ Heartbeat \/ Prompt \/ Check \/ Answer

Spec == Init /\ [][Next]_vars

------------------------------------------------------------------------------
(* Properties *)

TypeOK ==
  /\ idle_timeout \in IdleTimeouts
  /\ ceiling \in Ceilings
  /\ now \in 0..MaxTime
  /\ last_activity \in 0..now
  /\ phase \in {"handshake", "watching", "idle", "ceiling", "answered"}
  /\ started \in 0..now
  /\ wake \in Nat
  /\ heard \in 0..now

(* "A live session is never killed on a stopwatch": a session is given up   *)
(* only after idle_timeout without a sign of life since its prompt was      *)
(* sent, the handshake not counted, or at the age of a configured ceiling.  *)
OnlySilenceKills ==
  /\ phase = "idle" => now - heard >= idle_timeout
  /\ phase = "ceiling" => ceiling > 0 /\ now - started >= ceiling

(* A hung session does not hold the queue: it is given up before it has     *)
(* been silent for idle_timeout and one interval, and at twice the idle     *)
(* limit at the latest, whatever the limits are set to (and likewise for    *)
(* the ceiling), give or take how late the event loop is.                   *)
SilenceIsNoticed ==
  phase = "watching" =>
    /\ now - heard < idle_timeout + MaxPoll + Lag
    /\ now - heard < 2 * idle_timeout + Lag
    /\ ceiling > 0 => now - started < ceiling + MaxPoll + Lag /\ now - started < 2 * ceiling + Lag

==============================================================================
