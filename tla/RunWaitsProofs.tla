--------------------------- MODULE RunWaitsProofs ---------------------------
(***************************************************************************)
(* The two waits of a run that a clock ends: for the agent, under the      *)
(* watchdog, whose promises are proved for all limits, intervals and lags; *)
(* and for the workspace, proved for every repository and every pair of    *)
(* markers.                                                                *)
(***************************************************************************)
EXTENDS IdleWatchdog, Workspace, TLAPS

------------------------------------------------------------------------------
(* Waiting for the agent: IdleWatchdog *)

(* The polling interval is positive and no longer than any limit. *)
LEMMA PollBounds ==
  ASSUME TypeOK
  PROVE  /\ poll \in Nat \ {0}
         /\ poll <= MaxPoll
         /\ poll <= idle_timeout
         /\ ceiling > 0 => poll <= ceiling
<1>1. idle_timeout \in Nat \ {0} /\ ceiling \in Nat /\ MaxPoll \in Nat \ {0}
  BY WatchdogAssumption DEF TypeOK
<1> QED BY <1>1 DEF poll, Least

(* No step changes the settings, nor the interval they determine. *)
LEMMA SettingsFixed ==
  ASSUME [Next]_vars
  PROVE  idle_timeout' = idle_timeout /\ ceiling' = ceiling /\ poll' = poll
<1>1. idle_timeout' = idle_timeout /\ ceiling' = ceiling
  BY DEF Next, Tick, Heartbeat, Prompt, Check, Answer, vars, settings
<1> QED BY <1>1 DEF poll, Least

LEMMA TypeStep == TypeOK /\ [Next]_vars => TypeOK'
<1> SUFFICES ASSUME TypeOK, [Next]_vars PROVE TypeOK'
  OBVIOUS
<1>0. /\ idle_timeout' \in IdleTimeouts /\ ceiling' \in Ceilings
      /\ poll \in Nat /\ MaxTime \in Nat
  BY SettingsFixed, PollBounds, WatchdogAssumption DEF TypeOK
<1> HIDE DEF poll
<1>1. CASE Tick
  BY <1>0, <1>1 DEF Tick, TypeOK
<1>2. CASE Heartbeat
  BY <1>0, <1>2 DEF Heartbeat, TypeOK
<1>3. CASE Prompt
  BY <1>0, <1>3 DEF Prompt, RearmActivity, TypeOK
<1>4. CASE Check
  BY <1>0, <1>4 DEF Check, TypeOK
<1>5. CASE Answer
  BY <1>0, <1>5 DEF Answer, TypeOK
<1>6. CASE UNCHANGED vars
  BY <1>0, <1>6 DEF vars, TypeOK
<1> QED BY <1>1, <1>2, <1>3, <1>4, <1>5, <1>6 DEF Next

(* What links the watchdog's sleep to what it saw when it last looked: the *)
(* session was neither silent nor too old then, and the loop has not let   *)
(* it oversleep since.                                                     *)
Timing ==
  /\ heard = last_activity
  /\ phase = "watching" =>
       /\ wake - poll <= now
       /\ now <= wake + Lag
       /\ wake - poll - heard < idle_timeout
       /\ ceiling > 0 => wake - poll - started < ceiling

LEMMA TimingStep == TypeOK /\ Timing /\ [Next]_vars => Timing'
<1> SUFFICES ASSUME TypeOK, Timing, [Next]_vars PROVE Timing'
  OBVIOUS
<1>0. /\ now \in Nat /\ wake \in Nat /\ heard \in Nat /\ started \in Nat
      /\ last_activity \in Nat /\ last_activity <= now
      /\ idle_timeout \in Nat \ {0} /\ ceiling \in Nat /\ Lag \in Nat
  BY WatchdogAssumption DEF TypeOK
<1>p. poll \in Nat \ {0} /\ poll' = poll
  BY PollBounds, SettingsFixed
<1>s. idle_timeout' = idle_timeout /\ ceiling' = ceiling
  BY SettingsFixed
<1> HIDE DEF poll
<1>1. CASE Tick
  BY <1>0, <1>p, <1>s, <1>1 DEF Tick, Timing
<1>2. CASE Heartbeat
  BY <1>0, <1>p, <1>s, <1>2 DEF Heartbeat, Timing
<1>3. CASE Prompt
  BY <1>0, <1>p, <1>s, <1>3 DEF Prompt, RearmActivity, Timing
<1>4. CASE Check
  <2>1. CASE phase' \in {"idle", "ceiling"}
    BY <1>s, <1>4, <2>1 DEF Check, Timing
  <2>2. CASE ~Silent /\ ~TooOld /\ wake' = now + poll /\ UNCHANGED phase
    BY <1>0, <1>p, <1>s, <1>4, <2>2 DEF Check, Silent, TooOld, Timing
  <2> QED BY <1>4, <2>1, <2>2 DEF Check
<1>5. CASE Answer
  BY <1>p, <1>s, <1>5 DEF Answer, Timing
<1>6. CASE UNCHANGED vars
  BY <1>p, <1>s, <1>6 DEF vars, Timing
<1> QED BY <1>1, <1>2, <1>3, <1>4, <1>5, <1>6 DEF Next

LEMMA SilenceStep == TypeOK /\ Timing /\ OnlySilenceKills /\ [Next]_vars => OnlySilenceKills'
<1> SUFFICES ASSUME TypeOK, Timing, OnlySilenceKills, [Next]_vars PROVE OnlySilenceKills'
  OBVIOUS
<1>s. idle_timeout' = idle_timeout /\ ceiling' = ceiling
  BY SettingsFixed
<1>1. CASE Tick
  BY <1>s, <1>1 DEF Tick, Alive, OnlySilenceKills
<1>2. CASE Heartbeat
  BY <1>s, <1>2 DEF Heartbeat, Alive, OnlySilenceKills
<1>3. CASE Prompt
  BY <1>s, <1>3 DEF Prompt, OnlySilenceKills
<1>4. CASE Check
  BY <1>s, <1>4 DEF Check, Silent, TooOld, Timing, OnlySilenceKills
<1>5. CASE Answer
  BY <1>s, <1>5 DEF Answer, OnlySilenceKills
<1>6. CASE UNCHANGED vars
  BY <1>s, <1>6 DEF vars, OnlySilenceKills
<1> QED BY <1>1, <1>2, <1>3, <1>4, <1>5, <1>6 DEF Next

LEMMA InitTiming == Init => TypeOK /\ Timing /\ OnlySilenceKills
BY WatchdogAssumption DEF Init, TypeOK, Timing, OnlySilenceKills

(* Type correctness of the watchdog. *)
THEOREM WatchdogTypeCorrect == Spec => []TypeOK
<1>1. TypeOK /\ [Next]_vars => TypeOK'
  BY TypeStep
<1> QED BY InitTiming, <1>1, PTL DEF Spec

LEMMA AlwaysTiming == Spec => []Timing
<1>1. TypeOK /\ Timing /\ [Next]_vars => Timing'
  BY TimingStep
<1> QED BY InitTiming, <1>1, WatchdogTypeCorrect, PTL DEF Spec

(* _idle_watchdog never ends a session on its total age alone. *)
THEOREM LiveIsNeverKilled == Spec => []OnlySilenceKills
<1>1. TypeOK /\ Timing /\ OnlySilenceKills /\ [Next]_vars => OnlySilenceKills'
  BY SilenceStep
<1> QED BY InitTiming, <1>1, WatchdogTypeCorrect, AlwaysTiming, PTL DEF Spec

(* However the limits are set, a silent session and one past its ceiling    *)
(* are given up within one interval, itself never longer than the limit.    *)
THEOREM SilenceIsKilled == Spec => []SilenceIsNoticed
<1>1. TypeOK /\ Timing => SilenceIsNoticed
  <2> SUFFICES ASSUME TypeOK, Timing, phase = "watching"
               PROVE  /\ now - heard < idle_timeout + MaxPoll + Lag
                      /\ now - heard < 2 * idle_timeout + Lag
                      /\ ceiling > 0 => /\ now - started < ceiling + MaxPoll + Lag
                                        /\ now - started < 2 * ceiling + Lag
    BY DEF SilenceIsNoticed
  <2>1. /\ now \in Nat /\ wake \in Nat /\ heard \in Nat /\ started \in Nat
        /\ idle_timeout \in Nat /\ ceiling \in Nat /\ Lag \in Nat /\ MaxPoll \in Nat
    BY WatchdogAssumption DEF TypeOK
  <2>p. poll \in Nat /\ poll <= MaxPoll /\ poll <= idle_timeout /\ (ceiling > 0 => poll <= ceiling)
    BY PollBounds
  <2> HIDE DEF poll
  <2>2. now - heard < idle_timeout + poll + Lag
    BY <2>1, <2>p DEF Timing
  <2>3. ceiling > 0 => now - started < ceiling + poll + Lag
    BY <2>1, <2>p DEF Timing
  <2> QED BY <2>1, <2>2, <2>3, <2>p
<1> QED BY <1>1, WatchdogTypeCorrect, AlwaysTiming, PTL

------------------------------------------------------------------------------
(* Waiting for the workspace: Workspace *)

(* A clone that is done stays as it is. *)
DoneIsWhole == clone = "done" => \A f \in repo : container[f] = "whole"

(* What a copy that began after that has come by is whole. *)
CopyIsWhole ==
  began = "done" => clone = "done" /\ \A f \in repo \ unread : host[f] = "whole"

(* A copy is over when it has come by every file. *)
CopyIsOver == bridge \in {"checking", "ready"} => unread = {}

CopyingInv == PrepareTypeOK /\ DoneIsWhole /\ CopyIsWhole /\ CopyIsOver

------------------------------------------------------------------------------

LEMMA CopyingInit == PrepareInit => CopyingInv
  BY DEF PrepareInit, CopyingInv, PrepareTypeOK, DoneIsWhole, CopyIsWhole,
         CopyIsOver, Empty, There

(* Whatever entrypoint and git do, they leave a finished clone alone. *)
LEMMA ContainerInv ==
  ASSUME CopyingInv, Container
  PROVE  CopyingInv'
<1>1. /\ UNCHANGED <<repo, host, bridge, unread, late, began>>
      /\ clone # "done"
  BY DEF Container, Clone, CloneFails, Checkout,
         CheckoutFails, Cloned
<1>2. /\ container' \in [Path -> There]
      /\ clone' \in {"waiting", "cloning", "done", "failed"}
      /\ clone' = "done" => \A f \in repo : container'[f] = "whole"
  <2>1. CASE Clone
    BY <2>1 DEF Clone, CopyingInv, PrepareTypeOK, There
  <2>2. CASE CloneFails
    BY <2>2 DEF CloneFails, Empty, There
  <2>3. ASSUME NEW f \in repo, Checkout(f)
        PROVE  container' \in [Path -> There] /\ clone' = "cloning"
    BY <2>3
       DEF Checkout, Grow, CopyingInv, PrepareTypeOK, There
  <2>4. CASE CheckoutFails
    BY <2>4 DEF CheckoutFails, CopyingInv, PrepareTypeOK
  <2>5. CASE Cloned
    BY <2>5 DEF Cloned, CopyingInv, PrepareTypeOK
  <2>. QED  BY <2>1, <2>2, <2>3, <2>4, <2>5 DEF Container
<1>3. PrepareTypeOK' /\ DoneIsWhole'
  BY <1>1, <1>2 DEF CopyingInv, PrepareTypeOK, DoneIsWhole
<1>4. CopyIsWhole' /\ CopyIsOver'
  BY <1>1 DEF CopyingInv, CopyIsWhole, CopyIsOver
<1>. QED  BY <1>3, <1>4 DEF CopyingInv

(* One file is copied: over what is there, or not at all. *)
LEMMA CopyInv ==
  ASSUME CopyingInv, NEW f \in Path, Copy(f), UNCHANGED <<repo, clone, container>>
  PROVE  CopyingInv'
<1>1. /\ host' = [host EXCEPT ![f] = Copied(host, f)]
      /\ unread' = unread \ {f} /\ late' = late /\ began' = began
      /\ bridge' = IF unread' = {} THEN "checking" ELSE "copying"
  BY DEF Copy
<1>2. Copied(host, f) \in There
  BY DEF Copied, CopyingInv, PrepareTypeOK
<1>3. PrepareTypeOK' /\ DoneIsWhole' /\ CopyIsOver'
  BY <1>1, <1>2 DEF CopyingInv, PrepareTypeOK, DoneIsWhole, CopyIsOver
<1>4. CopyIsWhole'
  <2>. SUFFICES ASSUME began = "done" PROVE CopyIsWhole'
    BY <1>1 DEF CopyIsWhole
  <2>1. f \in repo => Copied(host, f) = "whole"
    BY DEF CopyingInv, DoneIsWhole, CopyIsWhole, Copied
  <2>. QED  BY <1>1, <2>1 DEF CopyingInv, PrepareTypeOK, CopyIsWhole
<1>. QED  BY <1>3, <1>4 DEF CopyingInv

LEMMA CopyingNext == CopyingInv /\ [PrepareNext]_prepareVars => CopyingInv'
<1>. SUFFICES ASSUME CopyingInv, [PrepareNext]_prepareVars PROVE CopyingInv'
  OBVIOUS
<1>. USE DEF CopyingInv, PrepareTypeOK, DoneIsWhole, CopyIsWhole, CopyIsOver
<1>1. CASE Container
  BY <1>1, ContainerInv
<1>2. CASE Bridge
  <2>1. ASSUME NEW f \in Path, Copy(f) PROVE CopyingInv'
    BY <1>2, <2>1, CopyInv DEF Bridge
  <2>2. CASE CopyFails
    BY <1>2, <2>2 DEF Bridge, CopyFails
  <2>3. CASE CheckMarkers
    BY <1>2, <2>3 DEF Bridge, CheckMarkers, Outcome
  <2>4. CASE CopyAgain
    BY <1>2, <2>4 DEF Bridge, CopyAgain, Elapsed
  <2>. QED  BY <1>2, <2>1, <2>2, <2>3, <2>4 DEF Bridge
<1>3. CASE Deadline
  BY <1>3 DEF Deadline
<1>4. CASE UNCHANGED prepareVars
  BY <1>4 DEF prepareVars
<1>. QED  BY <1>1, <1>2, <1>3, <1>4 DEF PrepareNext

LEMMA CopyingInvariant == PrepareSpec => []CopyingInv
<1>. QED  BY CopyingInit, CopyingNext, PTL DEF PrepareSpec

------------------------------------------------------------------------------

(* A workspace that is handed out is the whole repository, if its last     *)
(* copy began when the clone was done: no earlier copy of a half-written   *)
(* file is left in it (SandboxBridge._materialize).                        *)
THEOREM WorkspaceIsWhole == PrepareSpec => []WorkspaceOK
<1>1. CopyingInv => WorkspaceOK
  BY DEF CopyingInv, WorkspaceOK, WholeOrOverlapped, CopyIsWhole,
         CopyIsOver
<1>. QED  BY <1>1, CopyingInvariant, PTL

(* The deadline fails no workspace that was copied whole: the markers are  *)
(* looked at before the clock.                                             *)
THEOREM FailureHasCause == PrepareSpec => DeadlineIsFair
<1>. DEFINE Fair == bridge = "checking" /\ bridge' = "failed"
                      => began # "done" \/ ~(READY_MARKERS \subseteq repo)
<1>1. CopyingInv /\ [PrepareNext]_prepareVars => Fair
  <2>. SUFFICES ASSUME CopyingInv, [PrepareNext]_prepareVars,
                       bridge = "checking", bridge' = "failed",
                       began = "done", READY_MARKERS \subseteq repo
                PROVE  FALSE
    OBVIOUS
  <2>1. CheckMarkers
    BY DEF PrepareNext, prepareVars, Container, Bridge,
           Copy, CopyFails, CopyAgain, Deadline
  <2>2. \A m \in READY_MARKERS : host[m] = "whole"
    BY DEF CopyingInv, CopyIsWhole, CopyIsOver
  <2>3. Materialized
    BY <2>2 DEF Materialized
  <2>4. bridge' = "ready"
    BY <2>1, <2>3 DEF CheckMarkers, Outcome
  <2>. QED  BY <2>4
<1>2. PrepareSpec => [][Fair]_prepareVars
  BY <1>1, CopyingInvariant, PTL DEF PrepareSpec
<1>. QED  BY <1>2 DEF DeadlineIsFair
==============================================================================
