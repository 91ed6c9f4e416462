---------------------------- MODULE AcpHostProofs ----------------------------
(***************************************************************************)
(* What is proved of AcpHost for any number of runs: its type invariant,   *)
(* that no agent outlives its run unless closing its trace raises, that a  *)
(* sandbox left behind has a cause the feed or the shutdown shows, and     *)
(* that a run's two verdicts agree.                                        *)
(***************************************************************************)
EXTENDS AcpHost, TLAPS

(* The lifecycle events of a run stay a sequence of known events. *)
LEMMA EmitType ==
  ASSUME events \in [Run -> Seq(Event)], NEW r \in Run, NEW es \in Seq(Event), Emit(r, es)
  PROVE  events' \in [Run -> Seq(Event)]
<1>1. events[r] \o es \in Seq(Event)
  OBVIOUS
<1> QED BY <1>1 DEF Emit

(* The event sequences the actions append. *)
LEMMA EventSeqs ==
  /\ <<>> \in Seq(Event)
  /\ \A ok \in BOOLEAN : Report(ok) \in Seq(Event)
  /\ <<"provisioned">> \in Seq(Event)
  /\ <<"started">> \in Seq(Event)
  /\ <<"finished_failed">> \in Seq(Event)
  /\ <<"finished_ok">> \in Seq(Event)
  /\ <<"released_ok">> \in Seq(Event)
  /\ <<"released_failed">> \in Seq(Event)
BY DEF Event, Report

(* Every verdict of the race is one a run can end with. *)
LEMMA RaceType ==
  ASSUME NEW prompt, NEW watchdog
  PROVE  _resolve_prompt_race(prompt, watchdog) \in {"answered", "failed"}
BY DEF _resolve_prompt_race

LEMMA ConcatType ==
  ASSUME NEW s \in Seq(Event), NEW t \in Seq(Event)
  PROVE  s \o t \in Seq(Event)
OBVIOUS

LEMMA InitType == Init => TypeOK
<1> SUFFICES ASSUME Init PROVE TypeOK
  OBVIOUS
<1>1. events \in [Run -> Seq(Event)]
  <2>1. <<>> \in Seq(Event)
    OBVIOUS
  <2> QED BY <2>1 DEF Init
<1> QED BY <1>1 DEF Init, TypeOK, Sleeping

(* Ending a run keeps the types of what it writes. *)
LEMMA ConcludeType ==
  ASSUME TypeOK, NEW r \in Run, Conclude(r)
  PROVE  /\ pc' \in [Run -> Awaits \cup Sleeping \cup {"close"}]
         /\ consumer' \in {"looping", "ended"}
         /\ events' \in [Run -> Seq(Event)]
         /\ spoiled' \subseteq Run
<1>1. pc' \in [Run -> Awaits \cup Sleeping \cup {"close"}]
  BY DEF Conclude, GoTo, TypeOK, Sleeping
<1>2. consumer' \in {"looping", "ended"}
  BY DEF Conclude, Loop, TypeOK
<1>3. events' \in [Run -> Seq(Event)]
  <2>1. events \in [Run -> Seq(Event)]
    BY DEF TypeOK
  <2>2. <<"finished_ok">> \o Report(TRUE) \in Seq(Event) /\ <<"finished_ok">> \o Report(FALSE) \in Seq(Event)
    <3>1. Report(TRUE) \in Seq(Event) /\ Report(FALSE) \in Seq(Event)
      BY EventSeqs
    <3> QED BY <3>1, EventSeqs, ConcatType
  <2>3. CASE \E es \in Seq(Event) : Emit(r, es)
    BY <2>1, <2>3, EmitType
  <2>4. CASE UNCHANGED events
    BY <2>1, <2>4
  <2>5. (\E es \in Seq(Event) : Emit(r, es)) \/ UNCHANGED events
    BY <2>2, EventSeqs DEF Conclude
  <2> QED BY <2>3, <2>4, <2>5
<1>4. spoiled' \subseteq Run
  <2>1. spoiled' = spoiled \cup {r} \/ spoiled' = spoiled
    BY DEF Conclude
  <2>2. spoiled \subseteq Run
    BY DEF TypeOK
  <2> QED BY <2>1, <2>2
<1> QED BY <1>1, <1>2, <1>3, <1>4

LEMMA EnterReleaseType ==
  ASSUME TypeOK, NEW r \in Run, EnterRelease(r)
  PROVE  /\ pc' \in [Run -> Awaits \cup Sleeping \cup {"close"}]
         /\ consumer' \in {"looping", "ended"}
         /\ events' \in [Run -> Seq(Event)]
         /\ release' \in [Run -> {"none", "running", "done"}]
         /\ spoiled' \subseteq Run
<1>1. CASE sandbox_enabled
  <2>1. /\ pc' = [pc EXCEPT ![r] = "release"] /\ release' = [release EXCEPT ![r] = "running"]
        /\ UNCHANGED <<consumer, events, spoiled>>
    BY <1>1 DEF EnterRelease, GoTo
  <2>2. "release" \in Awaits
    BY DEF Awaits
  <2>3. /\ pc \in [Run -> Awaits \cup Sleeping \cup {"close"}]
        /\ release \in [Run -> {"none", "running", "done"}]
    BY DEF TypeOK
  <2>4. /\ consumer \in {"looping", "ended"} /\ events \in [Run -> Seq(Event)]
        /\ spoiled \subseteq Run
    BY DEF TypeOK
  <2> QED BY <2>1, <2>2, <2>3, <2>4
<1>2. CASE ~sandbox_enabled
  <2>1. Conclude(r) /\ UNCHANGED release
    BY <1>2 DEF EnterRelease
  <2> QED BY <2>1, ConcludeType DEF TypeOK
<1> QED BY <1>1, <1>2

(* Ending a run with a failure keeps the types of what it writes. *)
LEMMA FailAtOnceType ==
  ASSUME TypeOK, NEW r \in Run, FailAtOnce(r)
  PROVE  /\ pc' \in [Run -> Awaits \cup Sleeping \cup {"close"}]
         /\ verdict' \in [Run -> {"none", "answered", "failed", "cancelled"}]
         /\ events' \in [Run -> Seq(Event)]
<1>1. events \in [Run -> Seq(Event)] /\ Report(FALSE) \in Seq(Event) /\ Emit(r, Report(FALSE))
  BY EventSeqs DEF TypeOK, FailAtOnce
<1>2. events' \in [Run -> Seq(Event)]
  BY <1>1, EmitType
<1> QED BY <1>2 DEF FailAtOnce, TypeOK, GoTo, Rule, Sleeping

LEMMA SetUpType ==
  ASSUME TypeOK, NEW r \in Run, NEW before \in Seq(Event), SetUp(r, before)
  PROVE  /\ pc' \in [Run -> Awaits \cup Sleeping \cup {"close"}]
         /\ verdict' \in [Run -> {"none", "answered", "failed", "cancelled"}]
         /\ trace' \in [Run -> {"none", "open", "closed"}]
         /\ events' \in [Run -> Seq(Event)]
<1>0. events \in [Run -> Seq(Event)]
  BY DEF TypeOK
<1>1. before \o Report(FALSE) \in Seq(Event)
  <2>1. Report(FALSE) \in Seq(Event)
    BY EventSeqs
  <2> QED BY <2>1, ConcatType
<1>2. Emit(r, before) \/ Emit(r, before \o Report(FALSE))
  BY DEF SetUp
<1>3. events' \in [Run -> Seq(Event)]
  BY <1>0, <1>1, <1>2, EmitType
<1>4. pc' \in [Run -> Awaits \cup Sleeping \cup {"close"}]
  <2>1. pc \in [Run -> Awaits \cup Sleeping \cup {"close"}]
    BY DEF TypeOK
  <2>2. pc' = [pc EXCEPT ![r] = "spawn"] \/ pc' = [pc EXCEPT ![r] = "done"]
    BY DEF SetUp, GoTo
  <2>3. {"spawn", "done"} \subseteq Awaits \cup Sleeping
    BY DEF Awaits, Sleeping
  <2> QED BY <2>1, <2>2, <2>3
<1>5. verdict' \in [Run -> {"none", "answered", "failed", "cancelled"}]
  BY DEF SetUp, TypeOK, Rule
<1>6. trace' \in [Run -> {"none", "open", "closed"}]
  BY DEF SetUp, TypeOK
<1> QED BY <1>3, <1>4, <1>5, <1>6

(* Cancelling a run keeps the types of what it writes. *)
LEMMA InterruptType ==
  ASSUME TypeOK, NEW r \in Run, Interrupt(r)
  PROVE  /\ pc' \in [Run -> Awaits \cup Sleeping \cup {"close"}]
         /\ verdict' \in [Run -> {"none", "answered", "failed", "cancelled"}]
         /\ consumer' \in {"looping", "ended"}
         /\ sandbox' \in [Run -> {"none", "up", "deleted"}]
         /\ agent' \in [Run -> {"none", "alive", "dead"}]
<1>1. pc' \in [Run -> Awaits \cup Sleeping \cup {"close"}]
  <2>1. \E stage \in {"done", "close", "exit", "drain"} : pc' = [pc EXCEPT ![r] = stage]
    BY DEF Interrupt, GoTo
  <2>2. {"done", "close", "exit", "drain"} \subseteq Awaits \cup Sleeping \cup {"close"}
    BY DEF Awaits, Sleeping
  <2> QED BY <2>1, <2>2 DEF TypeOK
<1>2. verdict' \in [Run -> {"none", "answered", "failed", "cancelled"}]
  BY DEF Interrupt, TypeOK, Rule
<1>3. consumer' \in {"looping", "ended"}
  BY DEF Interrupt, TypeOK
<1>4. sandbox' \in [Run -> {"none", "up", "deleted"}]
  <2>1. \/ sandbox' = sandbox
        \/ \E s \in {"up", "deleted"} : sandbox' = [sandbox EXCEPT ![r] = s]
    BY DEF Interrupt, Sandbox
  <2>2. sandbox \in [Run -> {"none", "up", "deleted"}]
    BY DEF TypeOK
  <2> QED BY <2>1, <2>2
<1>5. agent' \in [Run -> {"none", "alive", "dead"}]
  BY DEF Interrupt, TypeOK
<1> QED BY <1>1, <1>2, <1>3, <1>4, <1>5

(* Every action keeps the types. *)
LEMMA NextType == TypeOK /\ [Next]_vars => TypeOK'
<1> SUFFICES ASSUME TypeOK, [Next]_vars PROVE TypeOK'
  OBVIOUS
<1>1. ASSUME NEW r \in Run, Take(r) PROVE TypeOK'
  <2>1. CASE FailAtOnce(r)
    BY <1>1, <2>1, FailAtOnceType DEF Take, TypeOK, sharedVars
  <2>2. CASE GoTo(r, IF sandbox_enabled THEN "create" ELSE "workspace") /\ UNCHANGED <<verdict, events>>
    BY <1>1, <2>2 DEF Take, TypeOK, sharedVars, GoTo, Awaits, Preparing
  <2> QED BY <1>1, <2>1, <2>2 DEF Take
<1>2. ASSUME NEW r \in Run, CreateSandbox(r) PROVE TypeOK'
  <2>1. sandbox' \in [Run -> {"none", "up", "deleted"}]
    BY <1>2 DEF CreateSandbox, TypeOK, Sandbox
  <2>2. CASE FailAtOnce(r)
    BY <1>2, <2>1, <2>2, FailAtOnceType DEF CreateSandbox, TypeOK, sharedVars
  <2>3. CASE GoTo(r, "materialize") /\ UNCHANGED <<verdict, events>>
    BY <1>2, <2>1, <2>3 DEF CreateSandbox, TypeOK, sharedVars, GoTo, Awaits, Preparing
  <2> QED BY <1>2, <2>2, <2>3 DEF CreateSandbox
<1>3. ASSUME NEW r \in Run, Materialize(r) PROVE TypeOK'
  BY <1>3 DEF Materialize, TypeOK, sharedVars, GoTo, Awaits, Preparing
<1>4. ASSUME NEW r \in Run, Undo(r) PROVE TypeOK'
  <2>1. sandbox' \in [Run -> {"none", "up", "deleted"}]
    BY <1>4 DEF Undo, TypeOK, Sandbox
  <2> QED BY <1>4, <2>1, FailAtOnceType DEF Undo, TypeOK, sharedVars
<1>5. ASSUME NEW r \in Run, RemoveOrigin(r) PROVE TypeOK'
  <2>1. CASE SetUp(r, <<"provisioned">>)
    <3>1. <<"provisioned">> \in Seq(Event)
      BY EventSeqs
    <3> QED BY <1>5, <2>1, <3>1, SetUpType DEF RemoveOrigin, TypeOK, sharedVars
  <2>2. CASE FailAtOnce(r) /\ UNCHANGED trace
    BY <1>5, <2>2, FailAtOnceType DEF RemoveOrigin, TypeOK, sharedVars
  <2> QED BY <1>5, <2>1, <2>2 DEF RemoveOrigin
<1>6. ASSUME NEW r \in Run, PrepareWorkspace(r) PROVE TypeOK'
  <2>1. CASE SetUp(r, <<>>)
    <3>1. <<>> \in Seq(Event)
      OBVIOUS
    <3> QED BY <1>6, <2>1, <3>1, SetUpType DEF PrepareWorkspace, TypeOK, sharedVars
  <2>2. CASE FailAtOnce(r) /\ UNCHANGED trace
    BY <1>6, <2>2, FailAtOnceType DEF PrepareWorkspace, TypeOK, sharedVars
  <2> QED BY <1>6, <2>1, <2>2 DEF PrepareWorkspace
<1>7. ASSUME NEW r \in Run, Spawn(r) PROVE TypeOK'
  <2>1. events' \in [Run -> Seq(Event)]
    <3>1. <<"finished_failed">> \in Seq(Event) /\ events \in [Run -> Seq(Event)]
      BY EventSeqs DEF TypeOK
    <3>2. Emit(r, <<"finished_failed">>) \/ UNCHANGED events
      BY <1>7 DEF Spawn
    <3> QED BY <3>1, <3>2, EmitType
  <2>2. pc' \in [Run -> Awaits \cup Sleeping \cup {"close"}]
    <3>1. pc' = [pc EXCEPT ![r] = "handshake"] \/ pc' = [pc EXCEPT ![r] = "close"]
      BY <1>7 DEF Spawn, GoTo
    <3>2. pc \in [Run -> Awaits \cup Sleeping \cup {"close"}] /\ "handshake" \in Awaits
      BY DEF TypeOK, Awaits
    <3> QED BY <3>1, <3>2
  <2>3. /\ agent' \in [Run -> {"none", "alive", "dead"}]
        /\ verdict' \in [Run -> {"none", "answered", "failed", "cancelled"}]
    BY <1>7 DEF Spawn, TypeOK, Rule
  <2> QED BY <1>7, <2>1, <2>2, <2>3 DEF Spawn, TypeOK, sharedVars
<1>8. ASSUME NEW r \in Run, Handshake(r) PROVE TypeOK'
  <2>1. events' \in [Run -> Seq(Event)]
    <3>1. <<"started">> \in Seq(Event) /\ events \in [Run -> Seq(Event)]
      BY EventSeqs DEF TypeOK
    <3>2. Emit(r, <<"started">>) \/ UNCHANGED events
      BY <1>8 DEF Handshake
    <3> QED BY <3>1, <3>2, EmitType
  <2>2. pc' \in [Run -> Awaits \cup Sleeping \cup {"close"}]
    <3>1. pc' = [pc EXCEPT ![r] = "prompt"] \/ pc' = [pc EXCEPT ![r] = "exit"]
      BY <1>8 DEF Handshake, GoTo
    <3>2. pc \in [Run -> Awaits \cup Sleeping \cup {"close"}] /\ {"prompt", "exit"} \subseteq Awaits
      BY DEF TypeOK, Awaits
    <3> QED BY <3>1, <3>2
  <2>3. verdict' \in [Run -> {"none", "answered", "failed", "cancelled"}]
    BY <1>8 DEF Handshake, TypeOK, Rule
  <2> QED BY <1>8, <2>1, <2>2, <2>3 DEF Handshake, TypeOK, sharedVars
<1>9. ASSUME NEW r \in Run, Prompt(r) PROVE TypeOK'
  <2>1. verdict' \in [Run -> {"none", "answered", "failed", "cancelled"}]
    BY <1>9, RaceType DEF Prompt, TypeOK, Rule
  <2>2. reply' \in [Run -> {"none", "pending", "answered", "failed", "cancelled"}]
    BY <1>9 DEF Prompt, TypeOK
  <2> QED BY <1>9, <2>1, <2>2 DEF Prompt, TypeOK, sharedVars, GoTo, Awaits
<1>10. ASSUME NEW r \in Run, Exit(r) PROVE TypeOK'
  <2>1. events' \in [Run -> Seq(Event)]
    <3>1. Except(r) \in Seq(Event)
      BY EventSeqs DEF Except
    <3> QED BY <1>10, <3>1, EmitType DEF Exit, TypeOK
  <2> QED BY <1>10, <2>1 DEF Exit, TypeOK, sharedVars, GoTo, Awaits
<1>11. ASSUME NEW r \in Run, Drain(r) PROVE TypeOK'
  BY <1>11 DEF Drain, TypeOK, sharedVars, GoTo
<1>12. ASSUME NEW r \in Run, Close(r) PROVE TypeOK'
  <2>1. trace' \in [Run -> {"none", "open", "closed"}]
    BY <1>12 DEF Close, TypeOK
  <2>2. CASE Kill(r) /\ GoTo(r, "reap") /\ UNCHANGED <<verdict, release, events, consumer, spoiled>>
    <3>1. agent' \in [Run -> {"none", "alive", "dead"}]
      BY <2>2 DEF Kill, TypeOK
    <3> QED BY <1>12, <2>1, <2>2, <3>1 DEF Close, TypeOK, GoTo, Awaits
  <2>3. CASE EnterRelease(r) /\ UNCHANGED <<verdict, agent>>
    BY <1>12, <2>1, <2>3, EnterReleaseType DEF Close, TypeOK
  <2>4. CASE FailAtOnce(r) /\ spoiled' = spoiled \cup {r} /\ UNCHANGED <<agent, release, consumer>>
    BY <1>12, <2>1, <2>4, FailAtOnceType DEF Close, TypeOK
  <2> QED BY <1>12, <2>2, <2>3, <2>4 DEF Close
<1>13. ASSUME NEW r \in Run, Reap(r) PROVE TypeOK'
  BY <1>13, EnterReleaseType DEF Reap, TypeOK
<1>14. ASSUME NEW r \in Run, Release(r) PROVE TypeOK'
  <2>1. events' \in [Run -> Seq(Event)]
    <3>1. <<"released_ok">> \in Seq(Event) /\ <<"released_failed">> \in Seq(Event)
      BY EventSeqs
    <3>2. Emit(r, <<"released_ok">>) \/ Emit(r, <<"released_failed">>)
      BY <1>14 DEF Release
    <3> QED BY <3>1, <3>2, EmitType DEF TypeOK
  <2>2. sandbox' \in [Run -> {"none", "up", "deleted"}]
    <3>1. sandbox \in [Run -> {"none", "up", "deleted"}]
      BY DEF TypeOK
    <3>2. sandbox' = [sandbox EXCEPT ![r] = "deleted"] \/ sandbox' = sandbox
      BY <1>14 DEF Release, Sandbox
    <3> QED BY <3>1, <3>2
  <2> QED BY <1>14, <2>1, <2>2 DEF Release, TypeOK, sharedVars
<1>15. ASSUME NEW r \in Run, AfterRelease(r) PROVE TypeOK'
  BY <1>15, ConcludeType DEF AfterRelease, TypeOK
<1>16. ASSUME Cancel PROVE TypeOK'
  <2>1. CASE \E r \in Run : Interrupt(r)
    BY <1>16, <2>1, InterruptType DEF Cancel, TypeOK
  <2>2. CASE consumer' = "ended" /\ UNCHANGED <<pc, verdict, sandbox, agent>>
    BY <1>16, <2>2 DEF Cancel, TypeOK
  <2> QED BY <1>16, <2>1, <2>2 DEF Cancel
<1>17. ASSUME Teardown PROVE TypeOK'
  <2>1. sandbox' \in [Run -> {"none", "up", "deleted"}]
    <3>1. PICK late \in SUBSET { r \in Run : release[r] = "running" } :
            sandbox' = [r \in Run |-> IF r \in late THEN "deleted" ELSE sandbox[r]]
      BY <1>17 DEF Teardown
    <3>2. \A r \in Run : (IF r \in late THEN "deleted" ELSE sandbox[r]) \in {"none", "up", "deleted"}
      BY DEF TypeOK
    <3> QED BY <3>1, <3>2
  <2> QED BY <1>17, <2>1 DEF Teardown, TypeOK
<1>18. CASE UNCHANGED vars
  BY <1>18 DEF TypeOK, vars, sharedVars
<1> QED BY <1>1, <1>2, <1>3, <1>4, <1>5, <1>6, <1>7, <1>8, <1>9, <1>10, <1>11, <1>12, <1>13,
           <1>14, <1>15, <1>16, <1>17, <1>18 DEF Next, Bounded, Unbounded

(* Type correctness of the host, for every number of runs. *)
THEOREM HostTypeCorrect == Spec => []TypeOK
<1>1. TypeOK /\ [Next]_vars => TypeOK'
  BY NextType
<1> QED BY InitType, <1>1, PTL DEF Spec

------------------------------------------------------------------------------
(* No agent outlives its run *)

(* Where an agent may still be alive, if its run's trace is not the reason: *)
(* inside the session, and in the cleanup only when the one cancellation    *)
(* there is has been spent.                                                 *)
AgentGuarded ==
  \A r \in Run : agent[r] = "alive" /\ r \notin spoiled =>
    /\ pc[r] \in {"handshake", "prompt", "exit", "drain", "close"}
    /\ pc[r] \in {"drain", "close"} => shutdown

(* Steps that leave every agent alone and move no run into or out of the    *)
(* places AgentGuarded names keep it.                                       *)
LEMMA OtherRuns ==
  ASSUME TypeOK, AgentGuarded, NEW r \in Run, NEW stage, GoTo(r, stage), UNCHANGED <<agent, shutdown>>,
         spoiled \subseteq spoiled',
         agent[r] = "alive" /\ r \notin spoiled' =>
                               /\ stage \in {"handshake", "prompt", "exit", "drain", "close"}
                               /\ stage \in {"drain", "close"} => shutdown
  PROVE  AgentGuarded'
BY DEF TypeOK, AgentGuarded, GoTo

LEMMA EnterReleaseMoves ==
  ASSUME NEW r \in Run, EnterRelease(r)
  PROVE  /\ \E stage \in {"release", "done"} : GoTo(r, stage)
         /\ spoiled \subseteq spoiled'
BY DEF EnterRelease, Conclude

LEMMA GuardedStep == TypeOK /\ AgentGuarded /\ [Next]_vars => AgentGuarded'
<1> SUFFICES ASSUME TypeOK, AgentGuarded, [Next]_vars PROVE AgentGuarded'
  OBVIOUS
<1>1. ASSUME NEW r \in Run, Take(r) PROVE AgentGuarded'
  BY <1>1, OtherRuns DEF Take, FailAtOnce, AgentGuarded, sharedVars
<1>2. ASSUME NEW r \in Run, CreateSandbox(r) PROVE AgentGuarded'
  BY <1>2, OtherRuns DEF CreateSandbox, FailAtOnce, AgentGuarded, sharedVars
<1>3. ASSUME NEW r \in Run, Materialize(r) PROVE AgentGuarded'
  BY <1>3, OtherRuns DEF Materialize, AgentGuarded, sharedVars
<1>4. ASSUME NEW r \in Run, Undo(r) PROVE AgentGuarded'
  BY <1>4, OtherRuns DEF Undo, FailAtOnce, AgentGuarded, sharedVars
<1>5. ASSUME NEW r \in Run, RemoveOrigin(r) PROVE AgentGuarded'
  BY <1>5, OtherRuns DEF RemoveOrigin, SetUp, FailAtOnce, AgentGuarded, sharedVars
<1>6. ASSUME NEW r \in Run, PrepareWorkspace(r) PROVE AgentGuarded'
  BY <1>6, OtherRuns DEF PrepareWorkspace, SetUp, FailAtOnce, AgentGuarded, sharedVars
<1>7. ASSUME NEW r \in Run, Spawn(r) PROVE AgentGuarded'
  <2>1. CASE agent' = [agent EXCEPT ![r] = "alive"] /\ GoTo(r, "handshake")
    BY <1>7, <2>1 DEF Spawn, TypeOK, GoTo, AgentGuarded, sharedVars
  <2>2. CASE GoTo(r, "close") /\ UNCHANGED agent
    BY <1>7, <2>2, OtherRuns DEF Spawn, AgentGuarded, sharedVars
  <2> QED BY <1>7, <2>1, <2>2 DEF Spawn
<1>8. ASSUME NEW r \in Run, Handshake(r) PROVE AgentGuarded'
  BY <1>8, OtherRuns DEF Handshake, AgentGuarded, sharedVars
<1>9. ASSUME NEW r \in Run, Prompt(r) PROVE AgentGuarded'
  BY <1>9, OtherRuns DEF Prompt, AgentGuarded, sharedVars
<1>10. ASSUME NEW r \in Run, Exit(r) PROVE AgentGuarded'
  BY <1>10 DEF Exit, TypeOK, GoTo, AgentGuarded, sharedVars
<1>11. ASSUME NEW r \in Run, Drain(r) PROVE AgentGuarded'
  BY <1>11, OtherRuns DEF Drain, AgentGuarded, sharedVars
<1>12. ASSUME NEW r \in Run, Close(r) PROVE AgentGuarded'
  <2>1. CASE Kill(r) /\ GoTo(r, "reap") /\ UNCHANGED spoiled
    BY <1>12, <2>1 DEF Close, Kill, TypeOK, GoTo, AgentGuarded
  <2>2. CASE agent[r] # "alive" /\ EnterRelease(r) /\ UNCHANGED agent
    BY <1>12, <2>2, EnterReleaseMoves, OtherRuns DEF Close
  <2>3. CASE FailAtOnce(r) /\ spoiled' = spoiled \cup {r} /\ UNCHANGED agent
    BY <1>12, <2>3, OtherRuns DEF Close, FailAtOnce
  <2> QED BY <1>12, <2>1, <2>2, <2>3 DEF Close
<1>13. ASSUME NEW r \in Run, Reap(r) PROVE AgentGuarded'
  BY <1>13, EnterReleaseMoves, OtherRuns DEF Reap, AgentGuarded
<1>14. ASSUME NEW r \in Run, Release(r) PROVE AgentGuarded'
  BY <1>14 DEF Release, AgentGuarded, sharedVars
<1>15. ASSUME NEW r \in Run, AfterRelease(r) PROVE AgentGuarded'
  BY <1>15, OtherRuns DEF AfterRelease, Conclude, AgentGuarded
<1>16. ASSUME Cancel PROVE AgentGuarded'
  <2>1. ASSUME NEW r \in Run, Interrupt(r) PROVE AgentGuarded'
    <3>1. ~shutdown /\ shutdown' /\ spoiled' = spoiled
      BY <1>16 DEF Cancel
    <3>2. \A q \in Run : q # r => pc'[q] = pc[q] /\ agent'[q] = agent[q]
      BY <2>1 DEF Interrupt, TypeOK, GoTo
    <3>3. agent'[r] = "alive" /\ r \notin spoiled => pc'[r] \in {"handshake", "prompt", "exit", "drain", "close"}
      BY <2>1, <3>1 DEF Interrupt, TypeOK, GoTo, AgentGuarded, Preparing
    <3> QED BY <3>1, <3>2, <3>3 DEF AgentGuarded
  <2>2. CASE UNCHANGED <<pc, verdict, sandbox, agent>>
    BY <1>16, <2>2 DEF Cancel, AgentGuarded
  <2> QED BY <1>16, <2>1, <2>2 DEF Cancel
<1>17. ASSUME Teardown PROVE AgentGuarded'
  BY <1>17 DEF Teardown, AgentGuarded
<1>18. CASE UNCHANGED vars
  BY <1>18 DEF AgentGuarded, vars, sharedVars
<1> QED BY <1>1, <1>2, <1>3, <1>4, <1>5, <1>6, <1>7, <1>8, <1>9, <1>10, <1>11, <1>12, <1>13,
           <1>14, <1>15, <1>16, <1>17, <1>18 DEF Next, Bounded, Unbounded

(* run's finally block: unless closing its trace raised, no agent is alive  *)
(* when its run is over, wherever the shutdown came.                        *)
THEOREM NoAgentSurvives == Spec => []NoAgentLeft
<1>1. Init => AgentGuarded
  BY DEF Init, AgentGuarded
<1>2. TypeOK /\ AgentGuarded /\ [Next]_vars => AgentGuarded'
  BY GuardedStep
<1>3. AgentGuarded => NoAgentLeft
  BY DEF AgentGuarded, NoAgentLeft
<1> QED BY <1>1, <1>2, <1>3, HostTypeCorrect, PTL DEF Spec

------------------------------------------------------------------------------
(* What a run's events say *)

Has(es, e) == \E k \in DOMAIN es : es[k] = e

Precedes(es, e, f) == \A k \in DOMAIN es : es[k] = f => \E j \in 1 .. k - 1 : es[j] = e

Consumed == {"consumed_ok", "consumed_failed"}

EndsConsumed(es) == \A k \in DOMAIN es : es[k] \in Consumed => k = Len(es)

Cleanup == {"drain", "close", "reap", "release"}

(* Verdict, answer and agent_finished go together with the await that the  *)
(* run has reached.                                                        *)
SessionInv(r) ==
  /\ pc[r] = "prompt" => Has(events[r], "started")
  /\ Has(events[r], "started") => pc[r] \in {"prompt", "exit", "done"} \cup Cleanup
  /\ verdict[r] = "answered" =>
       Has(events[r], "started") /\ pc[r] \in {"exit", "done"} \cup Cleanup
  /\ reply[r] = "answered" =>
       /\ pc[r] \in {"exit", "done"} \cup Cleanup
       /\ verdict[r] \in {"answered", "cancelled"} \/ r \in spoiled
  /\ Has(events[r], "finished_failed") =>
       verdict[r] # "answered" /\ pc[r] \in {"done"} \cup Cleanup
  /\ pc[r] \in Cleanup /\ verdict[r] = "failed" => Has(events[r], "finished_failed")

(* A run is reported when it is done, and its release is over by then. *)
ReportInv(r) ==
  /\ Has(events[r], "finished_ok") => pc[r] = "done"
  /\ \A e \in Consumed : Has(events[r], e) => pc[r] = "done" /\ release[r] # "running"
  /\ Has(events[r], "consumed_ok") => verdict[r] = "answered"
  /\ Has(events[r], "consumed_failed") => verdict[r] = "failed" \/ r \in spoiled
  /\ pc[r] = "done" /\ Has(events[r], "started") /\ verdict[r] # "cancelled" /\ r \notin spoiled =>
       Has(events[r], "finished_ok") \/ Has(events[r], "finished_failed")
  /\ Has(events[r], "finished_ok") /\ Has(events[r], "consumed_failed") => r \in spoiled

OrderInv(r) ==
  /\ Precedes(events[r], "finished_ok", "consumed_ok")
  /\ Precedes(events[r], "started", "finished_ok")
  /\ EndsConsumed(events[r])

(* Where a sandbox and its release can be. *)
SandboxInv(r) ==
  /\ pc[r] \in {"create", "materialize", "undo", "origin"} \/ sandbox[r] = "up" => sandbox_enabled
  /\ pc[r] \in {"queued", "spawn"} \cup Preparing => agent[r] = "none"
  /\ pc[r] \notin {"release", "done"} => release[r] = "none"
  /\ release[r] = "running" => pc[r] = "release" \/ (pc[r] = "done" /\ verdict[r] = "cancelled")
  /\ release[r] = "done" => Has(events[r], "released_ok") \/ Has(events[r], "released_failed")
  /\ Has(events[r], "released_ok") => sandbox[r] = "deleted" /\ pc[r] \in {"release", "done"}
  /\ pc[r] = "done" /\ sandbox[r] = "up" =>
       \/ verdict[r] = "cancelled"
       \/ agent[r] = "none" /\ ~Has(events[r], "finished_failed")
       \/ Has(events[r], "released_failed")
       \/ r \in spoiled /\ release[r] = "none"

RunInv(r) == SessionInv(r) /\ ReportInv(r) /\ OrderInv(r) /\ SandboxInv(r)

HostInv == \A r \in Run : RunInv(r)

(* What FailAtOnce says, run by run. *)
LEMMA FailedAtOnce ==
  ASSUME TypeOK, NEW r \in Run, FailAtOnce(r)
  PROVE  /\ pc'[r] = "done" /\ verdict'[r] = "failed" /\ Emit(r, Report(FALSE))
         /\ \A q \in Run : q # r => pc'[q] = pc[q] /\ verdict'[q] = verdict[q]
<1>1. DOMAIN pc = Run /\ DOMAIN verdict = Run
  BY DEF TypeOK
<1>2. pc' = [pc EXCEPT ![r] = "done"] /\ verdict' = [verdict EXCEPT ![r] = "failed"]
  BY DEF FailAtOnce, GoTo, Rule
<1> QED BY <1>1, <1>2 DEF FailAtOnce

(* A step of run r leaves what the invariant says of the others. *)
LEMMA OneRun ==
  ASSUME HostInv, NEW r \in Run, sandbox_enabled' = sandbox_enabled,
         \A q \in Run : q # r =>
           /\ pc'[q] = pc[q] /\ verdict'[q] = verdict[q] /\ reply'[q] = reply[q]
           /\ agent'[q] = agent[q] /\ sandbox'[q] = sandbox[q] /\ release'[q] = release[q]
           /\ events'[q] = events[q]
           /\ q \in spoiled' <=> q \in spoiled,
         RunInv(r)'
  PROVE  HostInv'
<1> SUFFICES ASSUME NEW q \in Run, q # r PROVE RunInv(q)'
  BY DEF HostInv
<1>1. RunInv(q)
  BY DEF HostInv
<1>2. SessionInv(q)'
  BY <1>1 DEF RunInv, SessionInv
<1>3. ReportInv(q)'
  BY <1>1 DEF RunInv, ReportInv
<1>4. OrderInv(q)'
  BY <1>1 DEF RunInv, OrderInv
<1>5. SandboxInv(q)'
  BY <1>1 DEF RunInv, SandboxInv
<1> QED BY <1>2, <1>3, <1>4, <1>5 DEF RunInv

(* The events of a concatenation are those of its parts. *)
LEMMA HasConcat ==
  ASSUME NEW s \in Seq(Event), NEW t \in Seq(Event), NEW e
  PROVE  Has(s \o t, e) <=> Has(s, e) \/ Has(t, e)
<1>1. ASSUME NEW k \in DOMAIN (s \o t), (s \o t)[k] = e PROVE Has(s, e) \/ Has(t, e)
  <2>1. CASE k <= Len(s)
    BY <1>1, <2>1 DEF Has
  <2>2. CASE k > Len(s)
    <3>1. k - Len(s) \in DOMAIN t /\ t[k - Len(s)] = e
      BY <1>1, <2>2
    <3> QED BY <3>1 DEF Has
  <2> QED BY <2>1, <2>2
<1>2. ASSUME NEW k \in DOMAIN s, s[k] = e PROVE Has(s \o t, e)
  <2>1. k \in DOMAIN (s \o t) /\ (s \o t)[k] = e
    BY <1>2
  <2> QED BY <2>1 DEF Has
<1>3. ASSUME NEW k \in DOMAIN t, t[k] = e PROVE Has(s \o t, e)
  <2>1. k + Len(s) \in DOMAIN (s \o t) /\ (s \o t)[k + Len(s)] = e
    BY <1>3
  <2> QED BY <2>1 DEF Has
<1> QED BY <1>1, <1>2, <1>3 DEF Has

(* Events said of a run that was not reported yet keep the order, if they  *)
(* are in order themselves.                                                *)
InOrder(es) == EndsConsumed(es) /\ Precedes(es, "finished_ok", "consumed_ok")

LEMMA OrderKept ==
  ASSUME NEW s \in Seq(Event), NEW t \in Seq(Event),
         \A e \in Consumed : ~Has(s, e),
         Precedes(s, "started", "finished_ok"),
         InOrder(t),
         Has(t, "finished_ok") => Has(s, "started")
  PROVE  /\ Precedes(s \o t, "finished_ok", "consumed_ok")
         /\ Precedes(s \o t, "started", "finished_ok")
         /\ EndsConsumed(s \o t)
<1>0. /\ Len(s) \in Nat /\ Len(t) \in Nat
      /\ DOMAIN s = 1 .. Len(s) /\ DOMAIN t = 1 .. Len(t)
      /\ DOMAIN (s \o t) = 1 .. Len(s) + Len(t) /\ Len(s \o t) = Len(s) + Len(t)
      /\ \A k \in 1 .. Len(s) : (s \o t)[k] = s[k]
      /\ \A k \in 1 .. Len(s) + Len(t) : k > Len(s) =>
           k - Len(s) \in 1 .. Len(t) /\ (s \o t)[k] = t[k - Len(s)]
  OBVIOUS
<1>1. ASSUME NEW k \in DOMAIN (s \o t), (s \o t)[k] = "consumed_ok"
      PROVE  \E j \in 1 .. k - 1 : (s \o t)[j] = "finished_ok"
  <2>1. k > Len(s) /\ t[k - Len(s)] = "consumed_ok" /\ k - Len(s) \in DOMAIN t
    BY <1>0, <1>1 DEF Has, Consumed
  <2>2. PICK j \in 1 .. (k - Len(s)) - 1 : t[j] = "finished_ok"
    BY <2>1 DEF InOrder, Precedes
  <2>3. j \in 1 .. Len(t) /\ (s \o t)[j + Len(s)] = "finished_ok" /\ j + Len(s) \in 1 .. k - 1
    BY <1>0, <2>1, <2>2
  <2> QED BY <2>3
<1>2. ASSUME NEW k \in DOMAIN (s \o t), (s \o t)[k] = "finished_ok"
      PROVE  \E j \in 1 .. k - 1 : (s \o t)[j] = "started"
  <2>1. CASE k <= Len(s)
    <3>1. PICK j \in 1 .. k - 1 : s[j] = "started"
      BY <1>0, <1>2, <2>1 DEF Precedes
    <3> QED BY <1>0, <2>1, <3>1
  <2>2. CASE k > Len(s)
    <3>1. Has(t, "finished_ok")
      BY <1>0, <1>2, <2>2 DEF Has
    <3>2. PICK j \in 1 .. Len(s) : s[j] = "started"
      BY <1>0, <3>1 DEF Has
    <3> QED BY <1>0, <2>2, <3>2
  <2> QED BY <1>0, <2>1, <2>2
<1>3. ASSUME NEW k \in DOMAIN (s \o t), (s \o t)[k] \in Consumed
      PROVE  k = Len(s \o t)
  <2>1. k > Len(s) /\ t[k - Len(s)] \in Consumed /\ k - Len(s) \in DOMAIN t
    BY <1>0, <1>3 DEF Has
  <2>2. k - Len(s) = Len(t)
    BY <2>1 DEF InOrder, EndsConsumed
  <2> QED BY <1>0, <2>2
<1> QED BY <1>1, <1>2, <1>3 DEF Precedes, EndsConsumed

(* What each of the sequences the actions append says, and in what order. *)
LEMMA SaidOne ==
  ASSUME NEW x \in Event, x # "consumed_ok"
  PROVE  /\ <<x>> \in Seq(Event)
         /\ \A e : Has(<<x>>, e) <=> e = x
         /\ InOrder(<<x>>)
<1>1. DOMAIN <<x>> = {1} /\ <<x>>[1] = x /\ Len(<<x>>) = 1
  OBVIOUS
<1> QED BY <1>1 DEF Has, InOrder, EndsConsumed, Precedes

(* ... of a session's or a set-up's event followed by the consumer's. *)
LEMMA SaidTwo ==
  ASSUME NEW x \in Event \ Consumed, NEW y \in Event, y = "consumed_ok" => x = "finished_ok"
  PROVE  /\ <<x>> \o <<y>> \in Seq(Event)
         /\ \A e : Has(<<x>> \o <<y>>, e) <=> e = x \/ e = y
         /\ InOrder(<<x>> \o <<y>>)
<1> DEFINE both == <<x>> \o <<y>>
<1>1. <<x>> \in Seq(Event) /\ <<y>> \in Seq(Event) /\ Len(<<x>>) = 1 /\ Len(<<y>>) = 1
  OBVIOUS
<1>2. both \in Seq(Event) /\ Len(both) = 2 /\ both[1] = x /\ both[2] = y
  BY <1>1
<1>3. DOMAIN both = {1, 2} /\ 1 \in 1 .. 2 - 1
  BY <1>2
<1> HIDE DEF both
<1>4. \A e : Has(both, e) <=> e = x \/ e = y
  BY <1>2, <1>3 DEF Has
<1>5. EndsConsumed(both)
  BY <1>2, <1>3 DEF EndsConsumed
<1>6. Precedes(both, "finished_ok", "consumed_ok")
  BY <1>2, <1>3 DEF Precedes, Consumed
<1> QED BY <1>2, <1>4, <1>5, <1>6 DEF InOrder, both

(* ... of the empty sequence. *)
LEMMA SaidNothing ==
  /\ <<>> \in Seq(Event)
  /\ \A e : ~Has(<<>>, e)
  /\ InOrder(<<>>)
BY DEF Has, InOrder, EndsConsumed, Precedes

(* What an emission adds to what a run has said. *)
LEMMA EmitHas ==
  ASSUME TypeOK, NEW r \in Run, NEW es \in Seq(Event), Emit(r, es)
  PROVE  /\ events[r] \in Seq(Event)
         /\ events'[r] = events[r] \o es
         /\ \A e : Has(events'[r], e) <=> Has(events[r], e) \/ Has(es, e)
         /\ \A q \in Run : q # r => events'[q] = events[q]
<1>1. events[r] \in Seq(Event) /\ r \in DOMAIN events
  BY DEF TypeOK
<1>2. events' = [events EXCEPT ![r] = events[r] \o es]
  BY DEF Emit
<1>3. events'[r] = events[r] \o es /\ \A q \in Run : q # r => events'[q] = events[q]
  BY <1>1, <1>2 DEF TypeOK
<1> QED BY <1>1, <1>3, HasConcat

(* ... and it keeps the order while the run is not done. *)
LEMMA EmitOrder ==
  ASSUME TypeOK, NEW r \in Run, NEW es \in Seq(Event), Emit(r, es), RunInv(r),
         pc[r] # "done" \/ release[r] = "running",
         InOrder(es),
         Has(es, "finished_ok") => Has(events[r], "started")
  PROVE  OrderInv(r)'
<1>1. events[r] \in Seq(Event) /\ events'[r] = events[r] \o es
  BY EmitHas
<1>2. \A e \in Consumed : ~Has(events[r], e)
  BY DEF RunInv, ReportInv
<1>3. Precedes(events[r], "started", "finished_ok")
  BY DEF RunInv, OrderInv
<1>4. /\ Precedes(events[r] \o es, "finished_ok", "consumed_ok")
      /\ Precedes(events[r] \o es, "started", "finished_ok")
      /\ EndsConsumed(events[r] \o es)
  BY <1>1, <1>2, <1>3, OrderKept
<1> QED BY <1>1, <1>4 DEF OrderInv

(* Before anything has run. *)
LEMMA InitHost == Init => HostInv
<1> SUFFICES ASSUME Init, NEW r \in Run PROVE RunInv(r)
  BY DEF HostInv
<1>1. events[r] = <<>> /\ pc[r] = "queued" /\ verdict[r] = "none" /\ reply[r] = "none"
      /\ agent[r] = "none" /\ sandbox[r] = "none" /\ release[r] = "none"
  BY DEF Init
<1>2. \A e : ~Has(events[r], e)
  BY <1>1, SaidNothing
<1>3. OrderInv(r)
  BY <1>1 DEF OrderInv, Precedes, EndsConsumed
<1> QED BY <1>1, <1>2, <1>3 DEF RunInv, SessionInv, ReportInv, SandboxInv, Cleanup, Preparing

(* A run that fails before its agent is spawned. *)
LEMMA FailEarly ==
  ASSUME TypeOK, HostInv, NEW r \in Run, pc[r] \in {"queued"} \cup Preparing,
         NEW es \in Seq(Event), Emit(r, es), InOrder(es),
         \A e : Has(es, e) => e \in {"provisioned", "consumed_failed"},
         GoTo(r, "done"), Rule(r, "failed"),
         UNCHANGED <<sandbox_enabled, spoiled, reply, agent, release>>,
         \A q \in Run : q # r => sandbox'[q] = sandbox[q],
         sandbox'[r] = "up" => sandbox_enabled
  PROVE  HostInv'
<1>1. RunInv(r)
  BY DEF HostInv
<1>2. pc'[r] = "done" /\ verdict'[r] = "failed"
  BY DEF TypeOK, GoTo, Rule
<1>3. /\ \A e : Has(events'[r], e) <=> Has(events[r], e) \/ Has(es, e)
      /\ \A q \in Run : q # r => events'[q] = events[q]
  BY EmitHas
<1>4. agent[r] = "none" /\ release[r] = "none"
  BY <1>1 DEF RunInv, SandboxInv, Preparing
<1>5. /\ ~Has(events[r], "started") /\ ~Has(events[r], "finished_ok")
      /\ ~Has(events[r], "finished_failed") /\ ~Has(events[r], "released_ok")
      /\ ~Has(events[r], "consumed_ok") /\ ~Has(events[r], "consumed_failed")
      /\ reply[r] # "answered"
  BY <1>1 DEF RunInv, SessionInv, ReportInv, SandboxInv, Preparing, Cleanup, Consumed
<1>6. SessionInv(r)'
  BY <1>2, <1>3, <1>5 DEF SessionInv, Cleanup
<1>7. ReportInv(r)'
  BY <1>2, <1>3, <1>4, <1>5 DEF ReportInv, Consumed
<1>8. OrderInv(r)'
  BY <1>1, EmitOrder DEF Preparing
<1>9. SandboxInv(r)'
  BY <1>2, <1>3, <1>4, <1>5 DEF SandboxInv, Preparing
<1>10. \A q \in Run : q # r => pc'[q] = pc[q] /\ verdict'[q] = verdict[q]
  BY DEF TypeOK, GoTo, Rule
<1>11. RunInv(r)'
  BY <1>6, <1>7, <1>8, <1>9 DEF RunInv
<1> QED BY <1>3, <1>10, <1>11, OneRun

(* The consumer's report of a failure. *)
LEMMA SaidFailed ==
  /\ Report(FALSE) \in Seq(Event) /\ InOrder(Report(FALSE))
  /\ \A e : Has(Report(FALSE), e) <=> e = "consumed_failed"
<1>1. "consumed_failed" \in Event /\ "consumed_failed" # "consumed_ok"
  BY DEF Event
<1>2. Report(FALSE) = <<"consumed_failed">>
  BY DEF Report
<1> QED BY <1>1, <1>2, SaidOne

(* ... because run() or prepare() raised. *)
LEMMA FailAtOnceStep ==
  ASSUME TypeOK, HostInv, NEW r \in Run, pc[r] \in {"queued"} \cup Preparing, FailAtOnce(r),
         UNCHANGED <<sandbox_enabled, spoiled, reply, agent, release>>,
         \A q \in Run : q # r => sandbox'[q] = sandbox[q],
         sandbox'[r] = "up" => sandbox_enabled
  PROVE  HostInv'
<1>1. GoTo(r, "done") /\ Rule(r, "failed") /\ Emit(r, Report(FALSE))
  BY DEF FailAtOnce
<1> QED BY <1>1, SaidFailed, FailEarly

(* What run() does between the workspace and the spawn. *)
LEMMA SetUpStep ==
  ASSUME TypeOK, HostInv, NEW r \in Run, pc[r] \in {"origin", "workspace"},
         NEW before \in {<<>>, <<"provisioned">>}, SetUp(r, before),
         UNCHANGED <<sandbox_enabled, spoiled, reply, agent, release, sandbox>>
  PROVE  HostInv'
<1>1. RunInv(r) /\ pc[r] \in {"queued"} \cup Preparing
  BY DEF HostInv, Preparing
<1>2. "provisioned" \in Event \ Consumed /\ "consumed_failed" \in Event
  BY DEF Event, Consumed
<1>3. /\ before \in Seq(Event) /\ InOrder(before)
      /\ \A e : Has(before, e) => e = "provisioned"
  <2>1. CASE before = <<>>
    BY <2>1, SaidNothing
  <2>2. CASE before = <<"provisioned">>
    <3>1. "provisioned" # "consumed_ok"
      OBVIOUS
    <3> QED BY <1>2, <2>2, <3>1, SaidOne
  <2> QED BY <2>1, <2>2
<1>4. sandbox'[r] = "up" => sandbox_enabled
  BY <1>1 DEF RunInv, SandboxInv
<1>5. CASE GoTo(r, "spawn") /\ Emit(r, before) /\ UNCHANGED verdict
  <2>1. pc'[r] = "spawn" /\ \A q \in Run : q # r => pc'[q] = pc[q]
    BY <1>5 DEF TypeOK, GoTo
  <2>2. /\ \A e : Has(events'[r], e) <=> Has(events[r], e) \/ Has(before, e)
        /\ \A q \in Run : q # r => events'[q] = events[q]
    BY <1>3, <1>5, EmitHas
  <2>3. SessionInv(r)'
    BY <1>1, <1>3, <1>5, <2>1, <2>2 DEF RunInv, SessionInv, Cleanup, Preparing
  <2>4. ReportInv(r)'
    BY <1>1, <1>3, <1>5, <2>1, <2>2 DEF RunInv, ReportInv, Consumed, Preparing
  <2>5. OrderInv(r)'
    BY <1>1, <1>3, <1>5, EmitOrder DEF Preparing
  <2>6. SandboxInv(r)'
    BY <1>1, <1>3, <1>5, <2>1, <2>2 DEF RunInv, SandboxInv, Preparing
  <2>7. RunInv(r)'
    BY <2>3, <2>4, <2>5, <2>6 DEF RunInv
  <2> QED BY <1>5, <2>1, <2>2, <2>7, OneRun
<1>6. CASE GoTo(r, "done") /\ Rule(r, "failed") /\ Emit(r, before \o Report(FALSE))
  <2>1. Report(FALSE) = <<"consumed_failed">>
    BY DEF Report
  <2>2. /\ before \o Report(FALSE) \in Seq(Event) /\ InOrder(before \o Report(FALSE))
        /\ \A e : Has(before \o Report(FALSE), e) => e \in {"provisioned", "consumed_failed"}
    <3>1. CASE before = <<>>
      <4>1. before \o Report(FALSE) = Report(FALSE)
        BY <2>1, <3>1
      <4> QED BY <4>1, SaidFailed
    <3>2. CASE before = <<"provisioned">>
      BY <1>2, <2>1, <3>2, SaidTwo
    <3> QED BY <3>1, <3>2
  <2> QED BY <1>1, <1>4, <1>6, <2>2, FailEarly
<1> QED BY <1>5, <1>6 DEF SetUp

(* run() returns or raises once its cleanup is over. *)
LEMMA ConcludeStep ==
  ASSUME TypeOK, HostInv, NEW r \in Run, pc[r] \in Cleanup, Conclude(r),
         UNCHANGED <<sandbox_enabled, verdict, reply, agent, sandbox, release>>,
         release[r] # "running",
         sandbox[r] = "up" => release[r] = "done"
  PROVE  HostInv'
<1>1. RunInv(r)
  BY DEF HostInv
<1>2. pc'[r] = "done" /\ \A q \in Run : q # r => pc'[q] = pc[q]
  BY DEF Conclude, TypeOK, GoTo
<1>3. /\ "finished_ok" \in Event \ Consumed /\ "consumed_ok" \in Event
      /\ "consumed_failed" \in Event /\ "consumed_failed" # "consumed_ok"
  BY DEF Event, Consumed
<1>4. Report(TRUE) = <<"consumed_ok">> /\ Report(FALSE) = <<"consumed_failed">>
  BY DEF Report
<1>5. /\ ~Has(events[r], "finished_ok") /\ ~Has(events[r], "consumed_ok")
      /\ ~Has(events[r], "consumed_failed") /\ pc[r] # "done"
  BY <1>1 DEF RunInv, ReportInv, Cleanup, Consumed
<1>6. CASE /\ verdict[r] = "answered"
           /\ Emit(r, <<"finished_ok">> \o Report(FALSE))
           /\ spoiled' = spoiled \cup {r}
  <2> DEFINE es == <<"finished_ok">> \o Report(FALSE)
  <2>1. /\ es \in Seq(Event) /\ InOrder(es)
        /\ \A e : Has(es, e) <=> e = "finished_ok" \/ e = "consumed_failed"
    <3>1. es = <<"finished_ok">> \o <<"consumed_failed">>
      BY <1>4
    <3> HIDE DEF es
    <3> QED BY <1>3, <3>1, SaidTwo
  <2> HIDE DEF es
  <2>2. Emit(r, es)
    BY <1>6 DEF es
  <2>3. /\ \A e : Has(events'[r], e) <=> Has(events[r], e) \/ Has(es, e)
        /\ \A q \in Run : q # r => events'[q] = events[q]
    BY <2>1, <2>2, EmitHas
  <2>4. SessionInv(r)'
    BY <1>1, <1>2, <1>6, <2>1, <2>3 DEF RunInv, SessionInv, Cleanup
  <2>5. ReportInv(r)'
    BY <1>1, <1>2, <1>5, <1>6, <2>1, <2>3 DEF RunInv, ReportInv, Consumed
  <2>6. OrderInv(r)'
    <3>1. Has(events[r], "started")
      BY <1>1, <1>6 DEF RunInv, SessionInv
    <3> QED BY <1>1, <1>5, <2>1, <2>2, <3>1, EmitOrder
  <2>7. SandboxInv(r)'
    BY <1>1, <1>2, <1>6, <2>1, <2>3 DEF RunInv, SandboxInv, Preparing
  <2>8. RunInv(r)'
    BY <2>4, <2>5, <2>6, <2>7 DEF RunInv
  <2> QED BY <1>2, <1>6, <2>3, <2>8, OneRun
<1>7. CASE verdict[r] = "answered" /\ Emit(r, <<"finished_ok">> \o Report(TRUE)) /\ UNCHANGED spoiled
  <2> DEFINE es == <<"finished_ok">> \o Report(TRUE)
  <2>1. /\ es \in Seq(Event) /\ InOrder(es)
        /\ \A e : Has(es, e) <=> e = "finished_ok" \/ e = "consumed_ok"
    <3>1. es = <<"finished_ok">> \o <<"consumed_ok">>
      BY <1>4
    <3> HIDE DEF es
    <3> QED BY <1>3, <3>1, SaidTwo
  <2> HIDE DEF es
  <2>2. Emit(r, es)
    BY <1>7 DEF es
  <2>3. /\ \A e : Has(events'[r], e) <=> Has(events[r], e) \/ Has(es, e)
        /\ \A q \in Run : q # r => events'[q] = events[q]
    BY <2>1, <2>2, EmitHas
  <2>4. SessionInv(r)'
    BY <1>1, <1>2, <1>7, <2>1, <2>3 DEF RunInv, SessionInv, Cleanup
  <2>5. ReportInv(r)'
    BY <1>1, <1>2, <1>5, <1>7, <2>1, <2>3 DEF RunInv, ReportInv, Consumed
  <2>6. OrderInv(r)'
    <3>1. Has(events[r], "started")
      BY <1>1, <1>7 DEF RunInv, SessionInv
    <3> QED BY <1>1, <1>5, <2>1, <2>2, <3>1, EmitOrder
  <2>7. SandboxInv(r)'
    BY <1>1, <1>2, <1>7, <2>1, <2>3 DEF RunInv, SandboxInv, Preparing
  <2>8. RunInv(r)'
    BY <2>4, <2>5, <2>6, <2>7 DEF RunInv
  <2> QED BY <1>2, <1>7, <2>3, <2>8, OneRun
<1>8. CASE verdict[r] = "failed" /\ Emit(r, Report(FALSE)) /\ UNCHANGED spoiled
  <2>1. /\ Report(FALSE) \in Seq(Event) /\ InOrder(Report(FALSE))
        /\ \A e : Has(Report(FALSE), e) <=> e = "consumed_failed"
    BY SaidFailed
  <2>2. /\ \A e : Has(events'[r], e) <=> Has(events[r], e) \/ Has(Report(FALSE), e)
        /\ \A q \in Run : q # r => events'[q] = events[q]
    BY <1>8, <2>1, EmitHas
  <2>3. SessionInv(r)'
    BY <1>1, <1>2, <1>8, <2>1, <2>2 DEF RunInv, SessionInv, Cleanup
  <2>4. ReportInv(r)'
    <3>1. Has(events[r], "finished_failed")
      BY <1>1, <1>8 DEF RunInv, SessionInv
    <3> QED BY <1>1, <1>2, <1>5, <1>8, <2>1, <2>2, <3>1 DEF RunInv, ReportInv, Consumed
  <2>5. OrderInv(r)'
    BY <1>1, <1>5, <1>8, <2>1, EmitOrder
  <2>6. SandboxInv(r)'
    BY <1>1, <1>2, <1>8, <2>1, <2>2 DEF RunInv, SandboxInv, Preparing
  <2>7. RunInv(r)'
    BY <2>3, <2>4, <2>5, <2>6 DEF RunInv
  <2> QED BY <1>2, <1>8, <2>2, <2>7, OneRun
<1>9. CASE verdict[r] = "cancelled" /\ UNCHANGED <<events, spoiled>>
  <2>1. SessionInv(r)'
    BY <1>1, <1>2, <1>9 DEF RunInv, SessionInv, Cleanup
  <2>2. ReportInv(r)'
    BY <1>1, <1>2, <1>5, <1>9 DEF RunInv, ReportInv, Consumed
  <2>3. OrderInv(r)'
    BY <1>1, <1>9 DEF RunInv, OrderInv
  <2>4. SandboxInv(r)'
    BY <1>1, <1>2, <1>9 DEF RunInv, SandboxInv, Preparing
  <2>5. RunInv(r)'
    BY <2>1, <2>2, <2>3, <2>4 DEF RunInv
  <2> QED BY <1>2, <1>9, <2>5, OneRun
<1> QED BY <1>6, <1>7, <1>8, <1>9 DEF Conclude

(* A step of r that emits nothing: what is left is r's own invariant. *)
LEMMA QuietStep ==
  ASSUME TypeOK, HostInv, NEW r \in Run, UNCHANGED <<sandbox_enabled, events>>,
         \A q \in Run : q # r =>
           /\ pc'[q] = pc[q] /\ verdict'[q] = verdict[q] /\ reply'[q] = reply[q]
           /\ agent'[q] = agent[q] /\ sandbox'[q] = sandbox[q] /\ release'[q] = release[q]
           /\ q \in spoiled' <=> q \in spoiled,
         SessionInv(r)', ReportInv(r)', SandboxInv(r)'
  PROVE  HostInv'
<1>1. OrderInv(r)'
  BY DEF HostInv, RunInv, OrderInv
<1>2. RunInv(r)'
  BY <1>1 DEF RunInv
<1> QED BY <1>2, OneRun

(* The end of the finally block, with and without a sandbox. *)
LEMMA EnterReleaseStep ==
  ASSUME TypeOK, HostInv, NEW r \in Run, pc[r] \in {"close", "reap"}, EnterRelease(r),
         UNCHANGED <<sandbox_enabled, verdict, reply, agent, sandbox>>
  PROVE  HostInv'
<1>1. RunInv(r)
  BY DEF HostInv
<1>2. release[r] = "none" /\ pc[r] \in Cleanup
  BY <1>1 DEF RunInv, SandboxInv, Cleanup
<1>3. CASE ~sandbox_enabled
  <2>1. sandbox[r] # "up"
    BY <1>1, <1>3 DEF RunInv, SandboxInv
  <2> QED BY <1>2, <1>3, <2>1, ConcludeStep DEF EnterRelease
<1>4. CASE sandbox_enabled
  <2>1. /\ pc' = [pc EXCEPT ![r] = "release"] /\ release' = [release EXCEPT ![r] = "running"]
        /\ UNCHANGED <<events, spoiled>>
    BY <1>4 DEF EnterRelease, GoTo
  <2>2. pc'[r] = "release" /\ release'[r] = "running"
    BY <2>1 DEF TypeOK
  <2>3. SessionInv(r)'
    BY <1>1, <1>2, <2>1, <2>2 DEF RunInv, SessionInv, Cleanup
  <2>4. ReportInv(r)'
    BY <1>1, <1>2, <2>1, <2>2 DEF RunInv, ReportInv, Consumed, Cleanup
  <2>5. SandboxInv(r)'
    BY <1>1, <1>2, <1>4, <2>1, <2>2 DEF RunInv, SandboxInv, Preparing
  <2>6. \A q \in Run : q # r => pc'[q] = pc[q] /\ release'[q] = release[q]
    BY <2>1 DEF TypeOK
  <2> QED BY <2>1, <2>3, <2>4, <2>5, <2>6, QuietStep
<1> QED BY <1>3, <1>4

(* Every action keeps the invariant. *)
LEMMA HostStep == TypeOK /\ HostInv /\ [Next]_vars => HostInv'
<1> SUFFICES ASSUME TypeOK, HostInv, [Next]_vars PROVE HostInv'
  OBVIOUS
<1>0. \A r \in Run : RunInv(r)
  BY DEF HostInv
<1>1. ASSUME NEW r \in Run, Take(r) PROVE HostInv'
  <2>1. /\ pc[r] = "queued" /\ agent[r] = "none" /\ (sandbox[r] = "up" => sandbox_enabled)
        /\ UNCHANGED <<sandbox_enabled, spoiled, reply, agent, sandbox, release>>
    BY <1>0, <1>1 DEF Take, RunInv, SandboxInv, sharedVars
  <2>2. CASE FailAtOnce(r)
    BY <2>1, <2>2, FailAtOnceStep
  <2>3. CASE GoTo(r, IF sandbox_enabled THEN "create" ELSE "workspace") /\ UNCHANGED <<verdict, events>>
    <3>1. /\ pc'[r] \in {"create", "workspace"} /\ (pc'[r] = "create" => sandbox_enabled)
          /\ \A q \in Run : q # r => pc'[q] = pc[q]
      BY <2>3 DEF TypeOK, GoTo
    <3>2. SessionInv(r)'
      BY <1>0, <2>1, <2>3, <3>1 DEF RunInv, SessionInv, Cleanup
    <3>3. ReportInv(r)'
      BY <1>0, <2>1, <2>3, <3>1 DEF RunInv, ReportInv, Consumed
    <3>4. SandboxInv(r)'
      BY <1>0, <2>1, <2>3, <3>1 DEF RunInv, SandboxInv, Preparing
    <3> QED BY <2>1, <2>3, <3>1, <3>2, <3>3, <3>4, QuietStep
  <2> QED BY <1>1, <2>2, <2>3 DEF Take
<1>2. ASSUME NEW r \in Run, CreateSandbox(r) PROVE HostInv'
  <2>1. /\ pc[r] = "create" /\ sandbox_enabled
        /\ UNCHANGED <<sandbox_enabled, spoiled, reply, agent, release>>
    BY <1>0, <1>2 DEF CreateSandbox, RunInv, SandboxInv, sharedVars
  <2>2. \A q \in Run : q # r => sandbox'[q] = sandbox[q]
    BY <1>2 DEF CreateSandbox, Sandbox, TypeOK
  <2>3. CASE FailAtOnce(r)
    BY <2>1, <2>2, <2>3, FailAtOnceStep DEF Preparing
  <2>4. CASE Sandbox(r, "up") /\ GoTo(r, "materialize") /\ UNCHANGED <<verdict, events>>
    <3>1. /\ pc'[r] = "materialize" /\ sandbox'[r] = "up"
          /\ \A q \in Run : q # r => pc'[q] = pc[q]
      BY <2>4 DEF TypeOK, GoTo, Sandbox
    <3>2. SessionInv(r)'
      BY <1>0, <2>1, <2>4, <3>1 DEF RunInv, SessionInv, Cleanup
    <3>3. ReportInv(r)'
      BY <1>0, <2>1, <2>4, <3>1 DEF RunInv, ReportInv, Consumed
    <3>4. SandboxInv(r)'
      BY <1>0, <2>1, <2>4, <3>1 DEF RunInv, SandboxInv, Preparing
    <3> QED BY <2>1, <2>2, <2>4, <3>1, <3>2, <3>3, <3>4, QuietStep
  <2> QED BY <1>2, <2>3, <2>4 DEF CreateSandbox
<1>3. ASSUME NEW r \in Run, Materialize(r) PROVE HostInv'
  <2>1. /\ pc[r] = "materialize" /\ pc'[r] \in {"origin", "undo"}
        /\ \A q \in Run : q # r => pc'[q] = pc[q]
        /\ UNCHANGED <<sandbox_enabled, spoiled, verdict, reply, agent, sandbox, release, events>>
    BY <1>3 DEF Materialize, GoTo, TypeOK, sharedVars
  <2>2. SessionInv(r)'
    BY <1>0, <2>1 DEF RunInv, SessionInv, Cleanup
  <2>3. ReportInv(r)'
    BY <1>0, <2>1 DEF RunInv, ReportInv, Consumed
  <2>4. SandboxInv(r)'
    BY <1>0, <2>1 DEF RunInv, SandboxInv, Preparing
  <2> QED BY <2>1, <2>2, <2>3, <2>4, QuietStep
<1>4. ASSUME NEW r \in Run, Undo(r) PROVE HostInv'
  <2>1. /\ pc[r] = "undo" /\ sandbox_enabled /\ FailAtOnce(r)
        /\ UNCHANGED <<sandbox_enabled, spoiled, reply, agent, release>>
    BY <1>0, <1>4 DEF Undo, RunInv, SandboxInv, sharedVars
  <2>2. \A q \in Run : q # r => sandbox'[q] = sandbox[q]
    BY <1>4 DEF Undo, Sandbox, TypeOK
  <2> QED BY <2>1, <2>2, FailAtOnceStep DEF Preparing
<1>5. ASSUME NEW r \in Run, RemoveOrigin(r) PROVE HostInv'
  <2>1. /\ pc[r] = "origin" /\ (sandbox[r] = "up" => sandbox_enabled)
        /\ UNCHANGED <<sandbox_enabled, spoiled, reply, agent, sandbox, release>>
    BY <1>0, <1>5 DEF RemoveOrigin, RunInv, SandboxInv, sharedVars
  <2>2. CASE SetUp(r, <<"provisioned">>)
    BY <2>1, <2>2, SetUpStep
  <2>3. CASE FailAtOnce(r)
    BY <2>1, <2>3, FailAtOnceStep DEF Preparing
  <2> QED BY <1>5, <2>2, <2>3 DEF RemoveOrigin
<1>6. ASSUME NEW r \in Run, PrepareWorkspace(r) PROVE HostInv'
  <2>1. /\ pc[r] = "workspace" /\ (sandbox[r] = "up" => sandbox_enabled)
        /\ UNCHANGED <<sandbox_enabled, spoiled, reply, agent, sandbox, release>>
    BY <1>0, <1>6 DEF PrepareWorkspace, RunInv, SandboxInv, sharedVars
  <2>2. CASE SetUp(r, <<>>)
    BY <2>1, <2>2, SetUpStep
  <2>3. CASE FailAtOnce(r)
    BY <2>1, <2>3, FailAtOnceStep DEF Preparing
  <2> QED BY <1>6, <2>2, <2>3 DEF PrepareWorkspace
<1>7. ASSUME NEW r \in Run, Spawn(r) PROVE HostInv'
  <2>1. /\ pc[r] = "spawn"
        /\ UNCHANGED <<sandbox_enabled, spoiled, reply, sandbox, release>>
    BY <1>7 DEF Spawn, sharedVars
  <2>2. CASE agent' = [agent EXCEPT ![r] = "alive"] /\ GoTo(r, "handshake") /\ UNCHANGED <<verdict, events>>
    <3>1. /\ pc'[r] = "handshake"
          /\ \A q \in Run : q # r => pc'[q] = pc[q] /\ agent'[q] = agent[q]
      BY <2>2 DEF TypeOK, GoTo
    <3>2. SessionInv(r)'
      BY <1>0, <2>1, <2>2, <3>1 DEF RunInv, SessionInv, Cleanup
    <3>3. ReportInv(r)'
      BY <1>0, <2>1, <2>2, <3>1 DEF RunInv, ReportInv, Consumed
    <3>4. SandboxInv(r)'
      BY <1>0, <2>1, <2>2, <3>1 DEF RunInv, SandboxInv, Preparing
    <3> QED BY <2>1, <2>2, <3>1, <3>2, <3>3, <3>4, QuietStep
  <2>3. CASE GoTo(r, "close") /\ Rule(r, "failed") /\ Emit(r, <<"finished_failed">>) /\ UNCHANGED agent
    <3>1. /\ pc'[r] = "close" /\ verdict'[r] = "failed"
          /\ \A q \in Run : q # r => pc'[q] = pc[q] /\ verdict'[q] = verdict[q]
      BY <2>3 DEF TypeOK, GoTo, Rule
    <3>2. /\ <<"finished_failed">> \in Seq(Event) /\ InOrder(<<"finished_failed">>)
          /\ \A e : Has(<<"finished_failed">>, e) <=> e = "finished_failed"
      BY SaidOne DEF Event
    <3>3. /\ \A e : Has(events'[r], e) <=> Has(events[r], e) \/ e = "finished_failed"
          /\ \A q \in Run : q # r => events'[q] = events[q]
      BY <2>3, <3>2, EmitHas
    <3>4. SessionInv(r)'
      BY <1>0, <2>1, <3>1, <3>3 DEF RunInv, SessionInv, Cleanup
    <3>5. ReportInv(r)'
      BY <1>0, <2>1, <3>1, <3>3 DEF RunInv, ReportInv, Consumed
    <3>6. SandboxInv(r)'
      BY <1>0, <2>1, <2>3, <3>1, <3>3 DEF RunInv, SandboxInv, Preparing
    <3>7. OrderInv(r)'
      BY <1>0, <2>1, <2>3, <3>2, EmitOrder
    <3>8. RunInv(r)'
      BY <3>4, <3>5, <3>6, <3>7 DEF RunInv
    <3> QED BY <2>1, <2>3, <3>1, <3>3, <3>8, OneRun
  <2> QED BY <1>7, <2>2, <2>3 DEF Spawn
<1>8. ASSUME NEW r \in Run, Handshake(r) PROVE HostInv'
  <2>1. /\ pc[r] = "handshake"
        /\ UNCHANGED <<sandbox_enabled, spoiled, reply, agent, sandbox, release>>
    BY <1>8 DEF Handshake, sharedVars
  <2>2. CASE GoTo(r, "prompt") /\ Emit(r, <<"started">>) /\ UNCHANGED verdict
    <3>1. pc'[r] = "prompt" /\ \A q \in Run : q # r => pc'[q] = pc[q]
      BY <2>2 DEF TypeOK, GoTo
    <3>2. /\ <<"started">> \in Seq(Event) /\ InOrder(<<"started">>)
          /\ \A e : Has(<<"started">>, e) <=> e = "started"
      BY SaidOne DEF Event
    <3>3. /\ \A e : Has(events'[r], e) <=> Has(events[r], e) \/ e = "started"
          /\ \A q \in Run : q # r => events'[q] = events[q]
      BY <2>2, <3>2, EmitHas
    <3>4. SessionInv(r)'
      BY <1>0, <2>1, <2>2, <3>1, <3>3 DEF RunInv, SessionInv, Cleanup
    <3>5. ReportInv(r)'
      BY <1>0, <2>1, <2>2, <3>1, <3>3 DEF RunInv, ReportInv, Consumed
    <3>6. SandboxInv(r)'
      BY <1>0, <2>1, <2>2, <3>1, <3>3 DEF RunInv, SandboxInv, Preparing
    <3>7. OrderInv(r)'
      BY <1>0, <2>1, <2>2, <3>2, EmitOrder
    <3>8. RunInv(r)'
      BY <3>4, <3>5, <3>6, <3>7 DEF RunInv
    <3> QED BY <2>1, <2>2, <3>1, <3>3, <3>8, OneRun
  <2>3. CASE GoTo(r, "exit") /\ Rule(r, "failed") /\ UNCHANGED events
    <3>1. /\ pc'[r] = "exit" /\ verdict'[r] = "failed"
          /\ \A q \in Run : q # r => pc'[q] = pc[q] /\ verdict'[q] = verdict[q]
      BY <2>3 DEF TypeOK, GoTo, Rule
    <3>2. SessionInv(r)'
      BY <1>0, <2>1, <2>3, <3>1 DEF RunInv, SessionInv, Cleanup
    <3>3. ReportInv(r)'
      BY <1>0, <2>1, <2>3, <3>1 DEF RunInv, ReportInv, Consumed
    <3>4. SandboxInv(r)'
      BY <1>0, <2>1, <2>3, <3>1 DEF RunInv, SandboxInv, Preparing
    <3> QED BY <2>1, <2>3, <3>1, <3>2, <3>3, <3>4, QuietStep
  <2> QED BY <1>8, <2>2, <2>3 DEF Handshake
<1>9. ASSUME NEW r \in Run, Prompt(r) PROVE HostInv'
  <2>1. /\ pc[r] = "prompt" /\ pc'[r] = "exit"
        /\ \A q \in Run : q # r => pc'[q] = pc[q] /\ verdict'[q] = verdict[q] /\ reply'[q] = reply[q]
        /\ UNCHANGED <<sandbox_enabled, spoiled, agent, sandbox, release, events>>
    BY <1>9 DEF Prompt, GoTo, Rule, TypeOK, sharedVars
  <2>2. verdict'[r] = IF reply'[r] = "answered" THEN "answered" ELSE "failed"
    BY <1>9 DEF Prompt, _resolve_prompt_race, Rule, TypeOK
  <2>3. SessionInv(r)'
    BY <1>0, <2>1, <2>2 DEF RunInv, SessionInv, Cleanup
  <2>4. ReportInv(r)'
    BY <1>0, <2>1, <2>2 DEF RunInv, ReportInv, Consumed
  <2>5. SandboxInv(r)'
    BY <1>0, <2>1, <2>2 DEF RunInv, SandboxInv, Preparing
  <2> QED BY <2>1, <2>3, <2>4, <2>5, QuietStep
<1>10. ASSUME NEW r \in Run, Exit(r) PROVE HostInv'
  <2>1. /\ pc[r] = "exit" /\ pc'[r] = "drain"
        /\ \A q \in Run : q # r => pc'[q] = pc[q] /\ agent'[q] = agent[q]
        /\ UNCHANGED <<sandbox_enabled, spoiled, verdict, reply, sandbox, release>>
    BY <1>10 DEF Exit, GoTo, TypeOK, sharedVars
  <2>2. /\ Except(r) \in Seq(Event) /\ InOrder(Except(r))
        /\ \A e : Has(Except(r), e) <=> verdict[r] = "failed" /\ e = "finished_failed"
    <3>1. CASE verdict[r] = "failed"
      <4>1. "finished_failed" \in Event /\ "finished_failed" # "consumed_ok" /\ Except(r) = <<"finished_failed">>
        BY <3>1 DEF Event, Except
      <4> QED BY <3>1, <4>1, SaidOne
    <3>2. CASE verdict[r] # "failed"
      <4>1. Except(r) = <<>>
        BY <3>2 DEF Except
      <4> QED BY <3>2, <4>1, SaidNothing
    <3> QED BY <3>1, <3>2
  <2>3. Emit(r, Except(r))
    BY <1>10 DEF Exit
  <2>4. /\ \A e : Has(events'[r], e) <=> Has(events[r], e) \/ (verdict[r] = "failed" /\ e = "finished_failed")
        /\ \A q \in Run : q # r => events'[q] = events[q]
    BY <2>2, <2>3, EmitHas
  <2>5. SessionInv(r)'
    BY <1>0, <2>1, <2>4 DEF RunInv, SessionInv, Cleanup
  <2>6. ReportInv(r)'
    BY <1>0, <2>1, <2>4 DEF RunInv, ReportInv, Consumed
  <2>7. SandboxInv(r)'
    BY <1>0, <2>1, <2>4 DEF RunInv, SandboxInv, Preparing
  <2>8. OrderInv(r)'
    BY <1>0, <2>1, <2>2, <2>3, EmitOrder
  <2>9. RunInv(r)'
    BY <2>5, <2>6, <2>7, <2>8 DEF RunInv
  <2> QED BY <2>1, <2>4, <2>9, OneRun
<1>11. ASSUME NEW r \in Run, Drain(r) PROVE HostInv'
  <2>1. /\ pc[r] = "drain" /\ pc'[r] = "close" /\ \A q \in Run : q # r => pc'[q] = pc[q]
        /\ UNCHANGED <<sandbox_enabled, spoiled, verdict, reply, agent, sandbox, release, events>>
    BY <1>11 DEF Drain, GoTo, TypeOK, sharedVars
  <2>2. SessionInv(r)'
    BY <1>0, <2>1 DEF RunInv, SessionInv, Cleanup
  <2>3. ReportInv(r)'
    BY <1>0, <2>1 DEF RunInv, ReportInv, Consumed
  <2>4. SandboxInv(r)'
    BY <1>0, <2>1 DEF RunInv, SandboxInv, Preparing
  <2> QED BY <2>1, <2>2, <2>3, <2>4, QuietStep
<1>12. ASSUME NEW r \in Run, Close(r) PROVE HostInv'
  <2>0. pc[r] = "close" /\ UNCHANGED <<sandbox_enabled, reply, sandbox>>
    BY <1>12 DEF Close
  <2>1. CASE Kill(r) /\ GoTo(r, "reap") /\ UNCHANGED <<verdict, release, events, spoiled>>
    <3>1. /\ pc'[r] = "reap"
          /\ \A q \in Run : q # r => pc'[q] = pc[q] /\ agent'[q] = agent[q]
      BY <2>1 DEF GoTo, Kill, TypeOK
    <3>2. SessionInv(r)'
      BY <1>0, <2>0, <2>1, <3>1 DEF RunInv, SessionInv, Cleanup
    <3>3. ReportInv(r)'
      BY <1>0, <2>0, <2>1, <3>1 DEF RunInv, ReportInv, Consumed
    <3>4. SandboxInv(r)'
      BY <1>0, <2>0, <2>1, <3>1 DEF RunInv, SandboxInv, Preparing
    <3> QED BY <2>0, <2>1, <3>1, <3>2, <3>3, <3>4, QuietStep
  <2>2. CASE EnterRelease(r) /\ UNCHANGED <<verdict, agent>>
    BY <2>0, <2>2, EnterReleaseStep
  <2>3. CASE FailAtOnce(r) /\ spoiled' = spoiled \cup {r} /\ UNCHANGED <<agent, release>>
    <3>1. /\ pc'[r] = "done" /\ verdict'[r] = "failed" /\ Emit(r, Report(FALSE))
          /\ \A q \in Run : q # r => pc'[q] = pc[q] /\ verdict'[q] = verdict[q]
      BY <2>3, FailedAtOnce
    <3>2. /\ \A e : Has(events'[r], e) <=> Has(events[r], e) \/ e = "consumed_failed"
          /\ \A q \in Run : q # r => events'[q] = events[q]
      BY <3>1, SaidFailed, EmitHas
    <3>3. SessionInv(r)'
      BY <1>0, <2>0, <2>3, <3>1, <3>2 DEF RunInv, SessionInv, Cleanup
    <3>4. ReportInv(r)'
      BY <1>0, <2>0, <2>3, <3>1, <3>2 DEF RunInv, ReportInv, SandboxInv, Consumed
    <3>5. SandboxInv(r)'
      BY <1>0, <2>0, <2>3, <3>1, <3>2 DEF RunInv, SandboxInv, Preparing
    <3>6. OrderInv(r)'
      BY <1>0, <2>0, <3>1, SaidFailed, EmitOrder
    <3>7. RunInv(r)'
      BY <3>3, <3>4, <3>5, <3>6 DEF RunInv
    <3> QED BY <2>0, <2>3, <3>1, <3>2, <3>7, OneRun
  <2> QED BY <1>12, <2>1, <2>2, <2>3 DEF Close
<1>13. ASSUME NEW r \in Run, Reap(r) PROVE HostInv'
  BY <1>13, EnterReleaseStep DEF Reap
<1>14. ASSUME NEW r \in Run, Release(r) PROVE HostInv'
  <2>1. /\ release[r] = "running" /\ release'[r] = "done"
        /\ \A q \in Run : q # r => release'[q] = release[q] /\ sandbox'[q] = sandbox[q]
        /\ sandbox'[r] \in {sandbox[r], "deleted"}
        /\ UNCHANGED <<sandbox_enabled, spoiled, pc, verdict, reply, agent>>
    BY <1>14 DEF Release, Sandbox, TypeOK, sharedVars
  <2>2. PICK es \in {"released_ok", "released_failed"} :
          Emit(r, <<es>>) /\ (es = "released_ok" => sandbox'[r] = "deleted")
    BY <1>14 DEF Release, Sandbox, TypeOK
  <2>3. /\ <<es>> \in Seq(Event) /\ InOrder(<<es>>)
        /\ \A e : Has(<<es>>, e) <=> e = es
    <3>1. es \in Event /\ es # "consumed_ok"
      BY DEF Event
    <3> QED BY <3>1, SaidOne
  <2>4. /\ \A e : Has(events'[r], e) <=> Has(events[r], e) \/ e = es
        /\ \A q \in Run : q # r => events'[q] = events[q]
    BY <2>2, <2>3, EmitHas
  <2>5. SessionInv(r)'
    BY <1>0, <2>1, <2>4 DEF RunInv, SessionInv, Cleanup
  <2>6. ReportInv(r)'
    BY <1>0, <2>1, <2>4 DEF RunInv, ReportInv, Consumed
  <2>7. SandboxInv(r)'
    BY <1>0, <2>1, <2>2, <2>4 DEF RunInv, SandboxInv, Preparing
  <2>8. OrderInv(r)'
    BY <1>0, <2>1, <2>2, <2>3, EmitOrder
  <2>9. RunInv(r)'
    BY <2>5, <2>6, <2>7, <2>8 DEF RunInv
  <2> QED BY <2>1, <2>4, <2>9, OneRun
<1>15. ASSUME NEW r \in Run, AfterRelease(r) PROVE HostInv'
  BY <1>15, ConcludeStep DEF AfterRelease, Cleanup
<1>16. ASSUME Cancel PROVE HostInv'
  <2>1. ASSUME NEW r \in Run, Interrupt(r) PROVE HostInv'
    <3>1. /\ verdict'[r] = "cancelled"
          /\ \A q \in Run : q # r => pc'[q] = pc[q] /\ verdict'[q] = verdict[q]
                                    /\ agent'[q] = agent[q] /\ sandbox'[q] = sandbox[q]
          /\ UNCHANGED <<sandbox_enabled, spoiled, reply, release, events>>
      BY <1>16, <2>1 DEF Cancel, Interrupt, GoTo, Rule, Sandbox, TypeOK
    <3>2. \/ pc[r] \in Preparing \cup {"drain", "reap", "release"} /\ pc'[r] = "done"
          \/ pc[r] = "spawn" /\ pc'[r] = "close" /\ agent'[r] = agent[r]
          \/ pc[r] \in {"handshake", "prompt"} /\ pc'[r] = "exit"
          \/ pc[r] = "exit" /\ pc'[r] = "drain"
      BY <2>1 DEF Interrupt, GoTo, TypeOK
    <3>3. \/ sandbox'[r] = sandbox[r]
          \/ pc[r] = "create" /\ sandbox'[r] = "up"
          \/ pc[r] = "undo" /\ sandbox'[r] = "deleted"
      BY <2>1 DEF Interrupt, Sandbox, TypeOK
    <3>4. SessionInv(r)'
      BY <1>0, <3>1, <3>2 DEF RunInv, SessionInv, Cleanup, Preparing
    <3>5. ReportInv(r)'
      BY <1>0, <3>1, <3>2 DEF RunInv, ReportInv, Consumed, Preparing
    <3>6. SandboxInv(r)'
      BY <1>0, <3>1, <3>2, <3>3 DEF RunInv, SandboxInv, Preparing
    <3> QED BY <3>1, <3>4, <3>5, <3>6, QuietStep
  <2>2. CASE UNCHANGED <<pc, verdict, sandbox, agent>>
    <3>1. UNCHANGED <<sandbox_enabled, spoiled, pc, verdict, reply, agent, sandbox, release, events>>
      BY <1>16, <2>2 DEF Cancel
    <3> QED BY <3>1 DEF HostInv, RunInv, SessionInv, ReportInv, OrderInv, SandboxInv
  <2> QED BY <1>16, <2>1, <2>2 DEF Cancel
<1>17. ASSUME Teardown PROVE HostInv'
  <2>1. UNCHANGED <<sandbox_enabled, spoiled, pc, verdict, reply, agent, release, events>>
    BY <1>17 DEF Teardown
  <2>2. \A r \in Run : sandbox'[r] \in {sandbox[r], "deleted"}
    BY <1>17 DEF Teardown
  <2> SUFFICES ASSUME NEW r \in Run PROVE RunInv(r)'
    BY DEF HostInv
  <2>3. SessionInv(r)'
    BY <1>0, <2>1 DEF RunInv, SessionInv
  <2>4. ReportInv(r)'
    BY <1>0, <2>1 DEF RunInv, ReportInv
  <2>5. OrderInv(r)'
    BY <1>0, <2>1 DEF RunInv, OrderInv
  <2>6. SandboxInv(r)'
    BY <1>0, <2>1, <2>2 DEF RunInv, SandboxInv
  <2> QED BY <2>3, <2>4, <2>5, <2>6 DEF RunInv
<1>18. CASE UNCHANGED vars
  BY <1>18 DEF HostInv, RunInv, SessionInv, ReportInv, OrderInv, SandboxInv, vars, sharedVars
<1> QED BY <1>1, <1>2, <1>3, <1>4, <1>5, <1>6, <1>7, <1>8, <1>9, <1>10, <1>11, <1>12, <1>13,
           <1>14, <1>15, <1>16, <1>17, <1>18 DEF Next, Bounded, Unbounded

(* The invariant, for every number of runs. *)
LEMMA HostInvariant == Spec => []HostInv
<1>1. TypeOK /\ HostInv /\ [Next]_vars => HostInv'
  BY HostStep
<1> QED BY InitHost, <1>1, HostTypeCorrect, PTL DEF Spec

(* SandboxBridge.prepare and release, and run's finally block: a sandbox is *)
(* left behind only when its run was shut down, failed before its agent was *)
(* spawned, said so in sandbox_released, or could not close its trace.      *)
THEOREM StrandedSandboxHasCause == Spec => []StrandedHasCause
<1>1. HostInv => StrandedHasCause
  <2> SUFFICES ASSUME HostInv, NEW r \in Run
               PROVE  /\ pc[r] = "done" /\ sandbox[r] = "up" =>
                           \/ verdict[r] = "cancelled"
                           \/ agent[r] = "none" /\ ~Emitted(r, "finished_failed")
                           \/ Emitted(r, "released_failed")
                           \/ r \in spoiled /\ release[r] = "none"
                      /\ Emitted(r, "released_ok") => sandbox[r] = "deleted"
    BY DEF StrandedHasCause
  <2>1. SandboxInv(r)
    BY DEF HostInv, RunInv
  <2>2. \A e : Emitted(r, e) <=> Has(events[r], e)
    BY DEF Emitted, Has
  <2> QED BY <2>1, <2>2 DEF SandboxInv
<1> QED BY <1>1, HostInvariant, PTL

(* run and consume: agent_finished, prompt_consumed and the agent's answer  *)
(* agree for every run whose trace could be closed and finished, and        *)
(* prompt_consumed is the last that is heard of a run.                      *)
THEOREM ReportsAgree == Spec => []VerdictsAgree
<1>1. HostInv => VerdictsAgree
  <2> SUFFICES ASSUME HostInv, NEW r \in Run
               PROVE  /\ Before(r, "finished_ok", "consumed_ok")
                      /\ Before(r, "started", "finished_ok")
                      /\ ~(Emitted(r, "finished_failed") /\ Emitted(r, "consumed_ok"))
                      /\ \A k \in DOMAIN events[r] :
                           events[r][k] \in {"consumed_ok", "consumed_failed"} => k = Len(events[r])
                      /\ r \notin spoiled =>
                           /\ ~(Emitted(r, "finished_ok") /\ Emitted(r, "consumed_failed"))
                           /\ ~(reply[r] = "answered" /\ Emitted(r, "consumed_failed"))
                           /\ pc[r] = "done" /\ Emitted(r, "started") /\ verdict[r] # "cancelled" =>
                                Emitted(r, "finished_ok") \/ Emitted(r, "finished_failed")
    BY DEF VerdictsAgree
  <2>1. SessionInv(r) /\ ReportInv(r) /\ OrderInv(r)
    BY DEF HostInv, RunInv
  <2>2. \A e : Emitted(r, e) <=> Has(events[r], e)
    BY DEF Emitted, Has
  <2>3. Before(r, "finished_ok", "consumed_ok") /\ Before(r, "started", "finished_ok")
    BY <2>1 DEF OrderInv, Precedes, Before
  <2>4. \A k \in DOMAIN events[r] :
          events[r][k] \in {"consumed_ok", "consumed_failed"} => k = Len(events[r])
    BY <2>1 DEF OrderInv, EndsConsumed, Consumed
  <2> QED BY <2>1, <2>2, <2>3, <2>4 DEF SessionInv, ReportInv, Consumed
<1> QED BY <1>1, HostInvariant, PTL
==============================================================================
