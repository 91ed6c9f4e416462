------------------------------- MODULE AcpHost -------------------------------
(***************************************************************************)
(* One cold agent session per envelope: AcpHost.run (acp_host.py), the     *)
(* sandbox bridge's prepare and release around it (sandbox_bridge.py), the *)
(* consumer loop that calls it (prompt_queue.py) and the lifespan that     *)
(* cancels that consumer (app.py).  "pc" names the await a run is in; what *)
(* lies between two awaits is one step.  A shutdown cancels the consumer   *)
(* once, at whatever await it has reached, and its effect there depends on *)
(* the try, except and finally blocks around that await.                   *)
(*                                                                         *)
(* External, modelled from their use: the ACP SDK (spawn_agent_process,    *)
(* whose exit ends the process unless it is cancelled itself), the agent,  *)
(* and the SwarmSandbox service, here only "is the sandbox there".         *)
(***************************************************************************)
EXTENDS Integers, Sequences, FiniteSets

CONSTANT Run  \* the envelopes' ids

VARIABLES sandbox_enabled,  \* the setting, fixed at start
          shutdown,         \* consumer.cancel() was called
          consumer,         \* "looping" or "ended"
          loop,             \* is the event loop still running?
          pc,               \* the await each run is in
          verdict,          \* what run() is about to return or raise
          reply,            \* history: how the prompt itself ended
          agent,            \* the agent process
          trace,            \* the RunTrace and its handle
          sandbox,          \* the run's sandbox at the service
          release,          \* the shielded release task
          events,           \* history: the lifecycle events of each run, in order
          spoiled           \* history: runs whose trace could not be closed or finished

sharedVars == <<sandbox_enabled, shutdown, consumer, loop, spoiled>>
vars == <<sharedVars, pc, verdict, reply, agent, trace, sandbox, release, events>>

Sleeping == {"queued", "done"}

Preparing == {"create", "materialize", "undo", "origin", "workspace"}

Awaits == Preparing \cup {"spawn", "handshake", "prompt", "exit", "drain", "reap", "release"}

Init ==
  /\ sandbox_enabled \in BOOLEAN
  /\ shutdown = FALSE
  /\ consumer = "looping"
  /\ loop = TRUE
  /\ pc = [r \in Run |-> "queued"]
  /\ verdict = [r \in Run |-> "none"]
  /\ reply = [r \in Run |-> "none"]
  /\ agent = [r \in Run |-> "none"]
  /\ trace = [r \in Run |-> "none"]
  /\ sandbox = [r \in Run |-> "none"]
  /\ release = [r \in Run |-> "none"]
  /\ events = [r \in Run |-> <<>>]
  /\ spoiled = {}

GoTo(r, stage) == pc' = [pc EXCEPT ![r] = stage]
Rule(r, v) == verdict' = [verdict EXCEPT ![r] = v]
Emit(r, es) == events' = [events EXCEPT ![r] = @ \o es]
Sandbox(r, s) == sandbox' = [sandbox EXCEPT ![r] = s]

(* faulty: the consumer records successes only. *)
ReportSuccess(ok) == IF ok THEN <<"consumed_ok">> ELSE <<>>

(* The consumer's prompt_consumed. *)
Report(ok) == <<IF ok THEN "consumed_ok" ELSE "consumed_failed">>

(* run() raised and nothing is cleaned up (any more): the consumer records *)
(* the failure and goes on.                                                *)
FailAtOnce(r) == GoTo(r, "done") /\ Rule(r, "failed") /\ Emit(r, Report(FALSE))

------------------------------------------------------------------------------
(* Before the session *)

(* queue.get() hands the next envelope to run(), which first looks for the *)
(* agent binary.                                                           *)
Take(r) ==
  /\ consumer = "looping"
  /\ \A q \in Run : pc[q] \in Sleeping
  /\ pc[r] = "queued"
  /\ \/ GoTo(r, IF sandbox_enabled THEN "create" ELSE "workspace") /\ UNCHANGED <<verdict, events>>
     \/ FailAtOnce(r)
  /\ UNCHANGED <<sharedVars, reply, agent, trace, sandbox, release>>

(* bridge._create_sandbox: an error or a timeout may come after the service *)
(* has created the sandbox.                                                 *)
CreateSandbox(r) ==
  /\ pc[r] = "create"
  /\ \/ Sandbox(r, "up") /\ GoTo(r, "materialize") /\ UNCHANGED <<verdict, events>>
     \/ (Sandbox(r, "up") \/ UNCHANGED sandbox) /\ FailAtOnce(r)
  /\ UNCHANGED <<sharedVars, reply, agent, trace, release>>

(* bridge._materialize *)
Materialize(r) ==
  /\ pc[r] = "materialize"
  /\ GoTo(r, "origin") \/ GoTo(r, "undo")
  /\ UNCHANGED <<sharedVars, verdict, reply, agent, trace, sandbox, release, events>>

(* The workspace never came: the DELETE before prepare() reraises. *)
Undo(r) ==
  /\ pc[r] = "undo"
  /\ Sandbox(r, "deleted") \/ UNCHANGED sandbox
  /\ FailAtOnce(r)
  /\ UNCHANGED <<sharedVars, reply, agent, trace, release>>

(* What run() does between the workspace and the spawn.  Writing the deny   *)
(* config may raise, outside the try block; a trace that cannot be opened   *)
(* is None.                                                                 *)
SetUp(r, before) ==
  \/ /\ GoTo(r, "spawn")
     /\ Emit(r, before)
     /\ \E t \in {"none", "open"} : trace' = [trace EXCEPT ![r] = t]
     /\ UNCHANGED verdict
  \/ /\ GoTo(r, "done")
     /\ Rule(r, "failed")
     /\ Emit(r, before \o Report(FALSE))
     /\ UNCHANGED trace

(* _remove_origin: a git that fails is only logged, one that cannot be      *)
(* executed raises, after the block that would delete the sandbox.          *)
RemoveOrigin(r) ==
  /\ pc[r] = "origin"
  /\ \/ SetUp(r, <<"provisioned">>)
     \/ FailAtOnce(r) /\ UNCHANGED trace
  /\ UNCHANGED <<sharedVars, reply, agent, sandbox, release>>

(* _prepare_workspace: a scratch directory or the mapped checkout. *)
PrepareWorkspace(r) ==
  /\ pc[r] = "workspace"
  /\ \/ SetUp(r, <<>>)
     \/ FailAtOnce(r) /\ UNCHANGED trace
  /\ UNCHANGED <<sharedVars, reply, agent, sandbox, release>>

------------------------------------------------------------------------------
(* The session *)

Spawn(r) ==
  /\ pc[r] = "spawn"
  /\ \/ /\ agent' = [agent EXCEPT ![r] = "alive"]
        /\ GoTo(r, "handshake")
        /\ UNCHANGED <<verdict, events>>
     \/ /\ GoTo(r, "close")
        /\ Rule(r, "failed")
        /\ Emit(r, <<"finished_failed">>)
        /\ UNCHANGED agent
  /\ UNCHANGED <<sharedVars, reply, trace, sandbox, release>>

(* initialize and new_session, each under the step timeout. *)
Handshake(r) ==
  /\ pc[r] = "handshake"
  /\ \/ GoTo(r, "prompt") /\ Emit(r, <<"started">>) /\ UNCHANGED verdict
     \/ GoTo(r, "exit") /\ Rule(r, "failed") /\ UNCHANGED events
  /\ UNCHANGED <<sharedVars, reply, agent, trace, sandbox, release>>

(* faulty: a watchdog that fired in the same turn outranks the answer. *)
WatchdogFirst(prompt, watchdog) ==
  IF prompt = "answered" /\ watchdog = "pending" THEN "answered" ELSE "failed"

(* faulty: the prompt's own state is the verdict, whatever it is. *)
PromptAlone(prompt, watchdog) == prompt

(* A finished prompt speaks for the run; every other outcome is a failure. *)
_resolve_prompt_race(prompt, watchdog) ==
  IF prompt = "answered" THEN "answered" ELSE "failed"

(* The prompt, its watchdog, or both in the same turn are done. *)
Prompt(r) ==
  /\ pc[r] = "prompt"
  /\ \E prompt \in {"pending", "answered", "failed", "cancelled"} :
       \E watchdog \in {"pending", "fired"} :
         /\ prompt # "pending" \/ watchdog # "pending"
         /\ reply' = [reply EXCEPT ![r] = prompt]
         /\ Rule(r, _resolve_prompt_race(prompt, watchdog))
  /\ GoTo(r, "exit")
  /\ UNCHANGED <<sharedVars, agent, trace, sandbox, release, events>>

(* faulty: the failure is left to the consumer's event. *)
ExceptSilent(r) == <<>>

(* run's except clause *)
Except(r) == IF verdict[r] = "failed" THEN <<"finished_failed">> ELSE <<>>

(* The SDK's context manager ends the process; then the except clause. *)
Exit(r) ==
  /\ pc[r] = "exit"
  /\ agent' = [agent EXCEPT ![r] = "dead"]
  /\ Emit(r, Except(r))
  /\ GoTo(r, "drain")
  /\ UNCHANGED <<sharedVars, verdict, reply, trace, sandbox, release>>

------------------------------------------------------------------------------
(* The finally block and what follows it *)

(* The stderr drainer is cancelled and awaited. *)
Drain(r) ==
  /\ pc[r] = "drain"
  /\ GoTo(r, "close")
  /\ UNCHANGED <<sharedVars, verdict, reply, agent, trace, sandbox, release, events>>

(* faulty: the consumer catches the cancellation as well. *)
LoopAlways(r) == UNCHANGED consumer

Loop(r) == consumer' = IF verdict[r] = "cancelled" THEN "ended" ELSE consumer

(* run() returns or raises; the consumer reports and loops, unless what it *)
(* sees is the cancellation.                                               *)
Conclude(r) ==
  /\ GoTo(r, "done")
  /\ Loop(r)
  /\ \/ /\ verdict[r] = "answered" /\ trace[r] # "none"  \* trace.finish raises
        /\ Emit(r, <<"finished_ok">> \o Report(FALSE))
        /\ spoiled' = spoiled \cup {r}
     \/ /\ \/ verdict[r] = "answered" /\ Emit(r, <<"finished_ok">> \o Report(TRUE))
           \/ verdict[r] = "failed" /\ Emit(r, Report(FALSE))
           \/ verdict[r] = "cancelled" /\ UNCHANGED events
        /\ UNCHANGED spoiled

(* faulty: a run that failed keeps its sandbox. *)
EnterReleaseIfAnswered(r) ==
  IF sandbox_enabled /\ verdict[r] = "answered"
    THEN /\ GoTo(r, "release")
         /\ release' = [release EXCEPT ![r] = "running"]
         /\ UNCHANGED <<consumer, events, spoiled>>
    ELSE Conclude(r) /\ UNCHANGED release

EnterRelease(r) ==
  IF sandbox_enabled THEN /\ GoTo(r, "release")
                          /\ release' = [release EXCEPT ![r] = "running"]
                          /\ UNCHANGED <<consumer, events, spoiled>>
                     ELSE Conclude(r) /\ UNCHANGED release

(* faulty: the process is left to itself. *)
KillNothing(r) == UNCHANGED agent

Kill(r) == agent' = [agent EXCEPT ![r] = IF @ = "alive" THEN "dead" ELSE @]

(* trace.close(), then proc.kill() and a bounded wait if the process is not *)
(* known to be gone, then the release.  A close that raises replaces        *)
(* whatever was being raised, a cancellation too, and skips the rest.       *)
Close(r) ==
  /\ pc[r] = "close"
  /\ trace' = [trace EXCEPT ![r] = IF @ = "open" THEN "closed" ELSE @]
  /\ \/ /\ agent[r] # "none"
        /\ Kill(r)
        /\ GoTo(r, "reap")
        /\ UNCHANGED <<verdict, release, events, consumer, spoiled>>
     \/ /\ agent[r] # "alive"
        /\ EnterRelease(r)
        /\ UNCHANGED <<verdict, agent>>
     \/ /\ trace[r] = "open"
        /\ FailAtOnce(r)
        /\ spoiled' = spoiled \cup {r}
        /\ UNCHANGED <<agent, release, consumer>>
  /\ UNCHANGED <<sandbox_enabled, shutdown, loop, reply, sandbox>>

Reap(r) ==
  /\ pc[r] = "reap"
  /\ EnterRelease(r)
  /\ UNCHANGED <<sandbox_enabled, shutdown, loop, verdict, reply, agent, trace, sandbox>>

(* The shielded bridge.release: it never raises, the event says how it went. *)
Release(r) ==
  /\ release[r] = "running"
  /\ loop
  /\ release' = [release EXCEPT ![r] = "done"]
  /\ \/ Sandbox(r, "deleted") /\ Emit(r, <<"released_ok">>)
     \/ (Sandbox(r, "deleted") \/ UNCHANGED sandbox) /\ Emit(r, <<"released_failed">>)
  /\ UNCHANGED <<sharedVars, pc, verdict, reply, agent, trace>>

AfterRelease(r) ==
  /\ pc[r] = "release"
  /\ release[r] = "done"
  /\ Conclude(r)
  /\ UNCHANGED <<sandbox_enabled, shutdown, loop, verdict, reply, agent, trace, sandbox, release>>

------------------------------------------------------------------------------
(* Shutdown *)

(* CancelledError at r's await.  Before the try block and inside the        *)
(* finally block it ends the run; in between the cleanup is still to come.  *)
Interrupt(r) ==
  /\ Rule(r, "cancelled")
  /\ \/ /\ pc[r] \in Preparing \cup {"drain", "reap", "release"}
        /\ GoTo(r, "done")
        /\ consumer' = "ended"
        /\ \/ UNCHANGED sandbox
           \/ pc[r] = "create" /\ Sandbox(r, "up")      \* the request had got through
           \/ pc[r] = "undo" /\ Sandbox(r, "deleted")
        /\ UNCHANGED agent
     \/ /\ pc[r] = "spawn"
        /\ GoTo(r, "close")
        /\ UNCHANGED <<consumer, sandbox, agent>>
     \/ /\ pc[r] \in {"handshake", "prompt"}
        /\ GoTo(r, "exit")
        /\ UNCHANGED <<consumer, sandbox, agent>>
     \/ /\ pc[r] = "exit"
        /\ GoTo(r, "drain")
        /\ \E a \in {"alive", "dead"} : agent' = [agent EXCEPT ![r] = a]
        /\ UNCHANGED <<consumer, sandbox>>

(* The lifespan's consumer.cancel(): at queue.get() it simply ends. *)
Cancel ==
  /\ ~shutdown
  /\ shutdown' = TRUE
  /\ \/ \E r \in Run : Interrupt(r)
     \/ /\ \A r \in Run : pc[r] \in Sleeping
        /\ consumer' = "ended"
        /\ UNCHANGED <<pc, verdict, sandbox, agent>>
  /\ UNCHANGED <<sandbox_enabled, loop, spoiled, reply, trace, release, events>>

(* The awaited consumer is gone, the server returns and the event loop is   *)
(* torn down, cancelling the tasks still running; a DELETE under way may or *)
(* may not take effect.                                                     *)
Teardown ==
  /\ consumer = "ended"
  /\ loop
  /\ loop' = FALSE
  /\ \E late \in SUBSET { r \in Run : release[r] = "running" } :
       sandbox' = [r \in Run |-> IF r \in late THEN "deleted" ELSE sandbox[r]]
  /\ UNCHANGED <<sandbox_enabled, shutdown, consumer, spoiled, pc, verdict, reply, agent, trace,
                 release, events>>

------------------------------------------------------------------------------

(* The awaits that the code, the SDK or an HTTP timeout bounds in time. *)
Bounded(r) ==
  \/ CreateSandbox(r) \/ Undo(r) \/ PrepareWorkspace(r)
  \/ Spawn(r) \/ Handshake(r) \/ Exit(r)
  \/ Drain(r) \/ Close(r) \/ Reap(r) \/ Release(r) \/ AfterRelease(r)

(* `docker cp` and git run without a timeout, and an agent may talk for ever. *)
Unbounded(r) == Materialize(r) \/ RemoveOrigin(r) \/ Prompt(r)

Next == \/ \E r \in Run : Take(r) \/ Bounded(r) \/ Unbounded(r)
        \/ Cancel
        \/ Teardown

Spec == Init /\ [][Next]_vars

(* The loop schedules what is ready.  Nothing is assumed of the unbounded   *)
(* awaits, and nobody is obliged to shut down.                              *)
Fairness == /\ \A r \in Run : WF_vars(Bounded(r))
            /\ WF_vars(Teardown)

FairSpec == Spec /\ Fairness

------------------------------------------------------------------------------
(* Properties *)

Event == {"provisioned", "started", "finished_ok", "finished_failed", "released_ok",
          "released_failed", "consumed_ok", "consumed_failed"}

TypeOK ==
  /\ sandbox_enabled \in BOOLEAN /\ shutdown \in BOOLEAN /\ loop \in BOOLEAN
  /\ consumer \in {"looping", "ended"}
  /\ pc \in [Run -> Awaits \cup Sleeping \cup {"close"}]
  /\ verdict \in [Run -> {"none", "answered", "failed", "cancelled"}]
  /\ reply \in [Run -> {"none", "pending", "answered", "failed", "cancelled"}]
  /\ agent \in [Run -> {"none", "alive", "dead"}]
  /\ trace \in [Run -> {"none", "open", "closed"}]
  /\ sandbox \in [Run -> {"none", "up", "deleted"}]
  /\ release \in [Run -> {"none", "running", "done"}]
  /\ events \in [Run -> Seq(Event)]
  /\ spoiled \subseteq Run

Emitted(r, e) == \E k \in DOMAIN events[r] : events[r][k] = e

Before(r, e, f) ==
  \A k \in DOMAIN events[r] : events[r][k] = f => \E j \in 1 .. k - 1 : events[r][j] = e

(* No agent outlives its run, wherever a shutdown struck: the one await     *)
(* that can leave it alive is the SDK's exit, and a cancellation spent      *)
(* there cannot also skip the kill.  Only a trace.close() that raises can   *)
(* (run's finally block).                                                   *)
NoAgentLeft == \A r \in Run : pc[r] = "done" /\ agent[r] = "alive" => r \in spoiled

(* Every way a run can leave its sandbox behind: it was shut down, it       *)
(* failed before the agent was spawned, sandbox_released said so, or its    *)
(* trace could not be closed.  And sandbox_released {ok: true} is never     *)
(* said of one that is still there (run, SandboxBridge.prepare, release).   *)
StrandedHasCause ==
  \A r \in Run :
    /\ pc[r] = "done" /\ sandbox[r] = "up" =>
         \/ verdict[r] = "cancelled"
         \/ agent[r] = "none" /\ ~Emitted(r, "finished_failed")
         \/ Emitted(r, "released_failed")
         \/ r \in spoiled /\ release[r] = "none"
    /\ Emitted(r, "released_ok") => sandbox[r] = "deleted"

(* The two verdicts a reader of the feed sees, agent_finished and           *)
(* prompt_consumed, agree with each other and with the agent's answer; the  *)
(* latter is a run's last event, and a run that was prompted and not cut    *)
(* short has both.  Only a spoiled trace can break this (run and consume).  *)
VerdictsAgree ==
  \A r \in Run :
    /\ Before(r, "finished_ok", "consumed_ok")
    /\ Before(r, "started", "finished_ok")
    /\ ~(Emitted(r, "finished_failed") /\ Emitted(r, "consumed_ok"))
    /\ \A k \in DOMAIN events[r] :
         events[r][k] \in {"consumed_ok", "consumed_failed"} => k = Len(events[r])
    /\ r \notin spoiled =>
         /\ ~(Emitted(r, "finished_ok") /\ Emitted(r, "consumed_failed"))
         /\ ~(reply[r] = "answered" /\ Emitted(r, "consumed_failed"))
         /\ pc[r] = "done" /\ Emitted(r, "started") /\ verdict[r] # "cancelled" =>
              Emitted(r, "finished_ok") \/ Emitted(r, "finished_failed")

(* A cancelled run ends the consumer, at whatever await it was struck, so   *)
(* that the lifespan, which awaits the consumer, does not hang on a         *)
(* `docker cp` or an agent that would take for ever; unless the run's trace *)
(* cannot be closed on the way out (lifespan, run and consume).             *)
ShutdownEndsConsumer ==
  \A r \in Run : verdict[r] = "cancelled" ~> (consumer = "ended" \/ r \in spoiled)

(* "Cancellation (lifespan shutdown) propagates after the host's own        *)
(* kill-on-exit cleanup" (PromptQueue.consume), whatever the disk does.     *)
CancellationPropagates == shutdown ~> consumer = "ended"

(* Once the prompt is over, its run is reported and the consumer is free,   *)
(* unless a shutdown came: no step of the cleanup can hang or be lost.      *)
VerdictIsReported ==
  \A r \in Run : reply[r] # "none" ~>
    \/ shutdown
    \/ pc[r] = "done" /\ (Emitted(r, "consumed_ok") \/ Emitted(r, "consumed_failed"))

==============================================================================
