---------------------------- MODULE SandboxService ----------------------------
(***************************************************************************)
(* The SwarmSandbox API service: SandboxManager (create, delete), the      *)
(* SandboxReaper, the EF store they share and the Docker daemon behind     *)
(* DockerSandboxProvisioner.  Every await is a step boundary: requests,    *)
(* the reaper pass, a client that hangs up and a service crash interleave. *)
(* The store has no concurrency token: each Update writes the whole row    *)
(* from the writer's own copy.                                             *)
(*                                                                         *)
(* The provisioner returns a container's id and name together, so "named"  *)
(* stands for both columns.                                                *)
(***************************************************************************)
EXTENDS Integers, FiniteSets

CONSTANTS Sandbox,  \* record ids, one per POST /api/sandboxes
          Faults    \* which failures occur: "abort", "crash", "docker", "store"

ASSUME FaultAssumption == Faults \subseteq {"abort", "crash", "docker", "store"}

VARIABLES row,         \* the Sandboxes table
          container,   \* what Docker has for the container made for a record
          create,      \* POST calls: where CreateSandboxAsync is, its record copy
          aborted,     \* the POST's client hung up: its CancellationToken is cancelled
          delete,      \* DELETE calls: where DeleteAsync is, its record copy
          rpc,         \* where the reaper is in its pass
          batch,       \* record copies the pass still has to handle
          current,     \* the copy it is handling, as a set of at most one
          unsaved,     \* copies whose SaveChanges failed in this pass, still tracked
          expired,     \* has the record's ExpiresAt passed?
          interrupted  \* history: its creation was cut off or overtaken, see below

reaperVars == <<rpc, batch, current, unsaved>>
vars == <<row, container, create, aborted, delete, reaperVars, expired, interrupted>>

Live == {"Creating", "Running", "Faulted"}

NoCall == [pc |-> "none", named |-> FALSE]

Copy == [id : Sandbox, named : BOOLEAN]

(* A daemon answer or a save: fails only if such faults occur. *)
Outcome(kind) == IF kind \in Faults THEN {TRUE, FALSE} ELSE {TRUE}

Exists(s) == container[s] \in {"created", "running", "stopped"}

Init ==
  /\ row = [s \in Sandbox |-> [state |-> "None", named |-> FALSE]]
  /\ container = [s \in Sandbox |-> "none"]
  /\ create = [s \in Sandbox |-> NoCall]
  /\ aborted = [s \in Sandbox |-> FALSE]
  /\ delete = [s \in Sandbox |-> NoCall]
  /\ rpc = "tick"
  /\ batch = {}
  /\ current = {}
  /\ unsaved = {}
  /\ expired = [s \in Sandbox |-> FALSE]
  /\ interrupted = [s \in Sandbox |-> FALSE]

Save(s, state, named) == row' = [row EXCEPT ![s] = [state |-> state, named |-> named]]

(* RemoveContainerAsync under the identity a copy yields: the name or id,  *)
(* else the record id, which Docker answers with 404, ignored.             *)
RemoveContainer(s, named) ==
  container' = [container EXCEPT ![s] = IF named /\ Exists(s) THEN "gone" ELSE @]

------------------------------------------------------------------------------
(* SandboxManager.CreateSandboxAsync and the provisioner under it *)

GoTo(s, pc) == create' = [create EXCEPT ![s].pc = pc]

InFlight(s) == create[s].pc \in {"container", "start", "running", "faulted"}

(* The call ends without a container identity in the row. *)
CutOff(s) == GoTo(s, "done") /\ interrupted' = [interrupted EXCEPT ![s] = TRUE]

(* AddAsync: the row exists before the container does. *)
Add(s) ==
  /\ row[s].state = "None"
  /\ Save(s, "Creating", FALSE)
  /\ GoTo(s, "container")
  /\ UNCHANGED <<container, aborted, delete, reaperVars, expired, interrupted>>

(* CreateContainerAsync; a call that is cancelled or whose answer is lost   *)
(* may have reached the daemon all the same.                                *)
CreateContainer(s) ==
  /\ create[s].pc = "container"
  /\ \/ /\ ~aborted[s]
        /\ container' = [container EXCEPT ![s] = "created"]
        /\ GoTo(s, "start")
        /\ UNCHANGED interrupted
     \/ /\ aborted[s] \/ "docker" \in Faults
        /\ \E reached \in BOOLEAN :
             /\ container' = [container EXCEPT ![s] = IF reached THEN "created" ELSE @]
             /\ interrupted' = [interrupted EXCEPT ![s] = @ \/ reached]
        /\ GoTo(s, IF aborted[s] THEN "done" ELSE "faulted")
  /\ UNCHANGED <<row, aborted, delete, reaperVars, expired>>

(* StartContainerAsync succeeded; the seed upload swallows its failures. *)
Start(s) ==
  /\ create[s].pc = "start"
  /\ ~aborted[s]
  /\ container' = [container EXCEPT ![s] = "running"]
  /\ create' = [create EXCEPT ![s] = [pc |-> "running", named |-> TRUE]]
  /\ UNCHANGED <<row, aborted, delete, reaperVars, expired, interrupted>>

(* faulty: an unstarted container is left behind. *)
CleanUpNothing(s, ok) == UNCHANGED container

CleanUp(s, ok) == IF ok THEN RemoveContainer(s, TRUE) ELSE UNCHANGED container

(* It failed, or was cancelled: the provisioner removes the container while *)
(* it still knows the id, with CancellationToken.None, and rethrows.        *)
StartFails(s) ==
  /\ create[s].pc = "start"
  /\ aborted[s] \/ "docker" \in Faults
  /\ \E ok \in Outcome("docker") :
       /\ CleanUp(s, ok)
       /\ interrupted' = [interrupted EXCEPT ![s] = @ \/ ~ok]
  /\ GoTo(s, IF aborted[s] THEN "done" ELSE "faulted")
  /\ UNCHANGED <<row, aborted, delete, reaperVars, expired>>

(* UpdateAsync to Running.  A failed save goes to the catch block; a        *)
(* cancellation does not, whether or not the write went through.            *)
UpdateRunning(s) ==
  /\ create[s].pc = "running"
  /\ \/ /\ ~aborted[s]
        /\ \E ok \in Outcome("store") :
             IF ok THEN Save(s, "Running", TRUE) /\ GoTo(s, "done")
                   ELSE UNCHANGED row /\ GoTo(s, "faulted")
        /\ UNCHANGED interrupted
     \/ /\ aborted[s]
        /\ \/ Save(s, "Running", TRUE) /\ GoTo(s, "done") /\ UNCHANGED interrupted
           \/ UNCHANGED row /\ CutOff(s)
  /\ UNCHANGED <<container, aborted, delete, reaperVars, expired>>

(* faulty: the catch block saves the record without its identity. *)
SaveFaultedNameless(s) == Save(s, "Faulted", FALSE)

SaveFaulted(s) == Save(s, "Faulted", create[s].named)

(* The catch block: Faulted, with the identity if there already is one. *)
UpdateFaulted(s) ==
  /\ create[s].pc = "faulted"
  /\ \/ /\ ~aborted[s]
        /\ SaveFaulted(s)
        /\ GoTo(s, "done")
        /\ UNCHANGED interrupted
     \/ /\ aborted[s] \/ "store" \in Faults
        /\ UNCHANGED row
        /\ CutOff(s)
  /\ UNCHANGED <<container, aborted, delete, reaperVars, expired>>

(* The client hangs up, or its 15 s HTTP timeout does it for it. *)
Abort(s) ==
  /\ "abort" \in Faults
  /\ InFlight(s)
  /\ ~aborted[s]
  /\ aborted' = [aborted EXCEPT ![s] = TRUE]
  /\ UNCHANGED <<row, container, create, delete, reaperVars, expired, interrupted>>

CreateStep(s) == CreateContainer(s) \/ Start(s) \/ StartFails(s) \/ UpdateRunning(s)
                 \/ UpdateFaulted(s)

------------------------------------------------------------------------------
(* SandboxManager.DeleteAsync *)

(* FindAsync: from here on the call works on its own copy of the row. *)
DeleteFind(s) ==
  /\ row[s].state # "None"
  /\ delete[s].pc = "none"
  /\ delete' = [delete EXCEPT ![s] = [pc |-> "remove", named |-> row[s].named]]
  /\ interrupted' = [interrupted EXCEPT ![s] = @ \/ InFlight(s)]
  /\ UNCHANGED <<row, container, create, aborted, reaperVars, expired>>

DeleteRemove(s) ==
  /\ delete[s].pc = "remove"
  /\ \E ok \in Outcome("docker") :
       IF ok THEN /\ RemoveContainer(s, delete[s].named)
                  /\ delete' = [delete EXCEPT ![s].pc = "update"]
             ELSE /\ UNCHANGED container
                  /\ delete' = [delete EXCEPT ![s] = NoCall]
  /\ UNCHANGED <<row, create, aborted, reaperVars, expired, interrupted>>

DeleteUpdate(s) ==
  /\ delete[s].pc = "update"
  /\ \E ok \in Outcome("store") :
       IF ok THEN Save(s, "Removed", delete[s].named) ELSE UNCHANGED row
  /\ delete' = [delete EXCEPT ![s] = NoCall]
  /\ UNCHANGED <<container, create, aborted, reaperVars, expired, interrupted>>

(* The DELETE's own client hangs up between two awaits. *)
DeleteAbort(s) ==
  /\ "abort" \in Faults
  /\ delete[s].pc # "none"
  /\ delete' = [delete EXCEPT ![s] = NoCall]
  /\ UNCHANGED <<row, container, create, aborted, reaperVars, expired, interrupted>>

DeleteStep(s) == DeleteRemove(s) \/ DeleteUpdate(s)

------------------------------------------------------------------------------
(* SandboxReaper.ReapOnceAsync *)

(* faulty: the query of before the Creating state was added to it. *)
ReapableWithoutCreating == {"Running", "Faulted"}

Reapable == {"Creating", "Running", "Faulted"}

(* FindExpiredAsync *)
ReapQuery ==
  /\ rpc = "tick"
  /\ batch' = { [id |-> s, named |-> row[s].named] :
                  s \in { t \in Sandbox : expired[t] /\ row[t].state \in Reapable } }
  /\ rpc' = "stop"
  /\ UNCHANGED <<row, container, create, aborted, delete, current, unsaved, expired,
                 interrupted>>

(* faulty: the record stays current although the pass has left it. *)
SkipOnly(copy) == batch' = batch \ {copy} /\ rpc' = "stop" /\ UNCHANGED current

(* A failed call skips the record until the next pass. *)
Skip(copy) == batch' = batch \ {copy} /\ rpc' = "stop" /\ current' = {}

ReapStop(copy, ok) ==
  /\ rpc = "stop"
  /\ copy \in batch
  /\ IF ok THEN /\ container' = [container EXCEPT ![copy.id] =
                     IF copy.named /\ @ = "running" THEN "stopped" ELSE @]
                /\ rpc' = "remove"
                /\ current' = {copy}
                /\ UNCHANGED batch
           ELSE Skip(copy) /\ UNCHANGED container
  /\ UNCHANGED <<row, create, aborted, delete, unsaved, expired, interrupted>>

(* faulty: a container that failed to go is forgotten all the same. *)
GoOnAfterRemove(copy, ok) ==
  IF ok THEN RemoveContainer(copy.id, copy.named) /\ rpc' = "update" /\ UNCHANGED <<batch, current>>
        ELSE UNCHANGED container /\ rpc' = "update" /\ UNCHANGED <<batch, current>>

AfterRemove(copy, ok) ==
  IF ok THEN RemoveContainer(copy.id, copy.named) /\ rpc' = "update" /\ UNCHANGED <<batch, current>>
        ELSE UNCHANGED container /\ Skip(copy)

ReapRemove(copy, ok) ==
  /\ rpc = "remove"
  /\ copy \in current
  /\ AfterRemove(copy, ok)
  /\ UNCHANGED <<row, create, aborted, delete, unsaved, expired, interrupted>>

(* One DbContext serves the whole pass: a save that failed leaves its row   *)
(* tracked as modified, and the next save that works writes it as well.     *)
ReapUpdate(copy, ok) ==
  /\ rpc = "update"
  /\ copy \in current
  /\ IF ok THEN /\ row' = [s \in Sandbox |->
                     IF \E c \in unsaved \cup {copy} : c.id = s
                     THEN [state |-> "Removed",
                           named |-> \E c \in unsaved \cup {copy} : c.id = s /\ c.named]
                     ELSE row[s]]
                /\ unsaved' = {}
           ELSE unsaved' = unsaved \cup {copy} /\ UNCHANGED row
  /\ Skip(copy)
  /\ UNCHANGED <<container, create, aborted, delete, expired, interrupted>>

ReapEnd ==
  /\ rpc = "stop"
  /\ batch = {}
  /\ rpc' = "tick"
  /\ unsaved' = {}
  /\ UNCHANGED <<row, container, create, aborted, delete, batch, current, expired,
                 interrupted>>

------------------------------------------------------------------------------
(* Time and crashes *)

(* ExpiresAt is set as the POST begins and nothing makes it outlast the     *)
(* call: a TTL that passes while the container is being made lets the       *)
(* reaper overtake the creation, as a DELETE may.                           *)
Expire(s) ==
  /\ row[s].state # "None"
  /\ ~expired[s]
  /\ expired' = [expired EXCEPT ![s] = TRUE]
  /\ interrupted' = [interrupted EXCEPT ![s] = @ \/ InFlight(s)]
  /\ UNCHANGED <<row, container, create, aborted, delete, reaperVars>>

(* The service dies and restarts: every call in flight and the reap pass    *)
(* are gone, the table and Docker's containers stay.                        *)
Crash ==
  /\ "crash" \in Faults
  /\ create' = [s \in Sandbox |-> IF InFlight(s) THEN [NoCall EXCEPT !.pc = "done"]
                                                 ELSE create[s]]
  /\ interrupted' = [s \in Sandbox |-> interrupted[s] \/ InFlight(s)]
  /\ delete' = [s \in Sandbox |-> NoCall]
  /\ rpc' = "tick" /\ batch' = {} /\ current' = {} /\ unsaved' = {}
  /\ UNCHANGED <<row, container, aborted, expired>>

------------------------------------------------------------------------------

ReapStep(ok) == \E copy \in batch : ReapStop(copy, ok) \/ ReapRemove(copy, ok)
                                    \/ ReapUpdate(copy, ok)

FailedReapStep ==
  \/ "docker" \in Faults /\ \E copy \in batch : ReapStop(copy, FALSE) \/ ReapRemove(copy, FALSE)
  \/ "store" \in Faults /\ \E copy \in batch : ReapUpdate(copy, FALSE)

Next ==
  \/ \E s \in Sandbox : \/ Add(s) \/ CreateStep(s) \/ Abort(s)
                        \/ DeleteFind(s) \/ DeleteStep(s) \/ DeleteAbort(s)
                        \/ Expire(s)
  \/ ReapQuery \/ ReapStep(TRUE) \/ FailedReapStep \/ ReapEnd
  \/ Crash

Spec == Init /\ [][Next]_vars

(* Calls in flight go on, time passes, the reaper ticks; Docker and the     *)
(* database may fail any number of times but not for ever.                  *)
Fairness ==
  /\ \A s \in Sandbox : WF_vars(CreateStep(s)) /\ WF_vars(DeleteStep(s)) /\ WF_vars(Expire(s))
  /\ WF_vars(ReapQuery)
  /\ WF_vars(ReapEnd)
  /\ \A c \in Copy : /\ SF_vars(ReapStop(c, TRUE))
                     /\ SF_vars(ReapRemove(c, TRUE))
                     /\ SF_vars(ReapUpdate(c, TRUE))

FairSpec == Spec /\ Fairness

------------------------------------------------------------------------------
(* Properties *)

TypeOK ==
  /\ row \in [Sandbox -> [state : Live \cup {"None", "Removed"}, named : BOOLEAN]]
  /\ container \in [Sandbox -> {"none", "created", "running", "stopped", "gone"}]
  /\ create \in [Sandbox -> [pc : {"none", "container", "start", "running", "faulted", "done"},
                             named : BOOLEAN]]
  /\ aborted \in [Sandbox -> BOOLEAN]
  /\ delete \in [Sandbox -> [pc : {"none", "remove", "update"}, named : BOOLEAN]]
  /\ rpc \in {"tick", "stop", "remove", "update"}
  /\ batch \subseteq Copy /\ current \subseteq batch /\ unsaved \subseteq Copy
  /\ expired \in [Sandbox -> BOOLEAN]
  /\ interrupted \in [Sandbox -> BOOLEAN]

(* A record that carries its container's identity and says Removed tells    *)
(* the truth: the container is gone, whoever wrote the row and however      *)
(* stale its copy was (DeleteAsync and ReapOnceAsync remove, then save).    *)
RemovedIsGone == \A s \in Sandbox : row[s].state = "Removed" /\ row[s].named => ~Exists(s)

(* Whose row or call still knows how to address the container. *)
Addressable(s) ==
  \/ row[s].named
  \/ create[s].pc \in {"start", "running"} \/ (create[s].pc = "faulted" /\ create[s].named)
  \/ delete[s].pc = "remove" /\ delete[s].named
  \/ [id |-> s, named |-> TRUE] \in batch

(* The complete list of ways to lose track of a container: its creation was *)
(* aborted by the client, cut off by a crash, overtaken by a DELETE or by   *)
(* its own TTL, the daemon's answer was lost, or its clean-up or both its   *)
(* saves failed.  No single database error, no failed start, stop or        *)
(* removal, and no race between DELETE and the reaper once the creation is  *)
(* over, does (CreateSandboxAsync).                                         *)
OrphanHasCause == \A s \in Sandbox : Exists(s) /\ ~Addressable(s) => interrupted[s]

(* Every record leaves the live states for good, stranded ones included.    *)
RowsRetire == \A s \in Sandbox : <>[](row[s].state \in {"None", "Removed"})

(* Every container whose creation was not cut off is removed for good, by   *)
(* DELETE or, after the TTL, by the reaper.                                 *)
ContainersReclaimed == \A s \in Sandbox : <>[](~Exists(s) \/ interrupted[s])

==============================================================================
