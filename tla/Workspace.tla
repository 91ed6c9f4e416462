------------------------------ MODULE Workspace ------------------------------
(***************************************************************************)
(* How a sandbox's checkout becomes a run's workspace: the container's     *)
(* entrypoint clones the repository (entrypoint.sh, git), while the bridge *)
(* copies /workspace again and again until both markers are there          *)
(* (SandboxBridge._materialize, docker cp).  Nobody tells the bridge that  *)
(* the clone is done.  The directory on the host is new: it is named for   *)
(* the envelope, which has an id of its own.                               *)
(***************************************************************************)
EXTENDS FiniteSets

CONSTANTS Path,          \* files a repository may have, .git among them
          READY_MARKERS  \* the two paths the bridge looks for

Git == ".git"

ASSUME WorkspaceAssumption == Git \in READY_MARKERS /\ READY_MARKERS \subseteq Path

VARIABLES repo,       \* the files the branch has
          clone,      \* the entrypoint: "waiting", "cloning", "done" or "failed"
          container,  \* per file of /workspace in the container, how much is there
          host,       \* the same for the workspace on the host
          bridge,     \* the bridge: "copying", "checking", "asleep", "ready" or "failed"
          unread,     \* files the copy under way has yet to come to
          late,       \* has sandbox_ready_timeout passed?
          began       \* history: clone when the last copy began

prepareVars == <<repo, clone, container, host, bridge, unread, late, began>>

There == {"absent", "partial", "whole"}

Empty == [f \in Path |-> "absent"]

PrepareInit ==
  /\ repo \in { r \in SUBSET Path : Git \in r }
  /\ clone = "waiting" /\ container = Empty /\ host = Empty
  /\ bridge = "copying" /\ unread = Path /\ late = FALSE /\ began = "waiting"

------------------------------------------------------------------------------
(* The container *)

Clone ==
  /\ clone = "waiting"
  /\ clone' = "cloning"
  /\ container' = [container EXCEPT ![Git] = "partial"]

(* The entrypoint finds no repository to clone, or git cannot fetch it and *)
(* takes back what it wrote.                                               *)
CloneFails ==
  /\ \/ clone = "waiting"
     \/ clone = "cloning" /\ \A f \in repo \ {Git} : container[f] = "absent"
  /\ clone' = "failed"
  /\ container' = Empty

Grow(f, from, to) == container[f] = from /\ container' = [container EXCEPT ![f] = to]

(* git writes the tree, file by file, and the repository's own index when  *)
(* all are written.                                                        *)
Checkout(f) ==
  /\ clone = "cloning"
  /\ \/ Grow(f, "absent", "partial")
     \/ Grow(f, "partial", "whole") /\ \A g \in repo \ {Git, f} : f = Git => container[g] = "whole"
  /\ clone' = clone

(* A checkout that fails, of a repository that was fetched, is left as is. *)
CheckoutFails ==
  /\ clone = "cloning"
  /\ clone' = "failed"
  /\ container' = container

Cloned ==
  /\ clone = "cloning"
  /\ \A f \in repo : container[f] = "whole"
  /\ clone' = "done"
  /\ container' = container

Container ==
  /\ \/ Clone
     \/ CloneFails
     \/ \E f \in repo : Checkout(f)
     \/ CheckoutFails
     \/ Cloned
  /\ UNCHANGED <<repo, host, bridge, unread, late, began>>

------------------------------------------------------------------------------
(* The bridge *)

(* faulty: what is there already is not copied again. *)
CopiedOnce(there, f) == IF there[f] = "absent" THEN container[f] ELSE there[f]

(* docker cp lays the copy over what is there and deletes nothing. *)
Copied(there, f) == IF container[f] = "absent" THEN there[f] ELSE container[f]

Copy(f) ==
  /\ bridge = "copying" /\ f \in unread
  /\ host' = [host EXCEPT ![f] = Copied(host, f)]
  /\ unread' = unread \ {f}
  /\ bridge' = IF unread' = {} THEN "checking" ELSE "copying"
  /\ UNCHANGED <<late, began>>

(* A non-zero exit: no container, or a file that changed under docker. *)
CopyFails ==
  /\ bridge = "copying"
  /\ bridge' = "failed"
  /\ UNCHANGED <<host, unread, late, began>>

Materialized == \A m \in READY_MARKERS : host[m] # "absent"

Outcome ==
  CASE Materialized            -> "ready"
    [] ~Materialized /\ late   -> "failed"
    [] ~Materialized /\ ~late  -> "asleep"

CheckMarkers ==
  /\ bridge = "checking"
  /\ bridge' = Outcome
  /\ UNCHANGED <<host, unread, late, began>>

(* faulty: the time starts again with every copy. *)
Restarted == FALSE

Elapsed == late

CopyAgain ==
  /\ bridge = "asleep"
  /\ bridge' = "copying"
  /\ unread' = Path
  /\ began' = clone
  /\ late' = Elapsed
  /\ UNCHANGED host

Bridge ==
  /\ \/ \E f \in Path : Copy(f)
     \/ CopyFails
     \/ CheckMarkers
     \/ CopyAgain
  /\ UNCHANGED <<repo, clone, container>>

Deadline ==
  /\ ~late
  /\ late' = TRUE
  /\ UNCHANGED <<repo, clone, container, host, bridge, unread, began>>

PrepareNext == Container \/ Bridge \/ Deadline

(* Time passes, the bridge's task is run by the event loop and docker      *)
(* answers; of git nothing is assumed.                                     *)
PrepareSpec == PrepareInit /\ [][PrepareNext]_prepareVars /\ WF_prepareVars(Bridge) /\ WF_prepareVars(Deadline)

------------------------------------------------------------------------------
(* Properties *)

PrepareTypeOK ==
  /\ repo \subseteq Path
  /\ clone \in {"waiting", "cloning", "done", "failed"}
  /\ container \in [Path -> There]
  /\ host \in [Path -> There]
  /\ bridge \in {"copying", "checking", "asleep", "ready", "failed"}
  /\ unread \subseteq Path
  /\ late \in BOOLEAN
  /\ began \in {"waiting", "cloning", "done", "failed"}

(* A workspace handed out is the whole repository if its last copy began   *)
(* after the clone was done, whatever earlier copies caught half-written.  *)
(* Otherwise the markers show only that their paths exist.                 *)
WholeOrOverlapped ==
  bridge = "ready" => began # "done" \/ \A f \in repo : host[f] = "whole"

(* The deadline fails no workspace whose clone was done before the last    *)
(* copy, if the repository has the markers (the markers are looked at      *)
(* before the clock).                                                      *)
DeadlineIsFair ==
  [][bridge = "checking" /\ bridge' = "failed"
       => began # "done" \/ ~(READY_MARKERS \subseteq repo)]_prepareVars

(* prepare comes to an end, whatever the clone does. *)
PrepareEnds == <>(bridge \in {"ready", "failed"})

(* The deadline ends what would not, and nothing else.                     *)
DeadlineWorks == DeadlineIsFair /\ PrepareEnds

(* What the session finds in its workspace. *)
WorkspaceOK == PrepareTypeOK /\ WholeOrOverlapped
==============================================================================
