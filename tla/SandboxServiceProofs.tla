------------------------- MODULE SandboxServiceProofs -------------------------
(***************************************************************************)
(* What is proved of SandboxService for any number of records and whatever *)
(* faults occur: its type invariant, that a record that is Removed and     *)
(* knows its container tells the truth, and that a container nobody can    *)
(* address any more was interrupted while it was made.                     *)
(***************************************************************************)
EXTENDS SandboxService, TLAPS

(* The reaper handles one copy at a time: needed for the type of "current". *)
Steady ==
  /\ current # {} => rpc \in {"remove", "update"}
  /\ \A c, d \in current : c = d

Typed == TypeOK /\ Steady

(* What the building blocks of the actions do. *)
LEMMA GoToIs ==
  ASSUME TypeOK, NEW s \in Sandbox, NEW pc, GoTo(s, pc)
  PROVE  /\ create'[s].pc = pc /\ create'[s].named = create[s].named
         /\ \A t \in Sandbox : t # s => create'[t] = create[t]
BY DEF GoTo, TypeOK

LEMMA GoToType ==
  ASSUME TypeOK, NEW s \in Sandbox,
         NEW pc \in {"none", "container", "start", "running", "faulted", "done"}, GoTo(s, pc)
  PROVE  create' \in [Sandbox -> [pc : {"none", "container", "start", "running", "faulted", "done"},
                                  named : BOOLEAN]]
BY DEF GoTo, TypeOK

LEMMA SaveIs ==
  ASSUME TypeOK, NEW s \in Sandbox, NEW state \in Live \cup {"None", "Removed"}, NEW named \in BOOLEAN,
         Save(s, state, named)
  PROVE  /\ row' \in [Sandbox -> [state : Live \cup {"None", "Removed"}, named : BOOLEAN]]
         /\ row'[s].state = state /\ row'[s].named = named
         /\ \A t \in Sandbox : t # s => row'[t] = row[t]
BY DEF Save, TypeOK

LEMMA RemoveIs ==
  ASSUME TypeOK, NEW s \in Sandbox, NEW named \in BOOLEAN, RemoveContainer(s, named)
  PROVE  /\ container' \in [Sandbox -> {"none", "created", "running", "stopped", "gone"}]
         /\ named => ~Exists(s)'
         /\ \A t \in Sandbox : Exists(t)' => Exists(t)
         /\ \A t \in Sandbox : t # s => container'[t] = container[t]
BY DEF RemoveContainer, TypeOK, Exists

LEMMA OutcomeType ==
  ASSUME NEW kind
  PROVE  Outcome(kind) \subseteq BOOLEAN
BY DEF Outcome

LEMMA InitType == Init => Typed
BY DEF Init, Typed, TypeOK, Steady, NoCall, Live, Copy

(* Every step of a POST keeps the types. *)
LEMMA CreateType ==
  ASSUME TypeOK, NEW s \in Sandbox, Add(s) \/ CreateStep(s) \/ Abort(s)
  PROVE  TypeOK'
<1>1. CASE Add(s)
  <2>1. Save(s, "Creating", FALSE) /\ GoTo(s, "container")
    BY <1>1 DEF Add
  <2>2. row' \in [Sandbox -> [state : Live \cup {"None", "Removed"}, named : BOOLEAN]]
    BY <2>1, SaveIs DEF Live
  <2>3. create' \in [Sandbox -> [pc : {"none", "container", "start", "running", "faulted", "done"},
                                 named : BOOLEAN]]
    BY <2>1, GoToType
  <2> QED BY <1>1, <2>2, <2>3 DEF Add, TypeOK, reaperVars
<1>2. CASE CreateContainer(s)
  <2>1. create' \in [Sandbox -> [pc : {"none", "container", "start", "running", "faulted", "done"},
                                 named : BOOLEAN]]
    BY <1>2, GoToType DEF CreateContainer
  <2>2. container' \in [Sandbox -> {"none", "created", "running", "stopped", "gone"}]
    BY <1>2 DEF CreateContainer, TypeOK
  <2>3. interrupted' \in [Sandbox -> BOOLEAN]
    BY <1>2 DEF CreateContainer, TypeOK
  <2> QED BY <1>2, <2>1, <2>2, <2>3 DEF CreateContainer, TypeOK, reaperVars
<1>3. CASE Start(s)
  BY <1>3 DEF Start, TypeOK, reaperVars
<1>4. CASE StartFails(s)
  <2>1. create' \in [Sandbox -> [pc : {"none", "container", "start", "running", "faulted", "done"},
                                 named : BOOLEAN]]
    BY <1>4, GoToType DEF StartFails
  <2>2. container' \in [Sandbox -> {"none", "created", "running", "stopped", "gone"}]
    <3>1. RemoveContainer(s, TRUE) \/ UNCHANGED container
      BY <1>4 DEF StartFails, CleanUp
    <3> QED BY <3>1, RemoveIs DEF TypeOK
  <2>3. interrupted' \in [Sandbox -> BOOLEAN]
    BY <1>4, OutcomeType DEF StartFails, TypeOK
  <2> QED BY <1>4, <2>1, <2>2, <2>3 DEF StartFails, TypeOK, reaperVars
<1>5. CASE UpdateRunning(s)
  <2>1. create' \in [Sandbox -> [pc : {"none", "container", "start", "running", "faulted", "done"},
                                 named : BOOLEAN]]
    <3>1. GoTo(s, "done") \/ GoTo(s, "faulted")
      BY <1>5 DEF UpdateRunning, CutOff
    <3> QED BY <3>1, GoToType
  <2>2. row' \in [Sandbox -> [state : Live \cup {"None", "Removed"}, named : BOOLEAN]]
    <3>1. Save(s, "Running", TRUE) \/ UNCHANGED row
      BY <1>5 DEF UpdateRunning
    <3>2. "Running" \in Live \cup {"None", "Removed"}
      BY DEF Live
    <3> QED BY <3>1, <3>2, SaveIs DEF TypeOK
  <2>3. interrupted' \in [Sandbox -> BOOLEAN]
    BY <1>5 DEF UpdateRunning, CutOff, TypeOK
  <2> QED BY <1>5, <2>1, <2>2, <2>3 DEF UpdateRunning, TypeOK, reaperVars
<1>6. CASE UpdateFaulted(s)
  <2>1. create' \in [Sandbox -> [pc : {"none", "container", "start", "running", "faulted", "done"},
                                 named : BOOLEAN]]
    <3>1. GoTo(s, "done")
      BY <1>6 DEF UpdateFaulted, CutOff
    <3> QED BY <3>1, GoToType
  <2>2. row' \in [Sandbox -> [state : Live \cup {"None", "Removed"}, named : BOOLEAN]]
    <3>1. Save(s, "Faulted", create[s].named) \/ UNCHANGED row
      BY <1>6 DEF UpdateFaulted, SaveFaulted
    <3>2. "Faulted" \in Live \cup {"None", "Removed"} /\ create[s].named \in BOOLEAN
      BY DEF Live, TypeOK
    <3> QED BY <3>1, <3>2, SaveIs DEF TypeOK
  <2>3. interrupted' \in [Sandbox -> BOOLEAN]
    BY <1>6 DEF UpdateFaulted, CutOff, TypeOK
  <2> QED BY <1>6, <2>1, <2>2, <2>3 DEF UpdateFaulted, TypeOK, reaperVars
<1>7. CASE Abort(s)
  BY <1>7 DEF Abort, TypeOK, reaperVars
<1> QED BY <1>1, <1>2, <1>3, <1>4, <1>5, <1>6, <1>7 DEF CreateStep

(* ... and every step of a DELETE. *)
LEMMA DeleteType ==
  ASSUME TypeOK, NEW s \in Sandbox, DeleteFind(s) \/ DeleteStep(s) \/ DeleteAbort(s)
  PROVE  TypeOK'
<1>1. CASE DeleteFind(s)
  <2>1. interrupted' \in [Sandbox -> BOOLEAN]
    <3>1. (interrupted[s] \/ InFlight(s)) \in BOOLEAN
      BY DEF TypeOK, InFlight
    <3> QED BY <1>1, <3>1 DEF DeleteFind, TypeOK
  <2>2. delete' \in [Sandbox -> [pc : {"none", "remove", "update"}, named : BOOLEAN]]
    BY <1>1 DEF DeleteFind, TypeOK
  <2> QED BY <1>1, <2>1, <2>2 DEF DeleteFind, TypeOK, reaperVars
<1>2. CASE DeleteRemove(s)
  <2>1. container' \in [Sandbox -> {"none", "created", "running", "stopped", "gone"}]
    <3>1. RemoveContainer(s, delete[s].named) \/ UNCHANGED container
      BY <1>2 DEF DeleteRemove
    <3>2. delete[s].named \in BOOLEAN
      BY DEF TypeOK
    <3> QED BY <3>1, <3>2, RemoveIs DEF TypeOK
  <2>2. delete' \in [Sandbox -> [pc : {"none", "remove", "update"}, named : BOOLEAN]]
    <3>1. \/ delete' = [delete EXCEPT ![s].pc = "update"]
          \/ delete' = [delete EXCEPT ![s] = NoCall]
      BY <1>2 DEF DeleteRemove
    <3>2. delete \in [Sandbox -> [pc : {"none", "remove", "update"}, named : BOOLEAN]]
      BY DEF TypeOK
    <3>3. CASE delete' = [delete EXCEPT ![s].pc = "update"]
      BY <3>2, <3>3
    <3>4. CASE delete' = [delete EXCEPT ![s] = NoCall]
      BY <3>2, <3>4 DEF NoCall
    <3> QED BY <3>1, <3>3, <3>4
  <2> QED BY <1>2, <2>1, <2>2 DEF DeleteRemove, TypeOK, reaperVars
<1>3. CASE DeleteUpdate(s)
  <2>1. row' \in [Sandbox -> [state : Live \cup {"None", "Removed"}, named : BOOLEAN]]
    <3>1. Save(s, "Removed", delete[s].named) \/ UNCHANGED row
      BY <1>3 DEF DeleteUpdate
    <3>2. delete[s].named \in BOOLEAN /\ "Removed" \in Live \cup {"None", "Removed"}
      BY DEF TypeOK
    <3>3. CASE Save(s, "Removed", delete[s].named)
      BY <3>2, <3>3, SaveIs
    <3>4. CASE UNCHANGED row
      BY <3>4 DEF TypeOK
    <3> QED BY <3>1, <3>3, <3>4
  <2>2. delete' \in [Sandbox -> [pc : {"none", "remove", "update"}, named : BOOLEAN]]
    BY <1>3 DEF DeleteUpdate, TypeOK, NoCall
  <2> QED BY <1>3, <2>1, <2>2 DEF DeleteUpdate, TypeOK, reaperVars
<1>4. CASE DeleteAbort(s)
  BY <1>4 DEF DeleteAbort, TypeOK, NoCall, reaperVars
<1> QED BY <1>1, <1>2, <1>3, <1>4 DEF DeleteStep

(* The steps of the reaper, each with what it does. *)
LEMMA ReapType ==
  ASSUME Typed, ReapQuery \/ ReapEnd
                \/ \E copy \in batch, ok \in BOOLEAN :
                     ReapStop(copy, ok) \/ ReapRemove(copy, ok) \/ ReapUpdate(copy, ok)
  PROVE  Typed'
<1>0. TypeOK /\ Steady
  BY DEF Typed
<1>1. CASE ReapQuery
  <2>1. current = {}
    BY <1>0, <1>1 DEF ReapQuery, Steady
  <2>2. batch' \subseteq Copy
    BY <1>0, <1>1 DEF ReapQuery, TypeOK, Copy
  <2> QED BY <1>0, <1>1, <2>1, <2>2 DEF ReapQuery, Typed, TypeOK, Steady
<1>2. CASE ReapEnd
  BY <1>0, <1>2 DEF ReapEnd, Typed, TypeOK, Steady
<1>3. ASSUME NEW copy \in batch, NEW ok \in BOOLEAN, ReapStop(copy, ok) PROVE Typed'
  <2>1. copy.id \in Sandbox
    BY <1>0 DEF TypeOK, Copy
  <2>2. container' \in [Sandbox -> {"none", "created", "running", "stopped", "gone"}]
    BY <1>0, <1>3, <2>1 DEF ReapStop, TypeOK
  <2>3. current = {}
    BY <1>0, <1>3 DEF ReapStop, Steady
  <2>4. CASE ok
    BY <1>0, <1>3, <2>2, <2>3, <2>4 DEF ReapStop, Typed, TypeOK, Steady
  <2>5. CASE ~ok
    BY <1>0, <1>3, <2>2, <2>3, <2>5 DEF ReapStop, Skip, Typed, TypeOK, Steady
  <2> QED BY <2>4, <2>5
<1>4. ASSUME NEW copy \in batch, NEW ok \in BOOLEAN, ReapRemove(copy, ok) PROVE Typed'
  <2>1. copy.id \in Sandbox /\ copy.named \in BOOLEAN
    BY <1>0 DEF TypeOK, Copy
  <2>2. container' \in [Sandbox -> {"none", "created", "running", "stopped", "gone"}]
    <3>1. RemoveContainer(copy.id, copy.named) \/ UNCHANGED container
      BY <1>4 DEF ReapRemove, AfterRemove
    <3> QED BY <1>0, <2>1, <3>1, RemoveIs DEF TypeOK
  <2>3. CASE ok
    BY <1>0, <1>4, <2>2, <2>3 DEF ReapRemove, AfterRemove, Typed, TypeOK, Steady
  <2>4. CASE ~ok
    BY <1>0, <1>4, <2>2, <2>4 DEF ReapRemove, AfterRemove, Skip, Typed, TypeOK, Steady
  <2> QED BY <2>3, <2>4
<1>5. ASSUME NEW copy \in batch, NEW ok \in BOOLEAN, ReapUpdate(copy, ok) PROVE Typed'
  <2>1. row' \in [Sandbox -> [state : Live \cup {"None", "Removed"}, named : BOOLEAN]]
    <3> DEFINE written(s) == [state |-> "Removed",
                              named |-> \E c \in unsaved \cup {copy} : c.id = s /\ c.named]
    <3>1. \A s \in Sandbox : written(s) \in [state : Live \cup {"None", "Removed"}, named : BOOLEAN]
      OBVIOUS
    <3>2. \/ row' = [s \in Sandbox |-> IF \E c \in unsaved \cup {copy} : c.id = s THEN written(s) ELSE row[s]]
          \/ row' = row
      BY <1>5 DEF ReapUpdate
    <3> HIDE DEF written
    <3>3. \A s \in Sandbox : row[s] \in [state : Live \cup {"None", "Removed"}, named : BOOLEAN]
      BY <1>0 DEF TypeOK
    <3>4. row \in [Sandbox -> [state : Live \cup {"None", "Removed"}, named : BOOLEAN]]
      BY <1>0 DEF TypeOK
    <3> QED BY <3>1, <3>2, <3>3, <3>4
  <2>2. unsaved' \subseteq Copy
    BY <1>0, <1>5 DEF ReapUpdate, TypeOK
  <2> QED BY <1>0, <1>5, <2>1, <2>2 DEF ReapUpdate, Skip, Typed, TypeOK, Steady
<1> QED BY <1>1, <1>2, <1>3, <1>4, <1>5

(* ... and a crash. *)
LEMMA CrashType ==
  ASSUME TypeOK, Crash
  PROVE  Typed'
<1>1. create' \in [Sandbox -> [pc : {"none", "container", "start", "running", "faulted", "done"},
                               named : BOOLEAN]]
  BY DEF Crash, TypeOK, NoCall
<1>2. interrupted' \in [Sandbox -> BOOLEAN]
  <2>1. \A s \in Sandbox : (interrupted[s] \/ InFlight(s)) \in BOOLEAN
    BY DEF TypeOK, InFlight
  <2> QED BY <2>1 DEF Crash
<1>3. delete' \in [Sandbox -> [pc : {"none", "remove", "update"}, named : BOOLEAN]]
  BY DEF Crash, NoCall
<1> QED BY <1>1, <1>2, <1>3 DEF Crash, Typed, TypeOK, Steady

(* The disjuncts of the next-state relation, named once for all proofs. *)
LEMMA Steps ==
  ASSUME [Next]_vars
  PROVE  \/ \E s \in Sandbox : Add(s) \/ CreateStep(s) \/ Abort(s)
         \/ \E s \in Sandbox : DeleteFind(s) \/ DeleteStep(s) \/ DeleteAbort(s)
         \/ \E s \in Sandbox : Expire(s)
         \/ \/ ReapQuery \/ ReapEnd
            \/ \E copy \in batch, ok \in BOOLEAN :
                 ReapStop(copy, ok) \/ ReapRemove(copy, ok) \/ ReapUpdate(copy, ok)
         \/ Crash
         \/ UNCHANGED vars
BY DEF Next, ReapStep, FailedReapStep

LEMMA NextType == Typed /\ [Next]_vars => Typed'
<1> SUFFICES ASSUME Typed, [Next]_vars PROVE Typed'
  OBVIOUS
<1>0. TypeOK /\ Steady
  BY DEF Typed
<1>1. ASSUME NEW s \in Sandbox, Add(s) \/ CreateStep(s) \/ Abort(s) PROVE Typed'
  <2>1. UNCHANGED reaperVars
    BY <1>1 DEF Add, CreateStep, CreateContainer, Start, StartFails, UpdateRunning, UpdateFaulted, Abort
  <2> QED BY <1>0, <1>1, <2>1, CreateType DEF Typed, Steady, reaperVars
<1>2. ASSUME NEW s \in Sandbox, DeleteFind(s) \/ DeleteStep(s) \/ DeleteAbort(s) PROVE Typed'
  <2>1. UNCHANGED reaperVars
    BY <1>2 DEF DeleteFind, DeleteStep, DeleteRemove, DeleteUpdate, DeleteAbort
  <2> QED BY <1>0, <1>2, <2>1, DeleteType DEF Typed, Steady, reaperVars
<1>3. ASSUME NEW s \in Sandbox, Expire(s) PROVE Typed'
  <2>1. interrupted' \in [Sandbox -> BOOLEAN]
    <3>1. (interrupted[s] \/ InFlight(s)) \in BOOLEAN
      BY <1>0 DEF TypeOK, InFlight
    <3> QED BY <1>0, <1>3, <3>1 DEF Expire, TypeOK
  <2> QED BY <1>0, <1>3, <2>1 DEF Expire, Typed, TypeOK, Steady, reaperVars
<1>4. CASE UNCHANGED vars
  BY <1>0, <1>4 DEF Typed, TypeOK, Steady, vars, reaperVars
<1> QED BY <1>0, <1>1, <1>2, <1>3, <1>4, Steps, ReapType, CrashType

LEMMA AlwaysTyped == Spec => []Typed
<1>1. Typed /\ [Next]_vars => Typed'
  BY NextType
<1> QED BY InitType, <1>1, PTL DEF Spec

(* Type correctness of the service. *)
THEOREM ServiceTypeCorrect == Spec => []TypeOK
<1>1. Typed => TypeOK
  BY DEF Typed
<1> QED BY <1>1, AlwaysTyped, PTL

------------------------------------------------------------------------------
(* Removed rows and lost containers *)

(* The creation was cut off, or there is no container to lose. *)
Lost(s) == interrupted[s] \/ ~Exists(s)

(* ... or whoever looked for one looked too early or will never find one:   *)
(* the creation was overtaken, or it is over and left nothing.              *)
Settled(s) == interrupted[s] \/ (create[s].pc = "done" /\ ~Exists(s))

(* Where a record is in its life: only a POST that is over leaves a row     *)
(* with an identity, one that expires before counts as overtaken, and only  *)
(* a row in the table can be deleted.                                       *)
Placed(s) ==
  /\ row[s].state = "None" <=> create[s].pc = "none"
  /\ delete[s].pc # "none" => create[s].pc # "none"
  /\ row[s].named \/ delete[s].named => create[s].pc = "done"
  /\ expired[s] => create[s].pc = "done" \/ interrupted[s]
  /\ create[s].pc = "running" => create[s].named

(* Whoever has no identity for the container has nothing left to address.   *)
Tracked(s) ==
  /\ create[s].pc \in {"none", "container"} => ~Exists(s)
  /\ create[s].pc = "faulted" /\ ~create[s].named => Lost(s)
  /\ create[s].pc = "done" /\ ~row[s].named => Lost(s)
  /\ delete[s].pc # "none" /\ ~delete[s].named => Settled(s)

(* Whoever writes, or wrote, Removed under an identity removed it first. *)
Cleared(s) ==
  /\ row[s].state = "Removed" /\ row[s].named => ~Exists(s)
  /\ delete[s].pc = "update" /\ delete[s].named => ~Exists(s)

(* The reaper's copies may be older than the rows, but not so old that they *)
(* miss an identity the row could still get, unless the POST that would     *)
(* write it was overtaken.                                                  *)
CopyTracked(c) ==
  /\ create[c.id].pc # "none"
  /\ c.named => create[c.id].pc = "done"
  /\ ~c.named => Settled(c.id)

CopyCleared(c) == c.named => ~Exists(c.id)

RowsSound == \A s \in Sandbox : Placed(s) /\ Tracked(s) /\ Cleared(s)

CopiesSound ==
  /\ \A c \in batch \cup unsaved : CopyTracked(c)
  /\ \A c \in unsaved : CopyCleared(c)
  /\ rpc = "update" => \A c \in current : CopyCleared(c)

Sound == Typed /\ RowsSound /\ CopiesSound

(* A record a step does not touch, and a container it can only remove. *)
Same(s) ==
  /\ row'[s] = row[s] /\ container'[s] = container[s] /\ create'[s] = create[s]
  /\ delete'[s] = delete[s] /\ expired'[s] = expired[s] /\ interrupted'[s] = interrupted[s]

Fades(s) ==
  /\ create'[s] = create[s]
  /\ interrupted[s] => interrupted'[s]
  /\ Exists(s)' => Exists(s)

(* What a copy's record may go through: its POST goes on but does not begin *)
(* again, and once it is over the container can only be removed.            *)
Aged(s) ==
  /\ create[s].pc # "none" => create'[s].pc # "none"
  /\ interrupted[s] => interrupted'[s]
  /\ create[s].pc = "done" => create'[s].pc = "done" /\ (Exists(s)' => Exists(s))

LEMMA SameKeeps ==
  ASSUME NEW s, Placed(s), Tracked(s), Cleared(s), Same(s)
  PROVE  Placed(s)' /\ Tracked(s)' /\ Cleared(s)'
BY DEF Placed, Tracked, Settled, Cleared, Lost, Exists, Same

(* A row and a DELETE that stay as they are survive whatever only removes   *)
(* containers.                                                              *)
LEMMA FadesKeeps ==
  ASSUME NEW s, Placed(s), Tracked(s), Cleared(s), Fades(s),
         row'[s] = row[s], delete'[s] = delete[s], expired'[s] = expired[s]
  PROVE  Placed(s)' /\ Tracked(s)' /\ Cleared(s)'
<1>1. Placed(s)'
  BY DEF Placed, Fades
<1>2. Lost(s) => Lost(s)'
  BY DEF Lost, Fades
<1>3. Tracked(s)'
  BY <1>2 DEF Tracked, Settled, Fades
<1>4. Cleared(s)'
  BY DEF Cleared, Fades
<1> QED BY <1>1, <1>3, <1>4

LEMMA FadesAges ==
  ASSUME NEW s, Fades(s)
  PROVE  Aged(s)
BY DEF Fades, Aged

(* So do the reaper's copies, even those of a POST that goes on. *)
LEMMA CopiesKept ==
  ASSUME CopiesSound, UNCHANGED reaperVars, Typed,
         \A c \in batch \cup unsaved : Aged(c.id)
  PROVE  CopiesSound'
<1>0. current \subseteq batch
  BY DEF Typed, TypeOK
<1>1. ASSUME NEW c \in batch \cup unsaved PROVE CopyTracked(c)'
  BY <1>1 DEF CopiesSound, CopyTracked, Settled, Aged
<1>2. ASSUME NEW c \in batch \cup unsaved, CopyCleared(c) PROVE CopyCleared(c)'
  BY <1>2 DEF CopiesSound, CopyTracked, CopyCleared, Aged
<1> QED BY <1>0, <1>1, <1>2 DEF CopiesSound, reaperVars

LEMMA InitSound == Init => Sound
<1> SUFFICES ASSUME Init PROVE Sound
  OBVIOUS
<1>1. \A s \in Sandbox : Placed(s) /\ Tracked(s) /\ Cleared(s)
  BY DEF Init, Placed, Tracked, Settled, Cleared, Lost, Exists, NoCall
<1>2. CopiesSound
  BY DEF Init, CopiesSound
<1> QED BY <1>1, <1>2, InitType DEF Sound, RowsSound

(* A step of a POST touches its own record only. *)
LEMMA PostApart ==
  ASSUME TypeOK, NEW s \in Sandbox, Add(s) \/ CreateStep(s) \/ Abort(s),
         NEW t \in Sandbox, t # s
  PROVE  Same(t)
<1>1. CASE Add(s)
  <2>1. Save(s, "Creating", FALSE) /\ GoTo(s, "container")
    BY <1>1 DEF Add
  <2> QED BY <1>1, <2>1 DEF Add, Same, Save, GoTo, TypeOK
<1>2. CASE CreateContainer(s)
  BY <1>2 DEF CreateContainer, GoTo, Same, TypeOK
<1>3. CASE Start(s)
  BY <1>3 DEF Start, Same, TypeOK
<1>4. CASE StartFails(s)
  <2>1. create'[t] = create[t]
    BY <1>4 DEF StartFails, GoTo, TypeOK
  <2>2. container'[t] = container[t]
    BY <1>4 DEF StartFails, CleanUp, RemoveContainer, TypeOK
  <2>3. interrupted'[t] = interrupted[t]
    BY <1>4 DEF StartFails, TypeOK
  <2> QED BY <1>4, <2>1, <2>2, <2>3 DEF StartFails, Same
<1>5. CASE UpdateRunning(s)
  BY <1>5 DEF UpdateRunning, CutOff, GoTo, Save, Same, TypeOK
<1>6. CASE UpdateFaulted(s)
  BY <1>6 DEF UpdateFaulted, SaveFaulted, CutOff, GoTo, Save, Same, TypeOK
<1>7. CASE Abort(s)
  BY <1>7 DEF Abort, Same
<1> QED BY <1>1, <1>2, <1>3, <1>4, <1>5, <1>6, <1>7 DEF CreateStep

(* ... and leaves that one in order. *)
LEMMA PostSound ==
  ASSUME TypeOK, NEW s \in Sandbox, Add(s) \/ CreateStep(s) \/ Abort(s),
         Placed(s), Tracked(s), Cleared(s)
  PROVE  Placed(s)' /\ Tracked(s)' /\ Cleared(s)'
<1>1. CASE Add(s)
  <2>1. row'[s] = [state |-> "Creating", named |-> FALSE]
    BY <1>1 DEF Add, Save, TypeOK
  <2>2. create'[s].pc = "container" /\ create'[s].named = create[s].named
    BY <1>1, GoToIs DEF Add
  <2>3. create[s].pc = "none"
    BY <1>1 DEF Add, Placed
  <2> QED BY <1>1, <2>1, <2>2, <2>3 DEF Add, Placed, Tracked, Settled, Cleared, Lost, Exists
<1>2. CASE CreateContainer(s)
  <2>1. create[s].pc = "container" /\ row' = row /\ delete' = delete /\ expired' = expired
    BY <1>2 DEF CreateContainer
  <2>2. create'[s].named = create[s].named /\ create'[s].pc \in {"start", "faulted", "done"}
    BY <1>2, GoToIs DEF CreateContainer
  <2>3. create'[s].pc = "start" \/ Lost(s)'
    BY <1>2, <2>1, GoToIs DEF CreateContainer, Tracked, Settled, Lost, Exists, TypeOK
  <2>4. interrupted[s] => interrupted'[s]
    BY <1>2 DEF CreateContainer, TypeOK
  <2> QED BY <2>1, <2>2, <2>3, <2>4 DEF Placed, Tracked, Settled, Cleared, Lost
<1>3. CASE Start(s)
  <2>1. create'[s] = [pc |-> "running", named |-> TRUE]
    BY <1>3 DEF Start, TypeOK
  <2> QED BY <1>3, <2>1 DEF Start, Placed, Tracked, Settled, Cleared, Lost
<1>4. CASE StartFails(s)
  <2>1. create[s].pc = "start" /\ row' = row /\ delete' = delete /\ expired' = expired
    BY <1>4 DEF StartFails
  <2>2. create'[s].named = create[s].named /\ create'[s].pc \in {"faulted", "done"}
    BY <1>4, GoToIs DEF StartFails
  <2>3. Lost(s)'
    <3>1. PICK ok \in Outcome("docker") : /\ CleanUp(s, ok)
                                          /\ interrupted' = [interrupted EXCEPT ![s] = @ \/ ~ok]
      BY <1>4 DEF StartFails
    <3>2. CASE ok
      BY <3>1, <3>2, RemoveIs DEF CleanUp, Lost
    <3>3. CASE ~ok
      BY <3>1, <3>3 DEF Lost, TypeOK
    <3> QED BY <3>2, <3>3
  <2>4. interrupted[s] => interrupted'[s]
    BY <1>4 DEF StartFails, TypeOK
  <2> QED BY <2>1, <2>2, <2>3, <2>4 DEF Placed, Tracked, Settled, Cleared, Lost
<1>5. CASE UpdateRunning(s)
  <2>1. create[s].pc = "running" /\ container' = container /\ delete' = delete /\ expired' = expired
    BY <1>5 DEF UpdateRunning
  <2>2. create'[s].named = create[s].named /\ create[s].named
    BY <1>5, <2>1, GoToIs DEF UpdateRunning, CutOff, Placed
  <2>3. \/ row'[s] = [state |-> "Running", named |-> TRUE] /\ create'[s].pc = "done"
           /\ interrupted' = interrupted
        \/ row' = row /\ create'[s].pc = "faulted" /\ interrupted' = interrupted
        \/ row' = row /\ create'[s].pc = "done" /\ interrupted'[s]
    BY <1>5, GoToIs DEF UpdateRunning, CutOff, Save, TypeOK
  <2> QED BY <2>1, <2>2, <2>3 DEF Placed, Tracked, Settled, Cleared, Lost, Exists
<1>6. CASE UpdateFaulted(s)
  <2>1. create[s].pc = "faulted" /\ container' = container /\ delete' = delete /\ expired' = expired
    BY <1>6 DEF UpdateFaulted
  <2>2. create'[s].pc = "done"
    BY <1>6, GoToIs DEF UpdateFaulted, CutOff
  <2>3. \/ row'[s] = [state |-> "Faulted", named |-> create[s].named] /\ interrupted' = interrupted
        \/ row' = row /\ interrupted'[s]
    BY <1>6 DEF UpdateFaulted, SaveFaulted, CutOff, Save, TypeOK
  <2> QED BY <2>1, <2>2, <2>3 DEF Placed, Tracked, Settled, Cleared, Lost, Exists
<1>7. CASE Abort(s)
  BY <1>7, SameKeeps DEF Abort, Same
<1> QED BY <1>1, <1>2, <1>3, <1>4, <1>5, <1>6, <1>7 DEF CreateStep

(* It does not begin twice, and what overtook it stays on record. *)
LEMMA PostGoesOn ==
  ASSUME TypeOK, NEW s \in Sandbox, Add(s) \/ CreateStep(s) \/ Abort(s)
  PROVE  /\ create[s].pc # "none" => create'[s].pc # "none"
         /\ interrupted[s] => interrupted'[s]
<1>1. CASE Add(s)
  BY <1>1, GoToIs DEF Add
<1>2. CASE CreateContainer(s)
  BY <1>2, GoToIs DEF CreateContainer, TypeOK
<1>3. CASE Start(s)
  BY <1>3 DEF Start, TypeOK
<1>4. CASE StartFails(s)
  BY <1>4, GoToIs DEF StartFails, TypeOK
<1>5. CASE UpdateRunning(s)
  <2>1. GoTo(s, "done") \/ GoTo(s, "faulted")
    BY <1>5 DEF UpdateRunning, CutOff
  <2>2. interrupted' = interrupted \/ interrupted' = [interrupted EXCEPT ![s] = TRUE]
    BY <1>5 DEF UpdateRunning, CutOff
  <2>3. create'[s].pc # "none"
    BY <2>1, GoToIs
  <2> QED BY <2>2, <2>3 DEF TypeOK
<1>6. CASE UpdateFaulted(s)
  <2>1. GoTo(s, "done")
    BY <1>6 DEF UpdateFaulted, CutOff
  <2>2. interrupted' = interrupted \/ interrupted' = [interrupted EXCEPT ![s] = TRUE]
    BY <1>6 DEF UpdateFaulted, CutOff
  <2>3. create'[s].pc # "none"
    BY <2>1, GoToIs
  <2> QED BY <2>2, <2>3 DEF TypeOK
<1>7. CASE Abort(s)
  BY <1>7 DEF Abort
<1> QED BY <1>1, <1>2, <1>3, <1>4, <1>5, <1>6, <1>7 DEF CreateStep

LEMMA PostStep ==
  ASSUME Sound, NEW s \in Sandbox, Add(s) \/ CreateStep(s) \/ Abort(s)
  PROVE  RowsSound' /\ CopiesSound'
<1>0. TypeOK
  BY DEF Sound, Typed
<1>1. ASSUME NEW t \in Sandbox PROVE Placed(t)' /\ Tracked(t)' /\ Cleared(t)'
  <2>0. Placed(t) /\ Tracked(t) /\ Cleared(t)
    BY DEF Sound, RowsSound
  <2>1. CASE t = s
    BY <1>0, <2>0, <2>1, PostSound
  <2>2. CASE t # s
    BY <1>0, <2>0, <2>2, PostApart, SameKeeps
  <2> QED BY <2>1, <2>2
<1>2. create[s].pc # "done"
  BY DEF Sound, RowsSound, Placed, Add, CreateStep, CreateContainer, Start, StartFails,
         UpdateRunning, UpdateFaulted, Abort, InFlight
<1>3. UNCHANGED reaperVars
  BY DEF Add, CreateStep, CreateContainer, Start, StartFails, UpdateRunning, UpdateFaulted, Abort
<1>4. ASSUME NEW c \in batch \cup unsaved PROVE Aged(c.id)
  <2>1. c.id \in Sandbox
    BY <1>0 DEF TypeOK, Copy
  <2>2. CASE c.id # s
    <3>1. Same(c.id)
      BY <1>0, <2>1, <2>2, PostApart
    <3> QED BY <3>1 DEF Same, Aged, Exists
  <2>3. CASE c.id = s
    BY <1>0, <1>2, <2>3, PostGoesOn DEF Aged
  <2> QED BY <2>2, <2>3
<1>5. CopiesSound'
  BY <1>3, <1>4, CopiesKept DEF Sound
<1> QED BY <1>1, <1>5 DEF RowsSound

(* A step of a DELETE works on its own copy of the row, which may be old. *)
LEMMA DeleteIs ==
  ASSUME TypeOK, NEW s \in Sandbox, DeleteFind(s) \/ DeleteStep(s) \/ DeleteAbort(s)
  PROVE  /\ \A t \in Sandbox : Fades(t) /\ expired'[t] = expired[t]
         /\ \A t \in Sandbox : t # s => row'[t] = row[t] /\ delete'[t] = delete[t]
         /\ UNCHANGED reaperVars
<1>0. create' = create /\ expired' = expired /\ UNCHANGED reaperVars
  BY DEF DeleteFind, DeleteStep, DeleteRemove, DeleteUpdate, DeleteAbort
<1>1. \A t \in Sandbox : interrupted[t] => interrupted'[t]
  BY DEF DeleteFind, DeleteStep, DeleteRemove, DeleteUpdate, DeleteAbort, TypeOK
<1>2. \A t \in Sandbox : Exists(t)' => Exists(t)
  <2>1. RemoveContainer(s, delete[s].named) \/ UNCHANGED container
    BY DEF DeleteFind, DeleteStep, DeleteRemove, DeleteUpdate, DeleteAbort
  <2>2. delete[s].named \in BOOLEAN
    BY DEF TypeOK
  <2>3. CASE RemoveContainer(s, delete[s].named)
    BY <2>2, <2>3, RemoveIs
  <2>4. CASE UNCHANGED container
    BY <2>4 DEF Exists
  <2> QED BY <2>1, <2>3, <2>4
<1>3. \A t \in Sandbox : t # s => row'[t] = row[t]
  BY DEF DeleteFind, DeleteStep, DeleteRemove, DeleteUpdate, DeleteAbort, Save, TypeOK
<1>4. \A t \in Sandbox : t # s => delete'[t] = delete[t]
  BY DEF DeleteFind, DeleteStep, DeleteRemove, DeleteUpdate, DeleteAbort, TypeOK
<1> QED BY <1>0, <1>1, <1>2, <1>3, <1>4 DEF Fades

LEMMA DeleteSound ==
  ASSUME TypeOK, NEW s \in Sandbox, DeleteFind(s) \/ DeleteStep(s) \/ DeleteAbort(s),
         Placed(s), Tracked(s), Cleared(s)
  PROVE  Placed(s)' /\ Tracked(s)' /\ Cleared(s)'
<1>0. Fades(s) /\ expired'[s] = expired[s]
  BY DeleteIs
<1>1. CASE DeleteFind(s)
  <2>1. delete'[s] = [pc |-> "remove", named |-> row[s].named]
    BY <1>1 DEF DeleteFind, TypeOK
  <2>2. InFlight(s) => interrupted'[s]
    BY <1>1 DEF DeleteFind, TypeOK
  <2>3. row' = row /\ container' = container /\ create[s].pc # "none"
    BY <1>1 DEF DeleteFind, Placed
  <2>4. Lost(s) => Lost(s)'
    BY <1>0 DEF Fades, Lost
  <2>5. InFlight(s) \/ create[s].pc = "done"
    BY <2>3 DEF InFlight, TypeOK
  <2>6. Placed(s)'
    BY <1>0, <2>1, <2>3 DEF Placed, Fades
  <2>7. Cleared(s)'
    BY <2>1, <2>3 DEF Cleared, Exists
  <2>8. ~row[s].named => interrupted'[s] \/ (create'[s].pc = "done" /\ ~Exists(s)')
    BY <1>0, <2>2, <2>4, <2>5 DEF Tracked, Settled, Lost, Fades
  <2>9. Tracked(s)'
    BY <1>0, <2>1, <2>3, <2>4, <2>8 DEF Tracked, Settled, Fades
  <2> QED BY <2>6, <2>7, <2>9
<1>2. CASE DeleteRemove(s)
  <2>1. row' = row /\ delete[s].pc = "remove"
    BY <1>2 DEF DeleteRemove
  <2>2. \/ RemoveContainer(s, delete[s].named) /\ delete' = [delete EXCEPT ![s].pc = "update"]
        \/ delete' = [delete EXCEPT ![s] = NoCall]
    BY <1>2 DEF DeleteRemove
  <2>3. \/ ~delete'[s].named /\ delete'[s].pc = "none"
        \/ delete'[s].named = delete[s].named /\ (delete[s].named => ~Exists(s)')
    <3>1. delete[s].named \in BOOLEAN
      BY DEF TypeOK
    <3>2. CASE RemoveContainer(s, delete[s].named) /\ delete' = [delete EXCEPT ![s].pc = "update"]
      <4>1. delete'[s].named = delete[s].named
        BY <3>2 DEF TypeOK
      <4> QED BY <3>1, <3>2, <4>1, RemoveIs
    <3>3. CASE delete' = [delete EXCEPT ![s] = NoCall]
      BY <3>3 DEF TypeOK, NoCall
    <3> QED BY <2>2, <3>2, <3>3
  <2>4. Lost(s) => Lost(s)'
    BY <1>0 DEF Fades, Lost
  <2>5. Placed(s)'
    BY <1>0, <2>1, <2>3 DEF Placed, Fades
  <2>6. Cleared(s)'
    BY <1>0, <2>1, <2>3 DEF Cleared, Fades
  <2>7. Tracked(s)'
    BY <1>0, <2>1, <2>3, <2>4 DEF Tracked, Settled, Fades
  <2> QED BY <2>5, <2>6, <2>7
<1>3. CASE DeleteUpdate(s)
  <2>1. \/ row'[s] = [state |-> "Removed", named |-> delete[s].named]
        \/ row' = row
    BY <1>3 DEF DeleteUpdate, Save, TypeOK
  <2>2. delete'[s] = NoCall /\ delete[s].pc = "update" /\ container' = container
    BY <1>3 DEF DeleteUpdate, TypeOK
  <2>3. Lost(s) => Lost(s)'
    BY <1>0 DEF Fades, Lost
  <2>4. Placed(s)'
    BY <1>0, <2>1, <2>2 DEF Placed, Fades, NoCall
  <2>5. Cleared(s)'
    BY <2>1, <2>2 DEF Cleared, NoCall, Exists
  <2>6. Tracked(s)'
    BY <1>0, <2>1, <2>2, <2>3 DEF Tracked, Settled, Fades, NoCall, Lost
  <2> QED BY <2>4, <2>5, <2>6
<1>4. CASE DeleteAbort(s)
  <2>1. delete'[s] = NoCall /\ row' = row
    BY <1>4 DEF DeleteAbort, TypeOK
  <2>2. Lost(s) => Lost(s)'
    BY <1>0 DEF Fades, Lost
  <2> QED BY <1>0, <2>1, <2>2 DEF Placed, Tracked, Settled, Cleared, Fades, NoCall
<1> QED BY <1>1, <1>2, <1>3, <1>4 DEF DeleteStep

LEMMA DeleteKeeps ==
  ASSUME Sound, NEW s \in Sandbox, DeleteFind(s) \/ DeleteStep(s) \/ DeleteAbort(s)
  PROVE  RowsSound' /\ CopiesSound'
<1>0. TypeOK
  BY DEF Sound, Typed
<1>1. ASSUME NEW t \in Sandbox PROVE Placed(t)' /\ Tracked(t)' /\ Cleared(t)'
  <2>0. Placed(t) /\ Tracked(t) /\ Cleared(t)
    BY DEF Sound, RowsSound
  <2>1. CASE t = s
    BY <1>0, <2>0, <2>1, DeleteSound
  <2>2. CASE t # s
    BY <1>0, <2>0, <2>2, DeleteIs, FadesKeeps
  <2> QED BY <2>1, <2>2
<1>2. \A c \in batch \cup unsaved : c.id \in Sandbox
  BY <1>0 DEF TypeOK, Copy
<1>3. CopiesSound'
  BY <1>0, <1>2, DeleteIs, FadesAges, CopiesKept DEF Sound
<1> QED BY <1>1, <1>3 DEF RowsSound

(* A step of the reaper works on copies that may be as old as its pass. *)
LEMMA ReapQueryKeeps ==
  ASSUME Sound, ReapQuery
  PROVE  RowsSound' /\ CopiesSound'
<1>0. TypeOK
  BY DEF Sound, Typed
<1>1. \A s \in Sandbox : Same(s)
  BY DEF ReapQuery, Same
<1>2. RowsSound'
  BY <1>1, SameKeeps DEF Sound, RowsSound
<1>3. ASSUME NEW c \in batch' PROVE CopyTracked(c)'
  <2>1. PICK s \in Sandbox : /\ expired[s] /\ row[s].state \in Reapable
                             /\ c = [id |-> s, named |-> row[s].named]
    BY DEF ReapQuery
  <2>2. c.id = s /\ c.named = row[s].named
    BY <2>1
  <2>3. Placed(s) /\ Tracked(s) /\ row[s].state # "None"
    BY <2>1 DEF Sound, RowsSound, Reapable
  <2>4. /\ create[s].pc # "none"
        /\ row[s].named => create[s].pc = "done"
        /\ ~row[s].named => Settled(s)
    BY <2>1, <2>3 DEF Placed, Tracked, Lost, Settled
  <2> QED BY <2>2, <2>4 DEF ReapQuery, CopyTracked, Settled, Exists
<1>4. ASSUME NEW c \in unsaved' PROVE CopyTracked(c)' /\ CopyCleared(c)'
  BY <1>4 DEF ReapQuery, Sound, CopiesSound, CopyTracked, CopyCleared, Settled, Exists
<1> QED BY <1>2, <1>3, <1>4 DEF CopiesSound, ReapQuery

LEMMA ReapContainerKeeps ==
  ASSUME Sound, NEW copy \in batch, NEW ok \in BOOLEAN, ReapStop(copy, ok) \/ ReapRemove(copy, ok)
  PROVE  RowsSound' /\ CopiesSound'
<1>0. TypeOK /\ Steady /\ copy.id \in Sandbox /\ copy.named \in BOOLEAN
  BY DEF Sound, Typed, TypeOK, Copy
<1>1. UNCHANGED <<row, create, aborted, delete, unsaved, expired, interrupted>>
  BY DEF ReapStop, ReapRemove
<1>2. \A s \in Sandbox : Exists(s)' => Exists(s)
  <2>1. CASE ReapStop(copy, ok)
    BY <1>0, <2>1 DEF ReapStop, Exists, TypeOK
  <2>2. CASE ReapRemove(copy, ok)
    <3>1. RemoveContainer(copy.id, copy.named) \/ UNCHANGED container
      BY <2>2 DEF ReapRemove, AfterRemove
    <3>2. CASE RemoveContainer(copy.id, copy.named)
      BY <1>0, <3>2, RemoveIs
    <3>3. CASE UNCHANGED container
      BY <3>3 DEF Exists
    <3> QED BY <3>1, <3>2, <3>3
  <2> QED BY <2>1, <2>2
<1>3. \A s \in Sandbox : Fades(s)
  BY <1>1, <1>2 DEF Fades
<1>4. RowsSound'
  BY <1>1, <1>3, FadesKeeps DEF Sound, RowsSound
<1>5. \A c \in batch \cup unsaved : c.id \in Sandbox
  BY <1>0 DEF TypeOK, Copy
<1>6. ASSUME NEW c \in batch \cup unsaved PROVE CopyTracked(c)'
  BY <1>3, <1>5, <1>6 DEF Sound, CopiesSound, CopyTracked, Settled, Fades
<1>7. ASSUME NEW c \in unsaved PROVE CopyCleared(c)'
  BY <1>3, <1>5, <1>7 DEF Sound, CopiesSound, CopyCleared, Fades
<1>8. batch' \subseteq batch /\ unsaved' = unsaved
  BY <1>1 DEF ReapStop, ReapRemove, AfterRemove, Skip
<1>9. ASSUME rpc' = "update", NEW c \in current' PROVE CopyCleared(c)'
  <2>1. ReapRemove(copy, ok) /\ ok
    BY <1>9 DEF ReapStop, ReapRemove, AfterRemove, Skip
  <2>2. c = copy /\ RemoveContainer(copy.id, copy.named)
    BY <1>0, <1>9, <2>1 DEF ReapRemove, AfterRemove, Steady
  <2>3. copy.named => ~Exists(copy.id)'
    BY <1>0, <2>2, RemoveIs
  <2> QED BY <2>2, <2>3 DEF CopyCleared
<1> QED BY <1>4, <1>6, <1>7, <1>8, <1>9 DEF CopiesSound

LEMMA ReapUpdateKeeps ==
  ASSUME Sound, NEW copy \in batch, NEW ok \in BOOLEAN, ReapUpdate(copy, ok)
  PROVE  RowsSound' /\ CopiesSound'
<1>0. TypeOK /\ copy \in current
  BY DEF Sound, Typed, ReapUpdate
<1> DEFINE saved == unsaved \cup {copy}
<1>1. UNCHANGED <<container, create, aborted, delete, expired, interrupted>>
  BY DEF ReapUpdate
<1>2. \A c \in saved : c.id \in Sandbox /\ CopyTracked(c) /\ CopyCleared(c)
  BY <1>0 DEF Sound, CopiesSound, ReapUpdate, TypeOK, Copy
<1>3. batch' \subseteq batch /\ unsaved' \subseteq saved /\ rpc' = "stop"
  BY DEF ReapUpdate, Skip
<1>4. \A c \in batch \cup unsaved : CopyTracked(c)'
  BY <1>1 DEF Sound, CopiesSound, CopyTracked, Settled, Exists
<1>5. \A c \in saved : CopyTracked(c)' /\ CopyCleared(c)'
  BY <1>1, <1>2 DEF CopyTracked, CopyCleared, Settled, Exists
<1>6. CopiesSound'
  BY <1>3, <1>4, <1>5 DEF CopiesSound
<1>7. ASSUME NEW s \in Sandbox PROVE Placed(s)' /\ Tracked(s)' /\ Cleared(s)'
  <2>0. Placed(s) /\ Tracked(s) /\ Cleared(s)
    BY DEF Sound, RowsSound
  <2>1. CASE row'[s] = row[s]
    BY <1>1, <2>0, <2>1, SameKeeps DEF Same
  <2>2. CASE row'[s] # row[s]
    <3>1. /\ \E c \in saved : c.id = s
          /\ row'[s] = [state |-> "Removed", named |-> \E c \in saved : c.id = s /\ c.named]
      BY <2>2 DEF ReapUpdate
    <3>2. row'[s].state = "Removed" /\ (row'[s].named <=> \E c \in saved : c.id = s /\ c.named)
      <4> DEFINE named == \E c \in saved : c.id = s /\ c.named
      <4>1. named \in BOOLEAN
        OBVIOUS
      <4>2. row'[s] = [state |-> "Removed", named |-> named]
        BY <3>1
      <4> HIDE DEF named
      <4>3. row'[s].state = "Removed" /\ row'[s].named = named
        BY <4>2
      <4> QED BY <4>1, <4>3 DEF named
    <3>3. create[s].pc # "none" /\ (row'[s].named => create[s].pc = "done")
      BY <1>2, <3>1, <3>2 DEF CopyTracked
    <3>4. row'[s].named => ~Exists(s)
      BY <1>2, <3>2 DEF CopyCleared
    <3>5. ~row'[s].named => Lost(s)
      BY <1>2, <3>1, <3>2 DEF CopyTracked, Settled, Lost
    <3> HIDE DEF saved
    <3> QED BY <1>1, <2>0, <3>2, <3>3, <3>4, <3>5 DEF Placed, Tracked, Settled, Cleared, Lost, Exists
  <2> QED BY <2>1, <2>2
<1> QED BY <1>6, <1>7 DEF RowsSound

LEMMA ReapKeeps ==
  ASSUME Sound, ReapQuery \/ ReapEnd
                \/ \E copy \in batch, ok \in BOOLEAN :
                     ReapStop(copy, ok) \/ ReapRemove(copy, ok) \/ ReapUpdate(copy, ok)
  PROVE  RowsSound' /\ CopiesSound'
<1>1. CASE ReapEnd
  <2>1. RowsSound'
    BY <1>1, SameKeeps DEF ReapEnd, Same, Sound, RowsSound
  <2>2. CopiesSound'
    BY <1>1 DEF ReapEnd, Sound, CopiesSound
  <2> QED BY <2>1, <2>2
<1> QED BY <1>1, ReapQueryKeeps, ReapContainerKeeps, ReapUpdateKeeps

(* A crash ends every call; those that were making a container count as     *)
(* interrupted from then on.                                                *)
LEMMA CrashKeeps ==
  ASSUME Sound, Crash
  PROVE  RowsSound' /\ CopiesSound'
<1>0. TypeOK
  BY DEF Sound, Typed
<1>1. ASSUME NEW s \in Sandbox PROVE Placed(s)' /\ Tracked(s)' /\ Cleared(s)'
  <2>0. Placed(s) /\ Tracked(s) /\ Cleared(s)
    BY DEF Sound, RowsSound
  <2>1. row' = row /\ container' = container /\ expired' = expired /\ delete'[s] = NoCall
    BY DEF Crash
  <2>2. CASE InFlight(s)
    <3>1. create'[s].pc = "done" /\ interrupted'[s] /\ create[s].pc \notin {"none", "done"}
      BY <2>2 DEF Crash, InFlight, NoCall
    <3> QED BY <2>0, <2>1, <3>1 DEF Placed, Tracked, Settled, Cleared, Lost, Exists, NoCall
  <2>3. CASE ~InFlight(s)
    <3>1. create'[s] = create[s] /\ (interrupted'[s] <=> interrupted[s])
      BY <2>3 DEF Crash
    <3> QED BY <2>0, <2>1, <3>1 DEF Placed, Tracked, Settled, Cleared, Lost, Exists, NoCall
  <2> QED BY <2>2, <2>3
<1>2. CopiesSound'
  BY DEF Crash, CopiesSound
<1> QED BY <1>1, <1>2 DEF RowsSound

LEMMA NextSound == Sound /\ [Next]_vars => Sound'
<1> SUFFICES ASSUME Sound, [Next]_vars PROVE Sound'
  OBVIOUS
<1>1. Typed'
  BY NextType DEF Sound
<1>2. RowsSound' /\ CopiesSound'
  <2>1. ASSUME NEW s \in Sandbox, Expire(s) PROVE RowsSound' /\ CopiesSound'
    <3>1. ASSUME NEW t \in Sandbox PROVE Placed(t)' /\ Tracked(t)' /\ Cleared(t)'
      <4>1. Placed(t) /\ Tracked(t) /\ Cleared(t) /\ create[s].pc # "none" /\ TypeOK
        BY <2>1 DEF Sound, RowsSound, Typed, Expire, Placed
      <4>2. create[s].pc = "done" \/ interrupted'[s]
        BY <2>1, <4>1 DEF Expire, InFlight, TypeOK
      <4>3. expired'[t] => expired[t] \/ t = s
        BY <2>1, <4>1 DEF Expire, TypeOK
      <4>4. interrupted[t] => interrupted'[t]
        BY <2>1, <4>1 DEF Expire, TypeOK
      <4>5. UNCHANGED <<row, container, create, delete>>
        BY <2>1 DEF Expire
      <4>6. Placed(t)'
        BY <4>1, <4>2, <4>3, <4>4, <4>5 DEF Placed
      <4>7. Lost(t) => Lost(t)'
        BY <4>4, <4>5 DEF Lost, Exists
      <4>8. Tracked(t)'
        BY <4>1, <4>4, <4>5, <4>7 DEF Tracked, Settled, Exists
      <4>9. Cleared(t)'
        BY <4>1, <4>5 DEF Cleared, Exists
      <4> QED BY <4>6, <4>8, <4>9
    <3>2. ASSUME NEW c \in batch \cup unsaved PROVE Aged(c.id)
      <4>1. interrupted[c.id] => interrupted'[c.id]
        BY <2>1 DEF Expire, Sound, Typed, TypeOK
      <4> QED BY <2>1, <4>1 DEF Expire, Aged, Exists
    <3>3. UNCHANGED reaperVars
      BY <2>1 DEF Expire
    <3> QED BY <3>1, <3>2, <3>3, CopiesKept DEF RowsSound, Sound
  <2>2. CASE UNCHANGED vars
    <3>1. \A s \in Sandbox : Same(s)
      BY <2>2 DEF vars, Same
    <3>2. \A c \in batch \cup unsaved : Aged(c.id)
      BY <2>2 DEF vars, Aged, Exists
    <3>3. UNCHANGED reaperVars
      BY <2>2 DEF vars, reaperVars
    <3> QED BY <3>1, <3>2, <3>3, SameKeeps, CopiesKept DEF RowsSound, Sound
  <2> QED BY <2>1, <2>2, Steps, PostStep, DeleteKeeps, ReapKeeps, CrashKeeps
<1> QED BY <1>1, <1>2 DEF Sound

LEMMA AlwaysSound == Spec => []Sound
<1>1. Sound /\ [Next]_vars => Sound'
  BY NextSound
<1> QED BY InitSound, <1>1, PTL DEF Spec

(* A record that is Removed and carries its container's identity tells the  *)
(* truth, whichever of the POST, the DELETE and the reaper wrote it last    *)
(* and however old the copy it wrote was.                                   *)
THEOREM RemovedTellsTruth == Spec => []RemovedIsGone
<1>1. Sound => RemovedIsGone
  BY DEF Sound, RowsSound, Cleared, RemovedIsGone
<1> QED BY <1>1, AlwaysSound, PTL

(* A container that neither a row, nor a call, nor the reaper can address   *)
(* had its creation cut off: nothing else in the service loses one.         *)
THEOREM OrphansHaveCause == Spec => []OrphanHasCause
<1>1. Sound => OrphanHasCause
  <2> SUFFICES ASSUME Sound, NEW s \in Sandbox, Exists(s), ~Addressable(s) PROVE interrupted[s]
    BY DEF OrphanHasCause
  <2>1. create[s].pc \in {"none", "container", "start", "running", "faulted", "done"}
    BY DEF Sound, Typed, TypeOK
  <2> QED BY <2>1 DEF Sound, RowsSound, Tracked, Settled, Lost, Addressable
<1> QED BY <1>1, AlwaysSound, PTL
==============================================================================
