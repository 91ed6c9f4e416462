----------------------------- MODULE SwarmState -----------------------------
(***************************************************************************)
(* The state of a swarm run (swarm-state.ps1): every command is a process  *)
(* of its own that reads state.json, checks, changes its copy and rewrites *)
(* the file.  Nothing locks the file, and rewriting it empties it first    *)
(* and then writes, in pieces if the state is long.                        *)
(* Commands overlap when one session issues several at a time or two       *)
(* sessions have resumed the same run.  One run; the number of a round is  *)
(* its place in rounds, which is also what state.round counts; of a task,  *)
(* only its id is kept.                                                    *)
(***************************************************************************)
EXTENDS Integers, Sequences, FiniteSets

CONSTANTS Shell,         \* processes that may run a command
          Task,          \* task ids
          maxSubagents,  \* the budget the run was given
          MaxRounds      \* bound: rounds started

ASSUME SwarmAssumption ==
  /\ maxSubagents \in Nat \ {0}
  /\ MaxRounds \in Nat

VARIABLES file,    \* the run directory: none, bare, torn, mixed or whole
          state,   \* what state.json says, or last said
          held,    \* per shell, the command it is executing
          mishaps, \* history: what has gone wrong with writing it
          spawns   \* history: tasks whose recording was reported

vars == <<file, state, held, mishaps, spawns>>

Verdict == {"met", "not-met"}

(* killed: a command was, while it wrote.  collided: two commands wrote at *)
(* a time.  mixed: their pieces made a text that can be read.              *)
Mishap == {"killed", "collided", "mixed"}

Idle   == [at |-> "idle"]
Tested == [at |-> "tested"]

Fresh == [status |-> "running", ended |-> FALSE, spawned |-> 0,
          tasks |-> {}, rounds |-> <<>>]

Init ==
  /\ file = "none" /\ state = Fresh
  /\ held = [s \in Shell |-> Idle]
  /\ mishaps = {} /\ spawns = {}

Open(c) == { i \in DOMAIN c.rounds : c.rounds[i] = "open" }

LastOpen(c) == CHOOSE i \in Open(c) : \A j \in Open(c) : j <= i

------------------------------------------------------------------------------
(* Set-SwarmState, in the steps another process can come between *)

(* shared: somebody else writes the file, or did, while this one does. *)
Copy(base, new, reports) ==
  [at |-> "held", base |-> base, new |-> new, reports |-> reports, shared |-> FALSE]

Hold(s, new, reports) ==
  /\ held' = [held EXCEPT ![s] = Copy(state, new, reports)]
  /\ file' = file

Writers == { s \in Shell : held[s].at = "writing" }

(* Set-Content empties the file, whoever else is writing it ... *)
Clear(s) ==
  /\ held[s].at = "held"
  /\ held' = [r \in Shell |->
       CASE r = s         -> [held[r] EXCEPT !.at = "writing", !.shared = (Writers # {})]
         [] r \in Writers -> [held[r] EXCEPT !.shared = TRUE]
         [] OTHER         -> held[r]]
  /\ file' = "torn"
  /\ mishaps' = IF Writers = {} THEN mishaps ELSE mishaps \cup {"collided"}
  /\ UNCHANGED <<state, spawns>>

(* Two that write at a time overwrite each other's pieces: a short text    *)
(* keeps the tail of a longer one and cannot be read, and of long texts    *)
(* one may begin what the other ends.  That can be read, but is no state   *)
(* of the run: what commands make of it is not followed.                   *)
Jumbled(s) ==
  /\ held[s].shared
  /\ \/ file' = "torn"  /\ UNCHANGED mishaps
     \/ file' = "mixed" /\ mishaps' = mishaps \cup {"mixed"}
  /\ UNCHANGED state

Piece(s) == held[s].at = "writing" /\ Jumbled(s) /\ UNCHANGED <<held, spawns>>

(* ... writes it, and the command reports. *)
Put(s) ==
  /\ held[s].at = "writing"
  /\ \/ file' = "whole" /\ state' = held[s].new /\ UNCHANGED mishaps
     \/ Jumbled(s)
  /\ spawns' = spawns \cup held[s].reports
  /\ held' = [held EXCEPT ![s] = Idle]

(* A command ends before its time: the session, or the machine, goes down. *)
Kill(s) ==
  /\ held[s].at # "idle"
  /\ held' = [held EXCEPT ![s] = Idle]
  /\ mishaps' = IF s \in Writers THEN mishaps \cup {"killed"} ELSE mishaps
  /\ UNCHANGED <<file, state, spawns>>

------------------------------------------------------------------------------
(* The commands.  Whatever finds no complete file, or fails its check,     *)
(* throws and leaves everything as it is.  append-note and status do not   *)
(* touch the state.                                                        *)

(* No directory of that name yet: two of the same second may both find so. *)
init(s) ==
  /\ held[s] = Idle /\ file = "none"
  /\ held' = [held EXCEPT ![s] = Tested]
  /\ UNCHANGED <<file, state, mishaps, spawns>>

(* New-Item -Force takes the directory as it is if there is one. *)
Create(s) ==
  /\ held[s] = Tested
  /\ file' = IF file = "none" THEN "bare" ELSE file
  /\ held' = [held EXCEPT ![s] = Copy(Fresh, Fresh, {})]
  /\ UNCHANGED <<state, mishaps, spawns>>

Get(s) == held[s] = Idle /\ file = "whole" /\ UNCHANGED <<state, mishaps, spawns>>

(* faulty: one worker too many. *)
ExhaustedLate(c) == c.spawned > maxSubagents

Exhausted(c) == c.spawned >= maxSubagents

start_round(s) ==
  /\ Get(s)
  /\ state.status = "running"
  /\ Len(state.rounds) < MaxRounds
  /\ Hold(s, IF Exhausted(state) THEN [state EXCEPT !.status = "stopped"]
                                 ELSE [state EXCEPT !.rounds = Append(@, "open")], {})

Counted(c, t) == IF t \in c.tasks THEN c.spawned ELSE c.spawned + 1

(* No check of status or budget: a worker may be recorded at any time. *)
record_task(s, t) ==
  /\ Get(s)
  /\ Hold(s, [state EXCEPT !.tasks = @ \cup {t}, !.spawned = Counted(state, t)], {t})

(* faulty: a copy of the round is judged. *)
JudgedCopy(c, v) == c

Judged(c, v) == [c EXCEPT !.rounds[LastOpen(c)] = v]

end_round(s, v) ==
  /\ Get(s)
  /\ Open(state) # {}
  /\ Hold(s, IF v = "met" THEN [Judged(state, v) EXCEPT !.status = "achieved", !.ended = TRUE]
                          ELSE Judged(state, v), {})

(* faulty: whoever comes last decides. *)
Always(c) == TRUE

(* The guard is on endedAt: a run stopped by its budget has none yet. *)
Unfinished(c) == ~c.ended

finish(s) ==
  /\ Get(s)
  /\ Unfinished(state)
  /\ Hold(s, [state EXCEPT !.status = "stopped", !.ended = TRUE], {})

Next == \E s \in Shell :
  \/ init(s)
  \/ Create(s)
  \/ start_round(s)
  \/ \E t \in Task : record_task(s, t)
  \/ \E v \in Verdict : end_round(s, v)
  \/ finish(s)
  \/ Clear(s)
  \/ Piece(s)
  \/ Put(s)
  \/ Kill(s)

Spec == Init /\ [][Next]_vars

------------------------------------------------------------------------------
(* Properties *)

Content == [status : {"running", "stopped", "achieved"}, ended : BOOLEAN, spawned : Nat,
            tasks : SUBSET Task, rounds : Seq(Verdict \cup {"open"})]

Command == [at : {"held", "writing"}, base : Content, new : Content, reports : SUBSET Task,
            shared : BOOLEAN]

TypeOK ==
  /\ file \in {"none", "bare", "torn", "mixed", "whole"}
  /\ state \in Content
  /\ held \in [Shell -> {Idle, Tested} \cup Command]
  /\ mishaps \subseteq Mishap
  /\ spawns \subseteq Task

(* Once two writes have made a text together that can be read, nothing is  *)
(* claimed; when they left one that cannot, everything still is.           *)
Intact == "mixed" \notin mishaps

(* The file is changed by a command that has not seen what it overwrites. *)
StaleWrite == \E s \in Shell : held[s].at = "writing" /\ held[s].base # state /\ Put(s)

(* What a command reported as recorded is lost only to an overlapping      *)
(* command (Set-SwarmState writes back the whole copy).                    *)
RecordsKept ==
  [][Intact' /\ ~StaleWrite => state.tasks \subseteq state'.tasks
                               /\ state.spawned <= state'.spawned]_vars

(* A run that met its goal stays achieved; a stopped one changes only by   *)
(* the verdict met, and only of a round that the stop left open (finish    *)
(* and the budget close no round).  Nothing but an overlapping command     *)
(* makes it run again.                                                     *)
EndStands ==
  [][Intact' /\ ~StaleWrite =>
       /\ state.status = "achieved" => state'.status = "achieved"
       /\ state.status = "stopped" /\ state'.status # "stopped"
            => state'.status = "achieved" /\ Open(state) # {}]_vars

(* What the commands under way go by: the file as it is, and as each of    *)
(* them found it.                                                          *)
Known == {state} \cup { held[s].base : s \in { r \in Shell : held[r].at \in {"held", "writing"} } }

(* The lost update has a limit: overlapping or not, a command cannot undo  *)
(* what was on record before any command under way read the file, neither  *)
(* a task nor the end of the run.                                          *)
OldNewsStays ==
  [][Intact' =>
       /\ \A t \in Task : (\A c \in Known : t \in c.tasks) => t \in state'.tasks
       /\ (\A c \in Known : c.status = "achieved") => state'.status = "achieved"
       /\ (\A c \in Known : c.status # "running") => state'.status # "running"]_vars

(* The goal is met in a round: an achieved run has ended and has a round   *)
(* judged met, whatever overwrote whatever.                                *)
AchievedIsJudged ==
  Intact /\ state.status = "achieved" =>
    state.ended /\ \E i \in DOMAIN state.rounds : state.rounds[i] = "met"

(* The count the budget is checked against is the number of tasks on       *)
(* record, whatever is recorded twice or lost (record-task counts an id    *)
(* once).                                                                  *)
SpawnedIsCount == Intact => state.spawned = Cardinality(state.tasks)

(* No round begins once the budget's workers have been reported, unless a  *)
(* report was lost to an overlapping command: the count in the file stands *)
(* for what the orchestrator was told (start-round).                       *)
BudgetStopsRounds ==
  [][Intact' /\ Len(state'.rounds) > Len(state.rounds) /\ ~StaleWrite
       => Cardinality(spawns) < maxSubagents \/ ~(spawns \subseteq state.tasks)]_vars

(* A state that cannot be read is being written this moment, or a command  *)
(* was killed while it wrote, or two wrote at a time; a command killed     *)
(* while it worked, and one that overwrites another's finished work, leave *)
(* a file that can be read.                                                *)
UnreadableHasCause ==
  file = "torn" => "killed" \in mishaps \/ "collided" \in mishaps \/ Writers # {}

(* What state.json says is a state the commands could have left. *)
StateOK == TypeOK /\ AchievedIsJudged /\ SpawnedIsCount /\ UnreadableHasCause

(* Only a command that overlapped undoes what another has reported, and    *)
(* only what it could not know of.                                         *)
OnlyOverlapsLose == RecordsKept /\ EndStands /\ OldNewsStays
==============================================================================
