-------------------------- MODULE SwarmStateProofs --------------------------
(***************************************************************************)
(* Machine-checked proofs about SwarmState, for any number of processes,   *)
(* tasks and rounds and for every budget.                                  *)
(***************************************************************************)
EXTENDS SwarmState, FiniteSetTheorems, SequenceTheorems, WellFoundedInduction, TLAPS

AchievedInRound(c) ==
  c.status = "achieved" => c.ended /\ \E i \in DOMAIN c.rounds : c.rounds[i] = "met"

(* A state that any of the commands may have left. *)
Sound(c) ==
  /\ c \in Content
  /\ IsFiniteSet(c.tasks)
  /\ c.spawned = Cardinality(c.tasks)
  /\ AchievedInRound(c)

(* What a command may make of the state it read. *)
Follows(b, c) ==
  /\ b.tasks \subseteq c.tasks
  /\ b.spawned <= c.spawned
  /\ b.status = "achieved" => c.status = "achieved"
  /\ b.status = "stopped" /\ c.status # "stopped" => c.status = "achieved" /\ Open(b) # {}
  /\ Len(c.rounds) > Len(b.rounds) => b.spawned < maxSubagents

(* A shell at work on a copy of the state. *)
Busy(s) == held[s].at \in {"held", "writing"}

HeldSound ==
  \A s \in Shell : Busy(s) => Sound(held[s].new) /\ Follows(held[s].base, held[s].new)

(* Whoever shares the file knows that there was a collision. *)
SharersNoted == \A s \in Shell : Busy(s) /\ held[s].shared => "collided" \in mishaps

(* The copies that processes hold are as sound as the file, and nothing    *)
(* overtakes init.                                                         *)
IInv ==
  /\ TypeOK
  /\ Sound(state)
  /\ HeldSound
  /\ file = "none" => state = Fresh
  /\ SharersNoted
  /\ UnreadableHasCause

------------------------------------------------------------------------------
(* What a command makes of the state it read *)

(* A non-empty set of numbers with a bound has a largest element.          *)
LEMMA LargestElement ==
  ASSUME NEW n \in Nat, NEW S \in SUBSET (1 .. n), S # {}
  PROVE  \E i \in S : \A j \in S : j <= i
<1>. DEFINE T == { n - i : i \in S }
<1>1. T \subseteq Nat /\ T # {}
  <2>1. PICK i \in S : TRUE
    OBVIOUS
  <2>2. n - i \in T
    OBVIOUS
  <2>3. \A x \in T : x \in Nat
    OBVIOUS
  <2>. QED  BY <2>2, <2>3
<1>. HIDE DEF T
<1>2. \E x \in T : \A y \in T : ~ (<<y, x>> \in OpToRel(<, Nat))
  BY <1>1, WFMin, NatLessThanWellFounded, Zenon
<1>3. PICK x \in T : \A y \in T : ~ (y < x)
  BY <1>1, <1>2 DEF OpToRel
<1>4. PICK i \in S : x = n - i
  BY DEF T
<1>5. ASSUME NEW j \in S PROVE j <= i
  <2>1. n - j \in T
    BY DEF T
  <2>. QED  BY <1>3, <1>4, <2>1
<1>. QED  BY <1>5

(* The fields of a state have their types. *)
LEMMA Fields ==
  ASSUME NEW c \in Content
  PROVE  /\ c.status \in {"running", "stopped", "achieved"}
         /\ c.ended \in BOOLEAN
         /\ c.spawned \in Nat
         /\ c.tasks \in SUBSET Task
         /\ c.rounds \in Seq(Verdict \cup {"open"})
         /\ Len(c.rounds) \in Nat
         /\ DOMAIN c.rounds = 1 .. Len(c.rounds)
<1>1. c.rounds \in Seq(Verdict \cup {"open"})
  BY DEF Content
<1>. QED  BY <1>1, LenProperties DEF Content

(* end-round picks a round that is open. *)
LEMMA LastOpenIsOpen ==
  ASSUME NEW c \in Content, Open(c) # {}
  PROVE  LastOpen(c) \in Open(c) /\ LastOpen(c) \in DOMAIN c.rounds
<1>1. Open(c) \in SUBSET (1 .. Len(c.rounds)) /\ Len(c.rounds) \in Nat
  BY Fields DEF Open
<1>2. \E i \in Open(c) : \A j \in Open(c) : j <= i
  BY <1>1, LargestElement
<1>. QED  BY <1>2 DEF LastOpen, Open

(* init's state: running, and empty. *)
LEMMA FreshSound == Sound(Fresh) /\ Follows(Fresh, Fresh)
<1>1. Fresh \in Content
  BY EmptySeq DEF Fresh, Content
<1>2. IsFiniteSet({}) /\ Cardinality({}) = 0
  BY FS_EmptySet
<1>. QED  BY <1>1, <1>2, Fields, EmptySeq DEF Sound, Follows, Fresh, AchievedInRound

(* start-round: a new round, or the end of the run.                        *)
LEMMA StoppedSound ==
  ASSUME NEW c, Sound(c), c.status = "running"
  PROVE  LET n == [c EXCEPT !.status = "stopped"] IN Sound(n) /\ Follows(c, n)
<1>. DEFINE n == [c EXCEPT !.status = "stopped"]
<1>1. n \in Content
  BY DEF Sound, Content
<1>. QED  BY <1>1, Fields DEF Sound, Content, AchievedInRound, Follows

LEMMA RoundSound ==
  ASSUME NEW c, Sound(c), c.status = "running", ~Exhausted(c)
  PROVE  LET n == [c EXCEPT !.rounds = Append(@, "open")] IN Sound(n) /\ Follows(c, n)
<1>. DEFINE n == [c EXCEPT !.rounds = Append(@, "open")]
<1>1. Append(c.rounds, "open") \in Seq(Verdict \cup {"open"})
  BY Fields, AppendProperties DEF Sound
<1>2. n \in Content
  BY <1>1 DEF Sound, Content
<1>3. c.spawned < maxSubagents
  BY SwarmAssumption, Fields DEF Exhausted, Sound
<1>4. /\ n.rounds = Append(c.rounds, "open") /\ n.tasks = c.tasks
      /\ n.spawned = c.spawned /\ n.status = "running"
  BY DEF Sound, Content
<1>5. Sound(n)
  BY <1>2, <1>4 DEF Sound, AchievedInRound
<1>6. Follows(c, n)
  BY <1>3, <1>4, Fields DEF Follows, Sound
<1>. QED  BY <1>5, <1>6

(* record-task: the count grows with the set.                              *)
LEMMA TaskSound ==
  ASSUME NEW c, Sound(c), NEW t \in Task
  PROVE  LET n == [c EXCEPT !.tasks = @ \cup {t}, !.spawned = Counted(c, t)]
         IN  Sound(n) /\ Follows(c, n)
<1>. DEFINE D == c.tasks
            n == [c EXCEPT !.tasks = @ \cup {t}, !.spawned = Counted(c, t)]
<1>1. D \cup {t} \in SUBSET Task
  BY Fields DEF Sound
<1>2. /\ IsFiniteSet(D \cup {t})
      /\ Cardinality(D \cup {t}) = IF t \in D THEN Cardinality(D) ELSE Cardinality(D) + 1
  BY FS_AddElement DEF Sound
<1>3. /\ Counted(c, t) \in Nat
      /\ Counted(c, t) = Cardinality(D \cup {t})
      /\ c.spawned <= Counted(c, t)
  BY <1>2, Fields DEF Counted, Sound
<1>4. n \in Content
  BY <1>1, <1>3 DEF Sound, Content
<1>5. /\ n.tasks = D \cup {t} /\ n.spawned = Counted(c, t)
      /\ n.status = c.status /\ n.ended = c.ended /\ n.rounds = c.rounds
  BY DEF Sound, Content
<1>6. Sound(n)
  BY <1>2, <1>3, <1>4, <1>5 DEF Sound, AchievedInRound
<1>7. Follows(c, n)
  BY <1>3, <1>5, Fields DEF Follows, Sound
<1>. QED  BY <1>6, <1>7

(* end-round: a verdict on the last open round.                            *)
LEMMA VerdictSound ==
  ASSUME NEW c, Sound(c), NEW v \in Verdict, Open(c) # {}
  PROVE  LET n == IF v = "met"
                    THEN [Judged(c, v) EXCEPT !.status = "achieved", !.ended = TRUE]
                    ELSE Judged(c, v)
         IN  Sound(n) /\ Follows(c, n)
<1>. DEFINE j == Judged(c, v)
            m == [j EXCEPT !.status = "achieved", !.ended = TRUE]
            rounds == [c.rounds EXCEPT ![LastOpen(c)] = v]
<1>1. LastOpen(c) \in DOMAIN c.rounds /\ c.rounds[LastOpen(c)] = "open"
  BY LastOpenIsOpen DEF Sound, Open
<1>2. /\ rounds \in Seq(Verdict \cup {"open"})
      /\ Len(rounds) = Len(c.rounds)
      /\ DOMAIN rounds = DOMAIN c.rounds
      /\ rounds[LastOpen(c)] = v
      /\ \A i \in DOMAIN c.rounds : i # LastOpen(c) => rounds[i] = c.rounds[i]
  BY <1>1, Fields, ExceptSeq DEF Sound
<1>3. /\ j.rounds = rounds /\ j.tasks = c.tasks /\ j.spawned = c.spawned
      /\ j.status = c.status /\ j.ended = c.ended
      /\ j \in Content
  BY <1>2 DEF Sound, Content, Judged
<1>4. /\ m.rounds = rounds /\ m.tasks = c.tasks /\ m.spawned = c.spawned
      /\ m.status = "achieved" /\ m.ended = TRUE
      /\ m \in Content
  BY <1>3 DEF Content
<1>5. CASE v = "met"
  <2>1. \E i \in DOMAIN m.rounds : m.rounds[i] = "met"
    BY <1>1, <1>2, <1>4, <1>5
  <2>2. Sound(m)
    BY <1>4, <2>1 DEF Sound, AchievedInRound
  <2>3. Follows(c, m)
    BY <1>2, <1>4, Fields DEF Follows, Sound
  <2>. QED  BY <1>5, <2>2, <2>3
<1>6. CASE v # "met"
  <2>1. ASSUME NEW i \in DOMAIN c.rounds, c.rounds[i] = "met"
        PROVE  i \in DOMAIN j.rounds /\ j.rounds[i] = "met"
    BY <1>1, <1>2, <1>3, <2>1
  <2>2. AchievedInRound(j)
    BY <1>3, <2>1 DEF Sound, AchievedInRound
  <2>3. Sound(j)
    BY <1>3, <2>2 DEF Sound
  <2>4. Follows(c, j)
    BY <1>2, <1>3, Fields DEF Follows, Sound
  <2>. QED  BY <1>6, <2>3, <2>4
<1>. QED  BY <1>5, <1>6

(* finish: not of an achieved run, which has ended.                        *)
LEMMA FinishSound ==
  ASSUME NEW c, Sound(c), Unfinished(c)
  PROVE  LET n == [c EXCEPT !.status = "stopped", !.ended = TRUE]
         IN  Sound(n) /\ Follows(c, n)
<1>. DEFINE n == [c EXCEPT !.status = "stopped", !.ended = TRUE]
<1>1. n \in Content
  BY DEF Sound, Content
<1>2. c.status # "achieved"
  BY DEF Sound, AchievedInRound, Unfinished
<1>. QED  BY <1>1, <1>2, Fields DEF Sound, Content, AchievedInRound, Follows

------------------------------------------------------------------------------
(* The invariant *)

LEMMA InitInv == Init => IInv
<1>. SUFFICES ASSUME Init PROVE IInv
  OBVIOUS
<1>1. Sound(state) /\ state \in Content
  BY FreshSound DEF Init, Sound
<1>2. HeldSound /\ SharersNoted
  BY DEF Init, HeldSound, SharersNoted, Busy, Idle
<1>3. TypeOK
  BY <1>1 DEF Init, TypeOK
<1>. QED  BY <1>1, <1>2, <1>3 DEF Init, IInv, UnreadableHasCause

(* A process that is busy holds a command, and the others do not. *)
LEMMA HeldType ==
  ASSUME TypeOK, NEW s \in Shell, Busy(s)
  PROVE  /\ held[s] \in Command
         /\ held[s] # Idle /\ held[s] # Tested
         /\ held[s].base \in Content /\ held[s].new \in Content
         /\ held[s].reports \subseteq Task
         /\ held[s].shared \in BOOLEAN
  BY DEF TypeOK, Idle, Tested, Command, Busy

(* What one process turns to leaves the others' work sound, if its own is. *)
LEMMA OneTurns ==
  ASSUME IInv, NEW s \in Shell, NEW cmd \in {Idle, Tested} \cup Command,
         held' = [held EXCEPT ![s] = cmd],
         mishaps \subseteq mishaps',
         cmd \in Command => /\ Sound(cmd.new) /\ Follows(cmd.base, cmd.new)
                            /\ ~cmd.shared
  PROVE  /\ held' \in [Shell -> {Idle, Tested} \cup Command]
         /\ HeldSound' /\ SharersNoted'
<1>1. held \in [Shell -> {Idle, Tested} \cup Command]
  BY DEF IInv, TypeOK
<1>2. held'[s] = cmd /\ \A r \in Shell : r # s => held'[r] = held[r]
  BY <1>1
<1>3. cmd.at \in {"held", "writing"} => cmd \in Command
  BY DEF Idle, Tested
<1>4. ASSUME NEW r \in Shell, held'[r].at \in {"held", "writing"}
      PROVE  /\ Sound(held'[r].new) /\ Follows(held'[r].base, held'[r].new)
             /\ held'[r].shared => "collided" \in mishaps'
  <2>1. CASE r = s
    BY <1>2, <1>3, <1>4, <2>1
  <2>2. CASE r # s
    BY <1>2, <1>4, <2>2 DEF IInv, HeldSound, SharersNoted, Busy
  <2>. QED  BY <2>1, <2>2
<1>. QED  BY <1>1, <1>4 DEF HeldSound, SharersNoted, Busy

(* A process takes a copy, sound if the command is, and the file stays as  *)
(* good as it is (all commands but init).                                  *)
LEMMA HoldInv ==
  ASSUME IInv, NEW s \in Shell, Get(s),
         NEW new, Sound(new), Follows(state, new),
         NEW reports \in SUBSET Task, Hold(s, new, reports)
  PROVE  IInv'
<1>1. state' = state /\ file' = "whole" /\ mishaps' = mishaps /\ spawns' = spawns
  BY DEF Get, Hold
<1>. DEFINE cmd == Copy(state, new, reports)
<1>2. held' = [held EXCEPT ![s] = cmd]
  BY DEF Hold
<1>3. /\ cmd \in Command /\ ~cmd.shared
      /\ cmd.base = state /\ cmd.new = new
  BY DEF Copy, Command, IInv, TypeOK, Sound
<1>. HIDE DEF cmd
<1>4. /\ held' \in [Shell -> {Idle, Tested} \cup Command]
      /\ HeldSound' /\ SharersNoted'
  BY <1>1, <1>2, <1>3, OneTurns
<1>5. TypeOK'
  BY <1>1, <1>4 DEF IInv, TypeOK
<1>6. Sound(state)' /\ UnreadableHasCause' /\ (file' = "none" => state' = Fresh)
  BY <1>1 DEF IInv, UnreadableHasCause
<1>. QED  BY <1>4, <1>5, <1>6 DEF IInv

(* init finds no directory of its name ... *)
LEMMA InitCommandInv ==
  ASSUME IInv, NEW s \in Shell, init(s)
  PROVE  IInv'
<1>1. /\ held' = [held EXCEPT ![s] = Tested]
      /\ file' = file /\ state' = state /\ mishaps' = mishaps /\ spawns' = spawns
      /\ file = "none"
  BY DEF init
<1>2. Tested \notin Command
  BY DEF Tested, Command
<1>3. /\ held' \in [Shell -> {Idle, Tested} \cup Command]
      /\ HeldSound' /\ SharersNoted'
  BY <1>1, <1>2, OneTurns
<1>4. TypeOK'
  BY <1>1, <1>3 DEF IInv, TypeOK
<1>5. Sound(state)' /\ UnreadableHasCause' /\ (file' = "none" => state' = Fresh)
  BY <1>1 DEF IInv, UnreadableHasCause
<1>. QED  BY <1>3, <1>4, <1>5 DEF IInv

(* ... and makes it, or takes the one that another has made since. *)
LEMMA CreateInv ==
  ASSUME IInv, NEW s \in Shell, Create(s)
  PROVE  IInv'
<1>. DEFINE cmd == Copy(Fresh, Fresh, {})
<1>1. /\ held' = [held EXCEPT ![s] = cmd]
      /\ file' = IF file = "none" THEN "bare" ELSE file
      /\ state' = state /\ mishaps' = mishaps /\ spawns' = spawns
      /\ held[s].at = "tested"
  BY DEF Create, Tested
<1>2. /\ cmd \in Command /\ ~cmd.shared
      /\ cmd.base = Fresh /\ cmd.new = Fresh
  BY FreshSound DEF Copy, Command, Sound
<1>. HIDE DEF cmd
<1>3. /\ held' \in [Shell -> {Idle, Tested} \cup Command]
      /\ HeldSound' /\ SharersNoted'
  BY <1>1, <1>2, FreshSound, OneTurns
<1>4. TypeOK'
  BY <1>1, <1>3 DEF IInv, TypeOK
<1>5. UnreadableHasCause'
  <2>1. ASSUME file' = "torn", "killed" \notin mishaps', "collided" \notin mishaps'
        PROVE  Writers' # {}
    <3>1. PICK r \in Shell : held[r].at = "writing"
      BY <1>1, <2>1 DEF IInv, UnreadableHasCause, Writers
    <3>2. r # s
      BY <1>1, <3>1
    <3>3. held'[r] = held[r]
      BY <1>1, <3>2 DEF IInv, TypeOK
    <3>. QED  BY <3>1, <3>3 DEF Writers
  <2>. QED  BY <2>1 DEF UnreadableHasCause
<1>6. Sound(state)' /\ (file' = "none" => state' = Fresh)
  BY <1>1 DEF IInv
<1>. QED  BY <1>3, <1>4, <1>5, <1>6 DEF IInv

(* Set-Content empties the file, and who writes it with others shares it.  *)
LEMMA ClearInv ==
  ASSUME IInv, NEW s \in Shell, Clear(s)
  PROVE  IInv'
<1>1. /\ file' = "torn" /\ state' = state /\ spawns' = spawns
      /\ mishaps \subseteq mishaps' /\ mishaps' \subseteq Mishap
      /\ Writers # {} => "collided" \in mishaps'
      /\ held[s].at = "held"
  BY DEF Clear, IInv, TypeOK, Mishap
<1>2. /\ held[s] \in Command /\ held \in [Shell -> {Idle, Tested} \cup Command]
  BY <1>1, HeldType DEF IInv, TypeOK, Busy
<1>3. /\ held'[s] = [held[s] EXCEPT !.at = "writing", !.shared = (Writers # {})]
      /\ \A r \in Shell : r # s /\ r \in Writers => held'[r] = [held[r] EXCEPT !.shared = TRUE]
      /\ \A r \in Shell : r # s /\ r \notin Writers => held'[r] = held[r]
      /\ DOMAIN held' = Shell
      /\ held' = [r \in Shell |-> held'[r]]
  BY <1>1 DEF Clear, Writers
<1>4. /\ held'[s] \in Command /\ held'[s].at = "writing"
      /\ held'[s].shared => Writers # {}
      /\ held'[s].base = held[s].base /\ held'[s].new = held[s].new
  BY <1>2, <1>3 DEF Command
<1>5. ASSUME NEW r \in Shell, r # s
      PROVE  /\ held'[r] \in {Idle, Tested} \cup Command
             /\ held'[r].at = held[r].at
             /\ Busy(r) => /\ held'[r].base = held[r].base /\ held'[r].new = held[r].new
                           /\ held'[r].shared => held[r].shared \/ Writers # {}
  <2>1. CASE r \in Writers
    <3>1. held[r] \in Command
      BY <2>1, HeldType DEF IInv, Writers, Busy
    <3>2. held'[r] = [held[r] EXCEPT !.shared = TRUE]
      BY <1>3, <1>5, <2>1
    <3>3. /\ held'[r] \in Command /\ held'[r].at = held[r].at
          /\ held'[r].base = held[r].base /\ held'[r].new = held[r].new
      BY <3>1, <3>2 DEF Command
    <3>4. Writers # {}
      BY <2>1
    <3>. QED  BY <3>3, <3>4
  <2>2. CASE r \notin Writers
    BY <1>2, <1>3, <1>5, <2>2
  <2>. QED  BY <2>1, <2>2
<1>6. TypeOK'
  <2>1. \A r \in Shell : held'[r] \in {Idle, Tested} \cup Command
    BY <1>4, <1>5
  <2>2. held' \in [Shell -> {Idle, Tested} \cup Command]
    BY <1>3, <2>1
  <2>. QED  BY <1>1, <2>2 DEF IInv, TypeOK
<1>7. ASSUME NEW r \in Shell, held'[r].at \in {"held", "writing"}
      PROVE  /\ Sound(held'[r].new) /\ Follows(held'[r].base, held'[r].new)
             /\ held'[r].shared => "collided" \in mishaps'
  <2>1. CASE r = s
    BY <1>1, <1>4, <2>1 DEF IInv, HeldSound, Busy
  <2>2. CASE r # s
    <3>1. Busy(r)
      BY <1>5, <1>7, <2>2 DEF Busy
    <3>. QED  BY <1>1, <1>5, <2>2, <3>1 DEF IInv, HeldSound, SharersNoted
  <2>. QED  BY <2>1, <2>2
<1>8. HeldSound' /\ SharersNoted'
  BY <1>7 DEF HeldSound, SharersNoted, Busy
<1>9. UnreadableHasCause' /\ Sound(state)' /\ (file' = "none" => state' = Fresh)
  BY <1>1, <1>4 DEF UnreadableHasCause, Writers, IInv
<1>. QED  BY <1>6, <1>8, <1>9 DEF IInv

(* What a write leaves that was not alone: no state that commands read.    *)
LEMMA JumbledInv ==
  ASSUME IInv, NEW s \in Shell, held[s].at = "writing", Jumbled(s)
  PROVE  /\ state' = state /\ file' \in {"torn", "mixed"}
         /\ mishaps \subseteq mishaps' /\ mishaps' \subseteq Mishap
         /\ "collided" \in mishaps'
<1>1. "collided" \in mishaps
  BY DEF IInv, SharersNoted, Busy, Jumbled
<1>. QED  BY <1>1 DEF Jumbled, IInv, TypeOK, Mishap

LEMMA PieceInv ==
  ASSUME IInv, NEW s \in Shell, Piece(s)
  PROVE  IInv'
<1>1. /\ state' = state /\ file' \in {"torn", "mixed"}
      /\ mishaps \subseteq mishaps' /\ mishaps' \subseteq Mishap
      /\ "collided" \in mishaps'
      /\ held' = held /\ spawns' = spawns
  BY JumbledInv DEF Piece
<1>2. TypeOK'
  BY <1>1 DEF IInv, TypeOK
<1>3. HeldSound' /\ SharersNoted'
  BY <1>1 DEF IInv, HeldSound, SharersNoted, Busy
<1>4. Sound(state)' /\ UnreadableHasCause' /\ (file' = "none" => state' = Fresh)
  BY <1>1 DEF IInv, UnreadableHasCause
<1>. QED  BY <1>2, <1>3, <1>4 DEF IInv

LEMMA PutInv ==
  ASSUME IInv, NEW s \in Shell, Put(s)
  PROVE  IInv'
<1>1. /\ held' = [held EXCEPT ![s] = Idle]
      /\ spawns' = spawns \cup held[s].reports
      /\ held[s].at = "writing"
  BY DEF Put
<1>2. held[s].new \in Content /\ held[s].reports \subseteq Task /\ Sound(held[s].new)
  BY <1>1, HeldType DEF IInv, HeldSound, Busy
<1>3. /\ mishaps \subseteq mishaps' /\ mishaps' \subseteq Mishap
      /\ Sound(state') /\ file' \in {"torn", "mixed", "whole"}
      /\ file' = "torn" => "collided" \in mishaps'
  <2>1. CASE file' = "whole" /\ state' = held[s].new /\ UNCHANGED mishaps
    BY <1>2, <2>1 DEF IInv, TypeOK
  <2>2. CASE Jumbled(s)
    BY <1>1, <2>2, JumbledInv DEF IInv
  <2>. QED  BY <2>1, <2>2 DEF Put
<1>4. Idle \notin Command
  BY DEF Idle, Command
<1>5. /\ held' \in [Shell -> {Idle, Tested} \cup Command]
      /\ HeldSound' /\ SharersNoted'
  BY <1>1, <1>3, <1>4, OneTurns
<1>6. TypeOK'
  BY <1>1, <1>2, <1>3, <1>5 DEF IInv, TypeOK, Sound
<1>7. Sound(state)' /\ UnreadableHasCause' /\ (file' = "none" => state' = Fresh)
  BY <1>3 DEF UnreadableHasCause
<1>. QED  BY <1>5, <1>6, <1>7 DEF IInv

LEMMA KillInv ==
  ASSUME IInv, NEW s \in Shell, Kill(s)
  PROVE  IInv'
<1>1. /\ held' = [held EXCEPT ![s] = Idle]
      /\ mishaps' = IF s \in Writers THEN mishaps \cup {"killed"} ELSE mishaps
      /\ file' = file /\ state' = state /\ spawns' = spawns
  BY DEF Kill
<1>2. /\ mishaps \subseteq mishaps' /\ mishaps' \subseteq Mishap
      /\ s \in Writers => "killed" \in mishaps'
  BY <1>1 DEF IInv, TypeOK, Mishap
<1>3. Idle \notin Command
  BY DEF Idle, Command
<1>4. /\ held' \in [Shell -> {Idle, Tested} \cup Command]
      /\ HeldSound' /\ SharersNoted'
  BY <1>1, <1>2, <1>3, OneTurns
<1>5. TypeOK'
  BY <1>1, <1>2, <1>4 DEF IInv, TypeOK
<1>6. UnreadableHasCause'
  <2>1. ASSUME file' = "torn", "killed" \notin mishaps', "collided" \notin mishaps'
        PROVE  Writers' # {}
    <3>1. PICK r \in Writers : r # s
      BY <1>1, <1>2, <2>1 DEF IInv, UnreadableHasCause
    <3>2. held'[r] = held[r]
      BY <1>1, <3>1 DEF IInv, TypeOK, Writers
    <3>. QED  BY <3>1, <3>2 DEF Writers
  <2>. QED  BY <2>1 DEF UnreadableHasCause
<1>7. Sound(state)' /\ (file' = "none" => state' = Fresh)
  BY <1>1 DEF IInv
<1>. QED  BY <1>4, <1>5, <1>6, <1>7 DEF IInv

LEMMA NextInv == IInv /\ [Next]_vars => IInv'
<1>. SUFFICES ASSUME IInv, [Next]_vars PROVE IInv'
  OBVIOUS
<1>0. Sound(state)
  BY DEF IInv
<1>1. ASSUME NEW s \in Shell, init(s) PROVE IInv'
  BY <1>1, InitCommandInv
<1>2. ASSUME NEW s \in Shell, start_round(s) PROVE IInv'
  <2>. DEFINE stopped == [state EXCEPT !.status = "stopped"]
              opened == [state EXCEPT !.rounds = Append(@, "open")]
  <2>1. CASE Exhausted(state)
    <3>1. Sound(stopped) /\ Follows(state, stopped)
      BY <1>0, <1>2, StoppedSound DEF start_round
    <3>2. Get(s) /\ Hold(s, stopped, {})
      BY <1>2, <2>1 DEF start_round
    <3>. QED  BY <3>1, <3>2, HoldInv
  <2>2. CASE ~Exhausted(state)
    <3>1. Sound(opened) /\ Follows(state, opened)
      BY <1>0, <1>2, <2>2, RoundSound DEF start_round
    <3>2. Get(s) /\ Hold(s, opened, {})
      BY <1>2, <2>2 DEF start_round
    <3>. QED  BY <3>1, <3>2, HoldInv
  <2>. QED  BY <2>1, <2>2
<1>3. ASSUME NEW s \in Shell, NEW t \in Task, record_task(s, t)
      PROVE  IInv'
  <2>. DEFINE n == [state EXCEPT !.tasks = @ \cup {t}, !.spawned = Counted(state, t)]
  <2>1. Sound(n) /\ Follows(state, n)
    BY <1>0, TaskSound
  <2>2. Get(s) /\ Hold(s, n, {t})
    BY <1>3 DEF record_task
  <2>. QED  BY <2>1, <2>2, HoldInv
<1>4. ASSUME NEW s \in Shell, NEW v \in Verdict, end_round(s, v) PROVE IInv'
  <2>. DEFINE n == IF v = "met"
                     THEN [Judged(state, v) EXCEPT !.status = "achieved", !.ended = TRUE]
                     ELSE Judged(state, v)
  <2>1. Sound(n) /\ Follows(state, n)
    BY <1>0, <1>4, VerdictSound DEF end_round
  <2>2. Get(s) /\ Hold(s, n, {})
    BY <1>4 DEF end_round
  <2>. QED  BY <2>1, <2>2, HoldInv
<1>5. ASSUME NEW s \in Shell, finish(s) PROVE IInv'
  <2>. DEFINE n == [state EXCEPT !.status = "stopped", !.ended = TRUE]
  <2>1. Sound(n) /\ Follows(state, n)
    BY <1>0, <1>5, FinishSound DEF finish
  <2>2. Get(s) /\ Hold(s, n, {})
    BY <1>5 DEF finish
  <2>. QED  BY <2>1, <2>2, HoldInv
<1>6. ASSUME NEW s \in Shell, Clear(s) PROVE IInv'
  BY <1>6, ClearInv
<1>7. ASSUME NEW s \in Shell, Put(s) PROVE IInv'
  BY <1>7, PutInv
<1>8. ASSUME NEW s \in Shell, Kill(s) PROVE IInv'
  BY <1>8, KillInv
<1>9. ASSUME NEW s \in Shell, Create(s) PROVE IInv'
  BY <1>9, CreateInv
<1>10. ASSUME NEW s \in Shell, Piece(s) PROVE IInv'
  BY <1>10, PieceInv
<1>11. CASE UNCHANGED vars
  <2>1. TypeOK' /\ HeldSound' /\ SharersNoted' /\ UnreadableHasCause'
    BY <1>11 DEF vars, IInv, TypeOK, HeldSound, SharersNoted, Busy, Writers,
                 UnreadableHasCause
  <2>. QED  BY <1>11, <2>1 DEF vars, IInv
<1>. QED  BY <1>1, <1>2, <1>3, <1>4, <1>5, <1>6, <1>7, <1>8, <1>9, <1>10, <1>11 DEF Next

LEMMA Invariance == Spec => []IInv
<1>. QED  BY InitInv, NextInv, PTL DEF Spec

(* Whatever processes overlap, collide or are killed: the state last       *)
(* written whole is one the commands could have left (an achieved run has  *)
(* a round judged met, the count is the number of tasks), and a file that  *)
(* cannot be read has a writer, a killed one, or had two at a time         *)
(* (swarm-state.ps1, Set-SwarmState).                                      *)
THEOREM StateStaysSound == Spec => []StateOK
<1>1. IInv => StateOK
  BY DEF IInv, StateOK, Sound, AchievedInRound, AchievedIsJudged, SpawnedIsCount
<1>. QED  BY <1>1, Invariance, PTL

------------------------------------------------------------------------------
(* What a step may do *)

(* Only Put changes the state, and makes of it what its command may make   *)
(* of the state that the command read: of the one before the step, if the  *)
(* write is not stale.                                                     *)
LEMMA StepFollows ==
  ASSUME IInv, [Next]_vars
  PROVE  /\ state' = state \/ \E c \in Known : Follows(c, state')
         /\ ~StaleWrite => state' = state \/ Follows(state, state')
<1>1. ASSUME NEW s \in Shell, Put(s), state' # state
      PROVE  /\ \E c \in Known : Follows(c, state')
             /\ ~StaleWrite => Follows(state, state')
  <2>1. held[s].at = "writing" /\ state' = held[s].new
    BY <1>1 DEF Put, Jumbled
  <2>2. held[s].base \in Known
    BY <2>1 DEF Known
  <2>3. Follows(held[s].base, state')
    BY <2>1 DEF IInv, HeldSound, Busy
  <2>4. ~StaleWrite => held[s].base = state
    BY <1>1, <2>1 DEF StaleWrite
  <2>. QED  BY <2>2, <2>3, <2>4
<1>2. ASSUME NEW s \in Shell, ~Put(s), Next PROVE state' = state \/ \E r \in Shell : Put(r)
  BY <1>2 DEF Next, init, Create, start_round, record_task, end_round, finish, Get, Clear,
              Piece, Jumbled, Kill
<1>3. CASE UNCHANGED vars
  BY <1>3 DEF vars
<1>. QED  BY <1>1, <1>2, <1>3 DEF Next

(* A command that overlapped no other undoes nothing that was recorded and *)
(* revives no run that ended; one that did undoes nothing that was there   *)
(* before any command under way read the file (record-task, end-round,     *)
(* finish).                                                                *)
THEOREM NothingLostAlone == Spec => OnlyOverlapsLose
<1>. DEFINE Keeps == Intact' /\ ~StaleWrite => state.tasks \subseteq state'.tasks
                                              /\ state.spawned <= state'.spawned
            Stands == Intact' /\ ~StaleWrite =>
              /\ state.status = "achieved" => state'.status = "achieved"
              /\ state.status = "stopped" /\ state'.status # "stopped"
                   => state'.status = "achieved" /\ Open(state) # {}
            Stays == Intact' =>
              /\ \A t \in Task : (\A c \in Known : t \in c.tasks) => t \in state'.tasks
              /\ (\A c \in Known : c.status = "achieved") => state'.status = "achieved"
              /\ (\A c \in Known : c.status # "running") => state'.status # "running"
<1>1. IInv /\ [Next]_vars => Keeps /\ Stands
  <2>. SUFFICES ASSUME IInv, [Next]_vars, ~StaleWrite PROVE Keeps /\ Stands
    OBVIOUS
  <2>1. state.spawned \in Nat
    BY Fields DEF IInv, Sound
  <2>. QED  BY <2>1, StepFollows DEF Follows
<1>2. IInv /\ [Next]_vars => Stays
  <2>. SUFFICES ASSUME IInv, [Next]_vars PROVE Stays
    OBVIOUS
  <2>1. state \in Known
    BY DEF Known
  <2>2. CASE state' = state
    BY <2>1, <2>2
  <2>3. ASSUME NEW c \in Known, Follows(c, state') PROVE Stays
    <3>1. c \in Content
      BY HeldType DEF Known, IInv, TypeOK, Busy
    <3>2. c.status \in {"running", "stopped", "achieved"}
      BY <3>1, Fields
    <3>. QED  BY <2>3, <3>2 DEF Follows
  <2>. QED  BY <2>2, <2>3, StepFollows
<1>3. Spec => [][Keeps]_vars /\ [][Stands]_vars /\ [][Stays]_vars
  BY <1>1, <1>2, Invariance, PTL DEF Spec
<1>. QED  BY <1>3 DEF OnlyOverlapsLose, RecordsKept, EndStands, OldNewsStays

(* The budget stops rounds: none begins once as many workers have been     *)
(* reported as it allows, unless a report was overwritten (start-round).   *)
THEOREM BudgetHolds == Spec => BudgetStopsRounds
<1>. DEFINE Bounded == Intact' /\ Len(state'.rounds) > Len(state.rounds) /\ ~StaleWrite
              => Cardinality(spawns) < maxSubagents \/ ~(spawns \subseteq state.tasks)
<1>1. IInv /\ [Next]_vars => Bounded
  <2>. SUFFICES ASSUME IInv, [Next]_vars, ~StaleWrite,
                       Len(state'.rounds) > Len(state.rounds),
                       spawns \subseteq state.tasks
                PROVE  Cardinality(spawns) < maxSubagents
    OBVIOUS
  <2>1. Len(state.rounds) \in Nat
    BY Fields DEF IInv, Sound
  <2>2. state.spawned < maxSubagents
    BY <2>1, StepFollows DEF Follows
  <2>3. /\ IsFiniteSet(state.tasks)
        /\ state.spawned = Cardinality(state.tasks)
    BY DEF IInv, Sound
  <2>4. IsFiniteSet(spawns) /\ Cardinality(spawns) <= Cardinality(state.tasks)
    BY <2>3, FS_Subset
  <2>5. Cardinality(spawns) \in Nat /\ Cardinality(state.tasks) \in Nat
    BY <2>3, <2>4, FS_CardinalityType
  <2>. QED  BY SwarmAssumption, <2>2, <2>3, <2>4, <2>5
<1>2. Spec => [][Bounded]_vars
  BY <1>1, Invariance, PTL DEF Spec
<1>. QED  BY <1>2 DEF BudgetStopsRounds
==============================================================================
