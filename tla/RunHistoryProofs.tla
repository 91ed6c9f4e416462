--------------------------- MODULE RunHistoryProofs ---------------------------
(***************************************************************************)
(* What is proved of RunHistory, for any number of runs and events, every  *)
(* keep_runs and max_bytes and any number of failing filesystem calls: the *)
(* global log and the runs' histories lose nothing but what the module     *)
(* says, retention keeps its bound and takes no run too many, manifests    *)
(* tell the truth, and reads overtaken by rotation and pruning answer with *)
(* what was on disk.                                                       *)
(***************************************************************************)
EXTENDS RunHistory, FiniteSetTheorems, SequenceTheorems, WellFoundedInduction, TLAPS

(* The events: who owns them and what became of them. *)
EventType ==
  /\ owner \in Seq(Run \cup {Global})
  /\ torn \subseteq failed /\ failed \subseteq DOMAIN owner

(* What was written to the file of owner o ends in a fragment only if the   *)
(* last event that got there left it.                                       *)
Glued(o) ==
  \E f \in torn : owner[f] = o /\ \A g \in f + 1 .. Len(owner) : g \in failed \/ owner[g] # o

(* A file that belongs to o and was begun after event "from".               *)
FileSound(file, o, from) ==
  /\ InOrder(file.lines)
  /\ \A k \in DOMAIN file.lines :
       file.lines[k] = Garbage \/ (from < file.lines[k] /\ file.lines[k] <= Len(owner))
  /\ file.open => Glued(o)
  /\ \A e \in Of(o) : e > from => e \in Readable(file.lines) \/ Spoilt(e)

------------------------------------------------------------------------------
(* One event more *)

LEMMA EmitIs ==
  ASSUME EventType, NEW o \in Run \cup {Global}, NEW how \in How, Emit(o, how)
  PROVE  /\ EventType'
         /\ Len(owner') = Len(owner) + 1 /\ DOMAIN owner' = 1 .. Len(owner) + 1
         /\ owner'[event] = o
         /\ \A e \in 1 .. Len(owner) : owner'[e] = owner[e]
         /\ \A e \in 1 .. Len(owner) : (e \in failed' <=> e \in failed) /\ (e \in torn' <=> e \in torn)
         /\ event \in failed' <=> how # "ok"
         /\ event \in torn' <=> how = "torn"
<1>0. Len(owner) \in Nat /\ DOMAIN owner = 1 .. Len(owner) /\ event = Len(owner) + 1
  BY DEF EventType, event
<1>1. owner' = Append(owner, o)
  BY DEF Emit
<1>2. /\ owner' \in Seq(Run \cup {Global}) /\ Len(owner') = Len(owner) + 1
      /\ DOMAIN owner' = 1 .. Len(owner) + 1 /\ owner'[Len(owner) + 1] = o
      /\ \A e \in 1 .. Len(owner) : owner'[e] = owner[e]
  BY <1>0, <1>1 DEF EventType
<1>3. /\ failed' = IF how = "ok" THEN failed ELSE failed \cup {Len(owner) + 1}
      /\ torn' = IF how = "torn" THEN torn \cup {Len(owner) + 1} ELSE torn
  BY DEF Emit, event
<1>4. Len(owner) + 1 \notin failed /\ Len(owner) + 1 \notin torn
  BY <1>0 DEF EventType
<1>5. torn' \subseteq failed' /\ failed' \subseteq DOMAIN owner'
  BY <1>0, <1>2, <1>3 DEF EventType
<1> QED BY <1>0, <1>2, <1>3, <1>4, <1>5 DEF EventType

(* It changes nothing for the others ... *)
LEMMA OfIs ==
  ASSUME EventType, NEW o \in Run \cup {Global}, NEW how \in How, Emit(o, how)
  PROVE  /\ Of(o)' = Of(o) \cup {event} /\ event \notin Of(o)
         /\ \A p : p # o => Of(p)' = Of(p)
<1>0. Len(owner) \in Nat /\ DOMAIN owner = 1 .. Len(owner) /\ event = Len(owner) + 1
  BY DEF EventType, event
<1> QED BY <1>0, EmitIs DEF Of

LEMMA SpoiltStays ==
  ASSUME EventType, NEW o \in Run \cup {Global}, NEW how \in How, Emit(o, how),
         NEW e \in 1 .. Len(owner), Spoilt(e)
  PROVE  Spoilt(e)'
<1>0. Len(owner) \in Nat /\ DOMAIN owner = 1 .. Len(owner)
  BY DEF EventType
<1>1. CASE e \in failed
  BY <1>1, EmitIs DEF Spoilt
<1>2. CASE e \notin failed
  <2>1. PICK f \in torn : /\ f < e /\ owner[f] = owner[e]
                          /\ \A g \in f + 1 .. e - 1 : g \in failed \/ owner[g] # owner[e]
    BY <1>2 DEF Spoilt
  <2>2. f \in 1 .. Len(owner)
    BY <1>0 DEF EventType
  <2>3. f \in torn' /\ owner'[f] = owner'[e]
    BY <2>1, <2>2, EmitIs
  <2>4. \A g \in f + 1 .. e - 1 : g \in failed' \/ owner'[g] # owner'[e]
    <3> SUFFICES ASSUME NEW g \in f + 1 .. e - 1 PROVE g \in failed' \/ owner'[g] # owner'[e]
      OBVIOUS
    <3>1. g \in 1 .. Len(owner)
      BY <1>0, <2>2
    <3> QED BY <2>1, <3>1, EmitIs
  <2> QED BY <2>1, <2>3, <2>4 DEF Spoilt
<1> QED BY <1>1, <1>2

(* ... and an event written behind a fragment is spoilt.                    *)
LEMMA GluedIsSpoilt ==
  ASSUME EventType, NEW o \in Run \cup {Global}, NEW how \in How, Emit(o, how), Glued(o),
         NEW e, e = event
  PROVE  Spoilt(e)'
<1>0. Len(owner) \in Nat /\ DOMAIN owner = 1 .. Len(owner) /\ e = Len(owner) + 1
  BY DEF EventType, event
<1>1. PICK f \in torn : owner[f] = o /\ \A g \in f + 1 .. Len(owner) : g \in failed \/ owner[g] # o
  BY DEF Glued
<1>2. f \in 1 .. Len(owner)
  BY <1>0 DEF EventType
<1>3. f \in torn' /\ owner'[f] = o /\ owner'[e] = o /\ f < e
  BY <1>0, <1>1, <1>2, EmitIs
<1>4. \A g \in f + 1 .. e - 1 : g \in failed' \/ owner'[g] # owner'[e]
  <2> SUFFICES ASSUME NEW g \in f + 1 .. e - 1 PROVE g \in failed' \/ owner'[g] # o
    BY <1>3
  <2>1. g \in 1 .. Len(owner) /\ g \in f + 1 .. Len(owner)
    BY <1>0, <1>2
  <2> QED BY <1>1, <2>1, EmitIs
<1> QED BY <1>3, <1>4 DEF Spoilt

(* ... as it leaves one for others, or takes the one there is with it.      *)
LEMMA GluedStays ==
  ASSUME EventType, NEW o \in Run \cup {Global}, NEW how \in How, Emit(o, how)
  PROVE  /\ how = "torn" => Glued(o)'
         /\ how # "ok" /\ Glued(o) => Glued(o)'
         /\ \A p : p # o /\ Glued(p) => Glued(p)'
<1>0. Len(owner) \in Nat /\ DOMAIN owner = 1 .. Len(owner) /\ event = Len(owner) + 1
  BY DEF EventType, event
<1>1. ASSUME how = "torn" PROVE Glued(o)'
  <2>1. Len(owner) + 1 \in torn' /\ owner'[Len(owner) + 1] = o /\ Len(owner') = Len(owner) + 1
    BY <1>0, <1>1, EmitIs
  <2>2. (Len(owner) + 1) + 1 .. Len(owner) + 1 = {}
    BY <1>0
  <2> QED BY <2>1, <2>2 DEF Glued
<1>2. ASSUME NEW p, Glued(p), p = o => how # "ok" PROVE Glued(p)'
  <2>1. PICK f \in torn : owner[f] = p /\ \A g \in f + 1 .. Len(owner) : g \in failed \/ owner[g] # p
    BY <1>2 DEF Glued
  <2>2. f \in 1 .. Len(owner)
    BY <1>0 DEF EventType
  <2>3. f \in torn' /\ owner'[f] = p
    BY <2>1, <2>2, EmitIs
  <2>4. \A g \in f + 1 .. Len(owner') : g \in failed' \/ owner'[g] # p
    <3> SUFFICES ASSUME NEW g \in f + 1 .. Len(owner) + 1 PROVE g \in failed' \/ owner'[g] # p
      BY EmitIs
    <3>1. CASE g = Len(owner) + 1
      BY <1>0, <1>2, <3>1, EmitIs
    <3>2. CASE g # Len(owner) + 1
      <4>1. g \in 1 .. Len(owner) /\ g \in f + 1 .. Len(owner)
        BY <1>0, <2>2, <3>2
      <4> QED BY <2>1, <4>1, EmitIs
    <3> QED BY <3>1, <3>2
  <2> QED BY <2>3, <2>4 DEF Glued
<1> QED BY <1>1, <1>2

------------------------------------------------------------------------------
(* One line more *)

LEMMA WriteType ==
  ASSUME NEW file \in File, NEW e \in Nat, NEW how \in How
  PROVE  /\ WriteLine(file, e, how) \in File
         /\ Len(WriteLine(file, e, how).lines) <= Len(file.lines) + 1
         /\ Len(WriteLine(file, e, how).lines) >= Len(file.lines)
         /\ how = "ok" => Len(WriteLine(file, e, how).lines) = Len(file.lines) + 1
         /\ how \in {"nothing", "made"} => WriteLine(file, e, how) = file
<1>0. file.lines \in Seq(Nat) /\ Garbage \in Nat
  BY DEF File, Garbage
<1>a. \A x \in Nat : /\ Append(file.lines, x) \in Seq(Nat)
                     /\ Len(Append(file.lines, x)) = Len(file.lines) + 1
  BY <1>0
<1> DEFINE W == WriteLine(file, e, how)
<1>b. ASSUME NEW x \in Nat, NEW open \in BOOLEAN, W = [lines |-> Append(file.lines, x), open |-> open]
      PROVE  /\ W \in File /\ Len(W.lines) = Len(file.lines) + 1 /\ Len(file.lines) \in Nat
  <2>1. W.lines = Append(file.lines, x)
    BY <1>b
  <2> QED BY <1>0, <1>a, <1>b, <2>1 DEF File
<1>1. CASE how = "ok"
  <2>1. W = [lines |-> Append(file.lines, IF file.open THEN Garbage ELSE e), open |-> FALSE]
    BY <1>1, Zenon DEF WriteLine
  <2>2. (IF file.open THEN Garbage ELSE e) \in Nat
    BY <1>0
  <2> HIDE DEF W
  <2>3. W \in File /\ Len(W.lines) = Len(file.lines) + 1 /\ Len(file.lines) \in Nat
    BY <1>b, <2>1, <2>2
  <2> QED BY <1>1, <2>3 DEF W
<1>2. CASE how = "torn"
  <2>1. W = [lines |-> Append(file.lines, Garbage), open |-> TRUE]
    BY <1>2 DEF WriteLine
  <2> HIDE DEF W
  <2>3. W \in File /\ Len(W.lines) = Len(file.lines) + 1 /\ Len(file.lines) \in Nat
    BY <1>0, <1>b, <2>1
  <2> QED BY <1>2, <2>3 DEF W
<1>3. CASE how \in {"nothing", "made"}
  <2>1. WriteLine(file, e, how) = file
    BY <1>3 DEF WriteLine
  <2> QED BY <1>0, <1>3, <2>1
<1> QED BY <1>1, <1>2, <1>3 DEF How

LEMMA LastIndex ==
  ASSUME NEW n \in Nat, NEW k \in 1 .. n + 1, k # n + 1
  PROVE  k \in 1 .. n
OBVIOUS

(* The file of the event's owner stays sound, however far the write got.    *)
LEMMA WriteSound ==
  ASSUME EventType, NEW o \in Run \cup {Global}, NEW how \in How, Emit(o, how),
         NEW file \in File, NEW from \in Nat, from <= Len(owner), FileSound(file, o, from),
         NEW e, e = event, NEW new, new = WriteLine(file, e, how)
  PROVE  FileSound(new, o, from)'
<1>0. /\ Len(owner) \in Nat /\ DOMAIN owner = 1 .. Len(owner) /\ e = Len(owner) + 1
      /\ file.lines \in Seq(Nat) /\ Len(file.lines) \in Nat
      /\ DOMAIN file.lines = 1 .. Len(file.lines) /\ Garbage = 0
  BY DEF EventType, event, File, Garbage
<1>n. Len(file.lines) \in Nat
  BY <1>0
<1> DEFINE put == IF how = "ok" /\ ~file.open THEN e ELSE Garbage
           grown == Append(file.lines, put)
<1>1. /\ grown \in Seq(Nat) /\ DOMAIN grown = 1 .. Len(file.lines) + 1
      /\ grown[Len(file.lines) + 1] = put
      /\ \A k \in 1 .. Len(file.lines) : grown[k] = file.lines[k]
  BY <1>0
<1>2. new.lines \in {file.lines, grown} /\ (how = "ok" => new.lines = grown)
  BY DEF WriteLine, How
<1>3. new.open => \/ how = "torn"
                  \/ how \in {"nothing", "made"} /\ file.open
  BY DEF WriteLine, How
<1> HIDE DEF grown
<1>4. InOrder(new.lines)
  <2>1. InOrder(grown)
    <3> SUFFICES ASSUME NEW i \in DOMAIN grown, NEW j \in DOMAIN grown, i < j,
                        grown[i] # Garbage, grown[j] # Garbage
                 PROVE  grown[i] < grown[j]
      BY DEF InOrder
    <3>0. i \in 1 .. Len(file.lines) + 1 /\ j \in 1 .. Len(file.lines) + 1
      BY <1>1
    <3>1. CASE j = Len(file.lines) + 1
      <4>1. i \in 1 .. Len(file.lines) /\ grown[i] = file.lines[i] /\ grown[j] = put
        <5>1. i # Len(file.lines) + 1
          BY <1>n, <3>0, <3>1
        <5>2. i \in 1 .. Len(file.lines)
          BY <1>n, <3>0, <5>1, LastIndex
        <5> HIDE DEF put
        <5> QED BY <1>1, <3>1, <5>2
      <4>2. file.lines[i] <= Len(owner) /\ file.lines[i] \in Nat /\ put = e
        BY <1>0, <4>1 DEF FileSound
      <4> QED BY <1>0, <4>1, <4>2
    <3>2. CASE j # Len(file.lines) + 1
      <4>1. i \in 1 .. Len(file.lines) /\ j \in 1 .. Len(file.lines)
        <5>1. i # Len(file.lines) + 1
          BY <1>n, <3>0
        <5> QED BY <1>n, <3>0, <3>2, <5>1, LastIndex
      <4> QED BY <1>0, <1>1, <4>1 DEF FileSound, InOrder
    <3> QED BY <3>1, <3>2
  <2> QED BY <1>2, <2>1 DEF FileSound
<1>5. \A k \in DOMAIN new.lines :
        new.lines[k] = Garbage \/ (from < new.lines[k] /\ new.lines[k] <= Len(owner'))
  <2>1. Len(owner') = Len(owner) + 1
    BY EmitIs
  <2>2. CASE new.lines = file.lines
    <3> SUFFICES ASSUME NEW k \in 1 .. Len(file.lines)
                 PROVE  file.lines[k] = Garbage \/ (from < file.lines[k] /\ file.lines[k] <= Len(owner'))
      BY <1>0, <2>2
    <3>1. file.lines[k] \in Nat
      BY <1>0
    <3> QED BY <1>0, <2>1, <3>1 DEF FileSound
  <2>3. CASE new.lines = grown
    <3> SUFFICES ASSUME NEW k \in 1 .. Len(file.lines) + 1
                 PROVE  grown[k] = Garbage \/ (from < grown[k] /\ grown[k] <= Len(owner'))
      BY <1>1, <2>3
    <3>1. CASE k = Len(file.lines) + 1
      BY <1>0, <1>1, <2>1, <3>1
    <3>2. CASE k # Len(file.lines) + 1
      <4> HIDE DEF put
      <4>0. k \in 1 .. Len(file.lines)
        BY <1>n, <3>2, LastIndex
      <4>1. k \in 1 .. Len(file.lines) /\ grown[k] = file.lines[k]
        BY <1>1, <4>0
      <4>2. file.lines[k] = Garbage \/ (from < file.lines[k] /\ file.lines[k] <= Len(owner))
        BY <1>0, <4>1 DEF FileSound
      <4>3. file.lines[k] \in Nat
        BY <1>0, <4>1, ElementOfSeq
      <4> QED BY <1>0, <2>1, <4>1, <4>2, <4>3
    <3> QED BY <3>1, <3>2
  <2> QED BY <1>2, <2>2, <2>3
<1>6. new.open => Glued(o)'
  BY <1>3, GluedStays DEF FileSound
<1>7. Readable(file.lines) \subseteq Readable(new.lines)
  <2>1. Elements(file.lines) \subseteq Elements(grown)
    <3>1. 1 .. Len(file.lines) \subseteq DOMAIN grown
      BY <1>0, <1>1
    <3> QED BY <1>0, <1>1, <3>1 DEF Elements
  <2> QED BY <1>2, <2>1 DEF Readable
<1>8. \A d \in Of(o)' : d > from => d \in Readable(new.lines) \/ Spoilt(d)'
  <2> SUFFICES ASSUME NEW d \in Of(o)', d > from
               PROVE  d \in Readable(new.lines) \/ Spoilt(d)'
    OBVIOUS
  <2>1. CASE d = e
    <3>1. CASE how # "ok"
      BY <2>1, <3>1, EmitIs DEF Spoilt
    <3>2. CASE how = "ok" /\ file.open
      BY <2>1, <3>2, GluedIsSpoilt DEF FileSound
    <3>3. CASE how = "ok" /\ ~file.open
      <4>1. new.lines = grown /\ grown[Len(file.lines) + 1] = e
        BY <1>1, <1>2, <3>3
      <4>2. e # Garbage
        BY <1>0
      <4>3. Len(file.lines) + 1 \in DOMAIN grown
        BY <1>n, <1>1
      <4>4. e \in Elements(new.lines)
        BY <4>1, <4>3 DEF Elements
      <4> QED BY <2>1, <4>2, <4>4 DEF Readable
    <3> QED BY <3>1, <3>2, <3>3
  <2>2. CASE d # e
    <3>1. d \in Of(o)
      BY <2>2, OfIs
    <3>2. d \in 1 .. Len(owner)
      BY <1>0, <3>1 DEF Of
    <3>3. d \in Readable(file.lines) \/ Spoilt(d)
      BY <3>1 DEF FileSound
    <3> QED BY <1>7, <3>2, <3>3, SpoiltStays
  <2> QED BY <2>1, <2>2
<1> QED BY <1>4, <1>5, <1>6, <1>8 DEF FileSound

(* So does everyone else's ...                                              *)
LEMMA OtherSound ==
  ASSUME EventType, NEW o \in Run \cup {Global}, NEW how \in How, Emit(o, how),
         NEW p, p # o, NEW file \in File, NEW from \in Nat, FileSound(file, p, from)
  PROVE  FileSound(file, p, from)'
<1>0. /\ Len(owner) \in Nat /\ DOMAIN owner = 1 .. Len(owner) /\ Len(owner') = Len(owner) + 1
      /\ file.lines \in Seq(Nat)
  <2>1. owner \in Seq(Run \cup {Global}) /\ file.lines \in Seq(Nat)
    BY DEF EventType, File
  <2>2. Len(owner) \in Nat /\ DOMAIN owner = 1 .. Len(owner)
    BY <2>1, LenProperties
  <2>3. Len(owner') = Len(owner) + 1
    BY EmitIs
  <2> QED BY <2>1, <2>2, <2>3
<1>1. \A k \in DOMAIN file.lines :
        file.lines[k] = Garbage \/ (from < file.lines[k] /\ file.lines[k] <= Len(owner'))
  <2> SUFFICES ASSUME NEW k \in DOMAIN file.lines
               PROVE  file.lines[k] = Garbage \/ (from < file.lines[k] /\ file.lines[k] <= Len(owner'))
    OBVIOUS
  <2>1. file.lines[k] \in Nat
    BY <1>0
  <2> QED BY <1>0, <2>1 DEF FileSound
<1>2. file.open => Glued(p)'
  BY GluedStays DEF FileSound
<1>3. \A e \in Of(p)' : e > from => e \in Readable(file.lines) \/ Spoilt(e)'
  <2> SUFFICES ASSUME NEW e \in Of(p)', e > from PROVE e \in Readable(file.lines) \/ Spoilt(e)'
    OBVIOUS
  <2>0. e \in Of(p)
    BY OfIs
  <2>1. e \in Of(p) /\ e \in 1 .. Len(owner)
    BY <1>0, <2>0 DEF Of
  <2> QED BY <2>1, SpoiltStays DEF FileSound
<1> QED BY <1>1, <1>2, <1>3 DEF FileSound

(* ... and a file that starts again has nothing to account for.             *)
LEMMA EmptySound ==
  ASSUME EventType, NEW o \in Run \cup {Global}
  PROVE  Empty \in File /\ FileSound(Empty, o, Len(owner))
BY DEF Empty, FileSound, InOrder, File, Of, EventType


------------------------------------------------------------------------------
(* The global log *)

LogType ==
  /\ previous \in File /\ current \in File
  /\ _global_size \in Nat \cup {Unknown}
  /\ blind \in Nat /\ slips \in Nat /\ blind + slips <= MaxFaults

ReaderType ==
  reader \in [step : {"idle", "half", "list"}, tail : Seq(Nat), rotated : BOOLEAN,
              left : SUBSET Run, shown : SUBSET Run, stayed : SUBSET Run]

LaterEvents(e) == { f \in Of(Global) : f > e }

(* The previous generation ends, and the current one begins, with event b.  *)
(* Every line of the latter came from an event of its own, so that a full   *)
(* one stands for enough events to forget the generation before.            *)
PreviousSound(b) ==
  /\ InOrder(previous.lines)
  /\ \A k \in DOMAIN previous.lines : previous.lines[k] <= b
  /\ \A e \in Of(Global) : e <= b =>
       \/ e \in Readable(previous.lines)
       \/ Spoilt(e)
       \/ /\ \A k \in Readable(previous.lines) : k > e
          /\ Cardinality(LaterEvents(e)) > max_bytes

CurrentSound(b) ==
  /\ FileSound(current, Global, b)
  /\ Len(current.lines) <= Cardinality(LaterEvents(b))

(* What a read has seen is the previous generation, or was once.            *)
ReadSound(b) ==
  reader.step = "half" =>
    /\ InOrder(reader.tail)
    /\ \A k \in DOMAIN reader.tail : reader.tail[k] <= b
    /\ ~reader.rotated => reader.tail = previous.lines

LogSound(b) == PreviousSound(b) /\ CurrentSound(b) /\ ReadSound(b)

(* The count is at most the size, and short of it by no more than failed    *)
(* stats and failed writes explain.                                         *)
SizeSound ==
  /\ PairBounded
  /\ _global_size # Unknown =>
       /\ _global_size <= Len(current.lines)
       /\ Len(current.lines) <= _global_size + max_bytes * blind + slips

LogInv == LogType /\ SizeSound /\ \E b \in 0 .. Len(owner) : LogSound(b)

LEMMA LaterFinite ==
  ASSUME EventType, NEW e \in Nat
  PROVE  IsFiniteSet(LaterEvents(e)) /\ Cardinality(LaterEvents(e)) \in Nat
<1>1. LaterEvents(e) \subseteq 1 .. Len(owner) /\ Len(owner) \in Nat
  BY DEF LaterEvents, Of, EventType
<1>2. IsFiniteSet(1 .. Len(owner))
  BY <1>1, FS_Interval
<1> QED BY <1>1, <1>2, FS_Subset, FS_CardinalityType

LEMMA LaterIs ==
  ASSUME EventType, NEW o \in Run \cup {Global}, NEW how \in How, Emit(o, how),
         NEW e \in 0 .. Len(owner)
  PROVE  /\ Cardinality(LaterEvents(e))' = Cardinality(LaterEvents(e)) + IF o = Global THEN 1 ELSE 0
         /\ Cardinality(LaterEvents(e)) \in Nat
<1>0. Len(owner) \in Nat /\ event = Len(owner) + 1 /\ Global \in Run \cup {Global}
  BY DEF EventType, event
<1>1. IsFiniteSet(LaterEvents(e)) /\ Cardinality(LaterEvents(e)) \in Nat
  BY <1>0, LaterFinite
<1>2. CASE o = Global
  <2>1. LaterEvents(e)' = LaterEvents(e) \cup {event} /\ event \notin LaterEvents(e)
    BY <1>0, <1>2, OfIs DEF LaterEvents
  <2>2. Cardinality(LaterEvents(e) \cup {event}) = Cardinality(LaterEvents(e)) + 1
    BY <1>1, <2>1, FS_AddElement
  <2> QED BY <1>1, <1>2, <2>1, <2>2
<1>3. CASE o # Global
  <2>1. LaterEvents(e)' = LaterEvents(e)
    BY <1>3, OfIs DEF LaterEvents
  <2> QED BY <1>1, <1>3, <2>1
<1> QED BY <1>2, <1>3

(* An event of a run leaves the global log alone.                           *)
LEMMA RunEventLog ==
  ASSUME EventType, LogType, NEW o \in Run, NEW how \in How, Emit(o, how),
         previous' = previous, current' = current,
         reader'.step = reader.step, reader'.tail = reader.tail, reader'.rotated = reader.rotated,
         NEW b \in 0 .. Len(owner), LogSound(b)
  PROVE  LogSound(b)' /\ b \in 0 .. Len(owner')
<1>0. /\ Len(owner) \in Nat /\ DOMAIN owner = 1 .. Len(owner) /\ Len(owner') = Len(owner) + 1
      /\ o \in Run \cup {Global} /\ Global # o /\ b \in Nat
  BY EmitIs DEF EventType, Run, Global
<1>1. Of(Global)' = Of(Global) /\ Of(Global) \subseteq 1 .. Len(owner)
  BY <1>0, OfIs DEF Of
<1>2. \A e \in 1 .. Len(owner) : Cardinality(LaterEvents(e))' = Cardinality(LaterEvents(e))
  <2> SUFFICES ASSUME NEW e \in 1 .. Len(owner)
               PROVE  Cardinality(LaterEvents(e))' = Cardinality(LaterEvents(e))
    OBVIOUS
  <2>1. e \in 0 .. Len(owner)
    BY <1>0
  <2> QED BY <1>0, <2>1, LaterIs
<1>3. PreviousSound(b)'
  <2>1. \A e \in Of(Global) : Spoilt(e) => Spoilt(e)'
    BY <1>0, <1>1, SpoiltStays
  <2>2. \A e \in Of(Global) : e <= b =>
          \/ e \in Readable(previous.lines)
          \/ Spoilt(e)'
          \/ /\ \A k \in Readable(previous.lines) : k > e
             /\ Cardinality(LaterEvents(e))' > max_bytes
    BY <1>1, <1>2, <2>1 DEF LogSound, PreviousSound
  <2> QED BY <1>1, <2>2 DEF LogSound, PreviousSound
<1>4. CurrentSound(b)'
  <2>1. FileSound(current, Global, b)'
    <3>1. current \in File /\ FileSound(current, Global, b)
      BY DEF LogType, LogSound, CurrentSound
    <3> QED BY <1>0, <3>1, OtherSound DEF FileSound
  <2>2. Cardinality(LaterEvents(b))' = Cardinality(LaterEvents(b))
    BY <1>0, LaterIs
  <2> QED BY <2>1, <2>2 DEF LogSound, CurrentSound
<1>5. ReadSound(b)'
  BY DEF LogSound, ReadSound
<1> QED BY <1>0, <1>3, <1>4, <1>5 DEF LogSound

(* What an append to the global log comes to: from the size it goes by, and *)
(* from whether it rotates.                                                 *)
Appends(how, stat, size, moved) ==
  /\ Emit(Global, how)
  /\ size = IF _global_size # Unknown THEN _global_size ELSE IF stat THEN Len(current.lines) ELSE 0
  /\ _global_size # Unknown => stat
  /\ moved => size >= max_bytes
  /\ slips' = slips + Failures(how) + IF size >= max_bytes /\ ~moved THEN 1 ELSE 0
  /\ blind' = blind + IF stat THEN 0 ELSE 1
  /\ slips' + blind' <= MaxFaults
  /\ previous' = IF moved THEN current ELSE previous
  /\ current' = WriteLine(IF moved THEN Empty ELSE current, event, how)
  /\ _global_size' = (IF moved THEN 0 ELSE size) + 1 - Failures(how)
  /\ reader' = [reader EXCEPT !.rotated = @ \/ moved]

LEMMA AppendIs ==
  ASSUME LogType, NEW how \in How, NEW stat \in BOOLEAN, NEW rename \in BOOLEAN,
         AppendGlobal(how, stat, rename)
  PROVE  \E size \in Nat, moved \in BOOLEAN : Appends(how, stat, size, moved)
<1> DEFINE size == IF _global_size # Unknown THEN _global_size
                   ELSE IF stat THEN Len(current.lines) ELSE 0
           moved == size >= max_bytes /\ rename
<1>1. size \in Nat
  BY DEF LogType, File, Unknown
<1>2. slips \in Nat /\ Failures(how) \in {0, 1}
  BY DEF LogType, Failures
<1>3. Appends(how, stat, size, moved)
  <2>1. /\ Emit(Global, how)
        /\ stat \/ _global_size = Unknown
        /\ rename \/ size >= max_bytes
        /\ Slip(Failures(how) + IF rename THEN 0 ELSE 1, IF stat THEN 0 ELSE 1)
        /\ previous' = IF moved THEN current ELSE previous
        /\ current' = WriteLine(IF moved THEN Empty ELSE current, event, how)
        /\ _global_size' = SizeAfter(size, moved) + 1 - Failures(how)
        /\ reader' = [reader EXCEPT !.rotated = @ \/ moved]
    BY DEF AppendGlobal
  <2>2. (IF size >= max_bytes /\ ~moved THEN 1 ELSE 0) = IF rename THEN 0 ELSE 1
    BY <2>1
  <2>3. slips' = slips + Failures(how) + IF rename THEN 0 ELSE 1
    BY <1>2, <2>1 DEF Slip
  <2>4. blind' = blind + (IF stat THEN 0 ELSE 1) /\ slips' + blind' <= MaxFaults
    BY <2>1 DEF Slip
  <2> HIDE DEF size
  <2> QED BY <2>1, <2>2, <2>3, <2>4 DEF Appends, SizeAfter, size
<1>4. moved \in BOOLEAN
  OBVIOUS
<1> HIDE DEF size, moved
<1> QED BY <1>1, <1>3, <1>4

LEMMA EmptyType == Empty \in File /\ Empty.lines = <<>> /\ Len(Empty.lines) = 0
BY DEF Empty, File

LEMMA AppendType ==
  ASSUME EventType, LogType, ReaderType, NEW how \in How, NEW stat \in BOOLEAN,
         NEW size \in Nat, NEW moved \in BOOLEAN, Appends(how, stat, size, moved)
  PROVE  LogType' /\ ReaderType' /\ _global_size' # Unknown
<1>1. event \in Nat /\ Failures(how) \in {0, 1} /\ (IF moved THEN Empty ELSE current) \in File
  BY EmptyType DEF event, Failures, EventType, LogType
<1>2. current' \in File /\ previous' \in File
  BY <1>1, WriteType DEF Appends, LogType
<1>3. _global_size' \in Nat
  BY <1>1 DEF Appends
<1>4. slips' \in Nat /\ blind' \in Nat /\ blind' + slips' <= MaxFaults
  <2>1. /\ slips' = slips + Failures(how) + IF size >= max_bytes /\ ~moved THEN 1 ELSE 0
        /\ blind' = blind + IF stat THEN 0 ELSE 1
        /\ slips' + blind' <= MaxFaults
    BY DEF Appends
  <2>2. slips \in Nat /\ blind \in Nat
    BY DEF LogType
  <2>3. slips' \in Nat /\ blind' \in Nat
    BY <1>1, <2>1, <2>2
  <2> QED BY <2>1, <2>3
<1>5. ReaderType'
  BY DEF Appends, ReaderType
<1> QED BY <1>2, <1>3, <1>4, <1>5 DEF LogType, Unknown

LEMMA Product ==
  ASSUME NEW m \in Nat, NEW b \in Nat
  PROVE  m * b \in Nat /\ m * (b + 1) = m * b + m /\ m * (1 + b) = m * b + m
OBVIOUS

(* The count and the two sizes.                                             *)
LEMMA AppendSize ==
  ASSUME EventType, LogType, SizeSound, NEW how \in How, NEW stat \in BOOLEAN,
         NEW size \in Nat, NEW moved \in BOOLEAN, Appends(how, stat, size, moved),
         LogType', _global_size' # Unknown
  PROVE  SizeSound'
<1> DEFINE base == IF moved THEN Empty ELSE current
           start == IF moved THEN 0 ELSE size
           F == Failures(how)
           L == Len(base.lines)
           new == Len(current'.lines)
           P == max_bytes * blind
           slack == P + slips
           missed == (IF stat THEN 0 ELSE max_bytes) + F + IF size >= max_bytes /\ ~moved THEN 1 ELSE 0
           slack2 == slack + missed
<1>0. /\ max_bytes \in Nat \ {0} /\ blind \in Nat /\ slips \in Nat /\ blind' \in Nat /\ slips' \in Nat
      /\ F \in {0, 1} /\ start \in Nat /\ Len(current.lines) \in Nat /\ Len(previous.lines) \in Nat
      /\ base \in File /\ event \in Nat
  <2>1. /\ max_bytes \in Nat \ {0} /\ blind \in Nat /\ slips \in Nat
        /\ blind' \in Nat /\ slips' \in Nat
    BY HistoryAssumption DEF LogType
  <2>2. current \in File /\ previous \in File
    BY DEF LogType
  <2>3. Len(current.lines) \in Nat /\ Len(previous.lines) \in Nat
    BY <2>2 DEF File
  <2>4. F \in {0, 1} /\ start \in Nat /\ base \in File
    BY <2>2, EmptyType DEF Failures
  <2>5. event \in Nat
    BY DEF event, EventType
  <2> QED BY <2>1, <2>3, <2>4, <2>5
<1>1. L \in Nat /\ (moved => L = 0) /\ (~moved => L = Len(current.lines))
  BY <1>0, EmptyType
<1>2. new \in Nat /\ new <= L + 1 /\ new >= L /\ (F = 0 => new = L + 1)
  <2>1. current' = WriteLine(base, event, how)
    BY DEF Appends
  <2>2. current' \in File
    BY DEF LogType
  <2>3. F = 0 <=> how = "ok"
    BY DEF Failures
  <2>4. Len(current'.lines) \in Nat
    BY <2>2 DEF File
  <2> HIDE DEF base, F
  <2> QED BY <1>0, <1>1, <2>1, <2>3, <2>4, WriteType
<1>p. /\ P \in Nat /\ max_bytes * blind' = P + IF stat THEN 0 ELSE max_bytes
      /\ max_bytes * (1 + blind) = P + max_bytes
      /\ max_bytes * (1 + blind') = P + max_bytes + IF stat THEN 0 ELSE max_bytes
  <2>1. CASE stat
    <3>1. blind' = blind
      BY <1>0, <2>1 DEF Appends
    <3> QED BY <1>0, <2>1, <3>1, Product
  <2>2. CASE ~stat
    <3>1. blind' = blind + 1
      BY <2>2 DEF Appends
    <3>2. max_bytes * (blind + 1) = P + max_bytes /\ P \in Nat
      BY <1>0, Product
    <3>3. max_bytes * (1 + blind') = max_bytes * blind' + max_bytes /\ max_bytes * (1 + blind) = P + max_bytes
      BY <1>0, Product
    <3> QED BY <1>0, <2>2, <3>1, <3>2, <3>3
  <2> QED BY <2>1, <2>2
<1>s. slips' = slips + F + IF size >= max_bytes /\ ~moved THEN 1 ELSE 0
  BY DEF Appends
<1>q. /\ PairBounded <=> \A file \in {previous, current} : Len(file.lines) <= P + max_bytes + slips
      /\ PairBounded' <=> \A file \in {previous', current'} :
            Len(file.lines) <= P + max_bytes + (IF stat THEN 0 ELSE max_bytes) + slips'
      /\ _global_size # Unknown => /\ _global_size <= Len(current.lines)
                                   /\ Len(current.lines) <= _global_size + P + slips
      /\ SizeSound' <=> /\ PairBounded' /\ _global_size' <= Len(current'.lines)
                        /\ Len(current'.lines) <= _global_size' + (P + IF stat THEN 0 ELSE max_bytes) + slips'
  BY <1>p DEF PairBounded, SizeSound
<1>r. P \in Nat
  BY <1>p
<1> HIDE DEF P
<1>3. slack \in Nat /\ slack2 \in Nat /\ missed \in Nat
  BY <1>0, <1>r
<1>4. slack2 >= slack + F + (IF stat THEN 0 ELSE max_bytes) + IF size >= max_bytes /\ ~moved THEN 1 ELSE 0
  <2> HIDE DEF F
  <2> QED BY <1>0, <1>r
<1>5. Len(current.lines) <= max_bytes + slack /\ Len(previous.lines) <= max_bytes + slack
  BY <1>0, <1>r, <1>q DEF SizeSound
<1>6. _global_size' = start + 1 - F
  BY DEF Appends
<1>7. start <= L /\ L <= start + slack + IF stat THEN 0 ELSE max_bytes
  <2>1. CASE moved
    BY <1>0, <1>1, <1>3, <2>1
  <2>2. CASE ~moved
    <3>1. CASE _global_size # Unknown
      <4>1. size = _global_size /\ stat
        BY <3>1 DEF Appends
      <4>2. size <= Len(current.lines) /\ Len(current.lines) <= size + slack
        BY <1>0, <1>r, <1>q, <3>1, <4>1
      <4> HIDE DEF slack, L
      <4> QED BY <1>0, <1>1, <1>3, <2>2, <4>1, <4>2
    <3>2. CASE _global_size = Unknown /\ stat
      <4>1. size = Len(current.lines)
        BY <3>2 DEF Appends
      <4> HIDE DEF slack, L
      <4> QED BY <1>0, <1>1, <1>3, <2>2, <3>2, <4>1
    <3>3. CASE _global_size = Unknown /\ ~stat
      <4>1. size = 0
        BY <3>3 DEF Appends
      <4> HIDE DEF slack, L
      <4> QED BY <1>0, <1>1, <1>3, <1>5, <2>2, <3>3, <4>1
    <3> QED BY <3>1, <3>2, <3>3
  <2> QED BY <2>1, <2>2
<1>8. moved => size >= max_bytes
  BY DEF Appends
<1>9. Len(previous'.lines) <= max_bytes + slack
  BY <1>5 DEF Appends
<1>10. ~moved => start = size
  OBVIOUS
<1>11. moved => start = 0
  OBVIOUS
<1>13. SizeSound' <=> /\ Len(previous'.lines) <= max_bytes + slack2 /\ new <= max_bytes + slack2
                     /\ _global_size' <= new /\ new <= _global_size' + slack2
  <2>1. _global_size' \in Int /\ Len(previous'.lines) \in Nat
    BY <1>0, <1>6 DEF LogType, File
  <2> HIDE DEF F
  <2>2. P + max_bytes + (IF stat THEN 0 ELSE max_bytes) + slips' = max_bytes + slack2
    BY <1>0, <1>r, <1>s
  <2>3. _global_size' + (P + IF stat THEN 0 ELSE max_bytes) + slips' = _global_size' + slack2
    <3> DEFINE full == IF size >= max_bytes /\ ~moved THEN 1 ELSE 0
               blinded == IF stat THEN 0 ELSE max_bytes
    <3>1. full \in Nat /\ blinded \in Nat /\ F \in Nat /\ slips \in Nat
      BY <1>0
    <3>2. slips' = slips + F + full /\ slack2 = (P + slips) + (blinded + F + full)
      BY <1>s
    <3> HIDE DEF full, blinded, slack2
    <3>3. _global_size' + (P + blinded) + slips' = _global_size' + slack2
      BY <1>r, <2>1, <3>1, <3>2
    <3> QED BY <3>3 DEF blinded
  <2> HIDE DEF slack2
  <2>4. PairBounded' <=> Len(previous'.lines) <= max_bytes + slack2 /\ new <= max_bytes + slack2
    BY <1>q, <2>2
  <2> QED BY <1>q, <2>3, <2>4
<1> HIDE DEF slack, missed, slack2, L, new, F, start
<1>14. new <= max_bytes + slack2
  <2>1. CASE size >= max_bytes /\ ~moved
    BY <1>0, <1>1, <1>2, <1>3, <1>4, <1>5, <2>1
  <2>2. CASE size < max_bytes \/ moved
    BY <1>0, <1>1, <1>2, <1>3, <1>4, <1>7, <1>10, <1>11, <2>2
  <2> QED BY <1>0, <2>1, <2>2
<1>15. _global_size' <= new /\ new <= _global_size' + slack2
  BY <1>0, <1>1, <1>2, <1>3, <1>4, <1>6, <1>7
<1>16. Len(previous'.lines) <= max_bytes + slack2
  <2>1. Len(previous'.lines) \in Nat
    BY DEF LogType, File
  <2> QED BY <1>0, <1>3, <1>4, <1>9, <2>1
<1> QED BY <1>13, <1>14, <1>15, <1>16

(* Without a rotation, the current generation gets a line at most.          *)
LEMMA AppendStays ==
  ASSUME EventType, LogType, ReaderType, NEW how \in How, NEW stat \in BOOLEAN,
         NEW size \in Nat, Appends(how, stat, size, FALSE),
         NEW b \in 0 .. Len(owner), LogSound(b)
  PROVE  LogSound(b)' /\ b \in 0 .. Len(owner')
<1>0. /\ Len(owner) \in Nat /\ Global \in Run \cup {Global} /\ Emit(Global, how)
      /\ event = Len(owner) + 1 /\ event \in Nat /\ b \in Nat /\ b <= Len(owner)
      /\ previous' = previous /\ current' = WriteLine(current, event, how)
  BY DEF Appends, event, EventType
<1>1. Len(owner') = Len(owner) + 1
  BY <1>0, EmitIs
<1>2. Of(Global)' = Of(Global) \cup {event} /\ Of(Global) \subseteq 1 .. Len(owner)
  BY <1>0, OfIs DEF Of, EventType
<1>3. \A e \in 0 .. Len(owner) : /\ Cardinality(LaterEvents(e))' = Cardinality(LaterEvents(e)) + 1
                                 /\ Cardinality(LaterEvents(e)) \in Nat
  BY <1>0, LaterIs
<1>4. PreviousSound(b)'
  <2>1. \A e \in Of(Global) : Spoilt(e) => Spoilt(e)'
    BY <1>0, <1>2, SpoiltStays
  <2>2. \A e \in Of(Global) : Cardinality(LaterEvents(e)) > max_bytes
                                => Cardinality(LaterEvents(e))' > max_bytes
    <3> SUFFICES ASSUME NEW e \in Of(Global), Cardinality(LaterEvents(e)) > max_bytes
                 PROVE  Cardinality(LaterEvents(e))' > max_bytes
      OBVIOUS
    <3>1. e \in 0 .. Len(owner)
      BY <1>0, <1>2
    <3> QED BY <1>3, <3>1, HistoryAssumption
  <2>3. \A e \in Of(Global) : e <= b =>
          \/ e \in Readable(previous.lines)
          \/ Spoilt(e)'
          \/ /\ \A k \in Readable(previous.lines) : k > e
             /\ Cardinality(LaterEvents(e))' > max_bytes
    BY <2>1, <2>2 DEF LogSound, PreviousSound
  <2>4. ~(event <= b)
    BY <1>0
  <2> QED BY <1>0, <1>2, <2>3, <2>4 DEF LogSound, PreviousSound
<1>5. FileSound(current, Global, b)'
  <2>1. current \in File /\ FileSound(current, Global, b)
    BY DEF LogType, LogSound, CurrentSound
  <2> QED BY <1>0, <2>1, WriteSound DEF FileSound
<1>6. Len(current'.lines) <= Cardinality(LaterEvents(b))'
  <2>1. Len(current'.lines) <= Len(current.lines) + 1
    BY <1>0, WriteType DEF LogType
  <2>2. current' \in File /\ current \in File
    BY <1>0, WriteType DEF LogType
  <2>3. Len(current'.lines) \in Nat /\ Len(current.lines) \in Nat
    BY <2>2 DEF File
  <2> QED BY <1>3, <2>1, <2>3 DEF LogSound, CurrentSound
<1>7. ReadSound(b)'
  <2>1. /\ reader'.step = reader.step /\ reader'.tail = reader.tail
        /\ reader'.rotated = reader.rotated
    BY DEF Appends, ReaderType
  <2> QED BY <1>0, <2>1 DEF LogSound, ReadSound
<1> QED BY <1>0, <1>1, <1>4, <1>5, <1>6, <1>7 DEF LogSound, CurrentSound

(* With one, the current generation becomes the previous one.  It was full, *)
(* so that enough events are behind those which are forgotten.              *)
LEMMA AppendRotates ==
  ASSUME EventType, LogType, ReaderType, NEW how \in How, NEW stat \in BOOLEAN,
         NEW size \in Nat, Appends(how, stat, size, TRUE), Len(current.lines) >= max_bytes,
         NEW b \in 0 .. Len(owner), LogSound(b), NEW c, c = Len(owner)
  PROVE  LogSound(c)' /\ c \in 0 .. Len(owner')
<1>0. /\ c \in Nat /\ Global \in Run \cup {Global} /\ Emit(Global, how)
      /\ event = c + 1 /\ event \in Nat /\ b \in Nat /\ b <= c
      /\ previous' = current /\ current' = WriteLine(Empty, event, how)
      /\ current \in File
  BY DEF Appends, event, EventType, LogType
<1>1. Len(owner') = c + 1
  BY <1>0, EmitIs
<1>2. /\ Of(Global)' = Of(Global) \cup {event} /\ Of(Global) \subseteq 1 .. c
      /\ DOMAIN current.lines = 1 .. Len(current.lines) /\ current.lines \in Seq(Nat)
  <2>1. Of(Global)' = Of(Global) \cup {event}
    BY <1>0, OfIs
  <2>2. Of(Global) \subseteq 1 .. c
    BY <1>0 DEF Of, EventType
  <2> QED BY <1>0, <2>1, <2>2 DEF File
<1>3. \A e \in 0 .. c : /\ Cardinality(LaterEvents(e))' = Cardinality(LaterEvents(e)) + 1
                        /\ Cardinality(LaterEvents(e)) \in Nat
  BY <1>0, LaterIs
<1>4. \A k \in Readable(current.lines) : k > b /\ k <= c
  BY <1>0, <1>2 DEF LogSound, CurrentSound, FileSound, Readable, Elements
<1>5. PreviousSound(c)'
  <2>1. InOrder(current.lines)
    BY DEF LogSound, CurrentSound, FileSound
  <2>2. \A k \in DOMAIN current.lines : current.lines[k] <= c
    BY <1>0, <1>2 DEF LogSound, CurrentSound, FileSound, Garbage
  <2>3. ASSUME NEW e \in Of(Global)'
        PROVE  e <= c => \/ e \in Readable(current.lines)
                         \/ Spoilt(e)'
                         \/ /\ \A k \in Readable(current.lines) : k > e
                            /\ Cardinality(LaterEvents(e))' > max_bytes
    <3> SUFFICES ASSUME e <= c, e \notin Readable(current.lines), ~Spoilt(e)'
                 PROVE  /\ \A k \in Readable(current.lines) : k > e
                        /\ Cardinality(LaterEvents(e))' > max_bytes
      OBVIOUS
    <3>1. e \in Of(Global) /\ e \in 1 .. c
      BY <1>0, <1>2
    <3>2. ~Spoilt(e)
      BY <1>0, <3>1, SpoiltStays
    <3>3. e <= b
      BY <1>0, <3>1, <3>2 DEF LogSound, CurrentSound, FileSound
    <3>4. \A k \in Readable(current.lines) : k > e
      <4> SUFFICES ASSUME NEW k \in Readable(current.lines) PROVE k > e
        OBVIOUS
      <4>1. k \in Nat
        BY <1>2 DEF Readable, Elements
      <4> QED BY <1>0, <1>4, <3>1, <3>3, <4>1
    <3>5. LaterEvents(b) \subseteq LaterEvents(e)
      <4>1. LaterEvents(b) \subseteq 1 .. c
        BY <1>2 DEF LaterEvents
      <4> QED BY <1>0, <3>1, <3>3, <4>1 DEF LaterEvents
    <3>6. Cardinality(LaterEvents(b)) <= Cardinality(LaterEvents(e))
      BY <1>0, <3>1, <3>5, LaterFinite, FS_Subset
    <3>7. /\ Cardinality(LaterEvents(e))' = Cardinality(LaterEvents(e)) + 1
          /\ Cardinality(LaterEvents(e)) \in Nat /\ Cardinality(LaterEvents(b)) \in Nat
      BY <1>0, <1>3, <3>1
    <3>8. max_bytes <= Cardinality(LaterEvents(b))
      <4>1. Len(current.lines) <= Cardinality(LaterEvents(b)) /\ Len(current.lines) \in Nat
        BY <1>2 DEF LogSound, CurrentSound
      <4> QED BY <3>7, <4>1, HistoryAssumption
    <3> QED BY <3>4, <3>6, <3>7, <3>8, HistoryAssumption
  <2> QED BY <1>0, <2>1, <2>2, <2>3 DEF PreviousSound
<1>6. FileSound(current, Global, c)'
  <2>1. Empty \in File /\ FileSound(Empty, Global, c) /\ c <= Len(owner)
    BY <1>0, EmptySound
  <2> QED BY <1>0, <2>1, WriteSound DEF FileSound
<1>7. Len(current'.lines) <= Cardinality(LaterEvents(c))'
  <2>1. Len(current'.lines) <= 0 + 1 /\ current' \in File
    BY <1>0, EmptyType, WriteType
  <2>2. c \in 0 .. c /\ Len(current'.lines) \in Nat
    BY <1>0, <2>1 DEF File
  <2> QED BY <1>3, <2>1, <2>2
<1>8. ReadSound(c)'
  <2>1. /\ reader'.step = reader.step /\ reader'.tail = reader.tail /\ reader'.rotated
    BY DEF Appends, ReaderType
  <2>2. reader.tail \in Seq(Nat)
    BY DEF ReaderType
  <2>3. ASSUME reader.step = "half", NEW k \in DOMAIN reader.tail PROVE reader.tail[k] <= c
    <3>1. reader.tail[k] <= b /\ reader.tail[k] \in Nat
      BY <2>2, <2>3 DEF LogSound, ReadSound
    <3> QED BY <1>0, <3>1
  <2> QED BY <2>1, <2>3 DEF LogSound, ReadSound
<1> QED BY <1>0, <1>1, <1>5, <1>6, <1>7, <1>8 DEF LogSound, CurrentSound

LEMMA AppendStep ==
  ASSUME EventType, LogInv, ReaderType, NEW how \in How, NEW stat \in BOOLEAN, NEW rename \in BOOLEAN,
         AppendGlobal(how, stat, rename)
  PROVE  LogInv' /\ ReaderType' /\ EventType'
<1>0. LogType /\ SizeSound
  BY DEF LogInv
<1>1. PICK size \in Nat, moved \in BOOLEAN : Appends(how, stat, size, moved)
  BY <1>0, AppendIs
<1>2. LogType' /\ ReaderType' /\ _global_size' # Unknown
  BY <1>0, <1>1, AppendType
<1>3. SizeSound'
  BY <1>0, <1>1, <1>2, AppendSize
<1>4. PICK b \in 0 .. Len(owner) : LogSound(b)
  BY DEF LogInv
<1>5. EventType'
  <2>1. Global \in Run \cup {Global} /\ Emit(Global, how)
    BY <1>1 DEF Appends
  <2> QED BY <2>1, EmitIs
<1>6. \E c \in 0 .. Len(owner') : LogSound(c)'
  <2>1. CASE moved
    <3>1. Len(current.lines) >= max_bytes
      <4>1. size <= Len(current.lines) /\ size >= max_bytes /\ Len(current.lines) \in Nat
        <5>1. max_bytes > 0 /\ max_bytes \in Nat /\ Len(current.lines) \in Nat
          BY <1>0, HistoryAssumption DEF LogType, File
        <5>2. size >= max_bytes
          BY <1>1, <2>1 DEF Appends
        <5>3. size \in {_global_size, Len(current.lines), 0} /\ (size = _global_size => _global_size # Unknown)
          BY <1>1 DEF Appends, Unknown
        <5> QED BY <1>0, <5>1, <5>2, <5>3 DEF SizeSound
      <4> QED BY <4>1, HistoryAssumption
    <3> DEFINE c == Len(owner)
    <3>2. Appends(how, stat, size, TRUE)
      BY <1>1, <2>1
    <3>3. \A n : n = c => LogSound(n)' /\ n \in 0 .. Len(owner')
      BY <1>0, <1>4, <3>1, <3>2, AppendRotates
    <3> QED BY <3>3
  <2>2. CASE ~moved
    <3>2. Appends(how, stat, size, FALSE)
      BY <1>1, <2>2
    <3> QED BY <1>0, <1>4, <3>2, AppendStays
  <2> QED BY <2>1, <2>2
<1> QED BY <1>2, <1>3, <1>5, <1>6 DEF LogInv

------------------------------------------------------------------------------
(* The directories and their modification times *)

Times == UNION { [S -> SUBSET Run] : S \in SUBSET Run }

DiskType(d) ==
  d \in [dirs : SUBSET Run, after : Times,
         events : [Run -> File], manifest : [Run -> {"none", "running", "ended"}],
         until : [Run -> Nat]]

(* The times are a total order of all runs that ever had a directory, and   *)
(* only those are without one that enough others were modified after.       *)
Dated(d) ==
  /\ d.dirs \subseteq DOMAIN d.after
  /\ \A a \in DOMAIN d.after : d.after[a] \subseteq DOMAIN d.after \ {a}
  /\ \A a, b \in DOMAIN d.after : a # b => a \in d.after[b] \/ b \in d.after[a]
  /\ \A a, b \in DOMAIN d.after : b \in d.after[a] => d.after[b] \subseteq d.after[a]
  /\ \A a \in DOMAIN d.after \ d.dirs : Cardinality(d.after[a]) >= keep

LEMMA KeepType == keep \in Nat \ {0}
BY HistoryAssumption DEF keep

LEMMA RunsFinite ==
  ASSUME NEW S \in SUBSET Run
  PROVE  IsFiniteSet(S) /\ Cardinality(S) \in Nat
<1>1. IsFiniteSet(Run)
  BY FS_Interval, HistoryAssumption DEF Run
<1> QED BY <1>1, FS_Subset, FS_CardinalityType

LEMMA MoreRuns ==
  ASSUME NEW S \in SUBSET Run, NEW T \in SUBSET S
  PROVE  Cardinality(T) <= Cardinality(S)
BY RunsFinite, FS_Subset

LEMMA DiskFields ==
  ASSUME NEW d, DiskType(d)
  PROVE  /\ d.dirs \subseteq Run /\ DOMAIN d.after \subseteq Run
         /\ \A a \in DOMAIN d.after : d.after[a] \subseteq Run
         /\ d.events \in [Run -> File] /\ d.until \in [Run -> Nat]
         /\ d.manifest \in [Run -> {"none", "running", "ended"}]
BY DEF DiskType, Times

LEMMA TouchIs ==
  ASSUME NEW d, DiskType(d), NEW r \in Run
  PROVE  LET t == Touch(d, r)
         IN  /\ DiskType(t)
             /\ t.dirs = d.dirs \cup {r} /\ DOMAIN t.after = DOMAIN d.after \cup {r}
             /\ t.after[r] = {}
             /\ \A o \in DOMAIN d.after : o # r => t.after[o] = d.after[o] \cup {r}
             /\ t.events = d.events /\ t.manifest = d.manifest /\ t.until = d.until
<1> DEFINE A == [o \in DOMAIN d.after \cup {r} |-> IF o = r THEN {} ELSE d.after[o] \cup {r}]
<1>1. Touch(d, r) = [d EXCEPT !.dirs = d.dirs \cup {r}, !.after = A]
  BY DEF Touch, DiskType
<1>2. DOMAIN A = DOMAIN d.after \cup {r} /\ A[r] = {}
  OBVIOUS
<1>3. \A o \in DOMAIN d.after : o # r => A[o] = d.after[o] \cup {r}
  OBVIOUS
<1>4. A \in Times
  <2>1. DOMAIN A \in SUBSET Run
    BY DiskFields
  <2>2. \A o \in DOMAIN A : A[o] \in SUBSET Run
    BY DiskFields
  <2>3. A \in [DOMAIN A -> SUBSET Run]
    BY <2>2
  <2> HIDE DEF A
  <2> QED BY <2>1, <2>3 DEF Times
<1> HIDE DEF A
<1>5. /\ Touch(d, r).dirs = d.dirs \cup {r} /\ Touch(d, r).after = A
      /\ Touch(d, r).events = d.events /\ Touch(d, r).manifest = d.manifest
      /\ Touch(d, r).until = d.until
  BY <1>1 DEF DiskType
<1>6. DiskType(Touch(d, r))
  <2>1. d.dirs \cup {r} \in SUBSET Run
    BY DiskFields
  <2> QED BY <1>1, <1>4, <2>1 DEF DiskType
<1> QED BY <1>2, <1>3, <1>5, <1>6

LEMMA TouchDated ==
  ASSUME NEW d, DiskType(d), Dated(d), NEW r \in Run
  PROVE  Dated(Touch(d, r))
<1> DEFINE t == Touch(d, r)
<1>1. /\ t.dirs = d.dirs \cup {r} /\ DOMAIN t.after = DOMAIN d.after \cup {r}
      /\ t.after[r] = {}
      /\ \A o \in DOMAIN d.after : o # r => t.after[o] = d.after[o] \cup {r}
  BY TouchIs
<1> HIDE DEF t
<1>2. t.dirs \subseteq DOMAIN t.after
  BY <1>1 DEF Dated
<1>3. \A a \in DOMAIN t.after : t.after[a] \subseteq DOMAIN t.after \ {a}
  BY <1>1 DEF Dated
<1>4. \A a, b \in DOMAIN t.after : a # b => a \in t.after[b] \/ b \in t.after[a]
  BY <1>1 DEF Dated
<1>5. \A a, b \in DOMAIN t.after : b \in t.after[a] => t.after[b] \subseteq t.after[a]
  <2> SUFFICES ASSUME NEW a \in DOMAIN t.after, NEW b \in DOMAIN t.after, b \in t.after[a]
               PROVE  t.after[b] \subseteq t.after[a]
    OBVIOUS
  <2>1. a # r /\ a \in DOMAIN d.after /\ t.after[a] = d.after[a] \cup {r}
    BY <1>1
  <2>2. CASE b = r
    BY <1>1, <2>2
  <2>3. CASE b # r
    BY <1>1, <2>1, <2>3 DEF Dated
  <2> QED BY <2>2, <2>3
<1>6. \A a \in DOMAIN t.after \ t.dirs : Cardinality(t.after[a]) >= keep
  <2> SUFFICES ASSUME NEW a \in DOMAIN t.after \ t.dirs PROVE Cardinality(t.after[a]) >= keep
    OBVIOUS
  <2>1. a \in DOMAIN d.after \ d.dirs /\ a # r /\ t.after[a] = d.after[a] \cup {r}
    BY <1>1
  <2>2. d.after[a] \subseteq Run /\ t.after[a] \subseteq Run
    BY <2>1, DiskFields
  <2>3. Cardinality(d.after[a]) <= Cardinality(t.after[a])
    BY <2>1, <2>2, MoreRuns
  <2>4. Cardinality(d.after[a]) >= keep
    BY <2>1 DEF Dated
  <2> QED BY <2>2, <2>3, <2>4, RunsFinite, KeepType
<1>7. Dated(t)
  BY <1>2, <1>3, <1>4, <1>5, <1>6 DEF Dated
<1> QED BY <1>7 DEF t

Removed(d, r) == Stale(d) \ (stuck \cup {r})

LEMMA PruneIs ==
  ASSUME NEW d, DiskType(d), NEW r \in Run, EventType
  PROVE  LET p == Prune(d, r)
             gone == Removed(d, r)
         IN  /\ DiskType(p) /\ gone \subseteq d.dirs
             /\ p.dirs = d.dirs \ gone /\ p.after = d.after
             /\ \A o \in Run : o \in gone => p.events[o] = Empty /\ p.manifest[o] = "none"
                                             /\ p.until[o] = Len(owner)
             /\ \A o \in Run : o \notin gone => p.events[o] = d.events[o] /\ p.until[o] = d.until[o]
                                                /\ p.manifest[o] = d.manifest[o]
<1> DEFINE gone == Removed(d, r)
           E == [o \in Run |-> IF o \in gone THEN Empty ELSE d.events[o]]
           M == [o \in Run |-> IF o \in gone THEN "none" ELSE d.manifest[o]]
           U == [o \in Run |-> IF o \in gone THEN Len(owner) ELSE d.until[o]]
<1>1. Prune(d, r) = [d EXCEPT !.dirs = d.dirs \ gone, !.events = E, !.manifest = M, !.until = U]
  BY DEF Prune, DiskType, Removed
<1>2. E \in [Run -> File] /\ M \in [Run -> {"none", "running", "ended"}] /\ U \in [Run -> Nat]
  <2>1. Empty \in File /\ Len(owner) \in Nat
    BY EmptyType DEF EventType
  <2>2. \A o \in Run : /\ d.events[o] \in File /\ d.until[o] \in Nat
                       /\ d.manifest[o] \in {"none", "running", "ended"}
    BY DiskFields
  <2> HIDE DEF gone
  <2> QED BY <2>1, <2>2
<1>3. gone \subseteq d.dirs
  BY DEF Removed, Stale
<1>4. \A o \in Run : /\ o \in gone => E[o] = Empty /\ M[o] = "none" /\ U[o] = Len(owner)
                     /\ o \notin gone => E[o] = d.events[o] /\ M[o] = d.manifest[o] /\ U[o] = d.until[o]
  BY Zenon
<1> HIDE DEF E, M, U, gone
<1>5. DiskType(Prune(d, r))
  <2>1. d.dirs \ gone \in SUBSET Run
    BY DEF DiskType
  <2> QED BY <1>1, <1>2, <2>1 DEF DiskType
<1>6. /\ Prune(d, r).dirs = d.dirs \ gone /\ Prune(d, r).after = d.after
      /\ Prune(d, r).events = E /\ Prune(d, r).manifest = M /\ Prune(d, r).until = U
  BY <1>1 DEF DiskType
<1> QED BY <1>3, <1>4, <1>5, <1>6 DEF gone

(* Pruning takes none of the keep newest.                                   *)
LEMMA PruneDated ==
  ASSUME NEW d, DiskType(d), Dated(d), NEW r \in Run, EventType
  PROVE  Dated(Prune(d, r))
<1> DEFINE p == Prune(d, r)
<1>1. p.dirs = d.dirs \ Removed(d, r) /\ p.after = d.after
  BY PruneIs
<1> HIDE DEF p
<1>2. \A a \in DOMAIN p.after \ p.dirs : Cardinality(p.after[a]) >= keep
  <2> SUFFICES ASSUME NEW a \in DOMAIN d.after \ p.dirs PROVE Cardinality(d.after[a]) >= keep
    BY <1>1
  <2>1. CASE a \notin d.dirs
    BY <2>1 DEF Dated
  <2>2. CASE a \in d.dirs
    <3>1. Cardinality(Newer(d, a)) >= keep
      BY <1>1, <2>2 DEF Removed, Stale
    <3>2. d.after[a] \subseteq Run /\ Newer(d, a) \subseteq d.after[a]
      BY DiskFields DEF Newer
    <3>3. Cardinality(Newer(d, a)) <= Cardinality(d.after[a])
      BY <3>2, MoreRuns
    <3> QED BY <3>1, <3>2, <3>3, RunsFinite, KeepType
  <2> QED BY <2>1, <2>2
<1>3. Dated(p)
  BY <1>1, <1>2 DEF Dated
<1> QED BY <1>3 DEF p

(* Of the directories that are not stale, the oldest has all the others     *)
(* among the fewer than keep that are newer.                                *)
LEMMA LargestNumber ==
  ASSUME NEW n \in Nat, NEW S \in SUBSET (0 .. n), S # {}
  PROVE  \E i \in S : \A j \in S : j <= i
<1> DEFINE T == { n - i : i \in S }
<1>1. T \subseteq Nat /\ T # {}
  <2>1. PICK i \in S : TRUE
    OBVIOUS
  <2>2. n - i \in T
    BY <2>1
  <2>3. \A x \in T : x \in Nat
    OBVIOUS
  <2> QED BY <2>2, <2>3
<1> HIDE DEF T
<1>2. \E x \in T : \A y \in T : ~ (<<y, x>> \in OpToRel(<, Nat))
  BY <1>1, WFMin, NatLessThanWellFounded, Zenon
<1>3. PICK x \in T : \A y \in T : ~ (y < x)
  BY <1>1, <1>2 DEF OpToRel
<1>4. PICK i \in S : x = n - i
  BY DEF T
<1>5. ASSUME NEW j \in S PROVE j <= i
  <2>1. n - j \in T
    BY DEF T
  <2> QED BY <1>3, <1>4, <2>1
<1> QED BY <1>5

LEMMA NewestAreFew ==
  ASSUME NEW d, DiskType(d), Dated(d)
  PROVE  Cardinality(d.dirs \ Stale(d)) <= keep
<1> DEFINE K == d.dirs \ Stale(d)
           N == { Cardinality(Newer(d, x)) : x \in K }
<1>1. K \subseteq d.dirs /\ \A x \in K : ~(Cardinality(Newer(d, x)) >= keep)
  BY DEF Stale
<1>2. K \subseteq Run /\ \A x \in K : x \in DOMAIN d.after /\ Newer(d, x) \subseteq Run
  BY <1>1, DiskFields DEF Dated, Newer
<1> HIDE DEF K
<1>3. CASE K = {}
  BY <1>3, KeepType, FS_EmptySet DEF K
<1>4. CASE K # {}
  <2>1. N \subseteq 0 .. keep /\ N # {}
    <3>1. \A x \in K : Cardinality(Newer(d, x)) \in 0 .. keep
      BY <1>1, <1>2, RunsFinite, KeepType
    <3> QED BY <1>4, <3>1
  <2>2. PICK n \in N : \A j \in N : j <= n
    BY <2>1, LargestNumber, KeepType
  <2>3. PICK m \in K : n = Cardinality(Newer(d, m))
    OBVIOUS
  <2>4. \A x \in K : Cardinality(Newer(d, x)) <= Cardinality(Newer(d, m))
    BY <2>2, <2>3
  <2>5. K \subseteq Newer(d, m) \cup {m}
    <3> SUFFICES ASSUME NEW x \in K, x # m, x \notin Newer(d, m) PROVE FALSE
      OBVIOUS
    <3>1. x \notin d.after[m]
      BY <1>1 DEF Newer
    <3>2. m \in d.after[x] /\ m \notin d.after[m] /\ d.after[m] \subseteq d.after[x]
      BY <1>2, <3>1 DEF Dated
    <3>3. Newer(d, m) \cup {m} \subseteq Newer(d, x) /\ m \notin Newer(d, m)
      BY <1>1, <3>2 DEF Newer
    <3>4. Cardinality(Newer(d, m) \cup {m}) = Cardinality(Newer(d, m)) + 1
      BY <1>2, <3>3, RunsFinite, FS_AddElement
    <3>5. Cardinality(Newer(d, m) \cup {m}) <= Cardinality(Newer(d, x))
      BY <1>2, <3>3, MoreRuns
    <3> QED BY <1>2, <2>4, <3>4, <3>5, RunsFinite
  <2>6. Cardinality(K) <= Cardinality(Newer(d, m) \cup {m})
    BY <1>2, <2>5, MoreRuns
  <2>7. Cardinality(Newer(d, m) \cup {m}) <= Cardinality(Newer(d, m)) + 1
    BY <1>2, RunsFinite, FS_AddElement
  <2>8. ~(Cardinality(Newer(d, m)) >= keep)
    BY <1>1
  <2>9. /\ Cardinality(K) \in Nat /\ Cardinality(Newer(d, m)) \in Nat
        /\ Cardinality(Newer(d, m) \cup {m}) \in Nat
    BY <1>2, RunsFinite
  <2>10. Cardinality(K) <= keep
    BY <2>6, <2>7, <2>8, <2>9, KeepType
  <2> QED BY <2>10 DEF K
<1> QED BY <1>3, <1>4

(* What pruning leaves is bounded, whatever cannot be removed.              *)
LEMMA PruneBound ==
  ASSUME NEW d, DiskType(d), Dated(d), NEW r \in DOMAIN d.after, d.after[r] = {},
         EventType, stuck \subseteq Run
  PROVE  Cardinality(Prune(d, r).dirs) <= keep + Cardinality(stuck)
<1> DEFINE K == d.dirs \ Stale(d)
<1>1. r \in Run /\ K \subseteq Run
  BY DiskFields
<1>2. r \notin Stale(d)
  <2>1. Newer(d, r) = {} /\ Cardinality({}) = 0
    BY FS_EmptySet DEF Newer
  <2> QED BY <2>1, KeepType DEF Stale
<1>3. Prune(d, r).dirs \subseteq K \cup stuck
  BY <1>1, <1>2, PruneIs DEF Removed
<1>4. Cardinality(Prune(d, r).dirs) <= Cardinality(K \cup stuck)
  BY <1>1, <1>3, MoreRuns
<1>5. Cardinality(K \cup stuck) <= Cardinality(K) + Cardinality(stuck)
  <2>1. Cardinality(K \cup stuck) = Cardinality(K) + Cardinality(stuck) - Cardinality(K \cap stuck)
    BY <1>1, RunsFinite, FS_Union
  <2> QED BY <1>1, <2>1, RunsFinite
<1>6. Cardinality(K) <= keep
  BY NewestAreFew
<1>7. /\ Prune(d, r).dirs \subseteq Run /\ K \cup stuck \subseteq Run
  BY <1>1, <1>3
<1> HIDE DEF K
<1>8. /\ Cardinality(Prune(d, r).dirs) \in Nat /\ Cardinality(K \cup stuck) \in Nat
      /\ Cardinality(K) \in Nat /\ Cardinality(stuck) \in Nat
  BY <1>1, <1>7, RunsFinite
<1> QED BY <1>4, <1>5, <1>6, <1>8, KeepType

------------------------------------------------------------------------------
(* What the writers do to the directories *)

(* A run has a history and a manifest only in its directory.                *)
Tidy(d) == \A r \in Run \ d.dirs : d.events[r] = Empty /\ d.manifest[r] = "none"

DiskSound(d) == DiskType(d) /\ Dated(d) /\ Tidy(d)

(* From d to n, the runs other than r keep what they have, or lose it all.  *)
Others(d, n, r) ==
  \A o \in Run \ {r} :
    \/ /\ o \in n.dirs <=> o \in d.dirs
       /\ n.events[o] = d.events[o] /\ n.manifest[o] = d.manifest[o] /\ n.until[o] = d.until[o]
    \/ /\ o \notin n.dirs
       /\ n.events[o] = Empty /\ n.manifest[o] = "none" /\ n.until[o] = Len(owner)

(* There is one directory more at the cost of a failure, or retention was   *)
(* enforced.                                                                *)
Retained(d, n, how) ==
  \/ n.dirs \subseteq d.dirs
  \/ how = "ok" /\ Cardinality(n.dirs) <= keep + Cardinality(stuck)
  \/ how # "ok" /\ Cardinality(n.dirs) <= Cardinality(d.dirs) + 1

LEMMA OneMore ==
  ASSUME NEW S \in SUBSET Run, NEW r \in Run
  PROVE  Cardinality(S \cup {r}) <= Cardinality(S) + 1
<1>1. CASE r \in S
  <2>1. S \cup {r} = S
    BY <1>1
  <2> QED BY <2>1, RunsFinite
<1>2. CASE r \notin S
  BY <1>2, RunsFinite, FS_AddElement
<1> QED BY <1>1, <1>2

Written(d, r, e, how) == [d EXCEPT !.events[r] = WriteLine(@, e, how)]

LEMMA WrittenIs ==
  ASSUME NEW d, DiskType(d), Dated(d), NEW r \in Run, NEW e \in Nat, NEW how \in How,
         NEW w, w = Written(d, r, e, how)
  PROVE  /\ DiskType(w) /\ Dated(w)
         /\ w.dirs = d.dirs /\ w.after = d.after /\ w.manifest = d.manifest /\ w.until = d.until
         /\ w.events[r] = WriteLine(d.events[r], e, how)
         /\ \A o \in Run \ {r} : w.events[o] = d.events[o]
<1> DEFINE E == [d.events EXCEPT ![r] = WriteLine(d.events[r], e, how)]
<1>1. w = [d EXCEPT !.events = E]
  BY DEF DiskType, Written
<1>2. /\ E \in [Run -> File] /\ E[r] = WriteLine(d.events[r], e, how)
      /\ \A o \in Run \ {r} : E[o] = d.events[o]
  <2>1. d.events \in [Run -> File] /\ d.events[r] \in File
    BY DiskFields
  <2>2. WriteLine(d.events[r], e, how) \in File
    BY <2>1, WriteType
  <2> QED BY <2>1, <2>2
<1> HIDE DEF E
<1>3. /\ w.dirs = d.dirs /\ w.after = d.after /\ w.events = E
      /\ w.manifest = d.manifest /\ w.until = d.until
  BY <1>1 DEF DiskType
<1>4. DiskType(w)
  BY <1>1, <1>2 DEF DiskType
<1> QED BY <1>2, <1>3, <1>4 DEF Dated

LEMMA ManifestIs ==
  ASSUME NEW d, DiskType(d), Dated(d), NEW r \in Run, NEW m \in {"running", "ended"}
  PROVE  LET n == Manifest(d, r, m)
         IN  /\ DiskType(n) /\ Dated(n)
             /\ n.dirs = d.dirs \cup {r} /\ r \in DOMAIN n.after /\ n.after[r] = {}
             /\ n.events = d.events /\ n.until = d.until /\ n.manifest[r] = m
             /\ \A o \in Run \ {r} : n.manifest[o] = d.manifest[o]
<1> DEFINE M == [d.manifest EXCEPT ![r] = m]
           w == [d EXCEPT !.manifest = M]
<1>1. Manifest(d, r, m) = Touch(w, r)
  BY DEF Manifest, DiskType
<1>2. /\ M \in [Run -> {"none", "running", "ended"}] /\ M[r] = m
      /\ \A o \in Run \ {r} : M[o] = d.manifest[o]
  BY DiskFields
<1> HIDE DEF M
<1>3. /\ w.dirs = d.dirs /\ w.after = d.after /\ w.events = d.events
      /\ w.manifest = M /\ w.until = d.until /\ DiskType(w)
  BY <1>2 DEF DiskType
<1>4. Dated(w)
  BY <1>3 DEF Dated
<1> HIDE DEF w
<1>5. Dated(Touch(w, r))
  BY <1>3, <1>4, TouchDated
<1> DEFINE t == Touch(w, r)
<1>6. /\ DiskType(t) /\ t.dirs = w.dirs \cup {r} /\ DOMAIN t.after = DOMAIN w.after \cup {r}
      /\ t.after[r] = {} /\ t.events = w.events /\ t.manifest = w.manifest /\ t.until = w.until
  BY <1>3, TouchIs
<1> HIDE DEF t
<1> QED BY <1>1, <1>2, <1>3, <1>5, <1>6 DEF t

LEMMA LoggedIs ==
  ASSUME EventType, stuck \subseteq Run, NEW d, DiskSound(d),
         NEW r \in Run, NEW e \in Nat, NEW how \in How, NEW n, n = Logged(d, r, e, how)
  PROVE  /\ DiskSound(n) /\ Others(d, n, r) /\ Retained(d, n, how)
         /\ n.events[r] = WriteLine(d.events[r], e, how)
         /\ n.manifest[r] = d.manifest[r] /\ n.until[r] = d.until[r]
         /\ how = "ok" => r \in n.dirs
<1> DEFINE made == IF d.events[r].lines = <<>> THEN Touch(d, r) ELSE d
           w == Written(made, r, e, how)
<1>0. DiskType(d) /\ Dated(d) /\ Tidy(d) /\ d.dirs \subseteq Run
  BY DiskFields DEF DiskSound
<1>1. n = CASE how = "nothing"           -> d
            [] how = "ok" /\ Fresh(d, r) -> Prune(w, r)
            [] OTHER                     -> w
  BY DEF Logged, Written
<1>2. /\ DiskType(made) /\ Dated(made) /\ made.dirs = d.dirs \cup {r}
      /\ made.events = d.events /\ made.manifest = d.manifest /\ made.until = d.until
      /\ r \notin d.dirs => r \in DOMAIN made.after /\ made.after[r] = {}
  <2>1. CASE d.events[r].lines = <<>>
    <3>1. made = Touch(d, r)
      BY <2>1
    <3> HIDE DEF made
    <3> QED BY <1>0, <3>1, TouchIs, TouchDated
  <2>2. CASE d.events[r].lines # <<>>
    <3>1. r \in d.dirs
      BY <1>0, <2>2, EmptyType DEF Tidy
    <3>2. made = d /\ d.dirs \cup {r} = d.dirs
      BY <2>2, <3>1
    <3> QED BY <1>0, <3>1, <3>2
  <2> QED BY <2>1, <2>2
<1> HIDE DEF made
<1>3. /\ DiskType(w) /\ Dated(w)
      /\ w.dirs = made.dirs /\ w.after = made.after /\ w.manifest = made.manifest /\ w.until = made.until
      /\ w.events[r] = WriteLine(made.events[r], e, how)
      /\ \A o \in Run \ {r} : w.events[o] = made.events[o]
  BY <1>2, WrittenIs
<1> HIDE DEF w
<1>4. CASE how = "nothing"
  <2>1. n = d
    BY <1>1, <1>4
  <2>2. WriteLine(d.events[r], e, how) = d.events[r]
    BY <1>4 DEF WriteLine
  <2> QED BY <1>4, <2>1, <2>2 DEF Others, Retained, DiskSound
<1>5. CASE how = "ok" /\ r \notin d.dirs
  <2>1. n = Prune(w, r)
    BY <1>1, <1>5 DEF Fresh
  <2> DEFINE gone == Removed(w, r)
  <2>2. /\ DiskType(n) /\ gone \subseteq w.dirs /\ n.dirs = w.dirs \ gone /\ n.after = w.after
        /\ \A o \in Run : o \in gone => n.events[o] = Empty /\ n.manifest[o] = "none"
                                        /\ n.until[o] = Len(owner)
        /\ \A o \in Run : o \notin gone => n.events[o] = w.events[o] /\ n.until[o] = w.until[o]
                                           /\ n.manifest[o] = w.manifest[o]
    BY <1>3, <2>1, PruneIs
  <2>3. Dated(n)
    BY <1>3, <2>1, PruneDated
  <2>4. r \notin gone
    BY DEF Removed
  <2>5. Cardinality(n.dirs) <= keep + Cardinality(stuck)
    BY <1>2, <1>3, <1>5, <2>1, PruneBound
  <2> HIDE DEF gone
  <2>6. Others(d, n, r)
    BY <1>2, <1>3, <2>2 DEF Others
  <2>7. Tidy(n)
    BY <1>0, <1>2, <1>3, <2>2, <2>4 DEF Tidy
  <2> QED BY <1>2, <1>3, <1>5, <2>2, <2>3, <2>4, <2>5, <2>6, <2>7 DEF Retained, DiskSound
<1>6. CASE how # "nothing" /\ ~(how = "ok" /\ r \notin d.dirs)
  <2>1. n = w
    BY <1>1, <1>6 DEF Fresh
  <2>2. Others(d, n, r) /\ Tidy(n)
    BY <1>0, <1>2, <1>3, <2>1 DEF Others, Tidy
  <2>3. Retained(d, n, how)
    <3>1. Cardinality(d.dirs \cup {r}) <= Cardinality(d.dirs) + 1
      BY <1>0, OneMore
    <3>2. r \in d.dirs => d.dirs \cup {r} \subseteq d.dirs
      OBVIOUS
    <3> QED BY <1>2, <1>3, <1>6, <2>1, <3>1, <3>2 DEF Retained
  <2> QED BY <1>2, <1>3, <1>6, <2>1, <2>2, <2>3 DEF DiskSound
<1> QED BY <1>4, <1>5, <1>6

LEMMA OpenedIs ==
  ASSUME EventType, stuck \subseteq Run, NEW d, DiskSound(d),
         NEW r \in Run, NEW how \in How, NEW n, n = Opened(d, r, how)
  PROVE  /\ DiskSound(n) /\ Others(d, n, r) /\ Retained(d, n, how)
         /\ n.events[r] = d.events[r] /\ n.until[r] = d.until[r]
         /\ n.manifest[r] = IF how = "ok" THEN "running" ELSE d.manifest[r]
<1>0. DiskType(d) /\ Dated(d) /\ Tidy(d) /\ d.dirs \subseteq Run
  BY DiskFields DEF DiskSound
<1>1. CASE how = "ok"
  <2> DEFINE m == Manifest(d, r, "running")
             gone == Removed(m, r)
  <2>1. n = Prune(m, r)
    BY <1>1 DEF Opened
  <2>2. /\ DiskType(m) /\ Dated(m)
        /\ m.dirs = d.dirs \cup {r} /\ r \in DOMAIN m.after /\ m.after[r] = {}
        /\ m.events = d.events /\ m.until = d.until /\ m.manifest[r] = "running"
        /\ \A o \in Run \ {r} : m.manifest[o] = d.manifest[o]
    BY <1>0, ManifestIs
  <2> HIDE DEF m
  <2>3. /\ DiskType(n) /\ gone \subseteq m.dirs /\ n.dirs = m.dirs \ gone /\ n.after = m.after
        /\ \A o \in Run : o \in gone => n.events[o] = Empty /\ n.manifest[o] = "none"
                                        /\ n.until[o] = Len(owner)
        /\ \A o \in Run : o \notin gone => n.events[o] = m.events[o] /\ n.until[o] = m.until[o]
                                           /\ n.manifest[o] = m.manifest[o]
    BY <2>1, <2>2, PruneIs
  <2>4. Dated(n) /\ r \notin gone
    BY <2>1, <2>2, PruneDated DEF Removed
  <2>5. Cardinality(n.dirs) <= keep + Cardinality(stuck)
    BY <2>1, <2>2, PruneBound
  <2> HIDE DEF gone
  <2>6. Others(d, n, r) /\ Tidy(n)
    BY <1>0, <2>2, <2>3, <2>4 DEF Others, Tidy
  <2> QED BY <1>1, <2>2, <2>3, <2>4, <2>5, <2>6 DEF DiskSound, Retained
<1>2. CASE how = "nothing"
  <2>1. n = d
    BY <1>2 DEF Opened
  <2> QED BY <1>0, <1>2, <2>1 DEF DiskSound, Others, Retained
<1>3. CASE how \notin {"ok", "nothing"}
  <2>1. n = Touch(d, r)
    BY <1>3 DEF Opened
  <2>2. /\ DiskType(n) /\ Dated(n) /\ n.dirs = d.dirs \cup {r}
        /\ n.events = d.events /\ n.manifest = d.manifest /\ n.until = d.until
    BY <1>0, <2>1, TouchIs, TouchDated
  <2>3. Others(d, n, r) /\ Tidy(n)
    BY <1>0, <2>2 DEF Others, Tidy
  <2>4. Cardinality(n.dirs) <= Cardinality(d.dirs) + 1
    BY <1>0, <2>2, OneMore
  <2> QED BY <1>3, <2>2, <2>3, <2>4 DEF DiskSound, Retained
<1> QED BY <1>1, <1>2, <1>3

LEMMA FinishedIs ==
  ASSUME NEW d, DiskSound(d), NEW r \in Run, NEW how, NEW n, n = Finished(d, r, how)
  PROVE  /\ DiskSound(n) /\ n.dirs = d.dirs /\ n.events = d.events /\ n.until = d.until
         /\ \A o \in Run \ {r} : n.manifest[o] = d.manifest[o]
         /\ n.manifest[r] = IF how = "ok" /\ r \in d.dirs THEN "ended" ELSE d.manifest[r]
<1>0. DiskType(d) /\ Dated(d) /\ Tidy(d)
  BY DEF DiskSound
<1>1. CASE how = "ok" /\ r \in d.dirs
  <2>1. n = Manifest(d, r, "ended")
    BY <1>1 DEF Finished
  <2>2. /\ DiskType(n) /\ Dated(n) /\ n.dirs = d.dirs \cup {r}
        /\ n.events = d.events /\ n.until = d.until /\ n.manifest[r] = "ended"
        /\ \A o \in Run \ {r} : n.manifest[o] = d.manifest[o]
    <3> DEFINE m == Manifest(d, r, "ended")
    <3>1. /\ DiskType(m) /\ Dated(m) /\ m.dirs = d.dirs \cup {r}
          /\ m.events = d.events /\ m.until = d.until /\ m.manifest[r] = "ended"
          /\ \A o \in Run \ {r} : m.manifest[o] = d.manifest[o]
      BY <1>0, ManifestIs
    <3> HIDE DEF m
    <3> QED BY <2>1, <3>1 DEF m
  <2>3. n.dirs = d.dirs
    BY <1>1, <2>2
  <2>4. Tidy(n)
    BY <1>0, <1>1, <2>2, <2>3 DEF Tidy
  <2> QED BY <1>1, <2>2, <2>3, <2>4 DEF DiskSound
<1>2. CASE ~(how = "ok" /\ r \in d.dirs)
  <2>1. n = d
    BY <1>2 DEF Finished
  <2> QED BY <1>2, <2>1
<1> QED BY <1>1, <1>2

LEMMA ReportedIs ==
  ASSUME EventType, stuck \subseteq Run, DiskSound(disk), NEW r \in Run, NEW e \in Nat,
         NEW logging \in How, NEW finishing \in How, NEW n, n = Reported(r, e, logging, finishing)
  PROVE  /\ DiskSound(n) /\ Others(disk, n, r) /\ Retained(disk, n, logging)
         /\ n.events[r] = WriteLine(disk.events[r], e, logging)
         /\ n.until[r] = disk.until[r] /\ n.manifest[r] \in {"ended", disk.manifest[r]}
         /\ logging = "ok" => r \in n.dirs
         /\ r \in trace /\ finishing = "ok" /\ r \in n.dirs => n.manifest[r] = "ended"
<1> DEFINE l == Logged(disk, r, e, logging)
<1>1. /\ DiskSound(l) /\ Others(disk, l, r) /\ Retained(disk, l, logging)
      /\ l.events[r] = WriteLine(disk.events[r], e, logging)
      /\ l.manifest[r] = disk.manifest[r] /\ l.until[r] = disk.until[r]
      /\ logging = "ok" => r \in l.dirs
  BY LoggedIs
<1>2. n = IF r \in trace THEN Finished(l, r, finishing) ELSE l
  BY DEF Reported
<1> HIDE DEF l
<1>3. CASE r \notin trace
  BY <1>1, <1>2, <1>3
<1>4. CASE r \in trace
  <2>1. /\ DiskSound(n) /\ n.dirs = l.dirs /\ n.events = l.events /\ n.until = l.until
        /\ \A o \in Run \ {r} : n.manifest[o] = l.manifest[o]
        /\ n.manifest[r] = IF finishing = "ok" /\ r \in l.dirs THEN "ended" ELSE l.manifest[r]
    BY <1>1, <1>2, <1>4, FinishedIs
  <2>2. Others(disk, n, r)
    BY <1>1, <2>1 DEF Others
  <2> QED BY <1>1, <1>4, <2>1, <2>2 DEF Retained
<1> QED BY <1>3, <1>4

------------------------------------------------------------------------------
(* The inductive invariant *)

(* A run's file has every event since its directory was last removed.       *)
RowSound(d, r) == d.until[r] <= Len(owner) /\ FileSound(d.events[r], r, d.until[r])

RowsSound(d) == \A r \in Run : RowSound(d, r)

(* Every directory too many cost a failed call.                             *)
CountsSound == Cardinality(stuck) <= slips /\ Cardinality(disk.dirs) <= keep + slips

(* What a manifest says of its run, and which runs have an open trace.      *)
PhaseType ==
  /\ stuck \subseteq Run /\ trace \subseteq Run
  /\ phase \in [Run -> {"new", "queued", "running", "reported"} \cup Over]

Told(r) ==
  /\ r \in trace => phase[r] = "running"
  /\ disk.manifest[r] = "ended" => phase[r] \in {"reported", "done"}
  /\ disk.manifest[r] = "running" => r \in trace \/ phase[r] = "abandoned" \/ slips > 0

(* A listing has shown, or still has to look at, what was there all along.  *)
ListSound == reader.stayed \subseteq disk.dirs /\ reader.stayed \subseteq reader.left \cup reader.shown

EventsSound == EventType /\ ReaderType /\ LogInv

RunsSound == DiskSound(disk) /\ RowsSound(disk) /\ CountsSound /\ ListSound

PhaseSound == PhaseType /\ \A r \in Run : Told(r)

HistoryInv == EventsSound /\ RunsSound /\ PhaseSound

------------------------------------------------------------------------------
(* Nothing is forgotten where no event is emitted *)

LEMMA FileStays ==
  ASSUME UNCHANGED <<owner, failed, torn>>, NEW file, NEW o, NEW from, FileSound(file, o, from)
  PROVE  FileSound(file, o, from)'
BY DEF FileSound, InOrder, Glued, Of, Spoilt, Readable, Elements

LEMMA Carried ==
  ASSUME NEW o, NEW file, NEW from \in Nat, FileSound(file, o, from)',
         disk'.events[o] = file, disk'.until[o] = from, Len(owner) \in Nat,
         from <= Len(owner), Len(owner') >= Len(owner), Len(owner') \in Nat
  PROVE  RowSound(disk, o)'
BY DEF RowSound, FileSound

LEMMA LogStays ==
  ASSUME UNCHANGED <<owner, failed, torn, previous, current>>, NEW b, LogSound(b), ReadSound(b)'
  PROVE  LogSound(b)'
<1>1. FileSound(current, Global, b)'
  BY FileStays DEF LogSound, CurrentSound, FileSound
<1>2. Of(Global)' = Of(Global) /\ \A e : Spoilt(e)' = Spoilt(e)
  BY DEF Of, Spoilt
<1>3. \A e : LaterEvents(e)' = LaterEvents(e)
  BY <1>2 DEF LaterEvents
<1>4. \A e : Cardinality(LaterEvents(e))' = Cardinality(LaterEvents(e))
  BY <1>3
<1>5. PreviousSound(b)'
  <2>1. previous' = previous
    OBVIOUS
  <2> QED BY <1>2, <1>4, <2>1 DEF LogSound, PreviousSound
<1> QED BY <1>1, <1>4, <1>5 DEF LogSound, CurrentSound

LEMMA SizeStays ==
  ASSUME LogType, SizeSound, UNCHANGED <<previous, current, blind>>,
         _global_size' \in {_global_size, Unknown}, slips' \in Nat, slips' >= slips,
         slips' + blind' <= MaxFaults
  PROVE  LogType' /\ SizeSound'
<1>1. LogType'
  <2>1. _global_size' \in Nat \cup {Unknown}
    BY DEF LogType
  <2>2. blind' \in Nat /\ blind' + slips' <= MaxFaults
    BY DEF LogType
  <2> QED BY <2>1, <2>2 DEF LogType
<1> DEFINE P == max_bytes * blind
           Q == max_bytes * (1 + blind)
<1>2. P \in Nat /\ Q \in Nat
  BY HistoryAssumption, Product DEF LogType
<1>3. /\ PairBounded <=> \A file \in {previous, current} : Len(file.lines) <= Q + slips
      /\ PairBounded' <=> \A file \in {previous, current} : Len(file.lines) <= Q + slips'
      /\ SizeSound <=> /\ PairBounded
                       /\ _global_size # Unknown => /\ _global_size <= Len(current.lines)
                                                    /\ Len(current.lines) <= _global_size + P + slips
      /\ SizeSound' <=> /\ PairBounded'
                        /\ _global_size' # Unknown => /\ _global_size' <= Len(current.lines)
                                                      /\ Len(current.lines) <= _global_size' + P + slips'
  BY DEF PairBounded, SizeSound
<1> HIDE DEF P, Q
<1>4. Len(previous.lines) \in Nat /\ Len(current.lines) \in Nat /\ slips \in Nat
  BY DEF LogType, File
<1>5. PairBounded'
  BY <1>2, <1>3, <1>4
<1>6. CASE _global_size' = Unknown
  BY <1>1, <1>3, <1>5, <1>6
<1>7. CASE _global_size' # Unknown
  <2>1. _global_size' = _global_size /\ _global_size \in Nat
    BY <1>7 DEF LogType
  <2> QED BY <1>1, <1>2, <1>3, <1>4, <1>5, <1>7, <2>1
<1> QED BY <1>6, <1>7

(* The slips pay for the directories.                                       *)
LEMMA CountsStay ==
  ASSUME stuck \subseteq Run, DiskType(disk), DiskType(disk'), CountsSound, NEW how \in How,
         Retained(disk, disk', how), UNCHANGED stuck, slips \in Nat, slips' \in Nat,
         slips' >= slips + Failures(how)
  PROVE  CountsSound'
<1>1. disk.dirs \subseteq Run /\ disk'.dirs \subseteq Run
  BY DiskFields
<1>2. /\ Cardinality(disk.dirs) \in Nat /\ Cardinality(disk'.dirs) \in Nat
      /\ Cardinality(stuck) \in Nat
  BY <1>1, RunsFinite
<1>3. CASE how = "ok"
  <2>1. slips' >= slips
    BY <1>3 DEF Failures
  <2>2. Cardinality(disk'.dirs) <= keep + slips'
    <3>1. CASE disk'.dirs \subseteq disk.dirs
      <4>1. Cardinality(disk'.dirs) <= Cardinality(disk.dirs)
        BY <1>1, <3>1, MoreRuns
      <4> QED BY <1>2, <2>1, <4>1, KeepType DEF CountsSound
    <3>2. CASE Cardinality(disk'.dirs) <= keep + Cardinality(stuck)
      BY <1>2, <2>1, <3>2, KeepType DEF CountsSound
    <3> QED BY <1>3, <3>1, <3>2 DEF Retained
  <2> QED BY <1>2, <2>1, <2>2 DEF CountsSound
<1>4. CASE how # "ok"
  <2>1. slips' >= slips + 1
    BY <1>4 DEF Failures
  <2>2. Cardinality(disk'.dirs) <= Cardinality(disk.dirs) + 1
    <3>1. disk'.dirs \subseteq disk.dirs => Cardinality(disk'.dirs) <= Cardinality(disk.dirs)
      BY <1>1, MoreRuns
    <3> QED BY <1>2, <1>4, <3>1 DEF Retained
  <2> QED BY <1>2, <2>1, <2>2, KeepType DEF CountsSound
<1> QED BY <1>3, <1>4

LEMMA ListStays ==
  ASSUME ReaderType, ListSound, reader' = [reader EXCEPT !.stayed = @ \cap disk'.dirs]
  PROVE  /\ ListSound' /\ ReaderType'
         /\ reader'.step = reader.step /\ reader'.tail = reader.tail
         /\ reader'.rotated = reader.rotated
<1>1. reader' = [reader EXCEPT !.stayed = reader.stayed \cap disk'.dirs]
  BY DEF ReaderType
<1>2. reader.stayed \cap disk'.dirs \in SUBSET Run
  BY DEF ReaderType
<1> QED BY <1>1, <1>2 DEF ReaderType, ListSound

------------------------------------------------------------------------------
(* The steps of a run *)

(* One that emits an event: how its line and its directory fared.           *)
LEMMA RunEvent ==
  ASSUME EventsSound, RunsSound, PhaseType, NEW r \in Run, NEW how \in How, Emit(r, how),
         DiskSound(disk'), Others(disk, disk', r), Retained(disk, disk', how),
         disk'.events[r] = WriteLine(disk.events[r], event, how), disk'.until[r] = disk.until[r],
         UNCHANGED <<logVars, stuck, blind>>,
         slips' \in Nat, slips' >= slips + Failures(how), slips' + blind' <= MaxFaults,
         reader' = [reader EXCEPT !.stayed = @ \cap disk'.dirs]
  PROVE  EventsSound' /\ RunsSound'
<1>0. /\ EventType /\ ReaderType /\ LogInv /\ LogType /\ SizeSound
      /\ DiskType(disk) /\ DiskType(disk') /\ slips \in Nat /\ Failures(how) \in Nat
      /\ Len(owner) \in Nat /\ event \in Nat /\ r \in Run \cup {Global}
  BY DEF EventsSound, RunsSound, LogInv, LogType, DiskSound, Failures, EventType, event
<1>1. EventType'
  BY <1>0, EmitIs
<1>2. /\ ListSound' /\ ReaderType'
      /\ reader'.step = reader.step /\ reader'.tail = reader.tail
      /\ reader'.rotated = reader.rotated
  BY <1>0, ListStays DEF RunsSound
<1>3. LogInv'
  <2>1. LogType' /\ SizeSound'
    <3>1. slips' >= slips
      BY <1>0
    <3> QED BY <1>0, <3>1, SizeStays DEF logVars
  <2>2. PICK b \in 0 .. Len(owner) : LogSound(b)
    BY <1>0 DEF LogInv
  <2>3. LogSound(b)' /\ b \in 0 .. Len(owner')
    BY <1>0, <1>2, <2>2, RunEventLog DEF logVars
  <2> QED BY <2>1, <2>3 DEF LogInv
<1>4. CountsSound'
  BY <1>0, CountsStay DEF RunsSound, PhaseType
<1>5. RowsSound(disk)'
  <2> SUFFICES ASSUME NEW o \in Run PROVE RowSound(disk, o)'
    BY DEF RowsSound
  <2>0. /\ RowSound(disk, o) /\ disk.events[o] \in File /\ disk.until[o] \in Nat
        /\ o \in Run \cup {Global} /\ Len(owner') = Len(owner) + 1
    BY <1>0, EmitIs, DiskFields DEF RunsSound, RowsSound
  <2>1. PICK file \in File, from \in Nat : file = disk.events[o] /\ from = disk.until[o]
    BY <2>0
  <2>2. FileSound(file, o, from) /\ from <= Len(owner)
    BY <2>0, <2>1 DEF RowSound
  <2>3. CASE o = r
    <3>1. PICK e, new : e = event /\ new = WriteLine(file, e, how)
      OBVIOUS
    <3>2. FileSound(new, o, from)'
      BY <1>0, <2>2, <2>3, <3>1, WriteSound
    <3>3. disk'.events[o] = new /\ disk'.until[o] = from
      BY <2>1, <2>3, <3>1
    <3> QED BY <1>0, <2>0, <2>2, <3>2, <3>3, Carried
  <2>4. CASE o # r /\ disk'.events[o] = disk.events[o] /\ disk'.until[o] = disk.until[o]
    <3>1. FileSound(file, o, from)'
      BY <1>0, <2>2, <2>4, OtherSound
    <3> QED BY <1>0, <2>0, <2>1, <2>2, <2>4, <3>1, Carried
  <2>5. CASE o # r /\ disk'.events[o] = Empty /\ disk'.until[o] = Len(owner)
    <3>1. PICK n \in Nat : n = Len(owner)
      BY <1>0
    <3>2. Empty \in File /\ FileSound(Empty, o, n)
      BY <1>0, <2>0, <3>1, EmptySound
    <3>3. FileSound(Empty, o, n)'
      BY <1>0, <2>5, <3>2, OtherSound
    <3>4. Len(owner) \in Nat /\ Len(owner') \in Nat /\ n <= Len(owner) /\ Len(owner') >= Len(owner)
      BY <1>0, <2>0, <3>1
    <3> QED BY <2>5, <3>1, <3>3, <3>4, Carried
  <2> QED BY <2>3, <2>4, <2>5 DEF Others
<1> QED BY <1>1, <1>2, <1>3, <1>4, <1>5 DEF EventsSound, RunsSound

(* The other runs' manifests stay true, or go with their directories.       *)
LEMMA ToldStays ==
  ASSUME PhaseSound, PhaseType', NEW r \in Run, Others(disk, disk', r),
         slips \in Nat, slips' \in Nat, slips' >= slips,
         trace' \ {r} = trace \ {r}, \A o \in Run \ {r} : phase'[o] = phase[o],
         Told(r)'
  PROVE  PhaseSound'
<1> SUFFICES ASSUME NEW o \in Run, o # r PROVE Told(o)'
  BY DEF PhaseSound
<1>1. Told(o) /\ phase'[o] = phase[o] /\ (o \in trace' <=> o \in trace)
  BY DEF PhaseSound
<1>2. slips > 0 => slips' > 0
  OBVIOUS
<1>3. disk'.manifest[o] \in {disk.manifest[o], "none"}
  BY DEF Others
<1> QED BY <1>1, <1>2, <1>3 DEF Told

LEMMA LogRunIs ==
  ASSUME HistoryInv, NEW r \in Run, NEW how \in How, LogRun(r, how)
  PROVE  /\ EventsSound' /\ RunsSound' /\ Others(disk, disk', r)
         /\ disk'.manifest[r] = disk.manifest[r]
         /\ slips \in Nat /\ slips' \in Nat /\ slips' >= slips
<1>1. /\ Emit(r, how) /\ disk' = Logged(disk, r, event, how)
      /\ slips' = slips + Failures(how) /\ blind' = blind /\ slips' + blind' <= MaxFaults
      /\ reader' = [reader EXCEPT !.stayed = @ \cap disk'.dirs]
      /\ UNCHANGED <<logVars, stuck>>
  <2>1. blind \in Nat
    BY DEF HistoryInv, EventsSound, LogInv, LogType
  <2> QED BY <2>1 DEF LogRun, Slip
<1>2. /\ EventsSound /\ RunsSound /\ PhaseType /\ EventType /\ stuck \subseteq Run
      /\ DiskSound(disk) /\ event \in Nat /\ slips \in Nat /\ Failures(how) \in Nat
  BY DEF HistoryInv, PhaseSound, PhaseType, EventsSound, EventType, RunsSound, event,
         LogInv, LogType, Failures
<1>3. /\ DiskSound(disk') /\ Others(disk, disk', r) /\ Retained(disk, disk', how)
      /\ disk'.events[r] = WriteLine(disk.events[r], event, how)
      /\ disk'.manifest[r] = disk.manifest[r] /\ disk'.until[r] = disk.until[r]
  BY <1>1, <1>2, LoggedIs
<1>4. slips' \in Nat /\ slips' >= slips /\ slips' >= slips + Failures(how)
  BY <1>1, <1>2
<1>5. EventsSound' /\ RunsSound'
  BY <1>1, <1>2, <1>3, <1>4, RunEvent
<1> QED BY <1>2, <1>3, <1>4, <1>5

LEMMA QueueStep ==
  ASSUME HistoryInv, NEW r \in Run, NEW how \in How, Queue(r, how)
  PROVE  HistoryInv'
<1>1. /\ EventsSound' /\ RunsSound' /\ Others(disk, disk', r)
      /\ disk'.manifest[r] = disk.manifest[r]
      /\ slips \in Nat /\ slips' \in Nat /\ slips' >= slips
  BY LogRunIs DEF Queue
<1>2. PhaseSound /\ PhaseType /\ Told(r)
  BY DEF HistoryInv, PhaseSound
<1>3. /\ phase[r] = "new" /\ phase' = [phase EXCEPT ![r] = "queued"]
      /\ trace' = trace /\ stuck' = stuck
  BY DEF Queue, LogRun, Enter
<1>4. PhaseType' /\ phase'[r] = "queued" /\ \A o \in Run \ {r} : phase'[o] = phase[o]
  BY <1>2, <1>3 DEF PhaseType
<1>5. Told(r)'
  BY <1>1, <1>2, <1>3, <1>4 DEF Told
<1>6. PhaseSound'
  BY <1>1, <1>2, <1>3, <1>4, <1>5, ToldStays
<1> QED BY <1>1, <1>6 DEF HistoryInv

LEMMA ProgressStep ==
  ASSUME HistoryInv, NEW r \in Run, NEW how \in How, Progress(r, how)
  PROVE  HistoryInv'
<1>1. /\ EventsSound' /\ RunsSound' /\ Others(disk, disk', r)
      /\ disk'.manifest[r] = disk.manifest[r]
      /\ slips \in Nat /\ slips' \in Nat /\ slips' >= slips
  BY LogRunIs DEF Progress
<1>2. PhaseSound /\ PhaseType /\ Told(r)
  BY DEF HistoryInv, PhaseSound
<1>3. phase' = phase /\ trace' = trace /\ stuck' = stuck
  BY DEF Progress, LogRun
<1>4. PhaseType'
  BY <1>2, <1>3 DEF PhaseType
<1>5. Told(r)'
  BY <1>1, <1>2, <1>3 DEF Told
<1>6. PhaseSound'
  BY <1>1, <1>2, <1>3, <1>4, <1>5, ToldStays
<1> QED BY <1>1, <1>6 DEF HistoryInv

LEMMA ConsumeStep ==
  ASSUME HistoryInv, NEW r \in Run, NEW how \in How, Consume(r, how)
  PROVE  HistoryInv'
<1>1. /\ EventsSound' /\ RunsSound' /\ Others(disk, disk', r)
      /\ disk'.manifest[r] = disk.manifest[r]
      /\ slips \in Nat /\ slips' \in Nat /\ slips' >= slips
  BY LogRunIs DEF Consume
<1>2. PhaseSound /\ PhaseType /\ Told(r)
  BY DEF HistoryInv, PhaseSound
<1>3. /\ phase[r] \in {"queued", "reported"} /\ phase' = [phase EXCEPT ![r] = "done"]
      /\ trace' = trace /\ stuck' = stuck
  BY DEF Consume, LogRun, Enter
<1>4. PhaseType' /\ phase'[r] = "done" /\ \A o \in Run \ {r} : phase'[o] = phase[o]
  BY <1>2, <1>3 DEF PhaseType, Over
<1>5. Told(r)'
  BY <1>1, <1>2, <1>3, <1>4 DEF Told
<1>6. PhaseSound'
  BY <1>1, <1>2, <1>3, <1>4, <1>5, ToldStays
<1> QED BY <1>1, <1>6 DEF HistoryInv

LEMMA ReportStep ==
  ASSUME HistoryInv, NEW r \in Run, NEW logging \in How, NEW finishing \in How,
         Report(r, logging, finishing)
  PROVE  /\ HistoryInv'
         /\ logging = "ok" => r \in disk'.dirs
         /\ r \in trace /\ finishing = "ok" /\ r \in disk'.dirs => disk'.manifest[r] = "ended"
<1>1. /\ EventsSound /\ RunsSound /\ PhaseSound /\ PhaseType /\ Told(r) /\ EventType
      /\ stuck \subseteq Run /\ DiskSound(disk) /\ event \in Nat
      /\ slips \in Nat /\ blind \in Nat /\ Failures(logging) \in Nat /\ Failures(finishing) \in Nat
  BY DEF HistoryInv, PhaseSound, PhaseType, EventsSound, EventType, RunsSound, event,
         LogInv, LogType, Failures
<1>2. /\ Emit(r, logging) /\ disk' = Reported(r, event, logging, finishing)
      /\ slips' = slips + Failures(logging) + Failures(finishing)
      /\ blind' = blind /\ slips' + blind' <= MaxFaults
      /\ reader' = [reader EXCEPT !.stayed = @ \cap disk'.dirs]
      /\ UNCHANGED <<logVars, stuck>>
  BY <1>1 DEF Report, Slip
<1>3. /\ DiskSound(disk') /\ Others(disk, disk', r) /\ Retained(disk, disk', logging)
      /\ disk'.events[r] = WriteLine(disk.events[r], event, logging)
      /\ disk'.until[r] = disk.until[r] /\ disk'.manifest[r] \in {"ended", disk.manifest[r]}
      /\ logging = "ok" => r \in disk'.dirs
      /\ r \in trace /\ finishing = "ok" /\ r \in disk'.dirs => disk'.manifest[r] = "ended"
  BY <1>1, <1>2, ReportedIs
<1>4. slips' \in Nat /\ slips' >= slips /\ slips' >= slips + Failures(logging)
  BY <1>1, <1>2
<1>5. EventsSound' /\ RunsSound'
  BY <1>1, <1>2, <1>3, <1>4, RunEvent
<1>6. /\ phase[r] = "running" /\ phase' = [phase EXCEPT ![r] = "reported"]
      /\ trace' = trace \ {r} /\ stuck' = stuck
      /\ finishing \in {"ok", "nothing"}
  BY DEF Report, Enter
<1>7. PhaseType' /\ phase'[r] = "reported" /\ \A o \in Run \ {r} : phase'[o] = phase[o]
  BY <1>1, <1>6 DEF PhaseType
<1>8. Told(r)'
  <2>1. ASSUME disk'.manifest[r] = "running" PROVE slips' > 0
    <3>1. disk.manifest[r] = "running"
      BY <1>3, <2>1
    <3>2. CASE r \notin trace
      BY <1>1, <1>4, <1>6, <3>1, <3>2 DEF Told
    <3>3. CASE r \in trace /\ finishing = "nothing"
      BY <1>1, <1>2, <3>3 DEF Failures
    <3>4. CASE r \in trace /\ finishing = "ok"
      <4>1. r \notin disk'.dirs
        BY <1>3, <2>1, <3>4
      <4> QED BY <1>3, <2>1, <4>1 DEF DiskSound, Tidy
    <3> QED BY <1>6, <3>2, <3>3, <3>4
  <2> QED BY <1>6, <1>7, <2>1 DEF Told
<1>9. PhaseSound'
  BY <1>1, <1>3, <1>4, <1>6, <1>7, <1>8, ToldStays
<1> QED BY <1>3, <1>5, <1>9 DEF HistoryInv

LEMMA OpenTraceStep ==
  ASSUME HistoryInv, NEW r \in Run, NEW how \in How, OpenTrace(r, how)
  PROVE  HistoryInv'
<1>1. /\ EventsSound /\ RunsSound /\ PhaseSound /\ PhaseType /\ Told(r)
      /\ EventType /\ ReaderType /\ LogInv /\ LogType /\ SizeSound
      /\ stuck \subseteq Run /\ DiskSound(disk) /\ DiskType(disk)
      /\ slips \in Nat /\ blind \in Nat /\ Failures(how) \in Nat /\ Len(owner) \in Nat
  BY DEF HistoryInv, PhaseSound, PhaseType, EventsSound, EventType, RunsSound,
         LogInv, LogType, Failures, DiskSound
<1>2. /\ disk' = Opened(disk, r, how) /\ slips' = slips + Failures(how)
      /\ blind' = blind /\ slips' + blind' <= MaxFaults
      /\ reader' = [reader EXCEPT !.stayed = @ \cap disk'.dirs]
      /\ UNCHANGED <<previous, current, _global_size, stuck, owner, failed, torn>>
  BY <1>1 DEF OpenTrace, Slip, logVars
<1>3. /\ DiskSound(disk') /\ DiskType(disk') /\ Others(disk, disk', r) /\ Retained(disk, disk', how)
      /\ disk'.events[r] = disk.events[r] /\ disk'.until[r] = disk.until[r]
      /\ disk'.manifest[r] = IF how = "ok" THEN "running" ELSE disk.manifest[r]
  BY <1>1, <1>2, OpenedIs DEF DiskSound
<1>4. slips' \in Nat /\ slips' >= slips /\ slips' >= slips + Failures(how)
  BY <1>1, <1>2
<1>5. /\ ListSound' /\ ReaderType'
      /\ reader'.step = reader.step /\ reader'.tail = reader.tail
      /\ reader'.rotated = reader.rotated
  BY <1>1, <1>2, ListStays DEF RunsSound
<1>6. EventsSound'
  <2>1. LogType' /\ SizeSound'
    BY <1>1, <1>2, <1>4, SizeStays
  <2>2. PICK b \in 0 .. Len(owner) : LogSound(b)
    BY <1>1 DEF LogInv
  <2>3. ReadSound(b)'
    BY <1>2, <1>5, <2>2 DEF LogSound, ReadSound
  <2>4. LogSound(b)'
    BY <1>2, <2>2, <2>3, LogStays
  <2>5. EventType'
    BY <1>1, <1>2 DEF EventType
  <2>6. LogInv'
    BY <1>2, <2>1, <2>4 DEF LogInv
  <2> QED BY <1>5, <2>5, <2>6 DEF EventsSound
<1>7. RowsSound(disk)'
  <2> SUFFICES ASSUME NEW o \in Run PROVE RowSound(disk, o)'
    BY DEF RowsSound
  <2>0. /\ RowSound(disk, o) /\ disk.events[o] \in File /\ disk.until[o] \in Nat
        /\ o \in Run \cup {Global}
    BY <1>1, DiskFields DEF RunsSound, RowsSound
  <2>1. PICK file \in File, from \in Nat : file = disk.events[o] /\ from = disk.until[o]
    BY <2>0
  <2>2. FileSound(file, o, from) /\ from <= Len(owner)
    BY <2>0, <2>1 DEF RowSound
  <2>3. CASE disk'.events[o] = disk.events[o] /\ disk'.until[o] = disk.until[o]
    <3>1. FileSound(file, o, from)'
      BY <1>2, <2>2, FileStays
    <3> QED BY <1>1, <1>2, <2>1, <2>2, <2>3, <3>1, Carried
  <2>4. CASE disk'.events[o] = Empty /\ disk'.until[o] = Len(owner)
    <3>1. PICK n \in Nat : n = Len(owner)
      BY <1>1
    <3>2. FileSound(Empty, o, n)
      BY <1>1, <2>0, <3>1, EmptySound
    <3>3. FileSound(Empty, o, n)'
      BY <1>2, <3>2, FileStays
    <3> QED BY <1>1, <1>2, <2>4, <3>1, <3>3, Carried
  <2> QED BY <1>3, <2>3, <2>4 DEF Others
<1>8. CountsSound'
  BY <1>1, <1>2, <1>3, <1>4, CountsStay DEF RunsSound
<1>9. /\ phase[r] = "queued" /\ phase' = [phase EXCEPT ![r] = "running"]
      /\ trace' = IF how = "ok" THEN trace \cup {r} ELSE trace
  BY DEF OpenTrace, Enter
<1>10. PhaseType' /\ phase'[r] = "running" /\ \A o \in Run \ {r} : phase'[o] = phase[o]
  BY <1>1, <1>2, <1>9 DEF PhaseType
<1>11. Told(r)'
  <2>1. CASE how = "ok"
    BY <1>3, <1>9, <1>10, <2>1 DEF Told
  <2>2. CASE how # "ok"
    <3>1. slips' > 0
      BY <1>1, <1>2, <2>2 DEF Failures
    <3> QED BY <1>1, <1>3, <1>9, <1>10, <2>2, <3>1 DEF Told
  <2> QED BY <2>1, <2>2
<1>12. PhaseSound'
  <2>1. trace' \ {r} = trace \ {r}
    BY <1>9
  <2> QED BY <1>1, <1>3, <1>4, <1>10, <1>11, <2>1, ToldStays
<1> QED BY <1>3, <1>5, <1>6, <1>7, <1>8, <1>12 DEF HistoryInv, RunsSound

------------------------------------------------------------------------------
(* The log's steps, and the readers' *)

LEMMA GlobalStep ==
  ASSUME HistoryInv, NEW how \in How, NEW stat \in BOOLEAN, NEW rename \in BOOLEAN,
         AppendGlobal(how, stat, rename)
  PROVE  HistoryInv'
<1>1. EventsSound'
  BY AppendStep DEF HistoryInv, EventsSound
<1>2. /\ EventType /\ LogType /\ ReaderType /\ RunsSound /\ PhaseSound /\ PhaseType
      /\ Len(owner) \in Nat /\ slips \in Nat /\ Global \in Run \cup {Global}
  BY DEF HistoryInv, EventsSound, LogInv, LogType, PhaseSound, EventType
<1>3. /\ Emit(Global, how) /\ disk' = disk /\ trace' = trace /\ phase' = phase /\ stuck' = stuck
      /\ reader'.left = reader.left /\ reader'.shown = reader.shown
      /\ reader'.stayed = reader.stayed
  BY <1>2 DEF AppendGlobal, runVars, ReaderType
<1>4. slips' \in Nat /\ slips' >= slips
  <2>1. PICK size \in Nat, moved \in BOOLEAN : Appends(how, stat, size, moved)
    BY <1>2, AppendIs
  <2> QED BY <1>2, <2>1 DEF Appends, Failures
<1>5. RowsSound(disk)'
  <2> SUFFICES ASSUME NEW o \in Run PROVE RowSound(disk, o)'
    BY DEF RowsSound
  <2>0. DiskType(disk) /\ o # Global
    BY <1>2 DEF RunsSound, DiskSound, Run, Global
  <2>1. /\ RowSound(disk, o) /\ disk.events[o] \in File /\ disk.until[o] \in Nat
        /\ Len(owner') = Len(owner) + 1 /\ o # Global
    BY <1>2, <1>3, <2>0, EmitIs, DiskFields DEF RunsSound, RowsSound
  <2>2. PICK file \in File, from \in Nat : file = disk.events[o] /\ from = disk.until[o]
    BY <2>1
  <2>3. FileSound(file, o, from) /\ from <= Len(owner)
    BY <2>1, <2>2 DEF RowSound
  <2>4. FileSound(file, o, from)'
    BY <1>2, <1>3, <2>1, <2>3, OtherSound
  <2> QED BY <1>2, <1>3, <2>1, <2>2, <2>3, <2>4, Carried
<1>6. CountsSound'
  <2>1. Cardinality(disk.dirs) \in Nat /\ Cardinality(stuck) \in Nat
    BY <1>2, RunsFinite, DiskFields DEF RunsSound, DiskSound, PhaseType
  <2> QED BY <1>2, <1>3, <1>4, <2>1, KeepType DEF RunsSound, CountsSound
<1>7. DiskSound(disk)' /\ ListSound'
  BY <1>2, <1>3 DEF RunsSound, DiskSound, DiskType, Dated, Tidy, ListSound
<1>8. PhaseSound'
  <2>1. slips > 0 => slips' > 0
    BY <1>2, <1>4
  <2> QED BY <1>2, <1>3, <2>1 DEF PhaseSound, PhaseType, Told
<1> QED BY <1>1, <1>5, <1>6, <1>7, <1>8 DEF HistoryInv, RunsSound

(* A read changes nothing but what the reader has seen ...                  *)
LEMMA ReaderStep ==
  ASSUME HistoryInv, UNCHANGED <<logVars, runVars, stuck, historyVars>>,
         ReaderType', ListSound', \A b : LogSound(b) => ReadSound(b)'
  PROVE  HistoryInv'
<1>1. /\ EventType /\ LogType /\ SizeSound /\ RunsSound /\ PhaseSound
      /\ slips \in Nat /\ blind + slips <= MaxFaults /\ blind \in Nat
  BY DEF HistoryInv, EventsSound, LogInv, LogType
<1>2. /\ UNCHANGED <<previous, current, _global_size, disk, trace, phase, stuck>>
      /\ UNCHANGED <<owner, failed, torn, blind, slips>>
  BY DEF logVars, runVars, historyVars
<1>3. LogInv'
  <2>1. LogType' /\ SizeSound'
    <3>1. slips' \in Nat /\ slips' >= slips /\ slips' + blind' <= MaxFaults
      BY <1>1, <1>2
    <3> QED BY <1>1, <1>2, <3>1, SizeStays
  <2>2. PICK b \in 0 .. Len(owner) : LogSound(b)
    BY DEF HistoryInv, EventsSound, LogInv
  <2>3. LogSound(b)'
    BY <1>2, <2>2, LogStays
  <2> QED BY <1>2, <2>1, <2>3 DEF LogInv
<1>4. EventType'
  BY <1>1, <1>2 DEF EventType
<1>5. RowsSound(disk)'
  <2> SUFFICES ASSUME NEW o \in Run PROVE RowSound(disk, o)'
    BY DEF RowsSound
  <2>1. RowSound(disk, o)
    BY <1>1 DEF RunsSound, RowsSound
  <2>2. \A file, from : FileSound(file, o, from) => FileSound(file, o, from)'
    BY <1>2, FileStays
  <2>3. /\ disk.until[o] \in Nat /\ Len(owner) \in Nat
    BY <1>1, DiskFields DEF RunsSound, DiskSound, EventType
  <2> QED BY <1>2, <2>1, <2>2, <2>3, Carried DEF RowSound
<1>6. DiskSound(disk)' /\ CountsSound'
  BY <1>1, <1>2 DEF RunsSound, DiskSound, DiskType, Dated, Tidy, CountsSound
<1>7. PhaseSound'
  BY <1>1, <1>2 DEF PhaseSound, PhaseType, Told
<1> QED BY <1>3, <1>4, <1>5, <1>6, <1>7 DEF HistoryInv, EventsSound, RunsSound

LEMMA NoReadIs ==
  /\ NoRead \in [step : {"idle", "half", "list"}, tail : Seq(Nat), rotated : BOOLEAN,
                 left : SUBSET Run, shown : SUBSET Run, stayed : SUBSET Run]
  /\ NoRead.step = "idle" /\ NoRead.stayed = {}
BY DEF NoRead

LEMMA ReadSteps ==
  ASSUME HistoryInv,
         ReadPrevious \/ ReadCurrent \/ ListBegin \/ ListEnd \/ \E r \in Run : ListEntry(r)
  PROVE  HistoryInv'
<1>1. /\ ReaderType /\ ListSound /\ LogType /\ DiskType(disk)
      /\ UNCHANGED <<logVars, runVars, stuck, historyVars>> /\ disk' = disk /\ previous' = previous
  BY DEF HistoryInv, EventsSound, RunsSound, LogInv, DiskSound, ReadPrevious, ReadCurrent,
         ListBegin, ListEnd, ListEntry, ReadStep, runVars, logVars
<1>2. /\ ReaderType' /\ ListSound' /\ \A b : LogSound(b) => ReadSound(b)'
  <2>1. CASE ReadPrevious
    <3>1. reader' = [NoRead EXCEPT !.step = "half", !.tail = previous.lines]
      BY <2>1 DEF ReadPrevious
    <3>2. previous.lines \in Seq(Nat)
      BY <1>1 DEF LogType, File
    <3>3. /\ ReaderType' /\ reader'.tail = previous.lines /\ reader'.stayed = {}
      BY <3>1, <3>2 DEF NoRead, ReaderType
    <3> QED BY <1>1, <3>3 DEF ListSound, ReadSound, LogSound, PreviousSound
  <2>2. CASE ReadCurrent \/ ListEnd
    <3>1. reader' = NoRead
      BY <2>2 DEF ReadCurrent, ListEnd
    <3> QED BY <3>1, NoReadIs DEF ReaderType, ListSound, ReadSound
  <2>3. CASE ListBegin
    <3> DEFINE candidates == { r \in disk.dirs : disk.events[r].lines # <<>> }
    <3>1. reader' = [NoRead EXCEPT !.step = "list", !.left = candidates, !.stayed = candidates]
      BY <2>3 DEF ListBegin
    <3>2. candidates \subseteq disk.dirs /\ candidates \in SUBSET Run
      BY <1>1, DiskFields
    <3> HIDE DEF candidates
    <3>3. /\ ReaderType' /\ reader'.step = "list"
          /\ reader'.stayed = candidates /\ reader'.left = candidates
      <4>1. reader' = [step |-> "list", tail |-> <<>>, rotated |-> FALSE,
                       left |-> candidates, shown |-> {}, stayed |-> candidates]
        BY <3>1 DEF NoRead
      <4>2. <<>> \in Seq(Nat) /\ {} \in SUBSET Run /\ FALSE \in BOOLEAN
        OBVIOUS
      <4> QED BY <3>2, <4>1, <4>2 DEF ReaderType
    <3> QED BY <1>1, <3>2, <3>3 DEF ListSound, ReadSound
  <2>4. ASSUME NEW r \in Run, ListEntry(r)
        PROVE  /\ ReaderType' /\ ListSound' /\ \A b : LogSound(b) => ReadSound(b)'
    <3> DEFINE S == IF r \in disk.dirs THEN reader.shown \cup {r} ELSE reader.shown
    <3>1. reader' = [reader EXCEPT !.left = reader.left \ {r}, !.shown = S]
      BY <1>1, <2>4 DEF ListEntry, LeftAfter, ReaderType
    <3>2. S \in SUBSET Run /\ reader.shown \subseteq S /\ (r \in disk.dirs => r \in S)
      BY <1>1 DEF ReaderType
    <3> HIDE DEF S
    <3>3. ReaderType' /\ ListSound'
      BY <1>1, <3>1, <3>2 DEF ReaderType, ListSound
    <3>4. /\ reader'.step = reader.step /\ reader'.tail = reader.tail
          /\ reader'.rotated = reader.rotated
      BY <1>1, <3>1 DEF ReaderType
    <3> QED BY <1>1, <3>3, <3>4 DEF LogSound, ReadSound
  <2> QED BY <2>1, <2>2, <2>3, <2>4
<1> QED BY <1>1, <1>2, ReaderStep

LEMMA RestartStep ==
  ASSUME HistoryInv, Restart
  PROVE  HistoryInv'
<1>1. /\ EventType /\ LogType /\ SizeSound /\ RunsSound /\ PhaseSound /\ PhaseType
      /\ slips \in Nat /\ blind + slips <= MaxFaults /\ blind \in Nat /\ Len(owner) \in Nat
  BY DEF HistoryInv, EventsSound, LogInv, LogType, PhaseSound, EventType
<1>2. /\ UNCHANGED <<previous, current, disk, stuck, owner, failed, torn, blind, slips>>
      /\ trace' = {} /\ _global_size' = Unknown /\ reader' = NoRead
      /\ phase' = [r \in Run |-> CASE phase[r] \in {"queued", "running"} -> "abandoned"
                                   [] phase[r] = "reported"             -> "done"
                                   [] OTHER                             -> phase[r]]
  BY DEF Restart, historyVars
<1>3. EventsSound'
  <2>1. LogType' /\ SizeSound'
    <3>1. slips' \in Nat /\ slips' >= slips /\ slips' + blind' <= MaxFaults
      BY <1>1, <1>2
    <3> QED BY <1>1, <1>2, <3>1, SizeStays
  <2>2. PICK b \in 0 .. Len(owner) : LogSound(b)
    BY DEF HistoryInv, EventsSound, LogInv
  <2>3. ReadSound(b)'
    BY <1>2, NoReadIs DEF ReadSound
  <2>4. LogSound(b)'
    BY <1>2, <2>2, <2>3, LogStays
  <2>5. EventType' /\ ReaderType'
    BY <1>1, <1>2, NoReadIs DEF EventType, ReaderType
  <2> QED BY <1>2, <2>1, <2>4, <2>5 DEF EventsSound, LogInv
<1>4. RowsSound(disk)'
  <2> SUFFICES ASSUME NEW o \in Run PROVE RowSound(disk, o)'
    BY DEF RowsSound
  <2>1. RowSound(disk, o)
    BY <1>1 DEF RunsSound, RowsSound
  <2>2. \A file, from : FileSound(file, o, from) => FileSound(file, o, from)'
    BY <1>2, FileStays
  <2>3. disk.until[o] \in Nat
    BY <1>1, DiskFields DEF RunsSound, DiskSound
  <2> QED BY <1>1, <1>2, <2>1, <2>2, <2>3, Carried DEF RowSound
<1>5. RunsSound'
  <2>1. DiskSound(disk)' /\ CountsSound'
    BY <1>1, <1>2 DEF RunsSound, DiskSound, DiskType, Dated, Tidy, CountsSound
  <2>2. ListSound'
    BY <1>2, NoReadIs DEF ListSound
  <2> QED BY <1>4, <2>1, <2>2 DEF RunsSound
<1>6. PhaseSound'
  <2>1. ASSUME NEW r \in Run
        PROVE  /\ phase[r] \in {"queued", "running"} => phase'[r] = "abandoned"
               /\ phase[r] = "reported" => phase'[r] = "done"
               /\ phase[r] \notin {"queued", "running", "reported"} => phase'[r] = phase[r]
    <3>1. phase'[r] = CASE phase[r] \in {"queued", "running"} -> "abandoned"
                        [] phase[r] = "reported"             -> "done"
                        [] OTHER                             -> phase[r]
      BY <1>2
    <3> QED BY <3>1
  <2>2. DOMAIN phase' = Run /\ phase' = [r \in Run |-> phase'[r]]
    BY <1>2
  <2>3. \A r \in Run : phase[r] \in {"new", "queued", "running", "reported", "done", "abandoned"}
    BY <1>1 DEF PhaseType, Over
  <2>4. \A r \in Run : phase'[r] \in {"new", "queued", "running", "reported", "done", "abandoned"}
    BY <2>1, <2>3
  <2>5. PhaseType'
    BY <1>1, <1>2, <2>2, <2>4 DEF PhaseType, Over
  <2>6. \A r \in Run : Told(r)'
    <3> SUFFICES ASSUME NEW r \in Run PROVE Told(r)'
      OBVIOUS
    <3>1. Told(r)
      BY <1>1 DEF PhaseSound
    <3> QED BY <1>2, <2>1, <2>3, <3>1 DEF Told
  <2> QED BY <2>5, <2>6 DEF PhaseSound
<1> QED BY <1>3, <1>5, <1>6 DEF HistoryInv

------------------------------------------------------------------------------
(* The theorems *)

LEMMA InitInv == Init => HistoryInv
<1> SUFFICES ASSUME Init PROVE HistoryInv
  OBVIOUS
<1>1. /\ previous = Empty /\ current = Empty /\ _global_size = Unknown
      /\ disk = NoRuns /\ trace = {} /\ phase = [r \in Run |-> "new"]
      /\ stuck \subseteq Run /\ Cardinality(stuck) <= MaxFaults
      /\ reader = NoRead /\ owner = <<>> /\ failed = {} /\ torn = {}
      /\ blind = 0 /\ slips = Cardinality(stuck)
  BY DEF Init
<1>2. EventType /\ Len(owner) = 0 /\ \A o : Of(o) = {}
  BY <1>1 DEF EventType, Of
<1>3. slips \in Nat /\ slips <= MaxFaults
  BY <1>1, RunsFinite
<1>4. ReaderType
  BY <1>1, NoReadIs DEF ReaderType
<1>5. LogInv
  <2>1. LogType
    BY <1>1, <1>3, EmptyType DEF LogType
  <2>2. SizeSound
    <3>1. max_bytes * (1 + blind) \in Nat
      BY <1>1, Product, HistoryAssumption
    <3>2. \A file \in {previous, current} : Len(file.lines) = 0
      BY <1>1, EmptyType
    <3> QED BY <1>1, <1>3, <3>1, <3>2 DEF SizeSound, PairBounded
  <2>3. 0 \in 0 .. Len(owner)
    BY <1>2
  <2>4. PreviousSound(0)
    BY <1>1, <1>2, EmptyType DEF PreviousSound, InOrder
  <2>5. CurrentSound(0)
    <3>1. FileSound(Empty, Global, Len(owner))
      BY <1>2, EmptySound
    <3>2. Cardinality(LaterEvents(0)) \in Nat
      BY <1>2, LaterFinite
    <3> QED BY <1>1, <1>2, <3>1, <3>2, EmptyType DEF CurrentSound
  <2>6. ReadSound(0)
    BY <1>1, NoReadIs DEF ReadSound
  <2> QED BY <2>1, <2>2, <2>3, <2>4, <2>5, <2>6 DEF LogInv, LogSound
<1>6. /\ disk.dirs = {} /\ DOMAIN disk.after = {}
      /\ \A r \in Run : disk.events[r] = Empty /\ disk.manifest[r] = "none" /\ disk.until[r] = 0
  BY <1>1 DEF NoRuns
<1>7. DiskSound(disk)
  <2>1. DiskType(disk)
    <3>1. [r \in {} |-> {}] \in Times
      <4>1. [r \in {} |-> {}] \in [{} -> SUBSET Run] /\ {} \in SUBSET Run
        OBVIOUS
      <4> QED BY <4>1 DEF Times
    <3>2. /\ [r \in Run |-> Empty] \in [Run -> File] /\ [r \in Run |-> 0] \in [Run -> Nat]
          /\ [r \in Run |-> "none"] \in [Run -> {"none", "running", "ended"}]
      BY EmptyType
    <3> QED BY <1>1, <3>1, <3>2 DEF DiskType, NoRuns
  <2> QED BY <1>6, <2>1 DEF DiskSound, Dated, Tidy
<1>8. RowsSound(disk)
  <2> SUFFICES ASSUME NEW r \in Run PROVE RowSound(disk, r)
    BY DEF RowsSound
  <2>1. FileSound(Empty, r, Len(owner))
    BY <1>2, EmptySound
  <2> QED BY <1>2, <1>6, <2>1 DEF RowSound
<1>9. CountsSound
  BY <1>1, <1>3, <1>6, FS_EmptySet, KeepType DEF CountsSound
<1>10. ListSound /\ PhaseSound
  BY <1>1, <1>6, NoReadIs DEF ListSound, PhaseSound, PhaseType, Told
<1> QED BY <1>2, <1>4, <1>5, <1>7, <1>8, <1>9, <1>10
        DEF HistoryInv, EventsSound, RunsSound

LEMMA NextInv == HistoryInv /\ [Next]_vars => HistoryInv'
<1> SUFFICES ASSUME HistoryInv, [Next]_vars PROVE HistoryInv'
  OBVIOUS
<1>1. ASSUME NEW how \in How \ {"made"}, NEW stat \in BOOLEAN, NEW rename \in BOOLEAN,
             AppendGlobal(how, stat, rename)
      PROVE  HistoryInv'
  BY <1>1, GlobalStep
<1>2. ASSUME NEW r \in Run, NEW how \in How, Queue(r, how) PROVE HistoryInv'
  BY <1>2, QueueStep
<1>3. ASSUME NEW r \in Run, NEW how \in How, Progress(r, how) PROVE HistoryInv'
  BY <1>3, ProgressStep
<1>4. ASSUME NEW r \in Run, NEW how \in How, OpenTrace(r, how) PROVE HistoryInv'
  BY <1>4, OpenTraceStep
<1>5. ASSUME NEW r \in Run, NEW how \in How, Consume(r, how) PROVE HistoryInv'
  BY <1>5, ConsumeStep
<1>6. ASSUME NEW r \in Run, NEW logging \in How, NEW finishing \in How,
             Report(r, logging, finishing)
      PROVE  HistoryInv'
  BY <1>6, ReportStep
<1>7. CASE Restart
  BY <1>7, RestartStep
<1>8. CASE ReadPrevious \/ ReadCurrent \/ ListBegin \/ ListEnd \/ \E r \in Run : ListEntry(r)
  BY <1>8, ReadSteps
<1>9. CASE UNCHANGED vars
  <2>1. UNCHANGED <<logVars, runVars, stuck, historyVars>> /\ reader' = reader
        /\ previous' = previous /\ disk' = disk
    BY <1>9 DEF vars, logVars, runVars
  <2>2. ReaderType' /\ ListSound' /\ \A b : LogSound(b) => ReadSound(b)'
    BY <2>1 DEF HistoryInv, EventsSound, RunsSound, ReaderType, ListSound, ReadSound, LogSound
  <2> QED BY <2>1, <2>2, ReaderStep
<1> QED BY <1>1, <1>2, <1>3, <1>4, <1>5, <1>6, <1>7, <1>8, <1>9 DEF Next

(* HistoryInv holds of every run of the module.                             *)
THEOREM HistoryInvariant == Spec => []HistoryInv
BY InitInv, NextInv, PTL DEF Spec

(* The previous generation ends at b, and the current one begins there.     *)
LEMMA Joined ==
  ASSUME NEW t \in Seq(Nat), NEW s \in Seq(Nat), NEW b \in Nat, InOrder(t), InOrder(s),
         \A k \in DOMAIN t : t[k] <= b,
         \A k \in DOMAIN s : s[k] = Garbage \/ b < s[k]
  PROVE  InOrder(t \o s) /\ Readable(t \o s) = Readable(t) \cup Readable(s)
<1> DEFINE u == t \o s
<1>1. /\ Len(t) \in Nat /\ Len(s) \in Nat /\ DOMAIN t = 1 .. Len(t) /\ DOMAIN s = 1 .. Len(s)
      /\ DOMAIN u = 1 .. Len(t) + Len(s) /\ u \in Seq(Nat)
      /\ \A k \in 1 .. Len(t) : u[k] = t[k]
      /\ \A k \in 1 .. Len(s) : u[Len(t) + k] = s[k]
  OBVIOUS
<1> HIDE DEF u
<1>2. ASSUME NEW k \in DOMAIN u, k \notin DOMAIN t
      PROVE  k - Len(t) \in DOMAIN s /\ u[k] = s[k - Len(t)]
  <2>1. k - Len(t) \in 1 .. Len(s) /\ k = Len(t) + (k - Len(t))
    BY <1>1, <1>2
  <2> QED BY <1>1, <2>1
<1>3. InOrder(u)
  <2> SUFFICES ASSUME NEW i \in DOMAIN u, NEW j \in DOMAIN u, i < j,
                      u[i] # Garbage, u[j] # Garbage
               PROVE  u[i] < u[j]
    BY DEF InOrder
  <2>1. CASE j \in DOMAIN t
    <3>1. i \in DOMAIN t
      BY <1>1, <2>1
    <3> QED BY <1>1, <2>1, <3>1 DEF InOrder
  <2>2. CASE i \notin DOMAIN t
    <3>1. j \notin DOMAIN t
      BY <1>1, <2>2
    <3>2. i - Len(t) \in DOMAIN s /\ j - Len(t) \in DOMAIN s /\ i - Len(t) < j - Len(t)
      BY <1>1, <1>2, <2>2, <3>1
    <3> QED BY <1>2, <2>2, <3>1, <3>2 DEF InOrder
  <2>3. CASE i \in DOMAIN t /\ j \notin DOMAIN t
    <3>1. u[i] = t[i] /\ u[i] \in Nat /\ u[j] \in Nat
      BY <1>1, <2>3
    <3>2. u[i] <= b /\ b < u[j]
      BY <1>2, <2>3, <3>1
    <3> QED BY <3>1, <3>2
  <2> QED BY <2>1, <2>2, <2>3
<1>4. Elements(u) = Elements(t) \cup Elements(s)
  <2>1. ASSUME NEW k \in DOMAIN u PROVE u[k] \in Elements(t) \cup Elements(s)
    <3>1. CASE k \in DOMAIN t
      BY <1>1, <3>1 DEF Elements
    <3>2. CASE k \notin DOMAIN t
      BY <1>2, <3>2 DEF Elements
    <3> QED BY <3>1, <3>2
  <2>2. ASSUME NEW k \in DOMAIN t PROVE t[k] \in Elements(u)
    <3>1. k \in DOMAIN u /\ u[k] = t[k]
      BY <1>1
    <3> QED BY <3>1 DEF Elements
  <2>3. ASSUME NEW k \in DOMAIN s PROVE s[k] \in Elements(u)
    <3>0. k \in 1 .. Len(s) /\ Len(t) \in Nat /\ Len(s) \in Nat
      BY <1>1
    <3>1. Len(t) + k \in 1 .. Len(t) + Len(s)
      BY <3>0
    <3>2. Len(t) + k \in DOMAIN u /\ u[Len(t) + k] = s[k]
      BY <1>1, <3>0, <3>1
    <3> QED BY <3>2 DEF Elements
  <2> QED BY <2>1, <2>2, <2>3 DEF Elements
<1> QED BY <1>3, <1>4 DEF Readable, u

(* What both generations have, however long ago the first was read.         *)
LEMMA TailIs ==
  ASSUME EventType, LogType, NEW b \in Nat, LogSound(b), NEW t \in Seq(Nat), InOrder(t),
         \A k \in DOMAIN t : t[k] <= b
  PROVE  LET joined == t \o current.lines
         IN  /\ InOrder(joined)
             /\ \A e \in Of(Global) :
                  \/ e \in Readable(joined) \/ Spoilt(e) \/ t # previous.lines
                  \/ /\ \A k \in Readable(joined) : k > e
                     /\ Cardinality(LaterEvents(e)) > max_bytes
<1> DEFINE joined == t \o current.lines
<1>1. /\ current.lines \in Seq(Nat) /\ InOrder(current.lines)
      /\ \A k \in DOMAIN current.lines : current.lines[k] = Garbage \/ b < current.lines[k]
      /\ \A e \in Of(Global) : e > b => e \in Readable(current.lines) \/ Spoilt(e)
  BY DEF LogSound, CurrentSound, FileSound, LogType, File
<1>2. InOrder(joined) /\ Readable(joined) = Readable(t) \cup Readable(current.lines)
  BY <1>1, Joined
<1> HIDE DEF joined
<1>3. ASSUME NEW e \in Of(Global), e \notin Readable(joined), ~Spoilt(e), t = previous.lines
      PROVE  /\ \A k \in Readable(joined) : k > e
             /\ Cardinality(LaterEvents(e)) > max_bytes
  <2>1. e \in Nat
    BY DEF Of, EventType
  <2>2. e <= b
    BY <1>1, <1>2, <1>3, <2>1
  <2>3. /\ \A k \in Readable(t) : k > e
        /\ Cardinality(LaterEvents(e)) > max_bytes
    BY <1>2, <1>3, <2>2 DEF LogSound, PreviousSound
  <2>4. ASSUME NEW k \in Readable(current.lines) PROVE k > e
    <3>1. k \in Nat /\ b < k
      BY <1>1 DEF Readable, Elements
    <3> QED BY <2>1, <2>2, <3>1
  <2> QED BY <1>2, <2>3, <2>4
<1> QED BY <1>2, <1>3 DEF joined

(* The global log's two generations are the newest events without a gap, in *)
(* bounded files, across rotation, failing calls and restarts               *)
(* (EventLog._append_global).                                               *)
THEOREM GlobalLogCorrect == Spec => []GlobalLogOK
<1>1. HistoryInv => GlobalLogOK
  <2> SUFFICES ASSUME HistoryInv PROVE GlobalLogOK
    OBVIOUS
  <2>1. /\ EventType /\ ReaderType /\ LogType /\ SizeSound /\ DiskType(disk) /\ PhaseType
    BY DEF HistoryInv, EventsSound, RunsSound, LogInv, DiskSound, PhaseSound
  <2>2. TypeOK
    BY <2>1, DiskFields DEF TypeOK, EventType, ReaderType, LogType, PhaseType
  <2>3. PICK b \in 0 .. Len(owner) : LogSound(b)
    BY DEF HistoryInv, EventsSound, LogInv
  <2>4. TailIsNewest
    <3>1. previous.lines \in Seq(Nat) /\ b \in Nat
      BY <2>1 DEF LogType, File
    <3>2. InOrder(previous.lines) /\ \A k \in DOMAIN previous.lines : previous.lines[k] <= b
      BY <2>3 DEF LogSound, PreviousSound
    <3> QED BY <2>1, <2>3, <3>1, <3>2, TailIs DEF TailIsNewest, Pair, LaterEvents
  <2> QED BY <2>1, <2>2, <2>4 DEF GlobalLogOK, SizeSound
<1> QED BY <1>1, HistoryInvariant, PTL

(* A run's history has every event since its directory was last pruned, but *)
(* for failed appends (EventLog._append_run, prune_runs).                   *)
THEOREM HistoriesAreComplete == Spec => []HistoryComplete
<1>1. HistoryInv => HistoryComplete
  <2> SUFFICES ASSUME HistoryInv, NEW r \in disk.dirs
               PROVE  LET lines == disk.events[r].lines
                      IN  /\ InOrder(lines)
                          /\ \A e \in Of(r) : e > disk.until[r] => e \in Readable(lines) \/ Spoilt(e)
    BY DEF HistoryComplete
  <2>1. r \in Run
    BY DiskFields DEF HistoryInv, RunsSound, DiskSound
  <2> QED BY <2>1 DEF HistoryInv, RunsSound, RowsSound, RowSound, FileSound
<1> QED BY <1>1, HistoryInvariant, PTL

(* Retention keeps its bound, but for failed calls, and prunes no run that  *)
(* fewer than keep_runs were written after (prune_runs).                    *)
THEOREM RetentionIsExact == Spec => []RunsRetained
<1>1. HistoryInv => RunsRetained
  BY DEF HistoryInv, RunsSound, DiskSound, Dated, CountsSound, RunsRetained, NewestRunsKept,
         RetentionBound
<1> QED BY <1>1, HistoryInvariant, PTL

(* Manifests tell of an outcome when there was one, and a reported outcome  *)
(* is in the manifest although the directory may have been pruned before    *)
(* (open_run_trace, RunTrace.finish after agent_finished).                  *)
THEOREM ManifestsTellTruth == Spec => OutcomesAreTrue
<1>1. HistoryInv => ManifestTruth
  <2> SUFFICES ASSUME HistoryInv, NEW r \in disk.dirs
               PROVE  /\ disk.manifest[r] = "ended" => phase[r] \in {"reported", "done"}
                      /\ disk.manifest[r] = "running"
                           => r \in trace \/ phase[r] = "abandoned" \/ slips > 0
    BY DEF ManifestTruth
  <2>1. r \in Run
    BY DiskFields DEF HistoryInv, RunsSound, DiskSound
  <2> QED BY <2>1 DEF HistoryInv, PhaseSound, Told
<1>2. HistoryInv =>
        [\A r \in Run : Report(r, "ok", "ok") /\ r \in trace
                          => r \in disk'.dirs /\ disk'.manifest[r] = "ended"]_vars
  <2> SUFFICES ASSUME HistoryInv, NEW r \in Run, Report(r, "ok", "ok"), r \in trace
               PROVE  r \in disk'.dirs /\ disk'.manifest[r] = "ended"
    OBVIOUS
  <2>1. "ok" \in How
    BY DEF How
  <2> QED BY <2>1, ReportStep
<1> QED BY <1>1, <1>2, HistoryInvariant, PTL DEF OutcomesAreTrue, OutcomeRecorded

(* The answer of a read in two steps is in order, and has a gap only if the *)
(* log was rotated in between; a listing leaves out no run that was there   *)
(* all the time (read_global_tail, list_runs).                              *)
THEOREM ReadsTellTruth == Spec => ReadsAreFaithful
<1>1. HistoryInv =>
        [ReadCurrent =>
           /\ InOrder(Answer)
           /\ \A e \in Of(Global) :
                \/ e \in Readable(Answer) \/ Spoilt(e) \/ reader.rotated
                \/ \A k \in Readable(Answer) : k > e]_vars
  <2> SUFFICES ASSUME HistoryInv, ReadCurrent
               PROVE  /\ InOrder(Answer)
                      /\ \A e \in Of(Global) :
                           \/ e \in Readable(Answer) \/ Spoilt(e) \/ reader.rotated
                           \/ \A k \in Readable(Answer) : k > e
    OBVIOUS
  <2>1. EventType /\ LogType /\ reader.tail \in Seq(Nat) /\ reader.step = "half"
    BY DEF HistoryInv, EventsSound, LogInv, ReaderType, ReadCurrent
  <2>2. PICK b \in 0 .. Len(owner) : LogSound(b)
    BY DEF HistoryInv, EventsSound, LogInv
  <2>3. /\ b \in Nat /\ InOrder(reader.tail) /\ \A k \in DOMAIN reader.tail : reader.tail[k] <= b
        /\ ~reader.rotated => reader.tail = previous.lines
    BY <2>1, <2>2 DEF LogSound, ReadSound
  <2> QED BY <2>1, <2>2, <2>3, TailIs DEF Answer
<1>2. HistoryInv => [ListEnd => reader.stayed \subseteq reader.shown]_vars
  BY DEF HistoryInv, RunsSound, ListSound, ListEnd
<1> QED BY <1>1, <1>2, HistoryInvariant, PTL DEF ReadsAreFaithful, AnswerIsTail, ListingComplete
==============================================================================
