----------------------------- MODULE RunHistory -----------------------------
(***************************************************************************)
(* Run history on disk (src/webhook_receiver/event_log.py, trace_log.py):  *)
(* the global event log, counted in memory and rotated to one previous     *)
(* generation; one directory per run, with its events and its manifest,    *)
(* opened by whichever writer comes first and pruned by number; and the    *)
(* endpoints of app.py that read them.  The writers run on the event loop, *)
(* each call in one piece; the reads run in worker threads, in between.    *)
(* A line is one unit long.                                                *)
(***************************************************************************)
EXTENDS Integers, Sequences, FiniteSets

CONSTANTS Runs,       \* bound: envelopes; envelope r is the r-th one queued
          keep_runs,  \* ACP_TRACE_KEEP_RUNS
          max_bytes,  \* size at which the global log is rotated
          MaxEvents,  \* bound: events emitted
          MaxFaults   \* bound: filesystem calls that fail

ASSUME HistoryAssumption ==
  /\ Runs \in Nat /\ MaxEvents \in Nat /\ MaxFaults \in Nat
  /\ keep_runs \in Int
  /\ max_bytes \in Nat \ {0}

VARIABLES previous,      \* events.jsonl.1 under the root
          current,       \* events.jsonl under the root
          _global_size,  \* size of the latter as counted, or Unknown
          disk,          \* the run directories
          stuck,         \* those of them that rmtree cannot remove
          trace,         \* runs with an open RunTrace
          phase,         \* where each envelope is
          reader,        \* the read in progress
          owner,         \* history: the log each event went to
          failed,        \* history: events whose append raised
          torn,          \* history: those among them that left part of a line
          blind,         \* history: failed stats of the global log
          slips          \* history: other filesystem calls that failed

logVars     == <<previous, current, _global_size>>
runVars     == <<disk, trace, phase>>
historyVars == <<owner, failed, torn, blind, slips>>
vars == <<logVars, runVars, stuck, reader, historyVars>>

Run     == 1 .. Runs
Global  == 0     \* the owner of an event without a run id
Unknown == -1

keep == IF keep_runs > 1 THEN keep_runs ELSE 1

(* A file is its lines, the event in each or Garbage, and whether the last *)
(* line still lacks its end.                                               *)
Garbage == 0
Empty   == [lines |-> <<>>, open |-> FALSE]

(* Which run directories exist; of every run that ever had one, those whose *)
(* directories were modified after its own; what is in them; and, as        *)
(* history, the last event before a directory was removed.                  *)
NoRuns == [dirs |-> {}, after |-> [r \in {} |-> {}], events |-> [r \in Run |-> Empty],
           manifest |-> [r \in Run |-> "none"], until |-> [r \in Run |-> 0]]

(* What a read has seen so far, and what the disk did behind its back. *)
NoRead == [step |-> "idle", tail |-> <<>>, rotated |-> FALSE,
           left |-> {}, shown |-> {}, stayed |-> {}]

Init ==
  /\ previous = Empty /\ current = Empty /\ _global_size = Unknown
  /\ disk = NoRuns /\ trace = {} /\ phase = [r \in Run |-> "new"]
  /\ stuck \in { S \in SUBSET Run : Cardinality(S) <= MaxFaults }
  /\ reader = NoRead
  /\ owner = <<>> /\ failed = {} /\ torn = {}
  /\ blind = 0 /\ slips = Cardinality(stuck)

------------------------------------------------------------------------------
(* What a write may come to: it works; nothing happens; the directory is   *)
(* made and no more; or part of the line is written.                       *)
How == {"ok", "nothing", "made", "torn"}

(* faulty: the file is opened with "w". *)
Overwrite(file, e, how) ==
  [lines |-> <<IF how = "ok" THEN e ELSE Garbage>>, open |-> how # "ok"]

(* A line written behind a fragment is glued to it, and lost with it. *)
WriteLine(file, e, how) ==
  CASE how = "ok"   -> [lines |-> Append(file.lines, IF file.open THEN Garbage ELSE e),
                        open |-> FALSE]
    [] how = "torn" -> [lines |-> Append(file.lines, Garbage), open |-> TRUE]
    [] OTHER        -> file

event == Len(owner) + 1

(* EventStore.emit hands the event to EventLog.append; `except OSError` *)
(* there swallows the failure.                                          *)
Emit(o, how) ==
  /\ Len(owner) < MaxEvents
  /\ owner' = Append(owner, o)
  /\ failed' = IF how = "ok" THEN failed ELSE failed \cup {event}
  /\ torn' = IF how = "torn" THEN torn \cup {event} ELSE torn

Slip(n, b) == slips' = slips + n /\ blind' = blind + b /\ slips' + blind' <= MaxFaults

Failures(how) == IF how = "ok" THEN 0 ELSE 1

------------------------------------------------------------------------------
(* EventLog._append_global *)

(* faulty: the count starts again although the file could not be moved. *)
ResetAnyway(size, moved) == IF size >= max_bytes THEN 0 ELSE size

SizeAfter(size, moved) == IF moved THEN 0 ELSE size

(* stat and rename tell whether these two calls work. *)
AppendGlobal(how, stat, rename) ==
  LET size  == IF _global_size # Unknown THEN _global_size
               ELSE IF stat THEN Len(current.lines) ELSE 0
      full  == size >= max_bytes
      moved == full /\ rename
  IN  /\ Emit(Global, how)
      /\ stat \/ _global_size = Unknown
      /\ rename \/ full
      /\ Slip(Failures(how) + IF rename THEN 0 ELSE 1, IF stat THEN 0 ELSE 1)
      /\ previous' = IF moved THEN current ELSE previous
      /\ current' = WriteLine(IF moved THEN Empty ELSE current, event, how)
      /\ _global_size' = SizeAfter(size, moved) + 1 - Failures(how)
      /\ reader' = [reader EXCEPT !.rotated = @ \/ moved]
      /\ UNCHANGED <<runVars, stuck>>

------------------------------------------------------------------------------
(* The run directories *)

Touch(d, r) ==
  [d EXCEPT !.dirs = @ \cup {r},
            !.after = [o \in DOMAIN @ \cup {r} |-> IF o = r THEN {} ELSE @[o] \cup {r}]]

(* The directories modified after r's. *)
Newer(d, r) == d.after[r] \cap d.dirs

(* faulty: by the time of creation. *)
StaleByBirth(d) == { r \in d.dirs : Cardinality({ o \in d.dirs : o > r }) >= keep }

(* All but the keep newest. *)
Stale(d) == { r \in d.dirs : Cardinality(Newer(d, r)) >= keep }

(* prune_runs, protecting r *)
Prune(d, r) ==
  LET gone == Stale(d) \ (stuck \cup {r})
  IN  [d EXCEPT !.dirs = @ \ gone,
                !.events = [o \in Run |-> IF o \in gone THEN Empty ELSE @[o]],
                !.manifest = [o \in Run |-> IF o \in gone THEN "none" ELSE @[o]],
                !.until = [o \in Run |-> IF o \in gone THEN Len(owner) ELSE @[o]]]

Fresh(d, r) == r \notin d.dirs

(* EventLog._append_run: mkdir and the new file set the modification time. *)
Logged(d, r, e, how) ==
  LET made    == IF d.events[r].lines = <<>> THEN Touch(d, r) ELSE d
      written == [made EXCEPT !.events[r] = WriteLine(@, e, how)]
  IN  CASE how = "nothing"           -> d
        [] how = "ok" /\ Fresh(d, r) -> Prune(written, r)
        [] OTHER                     -> written

(* RunTrace._write_manifest: a temporary file, then an atomic rename. *)
Manifest(d, r, m) == Touch([d EXCEPT !.manifest[r] = m], r)

(* open_run_trace: mkdir, harness.log, manifest, prune *)
Opened(d, r, how) ==
  CASE how = "ok"      -> Prune(Manifest(d, r, "running"), r)
    [] how = "nothing" -> d
    [] OTHER           -> Touch(d, r)

(* RunTrace.finish, which raises where the directory is gone *)
Finished(d, r, how) == IF how = "ok" /\ r \in d.dirs THEN Manifest(d, r, "ended") ELSE d

(* faulty: the outcome is written before the event. *)
ReportedLate(r, e, logging, finishing) ==
  Logged(IF r \in trace THEN Finished(disk, r, finishing) ELSE disk, r, e, logging)

(* AcpHost.run: agent_finished, then trace.finish *)
Reported(r, e, logging, finishing) ==
  LET logged == Logged(disk, r, e, logging)
  IN  IF r \in trace THEN Finished(logged, r, finishing) ELSE logged

------------------------------------------------------------------------------
(* One envelope's life, as far as it leaves traces *)

Enter(r, p) == phase' = [phase EXCEPT ![r] = p]

Over == {"done", "abandoned"}

(* The envelope the consumer holds, or takes next. *)
AtHead(r) == phase[r] \notin Over /\ \A o \in 1 .. r - 1 : phase[o] \in Over

(* An event with r's id, and nothing else. *)
LogRun(r, how) ==
  /\ Emit(r, how)
  /\ disk' = Logged(disk, r, event, how)
  /\ Slip(Failures(how), 0)
  /\ reader' = [reader EXCEPT !.stayed = @ \cap disk'.dirs]
  /\ UNCHANGED <<logVars, stuck>>

(* prompt_queued *)
Queue(r, how) ==
  /\ phase[r] = "new"
  /\ \A o \in 1 .. r - 1 : phase[o] # "new"
  /\ LogRun(r, how)
  /\ Enter(r, "queued")
  /\ UNCHANGED trace

(* sandbox and agent events of the run *)
Progress(r, how) ==
  /\ AtHead(r)
  /\ phase[r] # "new"
  /\ LogRun(r, how)
  /\ UNCHANGED <<trace, phase>>

OpenTrace(r, how) ==
  /\ AtHead(r)
  /\ phase[r] = "queued"
  /\ how # "torn"
  /\ disk' = Opened(disk, r, how)
  /\ trace' = IF how = "ok" THEN trace \cup {r} ELSE trace
  /\ Enter(r, "running")
  /\ Slip(Failures(how), 0)
  /\ reader' = [reader EXCEPT !.stayed = @ \cap disk'.dirs]
  /\ UNCHANGED <<logVars, stuck, owner, failed, torn>>

(* The session is over, either way. *)
Report(r, logging, finishing) ==
  /\ phase[r] = "running"
  /\ finishing \in {"ok", "nothing"}
  /\ finishing = "nothing" => r \in trace
  /\ Emit(r, logging)
  /\ disk' = Reported(r, event, logging, finishing)
  /\ Slip(Failures(logging) + Failures(finishing), 0)
  /\ trace' = trace \ {r}
  /\ Enter(r, "reported")
  /\ reader' = [reader EXCEPT !.stayed = @ \cap disk'.dirs]
  /\ UNCHANGED <<logVars, stuck>>

(* prompt_consumed, also of a run that had no workspace *)
Consume(r, how) ==
  /\ AtHead(r)
  /\ phase[r] \in {"queued", "reported"}
  /\ LogRun(r, how)
  /\ Enter(r, "done")
  /\ UNCHANGED trace

(* Shutdown or crash, and the next boot: the disk is all that is left. *)
Restart ==
  /\ \E r \in Run : phase[r] \notin Over \cup {"new"}
  /\ phase' = [r \in Run |-> CASE phase[r] \in {"queued", "running"} -> "abandoned"
                                [] phase[r] = "reported"             -> "done"
                                [] OTHER                             -> phase[r]]
  /\ trace' = {}
  /\ _global_size' = Unknown
  /\ reader' = NoRead
  /\ UNCHANGED <<previous, current, disk, stuck, historyVars>>

------------------------------------------------------------------------------
(* The endpoints, in a worker thread each *)

ReadStep == UNCHANGED <<logVars, runVars, stuck, historyVars>>

(* read_global_tail opens the previous generation first ... *)
ReadPrevious ==
  /\ reader.step = "idle"
  /\ reader' = [NoRead EXCEPT !.step = "half", !.tail = previous.lines]
  /\ ReadStep

(* What _read_tail_pair goes through; what it cannot parse is Garbage, and  *)
(* not in the answer.                                                       *)
Answer == reader.tail \o current.lines

(* ... and then the current one. *)
ReadCurrent ==
  /\ reader.step = "half"
  /\ reader' = NoRead
  /\ ReadStep

(* list_runs takes the directories with events ... *)
ListBegin ==
  LET candidates == { r \in disk.dirs : disk.events[r].lines # <<>> }
  IN  /\ reader.step = "idle"
      /\ reader' = [NoRead EXCEPT !.step = "list", !.left = candidates,
                                  !.stayed = candidates]
      /\ ReadStep

(* faulty: the first directory that is gone ends the listing. *)
LeftAfterFailure(r) == IF r \in disk.dirs THEN reader.left \ {r} ELSE {}

LeftAfter(r) == reader.left \ {r}

(* ... and looks at each, leaving out one that is gone by now. *)
ListEntry(r) ==
  /\ r \in reader.left
  /\ reader' = [reader EXCEPT !.left = LeftAfter(r),
                              !.shown = IF r \in disk.dirs THEN @ \cup {r} ELSE @]
  /\ ReadStep

ListEnd ==
  /\ reader.step = "list"
  /\ reader.left = {}
  /\ reader' = NoRead
  /\ ReadStep

------------------------------------------------------------------------------

Next == \/ \E how \in How \ {"made"}, stat, rename \in BOOLEAN :
             AppendGlobal(how, stat, rename)
        \/ \E r \in Run, how \in How :
             Queue(r, how) \/ Progress(r, how) \/ OpenTrace(r, how) \/ Consume(r, how)
        \/ \E r \in Run, logging, finishing \in How : Report(r, logging, finishing)
        \/ Restart
        \/ ReadPrevious \/ ReadCurrent
        \/ ListBegin \/ ListEnd \/ \E r \in Run : ListEntry(r)

Spec == Init /\ [][Next]_vars

------------------------------------------------------------------------------
(* Properties *)

File == [lines : Seq(Nat), open : BOOLEAN]

TypeOK ==
  /\ previous \in File /\ current \in File
  /\ _global_size \in Nat \cup {Unknown}
  /\ disk.dirs \subseteq Run
  /\ DOMAIN disk.after \subseteq Run
  /\ \A r \in DOMAIN disk.after : disk.after[r] \subseteq Run
  /\ disk.events \in [Run -> File]
  /\ disk.manifest \in [Run -> {"none", "running", "ended"}]
  /\ stuck \subseteq Run
  /\ trace \subseteq Run
  /\ phase \in [Run -> {"new", "queued", "running", "reported"} \cup Over]
  /\ reader.step \in {"idle", "half", "list"}
  /\ owner \in Seq(Run \cup {Global})
  /\ torn \subseteq failed /\ failed \subseteq DOMAIN owner
  /\ blind \in Nat /\ slips \in Nat /\ blind + slips <= MaxFaults

Of(o) == { e \in DOMAIN owner : owner[e] = o }

(* Lost on the way to its file: the append raised, or the one before it    *)
(* left a fragment there.                                                  *)
Spoilt(e) ==
  \/ e \in failed
  \/ \E f \in torn : /\ f < e /\ owner[f] = owner[e]
                     /\ \A g \in f + 1 .. e - 1 : g \in failed \/ owner[g] # owner[e]

Elements(s) == { s[k] : k \in DOMAIN s }

Readable(lines) == Elements(lines) \ {Garbage}

InOrder(lines) ==
  \A i, j \in DOMAIN lines : i < j /\ Garbage \notin {lines[i], lines[j]} => lines[i] < lines[j]

Pair == previous.lines \o current.lines

(* The two generations of the global log hold, in order and without a gap, *)
(* the latest events, at least max_bytes of them; of an event missing in   *)
(* between the append failed, or it was glued to a fragment                *)
(* (_append_global across rotation, failing calls and restarts).           *)
TailIsNewest ==
  /\ InOrder(Pair)
  /\ \A e \in Of(Global) :
       \/ e \in Readable(Pair)
       \/ Spoilt(e)
       \/ /\ \A k \in Readable(Pair) : k > e
          /\ Cardinality({ f \in Of(Global) : f > e }) > max_bytes

(* "The file pair stays bounded": a rename or a write that fails costs one *)
(* line, a stat that fails one generation, and no more, for all that the   *)
(* size is only counted (_append_global's _global_size).                   *)
PairBounded ==
  \A file \in {previous, current} :
    Len(file.lines) <= max_bytes * (1 + blind) + slips

(* What read_global_tail answers is in order, with no event twice, and has *)
(* a gap only if the log was rotated between its two reads.                *)
AnswerIsTail ==
  [][ReadCurrent =>
       /\ InOrder(Answer)
       /\ \A e \in Of(Global) :
            \/ e \in Readable(Answer) \/ Spoilt(e) \/ reader.rotated
            \/ \A k \in Readable(Answer) : k > e]_vars

(* list_runs leaves out no run whose directory was there all the time,     *)
(* however many are pruned under its hands.                                *)
ListingComplete == [][ListEnd => reader.stayed \subseteq reader.shown]_vars

(* A run's history is complete from the last time on that its directory    *)
(* was pruned, but for failed appends: pruning takes it as a whole, and a  *)
(* later event starts it again (_append_run, prune_runs).                  *)
HistoryComplete ==
  \A r \in disk.dirs :
    LET lines == disk.events[r].lines
    IN  /\ InOrder(lines)
        /\ \A e \in Of(r) : e > disk.until[r] => e \in Readable(lines) \/ Spoilt(e)

(* Only the directory of a run that keep_runs others were written after is *)
(* pruned; the run in execution is no exception, it loses its history if   *)
(* that many are queued behind it (prune_runs protects the caller only).   *)
NewestRunsKept ==
  \A r \in DOMAIN disk.after \ disk.dirs : Cardinality(disk.after[r]) >= keep

(* Retention holds: only a directory that could not be removed, or one     *)
(* whose opening failed before it pruned, exceeds keep_runs.               *)
RetentionBound == Cardinality(disk.dirs) <= keep + slips

(* A run that ends with a trace has its outcome in the manifest then, even *)
(* if its directory was pruned under it: agent_finished brings it back     *)
(* before RunTrace.finish needs it.                                        *)
OutcomeRecorded ==
  [][\A r \in Run : Report(r, "ok", "ok") /\ r \in trace
                      => r \in disk'.dirs /\ disk'.manifest[r] = "ended"]_vars

(* "That absence is the record of an abandoned run": a manifest with an    *)
(* outcome belongs to a run that ended; one without, to a run in execution *)
(* or cut off, unless writing the outcome failed.                          *)
ManifestTruth ==
  \A r \in disk.dirs :
    /\ disk.manifest[r] = "ended" => phase[r] \in {"reported", "done"}
    /\ disk.manifest[r] = "running" => r \in trace \/ phase[r] = "abandoned" \/ slips > 0

(* The global log, over rotation, failing calls and restarts. *)
GlobalLogOK == TypeOK /\ TailIsNewest /\ PairBounded

(* Retention takes no run too many and leaves none too many. *)
RunsRetained == NewestRunsKept /\ RetentionBound

(* A run's outcome gets into its manifest, and nothing but an outcome.     *)
OutcomesAreTrue == []ManifestTruth /\ OutcomeRecorded

(* What the endpoints answer is what was on disk, although both read it in *)
(* several steps while it is rotated and pruned.                           *)
ReadsAreFaithful == AnswerIsTail /\ ListingComplete
==============================================================================
