------------------------------ MODULE NativeJournal ------------------------------
(***************************************************************************)
(* The journal of the calls that were handed to gh.  Processes append to   *)
(* it without a lock, one line each; a process that finds it too long      *)
(* renames it, under a lock it does not wait for, and so replaces the one  *)
(* generation that is kept besides.  Each step is a call to the system,    *)
(* others run between any two, and every one may fail or be the last of    *)
(* its process.  A summary reads both generations, one after the other.    *)
(*                                                                         *)
(* The journal of one directory is followed.  What its writers do when     *)
(* they fail here, in another directory, does not touch it.                *)
(***************************************************************************)
EXTENDS Naturals, Sequences

CONSTANTS
    Writers,
    NoWriter,
    Limit,       \* nativeJournalLimit, in lines
    MaxLines,    \* bound: lines that are written
    MaxStops     \* bound: writers that fail or die

ASSUME JournalAssumption ==
    NoWriter \notin Writers /\ Limit \in Nat /\ MaxLines \in Nat /\ MaxStops \in Nat

VARIABLES
    size,        \* lines of each file that was created
    journal,     \* the file under the journal's name, 0 for none,
    previous,    \* and under the name of the previous generation
    rotating,    \* who holds the lock
    writer,
    summary,
    stops,
    landed       \* history: lines written to a file that had one of the names

journalVars == <<size, journal, previous, rotating, writer, summary, stops, landed>>

NewWriter == [stage |-> "idle", file |-> 0]
NoSummary == [stage |-> "previous", total |-> 0]

JournalInit ==
    /\ size = <<>> /\ journal = 0 /\ previous = 0
    /\ rotating = NoWriter
    /\ writer = [w \in Writers |-> NewWriter]
    /\ summary = NoSummary
    /\ stops = 0 /\ landed = 0

Lines(file) == IF file = 0 THEN 0 ELSE size[file]

At(w, stage) == writer[w].stage = stage
GoOn(w, stage) == writer' = [writer EXCEPT ![w].stage = stage]

\* The journal is opened, and created when it is not there; again after a rotation.
OpenJournal(w) ==
    LET next == IF At(w, "idle") THEN "stat" ELSE "write"
    IN  /\ writer[w].stage \in {"idle", "reopen"}
        /\ \/ /\ journal # 0
              /\ writer' = [writer EXCEPT ![w] = [stage |-> next, file |-> journal]]
              /\ UNCHANGED <<size, journal>>
           \/ /\ journal = 0
              /\ size' = Append(size, 0)
              /\ journal' = Len(size')
              /\ writer' = [writer EXCEPT ![w] = [stage |-> next, file |-> journal']]
        /\ landed < MaxLines
        /\ UNCHANGED <<previous, rotating, summary, stops, landed>>

\* The size is that of the file it has open.
Stat(w) ==
    /\ At(w, "stat")
    /\ GoOn(w, IF Lines(writer[w].file) > Limit THEN "lock" ELSE "write")
    /\ UNCHANGED <<size, journal, previous, rotating, summary, stops, landed>>

\* Contention defers the rotation.
TryLock(w) ==
    /\ At(w, "lock")
    /\ \/ rotating = NoWriter /\ rotating' = w /\ GoOn(w, "check")
       \/ rotating # NoWriter /\ UNCHANGED rotating /\ GoOn(w, "reopen")
    /\ UNCHANGED <<size, journal, previous, summary, stops, landed>>

\* Mutant: the size is not looked at again.
StillThere == journal # 0

StillTooLong == journal # 0 /\ Lines(journal) > Limit

\* Another process may have rotated since; then there is nothing left to do.
CheckAgain(w) ==
    /\ At(w, "check")
    /\ \/ StillTooLong /\ GoOn(w, "remove") /\ UNCHANGED rotating
       \/ ~StillTooLong /\ GoOn(w, "reopen") /\ rotating' = NoWriter
    /\ UNCHANGED <<size, journal, previous, summary, stops, landed>>

RemovePrevious(w) ==
    /\ At(w, "remove")
    /\ previous' = 0
    /\ GoOn(w, "rename")
    /\ UNCHANGED <<size, journal, rotating, summary, stops, landed>>

Rename(w) ==
    /\ At(w, "rename")
    /\ previous' = journal /\ journal' = 0
    /\ rotating' = NoWriter
    /\ GoOn(w, "reopen")
    /\ UNCHANGED <<size, summary, stops, landed>>

\* The file may have been renamed meanwhile, or even removed.
WriteLine(w) ==
    LET file == writer[w].file
    IN  /\ At(w, "write") /\ landed < MaxLines
        /\ size' = [size EXCEPT ![file] = @ + 1]
        /\ landed' = IF file \in {journal, previous} THEN landed + 1 ELSE landed
        /\ writer' = [writer EXCEPT ![w] = NewWriter]
        /\ UNCHANGED <<journal, previous, rotating, summary, stops>>

\* An error drops the record; death does too, and closes the lock.
Stop(w) ==
    /\ ~At(w, "idle") /\ stops < MaxStops
    /\ stops' = stops + 1
    /\ rotating' = IF rotating = w THEN NoWriter ELSE rotating
    /\ writer' = [writer EXCEPT ![w] = NewWriter]
    /\ UNCHANGED <<size, journal, previous, summary, landed>>

\* Mutant: the current one is.
CurrentFirst == <<"journal", "previous">>

\* The previous generation is counted first.
SummaryOrder == <<"previous", "journal">>

Generation(name) == IF name = "journal" THEN journal ELSE previous

Summarize ==
    /\ summary.stage \in {"previous", "journal"}
    /\ LET i == IF summary.stage = "previous" THEN 1 ELSE 2
       IN  summary' = [summary EXCEPT
               !.stage = IF i = 1 THEN "journal" ELSE "done",
               !.total = @ + Lines(Generation(SummaryOrder[i]))]
    /\ UNCHANGED <<size, journal, previous, rotating, writer, stops, landed>>

JournalNext ==
    \/ Summarize
    \/ \E w \in Writers :
         \/ OpenJournal(w) \/ Stat(w) \/ TryLock(w) \/ CheckAgain(w)
         \/ RemovePrevious(w) \/ Rename(w) \/ WriteLine(w) \/ Stop(w)

JournalSpec == JournalInit /\ [][JournalNext]_journalVars

--------------------------------------------------------------------------------
(* Types and properties.                                                   *)

JournalTypeOK ==
    /\ size \in Seq(Nat)
    /\ {journal, previous} \subseteq 0..Len(size)
    /\ rotating \in Writers \cup {NoWriter}
    /\ writer \in [Writers ->
         [stage : {"idle", "stat", "lock", "check", "remove", "rename", "reopen", "write"},
          file : 0..Len(size)]]
    /\ summary \in [stage : {"previous", "journal", "done"}, total : Nat]
    /\ stops \in 0..MaxStops /\ landed \in 0..MaxLines

\* However rotations meet each other, writers and deaths, the journal keeps a full
\* generation, or everything where there has been less.  A record that was written
\* to a file that two rotations had taken from its writer was never in it.
JournalKeepsItsTail ==
    \/ Lines(journal) + Lines(previous) > Limit
    \/ Lines(journal) + Lines(previous) = landed

\* A summary counts no record twice, though the journal may be renamed between its
\* reading of the two generations; what it then leaves out is a whole generation.
SummariesCountOnce == summary.total <= landed
================================================================================
