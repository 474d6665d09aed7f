------------------------------- MODULE RelaySlots -------------------------------
(***************************************************************************)
(* The command-line processes of one user share a budget of calls to the   *)
(* relay.  A slot is a file that the process of a call has locked; the     *)
(* system gives the lock back when the file is closed or the process dies. *)
(* A process that finds every slot taken tries again until a deadline, and *)
(* then goes without.  One that cannot use the first directory uses the    *)
(* files of the second, which are another budget.                          *)
(***************************************************************************)
EXTENDS Naturals, FiniteSets

CONSTANTS
    Processes,
    NoProcess,
    Count,       \* OCTOPOOL_RELAY_CONCURRENCY; nothing is shared if it is 0
    Sandboxes,   \* sets of directories that a process may be kept out of
    Wait,        \* relaySlotWait
    LastBeat,    \* bound: the clock
    MaxInode,    \* bound: files that are ever created
    MaxSnags     \* bound: calls to the system that fail

ASSUME SlotsAssumption ==
    /\ NoProcess \notin Processes
    /\ Count \in Nat \ {0} /\ Wait \in Nat /\ LastBeat \in Nat
    /\ MaxInode \in Nat /\ MaxSnags \in Nat
    /\ Sandboxes \subseteq SUBSET {"temp", "cache"}

VARIABLES
    beat,
    slotFile,    \* the file under the name of each slot, 0 for none
    created,
    locked,      \* who holds the lock of each file
    process,
    snags

slotVars == <<beat, slotFile, created, locked, process, snags>>

Directories == {"temp", "cache"}
Slots == 0..(Count - 1)
Files == 1..MaxInode

\* excuse is why the process works outside of the budget, if it does.
NewProcess(kept) ==
    [stage |-> "idle", keptOut |-> kept, dir |-> "temp", slot |-> 0, tried |-> 0,
     file |-> 0, until |-> 0, excuse |-> {}]

SlotsInit ==
    /\ beat = 0
    /\ slotFile = [d \in Directories |-> [s \in Slots |-> 0]]
    /\ created = 0
    /\ locked = [f \in Files |-> NoProcess]
    /\ \E kept \in [Processes -> Sandboxes] :
         process = [p \in Processes |-> NewProcess(kept[p])]
    /\ snags = 0

Set(p, fields) ==
    process' = [process EXCEPT ![p] =
        [x \in DOMAIN process[p] |->
            IF x \in DOMAIN fields THEN fields[x] ELSE process[p][x]]]

Expired(p) == beat >= process[p].until

\* withRelaySlot, for an attempt at the relay with the policy it needs, or for the policy
\* alone; a call within it goes on with what it has.  The private directory comes first.
AcquireSlot(p) ==
    /\ process[p].stage = "idle"
    /\ Set(p, [stage |-> "directory", dir |-> "temp", until |-> beat + Wait,
               excuse |-> {}])
    /\ UNCHANGED <<beat, slotFile, created, locked, snags>>

\* Where a process cannot use a directory it goes to the next, with what is left of
\* its time; after the last it works without a slot.
Elsewhere(p) ==
    LET without == process[p].excuse \cup {process[p].dir}
    IN  Set(p, IF process[p].dir = "temp"
               THEN [stage |-> "directory", dir |-> "cache", file |-> 0, excuse |-> without]
               ELSE [stage |-> "working", file |-> 0, excuse |-> without])

EnterDirectory(p) ==
    /\ process[p].stage = "directory"
    /\ IF process[p].dir \in process[p].keptOut
       THEN Elsewhere(p)
       ELSE \E s \in Slots : Set(p, [stage |-> "opening", slot |-> s, tried |-> 0])
    /\ UNCHANGED <<beat, slotFile, created, locked, snags>>

\* A file that is there is never removed.
Open(p) ==
    LET dir == process[p].dir  slot == process[p].slot
    IN  /\ process[p].stage = "opening" /\ ~Expired(p)
        /\ \/ /\ slotFile[dir][slot] # 0
              /\ Set(p, [stage |-> "locking", file |-> slotFile[dir][slot]])
              /\ UNCHANGED <<slotFile, created>>
           \/ /\ slotFile[dir][slot] = 0 /\ created < MaxInode
              /\ created' = created + 1
              /\ slotFile' = [slotFile EXCEPT ![dir][slot] = created']
              /\ Set(p, [stage |-> "locking", file |-> created'])
        /\ UNCHANGED <<beat, locked, snags>>

Lock(p) ==
    LET file == process[p].file
    IN  /\ process[p].stage = "locking" /\ locked[file] = NoProcess
        /\ locked' = [locked EXCEPT ![file] = p]
        /\ Set(p, [stage |-> "working"])
        /\ UNCHANGED <<beat, slotFile, created, snags>>

\* After the last of the slots it sleeps.
Taken(p) ==
    /\ process[p].stage = "locking" /\ locked[process[p].file] # NoProcess
    /\ Set(p, [stage |-> IF process[p].tried + 1 = Count THEN "sleeping" ELSE "opening",
               tried |-> process[p].tried + 1, file |-> 0,
               slot |-> (process[p].slot + 1) % Count])
    /\ UNCHANGED <<beat, slotFile, created, locked, snags>>

\* A sleep has a random length and ends no later than the deadline.
Wake(p) ==
    /\ process[p].stage = "sleeping"
    /\ \E s \in Slots : Set(p, [stage |-> "opening", slot |-> s, tried |-> 0])
    /\ UNCHANGED <<beat, slotFile, created, locked, snags>>

\* Contention never makes a process change the directory.
GoWithout(p) ==
    /\ process[p].stage = "opening" /\ Expired(p)
    /\ Set(p, [stage |-> "working", excuse |-> process[p].excuse \cup {"late"}])
    /\ UNCHANGED <<beat, slotFile, created, locked, snags>>

\* A file cannot be opened, or not be locked.
SlotFails(p) ==
    /\ process[p].stage \in {"opening", "locking"} /\ snags < MaxSnags
    /\ snags' = snags + 1
    /\ Elsewhere(p)
    /\ UNCHANGED <<beat, slotFile, created, locked>>

ReleasedBy(p) == [f \in Files |-> IF locked[f] = p THEN NoProcess ELSE locked[f]]

\* Mutant: a slot is given back by removing its file.
ReleaseUnlinking(p) ==
    /\ process[p].stage = "working"
    /\ locked' = ReleasedBy(p)
    /\ slotFile' = IF process[p].file = 0 THEN slotFile
                   ELSE [slotFile EXCEPT ![process[p].dir][process[p].slot] = 0]
    /\ Set(p, [stage |-> "idle", file |-> 0])
    /\ UNCHANGED <<beat, created, snags>>

\* releaseSlot; the process may call again.
Release(p) ==
    /\ process[p].stage = "working"
    /\ locked' = ReleasedBy(p)
    /\ Set(p, [stage |-> "idle", file |-> 0])
    /\ UNCHANGED <<beat, slotFile, created, snags>>

\* The caller's context is cancelled: it makes no call any more.
Cancel(p) ==
    /\ process[p].stage \in {"opening", "sleeping"}
    /\ Set(p, [stage |-> "idle", file |-> 0])
    /\ UNCHANGED <<beat, slotFile, created, locked, snags>>

Die(p) ==
    /\ process[p].stage # "dead" /\ snags < MaxSnags
    /\ snags' = snags + 1
    /\ locked' = ReleasedBy(p)
    /\ Set(p, [stage |-> "dead", file |-> 0])
    /\ UNCHANGED <<beat, slotFile, created>>

Beat ==
    /\ beat < LastBeat
    /\ beat' = beat + 1
    /\ UNCHANGED <<slotFile, created, locked, process, snags>>

SlotsNext ==
    \/ Beat
    \/ \E p \in Processes :
         \/ AcquireSlot(p) \/ EnterDirectory(p) \/ Open(p) \/ Lock(p) \/ Taken(p) \/ Wake(p)
         \/ GoWithout(p) \/ SlotFails(p) \/ Release(p) \/ Cancel(p) \/ Die(p)

SlotsSpec == SlotsInit /\ [][SlotsNext]_slotVars

--------------------------------------------------------------------------------
(* Types and properties.                                                   *)

SlotsTypeOK ==
    /\ beat \in 0..LastBeat
    /\ slotFile \in [Directories -> [Slots -> 0..created]]
    /\ created \in 0..MaxInode
    /\ locked \in [Files -> Processes \cup {NoProcess}]
    /\ process \in [Processes ->
         [stage : {"idle", "directory", "opening", "locking", "working", "sleeping", "dead"},
          keptOut : SUBSET Directories, dir : Directories, slot : Slots,
          tried : 0..Count, file : 0..created, until : Nat,
          excuse : SUBSET (Directories \cup {"late"})]]
    /\ snags \in 0..MaxSnags

\* Whoever calls the relay without having been kept waiting to the deadline, and
\* without an error in every directory, shares one of the two budgets, whatever
\* directories the others can use, however slots are given back and whoever dies.
\* That the files stay in place is what it rests on: a lock on a file that has lost
\* its name is no slot any more.
SharedBudget ==
    \A excuse \in {{}, {"temp"}} :
        Cardinality({p \in Processes : /\ process[p].stage = "working"
                                       /\ process[p].excuse = excuse}) <= Count
================================================================================
