------------------------------ MODULE MachineProofs ------------------------------
(***************************************************************************)
(* Proofs about what the processes of one machine share: RelaySlots, for   *)
(* any number of processes and slots, any sandboxes, deadlines and number  *)
(* of failures; NativeJournal, for any number of writers, any limit and    *)
(* any number of lines and failures; and RelayClient, for any limits,      *)
(* backoffs, settings and policies.                                        *)
(***************************************************************************)
EXTENDS RelaySlots, NativeJournal, RelayClient, TLAPS, FiniteSetTheorems

(***************************************************************************)
(* A process that works within a budget has the lock of the file that is   *)
(* under the name of its slot, in the directory that its excuse stands     *)
(* for.  No name is ever given to another file, so two of them in one      *)
(* directory have two slots.                                               *)
(***************************************************************************)

SlotStages == {"idle", "directory", "opening", "locking", "working", "sleeping", "dead"}

ProcessType(last) ==
    [stage : SlotStages, keptOut : SUBSET Directories, dir : Directories, slot : Slots,
     tried : 0..Count, file : 0..last, until : Nat,
     excuse : SUBSET (Directories \cup {"late"})]

\* Why a process that has come to a directory could not use the one before.
ExcuseOf(dir) == IF dir = "temp" THEN {} ELSE {"temp"}

HasSlot(q, files) == q.file # 0 /\ files[q.dir][q.slot] = q.file

ProcessOK(q, p, files, locks) ==
    /\ q.stage \in {"directory", "opening", "locking", "sleeping"} =>
          q.excuse = ExcuseOf(q.dir)
    /\ q.stage \in {"opening", "locking"} => q.tried < Count
    /\ q.stage = "locking" => HasSlot(q, files)
    /\ q.stage = "working" =>
          \/ q.excuse = ExcuseOf(q.dir) /\ HasSlot(q, files) /\ locks[q.file] = p
          \/ "late" \in q.excuse \/ q.excuse = Directories

SlotsInv ==
    /\ beat \in 0..LastBeat /\ snags \in 0..MaxSnags
    /\ created \in 0..MaxInode
    /\ slotFile \in [Directories -> [Slots -> 0..created]]
    /\ locked \in [Files -> Processes \cup {NoProcess}]
    /\ process \in [Processes -> ProcessType(created)]
    /\ \A p \in Processes : ProcessOK(process[p], p, slotFile, locked)

LEMMA SlotsInvGivesTypes ==
    ASSUME SlotsInv
    PROVE  SlotsTypeOK
  BY DEF SlotsInv, SlotsTypeOK, ProcessType, SlotStages

\* Two processes that work with the same excuse, and within a budget, have two slots.
LEMMA SlotsDiffer ==
    ASSUME SlotsInv, NEW excuse \in {{}, {"temp"}}
    PROVE  LET W == {p \in Processes : /\ process[p].stage = "working"
                                       /\ process[p].excuse = excuse}
           IN  [p \in W |-> process[p].slot] \in Injection(W, Slots)
  <1> DEFINE W == {p \in Processes : /\ process[p].stage = "working"
                                     /\ process[p].excuse = excuse}
             f == [p \in W |-> process[p].slot]
  <1>1. f \in [W -> Slots]
    BY DEF SlotsInv, ProcessType
  <1>2. ASSUME NEW p \in W, NEW q \in W, f[p] = f[q]
        PROVE  p = q
    <2>1. "late" \notin excuse /\ excuse # Directories
      BY DEF Directories
    <2>2. /\ excuse = ExcuseOf(process[p].dir) /\ excuse = ExcuseOf(process[q].dir)
          /\ HasSlot(process[p], slotFile) /\ HasSlot(process[q], slotFile)
          /\ locked[process[p].file] = p /\ locked[process[q].file] = q
      BY <2>1 DEF SlotsInv, ProcessOK
    <2>3. process[p].dir = process[q].dir
      BY <2>2 DEF ExcuseOf, SlotsInv, ProcessType, Directories
    <2>4. process[p].slot = process[q].slot
      BY <1>2
    <2> QED BY <2>2, <2>3, <2>4 DEF HasSlot
  <1> QED BY <1>1, <1>2 DEF Injection, IsInjective

LEMMA SlotsInvGivesBudget ==
    ASSUME SlotsInv
    PROVE  SharedBudget
  <1> SUFFICES ASSUME NEW excuse \in {{}, {"temp"}}
               PROVE  Cardinality({p \in Processes : /\ process[p].stage = "working"
                                                     /\ process[p].excuse = excuse}) <= Count
    BY DEF SharedBudget
  <1> DEFINE W == {p \in Processes : /\ process[p].stage = "working"
                                     /\ process[p].excuse = excuse}
  <1>1. [p \in W |-> process[p].slot] \in Injection(W, Slots)
    BY SlotsDiffer
  <1>2. Count \in Nat \ {0}
    BY SlotsAssumption
  <1>3. IsFiniteSet(Slots) /\ Cardinality(Slots) = Count
    BY <1>2, FS_Interval DEF Slots
  <1> HIDE DEF W
  <1>4. Cardinality(W) <= Cardinality(Slots)
    BY <1>1, <1>3, FS_Injection
  <1> QED BY <1>3, <1>4 DEF W

--------------------------------------------------------------------------------
(* The steps of the slots.                                                 *)

\* A process with some of its fields replaced.
Updated(q, fields) ==
    [stage |-> IF "stage" \in DOMAIN fields THEN fields.stage ELSE q.stage,
     keptOut |-> IF "keptOut" \in DOMAIN fields THEN fields.keptOut ELSE q.keptOut,
     dir |-> IF "dir" \in DOMAIN fields THEN fields.dir ELSE q.dir,
     slot |-> IF "slot" \in DOMAIN fields THEN fields.slot ELSE q.slot,
     tried |-> IF "tried" \in DOMAIN fields THEN fields.tried ELSE q.tried,
     file |-> IF "file" \in DOMAIN fields THEN fields.file ELSE q.file,
     until |-> IF "until" \in DOMAIN fields THEN fields.until ELSE q.until,
     excuse |-> IF "excuse" \in DOMAIN fields THEN fields.excuse ELSE q.excuse]

LEMMA SetGives ==
    ASSUME NEW p \in Processes, NEW last, process \in [Processes -> ProcessType(last)],
           NEW fields, Set(p, fields)
    PROVE  LET q == process[p]  r == process'[p]
           IN  /\ \A o \in Processes : o # p => process'[o] = process[o]
               /\ DOMAIN process' = Processes
               /\ process' = [o \in Processes |-> process'[o]]
               /\ r = Updated(q, fields)
  <1> DEFINE q == process[p]
  <1>1. process'[p] = [x \in DOMAIN q |-> IF x \in DOMAIN fields THEN fields[x] ELSE q[x]]
    BY DEF Set
  <1>2. DOMAIN q = {"stage", "keptOut", "dir", "slot", "tried", "file", "until", "excuse"}
    BY DEF ProcessType
  <1>3. process'[p] = Updated(q, fields)
    BY <1>1, <1>2 DEF Updated
  <1> QED BY <1>3 DEF Set

\* What a process keeps while another one moves.
LEMMA OthersKeep ==
    ASSUME NEW p, NEW q \in ProcessType(created), ProcessOK(q, p, slotFile, locked),
           SlotsInv,
           \A d \in Directories, s \in Slots :
               slotFile[d][s] # 0 => slotFile'[d][s] = slotFile[d][s],
           \A f \in Files : locked[f] = p => locked'[f] = p
    PROVE  ProcessOK(q, p, slotFile', locked')
  <1>1. q.file \in 0..MaxInode /\ q.dir \in Directories /\ q.slot \in Slots
    BY SlotsAssumption DEF ProcessType, SlotsInv
  <1>2. HasSlot(q, slotFile) => HasSlot(q, slotFile')
    BY <1>1 DEF HasSlot
  <1>3. q.file # 0 => q.file \in Files
    BY <1>1, SlotsAssumption DEF Files
  <1> QED BY <1>2, <1>3 DEF ProcessOK, HasSlot

LEMMA MoveKeeps ==
    ASSUME SlotsInv, NEW p \in Processes, NEW fields, Set(p, fields),
           UNCHANGED beat, snags' \in 0..MaxSnags, created' \in created..MaxInode,
           slotFile' \in [Directories -> [Slots -> 0..created']],
           \A d \in Directories, s \in Slots :
               slotFile[d][s] # 0 => slotFile'[d][s] = slotFile[d][s],
           locked' \in [Files -> Processes \cup {NoProcess}],
           \A f \in Files, q \in Processes : q # p /\ locked[f] = q => locked'[f] = q,
           process'[p] \in ProcessType(created'),
           ProcessOK(process'[p], p, slotFile', locked')
    PROVE  SlotsInv'
  <1>1. \A q \in Processes : q # p => process'[q] = process[q]
    BY SetGives DEF SlotsInv
  <1>2. created \in Nat /\ created' \in 0..MaxInode /\ created <= created'
    BY SlotsAssumption DEF SlotsInv
  <1>3. \A q \in ProcessType(created) : q \in ProcessType(created')
    BY <1>2 DEF ProcessType
  <1>4. process' \in [Processes -> ProcessType(created')]
    BY <1>1, <1>3, SetGives DEF SlotsInv
  <1>5. ASSUME NEW q \in Processes
        PROVE  ProcessOK(process'[q], q, slotFile', locked')
    BY <1>1, <1>5, OthersKeep DEF SlotsInv
  <1> QED BY <1>2, <1>4, <1>5 DEF SlotsInv

LEMMA SlotIndices ==
    /\ 0 \in Slots
    /\ \A s \in Slots : (s + 1) % Count \in Slots
  BY SlotsAssumption DEF Slots

\* Where a process goes that cannot use its directory.
LEMMA ElsewhereFits ==
    ASSUME SlotsInv, NEW p \in Processes, Elsewhere(p),
           process[p].stage \in {"directory", "opening", "locking"}
    PROVE  /\ process'[p] \in ProcessType(created)
           /\ \A files, locks : ProcessOK(process'[p], p, files, locks)
           /\ \E fields : Set(p, fields)
  <1> DEFINE q == process[p]  r == process'[p]
  <1>1. q \in ProcessType(created) /\ q.excuse = ExcuseOf(q.dir)
    BY DEF SlotsInv, ProcessOK
  <1>2. created \in Nat
    BY SlotsAssumption DEF SlotsInv
  <1>3. CASE q.dir = "temp"
    <2>1. Set(p, [stage |-> "directory", dir |-> "cache", file |-> 0,
                  excuse |-> q.excuse \cup {q.dir}])
      BY <1>3 DEF Elsewhere
    <2>2. r = Updated(q, [stage |-> "directory", dir |-> "cache", file |-> 0,
                          excuse |-> {"temp"}])
      BY <1>1, <1>3, <2>1, SetGives DEF SlotsInv, ExcuseOf
    <2>3. r \in ProcessType(created)
      BY <1>1, <1>2, <2>2 DEF Updated, ProcessType, Directories, SlotStages
    <2> QED BY <2>1, <2>2, <2>3 DEF Updated, ProcessOK, ExcuseOf
  <1>4. CASE q.dir # "temp"
    <2>1. Set(p, [stage |-> "working", file |-> 0, excuse |-> q.excuse \cup {q.dir}])
      BY <1>4 DEF Elsewhere
    <2>2. q.excuse \cup {q.dir} = Directories
      BY <1>1, <1>4 DEF ProcessType, ExcuseOf, Directories
    <2>3. r = Updated(q, [stage |-> "working", file |-> 0, excuse |-> Directories])
      BY <1>1, <2>1, <2>2, SetGives DEF SlotsInv
    <2>4. r \in ProcessType(created)
      BY <1>1, <1>2, <2>3 DEF Updated, ProcessType, Directories, SlotStages
    <2> QED BY <2>1, <2>3, <2>4 DEF Updated, ProcessOK
  <1> QED BY <1>3, <1>4

LEMMA InitGivesSlots == SlotsInit => SlotsInv
  <1> SUFFICES ASSUME SlotsInit PROVE SlotsInv
    OBVIOUS
  <1>1. PICK kept \in [Processes -> Sandboxes] :
          process = [p \in Processes |-> NewProcess(kept[p])]
    BY DEF SlotsInit
  <1>2. \A p \in Processes : NewProcess(kept[p]) \in ProcessType(0)
    <2> SUFFICES ASSUME NEW p \in Processes PROVE NewProcess(kept[p]) \in ProcessType(0)
      OBVIOUS
    <2>1. kept[p] \in SUBSET Directories
      BY SlotsAssumption DEF Directories
    <2>2. 0 \in 0..Count /\ 0 \in 0..0 /\ 0 \in Slots
      BY SlotsAssumption, SlotIndices
    <2> QED BY <2>1, <2>2 DEF NewProcess, ProcessType, SlotStages, Directories
  <1>3. \A p \in Processes : process[p].stage = "idle"
    BY <1>1 DEF NewProcess
  <1>4. slotFile \in [Directories -> [Slots -> 0..0]]
    BY DEF SlotsInit
  <1> QED BY <1>1, <1>2, <1>3, <1>4, SlotsAssumption DEF SlotsInit, SlotsInv, ProcessOK

\* A step that changes a process only.
LEMMA QuietKeeps ==
    ASSUME SlotsInv, NEW p \in Processes, NEW fields, Set(p, fields),
           UNCHANGED <<beat, created, slotFile, locked>>, snags' \in 0..MaxSnags,
           process'[p] \in ProcessType(created),
           ProcessOK(process'[p], p, slotFile, locked)
    PROVE  SlotsInv'
  <1>1. created \in 0..MaxInode /\ created \in Nat
    BY SlotsAssumption DEF SlotsInv
  <1>2. created' \in created..MaxInode
    BY <1>1, SlotsAssumption
  <1> QED BY <1>2, MoveKeeps DEF SlotsInv

LEMMA NumbersOfProcess ==
    ASSUME SlotsInv, NEW p \in Processes
    PROVE  /\ process[p] \in ProcessType(created)
           /\ ProcessOK(process[p], p, slotFile, locked)
           /\ created \in Nat /\ 0 \in 0..created /\ 0 \in 0..Count /\ Count \in Nat
           /\ beat + Wait \in Nat /\ snags \in Nat
  BY SlotsAssumption DEF SlotsInv

LEMMA AcquireKeeps ==
    ASSUME SlotsInv, NEW p \in Processes, AcquireSlot(p)
    PROVE  SlotsInv'
  <1> DEFINE fields == [stage |-> "directory", dir |-> "temp", until |-> beat + Wait,
                        excuse |-> {}]
  <1>1. Set(p, fields)
    BY DEF AcquireSlot
  <1>2. process'[p] = Updated(process[p], fields)
    BY <1>1, SetGives DEF SlotsInv
  <1>3. process'[p] \in ProcessType(created)
    BY <1>2, NumbersOfProcess DEF Updated, ProcessType, SlotStages, Directories
  <1>4. ProcessOK(process'[p], p, slotFile, locked)
    BY <1>2 DEF Updated, ProcessOK, ExcuseOf
  <1> HIDE DEF fields
  <1> QED BY <1>1, <1>3, <1>4, QuietKeeps DEF AcquireSlot, SlotsInv

LEMMA EnterDirectoryKeeps ==
    ASSUME SlotsInv, NEW p \in Processes, EnterDirectory(p)
    PROVE  SlotsInv'
  <1>1. CASE process[p].dir \in process[p].keptOut
    <2>1. Elsewhere(p)
      BY <1>1 DEF EnterDirectory
    <2> QED BY <2>1, ElsewhereFits, QuietKeeps DEF EnterDirectory, SlotsInv
  <1>2. CASE process[p].dir \notin process[p].keptOut
    <2>1. PICK s \in Slots : Set(p, [stage |-> "opening", slot |-> s, tried |-> 0])
      BY <1>2 DEF EnterDirectory
    <2> DEFINE fields == [stage |-> "opening", slot |-> s, tried |-> 0]
    <2>2. process'[p] = Updated(process[p], fields)
      BY <2>1, SetGives DEF SlotsInv
    <2>3. process'[p] \in ProcessType(created)
      BY <2>2, NumbersOfProcess DEF Updated, ProcessType, SlotStages
    <2>4. 0 < Count
      BY SlotsAssumption
    <2>5. ProcessOK(process'[p], p, slotFile, locked)
      BY <2>2, <2>4, NumbersOfProcess DEF Updated, ProcessOK, EnterDirectory
    <2> QED BY <2>1, <2>3, <2>5, QuietKeeps DEF EnterDirectory, SlotsInv
  <1> QED BY <1>1, <1>2

LEMMA WakeKeeps ==
    ASSUME SlotsInv, NEW p \in Processes, Wake(p)
    PROVE  SlotsInv'
  <1>1. PICK s \in Slots : Set(p, [stage |-> "opening", slot |-> s, tried |-> 0])
    BY DEF Wake
  <1>2. process'[p] = Updated(process[p], [stage |-> "opening", slot |-> s, tried |-> 0])
    BY <1>1, SetGives DEF SlotsInv
  <1>3. process'[p] \in ProcessType(created)
    BY <1>2, NumbersOfProcess DEF Updated, ProcessType, SlotStages
  <1>4. 0 < Count
    BY SlotsAssumption
  <1>5. ProcessOK(process'[p], p, slotFile, locked)
    BY <1>2, <1>4, NumbersOfProcess DEF Updated, ProcessOK, Wake
  <1> QED BY <1>1, <1>3, <1>5, QuietKeeps DEF Wake, SlotsInv

\* A file is created under a name only where there is none.
LEMMA OpenKeeps ==
    ASSUME SlotsInv, NEW p \in Processes, Open(p)
    PROVE  SlotsInv'
  <1> DEFINE q == process[p]
             fields(f) == [stage |-> "locking", file |-> f]
  <1>1. q \in ProcessType(created) /\ q.dir \in Directories /\ q.slot \in Slots
        /\ created \in Nat
    BY NumbersOfProcess DEF ProcessType
  <1>2. CASE slotFile[q.dir][q.slot] # 0
    <2>1. Set(p, fields(slotFile[q.dir][q.slot])) /\ UNCHANGED <<slotFile, created>>
      BY <1>2 DEF Open
    <2>2. process'[p] = Updated(q, fields(slotFile[q.dir][q.slot]))
      BY <2>1, SetGives DEF SlotsInv
    <2>3. slotFile[q.dir][q.slot] \in 0..created
      BY <1>1 DEF SlotsInv
    <2>4. process'[p] \in ProcessType(created)
      BY <1>1, <2>2, <2>3 DEF Updated, ProcessType, SlotStages
    <2>5. ProcessOK(process'[p], p, slotFile, locked)
      BY <1>2, <2>2, NumbersOfProcess DEF Updated, ProcessOK, HasSlot, Open
    <2> QED BY <2>1, <2>4, <2>5, QuietKeeps DEF Open, SlotsInv
  <1>3. CASE slotFile[q.dir][q.slot] = 0
    <2>1. /\ created < MaxInode /\ created' = created + 1
          /\ slotFile' = [slotFile EXCEPT ![q.dir][q.slot] = created']
          /\ Set(p, fields(created'))
      BY <1>3 DEF Open
    <2>2. process'[p] = Updated(q, fields(created'))
      BY <2>1, SetGives DEF SlotsInv
    <2>3. created' \in created..MaxInode /\ created' \in 0..created' /\ created' # 0
          /\ 0..created \subseteq 0..created'
      BY <1>1, <2>1, SlotsAssumption
    <2>4. process'[p] \in ProcessType(created')
      BY <1>1, <2>2, <2>3 DEF Updated, ProcessType, SlotStages
    <2>5. /\ slotFile' \in [Directories -> [Slots -> 0..created']]
          /\ slotFile'[q.dir][q.slot] = created'
          /\ \A d \in Directories, s \in Slots :
                slotFile[d][s] # 0 => slotFile'[d][s] = slotFile[d][s]
      BY <1>1, <1>3, <2>1, <2>3 DEF SlotsInv
    <2>6. ProcessOK(process'[p], p, slotFile', locked')
      BY <2>2, <2>3, <2>5, NumbersOfProcess DEF Updated, ProcessOK, HasSlot, Open
    <2>7. UNCHANGED <<beat, locked, snags>>
      BY DEF Open
    <2> QED BY <2>1, <2>3, <2>4, <2>5, <2>6, <2>7, MoveKeeps DEF SlotsInv
  <1> QED BY <1>2, <1>3

\* A lock is taken only where nobody has it.
LEMMA LockKeeps ==
    ASSUME SlotsInv, NEW p \in Processes, Lock(p)
    PROVE  SlotsInv'
  <1> DEFINE q == process[p]
  <1>1. /\ locked[q.file] = NoProcess /\ Set(p, [stage |-> "working"])
        /\ locked' = [locked EXCEPT ![q.file] = p]
        /\ UNCHANGED <<beat, slotFile, created, snags>>
    BY DEF Lock
  <1>2. process'[p] = Updated(q, [stage |-> "working"])
    BY <1>1, SetGives DEF SlotsInv
  <1>3. HasSlot(q, slotFile) /\ q.excuse = ExcuseOf(q.dir)
    BY NumbersOfProcess DEF ProcessOK, Lock
  <1>4. q.file \in Files
    BY <1>3, NumbersOfProcess, SlotsAssumption DEF HasSlot, ProcessType, SlotsInv, Files
  <1>5. /\ locked' \in [Files -> Processes \cup {NoProcess}] /\ locked'[q.file] = p
        /\ \A f \in Files, o \in Processes : o # p /\ locked[f] = o => locked'[f] = o
    BY <1>1, <1>4, SlotsAssumption DEF SlotsInv
  <1>6. process'[p] \in ProcessType(created)
    BY <1>2, NumbersOfProcess DEF Updated, ProcessType, SlotStages
  <1>7. ProcessOK(process'[p], p, slotFile', locked')
    BY <1>1, <1>2, <1>3, <1>5 DEF Updated, ProcessOK, HasSlot
  <1>8. created' \in created..MaxInode
    BY <1>1, SlotsAssumption DEF SlotsInv
  <1> QED BY <1>1, <1>5, <1>6, <1>7, <1>8, MoveKeeps DEF SlotsInv

LEMMA TakenKeeps ==
    ASSUME SlotsInv, NEW p \in Processes, Taken(p)
    PROVE  SlotsInv'
  <1> DEFINE q == process[p]
             stage == IF q.tried + 1 = Count THEN "sleeping" ELSE "opening"
             fields == [stage |-> stage, tried |-> q.tried + 1, file |-> 0,
                        slot |-> (q.slot + 1) % Count]
  <1>1. Set(p, fields)
    BY DEF Taken
  <1>2. process'[p] = Updated(q, fields)
    BY <1>1, SetGives DEF SlotsInv
  <1>3. q.tried \in Nat /\ q.tried < Count /\ Count \in Nat /\ q.slot \in Slots
    BY NumbersOfProcess DEF ProcessOK, Taken, ProcessType
  <1>4. /\ q.tried + 1 \in 0..Count /\ (q.slot + 1) % Count \in Slots
        /\ stage = "opening" => q.tried + 1 < Count
        /\ stage \in {"sleeping", "opening"}
    BY <1>3, SlotIndices
  <1> HIDE DEF stage
  <1>5. process'[p] \in ProcessType(created)
    BY <1>2, <1>4, NumbersOfProcess DEF Updated, ProcessType, SlotStages
  <1>6. ProcessOK(process'[p], p, slotFile, locked)
    BY <1>2, <1>4, NumbersOfProcess DEF Updated, ProcessOK, Taken
  <1> QED BY <1>1, <1>5, <1>6, QuietKeeps DEF Taken, SlotsInv

LEMMA GoWithoutKeeps ==
    ASSUME SlotsInv, NEW p \in Processes, GoWithout(p)
    PROVE  SlotsInv'
  <1> DEFINE fields == [stage |-> "working", excuse |-> process[p].excuse \cup {"late"}]
  <1>1. Set(p, fields)
    BY DEF GoWithout
  <1>2. process'[p] = Updated(process[p], fields)
    BY <1>1, SetGives DEF SlotsInv
  <1>3. process'[p] \in ProcessType(created)
    BY <1>2, NumbersOfProcess DEF Updated, ProcessType, SlotStages
  <1>4. ProcessOK(process'[p], p, slotFile, locked)
    BY <1>2 DEF Updated, ProcessOK
  <1> QED BY <1>1, <1>3, <1>4, QuietKeeps DEF GoWithout, SlotsInv

LEMMA SlotFailsKeeps ==
    ASSUME SlotsInv, NEW p \in Processes, SlotFails(p)
    PROVE  SlotsInv'
  <1>1. snags' \in 0..MaxSnags
    BY NumbersOfProcess, SlotsAssumption DEF SlotFails
  <1> QED BY <1>1, ElsewhereFits, QuietKeeps DEF SlotFails

\* A process that stops or dies gives back what it has locked and nothing else.
LEMMA ReleasingKeeps ==
    ASSUME SlotsInv, NEW p \in Processes, NEW stage \in {"idle", "dead"},
           Set(p, [stage |-> stage, file |-> 0]), locked' = ReleasedBy(p),
           UNCHANGED <<beat, slotFile, created>>, snags' \in 0..MaxSnags
    PROVE  SlotsInv'
  <1>1. process'[p] = Updated(process[p], [stage |-> stage, file |-> 0])
    BY SetGives DEF SlotsInv
  <1>2. process'[p] \in ProcessType(created)
    BY <1>1, NumbersOfProcess DEF Updated, ProcessType, SlotStages
  <1>3. \A files, locks : ProcessOK(process'[p], p, files, locks)
    BY <1>1 DEF Updated, ProcessOK
  <1>4. /\ locked' \in [Files -> Processes \cup {NoProcess}]
        /\ \A f \in Files, o \in Processes : o # p /\ locked[f] = o => locked'[f] = o
    BY DEF ReleasedBy, SlotsInv
  <1>5. created' \in created..MaxInode
    BY SlotsAssumption DEF SlotsInv
  <1> QED BY <1>2, <1>3, <1>4, <1>5, MoveKeeps DEF SlotsInv

LEMMA StopsKeep ==
    ASSUME SlotsInv, NEW p \in Processes, Release(p) \/ Die(p)
    PROVE  SlotsInv'
  <1>1. CASE Release(p)
    BY <1>1, ReleasingKeeps DEF Release, SlotsInv
  <1>2. CASE Die(p)
    <2>1. snags' \in 0..MaxSnags
      BY <1>2, NumbersOfProcess, SlotsAssumption DEF Die
    <2> QED BY <1>2, <2>1, ReleasingKeeps DEF Die
  <1> QED BY <1>1, <1>2

LEMMA CancelKeeps ==
    ASSUME SlotsInv, NEW p \in Processes, Cancel(p)
    PROVE  SlotsInv'
  <1>1. Set(p, [stage |-> "idle", file |-> 0])
    BY DEF Cancel
  <1>2. process'[p] = Updated(process[p], [stage |-> "idle", file |-> 0])
    BY <1>1, SetGives DEF SlotsInv
  <1>3. process'[p] \in ProcessType(created)
    BY <1>2, NumbersOfProcess DEF Updated, ProcessType, SlotStages
  <1>4. ProcessOK(process'[p], p, slotFile, locked)
    BY <1>2 DEF Updated, ProcessOK
  <1> QED BY <1>1, <1>3, <1>4, QuietKeeps DEF Cancel, SlotsInv

LEMMA SlotsNextKeeps ==
    ASSUME SlotsInv, [SlotsNext]_slotVars
    PROVE  SlotsInv'
  <1>1. CASE Beat
    BY <1>1, SlotsAssumption DEF Beat, SlotsInv
  <1>2. CASE UNCHANGED slotVars
    BY <1>2 DEF slotVars, SlotsInv
  <1>3. ASSUME NEW p \in Processes,
               \/ AcquireSlot(p) \/ EnterDirectory(p) \/ Open(p) \/ Lock(p) \/ Taken(p)
               \/ Wake(p) \/ GoWithout(p) \/ SlotFails(p) \/ Release(p) \/ Cancel(p)
               \/ Die(p)
        PROVE  SlotsInv'
    BY <1>3, AcquireKeeps, EnterDirectoryKeeps, OpenKeeps, LockKeeps, TakenKeeps, WakeKeeps,
       GoWithoutKeeps, SlotFailsKeeps, StopsKeep, CancelKeeps
  <1> QED BY <1>1, <1>2, <1>3 DEF SlotsNext

LEMMA SlotsInvHolds == SlotsSpec => []SlotsInv
  <1>1. SlotsInv /\ [SlotsNext]_slotVars => SlotsInv'
    BY SlotsNextKeeps
  <1> QED BY InitGivesSlots, <1>1, PTL DEF SlotsSpec

\* Type correctness: files, locks and the processes that wait for them or work keep
\* their shape (relay_slots.go).
THEOREM SlotsTypeCorrect == SlotsSpec => []SlotsTypeOK
  <1>1. SlotsInv => SlotsTypeOK
    BY SlotsInvGivesTypes
  <1> QED BY SlotsInvHolds, <1>1, PTL

\* The processes of one machine share the budget of calls, whatever directories each
\* of them can use, however they come and go and whoever dies with a slot: that the
\* files stay under their names is enough (acquireRelaySlotIn).
THEOREM BudgetIsShared == SlotsSpec => []SharedBudget
  <1>1. SlotsInv => SharedBudget
    BY SlotsInvGivesBudget
  <1> QED BY SlotsInvHolds, <1>1, PTL

--------------------------------------------------------------------------------
(***************************************************************************)
(* The journal.  Whoever removes the previous generation has the lock and  *)
(* has found the current one too long since, so that what it is about to   *)
(* put in its place is a full generation; nobody else renames, and lines   *)
(* are only added.                                                         *)
(***************************************************************************)

WriterStages == {"idle", "stat", "lock", "check", "remove", "rename", "reopen", "write"}

FilesOK ==
    /\ size \in Seq(Nat)
    /\ journal \in 0..Len(size) /\ previous \in 0..Len(size)
    /\ journal = previous => journal = 0

WriterOK(w) ==
    /\ writer[w].stage \in {"stat", "write"} => writer[w].file # 0
    /\ writer[w].stage \in {"check", "remove", "rename"} => rotating = w
    /\ writer[w].stage \in {"remove", "rename"} => journal # 0 /\ Lines(journal) > Limit

WritersOK ==
    /\ writer \in [Writers -> [stage : WriterStages, file : 0..Len(size)]]
    /\ rotating \in Writers \cup {NoWriter}
    /\ \A w \in Writers : WriterOK(w)

\* What both generations hold was written, and a summary has counted no more of it.
CountsOK ==
    /\ landed \in 0..MaxLines /\ stops \in 0..MaxStops
    /\ Lines(journal) + Lines(previous) <= landed
    /\ summary \in [stage : {"previous", "journal", "done"}, total : Nat]
    /\ summary.stage = "previous" => summary.total = 0
    /\ summary.stage = "journal" => summary.total + Lines(journal) <= landed
    /\ summary.total <= landed

JournalInv == FilesOK /\ WritersOK /\ CountsOK /\ JournalKeepsItsTail

LEMMA JournalInvGivesProperties ==
    ASSUME JournalInv
    PROVE  JournalTypeOK /\ JournalKeepsItsTail /\ SummariesCountOnce
  BY DEF JournalInv, FilesOK, WritersOK, CountsOK, JournalTypeOK, WriterStages,
         SummariesCountOnce

LEMMA LinesAreNumbers ==
    ASSUME FilesOK
    PROVE  /\ \A f \in 0..Len(size) : Lines(f) \in Nat
           /\ Len(size) \in Nat
  BY DEF FilesOK, Lines

LEMMA InitGivesJournal == JournalInit => JournalInv
  <1> SUFFICES ASSUME JournalInit PROVE JournalInv
    OBVIOUS
  <1>1. size = <<>> /\ size \in Seq(Nat) /\ Len(size) = 0
    BY DEF JournalInit
  <1>2. FilesOK /\ Lines(journal) = 0 /\ Lines(previous) = 0
    BY <1>1 DEF JournalInit, FilesOK, Lines
  <1>3. WritersOK
    BY <1>1 DEF JournalInit, WritersOK, WriterOK, NewWriter, WriterStages
  <1>4. CountsOK /\ JournalKeepsItsTail
    BY <1>2, JournalAssumption DEF JournalInit, CountsOK, NoSummary, JournalKeepsItsTail
  <1> QED BY <1>2, <1>3, <1>4 DEF JournalInv

\* A writer goes on, and nothing else happens but to the lock.
LEMMA WriterGoesOn ==
    ASSUME JournalInv, NEW w \in Writers, NEW stage \in WriterStages, GoOn(w, stage),
           UNCHANGED <<size, journal, previous, summary, stops, landed>>,
           rotating' \in Writers \cup {NoWriter},
           \A v \in Writers : v # w /\ rotating = v => rotating' = v,
           WriterOK(w)'
    PROVE  JournalInv'
  <1>1. writer' = [writer EXCEPT ![w].stage = stage]
    BY DEF GoOn
  <1>2. writer' \in [Writers -> [stage : WriterStages, file : 0..Len(size)]]
    BY <1>1 DEF JournalInv, WritersOK
  <1>3. \A v \in Writers : v # w => writer'[v] = writer[v]
    BY <1>1 DEF JournalInv, WritersOK
  <1>4. WritersOK'
    BY <1>2, <1>3 DEF JournalInv, WritersOK, WriterOK, Lines
  <1> QED BY <1>4 DEF JournalInv, FilesOK, CountsOK, JournalKeepsItsTail, Lines

LEMMA GoneOn ==
    ASSUME JournalInv, NEW w \in Writers, NEW stage, GoOn(w, stage)
    PROVE  writer'[w].stage = stage /\ writer'[w].file = writer[w].file
  BY DEF GoOn, JournalInv, WritersOK

LEMMA QuietWriterSteps ==
    ASSUME JournalInv, NEW w \in Writers, Stat(w) \/ TryLock(w)
    PROVE  JournalInv'
  <1>1. CASE Stat(w)
    <2> DEFINE stage == IF Lines(writer[w].file) > Limit THEN "lock" ELSE "write"
    <2>1. GoOn(w, stage) /\ stage \in WriterStages /\ stage \in {"lock", "write"}
      BY <1>1 DEF Stat, WriterStages
    <2>2. writer[w].file # 0
      BY <1>1 DEF Stat, At, JournalInv, WritersOK, WriterOK
    <2> HIDE DEF stage
    <2>3. WriterOK(w)'
      BY <2>1, <2>2, GoneOn DEF WriterOK
    <2> QED BY <1>1, <2>1, <2>3, WriterGoesOn DEF Stat, JournalInv, WritersOK
  <1>2. CASE TryLock(w)
    <2>1. CASE rotating = NoWriter /\ rotating' = w /\ GoOn(w, "check")
      <3>1. WriterOK(w)'
        BY <2>1, GoneOn DEF WriterOK
      <3> QED BY <1>2, <2>1, <3>1, WriterGoesOn, JournalAssumption DEF TryLock, WriterStages
    <2>2. CASE UNCHANGED rotating /\ GoOn(w, "reopen")
      <3>1. WriterOK(w)'
        BY <2>2, GoneOn DEF WriterOK
      <3> QED BY <1>2, <2>2, <3>1, WriterGoesOn DEF TryLock, WriterStages, JournalInv,
              WritersOK
    <2> QED BY <1>2, <2>1, <2>2 DEF TryLock
  <1> QED BY <1>1, <1>2

LEMMA CheckAgainKeeps ==
    ASSUME JournalInv, NEW w \in Writers, CheckAgain(w)
    PROVE  JournalInv'
  <1>1. rotating = w
    BY DEF CheckAgain, At, JournalInv, WritersOK, WriterOK
  <1>2. CASE StillTooLong /\ GoOn(w, "remove") /\ UNCHANGED rotating
    <2>1. WriterOK(w)'
      BY <1>1, <1>2, GoneOn DEF WriterOK, StillTooLong, CheckAgain, Lines
    <2> QED BY <1>2, <2>1, WriterGoesOn DEF CheckAgain, WriterStages, JournalInv, WritersOK
  <1>3. CASE GoOn(w, "reopen") /\ rotating' = NoWriter
    <2>1. WriterOK(w)'
      BY <1>3, GoneOn DEF WriterOK
    <2> QED BY <1>1, <1>3, <2>1, WriterGoesOn, JournalAssumption DEF CheckAgain, WriterStages
  <1> QED BY <1>2, <1>3 DEF CheckAgain

\* What is left when the previous generation has gone is more than the limit.
LEMMA RemovePreviousKeeps ==
    ASSUME JournalInv, NEW w \in Writers, RemovePrevious(w)
    PROVE  JournalInv'
  <1>1. /\ previous' = 0 /\ GoOn(w, "rename")
        /\ UNCHANGED <<size, journal, rotating, summary, stops, landed>>
    BY DEF RemovePrevious
  <1>2. journal # 0 /\ Lines(journal) > Limit /\ rotating = w
    BY DEF RemovePrevious, At, JournalInv, WritersOK, WriterOK
  <1>3. Lines(journal)' = Lines(journal) /\ Lines(previous)' = 0
    BY <1>1 DEF Lines
  <1>4. /\ Lines(journal) \in Nat /\ Lines(previous) \in Nat /\ landed \in Nat
        /\ Limit \in Nat
    BY LinesAreNumbers, JournalAssumption DEF JournalInv, FilesOK, CountsOK
  <1>5. FilesOK'
    BY <1>1, LinesAreNumbers DEF JournalInv, FilesOK
  <1>6. WritersOK'
    BY <1>1, <1>2, <1>3 DEF GoOn, JournalInv, WritersOK, WriterOK, WriterStages
  <1>7. CountsOK' /\ JournalKeepsItsTail'
    BY <1>1, <1>2, <1>3, <1>4 DEF JournalInv, CountsOK, JournalKeepsItsTail
  <1> QED BY <1>5, <1>6, <1>7 DEF JournalInv

LEMMA RenameKeeps ==
    ASSUME JournalInv, NEW w \in Writers, Rename(w)
    PROVE  JournalInv'
  <1>1. /\ previous' = journal /\ journal' = 0 /\ rotating' = NoWriter /\ GoOn(w, "reopen")
        /\ UNCHANGED <<size, summary, stops, landed>>
    BY DEF Rename
  <1>2. journal # 0 /\ Lines(journal) > Limit /\ rotating = w
    BY DEF Rename, At, JournalInv, WritersOK, WriterOK
  <1>3. Lines(journal)' = 0 /\ Lines(previous)' = Lines(journal)
    BY <1>1 DEF Lines
  <1>4. /\ Lines(journal) \in Nat /\ Lines(previous) \in Nat /\ landed \in Nat
        /\ Limit \in Nat
    BY LinesAreNumbers, JournalAssumption DEF JournalInv, FilesOK, CountsOK
  <1>5. FilesOK'
    BY <1>1, <1>2, LinesAreNumbers DEF JournalInv, FilesOK
  <1>6. \A v \in Writers : v # w =>
          writer[v].stage \notin {"check", "remove", "rename"} /\ writer'[v] = writer[v]
    BY <1>1, <1>2 DEF GoOn, JournalInv, WritersOK, WriterOK
  <1>7. WritersOK'
    BY <1>1, <1>6, GoneOn DEF GoOn, JournalInv, WritersOK, WriterOK, WriterStages
  <1>8. CountsOK' /\ JournalKeepsItsTail'
    BY <1>1, <1>2, <1>3, <1>4 DEF JournalInv, CountsOK, JournalKeepsItsTail
  <1> QED BY <1>5, <1>7, <1>8 DEF JournalInv

\* A line reaches a generation, or a file that was taken away; then it is not counted.
LEMMA WriteLineKeeps ==
    ASSUME JournalInv, NEW w \in Writers, WriteLine(w)
    PROVE  JournalInv'
  <1> DEFINE file == writer[w].file
  <1>1. /\ landed < MaxLines /\ size' = [size EXCEPT ![file] = @ + 1]
        /\ landed' = IF file \in {journal, previous} THEN landed + 1 ELSE landed
        /\ writer' = [writer EXCEPT ![w] = NewWriter]
        /\ UNCHANGED <<journal, previous, rotating, summary, stops>>
    BY DEF WriteLine
  <1>2. /\ size \in Seq(Nat) /\ Len(size) \in Nat /\ file \in 1..Len(size)
        /\ journal \in 0..Len(size) /\ previous \in 0..Len(size)
    BY LinesAreNumbers DEF WriteLine, At, JournalInv, FilesOK, WritersOK, WriterOK
  <1>3. size' \in Seq(Nat) /\ Len(size') = Len(size)
    BY <1>1, <1>2
  <1>4. \A f \in 0..Len(size) : Lines(f)' = IF f = file THEN Lines(f) + 1 ELSE Lines(f)
    BY <1>1, <1>2 DEF Lines
  <1>5. /\ Lines(journal) \in Nat /\ Lines(previous) \in Nat /\ landed \in 0..MaxLines
        /\ MaxLines \in Nat /\ Limit \in Nat
    BY <1>2, LinesAreNumbers, JournalAssumption DEF JournalInv, CountsOK
  <1>6. /\ Lines(journal)' = IF journal = file THEN Lines(journal) + 1 ELSE Lines(journal)
        /\ Lines(previous)' = IF previous = file THEN Lines(previous) + 1 ELSE Lines(previous)
    BY <1>1, <1>2, <1>4 DEF Lines
  <1>7. journal = previous => journal # file
    BY <1>2 DEF JournalInv, FilesOK
  <1>8. FilesOK'
    BY <1>1, <1>3 DEF JournalInv, FilesOK
  <1>9. ASSUME NEW v \in Writers
        PROVE  WriterOK(v)'
    BY <1>1, <1>5, <1>6, <1>9 DEF JournalInv, WritersOK, WriterOK, NewWriter
  <1>10. WritersOK'
    BY <1>1, <1>2, <1>3, <1>9 DEF JournalInv, WritersOK, NewWriter, WriterStages
  <1>11. landed' \in 0..MaxLines /\ JournalKeepsItsTail'
    BY <1>1, <1>5, <1>6, <1>7 DEF JournalInv, JournalKeepsItsTail
  <1>12. CountsOK'
    BY <1>1, <1>5, <1>6, <1>7, <1>11 DEF JournalInv, CountsOK
  <1> QED BY <1>8, <1>10, <1>11, <1>12 DEF JournalInv

LEMMA OpenJournalKeeps ==
    ASSUME JournalInv, NEW w \in Writers, OpenJournal(w)
    PROVE  JournalInv'
  <1> DEFINE next == IF At(w, "idle") THEN "stat" ELSE "write"
  <1>1. next \in {"stat", "write"} /\ UNCHANGED <<previous, rotating, summary, stops, landed>>
    BY DEF OpenJournal
  <1>2. /\ size \in Seq(Nat) /\ Len(size) \in Nat
        /\ journal \in 0..Len(size) /\ previous \in 0..Len(size)
    BY LinesAreNumbers DEF JournalInv, FilesOK
  <1>3. CASE journal # 0
    <2>1. /\ writer' = [writer EXCEPT ![w] = [stage |-> next, file |-> journal]]
          /\ UNCHANGED <<size, journal>>
      BY <1>3 DEF OpenJournal
    <2>2. WritersOK'
      BY <1>1, <1>2, <1>3, <2>1 DEF JournalInv, WritersOK, WriterOK, WriterStages, Lines
    <2> QED BY <1>1, <2>1, <2>2 DEF JournalInv, FilesOK, CountsOK, JournalKeepsItsTail, Lines
  <1>4. CASE journal = 0
    <2> HIDE DEF next
    <2>1. /\ size' = Append(size, 0) /\ journal' = Len(size')
          /\ writer' = [writer EXCEPT ![w] = [stage |-> next, file |-> journal']]
      BY <1>4 DEF OpenJournal, next
    <2>2. /\ size' \in Seq(Nat) /\ Len(size') = Len(size) + 1
          /\ size'[Len(size) + 1] = 0 /\ \A f \in 1..Len(size) : size'[f] = size[f]
      BY <1>2, <2>1
    <2>3. Lines(journal)' = 0 /\ Lines(previous)' = Lines(previous) /\ Lines(journal) = 0
      BY <1>1, <1>2, <1>4, <2>1, <2>2 DEF Lines
    <2>4. FilesOK'
      BY <1>1, <1>2, <2>1, <2>2 DEF FilesOK
    <2>5. \A v \in Writers : v # w =>
            writer[v].stage \notin {"remove", "rename"} /\ writer'[v] = writer[v]
      BY <1>4, <2>1 DEF JournalInv, WritersOK, WriterOK
    <2>6. writer' \in [Writers -> [stage : WriterStages, file : 0..Len(size')]]
      BY <1>1, <1>2, <2>1, <2>2 DEF JournalInv, WritersOK, WriterStages
    <2>7. ASSUME NEW v \in Writers
          PROVE  WriterOK(v)'
      BY <1>1, <1>2, <2>1, <2>2, <2>5, <2>7 DEF JournalInv, WritersOK, WriterOK
    <2>8. WritersOK'
      BY <1>1, <2>6, <2>7 DEF JournalInv, WritersOK
    <2>9. CountsOK' /\ JournalKeepsItsTail'
      BY <1>1, <2>3 DEF JournalInv, CountsOK, JournalKeepsItsTail
    <2> QED BY <2>4, <2>8, <2>9 DEF JournalInv
  <1> QED BY <1>3, <1>4

LEMMA StopKeeps ==
    ASSUME JournalInv, NEW w \in Writers, Stop(w)
    PROVE  JournalInv'
  <1>1. /\ stops' \in 0..MaxStops /\ writer' = [writer EXCEPT ![w] = NewWriter]
        /\ rotating' = IF rotating = w THEN NoWriter ELSE rotating
        /\ UNCHANGED <<size, journal, previous, summary, landed>>
    BY JournalAssumption DEF Stop, JournalInv, CountsOK
  <1>2. 0 \in 0..Len(size)
    BY LinesAreNumbers DEF JournalInv
  <1>3. WritersOK'
    BY <1>1, <1>2 DEF JournalInv, WritersOK, WriterOK, NewWriter, WriterStages, Lines
  <1> QED BY <1>1, <1>3 DEF JournalInv, FilesOK, CountsOK, JournalKeepsItsTail, Lines

LEMMA SummarizeKeeps ==
    ASSUME JournalInv, Summarize
    PROVE  JournalInv'
  <1>1. /\ Lines(journal) \in Nat /\ Lines(previous) \in Nat /\ landed \in Nat
        /\ summary.total \in Nat
    BY LinesAreNumbers DEF JournalInv, FilesOK, CountsOK
  <1>2. UNCHANGED <<size, journal, previous, rotating, writer, stops, landed>>
    BY DEF Summarize
  <1>3. /\ Lines(journal)' = Lines(journal) /\ Lines(previous)' = Lines(previous)
        /\ FilesOK' /\ WritersOK' /\ JournalKeepsItsTail'
    BY <1>2 DEF JournalInv, FilesOK, WritersOK, WriterOK, JournalKeepsItsTail, Lines
  <1>4. SummaryOrder[1] = "previous" /\ SummaryOrder[2] = "journal"
    BY DEF SummaryOrder
  <1>5. summary = [stage |-> summary.stage, total |-> summary.total]
    BY DEF JournalInv, CountsOK
  <1>6. CASE summary.stage = "previous"
    <2>1. summary' = [stage |-> "journal", total |-> summary.total + Lines(previous)]
      BY <1>6, <1>5, <1>4 DEF Summarize, Generation
    <2>2. /\ summary'.stage = "journal" /\ summary'.total = Lines(previous)
          /\ summary' \in [stage : {"previous", "journal", "done"}, total : Nat]
      BY <1>1, <1>6, <2>1 DEF JournalInv, CountsOK
    <2>3. CountsOK'
      BY <1>1, <1>2, <1>3, <2>2 DEF JournalInv, CountsOK
    <2> QED BY <1>3, <2>3 DEF JournalInv
  <1>7. CASE summary.stage = "journal"
    <2>1. summary' = [stage |-> "done", total |-> summary.total + Lines(journal)]
      BY <1>7, <1>5, <1>4 DEF Summarize, Generation
    <2>2. /\ summary'.stage = "done" /\ summary'.total = summary.total + Lines(journal)
          /\ summary' \in [stage : {"previous", "journal", "done"}, total : Nat]
      BY <1>1, <1>7, <2>1 DEF JournalInv, CountsOK
    <2>3. CountsOK'
      BY <1>1, <1>2, <1>7, <1>3, <2>2 DEF JournalInv, CountsOK
    <2> QED BY <1>3, <2>3 DEF JournalInv
  <1> QED BY <1>6, <1>7 DEF Summarize

LEMMA JournalNextKeeps ==
    ASSUME JournalInv, [JournalNext]_journalVars
    PROVE  JournalInv'
  <1>1. CASE UNCHANGED journalVars
    BY <1>1 DEF journalVars, JournalInv, FilesOK, WritersOK, WriterOK, CountsOK,
       JournalKeepsItsTail, Lines
  <1>2. CASE Summarize
    BY <1>2, SummarizeKeeps
  <1>3. ASSUME NEW w \in Writers,
               \/ OpenJournal(w) \/ Stat(w) \/ TryLock(w) \/ CheckAgain(w)
               \/ RemovePrevious(w) \/ Rename(w) \/ WriteLine(w) \/ Stop(w)
        PROVE  JournalInv'
    BY <1>3, OpenJournalKeeps, QuietWriterSteps, CheckAgainKeeps, RemovePreviousKeeps,
       RenameKeeps, WriteLineKeeps, StopKeeps
  <1> QED BY <1>1, <1>2, <1>3 DEF JournalNext

LEMMA JournalInvHolds == JournalSpec => []JournalInv
  <1>1. JournalInv /\ [JournalNext]_journalVars => JournalInv'
    BY JournalNextKeeps
  <1> QED BY InitGivesJournal, <1>1, PTL DEF JournalSpec

\* Type correctness of the journal: its names stand for files that were created, its
\* writers are at one of their steps (native_journal.go).
THEOREM JournalTypeCorrect == JournalSpec => []JournalTypeOK
  <1>1. JournalInv => JournalTypeOK
    BY JournalInvGivesProperties
  <1> QED BY JournalInvHolds, <1>1, PTL

\* Rotation never leaves less than a full generation of what was written, however
\* many processes rotate, write and die at once (rotateNativeJournal).
THEOREM JournalTailIsKept == JournalSpec => []JournalKeepsItsTail
  <1>1. JournalInv => JournalKeepsItsTail
    BY JournalInvGivesProperties
  <1> QED BY JournalInvHolds, <1>1, PTL

\* A summary that reads the previous generation first counts no line twice, whatever
\* is renamed between its two readings (aggregateNativeDelegations).
THEOREM NothingIsCountedTwice == JournalSpec => []SummariesCountOnce
  <1>1. JournalInv => SummariesCountOnce
    BY JournalInvGivesProperties
  <1> QED BY JournalInvHolds, <1>1, PTL

(***************************************************************************)
(* A command and its reads.  Whoever is allowed now has been since its     *)
(* attempt began.  A read that has met an overloaded relay has a deadline, *)
(* which neither its timers nor the present have passed.                   *)
(***************************************************************************)

FetchOK(f, r) ==
    /\ f.stage # "over" /\ r \in allowed => f.permitted
    /\ f.stage = "told" /\ f.verdict => f.permitted
    /\ f.stage = "posted" => f.permitted /\ f.deadline # 0
    /\ f.overloaded /\ f.stage # "over" => f.deadline # 0 /\ moment <= f.deadline
    /\ f.overloaded /\ f.stage \in {"posted", "sleeping"} => f.timer <= f.deadline
    /\ f.artefact => f.stage = "over" /\ Cancelled

\* What the command has received, and retained.
ReceivedOK ==
    /\ \A r \in taken : /\ fetch[r].stage = "over"
                        /\ fetch[r].result \in TerminalFailures => terminal # NoRead
    /\ terminal # NoRead => /\ terminal \in taken
                            /\ fetch[terminal].result \in TerminalFailures
                            /\ fetch[terminal].artefact => stopped

CommandOK ==
    /\ command.stage # "reading" => taken = Reads
    /\ command.stage \in {"preparing", "prepared", "native"} =>
          /\ terminal = NoRead /\ settings.fallback
          /\ command.culprit \in Reads /\ fetch[command.culprit].result \in Fallback
    /\ command.stage \in {"preparing", "prepared"} /\ "native" \in allowed
          => command.permitted
    /\ command.stage = "prepared" /\ command.verdict => command.permitted
    /\ command.stage = "native" => command.permitted
    /\ command.stage = "reported" /\ ~stopped =>
          \A r \in Reads : command.culprit = r => ~fetch[r].artefact

ClientInv ==
    /\ ClientTypeOK
    /\ \A r \in Reads : FetchOK(fetch[r], r)
    /\ ReceivedOK /\ CommandOK

LEMMA ClientInvGivesProperties ==
    ClientInv => /\ NativeOnlyAfterRefusal /\ OwnCancellationIsNotReported
                 /\ OverloadedReadsEndInTime /\ CallsArePermitted
  <1> SUFFICES ASSUME ClientInv
      PROVE  /\ NativeOnlyAfterRefusal /\ OwnCancellationIsNotReported
             /\ OverloadedReadsEndInTime /\ CallsArePermitted
    OBVIOUS
  <1>1. NativeOnlyAfterRefusal
    BY DEF ClientInv, ReceivedOK, CommandOK, NativeOnlyAfterRefusal
  <1>2. OwnCancellationIsNotReported
    BY DEF ClientInv, CommandOK, OwnCancellationIsNotReported
  <1>3. OverloadedReadsEndInTime
    BY DEF ClientInv, FetchOK, OverloadedReadsEndInTime
  <1>4. CallsArePermitted
    BY DEF ClientInv, FetchOK, CommandOK, CallsArePermitted
  <1> QED BY <1>1, <1>2, <1>3, <1>4

--------------------------------------------------------------------------------

\* A read that goes on leaves the rest as it is.
LEMMA FetchGoesOn ==
    ASSUME ClientInv, NEW r \in Reads, NEW f \in FetchType, fetch[r].stage # "over",
           ReadBecomes(r, f), FetchOK(f, r)
    PROVE  ClientInv'
  <1>1. r \notin taken /\ UNCHANGED unfetched
    BY DEF ClientInv, ReceivedOK, ReadBecomes
  <1> USE <1>1 DEF unfetched
  <1>2. /\ fetch' = [fetch EXCEPT ![r] = f] /\ fetch \in [Reads -> FetchType]
        /\ fetch' \in [Reads -> FetchType] /\ fetch'[r] = f
        /\ \A s \in Reads : s # r => fetch'[s] = fetch[s]
    BY DEF ClientInv, ClientTypeOK, ReadBecomes
  <1>3. ClientTypeOK'
    BY <1>2 DEF ClientInv, ClientTypeOK
  <1>4. ASSUME NEW s \in Reads PROVE FetchOK(fetch[s], s)'
    <2>1. FetchOK(fetch'[s], s)
      BY <1>2 DEF ClientInv
    <2> QED BY <2>1 DEF FetchOK, Cancelled
  <1>5. \A s \in taken : fetch'[s] = fetch[s]
    BY <1>2 DEF ClientInv, ClientTypeOK
  <1>6. ReceivedOK'
    BY <1>5 DEF ClientInv, ReceivedOK
  <1>7. command'.stage = "reading"
    BY DEF ClientInv, CommandOK
  <1>8. CommandOK'
    BY <1>7 DEF CommandOK
  <1> QED BY <1>3, <1>4, <1>6, <1>8 DEF ClientInv

LEMMA NewFetchIsTyped ==
    NewFetch \in FetchType
  BY DEF NewFetch, FetchType

LEMMA EndKeeps ==
    ASSUME ClientInv, NEW r \in Reads, fetch[r].stage # "over",
           NEW result \in Whole \cup {"policy", "blocked", "cancelled", "broken", "timeout"},
           ReadEnds(r, result)
    PROVE  ClientInv'
  <1> DEFINE artefact == Cancelled /\ result \in {"cancelled", "policy"}
  <1>1. PICK f : f = [NewFetch EXCEPT !.stage = "over", !.result = result,
                                      !.artefact = artefact]
    OBVIOUS
  <1>2. artefact \in BOOLEAN
    OBVIOUS
  <1>3. /\ f \in FetchType /\ f.stage = "over" /\ f.artefact = artefact
    <2> HIDE DEF artefact
    <2> QED BY <1>1, <1>2 DEF NewFetch, FetchType
  <1>4. ReadBecomes(r, f)
    BY <1>1 DEF ReadEnds
  <1>5. FetchOK(f, r)
    BY <1>3 DEF FetchOK
  <1> QED BY <1>3, <1>4, <1>5, FetchGoesOn

--------------------------------------------------------------------------------

LEMMA FetchIsTyped ==
    ASSUME ClientInv, NEW r \in Reads
    PROVE  fetch[r] \in FetchType /\ FetchOK(fetch[r], r) /\ moment \in Nat
  BY DEF ClientInv, ClientTypeOK

LEMMA SeePolicyKeeps ==
    ASSUME ClientInv, NEW r \in Reads, SeePolicy(r)
    PROVE  ClientInv'
  <1> DEFINE passes == r \in allowed
  <1>0. passes \in BOOLEAN
    OBVIOUS
  <1>1. PICK f : f = [fetch[r] EXCEPT !.stage = "told", !.verdict = passes]
    OBVIOUS
  <1>2. fetch[r] \in FetchType /\ FetchOK(fetch[r], r)
    BY FetchIsTyped
  <1>3. f \in FetchType
    <2> HIDE DEF passes
    <2> QED BY <1>0, <1>1, <1>2 DEF FetchType
  <1>4. /\ f.stage = "told" /\ f.verdict = passes
        /\ f.permitted = fetch[r].permitted /\ f.overloaded = fetch[r].overloaded
        /\ f.deadline = fetch[r].deadline /\ f.artefact = fetch[r].artefact
    BY <1>1, <1>2 DEF FetchType
  <1>5. FetchOK(f, r)
    BY <1>2, <1>4 DEF FetchOK, SeePolicy
  <1> QED BY <1>1, <1>3, <1>5, FetchGoesOn DEF SeePolicy

LEMMA PolicyFailsKeeps ==
    ASSUME ClientInv, NEW r \in Reads, PolicyFails(r)
    PROVE  ClientInv'
  BY EndKeeps DEF PolicyFails

LEMMA BlockKeeps ==
    ASSUME ClientInv, NEW r \in Reads, Block(r)
    PROVE  ClientInv'
  BY EndKeeps DEF Block

LEMMA PostKeeps ==
    ASSUME ClientInv, NEW r \in Reads, Post(r)
    PROVE  ClientInv'
  <1> DEFINE limit == moment + ReadLimit
             deadline == IF fetch[r].deadline = 0 THEN limit ELSE fetch[r].deadline
             timer == IF fetch[r].overloaded THEN Sooner(limit, deadline) ELSE limit
  <1>1. fetch[r] \in FetchType /\ FetchOK(fetch[r], r) /\ moment \in Nat
    BY FetchIsTyped
  <1>2. fetch[r].stage = "told" /\ fetch[r].verdict
    BY DEF Post
  <1>3. CASE fetch[r].overloaded /\ deadline <= moment
    <2>1. ReadEnds(r, IF Cancelled THEN "cancelled" ELSE "timeout")
      BY <1>3 DEF Post
    <2> QED BY <1>2, <2>1, EndKeeps
  <1>4. CASE ~(fetch[r].overloaded /\ deadline <= moment)
    <2>1. PICK f : f = [fetch[r] EXCEPT !.stage = "posted", !.deadline = deadline,
                                        !.timer = timer]
      OBVIOUS
    <2>2. deadline \in Nat \ {0} /\ timer \in Nat
      BY <1>1, ClientAssumption DEF FetchType, Sooner
    <2>3. fetch[r].overloaded => timer <= deadline /\ deadline = fetch[r].deadline
      BY <1>1, <1>2, <2>2, ClientAssumption DEF FetchOK, Sooner, FetchType
    <2>4. /\ f \in FetchType
          /\ f.stage = "posted" /\ f.deadline = deadline /\ f.timer = timer
          /\ f.permitted = fetch[r].permitted /\ f.overloaded = fetch[r].overloaded
          /\ f.artefact = fetch[r].artefact
      <3> HIDE DEF deadline, timer
      <3> QED BY <1>1, <2>1, <2>2 DEF FetchType
    <2>5. FetchOK(f, r)
      <3> HIDE DEF deadline, timer
      <3> QED BY <1>1, <1>2, <2>2, <2>3, <2>4 DEF FetchOK
    <2>6. ReadBecomes(r, f)
      BY <1>4, <2>1 DEF Post
    <2> QED BY <1>2, <2>4, <2>5, <2>6, FetchGoesOn
  <1> QED BY <1>3, <1>4

--------------------------------------------------------------------------------

LEMMA DelaysAreNumbers ==
    ASSUME NEW answer, NEW attempt \in Nat, NEW delay \in Delays(answer, attempt)
    PROVE  delay \in Nat
  BY ClientAssumption DEF Delays, OverloadDelays

LEMMA RepliesAreResults ==
    RelayReplies \subseteq Whole \cup {"policy", "blocked", "cancelled", "broken", "timeout"}
  BY DEF RelayReplies

LEMMA RetryKeeps ==
    ASSUME ClientInv, NEW r \in Reads, fetch[r].stage = "posted",
           NEW answer, NEW delay \in Nat, Retry(r, answer, delay)
    PROVE  ClientInv'
  <1>1. fetch[r] \in FetchType /\ FetchOK(fetch[r], r) /\ moment \in Nat
    BY FetchIsTyped
  <1>2. PICK p : p = [fetch[r] EXCEPT !.overloaded = @ \/ answer = "overloaded"]
    OBVIOUS
  <1>3. /\ p \in FetchType /\ p.overloaded = (fetch[r].overloaded \/ answer = "overloaded")
        /\ p.permitted = fetch[r].permitted /\ p.deadline = fetch[r].deadline
        /\ p.waited = fetch[r].waited /\ p.attempt = fetch[r].attempt
        /\ p.artefact = fetch[r].artefact
    BY <1>1, <1>2 DEF FetchType
  <1>4. p.overloaded => InBudget(p, delay)
    BY <1>2 DEF Retry
  <1>5. CASE Cancelled
    <2>1. ReadEnds(r, "cancelled")
      BY <1>5 DEF Retry
    <2> QED BY <2>1, EndKeeps
  <1>6. CASE ~Cancelled
    <2> DEFINE timer == moment + delay
               waited == p.waited + delay
               attempt == p.attempt + 1
    <2>0. p \in FetchType /\ timer \in Nat /\ waited \in Nat /\ attempt \in Nat
      BY <1>1, <1>3 DEF FetchType
    <2>1. PICK f : f = [p EXCEPT !.stage = "sleeping", !.timer = timer,
                                 !.waited = waited, !.attempt = attempt]
      OBVIOUS
    <2>2. /\ f \in FetchType /\ f.stage = "sleeping" /\ f.timer = timer
          /\ f.overloaded = p.overloaded /\ f.permitted = p.permitted
          /\ f.deadline = p.deadline /\ f.artefact = p.artefact
      <3> HIDE DEF timer, waited, attempt
      <3> QED BY <2>0, <2>1 DEF FetchType
    <2>3. f.overloaded => f.timer < f.deadline
      BY <1>4, <2>2 DEF InBudget
    <2>4. FetchOK(f, r)
      BY <1>1, <1>3, <2>2, <2>3 DEF FetchOK, FetchType
    <2>5. ReadBecomes(r, f)
      BY <1>2, <1>6, <2>1 DEF Retry
    <2> QED BY <2>2, <2>4, <2>5, FetchGoesOn
  <1> QED BY <1>5, <1>6

LEMMA ReplyKeeps ==
    ASSUME ClientInv, NEW r \in Reads, NEW answer \in RelayReplies, Reply(r, answer)
    PROVE  ClientInv'
  <1>1. fetch[r].stage = "posted" /\ fetch[r] \in FetchType
    BY FetchIsTyped DEF Reply
  <1>2. PICK delay \in Delays(answer, fetch[r].attempt) :
            Retry(r, answer, delay) \/ Give(r, answer, delay)
    BY DEF Reply
  <1>3. delay \in Nat
    BY <1>1, DelaysAreNumbers DEF FetchType
  <1>4. CASE Retry(r, answer, delay)
    BY <1>1, <1>3, <1>4, RetryKeeps
  <1>5. CASE Give(r, answer, delay)
    <2>1. ReadEnds(r, answer)
      BY <1>5 DEF Give
    <2> QED BY <1>1, <2>1, RepliesAreResults, EndKeeps
  <1> QED BY <1>2, <1>4, <1>5

LEMMA WakeUpKeeps ==
    ASSUME ClientInv, NEW r \in Reads, WakeUp(r)
    PROVE  ClientInv'
  <1>1. CASE ReadEnds(r, "cancelled")
    BY <1>1, EndKeeps DEF WakeUp
  <1>2. CASE ReadBecomes(r, Attempt(r))
    <2>1. fetch[r] \in FetchType /\ FetchOK(fetch[r], r)
      BY FetchIsTyped
    <2> DEFINE passes == r \in allowed
    <2>0. passes \in BOOLEAN
      OBVIOUS
    <2>2. PICK f : f = [fetch[r] EXCEPT !.stage = "asking", !.verdict = FALSE,
                                        !.permitted = passes]
      OBVIOUS
    <2>3. /\ f \in FetchType /\ f.stage = "asking" /\ f.permitted = passes
          /\ f.overloaded = fetch[r].overloaded /\ f.deadline = fetch[r].deadline
          /\ f.artefact = fetch[r].artefact
      <3> HIDE DEF passes
      <3> QED BY <2>0, <2>1, <2>2 DEF FetchType
    <2>4. FetchOK(f, r)
      BY <2>1, <2>3 DEF FetchOK, WakeUp
    <2> QED BY <1>2, <2>2, <2>3, <2>4, FetchGoesOn DEF WakeUp, Attempt
  <1> QED BY <1>1, <1>2 DEF WakeUp

LEMMA TurnKeeps ==
    ASSUME ClientInv, NEW r \in Reads, Turn(r)
    PROVE  ClientInv'
  <1>1. fetch[r] \in FetchType
    BY FetchIsTyped
  <1> DEFINE passes == r \in allowed
             page == fetch[r].page + 1
  <1>0. passes \in BOOLEAN /\ page \in Nat
    BY <1>1 DEF FetchType
  <1>2. PICK f : f = [NewFetch EXCEPT !.page = page, !.permitted = passes]
    OBVIOUS
  <1>3. /\ f \in FetchType /\ f.stage = "asking" /\ f.permitted = passes
        /\ f.overloaded = FALSE /\ f.artefact = FALSE
    <2> HIDE DEF passes, page
    <2> QED BY <1>0, <1>2 DEF NewFetch, FetchType
  <1>4. FetchOK(f, r)
    BY <1>3 DEF FetchOK
  <1> QED BY <1>2, <1>3, <1>4, FetchGoesOn DEF Turn

--------------------------------------------------------------------------------

\* What is received of a read: the failure that is retained is one of those received.
LEMMA RetainedIsReal ==
    ASSUME ClientInv, NEW r \in Reads, Collect(r)
    PROVE  /\ ReceivedOK' /\ terminal' \in Reads \cup {NoRead}
           /\ terminal # NoRead => terminal' = terminal
           /\ taken' = taken \cup {r} /\ taken' \subseteq Reads
  <1> USE DEF Reads, NoRead
  <1>1. /\ fetch' = fetch /\ stopped' = stopped /\ terminal' = Retain(r)
        /\ taken' = taken \cup {r} /\ fetch[r].stage = "over"
    BY DEF Collect
  <1>2. /\ taken \subseteq Reads /\ terminal \in Reads \cup {NoRead}
    BY DEF ClientInv, ClientTypeOK
  <1>3. fetch[r].artefact => stopped \/ terminal # NoRead
    BY DEF ClientInv, FetchOK, Cancelled
  <1>4. CASE terminal = NoRead /\ fetch[r].result \in TerminalFailures
    <2>1. terminal' = r
      BY <1>1, <1>4 DEF Retain
    <2>2. ReceivedOK'
      BY <1>1, <1>2, <1>3, <1>4, <2>1 DEF ClientInv, ReceivedOK
    <2> QED BY <1>1, <1>2, <1>4, <2>1, <2>2
  <1>5. CASE ~(terminal = NoRead /\ fetch[r].result \in TerminalFailures)
    <2>1. terminal' = terminal
      BY <1>1, <1>5 DEF Retain
    <2>2. ReceivedOK'
      BY <1>1, <1>2, <1>5, <2>1 DEF ClientInv, ReceivedOK
    <2> QED BY <1>1, <1>2, <2>1, <2>2
  <1> QED BY <1>4, <1>5

LEMMA CollectKeeps ==
    ASSUME ClientInv, NEW r \in Reads, Collect(r)
    PROVE  ClientInv'
  <1> DEFINE culprit == Culprit(terminal')
             handed == culprit # NoRead /\ fetch[culprit].result \in Fallback
                       /\ settings.fallback
             stage == IF culprit = NoRead THEN "answered"
                      ELSE IF handed THEN "preparing" ELSE "reported"
             permitted == handed /\ "native" \in allowed
  <1>1. /\ UNCHANGED <<moment, settings, allowed, changes, fetch, stopped>>
        /\ terminal' = Retain(r) /\ r \notin taken
    BY DEF Collect
  <1>2. /\ ReceivedOK' /\ terminal' \in Reads \cup {NoRead}
        /\ terminal # NoRead => terminal' = terminal
        /\ taken' = taken \cup {r} /\ taken' \subseteq Reads
    BY RetainedIsReal
  <1>3. \A s \in Reads : FetchOK(fetch[s], s)'
    <2> SUFFICES ASSUME NEW s \in Reads PROVE FetchOK(fetch[s], s)'
      OBVIOUS
    <2>1. FetchOK(fetch[s], s)
      BY DEF ClientInv
    <2>2. Cancelled => Cancelled'
      BY <1>1, <1>2 DEF Cancelled
    <2> QED BY <1>1, <2>1, <2>2 DEF FetchOK
  <1>4. command.stage = "reading" /\ command \in CommandType
    <2>1. r \in Reads /\ taken # Reads
      BY <1>1
    <2> QED BY <2>1 DEF ClientInv, ClientTypeOK, CommandOK
  <1>5. CASE taken' # Reads
    <2>1. command' = command
      BY <1>5 DEF Collect
    <2>2. ClientTypeOK'
      BY <1>1, <1>2, <2>1 DEF ClientInv, ClientTypeOK
    <2>3. CommandOK'
      BY <1>4, <2>1 DEF CommandOK
    <2> QED BY <1>2, <1>3, <2>2, <2>3 DEF ClientInv
  <1>6. CASE taken' = Reads
    <2>1. command' = [stage |-> stage, culprit |-> culprit, verdict |-> FALSE,
                      permitted |-> permitted]
      BY <1>1, <1>6 DEF Collect
    <2>2. culprit \in Reads \cup {NoRead}
      BY <1>2 DEF Culprit, FirstFailure, Reads
    <2>3. /\ stage \in {"answered", "preparing", "reported"} /\ permitted \in BOOLEAN
          /\ command'.stage = stage /\ command'.culprit = culprit
          /\ command'.permitted = permitted /\ command' \in CommandType
      <3>1. stage \in {"answered", "preparing", "reported"} /\ permitted \in BOOLEAN
        OBVIOUS
      <3> HIDE DEF stage, culprit, permitted
      <3> QED BY <2>1, <2>2, <3>1 DEF CommandType, Subjects
    <2>4. ClientTypeOK'
      BY <1>1, <1>2, <2>3 DEF ClientInv, ClientTypeOK
    <2>5. terminal' # NoRead => culprit = terminal' /\ fetch[culprit].result \in TerminalFailures
      BY <1>1, <1>2 DEF Culprit, ReceivedOK
    <2>6. stage = "preparing" =>
            /\ terminal' = NoRead /\ settings.fallback /\ culprit \in Reads
            /\ fetch[culprit].result \in Fallback
      BY <2>2, <2>5 DEF TerminalFailures, Fallback
    <2>7. \A s \in Reads : culprit = s /\ fetch[s].artefact => stopped
      <3> SUFFICES ASSUME NEW s \in Reads, culprit = s, fetch[s].artefact PROVE stopped
        OBVIOUS
      <3>1. CASE terminal' # NoRead
        BY <1>1, <1>2, <2>5, <3>1 DEF ReceivedOK
      <3>2. CASE terminal' = NoRead
        BY <1>2, <3>2 DEF ClientInv, FetchOK, Cancelled
      <3> QED BY <3>1, <3>2
    <2>8. CommandOK'
      <3>1. command'.stage \notin {"prepared", "native"}
        BY <2>3
      <3>2. command'.stage = "preparing" /\ "native" \in allowed => command'.permitted
        BY <2>2, <2>3, <2>6
      <3> HIDE DEF stage, culprit, permitted
      <3> QED BY <1>1, <1>6, <2>3, <2>6, <2>7, <3>1, <3>2 DEF CommandOK
    <2> QED BY <1>2, <1>3, <2>4, <2>8 DEF ClientInv
  <1> QED BY <1>5, <1>6

--------------------------------------------------------------------------------

\* What the command does afterwards leaves the reads as they are.
LEMMA CommandGoesOn ==
    ASSUME ClientInv, NEW c \in CommandType, Proceeds(c), CommandOK'
    PROVE  ClientInv'
  <1> USE DEF Proceeds
  <1>1. ClientTypeOK'
    BY DEF ClientInv, ClientTypeOK
  <1>2. \A r \in Reads : FetchOK(fetch[r], r)'
    BY DEF ClientInv, FetchOK, Cancelled
  <1>3. ReceivedOK'
    BY DEF ClientInv, ReceivedOK
  <1> QED BY <1>1, <1>2, <1>3 DEF ClientInv

LEMMA PrepareKeeps ==
    ASSUME ClientInv, Prepare
    PROVE  ClientInv'
  <1> DEFINE passes == "native" \in allowed
  <1>1. passes \in BOOLEAN /\ command \in CommandType
    BY DEF ClientInv, ClientTypeOK
  <1>2. PICK c : c = [command EXCEPT !.stage = "prepared", !.verdict = passes]
    OBVIOUS
  <1>3. /\ c \in CommandType /\ c.stage = "prepared" /\ c.verdict = passes
        /\ c.permitted = command.permitted /\ c.culprit = command.culprit
    <2> HIDE DEF passes
    <2> QED BY <1>1, <1>2 DEF CommandType
  <1>4. Proceeds(c) /\ command.stage = "preparing"
    BY <1>2 DEF Prepare
  <1>5. CommandOK'
    BY <1>3, <1>4 DEF ClientInv, CommandOK, Proceeds
  <1> QED BY <1>3, <1>4, <1>5, CommandGoesOn

LEMMA NotRunKeeps ==
    ASSUME ClientInv, command.stage \in {"preparing", "prepared"}, Proceeds(NotRun)
    PROVE  ClientInv'
  <1>1. PICK c : c = NotRun
    OBVIOUS
  <1>2. c \in CommandType /\ c.stage = "reported" /\ c.culprit = "native"
    BY <1>1 DEF ClientInv, ClientTypeOK, NotRun, CommandType, Subjects
  <1>3. CommandOK'
    BY <1>1, <1>2 DEF ClientInv, CommandOK, Proceeds, Reads
  <1> QED BY <1>1, <1>2, <1>3, CommandGoesOn

LEMMA RunNativeKeeps ==
    ASSUME ClientInv, RunNative
    PROVE  ClientInv'
  <1>1. CASE command.verdict /\ ~stopped
    <2>1. PICK c : c = [command EXCEPT !.stage = "native"]
      OBVIOUS
    <2>2. /\ c \in CommandType /\ c.stage = "native"
          /\ c.permitted = command.permitted /\ c.culprit = command.culprit
      BY <2>1 DEF ClientInv, ClientTypeOK, CommandType
    <2>3. Proceeds(c) /\ command.stage = "prepared"
      BY <1>1, <2>1 DEF RunNative
    <2>4. CommandOK'
      BY <1>1, <2>2, <2>3 DEF ClientInv, CommandOK, Proceeds
    <2> QED BY <2>2, <2>3, <2>4, CommandGoesOn
  <1>2. CASE ~(command.verdict /\ ~stopped)
    BY <1>2, NotRunKeeps DEF RunNative
  <1> QED BY <1>1, <1>2

--------------------------------------------------------------------------------

LEMMA InterruptKeeps ==
    ASSUME ClientInv, Interrupt
    PROVE  ClientInv'
  <1> USE DEF Interrupt
  <1>1. ClientTypeOK'
    BY DEF ClientInv, ClientTypeOK
  <1>2. \A r \in Reads : FetchOK(fetch[r], r)'
    BY DEF ClientInv, FetchOK, Cancelled
  <1>3. ReceivedOK'
    BY DEF ClientInv, ReceivedOK
  <1>4. CommandOK'
    BY DEF ClientInv, CommandOK
  <1> QED BY <1>1, <1>2, <1>3, <1>4 DEF ClientInv

LEMMA ChangePolicyKeeps ==
    ASSUME ClientInv, ChangePolicy
    PROVE  ClientInv'
  <1> DEFINE passes(r) == fetch[r].stage # "over" /\ (fetch[r].permitted \/ r \in allowed')
             handoff == command.stage # "reading"
                        /\ (command.permitted \/ "native" \in allowed')
  <1>1. /\ UNCHANGED <<moment, settings, taken, terminal, stopped>>
        /\ allowed' \in Policies /\ changes' = changes + 1
    BY DEF ChangePolicy
  <1>2. /\ fetch \in [Reads -> FetchType] /\ command \in CommandType
        /\ changes \in Nat
    BY DEF ClientInv, ClientTypeOK
  <1>3. ASSUME NEW r \in Reads
        PROVE  /\ fetch'[r] \in FetchType /\ fetch'[r].permitted = passes(r)
               /\ fetch'[r].stage = fetch[r].stage /\ fetch'[r].result = fetch[r].result
               /\ fetch'[r].overloaded = fetch[r].overloaded
               /\ fetch'[r].deadline = fetch[r].deadline
               /\ fetch'[r].timer = fetch[r].timer
               /\ fetch'[r].verdict = fetch[r].verdict
               /\ fetch'[r].artefact = fetch[r].artefact
    <2>1. PICK p \in BOOLEAN : p = passes(r)
      OBVIOUS
    <2>2. fetch'[r] = [fetch[r] EXCEPT !.permitted = p]
      BY <2>1 DEF ChangePolicy
    <2> HIDE DEF passes
    <2> QED BY <1>2, <2>1, <2>2 DEF FetchType
  <1>4. /\ command' \in CommandType /\ command'.permitted = handoff
        /\ command'.stage = command.stage /\ command'.culprit = command.culprit
        /\ command'.verdict = command.verdict
    <2>1. PICK p \in BOOLEAN : p = handoff
      OBVIOUS
    <2>2. command' = [command EXCEPT !.permitted = p]
      BY <2>1 DEF ChangePolicy
    <2> HIDE DEF handoff
    <2> QED BY <1>2, <2>1, <2>2 DEF CommandType
  <1>5. ClientTypeOK'
    <2>1. fetch' \in [Reads -> FetchType]
      BY <1>3 DEF ChangePolicy
    <2> QED BY <1>1, <1>2, <1>4, <2>1, ClientAssumption DEF ClientInv, ClientTypeOK
  <1>6. ASSUME NEW r \in Reads PROVE FetchOK(fetch[r], r)'
    <2>1. FetchOK(fetch[r], r)
      BY DEF ClientInv
    <2> QED BY <1>1, <1>3, <2>1 DEF FetchOK, Cancelled
  <1>7. ReceivedOK'
    BY <1>1, <1>2, <1>3 DEF ClientInv, ClientTypeOK, ReceivedOK, Reads
  <1>8. CommandOK'
    <2>1. command.stage = "reported" /\ ~stopped =>
            \A r \in Reads : command.culprit = r => ~fetch'[r].artefact
      BY <1>3 DEF ClientInv, CommandOK
    <2>2. command.stage # "native"
      BY DEF ChangePolicy, Decided
    <2>3. command.stage \in {"preparing", "prepared"} =>
            /\ terminal = NoRead /\ settings.fallback /\ command.culprit \in Reads
            /\ fetch'[command.culprit].result \in Fallback
      BY <1>3 DEF ClientInv, CommandOK
    <2>4. command.stage = "prepared" /\ command.verdict => command.permitted
      BY DEF ClientInv, CommandOK
    <2>5. command.stage # "reading" => taken = Reads
      BY DEF ClientInv, CommandOK
    <2> QED BY <1>1, <1>4, <2>1, <2>2, <2>3, <2>4, <2>5 DEF CommandOK
  <1> QED BY <1>5, <1>6, <1>7, <1>8 DEF ClientInv

LEMMA ClientTickKeeps ==
    ASSUME ClientInv, ClientTick
    PROVE  ClientInv'
  <1>1. /\ UNCHANGED <<settings, allowed, changes, fetch, taken, terminal, stopped, command>>
        /\ moment' = moment + 1 /\ moment \in Nat
    BY DEF ClientTick, ClientInv, ClientTypeOK
  <1>2. ClientTypeOK'
    BY <1>1 DEF ClientInv, ClientTypeOK
  <1>3. ASSUME NEW r \in Reads PROVE FetchOK(fetch[r], r)'
    <2>1. fetch[r] \in FetchType /\ FetchOK(fetch[r], r) /\ ~Due(fetch[r])
      BY FetchIsTyped DEF ClientTick
    <2>2. fetch[r].overloaded /\ fetch[r].stage # "over" => moment + 1 <= fetch[r].deadline
      BY <1>1, <2>1 DEF FetchOK, Due, FetchType
    <2> QED BY <1>1, <2>1, <2>2 DEF FetchOK, Cancelled
  <1>4. ReceivedOK'
    BY <1>1 DEF ClientInv, ReceivedOK
  <1>5. CommandOK'
    BY <1>1 DEF ClientInv, CommandOK
  <1> QED BY <1>2, <1>3, <1>4, <1>5 DEF ClientInv

LEMMA InitGivesClient ==
    ClientInit => ClientInv
  <1> SUFFICES ASSUME ClientInit PROVE ClientInv
    OBVIOUS
  <1>1. ASSUME NEW r \in Reads
        PROVE  fetch[r] \in FetchType /\ FetchOK(fetch[r], r)
    <2> DEFINE passes == r \in allowed
    <2>1. fetch[r] = [NewFetch EXCEPT !.permitted = passes] /\ passes \in BOOLEAN
      BY DEF ClientInit
    <2>2. PICK f : f = [NewFetch EXCEPT !.permitted = passes]
      OBVIOUS
    <2>3. /\ f \in FetchType /\ f.stage = "asking" /\ f.permitted = passes
          /\ f.overloaded = FALSE /\ f.artefact = FALSE
      <3> HIDE DEF passes
      <3> QED BY <2>1, <2>2 DEF NewFetch, FetchType
    <2> QED BY <2>1, <2>2, <2>3 DEF FetchOK
  <1>2. command \in CommandType /\ command.stage = "reading"
    BY DEF ClientInit, NewCommand, CommandType
  <1>3. ClientTypeOK
    BY <1>1, <1>2, ClientAssumption DEF ClientInit, ClientTypeOK
  <1>4. ReceivedOK /\ CommandOK
    BY <1>2 DEF ClientInit, ReceivedOK, CommandOK
  <1> QED BY <1>1, <1>3, <1>4 DEF ClientInv

LEMMA ClientNextKeeps ==
    ClientInv /\ [ClientNext]_clientVars => ClientInv'
  <1> SUFFICES ASSUME ClientInv, [ClientNext]_clientVars PROVE ClientInv'
    OBVIOUS
  <1>1. ASSUME NEW r \in Reads,
               SeePolicy(r) \/ PolicyFails(r) \/ Block(r) \/ Post(r)
               \/ (\E answer \in RelayReplies : Reply(r, answer))
               \/ WakeUp(r) \/ Turn(r) \/ Collect(r)
        PROVE  ClientInv'
    BY <1>1, SeePolicyKeeps, PolicyFailsKeeps, BlockKeeps, PostKeeps, ReplyKeeps,
       WakeUpKeeps, TurnKeeps, CollectKeeps
  <1>2. CASE Prepare \/ PreparationFails \/ RunNative
    BY <1>2, PrepareKeeps, NotRunKeeps, RunNativeKeeps DEF PreparationFails
  <1>3. CASE Interrupt \/ ChangePolicy \/ ClientTick
    BY <1>3, InterruptKeeps, ChangePolicyKeeps, ClientTickKeeps
  <1>4. CASE UNCHANGED clientVars
    BY <1>4 DEF clientVars, ClientInv, ClientTypeOK, FetchOK, Cancelled, ReceivedOK, CommandOK
  <1> QED BY <1>1, <1>2, <1>3, <1>4 DEF ClientNext, CommandOver

LEMMA ClientInvHolds ==
    ClientSpec => []ClientInv
  BY InitGivesClient, ClientNextKeeps, PTL DEF ClientSpec

\* do, relayReadPair and what is done with their errors, for any limits, backoffs and
\* settings, any number of pages and changes of the policy: the state has its type.
THEOREM ClientTypeCorrect == ClientSpec => []ClientTypeOK
  <1>1. ClientInv => ClientTypeOK
    BY DEF ClientInv
  <1> QED BY ClientInvHolds, <1>1, PTL

\* relayReadPair, execRealGHAfterLocalFallback: gh is not run after a refusal of either
\* read, in whichever order the two ended.
THEOREM RefusalsAreNotRunNatively == ClientSpec => []NativeOnlyAfterRefusal
  BY ClientInvHolds, ClientInvGivesProperties, PTL

\* relayReadPair: the failure retained is one from before the other read is cancelled.
THEOREM RealFailuresAreReported == ClientSpec => []OwnCancellationIsNotReported
  BY ClientInvHolds, ClientInvGivesProperties, PTL

\* do, doOnce: the deadline of the first call is kept through every retry.
THEOREM OverloadedReadsEnd == ClientSpec => []OverloadedReadsEndInTime
  BY ClientInvHolds, ClientInvGivesProperties, PTL

\* doOnce, prepareProtectedGH: the policy is asked again by every attempt and handoff.
THEOREM AttemptsArePermitted == ClientSpec => []CallsArePermitted
  BY ClientInvHolds, ClientInvGivesProperties, PTL
================================================================================
