---------------------------- MODULE NodeStorage ----------------------------
(***************************************************************************)
(* The configuration of a node and the way it takes to the flash: who      *)
(* changes it (enrollment packets and terminal commands), the task queue   *)
(* of Storage, the commands it gives to pstorage, and resets at any time.  *)
(*                                                                         *)
(* A task holds a pointer to the configuration and no copy of it.  The     *)
(* flash has to be erased before it is written, so a save takes two        *)
(* commands, and a node that is reset between them finds nothing.          *)
(*                                                                         *)
(* There is one block, that of Node: the modules' blocks are written by a  *)
(* test command only, and never read, since modules ignore what is stored  *)
(* (ignorePersistentModuleConfigurationOnBoot).  Left out are the terminal *)
(* commands that go around the queue (save, load) or change the            *)
(* configuration without a save (set_nodeid, yousink), and the fields that *)
(* have their own ways: the connection loss counter, new at every boot,    *)
(* and the retry storage.                                                  *)
(***************************************************************************)
EXTENDS Integers, Sequences

CONSTANTS
  Id,                   (* nodeId and networkId, as enrollment sets them  *)
  Key,                  (* networkKey                                     *)
  DefaultId, DefaultKey, (* of the test device settings and Config        *)
  Blank,                (* an id or a key of 0xFF bytes                   *)
  BufferSlots,          (* TASK_BUFFER_LENGTH, in elements of 20 bytes: 8 *)
  MaxSaves, MaxFailures, MaxResets

ASSUME IdAssumption     == DefaultId \in Id /\ Blank \in Id
ASSUME KeyAssumption    == DefaultKey \in Key /\ Blank \in Key
ASSUME SlotsAssumption  == BufferSlots \in Nat /\ BufferSlots >= 4
ASSUME BoundsAssumption == MaxSaves \in Nat /\ MaxFailures \in Nat /\ MaxResets \in Nat

VARIABLES
  config,               (* persistentConfig                               *)
  storage,              (* Storage, and the commands given to pstorage    *)
  flash,                (* the block of Node                              *)
  executed,             (* the first command is done, its event under way *)
  saves, failures, resets (* bounds of a run                              *)

flashVars == <<flash, executed>>
counters  == <<saves, failures, resets>>
vars      == <<config, storage, flashVars, counters>>

(* version = 0xFFFFFFFF is a configuration that is not set. *)
Config == [version : {"set", "unset"}, id : Id, key : Key]
Erased == [version |-> "unset", id |-> Blank, key |-> Blank]

(* Words are written in the order of NodeConfiguration: a write that stops  *)
(* early leaves the start of it.                                            *)
Prefixes(c) ==
  {Erased, [Erased EXCEPT !.version = c.version], [c EXCEPT !.key = Blank], c}

-----------------------------------------------------------------------------
(* SimpleQueue, with pointers in elements of 20 bytes.  All elements have   *)
(* the size of a taskitem; length is the size field, 0 where an element     *)
(* would be next.                                                           *)
Position == 0..(BufferSlots - 1)
Task     == {"none", "read", "write"}

TaskQueue == [slots : [Position -> Task], readPointer : Position,
              writePointer : Position, numElements : Nat]

EmptyQueue == [slots |-> [p \in Position |-> "none"],
               readPointer |-> 0, writePointer |-> 0, numElements |-> 0]

Wraps_OneShort(q) ==                            (* faulty: no byte kept free *)
  /\ q.writePointer >= q.readPointer
  /\ BufferSlots - q.writePointer <= 1
  /\ q.readPointer >= 1

Wraps(q) ==
  /\ q.writePointer >= q.readPointer
  /\ BufferSlots - q.writePointer <= 1
  /\ q.readPointer >= 2

Refuses(q) ==
  /\ ~Wraps(q)
  /\ \/ q.readPointer <= q.writePointer /\ q.writePointer + 1 >= BufferSlots
     \/ q.readPointer > q.writePointer /\ q.writePointer + 1 >= q.readPointer

Put_Unchecked(q, task) ==                       (* faulty: a full buffer *)
  LET w == IF Wraps(q) THEN 0 ELSE q.writePointer
  IN [slots |-> [q.slots EXCEPT ![w] = task, ![w + 1] = "none"],
      readPointer |-> q.readPointer, writePointer |-> w + 1,
      numElements |-> q.numElements + 1]

Put(q, task) ==
  LET w == IF Wraps(q) THEN 0 ELSE q.writePointer
  IN IF Refuses(q) THEN q
     ELSE [slots |-> [q.slots EXCEPT ![w] = task, ![w + 1] = "none"],
           readPointer |-> q.readPointer, writePointer |-> w + 1,
           numElements |-> q.numElements + 1]

(* Where the next element is: at the start if the read pointer is at the    *)
(* zero size that a wrap has left.                                          *)
NextPosition(q) ==
  IF q.slots[q.readPointer] = "none" /\ q.writePointer < q.readPointer
  THEN 0 ELSE q.readPointer

PeekNext(q) == q.slots[NextPosition(q)]

GetNext(q) ==
  [slots |-> q.slots, readPointer |-> NextPosition(q) + 1,
   writePointer |-> q.writePointer, numElements |-> q.numElements - 1]

-----------------------------------------------------------------------------
(* Storage.  The only read is that of the boot; pstorage_load reports while *)
(* it runs, so a read never waits in the queue.                             *)
Store(queue, busy, commands) ==
  [taskQueue |-> queue, bufferedOperationInProgress |-> busy, commands |-> commands]

ProcessQueue_NoClear(s) ==                      (* faulty: not erased first *)
  IF s.bufferedOperationInProgress \/ s.taskQueue.numElements < 1 THEN s
  ELSE Store(s.taskQueue, TRUE, Append(s.commands, "store"))

ProcessQueue(s) ==
  IF s.bufferedOperationInProgress \/ s.taskQueue.numElements < 1 THEN s
  ELSE Store(s.taskQueue, TRUE, IF PeekNext(s.taskQueue) = "write"
                                THEN Append(s.commands, "clear") ELSE s.commands)

QueuedWrite_OneIsEnough(s) ==                   (* faulty: joins saves *)
  IF s.taskQueue.numElements > 0 THEN s
  ELSE ProcessQueue(Store(Put(s.taskQueue, "write"), FALSE, s.commands))

QueuedWrite(s) ==
  ProcessQueue(Store(Put(s.taskQueue, "write"), s.bufferedOperationInProgress, s.commands))

(* PstorageEventHandler, by the command and its result.                     *)
AfterClear(s) ==
  Store(s.taskQueue, s.bufferedOperationInProgress, Append(Tail(s.commands), "store"))

AfterStore(s) == ProcessQueue(Store(GetNext(s.taskQueue), FALSE, Tail(s.commands)))

AfterError_NotTried(s) ==                       (* faulty: task left alone *)
  Store(s.taskQueue, FALSE, Tail(s.commands))

AfterError_Waits(s) ==                          (* faulty: still busy *)
  Store(s.taskQueue, s.bufferedOperationInProgress, Tail(s.commands))

AfterError(s) == ProcessQueue(Store(s.taskQueue, FALSE, Tail(s.commands)))

(* The event of pstorage_load comes while it runs and drops the task again. *)
QueuedRead(s) == Store(GetNext(Put(s.taskQueue, "read")), FALSE, s.commands)

(* The storage of a node that has started and read its configuration.       *)
Started == QueuedRead(Store(EmptyQueue, FALSE, <<>>))

DefaultConfig == [version |-> "set", id |-> DefaultId, key |-> DefaultKey]

Loaded == [c \in Config |-> IF c.version = "unset" THEN DefaultConfig ELSE c]

-----------------------------------------------------------------------------
Init ==
  /\ flash = Erased
  /\ config = Loaded[flash]
  /\ storage = Started
  /\ executed = FALSE
  /\ saves = 0 /\ failures = 0 /\ resets = 0

Save(c) ==
  /\ saves < MaxSaves
  /\ config' = c
  /\ storage' = QueuedWrite(storage)
  /\ saves' = saves + 1
  /\ UNCHANGED <<flashVars, failures, resets>>

(* An enrollment packet that is for this node.  By node id the key stays.   *)
EnrollByNodeId(id) == Save([config EXCEPT !.id = id])

(* By chip id and by serial number.                                         *)
EnrollByChip(id, key) ==
  Save([version |-> config.version, id |-> id, key |-> key])

SaveNode == Save(config)

ClearStorage == Save([config EXCEPT !.version = "unset"])

(* pstorage works through its commands, and reads the configuration when it *)
(* writes it.  Only what is erased can be written.                          *)
Pending(command) ==
  storage.commands # <<>> /\ Head(storage.commands) = command

FlashErased ==
  /\ Pending("clear") /\ ~executed
  /\ flash' = Erased
  /\ executed' = TRUE
  /\ UNCHANGED <<config, storage, counters>>

FlashWritten ==
  /\ Pending("store") /\ ~executed
  /\ flash' \in IF flash = Erased THEN {config} ELSE Config
  /\ executed' = TRUE
  /\ UNCHANGED <<config, storage, counters>>

Reported(s) ==
  /\ executed
  /\ storage' = s
  /\ executed' = FALSE
  /\ UNCHANGED <<config, flash, counters>>

ClearReported == Pending("clear") /\ Reported(AfterClear(storage))
StoreReported == Pending("store") /\ Reported(AfterStore(storage))

(* What is in the flash when a command ends before it is done.              *)
HalfDone ==
  IF Pending("clear") THEN {flash, Erased}
  ELSE IF Pending("store") THEN IF flash = Erased THEN Prefixes(config) ELSE Config
  ELSE {flash}

(* The command failed, half way or at once: it is tried again from the start. *)
ErrorReported ==
  /\ failures < MaxFailures
  /\ storage.commands # <<>> /\ ~executed
  /\ flash' \in HalfDone
  /\ storage' = AfterError(storage)
  /\ failures' = failures + 1
  /\ UNCHANGED <<config, executed, saves, resets>>

(* A reset, by the user, the DebugModule or a failed call, and the boot.    *)
Reset ==
  /\ resets < MaxResets
  /\ flash' \in IF executed THEN {flash} ELSE HalfDone
  /\ config' = Loaded[flash']
  /\ storage' = Started
  /\ executed' = FALSE
  /\ resets' = resets + 1
  /\ UNCHANGED <<saves, failures>>

Next ==
  \/ \E id \in Id \ {Blank} : EnrollByNodeId(id)
  \/ \E id \in Id \ {Blank}, key \in Key \ {Blank} : EnrollByChip(id, key)
  \/ SaveNode
  \/ ClearStorage
  \/ FlashErased
  \/ FlashWritten
  \/ ClearReported
  \/ StoreReported
  \/ ErrorReported
  \/ Reset

Spec == Init /\ [][Next]_vars

(* Flash operations end and are reported; failures are bounded.             *)
Fairness ==
  /\ WF_vars(FlashErased) /\ WF_vars(FlashWritten)
  /\ WF_vars(ClearReported) /\ WF_vars(StoreReported)

FairSpec == Spec /\ Fairness

-----------------------------------------------------------------------------
(* The variables have their types: the pointers are in the buffer.          *)
TypeOK ==
  /\ config \in Config /\ flash \in Config
  /\ storage \in [taskQueue : TaskQueue, bufferedOperationInProgress : BOOLEAN,
                  commands : Seq({"clear", "store"})]
  /\ executed \in BOOLEAN
  /\ saves \in 0..MaxSaves /\ failures \in 0..MaxFailures /\ resets \in 0..MaxResets

(* The elements of the task queue lie between its pointers, and the place   *)
(* behind them has size 0: the zero that a wrap leaves, by which the reader *)
(* goes back to the start, is not taken for an element.                     *)
Held(q) ==
  IF q.readPointer <= q.writePointer
  THEN q.readPointer..(q.writePointer - 1)
  ELSE (q.readPointer..(BufferSlots - 2)) \cup (0..(q.writePointer - 1))

Layout(q) ==
  /\ \A p \in Held(q) : q.slots[p] = "write"
  /\ q.slots[q.writePointer] = "none"
  /\ q.readPointer > q.writePointer => q.slots[BufferSlots - 1] = "none"
  /\ q.numElements = IF q.readPointer <= q.writePointer
                     THEN q.writePointer - q.readPointer
                     ELSE BufferSlots - 1 - q.readPointer + q.writePointer

QueueLayout == Layout(storage.taskQueue)

(* Storage waits for an event exactly while there are tasks, and then for   *)
(* that of one command: if it waited with no command given, no save would   *)
(* ever be done again, and with two the wrong task would be dropped.        *)
OneTaskAtATime ==
  /\ storage.bufferedOperationInProgress <=> storage.taskQueue.numElements > 0
  /\ Len(storage.commands) = IF storage.bufferedOperationInProgress THEN 1 ELSE 0
  /\ executed => storage.commands # <<>>

(* "Call clear first before writing to the flash": whatever failed before,  *)
(* a write finds its block erased.                                          *)
StoreOnErased == Pending("store") /\ ~executed => flash = Erased

(* A save is done for good, or another one follows: what Storage writes is  *)
(* what the configuration is when it is written, so even a save that the    *)
(* full queue refused reaches the flash with the tasks before it, and a     *)
(* node at rest comes out of a reset as it went in.                         *)
Cell == INSTANCE ConfigCell
          WITH ram <- config, disk <- flash,
               dirty <- storage.bufferedOperationInProgress

CellSpec == Cell!Spec

(* A save that was asked for is done in the end, however often the flash    *)
(* failed and whatever came after it.                                       *)
SavesEnd == storage.bufferedOperationInProgress ~> ~storage.bufferedOperationInProgress
=============================================================================
