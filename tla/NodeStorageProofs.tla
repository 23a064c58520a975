------------------------- MODULE NodeStorageProofs -------------------------
(***************************************************************************)
(* Proofs about NodeStorage, for every buffer of at least four elements    *)
(* and every set of configurations: the task queue keeps its layout, one   *)
(* command is under way exactly while there are tasks, and saves reach the *)
(* flash as ConfigCell promises.                                           *)
(***************************************************************************)
EXTENDS NodeStorage, SequenceTheorems, TLAPS

-----------------------------------------------------------------------------
(* A task is put behind the others or refused, and refused only by a queue  *)
(* that holds two at least.                                                 *)
LEMMA PutKeepsLayout ==
  ASSUME NEW q \in TaskQueue, Layout(q)
  PROVE  /\ Put(q, "write") \in TaskQueue
         /\ Layout(Put(q, "write"))
         /\ Put(q, "write").numElements >= 1
         /\ \/ Put(q, "write").numElements = q.numElements + 1
            \/ Put(q, "write") = q /\ q.numElements >= 2
<1> DEFINE r == q.readPointer
           w == q.writePointer
           s == q.slots
           v == IF Wraps(q) THEN 0 ELSE w
           t == [s EXCEPT ![v] = "write", ![v + 1] = "none"]
           n == [slots |-> t, readPointer |-> r, writePointer |-> v + 1,
                 numElements |-> q.numElements + 1]
<1>1. /\ BufferSlots \in Nat /\ BufferSlots >= 4
      /\ r \in Nat /\ r <= BufferSlots - 1
      /\ w \in Nat /\ w <= BufferSlots - 1
      /\ q.numElements \in Nat
      /\ s \in [Position -> Task]
  BY SlotsAssumption DEF TaskQueue, Position
<1>2. /\ \A p \in Held(q) : s[p] = "write"
      /\ s[w] = "none"
      /\ r > w => s[BufferSlots - 1] = "none"
      /\ q.numElements = IF r <= w THEN w - r ELSE BufferSlots - 1 - r + w
  BY DEF Layout
<1>3. CASE Refuses(q)
  <2>1. Put(q, "write") = q
    BY <1>3 DEF Put
  <2>2. q.numElements >= 2
    BY <1>1, <1>2, <1>3 DEF Refuses, Wraps
  <2>3. Layout(Put(q, "write"))
    BY <2>1
  <2> QED BY <2>1, <2>2, <2>3, <1>1
<1>4. CASE ~Refuses(q)
  <2>1. Put(q, "write") = n
    BY <1>4 DEF Put
  <2>2. /\ v \in Nat /\ v + 1 \in Nat /\ v + 1 <= BufferSlots - 1
        /\ v + 1 # r
        /\ Wraps(q) => v = 0 /\ r >= 2 /\ w = BufferSlots - 1 /\ r <= w
        /\ ~Wraps(q) => v = w
    BY <1>1, <1>4 DEF Refuses, Wraps
  <2>3. v \in Position /\ v + 1 \in Position
    BY <2>2, <1>1 DEF Position
  <2>4. t \in [Position -> Task]
    BY <1>1, <2>3 DEF Task
  <2>5. n \in TaskQueue
    BY <2>4, <2>3, <1>1 DEF TaskQueue, Position
  <2>6. t[v] = "write" /\ t[v + 1] = "none"
        /\ \A p \in Position : p # v /\ p # v + 1 => t[p] = s[p]
    BY <2>3, <2>2, <1>1
  <2>7. \A p \in Held(n) : t[p] = "write"
    <3> SUFFICES ASSUME NEW p \in Held(n) PROVE t[p] = "write"
      OBVIOUS
    <3>1. p \in Position /\ p # v + 1 /\ (p = v \/ p \in Held(q))
      BY <1>1, <2>2 DEF Held, Position
    <3> QED BY <3>1, <2>6, <1>2
  <2>8. n.slots[n.writePointer] = "none"
    BY <2>6
  <2>9. n.readPointer > n.writePointer => n.slots[BufferSlots - 1] = "none"
    <3>1. BufferSlots - 1 \in Position
      BY <1>1 DEF Position
    <3>2. CASE Wraps(q)
      BY <3>1, <3>2, <2>2, <2>6, <1>1, <1>2
    <3>3. CASE ~Wraps(q)
      BY <3>1, <3>3, <2>2, <2>6, <1>1, <1>2
    <3> QED BY <3>2, <3>3
  <2>10. n.numElements = IF n.readPointer <= n.writePointer
                         THEN n.writePointer - n.readPointer
                         ELSE BufferSlots - 1 - n.readPointer + n.writePointer
    BY <1>1, <1>2, <2>2
  <2>11. Layout(n)
    BY <2>7, <2>8, <2>9, <2>10 DEF Layout
  <2> QED BY <2>1, <2>5, <2>11, <1>1
<1> QED BY <1>3, <1>4

(* The first task is taken, wherever it is. *)
LEMMA GetNextKeepsLayout ==
  ASSUME NEW q \in TaskQueue, Layout(q), q.numElements > 0
  PROVE  /\ GetNext(q) \in TaskQueue
         /\ Layout(GetNext(q))
         /\ GetNext(q).numElements = q.numElements - 1
<1> DEFINE r == q.readPointer
           w == q.writePointer
           s == q.slots
           x == NextPosition(q)
           n == [slots |-> s, readPointer |-> x + 1, writePointer |-> w,
                 numElements |-> q.numElements - 1]
<1>1. /\ BufferSlots \in Nat /\ BufferSlots >= 4
      /\ r \in Nat /\ r <= BufferSlots - 1
      /\ w \in Nat /\ w <= BufferSlots - 1
      /\ q.numElements \in Nat
  BY SlotsAssumption DEF TaskQueue, Position
<1>2. /\ \A p \in Held(q) : s[p] = "write"
      /\ s[w] = "none"
      /\ r > w => s[BufferSlots - 1] = "none"
      /\ q.numElements = IF r <= w THEN w - r ELSE BufferSlots - 1 - r + w
  BY DEF Layout
<1>3. GetNext(q) = n
  BY DEF GetNext
<1>4. IF r = BufferSlots - 1 /\ w < r THEN x = 0 ELSE x = r /\ r < BufferSlots - 1
  <2>1. CASE r = BufferSlots - 1 /\ w < r
    BY <2>1, <1>1, <1>2 DEF NextPosition
  <2>2. CASE ~(r = BufferSlots - 1 /\ w < r)
    <3>1. r < BufferSlots - 1
      BY <2>2, <1>1, <1>2
    <3>2. r \in Held(q)
      BY <3>1, <1>1, <1>2 DEF Held
    <3>3. s[r] # "none"
      BY <3>2, <1>2
    <3> QED BY <2>2, <3>1, <3>3 DEF NextPosition
  <2> QED BY <2>1, <2>2
<1>5. x + 1 \in Position
  BY <1>1, <1>4 DEF Position
<1>6. n \in TaskQueue
  BY <1>1, <1>5 DEF TaskQueue, Position
<1>7. \A p \in Held(n) : p \in Held(q)
  BY <1>1, <1>2, <1>4 DEF Held
<1>8. n.readPointer > n.writePointer => n.slots[BufferSlots - 1] = "none"
  BY <1>1, <1>2, <1>4
<1>9. n.numElements = IF n.readPointer <= n.writePointer
                      THEN n.writePointer - n.readPointer
                      ELSE BufferSlots - 1 - n.readPointer + n.writePointer
  BY <1>1, <1>2, <1>4
<1>10. Layout(n)
  BY <1>2, <1>7, <1>8, <1>9 DEF Layout
<1> QED BY <1>3, <1>6, <1>10

-----------------------------------------------------------------------------
(* The inductive invariant.  What is added to the properties: when a        *)
(* command is done and the event of it is under way, the flash is erased,   *)
(* or holds the configuration unless another save waits.                    *)
Covered ==
  /\ Pending("clear") /\ executed => flash = Erased
  /\ Pending("store") /\ executed =>
       flash = config \/ storage.taskQueue.numElements >= 2

IInv == TypeOK /\ QueueLayout /\ OneTaskAtATime /\ StoreOnErased /\ Covered

Storages == [taskQueue : TaskQueue, bufferedOperationInProgress : BOOLEAN,
             commands : Seq({"clear", "store"})]

(* QueueLayout and OneTaskAtATime of a storage. *)
Steady(s) ==
  /\ Layout(s.taskQueue)
  /\ s.bufferedOperationInProgress <=> s.taskQueue.numElements > 0
  /\ Len(s.commands) = IF s.bufferedOperationInProgress THEN 1 ELSE 0

LEMMA InvOfSteady ==
  ASSUME TypeOK
  PROVE  QueueLayout /\ OneTaskAtATime
           <=> Steady(storage) /\ (executed => storage.commands # <<>>)
BY DEF TypeOK, QueueLayout, OneTaskAtATime, Steady

(* A node starts with an empty queue. *)
LEMMA StartedIsSteady ==
  /\ Started \in Storages
  /\ Steady(Started)
  /\ Started.commands = <<>>
  /\ ~Started.bufferedOperationInProgress
<1> DEFINE s0 == [p \in Position |-> "none"]
           s1 == [[p \in Position |-> "none"] EXCEPT ![0] = "read", ![1] = "none"]
<1>1. BufferSlots \in Nat /\ BufferSlots >= 4
  BY SlotsAssumption
<1>2. 0 \in Position /\ 1 \in Position
  BY <1>1 DEF Position
<1>3. ~Wraps(EmptyQueue) /\ ~Refuses(EmptyQueue)
  BY <1>1 DEF Wraps, Refuses, EmptyQueue
<1>4. Put(EmptyQueue, "read") = [slots |-> s1, readPointer |-> 0, writePointer |-> 1,
                                numElements |-> 1]
  BY <1>3 DEF Put, EmptyQueue
<1>5. s1 \in [Position -> Task] /\ s1[1] = "none"
  BY <1>2 DEF Task
<1> DEFINE q1 == Put(EmptyQueue, "read")
<1>6. NextPosition(q1) = 0
  BY <1>4 DEF NextPosition
<1> HIDE DEF s1
<1>7. GetNext(q1) = [slots |-> s1, readPointer |-> 1, writePointer |-> 1, numElements |-> 0]
  BY <1>4, <1>6 DEF GetNext
<1>8. GetNext(q1) \in TaskQueue
  BY <1>7, <1>5, <1>2 DEF TaskQueue
<1>9. Layout(GetNext(q1))
  BY <1>7, <1>5, <1>1 DEF Layout, Held
<1>10. /\ Started.taskQueue = GetNext(q1)
       /\ Started.bufferedOperationInProgress = FALSE
       /\ Started.commands = <<>>
  BY DEF Started, QueuedRead, Store
<1>11. Started \in Storages
  BY <1>8, <1>10 DEF Started, QueuedRead, Storages, Store
<1> QED BY <1>7, <1>9, <1>10, <1>11 DEF Steady

(* The next task of a queue that holds one is found, also behind a wrap. *)
LEMMA NextIsWrite ==
  ASSUME NEW q \in TaskQueue, Layout(q), q.numElements >= 1
  PROVE  PeekNext(q) = "write"
<1> DEFINE r == q.readPointer
           w == q.writePointer
<1>1. /\ BufferSlots \in Nat /\ BufferSlots >= 4
      /\ r \in Nat /\ r <= BufferSlots - 1
      /\ w \in Nat /\ w <= BufferSlots - 1
  BY SlotsAssumption DEF TaskQueue, Position
<1>2. /\ \A p \in Held(q) : q.slots[p] = "write"
      /\ r > w => q.slots[BufferSlots - 1] = "none"
      /\ q.numElements = IF r <= w THEN w - r ELSE BufferSlots - 1 - r + w
  BY DEF Layout
<1>3. CASE r <= w
  <2>1. r \in Held(q) /\ NextPosition(q) = r
    BY <1>1, <1>2, <1>3 DEF Held, NextPosition
  <2> QED BY <1>2, <2>1 DEF PeekNext
<1>4. CASE r > w /\ q.slots[r] = "none"
  <2>1. NextPosition(q) = 0
    BY <1>4 DEF NextPosition
  <2>2. r = BufferSlots - 1
    BY <1>1, <1>2, <1>4 DEF Held
  <2>3. 0 \in Held(q)
    BY <1>1, <1>2, <1>4, <2>2 DEF Held
  <2> QED BY <1>2, <2>1, <2>3 DEF PeekNext
<1>5. CASE r > w /\ q.slots[r] # "none"
  <2>1. NextPosition(q) = r
    BY <1>5 DEF NextPosition
  <2>2. r \in Held(q)
    BY <1>1, <1>2, <1>5 DEF Held
  <2> QED BY <1>2, <2>1, <2>2 DEF PeekNext
<1> QED BY <1>1, <1>3, <1>4, <1>5

(* ProcessQueue gives a command to a storage that waits for none. *)
LEMMA ProcessQueueIsSteady ==
  ASSUME NEW s \in Storages, Layout(s.taskQueue),
         s.bufferedOperationInProgress => s.taskQueue.numElements > 0,
         Len(s.commands) = IF s.bufferedOperationInProgress THEN 1 ELSE 0
  PROVE  /\ ProcessQueue(s) \in Storages
         /\ Steady(ProcessQueue(s))
         /\ ProcessQueue(s).taskQueue = s.taskQueue
         /\ \/ ProcessQueue(s) = s
            \/ s.commands = <<>> /\ ProcessQueue(s).commands = <<"clear">>
<1>1. s.taskQueue \in TaskQueue /\ s.bufferedOperationInProgress \in BOOLEAN
      /\ s.commands \in Seq({"clear", "store"}) /\ s.taskQueue.numElements \in Nat
  BY DEF Storages, TaskQueue
<1>2. CASE s.bufferedOperationInProgress \/ s.taskQueue.numElements < 1
  <2>1. ProcessQueue(s) = s
    BY <1>2 DEF ProcessQueue
  <2>2. Steady(s)
    BY <1>1, <1>2 DEF Steady
  <2> QED BY <2>1, <2>2
<1>3. CASE ~s.bufferedOperationInProgress /\ s.taskQueue.numElements >= 1
  <2> DEFINE t == ProcessQueue(s)
  <2>1. s.commands = <<>>
    BY <1>1, <1>3
  <2>2. Append(s.commands, "clear") = <<"clear">>
    BY <2>1
  <2>3. t = Store(s.taskQueue, TRUE, <<"clear">>)
    <3>1. ~(s.bufferedOperationInProgress \/ s.taskQueue.numElements < 1)
      BY <1>1, <1>3
    <3>2. PeekNext(s.taskQueue) = "write"
      BY <1>1, <1>3, NextIsWrite
    <3>3. t = Store(s.taskQueue, TRUE, Append(s.commands, "clear"))
      BY <3>1, <3>2, Zenon DEF ProcessQueue
    <3> QED BY <3>3, <2>2, Zenon
  <2>4. <<"clear">> \in Seq({"clear", "store"}) /\ Len(<<"clear">>) = 1
    OBVIOUS
  <2>5. /\ t \in Storages
        /\ t.taskQueue = s.taskQueue
        /\ t.bufferedOperationInProgress = TRUE
        /\ t.commands = <<"clear">>
    BY <1>1, <2>3, <2>4 DEF Storages, Store
  <2>6. Steady(t)
    <3>1. Layout(t.taskQueue) /\ t.taskQueue.numElements > 0
      BY <2>5, <1>1, <1>3
    <3>2. Len(t.commands) = 1
      BY <2>4, <2>5
    <3> QED BY <3>1, <3>2, <2>5 DEF Steady
  <2> QED BY <2>1, <2>5, <2>6
<1> QED BY <1>1, <1>2, <1>3

(* The one command under way is the first, and nothing is behind it. *)
LEMMA OneCommand ==
  ASSUME NEW c \in Seq({"clear", "store"}), Len(c) = 1
  PROVE  Tail(c) = <<>> /\ c # <<>>
<1>1. c # <<>>
  <2>1. Len(<<>>) = 0 /\ 0 # 1
    OBVIOUS
  <2> QED BY <2>1, Zenon
<1>2. Tail(c) \in Seq({"clear", "store"}) /\ Len(Tail(c)) = 0
  BY <1>1, HeadTailProperties
<1>3. Tail(c) = <<>>
  BY <1>2, EmptySeq
<1> QED BY <1>1, <1>3

(* A save leaves a task behind the one under way. *)
LEMMA QueuedWriteIsSteady ==
  ASSUME NEW s \in Storages, Steady(s)
  PROVE  /\ QueuedWrite(s) \in Storages
         /\ Steady(QueuedWrite(s))
         /\ QueuedWrite(s).bufferedOperationInProgress
         /\ \/ /\ s.commands # <<>>
               /\ QueuedWrite(s).commands = s.commands
               /\ QueuedWrite(s).taskQueue.numElements >= 2
            \/ s.commands = <<>> /\ QueuedWrite(s).commands = <<"clear">>
<1> DEFINE q == Put(s.taskQueue, "write")
           r == Store(q, s.bufferedOperationInProgress, s.commands)
<1>1. /\ s.taskQueue \in TaskQueue
      /\ s.bufferedOperationInProgress \in BOOLEAN
      /\ s.commands \in Seq({"clear", "store"})
      /\ s.taskQueue.numElements \in Nat
  BY DEF Storages, TaskQueue
<1>2. /\ Layout(s.taskQueue)
      /\ s.bufferedOperationInProgress <=> s.taskQueue.numElements > 0
      /\ Len(s.commands) = IF s.bufferedOperationInProgress THEN 1 ELSE 0
  BY DEF Steady
<1>3. /\ q \in TaskQueue /\ Layout(q) /\ q.numElements >= 1
      /\ q.numElements = s.taskQueue.numElements + 1 \/ q.numElements >= 2
  BY <1>1, <1>2, PutKeepsLayout
<1> HIDE DEF q
<1>4. /\ r.taskQueue = q
      /\ r.bufferedOperationInProgress = s.bufferedOperationInProgress
      /\ r.commands = s.commands
      /\ r \in Storages
  BY <1>1, <1>3 DEF Store, Storages
<1>5. QueuedWrite(s) = ProcessQueue(r)
  BY DEF QueuedWrite, q
<1>6. q.numElements \in Nat
  BY <1>3 DEF TaskQueue
<1> HIDE DEF r
<1> DEFINE t == ProcessQueue(r)
<1>7. /\ Layout(r.taskQueue)
      /\ r.bufferedOperationInProgress => r.taskQueue.numElements > 0
      /\ Len(r.commands) = IF r.bufferedOperationInProgress THEN 1 ELSE 0
  BY <1>2, <1>3, <1>4, <1>6
<1>8. /\ t \in Storages
      /\ Steady(t)
      /\ t.taskQueue = q
      /\ t = r \/ (r.commands = <<>> /\ t.commands = <<"clear">>)
  BY <1>4, <1>7, ProcessQueueIsSteady
<1>9. t.bufferedOperationInProgress /\ Len(t.commands) = 1
  BY <1>3, <1>6, <1>8 DEF Steady
<1>10. CASE t = r
  <2>1. s.bufferedOperationInProgress /\ s.taskQueue.numElements > 0
    BY <1>2, <1>4, <1>9, <1>10
  <2>2. q.numElements >= 2
    BY <1>1, <1>3, <1>6, <2>1
  <2>3. s.commands # <<>>
    BY <1>1, <1>2, <2>1, OneCommand
  <2>4. t.commands = s.commands /\ t.taskQueue.numElements >= 2
    BY <1>4, <1>8, <1>10, <2>2
  <2> QED BY <1>5, <1>8, <1>9, <2>3, <2>4
<1>11. CASE r.commands = <<>> /\ t.commands = <<"clear">>
  BY <1>4, <1>5, <1>8, <1>9, <1>11
<1> QED BY <1>8, <1>10, <1>11

(* The event of an erased block: the same task goes on with its write. *)
LEMMA AfterClearIsSteady ==
  ASSUME NEW s \in Storages, Steady(s), s.commands # <<>>
  PROVE  /\ AfterClear(s) \in Storages
         /\ Steady(AfterClear(s))
         /\ AfterClear(s).commands = <<"store">>
         /\ AfterClear(s).bufferedOperationInProgress = s.bufferedOperationInProgress
<1> DEFINE t == AfterClear(s)
<1>1. /\ s.taskQueue \in TaskQueue
      /\ s.bufferedOperationInProgress \in BOOLEAN
      /\ s.commands \in Seq({"clear", "store"})
  BY DEF Storages
<1>2. /\ Layout(s.taskQueue)
      /\ s.bufferedOperationInProgress <=> s.taskQueue.numElements > 0
      /\ Len(s.commands) = IF s.bufferedOperationInProgress THEN 1 ELSE 0
  BY DEF Steady
<1>3. s.bufferedOperationInProgress /\ Len(s.commands) = 1
  BY <1>1, <1>2
<1>4. Tail(s.commands) = <<>>
  BY <1>1, <1>3, OneCommand
<1>5. Append(Tail(s.commands), "store") = <<"store">>
  <2>1. Append(<<>>, "store") = <<"store">>
    OBVIOUS
  <2> QED BY <1>4, <2>1
<1>6. <<"store">> \in Seq({"clear", "store"}) /\ Len(<<"store">>) = 1
  OBVIOUS
<1>7. t = Store(s.taskQueue, s.bufferedOperationInProgress, <<"store">>)
  BY <1>5, Zenon DEF AfterClear
<1>8. /\ t \in Storages
      /\ t.taskQueue = s.taskQueue
      /\ t.bufferedOperationInProgress = s.bufferedOperationInProgress
      /\ t.commands = <<"store">>
  BY <1>1, <1>6, <1>7 DEF Store, Storages
<1>9. Steady(t)
  BY <1>2, <1>3, <1>6, <1>8 DEF Steady
<1> QED BY <1>8, <1>9

(* The end of a command: the next task, if there is one, starts with an     *)
(* erase.  The task is dropped if its write is done, and stays on an error. *)
LEMMA NextTaskIsSteady ==
  ASSUME NEW q \in TaskQueue, Layout(q), NEW c \in Seq({"clear", "store"}), Len(c) = 1,
         NEW t, t = ProcessQueue(Store(q, FALSE, Tail(c)))
  PROVE  /\ t \in Storages /\ Steady(t)
         /\ t.taskQueue = q
         /\ t.commands \in {<<>>, <<"clear">>}
<1> DEFINE r == Store(q, FALSE, Tail(c))
<1>1. Tail(c) = <<>>
  BY OneCommand
<1>2. <<>> \in Seq({"clear", "store"}) /\ Len(<<>>) = 0
  OBVIOUS
<1>3. r = Store(q, FALSE, <<>>)
  BY <1>1
<1>4. /\ r \in Storages
      /\ r.taskQueue = q
      /\ r.bufferedOperationInProgress = FALSE
      /\ r.commands = <<>>
  BY <1>2, <1>3 DEF Store, Storages
<1> HIDE DEF r
<1>5. /\ Layout(r.taskQueue)
      /\ r.bufferedOperationInProgress => r.taskQueue.numElements > 0
      /\ Len(r.commands) = IF r.bufferedOperationInProgress THEN 1 ELSE 0
  BY <1>2, <1>4
<1>6. /\ t \in Storages /\ Steady(t) /\ t.taskQueue = q
      /\ t = r \/ t.commands = <<"clear">>
  BY <1>4, <1>5, ProcessQueueIsSteady DEF r
<1>7. t.commands \in {<<>>, <<"clear">>}
  BY <1>4, <1>6
<1> QED BY <1>6, <1>7

LEMMA AfterStoreIsSteady ==
  ASSUME NEW s \in Storages, Steady(s), s.commands # <<>>
  PROVE  /\ AfterStore(s) \in Storages
         /\ Steady(AfterStore(s))
         /\ AfterStore(s).taskQueue.numElements = s.taskQueue.numElements - 1
         /\ AfterStore(s).commands \in {<<>>, <<"clear">>}
<1>1. /\ s.taskQueue \in TaskQueue
      /\ s.bufferedOperationInProgress \in BOOLEAN
      /\ s.commands \in Seq({"clear", "store"})
  BY DEF Storages
<1>2. /\ Layout(s.taskQueue)
      /\ s.bufferedOperationInProgress <=> s.taskQueue.numElements > 0
      /\ Len(s.commands) = IF s.bufferedOperationInProgress THEN 1 ELSE 0
  BY DEF Steady
<1>3. s.taskQueue.numElements > 0 /\ Len(s.commands) = 1
  BY <1>1, <1>2
<1>4. /\ GetNext(s.taskQueue) \in TaskQueue /\ Layout(GetNext(s.taskQueue))
      /\ GetNext(s.taskQueue).numElements = s.taskQueue.numElements - 1
  BY <1>1, <1>2, <1>3, GetNextKeepsLayout
<1>5. AfterStore(s) = ProcessQueue(Store(GetNext(s.taskQueue), FALSE, Tail(s.commands)))
  BY Zenon DEF AfterStore
<1>6. /\ AfterStore(s) \in Storages /\ Steady(AfterStore(s))
      /\ AfterStore(s).taskQueue = GetNext(s.taskQueue)
      /\ AfterStore(s).commands \in {<<>>, <<"clear">>}
  BY <1>1, <1>3, <1>4, <1>5, NextTaskIsSteady
<1>7. AfterStore(s).taskQueue.numElements = s.taskQueue.numElements - 1
  BY <1>4, <1>6
<1> QED BY <1>6, <1>7

LEMMA AfterErrorIsSteady ==
  ASSUME NEW s \in Storages, Steady(s), s.commands # <<>>
  PROVE  /\ AfterError(s) \in Storages
         /\ Steady(AfterError(s))
         /\ AfterError(s).bufferedOperationInProgress
         /\ AfterError(s).commands \in {<<>>, <<"clear">>}
<1>1. /\ s.taskQueue \in TaskQueue
      /\ s.bufferedOperationInProgress \in BOOLEAN
      /\ s.commands \in Seq({"clear", "store"})
  BY DEF Storages
<1>2. /\ Layout(s.taskQueue)
      /\ s.bufferedOperationInProgress <=> s.taskQueue.numElements > 0
      /\ Len(s.commands) = IF s.bufferedOperationInProgress THEN 1 ELSE 0
  BY DEF Steady
<1>3. s.taskQueue.numElements > 0 /\ Len(s.commands) = 1
  BY <1>1, <1>2
<1>4. AfterError(s) = ProcessQueue(Store(s.taskQueue, FALSE, Tail(s.commands)))
  BY Zenon DEF AfterError
<1>5. /\ AfterError(s) \in Storages /\ Steady(AfterError(s))
      /\ AfterError(s).taskQueue = s.taskQueue
      /\ AfterError(s).commands \in {<<>>, <<"clear">>}
  BY <1>1, <1>2, <1>3, <1>4, NextTaskIsSteady
<1>6. AfterError(s).bufferedOperationInProgress
  BY <1>3, <1>5 DEF Steady
<1> QED BY <1>5, <1>6

-----------------------------------------------------------------------------
(* What a load makes of the flash, and what a write that stops early leaves *)
(* of a configuration, are configurations.                                  *)
LEMMA ConfigsLoaded ==
  /\ Erased \in Config
  /\ DefaultConfig \in Config
  /\ \A c \in Config : Loaded[c] \in Config /\ Prefixes(c) \subseteq Config
<1>1. Erased \in Config
  BY IdAssumption, KeyAssumption DEF Erased, Config
<1>2. DefaultConfig \in Config
  BY IdAssumption, KeyAssumption DEF DefaultConfig, Config
<1>3. ASSUME NEW c \in Config
      PROVE  Loaded[c] \in Config /\ Prefixes(c) \subseteq Config
  <2>1. Loaded[c] \in Config
    BY <1>2 DEF Loaded
  <2>2. [Erased EXCEPT !.version = c.version] \in Config
    BY <1>1 DEF Config
  <2>3. [c EXCEPT !.key = Blank] \in Config
    BY KeyAssumption DEF Config
  <2> QED BY <1>1, <2>1, <2>2, <2>3 DEF Prefixes
<1> QED BY <1>1, <1>2, <1>3

LEMMA HalfDoneIsConfig == TypeOK => HalfDone \subseteq Config
BY ConfigsLoaded DEF TypeOK, HalfDone

(* The parts of the invariant, as the steps of the proof use them. *)
LEMMA InvParts ==
  ASSUME IInv
  PROVE  /\ config \in Config /\ flash \in Config /\ executed \in BOOLEAN
         /\ storage \in Storages /\ Steady(storage)
         /\ executed => storage.commands # <<>>
         /\ storage.commands # <<>> =>
              /\ storage.bufferedOperationInProgress
              /\ storage.taskQueue.numElements >= 1
<1>1. /\ config \in Config /\ flash \in Config /\ executed \in BOOLEAN
      /\ storage \in Storages
  BY DEF IInv, TypeOK, Storages
<1>2. Steady(storage) /\ (executed => storage.commands # <<>>)
  BY InvOfSteady DEF IInv
<1>3. ASSUME storage.commands # <<>>
      PROVE  /\ storage.bufferedOperationInProgress
             /\ storage.taskQueue.numElements >= 1
  <2>1. storage.commands \in Seq({"clear", "store"}) /\ storage.taskQueue.numElements \in Nat
    BY <1>1 DEF Storages, TaskQueue
  <2>2. Len(storage.commands) # 0
    BY <2>1, <1>3, EmptySeq
  <2>3. storage.bufferedOperationInProgress
    BY <1>2, <2>2 DEF Steady
  <2> QED BY <1>2, <2>1, <2>3 DEF Steady
<1> QED BY <1>1, <1>2, <1>3

(* The other direction, for the state after a step. *)
LEMMA InvFromParts ==
  ASSUME config' \in Config, flash' \in Config,
         storage' \in Storages, Steady(storage'), executed' \in BOOLEAN,
         executed' => storage'.commands # <<>>,
         saves' \in 0..MaxSaves, failures' \in 0..MaxFailures, resets' \in 0..MaxResets,
         StoreOnErased', Covered'
  PROVE  IInv'
<1>1. TypeOK'
  BY DEF TypeOK, Storages
<1>2. QueueLayout' /\ OneTaskAtATime'
  BY DEF Steady, QueueLayout, OneTaskAtATime
<1> QED BY <1>1, <1>2 DEF IInv
-----------------------------------------------------------------------------
LEMMA InitInv == Init => IInv
<1> SUFFICES ASSUME Init PROVE IInv
  OBVIOUS
<1>1. /\ flash \in Config /\ config \in Config
  BY ConfigsLoaded DEF Init
<1>2. storage \in Storages /\ Steady(storage) /\ storage.commands = <<>>
  BY StartedIsSteady DEF Init
<1>3. TypeOK
  <2>1. /\ executed = FALSE
        /\ saves = 0 /\ failures = 0 /\ resets = 0
    BY DEF Init
  <2>2. /\ saves \in 0..MaxSaves /\ failures \in 0..MaxFailures
        /\ resets \in 0..MaxResets
    BY <2>1, BoundsAssumption
  <2>3. executed \in BOOLEAN
    BY <2>1
  <2> QED BY <1>1, <1>2, <2>2, <2>3 DEF TypeOK, Storages
<1>4. executed = FALSE /\ ~Pending("store")
  BY <1>2 DEF Init, Pending
<1>5. QueueLayout /\ OneTaskAtATime
  BY <1>2, <1>3, <1>4, InvOfSteady
<1> QED BY <1>3, <1>4, <1>5 DEF IInv, StoreOnErased, Covered

(* A save: the task under way may have been written before the change, and  *)
(* then the new task, or those that filled the queue, are behind it.        *)
LEMMA SaveStep ==
  ASSUME IInv, NEW c \in Config, Save(c)
  PROVE  IInv' /\ storage'.bufferedOperationInProgress
<1>1. /\ config \in Config /\ flash \in Config /\ executed \in BOOLEAN
      /\ storage \in Storages /\ Steady(storage)
      /\ executed => storage.commands # <<>>
  BY InvParts
<1>2. /\ config' = c /\ flash' = flash /\ executed' = executed
      /\ storage' = QueuedWrite(storage)
      /\ failures' = failures /\ resets' = resets
      /\ saves' \in 0..MaxSaves /\ failures \in 0..MaxFailures /\ resets \in 0..MaxResets
  BY BoundsAssumption DEF Save, IInv, TypeOK, flashVars
<1>3. /\ storage' \in Storages /\ Steady(storage')
      /\ storage'.bufferedOperationInProgress
      /\ \/ /\ storage.commands # <<>>
            /\ storage'.commands = storage.commands
            /\ storage'.taskQueue.numElements >= 2
         \/ storage.commands = <<>> /\ storage'.commands = <<"clear">>
  BY <1>1, <1>2, QueuedWriteIsSteady
<1>4. storage'.commands # <<>>
  BY <1>3
<1>5. Head(<<"clear">>) # "store"
  OBVIOUS
<1>6. StoreOnErased'
  BY <1>2, <1>3, <1>5 DEF IInv, StoreOnErased, Pending
<1>7. Covered'
  BY <1>1, <1>2, <1>3, <1>5 DEF IInv, Covered, Pending
<1> QED BY <1>1, <1>2, <1>3, <1>4, <1>6, <1>7, InvFromParts

(* What pstorage does, and what it reports of it. *)
LEMMA FlashStep ==
  ASSUME IInv, FlashErased \/ FlashWritten
  PROVE  IInv' /\ storage' = storage /\ storage.bufferedOperationInProgress
<1>1. /\ config \in Config /\ storage \in Storages /\ Steady(storage)
      /\ storage.commands # <<>> =>
           /\ storage.bufferedOperationInProgress
           /\ storage.taskQueue.numElements >= 1
  BY InvParts
<1>2. /\ config' = config /\ storage' = storage
      /\ saves' = saves /\ failures' = failures /\ resets' = resets
      /\ executed' = TRUE /\ executed = FALSE /\ storage.commands # <<>>
  BY DEF FlashErased, FlashWritten, Pending, counters, IInv, TypeOK
<1>3. /\ saves \in 0..MaxSaves /\ failures \in 0..MaxFailures /\ resets \in 0..MaxResets
  BY DEF IInv, TypeOK
<1>4. /\ flash' \in Config
      /\ Pending("store") => flash' = config
      /\ Pending("clear") => flash' = Erased
  <2>1. CASE FlashErased
    BY <2>1, ConfigsLoaded DEF FlashErased, Pending
  <2>2. CASE FlashWritten
    <3>1. flash = Erased
      BY <2>2 DEF FlashWritten, IInv, StoreOnErased
    <3>2. ~Pending("clear")
      BY <2>2 DEF FlashWritten, Pending
    <3> QED BY <2>2, <3>1, <3>2, <1>1 DEF FlashWritten
  <2> QED BY <2>1, <2>2
<1>5. \A command \in {"clear", "store"} : Pending(command)' <=> Pending(command)
  BY <1>2 DEF Pending
<1>6. StoreOnErased' /\ Covered'
  BY <1>2, <1>4, <1>5 DEF StoreOnErased, Covered
<1>7. IInv'
  BY <1>1, <1>2, <1>3, <1>4, <1>6, InvFromParts
<1> QED BY <1>1, <1>2, <1>7

LEMMA ClearReportedStep ==
  ASSUME IInv, ClearReported
  PROVE  /\ IInv'
         /\ UNCHANGED <<config, flash, storage.bufferedOperationInProgress>>
<1>1. /\ config \in Config /\ flash \in Config
      /\ storage \in Storages /\ Steady(storage)
  BY InvParts
<1>2. /\ config' = config /\ flash' = flash
      /\ saves' = saves /\ failures' = failures /\ resets' = resets
      /\ executed' = FALSE /\ storage.commands # <<>>
      /\ storage' = AfterClear(storage)
  BY DEF ClearReported, Reported, Pending, counters
<1>3. /\ saves \in 0..MaxSaves /\ failures \in 0..MaxFailures /\ resets \in 0..MaxResets
  BY DEF IInv, TypeOK
<1>4. /\ storage' \in Storages /\ Steady(storage')
      /\ storage'.bufferedOperationInProgress = storage.bufferedOperationInProgress
  BY <1>1, <1>2, AfterClearIsSteady
<1>5. flash = Erased
  BY DEF IInv, Covered, ClearReported, Reported
<1>6. StoreOnErased' /\ Covered'
  BY <1>2, <1>5 DEF StoreOnErased, Covered
<1>7. IInv'
  BY <1>1, <1>2, <1>3, <1>4, <1>6, InvFromParts
<1> QED BY <1>2, <1>4, <1>7

(* The write is reported: if no other task follows, nothing was saved since. *)
LEMMA StoreReportedStep ==
  ASSUME IInv, StoreReported
  PROVE  /\ IInv'
         /\ UNCHANGED <<config, flash>>
         /\ storage.bufferedOperationInProgress
         /\ storage'.bufferedOperationInProgress \in BOOLEAN
         /\ ~storage'.bufferedOperationInProgress => flash = config
<1>1. /\ config \in Config /\ flash \in Config
      /\ storage \in Storages /\ Steady(storage)
      /\ storage.commands # <<>> =>
           /\ storage.bufferedOperationInProgress
           /\ storage.taskQueue.numElements >= 1
  BY InvParts
<1>2. /\ config' = config /\ flash' = flash
      /\ saves' = saves /\ failures' = failures /\ resets' = resets
      /\ executed' = FALSE /\ executed /\ Pending("store") /\ storage.commands # <<>>
      /\ storage' = AfterStore(storage)
  BY DEF StoreReported, Reported, Pending, counters
<1>3. /\ saves \in 0..MaxSaves /\ failures \in 0..MaxFailures /\ resets \in 0..MaxResets
  BY DEF IInv, TypeOK
<1>4. /\ storage' \in Storages /\ Steady(storage')
      /\ storage'.taskQueue.numElements = storage.taskQueue.numElements - 1
      /\ storage'.commands \in {<<>>, <<"clear">>}
  BY <1>1, <1>2, AfterStoreIsSteady
<1>5. ~Pending("store")'
  BY <1>4 DEF Pending
<1>6. StoreOnErased' /\ Covered'
  BY <1>2, <1>5 DEF StoreOnErased, Covered
<1>7. IInv'
  BY <1>1, <1>2, <1>3, <1>4, <1>6, InvFromParts
<1>8. ASSUME ~storage'.bufferedOperationInProgress
      PROVE  flash = config
  <2>1. storage.taskQueue.numElements \in Nat
    BY <1>1 DEF Storages, TaskQueue
  <2>2. ~(storage.taskQueue.numElements >= 2)
    BY <1>4, <1>8, <2>1 DEF Steady
  <2> QED BY <1>2, <2>2 DEF IInv, Covered
<1>9. storage'.bufferedOperationInProgress \in BOOLEAN
  BY <1>4 DEF Storages
<1> QED BY <1>1, <1>2, <1>7, <1>8, <1>9

(* A command failed: the task stays and is tried again. *)
LEMMA ErrorReportedStep ==
  ASSUME IInv, ErrorReported
  PROVE  /\ IInv'
         /\ config' = config
         /\ storage.bufferedOperationInProgress /\ storage'.bufferedOperationInProgress
<1>1. /\ config \in Config
      /\ storage \in Storages /\ Steady(storage)
      /\ storage.commands # <<>> =>
           /\ storage.bufferedOperationInProgress
           /\ storage.taskQueue.numElements >= 1
  BY InvParts
<1>2. /\ config' = config
      /\ saves' = saves /\ failures' = failures + 1 /\ resets' = resets
      /\ executed' = FALSE /\ storage.commands # <<>> /\ failures < MaxFailures
      /\ flash' \in HalfDone
      /\ storage' = AfterError(storage)
  BY DEF ErrorReported, IInv, TypeOK
<1>3. /\ saves \in 0..MaxSaves /\ failures' \in 0..MaxFailures /\ resets \in 0..MaxResets
  BY <1>2, BoundsAssumption DEF IInv, TypeOK
<1>4. flash' \in Config
  BY <1>2, HalfDoneIsConfig DEF IInv
<1>5. /\ storage' \in Storages /\ Steady(storage')
      /\ storage'.bufferedOperationInProgress
      /\ storage'.commands \in {<<>>, <<"clear">>}
  BY <1>1, <1>2, AfterErrorIsSteady
<1>6. ~Pending("store")'
  BY <1>5 DEF Pending
<1>7. StoreOnErased' /\ Covered'
  BY <1>2, <1>6 DEF StoreOnErased, Covered
<1>8. IInv'
  BY <1>1, <1>2, <1>3, <1>4, <1>5, <1>7, InvFromParts
<1> QED BY <1>1, <1>2, <1>5, <1>8

(* A reset: nothing is under way in the flash of a node at rest. *)
LEMMA ResetStep ==
  ASSUME IInv, Reset
  PROVE  /\ IInv'
         /\ flash' \in Config /\ config' = Loaded[flash']
         /\ ~storage.bufferedOperationInProgress => flash' = flash
         /\ storage'.bufferedOperationInProgress = FALSE
<1>1. /\ flash \in Config /\ storage \in Storages /\ Steady(storage)
  BY InvParts
<1>2. /\ config' = Loaded[flash']
      /\ saves' = saves /\ failures' = failures /\ resets' = resets + 1
      /\ resets < MaxResets
      /\ executed' = FALSE
      /\ flash' \in HalfDone \/ flash' = flash
      /\ storage' = Started
  BY DEF Reset
<1>3. /\ saves \in 0..MaxSaves /\ failures \in 0..MaxFailures /\ resets' \in 0..MaxResets
  BY <1>2, BoundsAssumption DEF IInv, TypeOK
<1>4. flash' \in Config /\ config' \in Config
  BY <1>1, <1>2, HalfDoneIsConfig, ConfigsLoaded DEF IInv
<1>5. /\ storage' \in Storages /\ Steady(storage') /\ storage'.commands = <<>>
      /\ ~storage'.bufferedOperationInProgress
  BY <1>2, StartedIsSteady
<1>6. StoreOnErased' /\ Covered'
  BY <1>2, <1>5 DEF StoreOnErased, Covered, Pending
<1>7. IInv'
  BY <1>2, <1>3, <1>4, <1>5, <1>6, InvFromParts
<1>8. ASSUME ~storage.bufferedOperationInProgress
      PROVE  flash' = flash
  <2>1. storage.commands \in Seq({"clear", "store"}) /\ Len(storage.commands) = 0
    BY <1>1, <1>8 DEF Storages, Steady
  <2>2. storage.commands = <<>>
    BY <2>1, EmptySeq
  <2>3. HalfDone = {flash}
    BY <2>2 DEF HalfDone, Pending
  <2> QED BY <1>2, <2>3
<1>9. storage'.bufferedOperationInProgress = FALSE
  BY <1>5 DEF Storages
<1> QED BY <1>2, <1>4, <1>7, <1>8, <1>9

-----------------------------------------------------------------------------
(* The callers of Save: what they make of the configuration is one. *)
LEMMA CallersSave ==
  ASSUME IInv,
         \/ \E id \in Id \ {Blank} : EnrollByNodeId(id)
         \/ \E id \in Id \ {Blank}, key \in Key \ {Blank} : EnrollByChip(id, key)
         \/ SaveNode
         \/ ClearStorage
  PROVE  \E c \in Config : Save(c)
<1>1. config \in Config
  BY DEF IInv, TypeOK
<1>2. CASE \E id \in Id \ {Blank} : EnrollByNodeId(id)
  <2>1. PICK id \in Id \ {Blank} : EnrollByNodeId(id)
    BY <1>2
  <2>2. [config EXCEPT !.id = id] \in Config
    BY <1>1 DEF Config
  <2> QED BY <2>1, <2>2 DEF EnrollByNodeId
<1>3. CASE \E id \in Id \ {Blank}, key \in Key \ {Blank} : EnrollByChip(id, key)
  <2>1. PICK id \in Id \ {Blank}, key \in Key \ {Blank} : EnrollByChip(id, key)
    BY <1>3
  <2> DEFINE enrolled == [version |-> config.version, id |-> id, key |-> key]
  <2>2. enrolled \in Config
    BY <1>1 DEF Config
  <2>3. Save(enrolled)
    BY <2>1 DEF EnrollByChip
  <2> HIDE DEF enrolled
  <2> QED BY <2>2, <2>3
<1>4. CASE SaveNode
  BY <1>1, <1>4 DEF SaveNode
<1>5. CASE ClearStorage
  <2>1. [config EXCEPT !.version = "unset"] \in Config
    BY <1>1 DEF Config
  <2> QED BY <1>1, <1>5, <2>1 DEF ClearStorage
<1> QED BY <1>2, <1>3, <1>4, <1>5

(* Every step keeps the invariant and is a step of the abstract cell. *)
LEMMA StepInv ==
  ASSUME IInv, Next
  PROVE  IInv' /\ [Cell!Next]_(Cell!vars)
<1> USE DEF Cell!Next, Cell!vars
<1>1. CASE \/ \E id \in Id \ {Blank} : EnrollByNodeId(id)
           \/ \E id \in Id \ {Blank}, key \in Key \ {Blank} : EnrollByChip(id, key)
           \/ SaveNode
           \/ ClearStorage
  <2>1. PICK c \in Config : Save(c)
    BY <1>1, CallersSave
  <2>2. IInv' /\ storage'.bufferedOperationInProgress
    BY <2>1, SaveStep
  <2>3. storage'.bufferedOperationInProgress = TRUE
    BY <2>2 DEF IInv, TypeOK
  <2>4. config' \in Config /\ flash' = flash
    BY <2>1 DEF Save, flashVars
  <2> QED BY <2>2, <2>3, <2>4 DEF Cell!Save
<1>2. CASE FlashErased \/ FlashWritten
  <2>1. IInv' /\ storage' = storage /\ storage.bufferedOperationInProgress
    BY <1>2, FlashStep
  <2>2. flash' \in Config /\ config' = config
    BY <1>2, <2>1 DEF IInv, TypeOK, FlashErased, FlashWritten
  <2> QED BY <2>1, <2>2 DEF Cell!Work
<1>3. CASE ClearReported
  BY <1>3, ClearReportedStep
<1>4. CASE StoreReported
  <2>1. /\ IInv'
        /\ UNCHANGED <<config, flash>>
        /\ storage.bufferedOperationInProgress \in BOOLEAN
        /\ storage.bufferedOperationInProgress
        /\ storage'.bufferedOperationInProgress \in BOOLEAN
        /\ ~storage'.bufferedOperationInProgress => flash = config
    BY <1>4, StoreReportedStep DEF IInv, TypeOK
  <2>2. CASE storage'.bufferedOperationInProgress = TRUE
    BY <2>1, <2>2
  <2>3. CASE storage'.bufferedOperationInProgress = FALSE
    BY <2>1, <2>3 DEF Cell!Done
  <2> QED BY <2>1, <2>2, <2>3
<1>5. CASE ErrorReported
  <2>1. /\ IInv' /\ config' = config
        /\ storage.bufferedOperationInProgress = TRUE
        /\ storage'.bufferedOperationInProgress = TRUE
    BY <1>5, ErrorReportedStep DEF IInv, TypeOK
  <2>2. flash' \in Config
    BY <2>1 DEF IInv, TypeOK
  <2> QED BY <2>1, <2>2 DEF Cell!Work
<1>6. CASE Reset
  BY <1>6, ResetStep DEF Cell!Restart
<1> QED BY <1>1, <1>2, <1>3, <1>4, <1>5, <1>6 DEF Next

LEMMA StutterInv ==
  ASSUME IInv, UNCHANGED vars
  PROVE  IInv' /\ [Cell!Next]_(Cell!vars)
BY DEF vars, flashVars, counters, IInv, TypeOK, QueueLayout,
       OneTaskAtATime, StoreOnErased, Covered, Pending, Cell!vars

LEMMA InvHolds == Spec => []IInv
<1>1. IInv /\ [Next]_vars => IInv'
  BY StepInv, StutterInv
<1> QED BY InitInv, <1>1, PTL DEF Spec

-----------------------------------------------------------------------------
(* SimpleQueue never moves a pointer out of its buffer, and what is loaded  *)
(* or half written is a configuration.                                      *)
THEOREM TypeCorrect == Spec => []TypeOK
<1>1. IInv => TypeOK
  BY DEF IInv
<1> QED BY InvHolds, <1>1, PTL

(* PstorageEventHandler and ProcessQueue: whatever saves, failures and      *)
(* resets come in what order, the queue keeps its layout, exactly one       *)
(* command is under way while there are tasks, and a write finds its block  *)
(* erased.                                                                  *)
THEOREM StorageSteady == Spec => [](QueueLayout /\ OneTaskAtATime /\ StoreOnErased)
<1>1. IInv => QueueLayout /\ OneTaskAtATime /\ StoreOnErased
  BY DEF IInv
<1> QED BY InvHolds, <1>1, PTL

(* ProcessQueue: every block is cleared before it is stored to, also when   *)
(* one of the two operations has failed or a reset came between them.       *)
THEOREM ErasedFirst == Spec => []StoreOnErased
<1>1. IInv => StoreOnErased
  BY DEF IInv
<1> QED BY InvHolds, <1>1, PTL

(* SimpleQueue: the tasks that wait follow each other in the buffer and     *)
(* none is written over, for any number of elements and round every wrap.   *)
THEOREM LayoutKept == Spec => []QueueLayout
<1>1. IInv => QueueLayout
  BY DEF IInv
<1> QED BY InvHolds, <1>1, PTL

(* Saves reach the flash: Storage implements a cell in which a save is      *)
(* done only when the flash holds the configuration of the node, also if a  *)
(* full queue refused the task of the last save.                            *)
THEOREM SavesReachFlash == Spec => CellSpec
<1>1. Init => Cell!Init
  BY ConfigsLoaded, StartedIsSteady DEF Init, Cell!Init, Started, QueuedRead, Store
<1>2. IInv /\ [Next]_vars => [Cell!Next]_(Cell!vars)
  BY StepInv, StutterInv
<1> QED BY InvHolds, <1>1, <1>2, PTL DEF Spec, CellSpec, Cell!Spec
=============================================================================
