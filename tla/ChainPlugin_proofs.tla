------------------------- MODULE ChainPlugin_proofs -------------------------
(***************************************************************************)
(* Proofs about the two ends of the chain plugin: the queue through which  *)
(* blocks come in, for any number of client and reader threads, and the    *)
(* log in which they end, for any number of blocks and any sequence of     *)
(* openings, appends, partial writes, crashes, power failures and removed  *)
(* index files.  The two are proved separately: they share no variable.    *)
(*                                                                         *)
(* In the queue, counting is taken out of the inductive invariant: that a  *)
(* message is pending once is said without Cardinality (Handed), and only  *)
(* the last step goes back to Pending.                                     *)
(***************************************************************************)
EXTENDS WriteQueue, BlockLog, FiniteSetTheorems, TLAPS

-----------------------------------------------------------------------------
(* The write queue *)

(* The lock counter counts the readers and the writer. *)
LocksCounted ==
    write_lock_count = Cardinality(readers) + (IF Exclusive THEN 1 ELSE 0)

(* The write thread works for a client that waits for it. *)
WorksForWaiting ==
    writer \in {"lock", "work"} => cxt \in Clients /\ client[cxt] = "waiting"

(* A request that waits has not been run. *)
WaitingNotRun == \A c \in Clients : client[c] = "waiting" => runs[c] = 0

(* Without stop-at-block and while the write thread lives: queued messages *)
(* are in live frames, differ from each other and from the one in its      *)
(* hands, and every client that waits has one.                             *)
InHand(c) == cxt = c /\ writer \in {"lock", "work"}
Handed ==
    /\ \A i \in 1 .. Len(queue) : Live(queue[i])
    /\ \A i, j \in 1 .. Len(queue) : queue[i] = queue[j] => i = j
    /\ \A i \in 1 .. Len(queue) : ~ InHand(queue[i])
    /\ \A c \in Clients : client[c] = "waiting" =>
          InHand(c) \/ \E i \in 1 .. Len(queue) : queue[i] = c

(* The inductive invariants: of the threads, and of the queue. *)
ThreadInv == TypeOK /\ LocksCounted /\ WorksForWaiting /\ WaitingNotRun
                    /\ AnsweredOnce /\ ClosedAfterWrites
QueueInv == StopAt = 0 /\ Up /\ writer # "ended" => Handed

-----------------------------------------------------------------------------
(* The threads.                                                            *)

(* The queue that Init leaves. *)
LEMMA EmptySeq == <<>> \in Seq(Messages)
  OBVIOUS

(* Init establishes the invariant of the threads. *)
LEMMA ThreadInit == Init => ThreadInv
  <1> SUFFICES ASSUME Init PROVE ThreadInv
    OBVIOUS
  <1>1. Cardinality({}) = 0
    BY FS_EmptySet
  <1>2. TypeOK
    <2>1. queue \in Seq(Messages) /\ readers \in SUBSET Readers /\ quit \in BOOLEAN
      BY Zenon, EmptySeq DEF Init
    <2>2. blocks \in 0 .. StopAt /\ write_lock_count \in Nat
      BY StopAtAssumption DEF Init
    <2>3. /\ client \in [Clients -> {"idle", "waiting", "answered"}]
          /\ runs \in [Clients -> Nat]
      BY DEF Init
    <2> QED
      BY <2>1, <2>2, <2>3 DEF Init, TypeOK
  <1>3. LocksCounted
    BY <1>1 DEF Init, LocksCounted, Exclusive
  <1>4. WorksForWaiting /\ WaitingNotRun /\ AnsweredOnce /\ ClosedAfterWrites
    BY DEF Init, WorksForWaiting, WaitingNotRun, AnsweredOnce, ClosedAfterWrites
  <1> QED
    BY <1>2, <1>3, <1>4 DEF ThreadInv

(* A set of readers is finite; its cardinality is a natural number that    *)
(* adding and removing a reader change by one. *)
LEMMA ReadersFinite == ASSUME TypeOK
                       PROVE  IsFiniteSet(readers) /\ Cardinality(readers) \in Nat
  <1>1. IsFiniteSet(readers)
    BY ReadersAssumption, FS_Subset DEF TypeOK
  <1> QED
    BY <1>1, FS_CardinalityType

(* Queueing a message keeps the type of the queue. *)
LEMMA QueueTypes == ASSUME TypeOK, NEW m \in Messages
                    PROVE  /\ Append(queue, m) \in Seq(Messages)
                           /\ queue # <<>> => /\ Tail(queue) \in Seq(Messages)
                                              /\ Head(queue) \in Messages
  BY DEF TypeOK

(* Every step keeps the types, the lock count and what is known of the     *)
(* threads. *)
LEMMA ThreadStep == ThreadInv /\ [Next]_vars => ThreadInv'
  <1> SUFFICES ASSUME ThreadInv, [Next]_vars PROVE ThreadInv'
    OBVIOUS
  <1> USE DEF ThreadInv
  <1>0. IsFiniteSet(readers) /\ Cardinality(readers) \in Nat
    BY ReadersFinite
  <1> NoContext \notin {"lock", "work"} /\ StopAt \in Nat
    BY StopAtAssumption DEF NoContext
  <1> DEFINE Rest == WorksForWaiting /\ WaitingNotRun /\ AnsweredOnce /\ ClosedAfterWrites
  <1>1. ASSUME NEW c \in Clients, accept(c) PROVE ThreadInv'
    <2>1. TypeOK'
      BY <1>1, QueueTypes DEF accept, TypeOK, Messages
    <2>2. LocksCounted'
      BY <1>1 DEF accept, LocksCounted, Exclusive
    <2>3. Rest'
      BY <1>1 DEF accept, TypeOK, WorksForWaiting, WaitingNotRun, AnsweredOnce, ClosedAfterWrites
    <2> QED
      BY <2>1, <2>2, <2>3
  <1>2. ASSUME NEW c \in Clients, answered(c) PROVE ThreadInv'
    <2>1. TypeOK'
      BY <1>2 DEF answered, TypeOK
    <2>2. LocksCounted'
      BY <1>2 DEF answered, LocksCounted, Exclusive
    <2>3. Rest'
      BY <1>2 DEF answered, TypeOK, WorksForWaiting, WaitingNotRun, AnsweredOnce, ClosedAfterWrites
    <2> QED
      BY <2>1, <2>2, <2>3
  <1>3. CASE take
    <2>1. TypeOK'
      BY <1>3, QueueTypes DEF take, TypeOK, Messages, Stoppers
    <2>2. LocksCounted'
      BY <1>3 DEF take, LocksCounted, Exclusive
    <2>3. WorksForWaiting'
      BY <1>3 DEF take, WorksForWaiting, Live
    <2>4. ClosedAfterWrites'
      BY <1>3 DEF take, ClosedAfterWrites, Up
    <2>5. WaitingNotRun' /\ AnsweredOnce'
      BY <1>3 DEF take, WaitingNotRun, AnsweredOnce
    <2> QED
      BY <2>1, <2>2, <2>3, <2>4, <2>5
  <1>4. CASE lock
    <2>1. TypeOK'
      BY <1>4 DEF lock, TypeOK
    <2>2. LocksCounted'
      BY <1>4, <1>0 DEF lock, LocksCounted, Exclusive
    <2>3. Rest'
      BY <1>4 DEF lock, TypeOK, WorksForWaiting, WaitingNotRun, AnsweredOnce, ClosedAfterWrites
    <2> QED
      BY <2>1, <2>2, <2>3
  <1>5. CASE lock_timeout
    <2>1. TypeOK'
      BY <1>5 DEF lock_timeout, TypeOK
    <2>2. LocksCounted'
      BY <1>5 DEF lock_timeout, LocksCounted, Exclusive
    <2>3. Rest'
      BY <1>5 DEF lock_timeout, TypeOK, WorksForWaiting, WaitingNotRun, AnsweredOnce, ClosedAfterWrites
    <2> QED
      BY <2>1, <2>2, <2>3
  <1>6. CASE execute
    <2>0. cxt \in Clients /\ client[cxt] = "waiting" /\ runs[cxt] = 0
      BY <1>6 DEF execute, WorksForWaiting, WaitingNotRun
    <2>1. /\ blocks' \in 0 .. StopAt
          /\ queue' \in Seq(Messages)
          /\ quit' \in BOOLEAN
      <3>1. blocks' \in 0 .. StopAt
        BY <1>6 DEF execute, TypeOK
      <3>2. queue' \in Seq(Messages)
        <4>1. "post_block" \in Messages
          BY DEF Messages, Stoppers
        <4> QED
          BY <1>6, <4>1, QueueTypes DEF execute, post_block, TypeOK
      <3>3. quit' = quit \/ quit' = (quit \/ Joinable("writer"))
        BY <1>6, Zenon DEF execute, post_block
      <3>4. quit' \in BOOLEAN
        BY <3>3, Zenon DEF TypeOK
      <3> QED
        BY <3>1, <3>2, <3>4
    <2>2. TypeOK'
      BY <1>6, <2>0, <2>1 DEF execute, Executed, TypeOK
    <2>3. LocksCounted'
      BY <1>6 DEF execute, Executed, LocksCounted, Exclusive
    <2>4. Rest'
      BY <1>6, <2>0 DEF execute, Executed, TypeOK, WorksForWaiting, WaitingNotRun, AnsweredOnce,
                        ClosedAfterWrites
    <2> QED
      BY <2>2, <2>3, <2>4
  <1>7. CASE unlock
    <2>1. write_lock_count' = Cardinality(readers)
      BY <1>7, <1>0 DEF unlock, LocksCounted, Exclusive
    <2>2. TypeOK' /\ LocksCounted'
      BY <1>7, <1>0, <2>1 DEF unlock, TypeOK, LocksCounted, Exclusive
    <2>3. Rest'
      BY <1>7 DEF unlock, TypeOK, WorksForWaiting, WaitingNotRun, AnsweredOnce, ClosedAfterWrites
    <2> QED
      BY <2>2, <2>3
  <1>8. ASSUME NEW r \in Readers, lock_read(r) PROVE ThreadInv'
    <2>1. Cardinality(readers') = Cardinality(readers) + 1
      BY <1>8, <1>0, FS_AddElement DEF lock_read
    <2>2. TypeOK' /\ LocksCounted'
      BY <1>8, <1>0, <2>1 DEF lock_read, TypeOK, LocksCounted, Exclusive
    <2>3. Rest'
      BY <1>8 DEF lock_read, TypeOK, WorksForWaiting, WaitingNotRun, AnsweredOnce, ClosedAfterWrites
    <2> QED
      BY <2>2, <2>3
  <1>9. ASSUME NEW r \in Readers, unlock_read(r) PROVE ThreadInv'
    <2>1. Cardinality(readers') = Cardinality(readers) - 1 /\ Cardinality(readers') \in Nat
      BY <1>9, <1>0, FS_RemoveElement, FS_CardinalityType DEF unlock_read
    <2>2. TypeOK' /\ LocksCounted'
      BY <1>9, <1>0, <2>1 DEF unlock_read, TypeOK, LocksCounted, Exclusive
    <2>3. Rest'
      BY <1>9 DEF unlock_read, TypeOK, WorksForWaiting, WaitingNotRun, AnsweredOnce, ClosedAfterWrites
    <2> QED
      BY <2>2, <2>3
  <1>10. CASE plugin_shutdown
    <2>1. TypeOK'
      BY <1>10, QueueTypes DEF plugin_shutdown, TypeOK, Messages, Stoppers
    <2>2. LocksCounted'
      BY <1>10 DEF plugin_shutdown, LocksCounted, Exclusive
    <2>3. Rest'
      BY <1>10 DEF plugin_shutdown, TypeOK, WorksForWaiting, WaitingNotRun, AnsweredOnce,
                   ClosedAfterWrites
    <2> QED
      BY <2>1, <2>2, <2>3
  <1>11. CASE join
    <2>1. TypeOK' /\ LocksCounted'
      BY <1>11 DEF join, TypeOK, LocksCounted, Exclusive
    <2>2. Rest'
      BY <1>11 DEF join, TypeOK, WorksForWaiting, WaitingNotRun, AnsweredOnce, ClosedAfterWrites
    <2> QED
      BY <2>1, <2>2
  <1>12. CASE destructor
    <2>1. TypeOK'
      BY <1>12, QueueTypes DEF destructor, TypeOK, Messages, Stoppers
    <2>2. LocksCounted'
      BY <1>12 DEF destructor, LocksCounted, Exclusive
    <2>3. Rest'
      BY <1>12 DEF destructor, TypeOK, WorksForWaiting, WaitingNotRun, AnsweredOnce, ClosedAfterWrites
    <2> QED
      BY <2>1, <2>2, <2>3
  <1>13. CASE UNCHANGED vars
    BY <1>13 DEF vars, TypeOK, LocksCounted, Exclusive, WorksForWaiting, WaitingNotRun, AnsweredOnce,
                 ClosedAfterWrites
  <1> QED
    BY <1>1, <1>2, <1>3, <1>4, <1>5, <1>6, <1>7, <1>8, <1>9, <1>10, <1>11, <1>12, <1>13 DEF Next

-----------------------------------------------------------------------------
(* The queue.                                                              *)

(* Nothing is queued at first. *)
LEMMA QueueInit == Init => QueueInv
  BY DEF Init, QueueInv, Handed

(* Every step keeps the messages in the queue and in the hands of the      *)
(* write thread live, different and complete. *)
LEMMA QueueStep == ThreadInv /\ QueueInv /\ [Next]_vars => QueueInv'
  <1> SUFFICES ASSUME ThreadInv, QueueInv, [Next]_vars,
                      StopAt = 0, Up', writer' # "ended"
               PROVE  Handed'
    BY DEF QueueInv
  <1> queue \in Seq(Messages) /\ client \in [Clients -> {"idle", "waiting", "answered"}]
    BY DEF ThreadInv, TypeOK
  <1> "plugin_shutdown" \notin Clients
    BY ClientsAssumption DEF Stoppers
  <1>0. Up /\ writer # "ended" => Handed
    BY DEF QueueInv
  <1>1. ASSUME NEW c \in Clients, accept(c) PROVE Handed'
    <2>1. Handed /\ writer # "ended"
      BY <1>1, <1>0 DEF accept
    <2>2. \A i \in 1 .. Len(queue) : queue[i] # c
      BY <1>1, <2>1 DEF accept, Handed, Live
    <2>3. ~ InHand(c)
      BY <1>1 DEF accept, InHand, ThreadInv, WorksForWaiting
    <2>4. c \in Messages
      BY DEF Messages
    <2>5. /\ Len(queue') = Len(queue) + 1
          /\ \A i \in 1 .. Len(queue) : queue'[i] = queue[i]
          /\ queue'[Len(queue) + 1] = c
      BY <1>1, <2>4 DEF accept
    <2>6. (\A i \in 1 .. Len(queue) : Live(queue[i]))'
      BY <1>1, <2>1, <2>2, <2>5 DEF accept, Handed, Live
    <2>7. \A i, j \in 1 .. Len(queue') : queue'[i] = queue'[j] => i = j
      BY <2>1, <2>2, <2>5 DEF Handed
    <2>8. (\A i \in 1 .. Len(queue) : ~ InHand(queue[i]))'
      BY <1>1, <2>1, <2>3, <2>5 DEF accept, Handed, InHand
    <2>9. ASSUME NEW d \in Clients, client'[d] = "waiting"
          PROVE  InHand(d)' \/ \E i \in 1 .. Len(queue') : queue'[i] = d
      BY <1>1, <2>1, <2>5, <2>9 DEF accept, Handed, InHand
    <2> QED
      BY <2>6, <2>7, <2>8, <2>9 DEF Handed
  <1>2. ASSUME NEW c \in Clients, answered(c) PROVE Handed'
    <2>1. Handed
      BY <1>2, <1>0 DEF answered
    <2> QED
      BY <1>2, <2>1 DEF answered, Handed, Live, InHand
  <1>3. CASE take
    <2>1. Handed /\ queue # <<>> /\ writer = "take"
      BY <1>3, <1>0 DEF take
    <2>2. /\ Len(queue) \in Nat \ {0}
          /\ queue' = Tail(queue)
          /\ Len(queue') = Len(queue) - 1
          /\ \A i \in 1 .. Len(queue') : queue'[i] = queue[i + 1]
          /\ Head(queue) = queue[1]
      BY <1>3, <2>1 DEF take
    <2>3. Live(Head(queue))
      BY <2>1, <2>2 DEF Handed
    <2>4. writer' = "lock" /\ cxt' = queue[1] /\ queue[1] \in Clients
      BY <1>3, <2>2, <2>3 DEF take
    <2>5. (\A i \in 1 .. Len(queue) : Live(queue[i]))'
      BY <1>3, <2>1, <2>2 DEF take, Handed, Live
    <2>6. \A i, j \in 1 .. Len(queue') : queue'[i] = queue'[j] => i = j
      BY <2>1, <2>2 DEF Handed
    <2>7. (\A i \in 1 .. Len(queue) : ~ InHand(queue[i]))'
      BY <2>1, <2>2, <2>4 DEF Handed, InHand
    <2>8. ASSUME NEW d \in Clients, client'[d] = "waiting"
          PROVE  InHand(d)' \/ \E i \in 1 .. Len(queue') : queue'[i] = d
      <3>1. PICK i \in 1 .. Len(queue) : queue[i] = d
        BY <1>3, <2>1, <2>8 DEF take, Handed, InHand
      <3>2. CASE i = 1
        BY <3>1, <3>2, <2>4 DEF InHand
      <3>3. CASE i # 1
        <4>1. i - 1 \in 1 .. Len(queue')
          BY <3>3, <2>2
        <4> QED
          BY <4>1, <3>1, <2>2
      <3> QED
        BY <3>2, <3>3
    <2> QED
      BY <2>5, <2>6, <2>7, <2>8 DEF Handed
  <1>4. CASE lock
    BY <1>4, <1>0 DEF lock, Handed, Live, InHand
  <1>5. CASE lock_timeout
    BY <1>5 DEF lock_timeout, Up
  <1>6. CASE execute
    <2>1. Handed /\ writer = "work" /\ writer' = "unlock" /\ queue' = queue /\ main' = main
      BY <1>6, <1>0 DEF execute, Executed, post_block
    <2>2. cxt \in Clients /\ InHand(cxt)
      BY <2>1 DEF ThreadInv, WorksForWaiting, InHand
    <2>3. \A i \in 1 .. Len(queue) : queue[i] # cxt
      BY <2>1, <2>2 DEF Handed
    <2>4. client' = [client EXCEPT ![cxt] = "answered"]
      BY <1>6 DEF execute
    <2>5. (\A i \in 1 .. Len(queue) : Live(queue[i]))'
      BY <2>1, <2>3, <2>4 DEF Handed, Live
    <2>6. \A d \in Clients : client'[d] = "waiting" => \E i \in 1 .. Len(queue') : queue'[i] = d
      BY <2>1, <2>2, <2>4 DEF Handed, InHand
    <2> QED
      BY <2>1, <2>5, <2>6 DEF Handed, InHand
  <1>7. CASE unlock
    BY <1>7, <1>0 DEF unlock, Handed, Live, InHand
  <1>8. ASSUME NEW r \in Readers, lock_read(r) \/ unlock_read(r) PROVE Handed'
    BY <1>8, <1>0 DEF lock_read, unlock_read, Handed, Live, InHand
  <1>9. CASE plugin_shutdown
    <2>1. Handed /\ main = "run"
      BY <1>9, <1>0 DEF plugin_shutdown
    <2>2. \A i \in 1 .. Len(queue) : queue[i] \in Clients /\ queue[i] # "plugin_shutdown"
      BY <2>1 DEF Handed, Live
    <2>3. "plugin_shutdown" \in Messages /\ ~ InHand("plugin_shutdown")
      BY DEF Messages, Stoppers, InHand, ThreadInv, WorksForWaiting
    <2>4. /\ Len(queue') = Len(queue) + 1
          /\ \A i \in 1 .. Len(queue) : queue'[i] = queue[i]
          /\ queue'[Len(queue) + 1] = "plugin_shutdown"
      BY <1>9, <2>3 DEF plugin_shutdown
    <2>5. (\A i \in 1 .. Len(queue) : Live(queue[i]))'
      BY <1>9, <2>1, <2>2, <2>4 DEF plugin_shutdown, Handed, Live
    <2>6. \A i, j \in 1 .. Len(queue') : queue'[i] = queue'[j] => i = j
      BY <2>1, <2>2, <2>4 DEF Handed
    <2>7. (\A i \in 1 .. Len(queue) : ~ InHand(queue[i]))'
      BY <1>9, <2>1, <2>3, <2>4 DEF plugin_shutdown, Handed, InHand
    <2>8. ASSUME NEW d \in Clients, client'[d] = "waiting"
          PROVE  InHand(d)' \/ \E i \in 1 .. Len(queue') : queue'[i] = d
      BY <1>9, <2>1, <2>4, <2>8 DEF plugin_shutdown, Handed, InHand
    <2> QED
      BY <2>5, <2>6, <2>7, <2>8 DEF Handed
  <1>10. CASE join
    BY <1>10 DEF join
  <1>11. CASE destructor
    BY <1>11 DEF destructor, Up
  <1>12. CASE UNCHANGED vars
    BY <1>12, <1>0 DEF vars, Up, Handed, Live, InHand
  <1> QED
    BY <1>1, <1>2, <1>3, <1>4, <1>5, <1>6, <1>7, <1>8, <1>9, <1>10, <1>11, <1>12 DEF Next

-----------------------------------------------------------------------------
(* Pending in terms of Handed. *)
LEMMA HandedIsOnce == ASSUME TypeOK, WorksForWaiting, Handed, NEW c \in Clients
                      PROVE  Pending(c) = IF client[c] = "waiting" THEN 1 ELSE 0
  <1> DEFINE At == {i \in 1 .. Len(queue) : queue[i] = c}
  <1>1. CASE \E i \in 1 .. Len(queue) : queue[i] = c
    <2>1. PICK i \in 1 .. Len(queue) : queue[i] = c
      BY <1>1
    <2>2. At = {i}
      BY <2>1 DEF Handed
    <2>3. Cardinality(At) = 1
      BY <2>2, FS_Singleton
    <2>4. ~ InHand(c) /\ client[c] = "waiting"
      BY <2>1 DEF Handed, Live
    <2> QED
      BY <2>3, <2>4 DEF Pending, InHand
  <1>2. CASE ~ \E i \in 1 .. Len(queue) : queue[i] = c
    <2>1. At = {}
      BY <1>2
    <2>2. Cardinality(At) = 0
      BY <2>1, FS_EmptySet
    <2>3. InHand(c) <=> client[c] = "waiting"
      BY <1>2 DEF Handed, InHand, WorksForWaiting
    <2> QED
      BY <2>2, <2>3 DEF Pending, InHand
  <1> QED
    BY <1>1, <1>2

(* The invariants hold in every state. *)
THEOREM Invariants == Spec => [](ThreadInv /\ QueueInv)
  <1>1. Init => ThreadInv /\ QueueInv
    BY ThreadInit, QueueInit
  <1>2. ThreadInv /\ QueueInv /\ [Next]_vars => (ThreadInv /\ QueueInv)'
    BY ThreadStep, QueueStep
  <1> QED
    BY <1>1, <1>2, PTL DEF Spec

(* A caller that gets its answer from the write queue has had its request  *)
(* run exactly once, for any number of threads, with or without            *)
(* stop-at-block and through timeouts and shutdown. *)
THEOREM AnsweredOnceTheorem == Spec => []AnsweredOnce
  <1>1. ThreadInv /\ QueueInv => AnsweredOnce
    BY DEF ThreadInv
  <1> QED
    BY <1>1, Invariants, PTL

(* The database is closed only when the write thread is done with it, also *)
(* with stop-at-block. *)
THEOREM ClosedAfterWritesTheorem == Spec => []ClosedAfterWrites
  <1>1. ThreadInv /\ QueueInv => ClosedAfterWrites
    BY DEF ThreadInv
  <1> QED
    BY <1>1, Invariants, PTL

(* Without stop-at-block every pointer that the write thread can follow    *)
(* leads into a frame that has not returned, and each waiting caller is in *)
(* the queue or in the thread's hands exactly once; an answered request    *)
(* ran once, and the database is closed after the last write.              *)
THEOREM QueueSoundTheorem == Spec => [](StopAt = 0 => QueueSound)
  <1>1. ThreadInv /\ QueueInv => (StopAt = 0 => QueueSound)
    <2> SUFFICES ASSUME ThreadInv, QueueInv, StopAt = 0 PROVE QueueSound
      OBVIOUS
    <2>1. ASSUME Up, writer # "ended" PROVE Handed
      BY <2>1 DEF QueueInv
    <2>2. ContextsLive
      BY <2>1, HandedIsOnce DEF ContextsLive, ThreadInv, Handed
    <2> QED
      BY <2>2 DEF QueueSound, ThreadInv
  <1> QED
    BY <1>1, Invariants, PTL

-----------------------------------------------------------------------------
(* The block log *)

(* What open() has to re-establish from two files that were cut anywhere.  *)
(* A log of one block may have an empty index (construct_index), and then  *)
(* nothing can be appended to it.                                          *)
FilesOK == /\ log \in Nat /\ index \in Nat
           /\ log_file \in 0 .. log /\ index_file \in 0 .. index
           /\ head \in Nat /\ flushed \in Nat
           /\ state \in {"open", "closed", "refused"}
           /\ log <= 4 * MaxBlocks /\ index <= 2 * MaxBlocks
           /\ 4 * flushed <= log_file
OpenOK == state = "open" => /\ log = 4 * head
                            /\ index = 2 * head \/ (head = 1 /\ index = 0)
                            /\ flushed <= head
ShutOK == state # "open" => /\ log = log_file /\ index = index_file
                            /\ head = 0
LogInv == FilesOK /\ OpenOK /\ ShutOK

LEMMA Quarter ==
  ASSUME NEW n \in Nat, n % 4 = 0
  PROVE  n \div 4 \in Nat /\ n = 4 * (n \div 4)
  OBVIOUS

(* A successful open(), with the index as it is or rebuilt. *)
LEMMA LogOpening ==
  ASSUME LogInv, open_as_is \/ open_rebuild \/ open_fresh
  PROVE  LogInv'
  <1> DEFINE h == log_file \div 4
  <1>1. FilesOK /\ state = "closed" /\ log = log_file /\ index = index_file
    BY DEF LogInv, ShutOK, open_as_is, open_rebuild, open_fresh
  <1>2. CASE open_fresh
    BY <1>1, <1>2, MaxBlocksAssumption
       DEF LogInv, FilesOK, OpenOK, ShutOK, open_fresh
  <1>3. CASE open_as_is \/ open_rebuild
    <2>1. log_file \in Nat /\ log_file % 4 = 0
      BY <1>1, <1>3 DEF FilesOK, open_as_is, open_rebuild, Readable, Whole
    <2>2. h \in Nat /\ log_file = 4 * h
      BY <2>1, Quarter
    <2>3. head' = h /\ state' = "open" /\ log' = log_file
          /\ UNCHANGED <<log_file, flushed>>
      BY <1>3 DEF open_as_is, open_rebuild
    <2> HIDE DEF h
    <2>4. h <= MaxBlocks /\ flushed <= h
      BY <1>1, <2>2, MaxBlocksAssumption DEF FilesOK
    <2>5. /\ index' = 2 * h \/ (h = 1 /\ index' = 0)
          /\ index_file' \in 0 .. index' /\ index' \in Nat
      <3>1. CASE open_as_is
        BY <1>1, <2>2, <3>1
           DEF FilesOK, open_as_is, IndexMatches, IndexPieces, h
      <3>2. CASE open_rebuild
        BY <1>1, <2>2, <3>2 DEF open_rebuild, construct_index, IndexPieces, h
      <3>3. QED BY <1>3, <3>1, <3>2
    <2>6. index' <= 2 * MaxBlocks
      BY <2>2, <2>4, <2>5, MaxBlocksAssumption
    <2>7. QED BY <1>1, <2>2, <2>3, <2>4, <2>5, <2>6
              DEF LogInv, FilesOK, OpenOK, ShutOK
  <1>4. QED BY <1>2, <1>3

LEMMA LogSteps ==
  ASSUME LogInv, [LogNext]_log_vars
  PROVE  LogInv'
  <1> USE MaxBlocksAssumption
  <1>1. CASE open_refused
    BY <1>1 DEF LogInv, FilesOK, OpenOK, ShutOK, open_refused
  <1>2. CASE open_as_is \/ open_rebuild \/ open_fresh
    BY <1>2, LogOpening
  <1>3. CASE append
    BY <1>3 DEF LogInv, FilesOK, OpenOK, ShutOK, append, CanAppend,
                LogPieces, IndexPieces
  <1>4. CASE flush
    BY <1>4 DEF LogInv, FilesOK, OpenOK, ShutOK, flush
  <1>5. CASE spill_log
    BY <1>5 DEF LogInv, FilesOK, OpenOK, ShutOK, spill_log
  <1>6. CASE spill_index
    BY <1>6 DEF LogInv, FilesOK, OpenOK, ShutOK, spill_index
  <1>7. CASE close
    BY <1>7 DEF LogInv, FilesOK, OpenOK, ShutOK, close
  <1>8. CASE crash
    BY <1>8 DEF LogInv, FilesOK, OpenOK, ShutOK, crash
  <1>9. CASE lose_power
    BY <1>9 DEF LogInv, FilesOK, OpenOK, ShutOK, lose_power
  <1>10. CASE delete_index
    BY <1>10 DEF LogInv, FilesOK, OpenOK, ShutOK, delete_index
  <1>11. CASE UNCHANGED log_vars
    BY <1>11 DEF LogInv, FilesOK, OpenOK, ShutOK, log_vars
  <1>12. QED BY <1>1, <1>2, <1>3, <1>4, <1>5, <1>6, <1>7, <1>8, <1>9, <1>10,
               <1>11 DEF LogNext

(* The inductive invariant holds in every reachable state. *)
THEOREM LogInvariance == LogSpec => []LogInv
  <1>1. LogInit => LogInv
    BY MaxBlocksAssumption DEF LogInit, LogInv, FilesOK, OpenOK, ShutOK
  <1>2. LogInv /\ [LogNext]_log_vars => LogInv'
    BY LogSteps
  <1>3. QED BY <1>1, <1>2, PTL DEF LogSpec

(* The variables of the block log keep their types and bounds. *)
THEOREM LogTypeCorrect == LogSpec => []LogTypeOK
  <1>1. LogInv => LogTypeOK
    BY MaxBlocksAssumption
       DEF LogInv, FilesOK, OpenOK, ShutOK, LogTypeOK, LogPieces, IndexPieces
  <1>2. QED BY <1>1, LogInvariance, PTL

(* Whatever has cut or removed the two files, a log that open() accepts    *)
(* and that has not exactly one block has one index entry per block.       *)
THEOREM IndexAlwaysComplete == LogSpec => []IndexComplete
  <1>1. LogInv => IndexComplete
    BY DEF LogInv, FilesOK, OpenOK, IndexComplete, LogPieces, IndexPieces
  <1>2. QED BY <1>1, LogInvariance, PTL

(* A block whose flush() has returned survives the death of the process. *)
THEOREM FlushedAlwaysSurvives == LogSpec => []FlushedSurvives
  <1>1. LogInv => FlushedSurvives
    BY DEF LogInv, FilesOK, OpenOK, FlushedSurvives, LogPieces
  <1>2. QED BY <1>1, LogInvariance, PTL
=============================================================================
