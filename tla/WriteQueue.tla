----------------------------- MODULE WriteQueue -----------------------------
(***************************************************************************)
(* chain_plugin's write queue: p2p, API and mining threads hand pointers   *)
(* to write_contexts on their own stacks to the one write thread, and wait *)
(* on a promise.  Shutdown is a message in the same queue.  The chain      *)
(* state is guarded by chainbase's counted reader/writer lock.             *)
(*                                                                         *)
(* A message is named after whose stack it lives on: a client, or one of   *)
(* the three callers of stop_write_processing.  What a request does to the *)
(* chain is in ChainDatabase; here it succeeds or throws.                  *)
(***************************************************************************)
EXTENDS Integers, Sequences, FiniteSets

CONSTANTS Clients,       \* threads that call accept_block and its siblings
          Readers,       \* threads that call with_read_lock
          StopAt,        \* stop_at_block; 0 when the option is not given
          CanSignal,     \* may the operator ask the node to quit?
          CanTimeout     \* may a lock be waited for longer than 60 s?

Stoppers == {"plugin_shutdown", "post_block", "destructor"}

ASSUME ClientsAssumption == Clients \cap Stoppers = {}
ASSUME ReadersAssumption == IsFiniteSet(Readers)
ASSUME StopAtAssumption == StopAt \in Nat
ASSUME SwitchesAssumption == CanSignal \in BOOLEAN /\ CanTimeout \in BOOLEAN

VARIABLES queue,              \* write_queue
          client,             \* what each client thread is doing
          runs,               \* history: executions of the client's request
          writer,             \* the write thread
          cxt,                \* the context in its hands
          readers,            \* threads that hold the shared lock
          write_lock_count,   \* _write_lock_count
          blocks,             \* last irreversible block, up to StopAt
          main,               \* the thread that shuts the plugin down
          quit                \* has app().quit() been called?

vars == <<queue, client, runs, writer, cxt, readers, write_lock_count,
          blocks, main, quit>>

NoContext == "none"
Exclusive == writer \in {"work", "unlock"}

(* The frame a message lives in has not returned. *)
Live(m) == IF m \in Clients THEN client[m] = "waiting"
           ELSE m = "plugin_shutdown" /\ main = "joining"

(* The process is gone after a crash and after main returns. *)
Up == writer # "crashed" /\ main # "exited"

-----------------------------------------------------------------------------
Init == /\ queue = <<>>
        /\ client = [c \in Clients |-> "idle"]
        /\ runs = [c \in Clients |-> 0]
        /\ writer = "take"
        /\ cxt = NoContext
        /\ readers = {}
        /\ write_lock_count = 0
        /\ blocks = 0
        /\ main = "run"
        /\ quit = FALSE

(* accept_block, accept_transaction, generate_block: queue and wait. *)
accept(c) ==
    /\ Up
    /\ client[c] = "idle"
    /\ queue' = Append(queue, c)
    /\ client' = [client EXCEPT ![c] = "waiting"]
    /\ runs' = [runs EXCEPT ![c] = 0]
    /\ UNCHANGED <<writer, cxt, readers, write_lock_count, blocks, main, quit>>

(* The future is ready: the call returns or throws what the context holds. *)
answered(c) ==
    /\ Up
    /\ client[c] = "answered"
    /\ client' = [client EXCEPT ![c] = "idle"]
    /\ UNCHANGED <<queue, runs, writer, cxt, readers, write_lock_count, blocks,
                   main, quit>>

-----------------------------------------------------------------------------
(* The loop of the write thread.                                           *)

(* Seeded fault: the message is read and left in the queue. *)
take_front ==
    /\ Up /\ writer = "take" /\ queue # <<>>
    /\ UNCHANGED queue
    /\ IF Head(queue) \in Clients /\ Live(Head(queue))
       THEN writer' = "lock" /\ cxt' = Head(queue)
       ELSE writer' = "ended" /\ UNCHANGED cxt
    /\ UNCHANGED <<client, runs, readers, write_lock_count, blocks, main, quit>>

(* A pointer into a frame that is gone is undefined behaviour: its         *)
(* shutdown flag may still be set, or the thread runs into garbage.        *)
take ==
    /\ Up /\ writer = "take" /\ queue # <<>>
    /\ queue' = Tail(queue)
    /\ \/ /\ Live(Head(queue)) /\ Head(queue) \in Clients
          /\ writer' = "lock" /\ cxt' = Head(queue)
       \/ /\ Live(Head(queue)) /\ Head(queue) \in Stoppers
          /\ writer' = "ended" /\ UNCHANGED cxt
       \/ /\ ~ Live(Head(queue))
          /\ writer' \in {"ended", "crashed"} /\ UNCHANGED cxt
    /\ UNCHANGED <<client, runs, readers, write_lock_count, blocks, main, quit>>

lock ==
    /\ Up /\ writer = "lock" /\ readers = {}
    /\ writer' = "work"
    /\ write_lock_count' = write_lock_count + 1
    /\ UNCHANGED <<queue, client, runs, cxt, readers, blocks, main, quit>>

(* counted_lock throws in the write thread, where nothing catches it. *)
lock_timeout ==
    /\ Up /\ CanTimeout /\ writer = "lock" /\ readers # {}
    /\ writer' = "crashed"
    /\ UNCHANGED <<queue, client, runs, cxt, readers, write_lock_count, blocks,
                   main, quit>>

(* stop_write_processing called from the write thread by the block signal: *)
(* the message is queued, join() on the own thread throws, the signal's    *)
(* caller swallows that, and app().quit() is not reached.                  *)
Joinable(caller) == caller # "writer"

post_block ==
    IF StopAt > 0 /\ blocks' = StopAt
    THEN /\ queue' = Append(queue, "post_block")
         /\ quit' = (quit \/ Joinable("writer"))
    ELSE UNCHANGED <<queue, quit>>

Executed == /\ runs' = [runs EXCEPT ![cxt] = @ + 1]
            /\ writer' = "unlock"
            /\ UNCHANGED <<cxt, readers, write_lock_count, main>>

(* Seeded fault: the promise is only set when the request succeeds. *)
execute_forgetful ==
    /\ Up /\ writer = "work"
    /\ \/ /\ blocks' \in {blocks, IF blocks < StopAt THEN blocks + 1 ELSE StopAt}
          /\ post_block
          /\ client' = [client EXCEPT ![cxt] = "answered"]
       \/ UNCHANGED <<blocks, queue, quit, client>>
    /\ Executed

(* The visitor runs the request and catches whatever it throws; then the   *)
(* promise is set, still under the lock.  A block may be applied or not; a *)
(* transaction never calls post_block.                                     *)
execute ==
    /\ Up /\ writer = "work"
    /\ \/ /\ blocks' = IF blocks < StopAt THEN blocks + 1 ELSE StopAt
          /\ post_block
       \/ UNCHANGED <<blocks, queue, quit>>
    /\ client' = [client EXCEPT ![cxt] = "answered"]
    /\ Executed

unlock ==
    /\ Up /\ writer = "unlock"
    /\ writer' = "take"
    /\ cxt' = NoContext
    /\ write_lock_count' = write_lock_count - 1
    /\ UNCHANGED <<queue, client, runs, readers, blocks, main, quit>>

-----------------------------------------------------------------------------
(* with_read_lock: boost's shared_mutex lets no reader in while a writer   *)
(* holds the lock or waits for it.                                         *)

lock_read(r) ==
    /\ Up /\ r \notin readers
    /\ ~ Exclusive /\ writer # "lock"
    /\ readers' = readers \cup {r}
    /\ write_lock_count' = write_lock_count + 1
    /\ UNCHANGED <<queue, client, runs, writer, cxt, blocks, main, quit>>

unlock_read(r) ==
    /\ Up /\ r \in readers
    /\ readers' = readers \ {r}
    /\ write_lock_count' = write_lock_count - 1
    /\ UNCHANGED <<queue, client, runs, writer, cxt, blocks, main, quit>>

-----------------------------------------------------------------------------
(* plugin_shutdown: stop_write_processing, then db.close().                *)

(* Seeded faults: no message, no join. *)
plugin_shutdown_silent ==
    /\ Up /\ main = "run" /\ (CanSignal \/ quit)
    /\ main' = "joining"
    /\ UNCHANGED <<queue, client, runs, writer, cxt, readers, write_lock_count,
                   blocks, quit>>

join_nothing ==
    /\ Up /\ main = "joining"
    /\ main' = "closed"
    /\ UNCHANGED <<queue, client, runs, writer, cxt, readers, write_lock_count,
                   blocks, quit>>

plugin_shutdown ==
    /\ Up /\ main = "run" /\ (CanSignal \/ quit)
    /\ queue' = Append(queue, "plugin_shutdown")
    /\ main' = "joining"
    /\ UNCHANGED <<client, runs, writer, cxt, readers, write_lock_count, blocks,
                   quit>>

join ==
    /\ Up /\ main = "joining" /\ writer = "ended"
    /\ main' = "closed"
    /\ UNCHANGED <<queue, client, runs, writer, cxt, readers, write_lock_count,
                   blocks, quit>>

(* ~chain_plugin_impl calls stop_write_processing again, with no thread to *)
(* join; then the process ends.                                            *)
destructor ==
    /\ Up /\ main = "closed"
    /\ queue' = Append(queue, "destructor")
    /\ main' = "exited"
    /\ UNCHANGED <<client, runs, writer, cxt, readers, write_lock_count, blocks,
                   quit>>

-----------------------------------------------------------------------------
Next == \/ \E c \in Clients : accept(c)
        \/ \E c \in Clients : answered(c)
        \/ take
        \/ lock
        \/ lock_timeout
        \/ execute
        \/ unlock
        \/ \E r \in Readers : lock_read(r)
        \/ \E r \in Readers : unlock_read(r)
        \/ plugin_shutdown
        \/ join
        \/ destructor

(* The write thread and a thread in join() run, and what runs under a read *)
(* lock comes to an end.                                                   *)
Fairness == /\ WF_vars(take \/ lock \/ execute \/ unlock)
            /\ WF_vars(plugin_shutdown /\ quit)
            /\ WF_vars(join)
            /\ \A r \in Readers : WF_vars(unlock_read(r))

Spec == Init /\ [][Next]_vars /\ Fairness

-----------------------------------------------------------------------------
(* Properties.                                                             *)

Messages == Clients \cup Stoppers

(* The variables keep their types. *)
TypeOK == /\ queue \in Seq(Messages)
          /\ client \in [Clients -> {"idle", "waiting", "answered"}]
          /\ runs \in [Clients -> Nat]
          /\ writer \in {"take", "lock", "work", "unlock", "ended", "crashed"}
          /\ cxt \in Clients \cup {NoContext}
          /\ readers \in SUBSET Readers
          /\ write_lock_count \in Nat
          /\ blocks \in 0 .. StopAt
          /\ main \in {"run", "joining", "closed", "exited"}
          /\ quit \in BOOLEAN

(* Every pointer the write thread can still follow leads into a frame that *)
(* has not returned, and each waiting client is in the queue or in the     *)
(* thread's hands exactly once.                                            *)
Pending(c) == Cardinality({i \in 1 .. Len(queue) : queue[i] = c})
                + (IF cxt = c /\ writer \in {"lock", "work"} THEN 1 ELSE 0)
ContextsLive ==
    Up /\ writer # "ended" =>
       /\ \A i \in 1 .. Len(queue) : Live(queue[i])
       /\ \A c \in Clients : Pending(c) = IF client[c] = "waiting" THEN 1 ELSE 0

(* A caller that gets its answer has had its request run exactly once. *)
AnsweredOnce == \A c \in Clients : client[c] = "answered" => runs[c] = 1

(* The database is closed only when the write thread is done with it. *)
ClosedAfterWrites ==
    main \in {"closed", "exited"} => writer \in {"ended", "crashed"}

(* The queue and its threads as a whole: well formed, no dangling pointer, *)
(* no request answered that has not run or has run twice, and nothing      *)
(* written to a database that is closed.                                   *)
QueueSound == TypeOK /\ ContextsLive /\ AnsweredOnce /\ ClosedAfterWrites

(* A request queued ahead of any shutdown message is answered, whether it  *)
(* succeeds or throws and however many readers come and go, unless a lock  *)
(* timeout ends the process.                                               *)
Ahead(c) == /\ writer # "ended"
            /\ \E i \in 1 .. Len(queue) :
                 queue[i] = c /\ \A j \in 1 .. i : queue[j] \notin Stoppers
RequestsServed ==
    \A c \in Clients :
       Ahead(c) ~> client[c] = "answered" \/ writer = "crashed"

(* A shutdown gets past the join of the write thread, or the process dies. *)
ShutdownEnds ==
    main = "joining" ~> main \in {"closed", "exited"} \/ writer = "crashed"

=============================================================================
