--------------------------------- MODULE Amqp ---------------------------------
(***************************************************************************)
(* r2/lib/amqp.py: an app server and a queue processor that share one      *)
(* RabbitMQ queue.  Each process has a foreground thread and a worker      *)
(* thread that publishes what the foreground hands it.  The processor runs *)
(* one job at a time: consume_items, handle_items (as a daemon or to drain *)
(* the queue) or dedup_queue.                                              *)
(*                                                                         *)
(* A message is its body: the consumers of these queues look the thing up  *)
(* again, so a body handled after it was last added owes nothing more.     *)
(***************************************************************************)
EXTENDS Integers, Sequences, FiniteSets, Functions

CONSTANTS
    Bodies,        \* message bodies
    Broadcasts,    \* those addressed to the websocket exchange "sutro"
    AmqpLimit,     \* handle_items: messages for one call of the callback
    AmqpMinSize,   \* handle_items: fewest messages for one call
    Prefetch,      \* consume_items: unacknowledged messages the broker allows
    MaxAdds,       \* bound: calls of add_item
    MaxJobs,       \* bound: drains and dedups
    MaxAmqpFaults  \* bound: broken connections, crashes, raising callbacks

ASSUME AmqpAssumption ==
    /\ Broadcasts \subseteq Bodies
    /\ AmqpLimit \in Nat \ {0} /\ AmqpMinSize \in 0..AmqpLimit
    /\ Prefetch \in Nat \ {0}
    /\ MaxAdds \in Nat /\ MaxJobs \in Nat /\ MaxAmqpFaults \in Nat

Ends == {"app", "consumer"}
Exchanges == {"reddit_exchange", "sutro"}
Item == [body : Bodies, exchange : Exchanges]

VARIABLES
    work,        \* work[p]: the queue of p's worker thread
    publishing,  \* publishing[p]: <<the item the thread has taken>>, or <<>>
    unfinished,  \* unfinished[p]: calls of task_done that join() waits for
    connected,   \* connected[p]: the worker's connection is good
    queue,       \* the broker's queue: bodies
    unacked,     \* delivered to the consumer, not acknowledged
    job, at,     \* what the consumer runs, and where it is
    items,       \* handle_items: the batch; consume_items: what the callback has
    countdown,   \* handle_items: -1 is None; dedup_queue: limit
    bodies,      \* dedup_queue: bodies still to be put back
    backlog,     \* drain: length of the queue at the first basic_get
    taken,       \* drain, dedup: messages got so far
    owed,        \* bodies added and not handled since
    lost,        \* bodies whose message is known to have been dropped
    raised,      \* raised[p]: a publish raised in p's worker thread
    adds, jobs, amqpFaults  \* against the bounds

workers == <<work, publishing, unfinished, connected, raised>>
loop == <<items, countdown, bodies, backlog, taken>>
amqpBounds == <<adds, jobs, amqpFaults>>
amqpVars == <<workers, queue, unacked, job, at, loop, owed, lost, amqpBounds>>

Jobs == {"none", "consume", "handle", "drain", "dedup"}
Places == {"out", "get", "fill", "callback", "join", "put"}

AmqpTypeOK ==
    /\ work \in [Ends -> Seq(Item)]
    /\ publishing \in [Ends -> Seq(Item)]
    /\ unfinished \in [Ends -> Nat]
    /\ connected \in [Ends -> BOOLEAN]
    /\ queue \in Seq(Bodies) /\ unacked \in Seq(Bodies) /\ items \in Seq(Bodies)
    /\ job \in Jobs /\ at \in Places
    /\ (job = "none") = (at = "out")
    /\ countdown \in Int
    /\ bodies \subseteq Bodies /\ owed \subseteq Bodies /\ lost \subseteq Bodies
    /\ backlog \in Nat /\ taken \in Nat
    /\ raised \in [Ends -> BOOLEAN]
    /\ adds \in 0..MaxAdds /\ jobs \in 0..MaxJobs /\ amqpFaults \in 0..MaxAmqpFaults

AmqpInit ==
    /\ work = [p \in Ends |-> <<>>]
    /\ publishing = [p \in Ends |-> <<>>]
    /\ unfinished = [p \in Ends |-> 0]
    /\ connected = [p \in Ends |-> TRUE]
    /\ raised = [p \in Ends |-> FALSE]
    /\ queue = <<>> /\ unacked = <<>>
    /\ job = "none" /\ at = "out"
    /\ items = <<>> /\ countdown = -1 /\ bodies = {} /\ backlog = 0 /\ taken = 0
    /\ owed = {} /\ lost = {}
    /\ adds = 0 /\ jobs = 0 /\ amqpFaults = 0

AmqpFault ==
    /\ amqpFaults < MaxAmqpFaults
    /\ amqpFaults' = amqpFaults + 1

-----------------------------------------------------------------------------
(* The worker thread                                                       *)

\* add_item: Worker.do puts the call on the thread's queue.
AddItem(p, b) ==
    /\ p = "app" \/ at = "callback"
    /\ adds < MaxAdds
    /\ work' = [work EXCEPT ![p] = Append(@,
                  [body |-> b,
                   exchange |-> IF b \in Broadcasts THEN "sutro" ELSE "reddit_exchange"])]
    /\ unfinished' = [unfinished EXCEPT ![p] = @ + 1]
    /\ owed' = owed \cup {b}
    /\ lost' = lost \ {b}
    /\ adds' = adds + 1
    /\ UNCHANGED <<publishing, connected, raised, queue, unacked, job, at, loop, jobs, amqpFaults>>

\* Worker._handle: q.get().
TakeCall(p) ==
    /\ publishing[p] = <<>>
    /\ work[p] # <<>>
    /\ publishing' = [publishing EXCEPT ![p] = <<Head(work[p])>>]
    /\ work' = [work EXCEPT ![p] = Tail(@)]
    /\ UNCHANGED <<unfinished, connected, raised, queue, unacked, job, at, loop, owed, lost, amqpBounds>>

\* What the broker does with a published item: websocket listeners take what
\* arrives at "sutro"; no queue of reddit_exchange is bound to their keys.
Route(item) ==
    IF item.body \notin Broadcasts
    THEN queue' = Append(queue, item.body) /\ UNCHANGED <<owed, lost>>
    ELSE /\ IF item.exchange = "sutro"
            THEN owed' = owed \ {item.body} /\ lost' = lost
            ELSE owed' = owed /\ lost' = lost \cup {item.body}
         /\ UNCHANGED queue

\* Mutant of TaskDone: join() is not told.
TaskNotDone(p) == UNCHANGED unfinished

TaskDone(p) == unfinished' = [unfinished EXCEPT ![p] = @ - 1]

Publish(p) ==
    /\ publishing[p] # <<>>
    /\ connected[p]
    /\ Route(Head(publishing[p]))
    /\ publishing' = [publishing EXCEPT ![p] = <<>>]
    /\ TaskDone(p)
    /\ UNCHANGED <<work, connected, raised, unacked, job, at, loop, amqpBounds>>

\* get_channel finds that the connection has no channels any more.
Reconnect(p) ==
    /\ publishing[p] # <<>>
    /\ ~connected[p]
    /\ connected' = [connected EXCEPT ![p] = TRUE]
    /\ UNCHANGED <<work, publishing, unfinished, raised, queue, unacked, job, at, loop,
                   owed, lost, amqpBounds>>

\* EPIPE: reconnect, and add_item(routing_key, body, message_id) once more.
PublishAgain(p) ==
    /\ publishing[p] # <<>>
    /\ ~connected[p]
    /\ connected' = [connected EXCEPT ![p] = TRUE]
    /\ work' = [work EXCEPT ![p] = Append(@,
                  [Head(publishing[p]) EXCEPT !.exchange = "reddit_exchange"])]
    /\ publishing' = [publishing EXCEPT ![p] = <<>>]
    /\ UNCHANGED <<unfinished, raised, queue, unacked, job, at, loop, owed, lost, amqpBounds>>

\* Any other error is raised and printed by _handle, past task_done.
PublishRaises(p) ==
    /\ publishing[p] # <<>>
    /\ ~connected[p]
    /\ lost' = lost \cup {Head(publishing[p]).body}
    /\ publishing' = [publishing EXCEPT ![p] = <<>>]
    /\ raised' = [raised EXCEPT ![p] = TRUE]
    /\ UNCHANGED <<work, unfinished, connected, queue, unacked, job, at, loop, owed, amqpBounds>>

\* The first write to a socket the other side has closed goes through.
PublishSwallowed(p) ==
    /\ publishing[p] # <<>>
    /\ ~connected[p]
    /\ lost' = lost \cup {Head(publishing[p]).body}
    /\ publishing' = [publishing EXCEPT ![p] = <<>>]
    /\ TaskDone(p)
    /\ UNCHANGED <<work, connected, raised, queue, unacked, job, at, loop, owed, amqpBounds>>

WorkerStep(p) ==
    \/ TakeCall(p) \/ Publish(p) \/ Reconnect(p)
    \/ PublishAgain(p) \/ PublishRaises(p) \/ PublishSwallowed(p)

-----------------------------------------------------------------------------
(* The consumer                                                            *)

\* consume_items and handle_items run as daemons; drains and dedups are
\* started by hand or by cron.
Start(j) ==
    /\ job = "none"
    /\ \/ j \in {"consume", "handle"} /\ UNCHANGED jobs
       \/ j \in {"drain", "dedup"} /\ jobs < MaxJobs /\ jobs' = jobs + 1
    /\ job' = j
    /\ at' = "get"
    /\ items' = <<>> /\ countdown' = -1 /\ bodies' = {} /\ backlog' = 0 /\ taken' = 0
    /\ UNCHANGED <<workers, queue, unacked, owed, lost, adds, amqpFaults>>

\* Mutant of Leave: the job's place is kept.
LeaveInPlace == job' = "none" /\ at' = at

Leave == job' = "none" /\ at' = "out"

\* Mutant of Requeue: messages are acknowledged as they are delivered.
RequeueNothing == queue' = queue /\ unacked' = <<>>

\* The channel closes: the broker takes back what was not acknowledged.
Requeue == queue' = unacked \o queue /\ unacked' = <<>>

Get ==
    /\ queue' = Tail(queue)
    /\ unacked' = Append(unacked, Head(queue))

\* A process ends: its worker is a daemon thread, and what it had not published is
\* gone.
Exit(p) ==
    /\ lost' = lost \cup {i.body : i \in Range(work[p]) \cup Range(publishing[p])}
    /\ work' = [work EXCEPT ![p] = <<>>]
    /\ publishing' = [publishing EXCEPT ![p] = <<>>]
    /\ unfinished' = [unfinished EXCEPT ![p] = 0]
    /\ connected' = [connected EXCEPT ![p] = TRUE]
    /\ raised' = [raised EXCEPT ![p] = FALSE]

\* A call that does not join() its worker is over, and the script with it or not.
ReturnUnjoined == Exit("consumer") \/ UNCHANGED <<workers, lost>>

Settle(done) == owed' = owed \ Range(done)

\* consume_items: the broker sends ahead, up to the prefetch count.
Deliver ==
    /\ job = "consume" /\ at \in {"get", "callback"}
    /\ queue # <<>>
    /\ Len(unacked) < Prefetch
    /\ Get
    /\ UNCHANGED <<workers, job, at, loop, owed, lost, amqpBounds>>

Wait ==
    /\ job = "consume" /\ at = "get"
    /\ unacked # <<>>
    /\ items' = <<Head(unacked)>>
    /\ at' = "callback"
    /\ UNCHANGED <<workers, queue, unacked, job, countdown, bodies, backlog, taken, owed,
                   lost, amqpBounds>>

\* _callback: the callback, then basic_ack of its message.
Consumed ==
    /\ job = "consume" /\ at = "callback"
    /\ Settle(items)
    /\ unacked' = Tail(unacked)
    /\ items' = <<>>
    /\ at' = "get"
    /\ UNCHANGED <<workers, queue, job, countdown, bodies, backlog, taken, lost, amqpBounds>>

\* KeyboardInterrupt, or an exception out of the callback: finally join().
StopConsuming ==
    /\ job = "consume" /\ at \in {"get", "callback"}
    /\ AmqpFault
    /\ at' = "join"
    /\ UNCHANGED <<workers, queue, unacked, job, loop, owed, lost, adds, jobs>>

Join ==
    /\ job = "consume" /\ at = "join"
    /\ unfinished["consumer"] = 0
    /\ Requeue
    /\ Leave
    /\ UNCHANGED <<workers, loop, owed, lost, amqpBounds>>

\* handle_items, the outer loop: a drain ends at zero or at an empty queue.
DrainEnds ==
    /\ job = "drain" /\ at = "get"
    /\ countdown = 0 \/ queue = <<>>
    /\ Leave
    /\ ReturnUnjoined
    /\ UNCHANGED <<queue, unacked, loop, owed, amqpBounds>>

\* Mutant of FirstCountdown: a drain does not count.
NoCountdown == countdown

FirstCountdown == IF countdown = -1 /\ job = "drain" THEN Len(queue) ELSE countdown

GetFirst ==
    /\ job \in {"handle", "drain"} /\ at = "get"
    /\ countdown # 0
    /\ queue # <<>>
    /\ Get
    /\ items' = <<Head(queue)>>
    /\ countdown' = FirstCountdown
    /\ backlog' = IF job = "drain" /\ taken = 0 THEN Len(queue) ELSE backlog
    /\ taken' = IF job = "drain" THEN taken + 1 ELSE taken
    /\ at' = "fill"
    /\ UNCHANGED <<workers, job, bodies, owed, lost, amqpBounds>>

\* One turn of the inner loop: count down, then stop, get or sleep.
Fill ==
    /\ job \in {"handle", "drain"} /\ at = "fill"
    /\ countdown # 0
    /\ countdown' = IF countdown = -1 THEN -1 ELSE countdown - 1
    /\ \/ /\ Len(items) >= AmqpLimit
          /\ at' = "callback"
          /\ UNCHANGED <<queue, unacked, items, taken>>
       \/ /\ Len(items) < AmqpLimit /\ queue # <<>>
          /\ Get
          /\ items' = Append(items, Head(queue))
          /\ taken' = IF job = "drain" THEN taken + 1 ELSE taken
          /\ UNCHANGED at
       \/ /\ Len(items) < AmqpLimit /\ queue = <<>>
          /\ at' = IF Len(items) < AmqpMinSize THEN "fill" ELSE "callback"
          /\ UNCHANGED <<queue, unacked, items, taken>>
    /\ UNCHANGED <<workers, job, bodies, backlog, owed, lost, amqpBounds>>

FillEnds ==
    /\ at = "fill" /\ countdown = 0
    /\ at' = "callback"
    /\ UNCHANGED <<workers, queue, unacked, job, loop, owed, lost, amqpBounds>>

\* callback(items, chan), then basic_ack(0, multiple=True).
Handled ==
    /\ job \in {"handle", "drain"} /\ at = "callback"
    /\ Settle(items)
    /\ unacked' = <<>>
    /\ items' = <<>>
    /\ at' = "get"
    /\ UNCHANGED <<workers, queue, job, countdown, bodies, backlog, taken, lost, amqpBounds>>

\* The callback raises: reject every item and raise.
Rejected ==
    /\ job \in {"handle", "drain"} /\ at = "callback"
    /\ AmqpFault
    /\ Requeue
    /\ Leave
    /\ ReturnUnjoined
    /\ UNCHANGED <<loop, owed, adds, jobs>>

\* dedup_queue: the limit is the count after the first message.
DedupGet ==
    /\ job = "dedup" /\ at = "get"
    /\ queue # <<>>
    /\ Get
    /\ bodies' = bodies \cup {Head(queue)}
    /\ countdown' = IF taken = 0 THEN Len(queue) - 1 ELSE countdown - 1
    /\ taken' = taken + 1
    /\ at' = IF taken > 0 /\ countdown - 1 <= 0 THEN "put" ELSE "get"
    /\ UNCHANGED <<workers, job, items, backlog, owed, lost, amqpBounds>>

DedupEmpty ==
    /\ job = "dedup" /\ at = "get"
    /\ queue = <<>>
    /\ IF bodies = {} THEN Leave ELSE at' = "put" /\ UNCHANGED job
    /\ UNCHANGED <<workers, queue, unacked, loop, owed, lost, amqpBounds>>

\* _add_item, here from the foreground thread.
DedupPut(b) ==
    /\ job = "dedup" /\ at = "put"
    /\ b \in bodies
    /\ queue' = Append(queue, b)
    /\ bodies' = bodies \ {b}
    /\ UNCHANGED <<workers, unacked, job, at, items, countdown, backlog, taken, owed, lost,
                   amqpBounds>>

\* EPIPE: the new connection ends the old channel, the retry is the worker's.
DedupPutAgain(b) ==
    /\ job = "dedup" /\ at = "put"
    /\ b \in bodies
    /\ AmqpFault
    /\ Requeue
    /\ bodies' = bodies \ {b}
    /\ work' = [work EXCEPT !["consumer"] = Append(@,
                  [body |-> b, exchange |-> "reddit_exchange"])]
    /\ unfinished' = [unfinished EXCEPT !["consumer"] = @ + 1]
    /\ UNCHANGED <<publishing, connected, raised, job, at, items, countdown, backlog,
                   taken, owed, lost, adds, jobs>>

\* worker.join() and basic_ack(0, multiple=True), which finds nothing to
\* acknowledge on a channel that was closed.
DedupAck ==
    /\ job = "dedup" /\ at = "put"
    /\ bodies = {}
    /\ unfinished["consumer"] = 0
    /\ unacked' = <<>>
    /\ Leave
    /\ UNCHANGED <<workers, queue, loop, owed, lost, amqpBounds>>

ConsumerStep ==
    \/ Deliver \/ Wait \/ Consumed \/ Join
    \/ DrainEnds \/ GetFirst \/ Fill \/ FillEnds \/ Handled
    \/ DedupGet \/ DedupEmpty \/ DedupAck
    \/ \E b \in Bodies : DedupPut(b)

-----------------------------------------------------------------------------
(* The environment                                                         *)

Disconnect(p) ==
    /\ connected[p]
    /\ AmqpFault
    /\ connected' = [connected EXCEPT ![p] = FALSE]
    /\ UNCHANGED <<work, publishing, unfinished, raised, queue, unacked, job, at, loop,
                   owed, lost, adds, jobs>>

Die(p) ==
    /\ AmqpFault
    /\ Exit(p)
    /\ IF p = "consumer" THEN Requeue /\ Leave ELSE UNCHANGED <<queue, unacked, job, at>>
    /\ UNCHANGED <<loop, owed, adds, jobs>>

AmqpNext ==
    \/ \E p \in Ends : (\E b \in Bodies : AddItem(p, b)) \/ WorkerStep(p)
                       \/ Disconnect(p) \/ Die(p)
    \/ \E j \in Jobs \ {"none"} : Start(j)
    \/ ConsumerStep
    \/ StopConsuming \/ Rejected
    \/ \E b \in Bodies : DedupPutAgain(b)

AmqpSpec == AmqpInit /\ [][AmqpNext]_amqpVars

\* Both threads run, and while there are messages the supervisor restarts the
\* daemon.
AmqpFairness ==
    /\ \A p \in Ends : WF_amqpVars(WorkerStep(p))
    /\ WF_amqpVars(ConsumerStep)
    /\ WF_amqpVars(queue # <<>> /\ (Start("consume") \/ Start("handle")))

-----------------------------------------------------------------------------
(* Properties                                                              *)

Underway ==
    Range(queue) \cup Range(unacked)
      \cup {i.body : i \in UNION {Range(work[p]) \cup Range(publishing[p]) : p \in Ends}}

(***************************************************************************)
(* At least once: a body that was added and not handled since is still on  *)
(* its way, through reconnects, raising callbacks, rejected batches,       *)
(* crashed consumers and dedup_queue, but for those dropped with a process *)
(* (handle_items ends without join()) or by a publish that failed with     *)
(* another error than EPIPE.                                               *)
(***************************************************************************)
NoMessageLost == owed \subseteq Underway \cup lost

(***************************************************************************)
(* handle_items(drain=True) takes everything that was in the queue when it *)
(* began, and with producers adding all the time no more than one message  *)
(* beyond that.                                                            *)
(***************************************************************************)
DrainTakesBacklog ==
    job = "drain" =>
      /\ taken <= backlog + 1
      /\ (at = "get" /\ countdown = 0) => taken >= backlog

(***************************************************************************)
(* What is added is handled in the end, unless dropped: consume_items      *)
(* gets out of worker.join() and is restarted, unless a publish raised     *)
(* (task_done is then never called), and handle_items waits only for       *)
(* min_size messages.                                                      *)
(***************************************************************************)
MessagesHandled ==
    <>[](\/ owed \subseteq lost
         \/ raised["consumer"] /\ (at = "join" \/ job = "dedup")
         \/ job = "handle" /\ Len(items) < AmqpMinSize)

=============================================================================
