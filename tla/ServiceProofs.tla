----------------------------- MODULE ServiceProofs -----------------------------
(***************************************************************************)
(* Theorems about what runs beside the requests or reaches them from other *)
(* systems: the message queue, delayed work and payments, for any          *)
(* messages, users, purchases, limits and faults.                          *)
(***************************************************************************)
EXTENDS MCServices, SequenceTheorems, FiniteSetTheorems, WellFoundedInduction, TLAPS

-----------------------------------------------------------------------------
(* The message queue: the inductive invariant                              *)

\* join() waits at least for what the worker thread has not published, one
\* item at a time.
TasksCounted ==
    \A p \in Ends : /\ unfinished[p] >= Len(work[p]) + Len(publishing[p])
                    /\ Len(publishing[p]) <= 1

\* Only handle_items fills a batch, and consume_items calls back with a message.
CallbackHasMessage ==
    /\ at = "fill" => job \in {"handle", "drain"}
    /\ job = "consume" /\ at = "callback" => unacked # <<>>

AmqpTyped == AmqpTypeOK /\ TasksCounted /\ CallbackHasMessage

\* The callback of consume_items has the oldest message not acknowledged, a
\* batch of handle_items is all there is, and dedup_queue still has, or has
\* put back, what it has got.
UnackedKnown ==
    /\ job = "none" => unacked = <<>>
    /\ job = "consume" /\ at = "callback" => items = <<Head(unacked)>>
    /\ job \in {"handle", "drain"} => unacked = items /\ (at = "get" => items = <<>>)
    /\ job = "dedup" => /\ at = "get" => Range(unacked) \subseteq bodies
                        /\ Range(unacked) \subseteq bodies \cup Range(queue)

DeliveryInv == UnackedKnown /\ NoMessageLost

\* Until the first basic_get there is no countdown.  After it, a drain has one
\* turn for each message of the backlog, and an empty queue means that it has
\* got them all.
DrainCounts ==
    job = "drain" =>
        /\ at \in {"get", "fill", "callback"}
        /\ taken = 0 => at = "get" /\ countdown = -1 /\ backlog = 0
        /\ taken > 0 =>
              /\ countdown >= 0
              /\ taken + Len(queue) >= backlog
              /\ taken + countdown <= backlog + 1
              /\ at # "fill" /\ countdown # 0 => taken + countdown <= backlog
              /\ \/ taken >= backlog
                 \/ at = "fill" /\ taken + countdown = backlog + 1
                 \/ at # "fill" /\ countdown # 0 /\ taken + countdown >= backlog

AmqpInv == AmqpTyped /\ DeliveryInv /\ DrainCounts

-----------------------------------------------------------------------------
(* Sequences and their elements                                            *)

(***************************************************************************)
(* The messages of a queue that was appended to.                           *)
(***************************************************************************)
LEMMA RangeAppend ==
  ASSUME NEW S, NEW s \in Seq(S), NEW e \in S
  PROVE  Range(Append(s, e)) = Range(s) \cup {e}
  <1>1. Range(<<e>>) = {e}
    BY DEF Range
  <1>2. Append(s, e) = s \o <<e>>
    BY AppendIsConcat
  <1>3. <<e>> \in Seq(S)
    OBVIOUS
  <1>4. \A t \in Seq(S) : Range(s \o t) = Range(s) \cup Range(t)
    BY RangeConcatenation
  <1>5. Range(s \o <<e>>) = Range(s) \cup Range(<<e>>)
    BY <1>3, <1>4, Zenon
  <1>6. QED
    BY <1>1, <1>2, <1>5

(***************************************************************************)
(* The messages of an empty queue, and of one whose first is taken.        *)
(***************************************************************************)
LEMMA RangeFacts ==
  ASSUME NEW S, NEW s \in Seq(S)
  PROVE  /\ Range(<<>>) = {} /\ Range(s) \subseteq S
         /\ s # <<>> => Range(s) # {} /\ Range(s) = {Head(s)} \cup Range(Tail(s))
  <1>1. Range(<<>>) = {}
    BY DEF Range
  <1>2. Range(s) \subseteq S
    BY RangeOfSeq
  <1>3. ASSUME s # <<>>
        PROVE  Range(s) = {Head(s)} \cup Range(Tail(s)) /\ Range(s) # {}
    <2>1. Head(s) \in S /\ Tail(s) \in Seq(S) /\ <<Head(s)>> \in Seq(S)
      BY <1>3
    <2>2. s = <<Head(s)>> \o Tail(s)
      BY <1>3, HeadTailProperties
    <2>3. \A t, u \in Seq(S) : Range(t \o u) = Range(t) \cup Range(u)
      BY RangeConcatenation
    <2>4. Range(<<Head(s)>> \o Tail(s)) = Range(<<Head(s)>>) \cup Range(Tail(s))
      BY <2>1, <2>3, Zenon
    <2>5. Range(<<Head(s)>>) = {Head(s)}
      BY DEF Range
    <2>6. QED
      BY <2>2, <2>4, <2>5
  <1>4. QED
    BY <1>1, <1>2, <1>3

(***************************************************************************)
(* A worker thread that publishes has taken exactly one item.              *)
(***************************************************************************)
LEMMA SingleItem ==
  ASSUME NEW S, NEW s \in Seq(S), s # <<>>, Len(s) <= 1
  PROVE  Head(s) \in S /\ Range(s) = {Head(s)}
  <1>1. Len(s) = 1 /\ Head(s) \in S
    OBVIOUS
  <1>2. Tail(s) = <<>>
    <2>1. Tail(s) \in Seq(S) /\ Len(Tail(s)) = 0
      BY <1>1, HeadTailProperties
    <2>2. QED
      BY <2>1, EmptySeq
  <1>3. Range(s) = {Head(s)} \cup Range(Tail(s)) /\ Range(<<>>) = {}
    BY RangeFacts
  <1>4. QED
    BY <1>1, <1>2, <1>3

-----------------------------------------------------------------------------
(* The type                                                                *)

(***************************************************************************)
(* What a worker thread does keeps the state typed: it has an item to      *)
(* publish only if join() counts one, so task_done never goes below zero.  *)
(***************************************************************************)
LEMMA WorkerTyped ==
  ASSUME AmqpTyped, NEW p \in Ends, WorkerStep(p)
  PROVE  AmqpTyped'
  <1> USE DEF AmqpTyped, TasksCounted, CallbackHasMessage
  <1>a. /\ work[p] \in Seq(Item) /\ publishing[p] \in Seq(Item) /\ unfinished[p] \in Nat
        /\ unfinished[p] >= Len(work[p]) + Len(publishing[p])
    BY DEF AmqpTypeOK
  <1>1. CASE TakeCall(p)
    <2>1. Head(work[p]) \in Item /\ Tail(work[p]) \in Seq(Item)
            /\ Len(Tail(work[p])) = Len(work[p]) - 1 /\ Len(publishing[p]) = 0
      BY <1>a, <1>1 DEF TakeCall
    <2>2. <<Head(work[p])>> \in Seq(Item) /\ Len(<<Head(work[p])>>) = 1
      BY <2>1
    <2>3. QED
      BY <1>a, <1>1, <2>1, <2>2 DEF TakeCall, AmqpTypeOK, loop, amqpBounds
  <1>b. ASSUME publishing[p] # <<>>
        PROVE  /\ Head(publishing[p]) \in Item /\ Len(publishing[p]) >= 1
               /\ unfinished[p] - 1 \in Nat /\ unfinished[p] - 1 >= Len(work[p])
    <2>1. Head(publishing[p]) \in Item /\ Len(publishing[p]) \in Nat /\ Len(publishing[p]) # 0
      BY <1>a, <1>b
    <2>2. Len(work[p]) \in Nat
      BY <1>a
    <2>3. /\ Len(publishing[p]) >= 1
          /\ unfinished[p] - 1 \in Nat /\ unfinished[p] - 1 >= Len(work[p])
      <3>1. \A a, b, c \in Nat : a >= b + c /\ c # 0 => c >= 1 /\ a - 1 \in Nat /\ a - 1 >= b
        OBVIOUS
      <3>2. QED
        BY <1>a, <2>1, <2>2, <3>1
    <2>4. QED
      BY <2>1, <2>3
  <1>c. <<>> \in Seq(Item) /\ Len(<<>>) = 0
    OBVIOUS
  <1>2. CASE Publish(p)
    <2>1. Head(publishing[p]).body \in Bodies
      BY <1>b, <1>2 DEF Publish, Item
    <2>2. queue' \in Seq(Bodies) /\ owed' \subseteq Bodies /\ lost' \subseteq Bodies
      <3> DEFINE b == Head(publishing[p]).body
      <3>1. \/ queue' = Append(queue, b) /\ owed' = owed /\ lost' = lost
            \/ queue' = queue /\ owed' = owed \ {b} /\ lost' = lost
            \/ queue' = queue /\ owed' = owed /\ lost' = lost \cup {b}
        BY <1>2 DEF Publish, Route
      <3>2. b \in Bodies
        BY <2>1
      <3> HIDE DEF b
      <3>3. queue \in Seq(Bodies) /\ owed \subseteq Bodies /\ lost \subseteq Bodies
        BY DEF AmqpTypeOK
      <3>4. Append(queue, b) \in Seq(Bodies)
        BY <3>2, <3>3
      <3>5. QED
        BY <3>1, <3>2, <3>3, <3>4
    <2>3. QED
      BY <1>a, <1>b, <1>c, <1>2, <2>2 DEF Publish, TaskDone, AmqpTypeOK, loop, amqpBounds
  <1>3. CASE Reconnect(p)
    BY <1>3 DEF Reconnect, AmqpTypeOK, loop, amqpBounds
  <1>4. CASE PublishAgain(p)
    <2> DEFINE item == [Head(publishing[p]) EXCEPT !.exchange = "reddit_exchange"]
    <2>1. item \in Item
      BY <1>b, <1>4 DEF PublishAgain, Item, Exchanges
    <2>2. Append(work[p], item) \in Seq(Item) /\ Len(Append(work[p], item)) = Len(work[p]) + 1
      BY <1>a, <2>1
    <2>3. /\ work' = [work EXCEPT ![p] = Append(work[p], item)]
          /\ publishing' = [publishing EXCEPT ![p] = <<>>]
          /\ connected' = [connected EXCEPT ![p] = TRUE]
      BY <1>4 DEF PublishAgain, AmqpTypeOK
    <2> HIDE DEF item
    <2>4. QED
      BY <1>a, <1>b, <1>c, <1>4, <2>2, <2>3, SMTT(30) DEF PublishAgain, AmqpTypeOK, loop, amqpBounds
  <1>5. CASE PublishRaises(p)
    <2>1. Head(publishing[p]).body \in Bodies
      BY <1>b, <1>5 DEF PublishRaises, Item
    <2>2. QED
      BY <1>a, <1>b, <1>c, <1>5, <2>1, SMTT(30) DEF PublishRaises, AmqpTypeOK, loop, amqpBounds
  <1>6. CASE PublishSwallowed(p)
    <2>1. Head(publishing[p]).body \in Bodies
      BY <1>b, <1>6 DEF PublishSwallowed, Item
    <2>2. QED
      BY <1>a, <1>b, <1>c, <1>6, <2>1, SMTT(30)
      DEF PublishSwallowed, TaskDone, AmqpTypeOK, loop, amqpBounds
  <1>7. QED
    BY <1>1, <1>2, <1>3, <1>4, <1>5, <1>6 DEF WorkerStep

(***************************************************************************)
(* A process that ends, by a crash or by a return without join(), leaves   *)
(* its worker's state typed and its tasks counted.                         *)
(***************************************************************************)
LEMMA ExitTyped ==
  ASSUME AmqpTyped, NEW p \in Ends, Exit(p)
  PROVE  /\ work' \in [Ends -> Seq(Item)] /\ publishing' \in [Ends -> Seq(Item)]
         /\ unfinished' \in [Ends -> Nat] /\ TasksCounted'
         /\ connected' \in [Ends -> BOOLEAN] /\ raised' \in [Ends -> BOOLEAN]
         /\ lost' \subseteq Bodies
  <1>1. <<>> \in Seq(Item) /\ Len(<<>>) = 0
    OBVIOUS
  <1>2. AmqpTypeOK /\ TasksCounted
    BY DEF AmqpTyped
  <1>3. /\ work' \in [Ends -> Seq(Item)] /\ publishing' \in [Ends -> Seq(Item)]
        /\ unfinished' \in [Ends -> Nat] /\ TasksCounted'
        /\ connected' \in [Ends -> BOOLEAN] /\ raised' \in [Ends -> BOOLEAN]
    BY <1>1, <1>2 DEF Exit, AmqpTypeOK, TasksCounted
  <1>4. {i.body : i \in Range(work[p]) \cup Range(publishing[p])} \subseteq Bodies
    <2>1. work[p] \in Seq(Item) /\ publishing[p] \in Seq(Item)
      BY <1>2 DEF AmqpTypeOK
    <2>2. Range(work[p]) \subseteq Item /\ Range(publishing[p]) \subseteq Item
      BY <2>1, RangeOfSeq
    <2>3. QED
      BY <2>2 DEF Item
  <1>5. lost' \subseteq Bodies
    BY <1>2, <1>4 DEF Exit, AmqpTypeOK
  <1>6. QED
    BY <1>3, <1>5

(***************************************************************************)
(* The same of a call that returns, whether its script ends with it or     *)
(* goes on.                                                                *)
(***************************************************************************)
LEMMA ReturnTyped ==
  ASSUME AmqpTyped, ReturnUnjoined
  PROVE  /\ work' \in [Ends -> Seq(Item)] /\ publishing' \in [Ends -> Seq(Item)]
         /\ unfinished' \in [Ends -> Nat] /\ TasksCounted'
         /\ connected' \in [Ends -> BOOLEAN] /\ raised' \in [Ends -> BOOLEAN]
         /\ lost' \subseteq Bodies
  <1>1. CASE Exit("consumer")
    BY <1>1, ExitTyped DEF Ends
  <1>2. CASE UNCHANGED <<workers, lost>>
    BY <1>2 DEF workers, AmqpTyped, AmqpTypeOK, TasksCounted
  <1>3. QED
    BY <1>1, <1>2 DEF ReturnUnjoined

(***************************************************************************)
(* What the consumer's foreground thread does keeps the state typed.       *)
(***************************************************************************)
LEMMA ConsumerTyped ==
  ASSUME AmqpTyped, ConsumerStep \/ StopConsuming \/ Rejected
  PROVE  AmqpTyped'
  <1> USE DEF AmqpTyped, TasksCounted, CallbackHasMessage, AmqpTypeOK, workers, amqpBounds, loop,
              Jobs, Places
  <1>a. queue # <<>> => Head(queue) \in Bodies /\ Tail(queue) \in Seq(Bodies)
    OBVIOUS
  <1>b. ASSUME Get, queue # <<>>
        PROVE  queue' \in Seq(Bodies) /\ unacked' \in Seq(Bodies)
    BY <1>a, <1>b DEF Get
  <1>c. ASSUME Requeue
        PROVE  queue' \in Seq(Bodies) /\ unacked' \in Seq(Bodies)
    BY <1>c, ConcatProperties DEF Requeue
  <1>d. <<>> \in Seq(Bodies)
    OBVIOUS
  <1>1. CASE Deliver
    <2>1. queue' \in Seq(Bodies) /\ unacked' \in Seq(Bodies)
      BY <1>1, <1>b DEF Deliver
    <2>2. unacked' # <<>>
      BY <1>1, <1>a DEF Deliver, Get
    <2>3. QED
      BY <1>1, <2>1, <2>2 DEF Deliver
  <1>2. CASE Wait
    <2>1. items' \in Seq(Bodies)
      BY <1>2 DEF Wait
    <2>2. QED
      BY <1>2, <2>1 DEF Wait
  <1>3. CASE Consumed
    <2>1. unacked' \in Seq(Bodies) /\ items' \in Seq(Bodies)
      BY <1>3, <1>d DEF Consumed
    <2>2. owed' \subseteq Bodies
      BY <1>3 DEF Consumed, Settle
    <2>3. QED
      BY <1>3, <2>1, <2>2 DEF Consumed
  <1>4. CASE StopConsuming
    BY <1>4, AmqpAssumption DEF StopConsuming, AmqpFault
  <1>5. CASE Join
    BY <1>5, <1>c DEF Join, Leave
  <1>6. CASE DrainEnds
    BY <1>6, ReturnTyped DEF DrainEnds, Leave
  <1>7. CASE GetFirst
    <2>1. items' \in Seq(Bodies)
      BY <1>7, <1>a DEF GetFirst
    <2>2. queue' \in Seq(Bodies) /\ unacked' \in Seq(Bodies)
      BY <1>7, <1>b DEF GetFirst
    <2>3. countdown' \in Int /\ backlog' \in Nat /\ taken' \in Nat
      BY <1>7 DEF GetFirst, FirstCountdown
    <2>4. QED
      BY <1>7, <2>1, <2>2, <2>3 DEF GetFirst
  <1>8. CASE Fill
    <2>1. countdown' \in Int /\ taken' \in Nat /\ at' \in {"fill", "callback"}
      BY <1>8 DEF Fill
    <2>2. queue' \in Seq(Bodies) /\ unacked' \in Seq(Bodies) /\ items' \in Seq(Bodies)
      <3>1. CASE UNCHANGED <<queue, unacked, items>>
        BY <3>1
      <3>2. CASE queue # <<>> /\ Get /\ items' = Append(items, Head(queue))
        BY <1>a, <1>b, <3>2
      <3>3. QED
        BY <1>8, <3>1, <3>2 DEF Fill
    <2>3. QED
      BY <1>8, <2>1, <2>2 DEF Fill
  <1>9. CASE FillEnds
    BY <1>9 DEF FillEnds
  <1>10. CASE Handled
    <2>1. owed' \subseteq Bodies
      BY <1>10 DEF Handled, Settle
    <2>2. QED
      BY <1>10, <1>d, <2>1 DEF Handled
  <1>11. CASE Rejected
    <2>1. queue' \in Seq(Bodies) /\ unacked' \in Seq(Bodies)
      BY <1>11, <1>c DEF Rejected
    <2>2. amqpFaults' \in 0..MaxAmqpFaults
      BY <1>11, AmqpAssumption DEF Rejected, AmqpFault
    <2>3. QED
      BY <1>11, <2>1, <2>2, ReturnTyped DEF Rejected, Leave
  <1>12. CASE DedupGet
    <2>1. queue' \in Seq(Bodies) /\ unacked' \in Seq(Bodies)
      BY <1>12, <1>b DEF DedupGet
    <2>2. countdown' \in Int /\ taken' \in Nat
      BY <1>12 DEF DedupGet
    <2>3. QED
      BY <1>12, <1>a, <2>1, <2>2 DEF DedupGet
  <1>13. CASE DedupEmpty
    BY <1>13 DEF DedupEmpty, Leave
  <1>14. CASE DedupAck
    BY <1>14, <1>d DEF DedupAck, Leave
  <1>15. ASSUME NEW b \in Bodies, DedupPut(b)
         PROVE  AmqpTyped'
    BY <1>15 DEF DedupPut
  <1>16. QED
    BY <1>1, <1>2, <1>3, <1>4, <1>5, <1>6, <1>7, <1>8, <1>9, <1>10, <1>11, <1>12, <1>13,
       <1>14, <1>15 DEF ConsumerStep

(***************************************************************************)
(* Every step keeps the state typed and the tasks counted.                 *)
(***************************************************************************)
LEMMA AmqpTypedStep == AmqpTyped /\ [AmqpNext]_amqpVars => AmqpTyped'
  <1> SUFFICES ASSUME AmqpTyped, [AmqpNext]_amqpVars
               PROVE  AmqpTyped'
    OBVIOUS
  <1>a. AmqpTypeOK /\ TasksCounted /\ CallbackHasMessage
    BY DEF AmqpTyped
  <1>b. ASSUME NEW p \in Ends, NEW i \in Item,
               work' = [work EXCEPT ![p] = Append(@, i)],
               unfinished' = [unfinished EXCEPT ![p] = @ + 1], publishing' = publishing
        PROVE  work' \in [Ends -> Seq(Item)] /\ unfinished' \in [Ends -> Nat] /\ TasksCounted'
    <2>1. Append(work[p], i) \in Seq(Item) /\ Len(Append(work[p], i)) = Len(work[p]) + 1
      BY <1>a DEF AmqpTypeOK
    <2>2. \A q \in Ends :
             Len(work[q]) \in Nat /\ Len(publishing[q]) \in Nat /\ unfinished[q] \in Nat
      BY <1>a DEF AmqpTypeOK
    <2>3. QED
      BY <1>a, <1>b, <2>1, <2>2 DEF AmqpTypeOK, TasksCounted
  <1>1. ASSUME NEW p \in Ends, NEW b \in Bodies, AddItem(p, b)
        PROVE  AmqpTyped'
    <2>1. PICK x \in Exchanges :
             work' = [work EXCEPT ![p] = Append(@, [body |-> b, exchange |-> x])]
      BY <1>1 DEF AddItem, Exchanges
    <2>2. [body |-> b, exchange |-> x] \in Item
      BY DEF Item
    <2>3. work' \in [Ends -> Seq(Item)] /\ unfinished' \in [Ends -> Nat] /\ TasksCounted'
      BY <1>b, <1>1, <2>1, <2>2 DEF AddItem
    <2>4. adds' \in 0..MaxAdds
      BY <1>a, <1>1, AmqpAssumption DEF AddItem, AmqpTypeOK
    <2>5. QED
      BY <1>a, <1>1, <2>3, <2>4
      DEF AddItem, AmqpTyped, AmqpTypeOK, CallbackHasMessage, loop
  <1>2. ASSUME NEW p \in Ends, WorkerStep(p)
        PROVE  AmqpTyped'
    BY <1>2, WorkerTyped
  <1>3. ASSUME NEW p \in Ends, Disconnect(p)
        PROVE  AmqpTyped'
    BY <1>a, <1>3, AmqpAssumption
    DEF Disconnect, AmqpFault, AmqpTyped, AmqpTypeOK, TasksCounted, CallbackHasMessage, loop
  <1>4. ASSUME NEW p \in Ends, Die(p)
        PROVE  AmqpTyped'
    <2>1. <<>> \in Seq(Bodies)
      OBVIOUS
    <2>2. /\ work' \in [Ends -> Seq(Item)] /\ publishing' \in [Ends -> Seq(Item)]
          /\ unfinished' \in [Ends -> Nat] /\ TasksCounted'
          /\ connected' \in [Ends -> BOOLEAN] /\ raised' \in [Ends -> BOOLEAN]
          /\ lost' \subseteq Bodies
      BY <1>4, ExitTyped DEF Die
    <2>4. amqpFaults' \in 0..MaxAmqpFaults
      BY <1>a, <1>4, AmqpAssumption DEF Die, AmqpFault, AmqpTypeOK
    <2>5. CASE p = "consumer"
      <3>1. queue' \in Seq(Bodies) /\ unacked' \in Seq(Bodies)
        <4>1. queue \in Seq(Bodies) /\ unacked \in Seq(Bodies)
          BY <1>a DEF AmqpTypeOK
        <4>2. unacked \o queue \in Seq(Bodies)
          BY <4>1, ConcatProperties
        <4>3. QED
          BY <1>4, <2>1, <2>5, <4>2 DEF Die, Requeue
      <3>2. job' = "none" /\ at' = "out"
        BY <1>4, <2>5 DEF Die, Leave
      <3>3. QED
        BY <1>a, <1>4, <2>2, <2>4, <3>1, <3>2
        DEF Die, AmqpTyped, AmqpTypeOK, CallbackHasMessage, loop, Jobs, Places
    <2>6. CASE p # "consumer"
      BY <1>a, <1>4, <2>2, <2>4, <2>6
      DEF Die, AmqpTyped, AmqpTypeOK, CallbackHasMessage, loop
    <2>7. QED
      BY <2>5, <2>6
  <1>5. ASSUME NEW j \in Jobs \ {"none"}, Start(j)
        PROVE  AmqpTyped'
    <2>1. jobs' \in 0..MaxJobs
      BY <1>a, <1>5, AmqpAssumption DEF Start, AmqpTypeOK
    <2>2. items' \in Seq(Bodies)
      BY <1>5 DEF Start
    <2>3. QED
      BY <1>a, <1>5, <2>1, <2>2
      DEF Start, AmqpTyped, AmqpTypeOK, TasksCounted, CallbackHasMessage, workers, Places
  <1>6. ASSUME ConsumerStep \/ StopConsuming \/ Rejected
        PROVE  AmqpTyped'
    BY <1>6, ConsumerTyped
  <1>7. ASSUME NEW b \in Bodies, DedupPutAgain(b)
        PROVE  AmqpTyped'
    <2>1. [body |-> b, exchange |-> "reddit_exchange"] \in Item /\ "consumer" \in Ends
      BY DEF Item, Exchanges, Ends
    <2>2. work' \in [Ends -> Seq(Item)] /\ unfinished' \in [Ends -> Nat] /\ TasksCounted'
      BY <1>b, <1>7, <2>1 DEF DedupPutAgain
    <2>3. queue' \in Seq(Bodies) /\ unacked' \in Seq(Bodies)
      BY <1>a, <1>7, ConcatProperties DEF DedupPutAgain, Requeue, AmqpTypeOK
    <2>4. amqpFaults' \in 0..MaxAmqpFaults
      BY <1>a, <1>7, AmqpAssumption DEF DedupPutAgain, AmqpFault, AmqpTypeOK
    <2>5. QED
      BY <1>a, <1>7, <2>2, <2>3, <2>4
      DEF DedupPutAgain, AmqpTyped, AmqpTypeOK, CallbackHasMessage
  <1>8. CASE UNCHANGED amqpVars
    BY <1>a, <1>8 DEF amqpVars, workers, loop, amqpBounds, AmqpTyped, AmqpTypeOK,
                      TasksCounted, CallbackHasMessage
  <1>9. QED
    BY <1>1, <1>2, <1>3, <1>4, <1>5, <1>6, <1>7, <1>8 DEF AmqpNext

-----------------------------------------------------------------------------
(* Messages                                                                *)

\* What p's worker thread still has to publish.
Unpublished(p) == {i.body : i \in Range(work[p]) \cup Range(publishing[p])}

(***************************************************************************)
(* A body is under way in the broker's queue, unacknowledged, or with one  *)
(* of the worker threads.                                                  *)
(***************************************************************************)
LEMMA UnderwayIs ==
    Underway = Range(queue) \cup Range(unacked) \cup Unpublished("app") \cup Unpublished("consumer")
  BY DEF Underway, Unpublished, Ends

(***************************************************************************)
(* A worker thread takes a call, publishes it, tries again or drops it:    *)
(* its body stays with the thread, gets into the queue or is lost.         *)
(***************************************************************************)
LEMMA WorkerKeepsMessages ==
  ASSUME AmqpTyped, NoMessageLost, NEW p \in Ends, WorkerStep(p)
  PROVE  NoMessageLost' /\ Range(queue) \subseteq Range(queue')
  <1>a. /\ work \in [Ends -> Seq(Item)] /\ publishing \in [Ends -> Seq(Item)]
        /\ queue \in Seq(Bodies)
    BY DEF AmqpTyped, AmqpTypeOK
  <1>b. \A q \in Ends : work[q] \in Seq(Item) /\ publishing[q] \in Seq(Item)
    BY <1>a
  <1>c. ASSUME publishing[p] # <<>>
        PROVE  Head(publishing[p]) \in Item /\ Range(publishing[p]) = {Head(publishing[p])}
    BY <1>b, <1>c, SingleItem DEF AmqpTyped, TasksCounted
  <1>d. Range(<<>>) = {}
    BY DEF Range
  <1>e. ASSUME NEW q \in Ends, work'[q] = work[q], publishing'[q] = publishing[q]
        PROVE  Unpublished(q)' = Unpublished(q)
    BY <1>e DEF Unpublished
  <1>1. CASE TakeCall(p)
    <2>1. Range(work[p]) = {Head(work[p])} \cup Range(Tail(work[p])) /\ Head(work[p]) \in Item
      BY <1>b, <1>1, RangeFacts DEF TakeCall
    <2>2. Range(<<Head(work[p])>>) = {Head(work[p])}
      BY DEF Range
    <2>3. work'[p] = Tail(work[p]) /\ publishing'[p] = <<Head(work[p])>> /\ publishing[p] = <<>>
      BY <1>a, <1>1 DEF TakeCall
    <2>4. Unpublished(p)' = Unpublished(p)
      BY <1>d, <2>1, <2>2, <2>3 DEF Unpublished
    <2>5. \A q \in Ends : Unpublished(q)' = Unpublished(q)
      BY <1>a, <1>e, <1>1, <2>4 DEF TakeCall
    <2>6. UNCHANGED <<queue, unacked, owed, lost>>
      BY <1>1 DEF TakeCall
    <2>7. QED
      BY <2>5, <2>6, UnderwayIs DEF NoMessageLost, Underway, Unpublished
  <1>f. ASSUME publishing[p] # <<>>, publishing' = [publishing EXCEPT ![p] = <<>>],
               \A q \in Ends : Range(work[q]) \subseteq Range(work'[q]),
               Range(queue) \subseteq Range(queue'), unacked' = unacked,
               owed' \subseteq owed, lost \subseteq lost',
               \/ Head(publishing[p]).body \in Underway' \cup lost'
               \/ Head(publishing[p]).body \notin owed'
        PROVE  NoMessageLost'
    <2>1. \A q \in Ends \ {p} : Unpublished(q) \subseteq Unpublished(q)'
      BY <1>a, <1>f DEF Unpublished
    <2>2. Unpublished(p) \subseteq Unpublished(p)' \cup {Head(publishing[p]).body}
      BY <1>c, <1>f DEF Unpublished
    <2>3. Underway' = Range(queue') \cup Range(unacked') \cup Unpublished("app")'
                        \cup Unpublished("consumer")'
      BY DEF Underway, Unpublished, Ends
    <2>4. Underway \subseteq Underway' \cup {Head(publishing[p]).body}
      BY <1>f, <2>1, <2>2, <2>3, UnderwayIs DEF Ends
    <2>5. QED
      BY <1>f, <2>4 DEF NoMessageLost
  <1>2. CASE Publish(p)
    <2> DEFINE b == Head(publishing[p]).body
    <2>1. b \in Bodies
      BY <1>c, <1>2 DEF Publish, Item
    <2>2. \/ queue' = Append(queue, b) /\ owed' = owed /\ lost' = lost
          \/ queue' = queue /\ owed' = owed \ {b} /\ lost' = lost
          \/ queue' = queue /\ owed' = owed /\ lost' = lost \cup {b}
      BY <1>2 DEF Publish, Route
    <2>3. Range(Append(queue, b)) = Range(queue) \cup {b}
      BY <1>a, <2>1, RangeAppend
    <2>4. b \in Range(queue') => b \in Underway'
      BY DEF Underway
    <2> HIDE DEF b
    <2>5. Range(queue) \subseteq Range(queue') /\ owed' \subseteq owed /\ lost \subseteq lost'
      BY <2>2, <2>3
    <2>6. b \in Underway' \cup lost' \/ b \notin owed'
      BY <2>2, <2>3, <2>4
    <2>7. /\ publishing[p] # <<>> /\ publishing' = [publishing EXCEPT ![p] = <<>>]
          /\ work' = work /\ unacked' = unacked
      BY <1>2 DEF Publish
    <2>8. QED
      BY <1>f, <2>5, <2>6, <2>7 DEF b
  <1>3. CASE Reconnect(p)
    <2>1. UNCHANGED <<work, publishing, queue, unacked, owed, lost>>
      BY <1>3 DEF Reconnect
    <2>2. QED
      BY <2>1 DEF NoMessageLost, Underway
  <1>4. CASE PublishAgain(p)
    <2> DEFINE item == [Head(publishing[p]) EXCEPT !.exchange = "reddit_exchange"]
    <2>1. publishing[p] # <<>>
      BY <1>4 DEF PublishAgain
    <2>2. item \in Item /\ item.body = Head(publishing[p]).body
      BY <1>c, <2>1 DEF Item, Exchanges
    <2>3. work' = [work EXCEPT ![p] = Append(work[p], item)]
      BY <1>4 DEF PublishAgain
    <2> HIDE DEF item
    <2>4. work'[p] = Append(work[p], item) /\ \A q \in Ends \ {p} : work'[q] = work[q]
      BY <1>a, <2>3
    <2>5. Range(Append(work[p], item)) = Range(work[p]) \cup {item}
      BY <1>b, <2>2, RangeAppend
    <2>6. Head(publishing[p]).body \in Underway'
      <3>1. item \in Range(work'[p])
        BY <2>4, <2>5
      <3>2. item.body \in Underway'
        BY <3>1 DEF Underway
      <3>3. QED
        BY <2>2, <3>2
    <2>7. \A q \in Ends : Range(work[q]) \subseteq Range(work'[q])
      BY <2>4, <2>5
    <2>8. /\ publishing' = [publishing EXCEPT ![p] = <<>>]
          /\ UNCHANGED <<queue, unacked, owed, lost>>
      BY <1>4 DEF PublishAgain
    <2>9. QED
      BY <1>f, <2>1, <2>6, <2>7, <2>8
  <1>5. CASE PublishRaises(p) \/ PublishSwallowed(p)
    <2>1. /\ publishing[p] # <<>> /\ publishing' = [publishing EXCEPT ![p] = <<>>]
          /\ lost' = lost \cup {Head(publishing[p]).body}
          /\ UNCHANGED <<work, queue, unacked, owed>>
      BY <1>5 DEF PublishRaises, PublishSwallowed
    <2>2. QED
      BY <1>f, <2>1
  <1>6. QED
    BY <1>1, <1>2, <1>3, <1>4, <1>5 DEF WorkerStep

(***************************************************************************)
(* What the consumer does with the queue: it gets the first message, or    *)
(* the broker takes back what was not acknowledged.  Either way everything *)
(* stays on its way.                                                       *)
(***************************************************************************)
LEMMA BrokerKeepsMessages ==
  ASSUME AmqpTyped, (Get /\ queue # <<>>) \/ Requeue
  PROVE  Range(queue) \cup Range(unacked) = Range(queue') \cup Range(unacked')
  <1>1. queue \in Seq(Bodies) /\ unacked \in Seq(Bodies)
    BY DEF AmqpTyped, AmqpTypeOK
  <1>2. CASE Get /\ queue # <<>>
    <2>1. Head(queue) \in Bodies /\ Range(queue) = {Head(queue)} \cup Range(Tail(queue))
      BY <1>1, <1>2, RangeFacts
    <2>2. Range(Append(unacked, Head(queue))) = Range(unacked) \cup {Head(queue)}
      BY <1>1, <2>1, RangeAppend
    <2>3. QED
      BY <1>2, <2>1, <2>2 DEF Get
  <1>3. CASE Requeue
    <2>1. Range(unacked \o queue) = Range(unacked) \cup Range(queue) /\ Range(<<>>) = {}
      BY <1>1, RangeConcatenation, RangeFacts
    <2>2. QED
      BY <1>3, <2>1 DEF Requeue
  <1>4. QED
    BY <1>2, <1>3

(***************************************************************************)
(* A process that ends counts what its worker had not published as lost,   *)
(* and takes nothing else off its way.                                     *)
(***************************************************************************)
LEMMA ExitKeepsMessages ==
  ASSUME AmqpTyped, NoMessageLost, NEW p \in Ends, Exit(p), owed' = owed,
         Range(queue) \cup Range(unacked) = Range(queue') \cup Range(unacked')
  PROVE  NoMessageLost'
  <1>1. lost' = lost \cup Unpublished(p)
    BY DEF Exit, Unpublished
  <1>2. \A q \in Ends \ {p} : work'[q] = work[q] /\ publishing'[q] = publishing[q]
    BY DEF Exit, AmqpTyped, AmqpTypeOK
  <1>3. \A q \in Ends \ {p} : Unpublished(q)' = Unpublished(q)
    BY <1>2 DEF Unpublished
  <1>4. Underway' = Range(queue') \cup Range(unacked') \cup Unpublished("app")'
                      \cup Unpublished("consumer")'
    BY DEF Underway, Unpublished, Ends
  <1>5. Underway \subseteq Underway' \cup Unpublished(p)
    BY <1>3, <1>4, UnderwayIs DEF Ends
  <1>6. QED
    BY <1>1, <1>5 DEF NoMessageLost

(***************************************************************************)
(* So it is with a call that returns.                                      *)
(***************************************************************************)
LEMMA ReturnKeepsMessages ==
  ASSUME AmqpTyped, NoMessageLost, ReturnUnjoined, owed' = owed,
         Range(queue) \cup Range(unacked) = Range(queue') \cup Range(unacked')
  PROVE  NoMessageLost'
  <1>1. CASE Exit("consumer")
    BY <1>1, ExitKeepsMessages DEF Ends
  <1>2. CASE UNCHANGED <<workers, lost>>
    BY <1>2 DEF workers, NoMessageLost, Underway
  <1>3. QED
    BY <1>1, <1>2 DEF ReturnUnjoined

(***************************************************************************)
(* consume_items, handle_items and dedup_queue acknowledge only what they  *)
(* have handled or put back.                                               *)
(***************************************************************************)
LEMMA ConsumerKeepsMessages ==
  ASSUME AmqpTyped, DeliveryInv, ConsumerStep \/ StopConsuming \/ Rejected
  PROVE  DeliveryInv'
  <1>a. /\ queue \in Seq(Bodies) /\ unacked \in Seq(Bodies) /\ items \in Seq(Bodies)
        /\ bodies \subseteq Bodies /\ (job = "none") = (at = "out")
        /\ at = "fill" => job \in {"handle", "drain"}
        /\ job = "consume" /\ at = "callback" => unacked # <<>>
    BY DEF AmqpTyped, AmqpTypeOK, CallbackHasMessage
  <1>b. UnackedKnown /\ NoMessageLost
    BY DEF DeliveryInv
  <1>d. ASSUME owed' \subseteq owed, lost' = lost, workers' = workers,
               \A b \in owed' : b \in Range(queue) \cup Range(unacked)
                                  => b \in Range(queue') \cup Range(unacked')
        PROVE  NoMessageLost'
    BY <1>d DEF DeliveryInv, NoMessageLost, Underway, workers
  <1>e. ASSUME owed' = owed, lost' = lost, workers' = workers, (Get /\ queue # <<>>) \/ Requeue
        PROVE  NoMessageLost'
    BY <1>d, <1>e, BrokerKeepsMessages
  <1>f. ASSUME UNCHANGED <<queue, unacked, owed, lost, workers>>
        PROVE  NoMessageLost'
    BY <1>d, <1>f
  <1>g. Range(<<>>) = {} /\ (unacked # <<>> => Range(unacked) # {})
          /\ (unacked # <<>> => Range(unacked) = {Head(unacked)} \cup Range(Tail(unacked)))
    BY <1>a, RangeFacts
  <1>h. queue # <<>> => Head(queue) \in Bodies
    BY <1>a
  <1>1. CASE Deliver
    <2>1. unacked # <<>> => Head(unacked') = Head(unacked)
      BY <1>1, <1>a, <1>h, HeadTailAppend DEF Deliver, Get
    <2>2. UnackedKnown'
      BY <1>1, <1>a, <1>b, <2>1 DEF Deliver, UnackedKnown, loop
    <2>3. QED
      BY <1>1, <1>e, <2>2 DEF Deliver, DeliveryInv
  <1>2. CASE Wait
    BY <1>2, <1>f, <1>b DEF Wait, DeliveryInv, UnackedKnown
  <1>3. CASE Consumed
    <2>1. items = <<Head(unacked)>> /\ unacked # <<>>
      BY <1>3, <1>a, <1>b DEF Consumed, UnackedKnown
    <2>2. Range(items) = {Head(unacked)}
      BY <2>1 DEF Range
    <2>3. Range(unacked) = {Head(unacked)} \cup Range(unacked')
      BY <1>3, <1>g, <2>1 DEF Consumed
    <2>4. owed' = owed \ {Head(unacked)} /\ UNCHANGED <<queue, lost>>
      BY <1>3, <2>2 DEF Consumed, Settle
    <2>5. NoMessageLost'
      BY <1>3, <1>d, <2>3, <2>4 DEF Consumed
    <2>6. QED
      BY <1>3, <2>5 DEF Consumed, DeliveryInv, UnackedKnown
  <1>4. CASE StopConsuming
    BY <1>4, <1>f DEF StopConsuming, DeliveryInv, UnackedKnown
  <1>5. CASE Join
    BY <1>5, <1>e DEF Join, Requeue, Leave, DeliveryInv, UnackedKnown
  <1>6. CASE DrainEnds
    <2>1. NoMessageLost'
      BY <1>6, <1>b, ReturnKeepsMessages DEF DrainEnds
    <2>2. QED
      BY <1>6, <1>b, <2>1 DEF DrainEnds, Leave, DeliveryInv, UnackedKnown
  <1>7. CASE GetFirst
    <2>1. unacked = <<>>
      BY <1>7, <1>b DEF GetFirst, UnackedKnown
    <2>2. unacked' = items'
      BY <1>7, <2>1 DEF GetFirst, Get
    <2>3. UnackedKnown'
      BY <1>7, <2>2 DEF GetFirst, UnackedKnown
    <2>4. QED
      BY <1>7, <1>e, <2>3 DEF GetFirst, DeliveryInv
  <1>8. CASE Fill
    <2>1. unacked = items /\ job \in {"handle", "drain"} /\ job' = job /\ at' # "get"
      BY <1>8, <1>b DEF Fill, UnackedKnown
    <2>2. unacked' = items'
      BY <1>8, <2>1 DEF Fill, Get
    <2>3. UnackedKnown'
      BY <2>1, <2>2 DEF UnackedKnown
    <2>4. CASE Get /\ queue # <<>>
      BY <1>8, <1>e, <2>3, <2>4 DEF Fill, DeliveryInv
    <2>5. CASE UNCHANGED <<queue, unacked>>
      BY <1>8, <1>f, <2>3, <2>5 DEF Fill, DeliveryInv
    <2>6. QED
      BY <1>8, <2>4, <2>5 DEF Fill
  <1>9. CASE FillEnds
    BY <1>9, <1>a, <1>b, <1>f DEF FillEnds, DeliveryInv, UnackedKnown, loop
  <1>10. CASE Handled
    <2>1. unacked = items
      BY <1>10, <1>b DEF Handled, UnackedKnown
    <2>2. owed' = owed \ Range(unacked) /\ UNCHANGED <<queue, lost>>
      BY <1>10, <2>1 DEF Handled, Settle
    <2>3. NoMessageLost'
      BY <1>10, <1>d, <2>2 DEF Handled
    <2>4. QED
      BY <1>10, <2>3 DEF Handled, DeliveryInv, UnackedKnown
  <1>11. CASE Rejected
    <2>1. NoMessageLost'
      BY <1>11, <1>b, BrokerKeepsMessages, ReturnKeepsMessages DEF Rejected
    <2>2. QED
      BY <1>11, <2>1 DEF Rejected, Requeue, Leave, DeliveryInv, UnackedKnown
  <1>12. CASE DedupGet
    <2>1. Range(unacked') = Range(unacked) \cup {Head(queue)}
      BY <1>12, <1>a, <1>h, RangeAppend DEF DedupGet, Get
    <2>2. UnackedKnown'
      BY <1>12, <1>b, <2>1 DEF DedupGet, UnackedKnown
    <2>3. QED
      BY <1>12, <1>e, <2>2 DEF DedupGet, DeliveryInv
  <1>13. CASE DedupEmpty
    <2>1. bodies = {} => unacked = <<>>
      BY <1>13, <1>b, <1>g DEF DedupEmpty, UnackedKnown
    <2>2. UnackedKnown'
      BY <1>13, <1>b, <2>1 DEF DedupEmpty, Leave, UnackedKnown, loop
    <2>3. QED
      BY <1>13, <1>f, <2>2 DEF DedupEmpty, DeliveryInv
  <1>14. CASE DedupAck
    <2>1. Range(unacked) \subseteq Range(queue)
      BY <1>14, <1>b DEF DedupAck, UnackedKnown
    <2>2. NoMessageLost'
      BY <1>14, <1>d, <2>1 DEF DedupAck
    <2>3. QED
      BY <1>14, <2>2 DEF DedupAck, Leave, DeliveryInv, UnackedKnown
  <1>15. ASSUME NEW b \in Bodies, DedupPut(b)
         PROVE  DeliveryInv'
    <2>1. Range(queue') = Range(queue) \cup {b}
      BY <1>15, <1>a, RangeAppend DEF DedupPut
    <2>2. UnackedKnown'
      BY <1>15, <1>b, <2>1 DEF DedupPut, UnackedKnown
    <2>3. NoMessageLost'
      BY <1>15, <1>d, <2>1 DEF DedupPut
    <2>4. QED
      BY <2>2, <2>3 DEF DeliveryInv
  <1>16. QED
    BY <1>1, <1>2, <1>3, <1>4, <1>5, <1>6, <1>7, <1>8, <1>9, <1>10, <1>11, <1>12, <1>13,
       <1>14, <1>15 DEF ConsumerStep

(***************************************************************************)
(* Every step keeps what is owed on its way, and known to the job that has *)
(* it.                                                                     *)
(***************************************************************************)
LEMMA DeliveryStep == AmqpTyped /\ DeliveryInv /\ [AmqpNext]_amqpVars => DeliveryInv'
  <1> SUFFICES ASSUME AmqpTyped, DeliveryInv, [AmqpNext]_amqpVars
               PROVE  DeliveryInv'
    OBVIOUS
  <1>a. /\ queue \in Seq(Bodies) /\ unacked \in Seq(Bodies)
        /\ work \in [Ends -> Seq(Item)] /\ publishing \in [Ends -> Seq(Item)]
        /\ (job = "none") = (at = "out")
    BY DEF AmqpTyped, AmqpTypeOK
  <1>b. UnackedKnown /\ NoMessageLost
    BY DEF DeliveryInv
  <1>c. ASSUME NEW p \in Ends, NEW i \in Item, work' = [work EXCEPT ![p] = Append(@, i)]
        PROVE  /\ work'[p] = Append(work[p], i) /\ Range(work'[p]) = Range(work[p]) \cup {i}
               /\ \A q \in Ends : Range(work[q]) \subseteq Range(work'[q])
    <2>1. work[p] \in Seq(Item)
      BY <1>a
    <2>2. Range(Append(work[p], i)) = Range(work[p]) \cup {i}
      BY <2>1, RangeAppend
    <2>3. QED
      BY <1>a, <1>c, <2>2
  <1>1. ASSUME NEW p \in Ends, NEW b \in Bodies, AddItem(p, b)
        PROVE  DeliveryInv'
    <2>1. PICK x \in Exchanges :
             work' = [work EXCEPT ![p] = Append(@, [body |-> b, exchange |-> x])]
      BY <1>1 DEF AddItem, Exchanges
    <2> DEFINE item == [body |-> b, exchange |-> x]
    <2>2. /\ item \in Item /\ item.body = b
          /\ work' = [work EXCEPT ![p] = Append(@, item)]
      BY <2>1 DEF Item
    <2> HIDE DEF item
    <2>3. item \in Range(work'[p]) /\ \A q \in Ends : Range(work[q]) \subseteq Range(work'[q])
      <3>1. Range(work'[p]) = Range(work[p]) \cup {item}
              /\ \A q \in Ends : Range(work[q]) \subseteq Range(work'[q])
        BY <1>c, <2>2, Zenon
      <3>2. QED
        BY <3>1
    <2>4. UNCHANGED <<publishing, queue, unacked, job, at, loop>>
      BY <1>1 DEF AddItem
    <2>5. Underway \subseteq Underway'
      BY <2>3, <2>4 DEF Underway
    <2>6. item.body \in Underway'
      BY <2>3 DEF Underway
    <2>7. owed' = owed \cup {b} /\ lost' = lost \ {b}
      BY <1>1 DEF AddItem
    <2>8. NoMessageLost'
      BY <1>b, <2>2, <2>5, <2>6, <2>7 DEF NoMessageLost
    <2>9. QED
      BY <1>b, <2>4, <2>8 DEF DeliveryInv, UnackedKnown, loop
  <1>2. ASSUME NEW p \in Ends, WorkerStep(p)
        PROVE  DeliveryInv'
    <2>1. NoMessageLost' /\ Range(queue) \subseteq Range(queue')
      BY <1>b, <1>2, WorkerKeepsMessages
    <2>2. UNCHANGED <<unacked, job, at, loop>>
      BY <1>2 DEF WorkerStep, TakeCall, Publish, Reconnect, PublishAgain, PublishRaises,
                  PublishSwallowed
    <2>3. QED
      BY <1>b, <2>1, <2>2 DEF DeliveryInv, UnackedKnown, loop
  <1>3. ASSUME NEW p \in Ends, Disconnect(p)
        PROVE  DeliveryInv'
    BY <1>b, <1>3 DEF Disconnect, DeliveryInv, UnackedKnown, NoMessageLost, Underway, loop
  <1>4. ASSUME NEW p \in Ends, Die(p)
        PROVE  DeliveryInv'
    <2>1. Range(queue) \cup Range(unacked) = Range(queue') \cup Range(unacked')
      BY <1>4, BrokerKeepsMessages DEF Die
    <2>2. NoMessageLost'
      BY <1>b, <1>4, <2>1, ExitKeepsMessages DEF Die
    <2>3. UnackedKnown'
      BY <1>b, <1>4 DEF Die, Requeue, Leave, UnackedKnown, loop
    <2>4. QED
      BY <2>2, <2>3 DEF DeliveryInv
  <1>5. ASSUME NEW j \in Jobs \ {"none"}, Start(j)
        PROVE  DeliveryInv'
    <2>1. unacked = <<>> /\ Range(<<>>) = {}
      BY <1>b, <1>5 DEF Start, UnackedKnown, Range
    <2>2. UnackedKnown'
      BY <1>5, <2>1 DEF Start, UnackedKnown
    <2>3. NoMessageLost'
      BY <1>b, <1>5 DEF Start, NoMessageLost, Underway, workers
    <2>4. QED
      BY <2>2, <2>3 DEF DeliveryInv
  <1>6. ASSUME ConsumerStep \/ StopConsuming \/ Rejected
        PROVE  DeliveryInv'
    BY <1>6, ConsumerKeepsMessages
  <1>7. ASSUME NEW b \in Bodies, DedupPutAgain(b)
        PROVE  DeliveryInv'
    <2>1. [body |-> b, exchange |-> "reddit_exchange"] \in Item /\ "consumer" \in Ends
      BY DEF Item, Exchanges, Ends
    <2>2. \A q \in Ends : Range(work[q]) \subseteq Range(work'[q])
      BY <1>c, <1>7, <2>1 DEF DedupPutAgain
    <2>3. Range(queue) \cup Range(unacked) = Range(queue') \cup Range(unacked')
      BY <1>7, BrokerKeepsMessages DEF DedupPutAgain
    <2>4. UNCHANGED <<publishing, owed, lost, job, at>>
      BY <1>7 DEF DedupPutAgain
    <2>5. NoMessageLost'
      BY <1>b, <2>2, <2>3, <2>4 DEF NoMessageLost, Underway
    <2>6. unacked' = <<>> /\ Range(<<>>) = {} /\ job = "dedup"
      BY <1>7 DEF DedupPutAgain, Requeue, Range
    <2>7. QED
      BY <2>4, <2>5, <2>6 DEF DeliveryInv, UnackedKnown
  <1>8. CASE UNCHANGED amqpVars
    BY <1>b, <1>8 DEF amqpVars, workers, loop, DeliveryInv, UnackedKnown, NoMessageLost,
                      Underway
  <1>9. QED
    BY <1>1, <1>2, <1>3, <1>4, <1>5, <1>6, <1>7, <1>8 DEF AmqpNext

-----------------------------------------------------------------------------
(* Drains                                                                  *)

(***************************************************************************)
(* Every turn of a drain's loops counts down or takes a message, in turns  *)
(* that never let the count get ahead of the backlog or fall behind it by  *)
(* more than one; producers only make the queue longer.                    *)
(***************************************************************************)
LEMMA DrainStep == AmqpTyped /\ DrainCounts /\ [AmqpNext]_amqpVars => DrainCounts'
  <1> SUFFICES ASSUME AmqpTyped, DrainCounts, [AmqpNext]_amqpVars
               PROVE  DrainCounts'
    OBVIOUS
  <1>a. /\ queue \in Seq(Bodies) /\ Len(queue) \in Nat /\ countdown \in Int
        /\ backlog \in Nat /\ taken \in Nat
        /\ queue # <<>> => Len(Tail(queue)) = Len(queue) - 1 /\ Len(queue) > 0
        /\ queue = <<>> => Len(queue) = 0
        /\ at = "fill" => job \in {"handle", "drain"}
    BY DEF AmqpTyped, AmqpTypeOK, CallbackHasMessage
  <1>b. AmqpTyped'
    BY AmqpTypedStep
  <1>c. Len(queue') \in Nat
    BY <1>b DEF AmqpTyped, AmqpTypeOK
  <1>d. ASSUME Len(queue') >= Len(queue), UNCHANGED <<job, at, loop>>
        PROVE  DrainCounts'
    BY <1>a, <1>c, <1>d DEF DrainCounts, loop
  <1>e. ASSUME job' # "drain"
        PROVE  DrainCounts'
    BY <1>e DEF DrainCounts
  <1>1. ASSUME NEW p \in Ends, NEW b \in Bodies, AddItem(p, b)
        PROVE  DrainCounts'
    BY <1>1, <1>a, <1>d DEF AddItem
  <1>2. ASSUME NEW p \in Ends, WorkerStep(p)
        PROVE  DrainCounts'
    <2>1. UNCHANGED <<job, at, loop>>
      BY <1>2 DEF WorkerStep, TakeCall, Publish, Reconnect, PublishAgain, PublishRaises,
                  PublishSwallowed
    <2>2. queue' = queue \/ \E b : queue' = Append(queue, b)
      BY <1>2 DEF WorkerStep, TakeCall, Publish, Route, Reconnect, PublishAgain, PublishRaises,
                  PublishSwallowed
    <2>3. Len(queue') >= Len(queue)
      BY <1>a, <2>2
    <2>4. QED
      BY <1>d, <2>1, <2>3
  <1>3. ASSUME NEW p \in Ends, Disconnect(p)
        PROVE  DrainCounts'
    BY <1>3, <1>a, <1>d DEF Disconnect
  <1>4. ASSUME NEW p \in Ends, Die(p)
        PROVE  DrainCounts'
    <2>1. CASE p = "consumer"
      BY <1>4, <1>e, <2>1 DEF Die, Leave
    <2>2. CASE p # "consumer"
      BY <1>4, <1>a, <1>d, <2>2 DEF Die
    <2>3. QED
      BY <2>1, <2>2
  <1>5. ASSUME NEW j \in Jobs \ {"none"}, Start(j)
        PROVE  DrainCounts'
    BY <1>5 DEF Start, DrainCounts
  <1>6. CASE Deliver \/ Wait \/ Consumed \/ StopConsuming \/ Join
    BY <1>6, <1>e DEF Deliver, Wait, Consumed, StopConsuming, Join, Leave
  <1>7. CASE DedupGet \/ DedupEmpty \/ DedupAck
    BY <1>7, <1>e DEF DedupGet, DedupEmpty, DedupAck, Leave
  <1>8. ASSUME NEW b \in Bodies, DedupPut(b) \/ DedupPutAgain(b)
        PROVE  DrainCounts'
    BY <1>8, <1>e DEF DedupPut, DedupPutAgain
  <1>9. CASE DrainEnds \/ Rejected
    BY <1>9, <1>e DEF DrainEnds, Rejected, Leave
  <1>10. CASE GetFirst
    <2>1. CASE job # "drain"
      BY <1>10, <1>e, <2>1 DEF GetFirst
    <2>2. CASE job = "drain" /\ taken = 0
      <3>1. /\ taken' = 1 /\ countdown' = Len(queue) /\ backlog' = Len(queue)
            /\ at' = "fill" /\ Len(queue') = Len(queue) - 1 /\ Len(queue) > 0
        BY <1>10, <1>a, <2>2 DEF GetFirst, Get, FirstCountdown, DrainCounts
      <3>2. QED
        BY <1>a, <3>1 DEF DrainCounts
    <2>3. CASE job = "drain" /\ taken # 0
      <3>1. /\ taken' = taken + 1 /\ countdown' = countdown /\ backlog' = backlog
            /\ at = "get" /\ at' = "fill" /\ Len(queue') = Len(queue) - 1 /\ countdown # 0
        <4>1. countdown >= 0
          BY <1>a, <2>3 DEF DrainCounts
        <4>2. FirstCountdown = countdown
          BY <1>a, <4>1 DEF FirstCountdown
        <4>3. QED
          BY <1>10, <1>a, <2>3, <4>2 DEF GetFirst, Get
      <3>2. QED
        BY <1>a, <2>3, <3>1 DEF DrainCounts
    <2>4. QED
      BY <2>1, <2>2, <2>3
  <1>11. CASE Fill
    <2>1. CASE job # "drain"
      BY <1>11, <1>e, <2>1 DEF Fill
    <2>2. CASE job = "drain"
      <3>1. at = "fill" /\ countdown # 0 /\ taken > 0 /\ countdown >= 0
        BY <1>11, <1>a, <2>2 DEF Fill, DrainCounts
      <3>2. countdown' = countdown - 1 /\ backlog' = backlog
        BY <1>11, <1>a, <3>1 DEF Fill
      <3>3. \/ taken' = taken /\ queue' = queue /\ at' = "callback"
            \/ taken' = taken + 1 /\ Len(queue') = Len(queue) - 1 /\ at' = "fill"
            \/ taken' = taken /\ queue' = queue /\ Len(queue) = 0 /\ at' \in {"fill", "callback"}
        BY <1>11, <1>a, <2>2, <3>1 DEF Fill, Get
      <3>4. QED
        BY <1>a, <2>2, <3>1, <3>2, <3>3 DEF DrainCounts
    <2>3. QED
      BY <2>1, <2>2
  <1>12. CASE FillEnds
    BY <1>12, <1>a DEF FillEnds, DrainCounts, loop
  <1>13. CASE Handled
    BY <1>13, <1>a DEF Handled, DrainCounts
  <1>14. CASE UNCHANGED amqpVars
    BY <1>14, <1>a, <1>d DEF amqpVars
  <1>15. QED
    BY <1>1, <1>2, <1>3, <1>4, <1>5, <1>6, <1>7, <1>8, <1>9, <1>10, <1>11, <1>12, <1>13, <1>14
    DEF AmqpNext, ConsumerStep

-----------------------------------------------------------------------------
(* Theorems                                                                *)

(***************************************************************************)
(* The invariant holds in every state.                                     *)
(***************************************************************************)
LEMMA AmqpInvariant == AmqpSpec => []AmqpInv
  <1>1. AmqpInit => AmqpInv
    <2> SUFFICES ASSUME AmqpInit PROVE AmqpInv
      OBVIOUS
    <2>1. <<>> \in Seq(Item) /\ <<>> \in Seq(Bodies) /\ Len(<<>>) = 0
      OBVIOUS
    <2>2. /\ work \in [Ends -> Seq(Item)] /\ publishing \in [Ends -> Seq(Item)]
          /\ queue \in Seq(Bodies) /\ unacked \in Seq(Bodies) /\ items \in Seq(Bodies)
      BY <2>1 DEF AmqpInit
    <2>3. /\ unfinished \in [Ends -> Nat] /\ connected \in [Ends -> BOOLEAN]
          /\ raised \in [Ends -> BOOLEAN]
      BY DEF AmqpInit
    <2>4. /\ adds \in 0..MaxAdds /\ jobs \in 0..MaxJobs /\ amqpFaults \in 0..MaxAmqpFaults
          /\ countdown \in Int /\ backlog \in Nat /\ taken \in Nat
      BY AmqpAssumption DEF AmqpInit
    <2>5. AmqpTypeOK
      BY <2>2, <2>3, <2>4 DEF AmqpInit, AmqpTypeOK, Jobs, Places
    <2>6. TasksCounted /\ CallbackHasMessage
      BY <2>1 DEF AmqpInit, TasksCounted, CallbackHasMessage
    <2>7. DeliveryInv /\ DrainCounts
      BY DEF AmqpInit, DeliveryInv, UnackedKnown, NoMessageLost, DrainCounts
    <2>8. QED
      BY <2>5, <2>6, <2>7 DEF AmqpInv, AmqpTyped
  <1>2. AmqpInv /\ [AmqpNext]_amqpVars => AmqpInv'
    BY AmqpTypedStep, DeliveryStep, DrainStep DEF AmqpInv
  <1>3. QED
    BY <1>1, <1>2, PTL DEF AmqpSpec

(***************************************************************************)
(* lib/amqp.py: queues, batches and counters stay what they are declared   *)
(* to be; task_done is never called more often than the thread was given   *)
(* work.                                                                   *)
(***************************************************************************)
THEOREM AmqpTypeCorrect == AmqpSpec => []AmqpTypeOK
  <1>1. AmqpInv => AmqpTypeOK
    BY DEF AmqpInv, AmqpTyped
  <1>2. QED
    BY <1>1, AmqpInvariant, PTL

(***************************************************************************)
(* At least once: add_item, the worker thread, consume_items, handle_items *)
(* and dedup_queue never drop a body that is owed, however they interleave *)
(* with each other, with reconnects and with crashes, but for what a dying *)
(* process or a failed publish is known to drop.                           *)
(***************************************************************************)
THEOREM AtLeastOnce == AmqpSpec => []NoMessageLost
  <1>1. AmqpInv => NoMessageLost
    BY DEF AmqpInv, DeliveryInv
  <1>2. QED
    BY <1>1, AmqpInvariant, PTL

(***************************************************************************)
(* handle_items(drain=True) takes all that was in the queue at its first   *)
(* basic_get and at most one message more, for every limit and min_size.   *)
(***************************************************************************)
THEOREM DrainIsExact == AmqpSpec => []DrainTakesBacklog
  <1>1. AmqpInv => DrainTakesBacklog
    <2> SUFFICES ASSUME AmqpInv, job = "drain"
                 PROVE  /\ taken <= backlog + 1
                        /\ (at = "get" /\ countdown = 0) => taken >= backlog
      BY DEF DrainTakesBacklog
    <2>1. countdown \in Int /\ backlog \in Nat /\ taken \in Nat
      BY DEF AmqpInv, AmqpTyped, AmqpTypeOK
    <2>2. QED
      BY <2>1 DEF AmqpInv, DrainCounts
  <1>2. QED
    BY <1>1, AmqpInvariant, PTL

-----------------------------------------------------------------------------
(* Delayed work: the inductive invariant                                   *)

LaterRequests ==
    [at : {"idle", "lookup", "unschedule", "unindex", "schedule", "index"},
     who : Subjects \cup {NoSubject}, until : EndTimes, lift : BOOLEAN, new : BOOLEAN,
     job : Entries]

\* The types the arguments below rest on.
LaterTyped ==
    /\ now \in Nat /\ stamp \in Nat
    /\ row \subseteq LaterJobs
    /\ index \in [Subjects -> Entries]
    /\ active \subseteq Subjects
    /\ modReq \in [Moderators -> LaterRequests]
    /\ cron \in [at : {"idle", "hook", "unschedule", "unindex", "cleanup"},
                 ready : SUBSET LaterJobs, unripe : SUBSET LaterJobs, todo : SUBSET LaterJobs]
    /\ promised \in [Subjects -> EndTimes]
    /\ upset \in [Subjects -> SUBSET {"crossed", "late", "torn"}]

\* Who a request is about, and that only one with an end schedules.
RequestsMeant ==
    \A m \in Moderators :
        /\ modReq[m].at # "idle" => modReq[m].who \in Subjects
        /\ modReq[m].at \in {"schedule", "index"} => modReq[m].until # Forever
        /\ modReq[m].at = "lookup" /\ kind = "muted" => modReq[m].until # Forever

\* What TryLater.run has read: something is ready, and is still to be run
\* until the cleanup.
RunMeant ==
    /\ cron.at # "idle" => cron.ready # {}
    /\ cron.at = "idle" => cron.ready = {}
    /\ cron.todo \subseteq cron.ready
    /\ cron.at \in {"hook", "unschedule", "unindex"} => cron.todo # {}

\* Timestamps are not ahead of the clock, and one that the index or a request
\* has is of a job of the same subject.
StampsMatch ==
    /\ \A j \in row : 0 < j.stamp /\ j.stamp <= stamp
    /\ \A s \in Subjects :
          index[s].stamp <= stamp /\ \A j \in row : j.stamp = index[s].stamp => j.who = s
    /\ \A m \in Moderators : modReq[m].at = "index" =>
          /\ modReq[m].job.stamp <= stamp
          /\ \A j \in row : j.stamp = modReq[m].job.stamp => j.who = modReq[m].who

\* What was written after the run has read the row is younger than all of it.
YoungerSince ==
    /\ \A j \in cron.ready \cup cron.unripe : j.stamp <= stamp
    /\ \A j \in row : \/ j \in cron.ready \cup cron.unripe
                      \/ \A k \in cron.ready : j.stamp > k.stamp

RowInv == LaterTyped /\ RequestsMeant /\ RunMeant /\ StampsMatch /\ YoungerSince

\* The jobs of s are what s was told.
AsTold(s) ==
    {j.ready : j \in JobsOf(s)} =
        IF s \in active /\ promised[s] # Forever THEN {promised[s]} ELSE {}

Serves(m, s) == modReq[m].at # "idle" /\ modReq[m].who = s

\* Two requests for s, or one and the run, do not overlap.
Alone(s) ==
    /\ \A m, n \in Moderators : Serves(m, s) /\ Serves(n, s) => m = n
    /\ ~(Busy(s) /\ CronHolds(s))

\* The index finds the jobs of s, except between the two writes of a request
\* and while the run has them.
IndexKnows(s) ==
    \/ CronHolds(s)
    \/ \E m \in Moderators : Serves(m, s) /\ modReq[m].at = "index"
    \/ \A j \in JobsOf(s) : j.stamp = index[s].stamp

\* The one request q for s: what it still finds, and what it has already undone.
Knows(q, s) ==
    /\ q.lift => q.at \in {"unschedule", "unindex"} /\ q.until = Forever
    /\ q.lift <=> s \notin active
    /\ q.at = "lookup" => IF q.new THEN kind # "suspended" => JobsOf(s) = {}
                          ELSE AsTold(s)
    /\ q.at \in {"unindex", "schedule"} => JobsOf(s) = {}
    /\ q.at = "index" =>
          JobsOf(s) = {[who |-> s, ready |-> q.job.ready, stamp |-> q.job.stamp]}

RequestKnows(s) == \A m \in Moderators : Serves(m, s) => Knows(modReq[m], s)

\* The run has all the jobs of s, and lifts the restriction before the cleanup.
RunKnows(s) ==
    CronHolds(s) =>
        /\ JobsOf(s) \subseteq cron.ready
        /\ s \in active => cron.at # "cleanup" /\ \E j \in cron.todo : j.who = s
        /\ cron.at \in {"unschedule", "unindex"} /\ FirstJob(cron.todo).who = s
              => s \notin active

Told(s) ==
    /\ Alone(s) /\ IndexKnows(s) /\ RequestKnows(s) /\ RunKnows(s)
    /\ Quiet(s) /\ (s \in active \/ kind # "suspended") => AsTold(s)

ToldInv == \A s \in Subjects : upset[s] = {} => Told(s)

-----------------------------------------------------------------------------
(* Smallest and largest                                                    *)

(***************************************************************************)
(* A set of natural numbers that is not empty has a smallest one.          *)
(***************************************************************************)
LEMMA NatMin ==
  ASSUME NEW T \in SUBSET Nat, T # {}
  PROVE  \E x \in T : \A y \in T : x <= y
  <1> DEFINE R == OpToRel(<, Nat)
  <1>1. IsWellFoundedOn(R, Nat)
    BY NatLessThanWellFounded, Zenon
  <1>2. \A x, y \in Nat : x < y => <<x, y>> \in R
    BY DEF OpToRel
  <1> HIDE DEF R
  <1>3. PICK x \in T : \A y \in T : ~(<<y, x>> \in R)
    BY <1>1, WFMin
  <1>4. ASSUME NEW y \in T
        PROVE  x <= y
    <2>1. x \in Nat /\ y \in Nat
      OBVIOUS
    <2>2. ~(y < x)
      BY <1>2, <1>3, <2>1
    <2>3. QED
      BY <2>1, <2>2
  <1>5. QED
    BY <1>4

(***************************************************************************)
(* What cleanup asks of the timestamps it has read: Min and Max are one of *)
(* them, below and above all.                                              *)
(***************************************************************************)
LEMMA MinMax ==
  ASSUME NEW T \in SUBSET Nat, T # {}, NEW n \in Nat, \A x \in T : x <= n
  PROVE  /\ Min(T) \in T /\ \A y \in T : Min(T) <= y
         /\ Max(T) \in T /\ \A y \in T : Max(T) >= y
  <1>1. \E x \in T : \A y \in T : x <= y
    BY NatMin
  <1>2. \E x \in T : \A y \in T : x >= y
    <2> DEFINE U == {n - x : x \in T}
    <2>1. \A x \in T : n - x \in Nat
      OBVIOUS
    <2> HIDE DEF U
    <2>4. U \in SUBSET Nat /\ U # {}
      BY <2>1 DEF U
    <2>2. PICK u \in U : \A v \in U : u <= v
      BY <2>4, NatMin
    <2>3. PICK x \in T : u = n - x
      BY DEF U
    <2>5. \A y \in T : u <= n - y
      BY <2>2 DEF U
    <2>6. \A y \in T : y \in Nat /\ n - x <= n - y
      BY <2>3, <2>5
    <2>7. \A y \in T : x >= y
      BY <2>6
    <2>8. QED
      BY <2>7
  <1>3. Min(T) \in T /\ \A y \in T : Min(T) <= y
    BY <1>1 DEF Min
  <1>4. Max(T) \in T /\ \A y \in T : Max(T) >= y
    BY <1>2 DEF Max
  <1>5. QED
    BY <1>3, <1>4

(***************************************************************************)
(* The first of the ready columns is one of them.                          *)
(***************************************************************************)
LEMMA FirstJobIsOne ==
  ASSUME NEW J \in SUBSET LaterJobs, J # {}
  PROVE  FirstJob(J) \in J
  <1>1. \A j \in J : j.ready \in Nat /\ j.stamp \in Nat
    BY DEF LaterJobs
  <1>2. PICK j \in J : \A k \in J : j.ready <= k.ready
    <2> DEFINE T == {k.ready : k \in J}
    <2>1. T \in SUBSET Nat /\ T # {}
      BY <1>1
    <2>2. PICK t \in T : \A u \in T : t <= u
      BY <2>1, NatMin
    <2>3. QED
      BY <2>2
  <1>3. PICK f \in J : /\ f.ready = j.ready
                         /\ \A k \in J : k.ready = j.ready => f.stamp <= k.stamp
    <2> DEFINE T == {k.stamp : k \in {l \in J : l.ready = j.ready}}
    <2>1. T \in SUBSET Nat /\ T # {}
      BY <1>1
    <2>2. PICK t \in T : \A u \in T : t <= u
      BY <2>1, NatMin
    <2>3. QED
      BY <2>2
  <1>4. \A k \in J : f.ready < k.ready \/ (f.ready = k.ready /\ f.stamp <= k.stamp)
    BY <1>1, <1>2, <1>3
  <1>5. QED
    BY <1>4 DEF FirstJob

-----------------------------------------------------------------------------
(* Requests                                                                *)

\* What the requests that begin have in common.
Asks(m, s, place, until, lift) ==
    /\ Begin(m, s, place, until, lift)
    /\ active' = IF lift THEN active \ {s} ELSE active \cup {s}
    /\ IF lift THEN place \in {"unschedule", "idle"} /\ until = Forever
       ELSE place = "lookup" /\ (kind = "muted" => until # Forever)
    /\ place = "idle" => kind = "suspended" \/ s \notin active
    /\ UNCHANGED <<kind, now, due, stamp, row, index, cron, promised, laterFaults>>

(***************************************************************************)
(* POST_friend, POST_unfriend and the others restrict with an end or       *)
(* without one, or lift.                                                   *)
(***************************************************************************)
LEMMA RequestBegins ==
  ASSUME NEW m \in Moderators, NEW s \in Subjects,
         \/ \E length \in {0} \cup Lengths : Ban(m, s, length) \/ Suspend(m, s, length)
         \/ Mute(m, s) \/ Lift(m, s) \/ UnmuteAuthor(m, s) \/ Unsuspend(m, s)
  PROVE  \E place \in {"idle", "lookup", "unschedule"}, until \in EndTimes, lift \in BOOLEAN :
            Asks(m, s, place, until, lift)
  <1> USE TryLaterAssumption DEF EndTimes, Forever
  <1>1. ASSUME NEW length \in {0} \cup Lengths, Ban(m, s, length) \/ Suspend(m, s, length)
        PROVE  \E until \in EndTimes : Asks(m, s, "lookup", until, FALSE)
    <2> DEFINE u == IF length = 0 THEN Forever ELSE length
    <2>1. u \in EndTimes
      OBVIOUS
    <2>2. Asks(m, s, "lookup", u, FALSE)
      BY <1>1 DEF Ban, Suspend, Asks
    <2>3. QED
      BY <2>1, <2>2
  <1>2. ASSUME Mute(m, s)
        PROVE  Asks(m, s, "lookup", MuteLength, FALSE) /\ MuteLength \in EndTimes
    <2>1. MuteLength \in EndTimes /\ MuteLength # Forever
      OBVIOUS
    <2>2. Begin(m, s, "lookup", MuteLength, FALSE) /\ active' = active \cup {s}
            /\ UNCHANGED <<kind, now, due, stamp, row, index, cron, promised, laterFaults>>
      BY <1>2 DEF Mute
    <2>3. QED
      BY <2>1, <2>2 DEF Asks
  <1>3. ASSUME Lift(m, s)
        PROVE  Asks(m, s, "unschedule", Forever, TRUE) /\ Forever \in EndTimes
    BY <1>3 DEF Lift, Asks
  <1>4. ASSUME Unsuspend(m, s)
        PROVE  Asks(m, s, "idle", Forever, TRUE) /\ Forever \in EndTimes
    BY <1>4 DEF Unsuspend, Asks
  <1>5. ASSUME UnmuteAuthor(m, s)
        PROVE  Asks(m, s, IF s \in active THEN "unschedule" ELSE "idle", Forever, TRUE)
                 /\ Forever \in EndTimes
    BY <1>5 DEF UnmuteAuthor, Asks
  <1>6. QED
    BY <1>1, <1>2, <1>3, <1>4, <1>5

(***************************************************************************)
(* Every step keeps the state typed, and requests and runs what they mean. *)
(***************************************************************************)
LEMMA LaterTypedStep ==
  ASSUME LaterTyped, RequestsMeant, RunMeant, [LaterNext]_laterVars
  PROVE  LaterTyped' /\ RequestsMeant' /\ RunMeant'
  <1> DEFINE Goal == LaterTyped' /\ RequestsMeant' /\ RunMeant'
  <1> USE TryLaterAssumption
  <1>a. modReq \in [Moderators -> LaterRequests]
    BY DEF LaterTyped
  <1>b. ASSUME NEW m \in Moderators
        PROVE  /\ modReq[m] \in LaterRequests
               /\ modReq[m].until \in EndTimes /\ modReq[m].job \in Entries
               /\ modReq[m].until # Forever => modReq[m].until \in Nat
    BY <1>a DEF LaterRequests, EndTimes, Forever
  <1>c. ASSUME NEW m \in Moderators, modReq' = [modReq EXCEPT ![m] = NoReq], kind' = kind
        PROVE  modReq' \in [Moderators -> LaterRequests] /\ RequestsMeant'
    <2>1. NoReq \in LaterRequests /\ NoReq.at = "idle"
      BY DEF NoReq, LaterRequests, NoEntry, Entries, EndTimes
    <2>2. QED
      BY <1>a, <1>c, <2>1 DEF RequestsMeant
  <1>d. ASSUME NEW m \in Moderators, NEW place \in {"idle", "unschedule", "unindex", "schedule"},
               GoTo(m, place), kind' = kind, modReq[m].at # "idle",
               place = "schedule" => modReq[m].until # Forever
        PROVE  modReq' \in [Moderators -> LaterRequests] /\ RequestsMeant'
    <2>1. CASE place = "idle"
      BY <1>c, <1>d, <2>1 DEF GoTo, Finish
    <2>2. CASE place # "idle"
      <3>1. modReq' = [modReq EXCEPT ![m].at = place]
        BY <1>d, <2>2 DEF GoTo
      <3>2. modReq' \in [Moderators -> LaterRequests]
        BY <1>a, <3>1 DEF LaterRequests
      <3>3. QED
        BY <1>a, <1>d, <3>1, <3>2 DEF RequestsMeant, LaterRequests
    <2>3. QED
      BY <2>1, <2>2
  <1>1. CASE LaterTick
    BY <1>1 DEF LaterTick, LaterTyped, RequestsMeant, RunMeant, laterBounds
  <1>2. ASSUME NEW m \in Moderators, NEW s \in Subjects,
               NEW place \in {"idle", "lookup", "unschedule"}, NEW until \in EndTimes,
               NEW lift \in BOOLEAN, Asks(m, s, place, until, lift)
        PROVE  Goal
    <2>1. active' \subseteq Subjects
      BY <1>2 DEF Asks, LaterTyped
    <2>2. upset' \in [Subjects -> SUBSET {"crossed", "late", "torn"}]
      BY <1>2 DEF Asks, Begin, LaterTyped
    <2>3. UNCHANGED <<kind, now, stamp, row, index, cron, promised>>
      BY <1>2 DEF Asks
    <2>4. CASE place = "idle"
      BY <1>2, <1>c, <2>1, <2>2, <2>3, <2>4 DEF Asks, Begin, LaterTyped, RunMeant
    <2>5. CASE place # "idle"
      <3>0. PICK new \in BOOLEAN : new = (s \notin active)
        OBVIOUS
      <3>9. PICK q : q = [NoReq EXCEPT !.at = place, !.who = s, !.until = until,
                                       !.lift = lift, !.new = new]
        OBVIOUS
      <3>1. q \in LaterRequests /\ q.at = place /\ q.who = s /\ q.until = until
        <4>1. NoReq \in LaterRequests
          BY DEF NoReq, LaterRequests, NoEntry, Entries, EndTimes
        <4>2. QED
          BY <3>9, <4>1 DEF LaterRequests
      <3>2. modReq' = [modReq EXCEPT ![m] = q]
        BY <1>2, <2>5, <3>0, <3>9 DEF Asks, Begin
      <3>3. place = "lookup" /\ kind = "muted" => until # Forever
        BY <1>2 DEF Asks
      <3>4. modReq' \in [Moderators -> LaterRequests]
        BY <1>a, <3>1, <3>2
      <3>5. RequestsMeant'
        BY <1>a, <2>3, <3>1, <3>2, <3>3 DEF RequestsMeant
      <3>6. QED
        BY <2>1, <2>2, <2>3, <3>4, <3>5 DEF LaterTyped, RunMeant
    <2>6. QED
      BY <2>4, <2>5
  <1>3. ASSUME NEW m \in Moderators, NoteFails(m)
        PROVE  Goal
    BY <1>3, <1>c DEF NoteFails, Finish, LaterTyped, RunMeant
  <1>4. ASSUME NEW m \in Moderators, LookUp(m)
        PROVE  Goal
    <2>1. modReq[m].at = "lookup" /\ modReq[m].who \in Subjects
      BY <1>4 DEF LookUp, RequestsMeant
    <2>2. NextCall(modReq[m]) \in {"idle", "unschedule", "unindex", "schedule"}
      BY DEF NextCall
    <2>3. NextCall(modReq[m]) = "schedule" => modReq[m].until # Forever
      BY <2>1 DEF NextCall, RequestsMeant
    <2>4. modReq' \in [Moderators -> LaterRequests] /\ RequestsMeant'
      BY <1>4, <1>d, <2>1, <2>2, <2>3 DEF LookUp
    <2>5. promised' \in [Subjects -> EndTimes]
      BY <1>4, <2>1 DEF LookUp, LaterTyped, EndTimes
    <2>6. upset' \in [Subjects -> SUBSET {"crossed", "late", "torn"}]
      BY <1>4, <2>1 DEF LookUp, LaterTyped, Late
    <2>7. QED
      BY <1>4, <2>4, <2>5, <2>6 DEF LookUp, LaterTyped, RunMeant
  <1>5. ASSUME NEW m \in Moderators, Unschedule(m)
        PROVE  Goal
    <2>1. modReq[m].at = "unschedule" /\ modReq[m].who \in Subjects
      BY <1>5 DEF Unschedule, RequestsMeant
    <2>2. modReq' \in [Moderators -> LaterRequests] /\ RequestsMeant'
      BY <1>5, <1>d, <2>1 DEF Unschedule
    <2>3. row' \subseteq LaterJobs
      BY <1>5 DEF Unschedule, Unscheduled, LaterTyped
    <2>4. upset' \in [Subjects -> SUBSET {"crossed", "late", "torn"}]
      BY <1>5, <2>1 DEF Unschedule, LaterTyped, Late
    <2>5. QED
      BY <1>5, <2>2, <2>3, <2>4 DEF Unschedule, LaterTyped, RunMeant
  <1>6. ASSUME NEW m \in Moderators, Unindex(m)
        PROVE  Goal
    <2>1. modReq[m].at = "unindex" /\ modReq[m].who \in Subjects
      BY <1>6 DEF Unindex, RequestsMeant
    <2>2. modReq' \in [Moderators -> LaterRequests] /\ RequestsMeant'
      BY <1>6, <1>c, <1>d, <2>1 DEF Unindex, Finish
    <2>3. index' \in [Subjects -> Entries]
      BY <1>6 DEF Unindex, LaterTyped, NoEntry, Entries
    <2>4. promised' \in [Subjects -> EndTimes]
      BY <1>6, <2>1 DEF Unindex, LaterTyped, EndTimes
    <2>5. QED
      BY <1>6, <2>2, <2>3, <2>4 DEF Unindex, LaterTyped, RunMeant
  <1>7. ASSUME NEW m \in Moderators, Schedule(m)
        PROVE  Goal
    <2>1. modReq[m].at = "schedule" /\ modReq[m].who \in Subjects /\ modReq[m].until \in Nat
      BY <1>7, <1>b DEF Schedule, RequestsMeant
    <2>2. now + modReq[m].until \in Nat /\ stamp' \in Nat /\ stamp' = stamp + 1
      BY <1>7, <2>1 DEF Schedule, LaterTyped
    <2>3. row' \subseteq LaterJobs
      BY <1>7, <2>1, <2>2 DEF Schedule, LaterTyped, LaterJobs
    <2> DEFINE e == [NoEntry EXCEPT !.ready = now + modReq[m].until, !.stamp = stamp']
    <2>4. e \in Entries
      BY <2>2 DEF NoEntry, Entries
    <2>5. modReq' = [modReq EXCEPT ![m].at = "index", ![m].job = e]
      BY <1>7 DEF Schedule
    <2> HIDE DEF e
    <2>6. modReq' \in [Moderators -> LaterRequests]
      <3>1. PICK r : r = [modReq[m] EXCEPT !.at = "index", !.job = e]
        OBVIOUS
      <3>2. r \in LaterRequests
        BY <1>b, <2>4, <3>1 DEF LaterRequests
      <3>3. modReq' = [modReq EXCEPT ![m] = r]
        BY <1>a, <2>5, <3>1
      <3>4. QED
        BY <1>a, <3>2, <3>3
    <2>7. RequestsMeant'
      BY <1>7, <1>a, <2>1, <2>5, <2>6 DEF Schedule, RequestsMeant, LaterRequests
    <2>8. QED
      BY <1>7, <2>2, <2>3, <2>6, <2>7 DEF Schedule, LaterTyped, RunMeant
  <1>8. ASSUME NEW m \in Moderators, IndexJob(m)
        PROVE  Goal
    <2>1. modReq[m].at = "index" /\ modReq[m].who \in Subjects /\ modReq[m].until \in Nat
            /\ modReq[m].job \in Entries
      BY <1>8, <1>b DEF IndexJob, RequestsMeant
    <2>2. now + modReq[m].until + Grace \in Nat
      BY <2>1 DEF LaterTyped
    <2>3. [modReq[m].job EXCEPT !.gone = now + modReq[m].until + Grace] \in Entries
            /\ modReq[m].job.ready \in EndTimes
      BY <2>1, <2>2 DEF Entries, EndTimes
    <2>4. index' \in [Subjects -> Entries] /\ promised' \in [Subjects -> EndTimes]
      BY <1>8, <2>3 DEF IndexJob, LaterTyped
    <2>5. modReq' \in [Moderators -> LaterRequests] /\ RequestsMeant'
      BY <1>8, <1>c DEF IndexJob, Finish
    <2>6. QED
      BY <1>8, <2>4, <2>5 DEF IndexJob, LaterTyped, RunMeant
  <1>9. ASSUME NEW m \in Moderators, LaterRequestDies(m)
        PROVE  Goal
    <2>1. modReq' \in [Moderators -> LaterRequests] /\ RequestsMeant'
      BY <1>9, <1>c DEF LaterRequestDies, Finish
    <2>2. upset' \in [Subjects -> SUBSET {"crossed", "late", "torn"}]
      BY <1>9 DEF LaterRequestDies, LaterTyped
    <2>3. QED
      BY <1>9, <2>1, <2>2 DEF LaterRequestDies, LaterTyped, RunMeant
  <1>10. CASE UNCHANGED laterVars
    BY <1>10 DEF laterVars, LaterTyped, RequestsMeant, RunMeant
  <1>e. ASSUME UNCHANGED <<kind, modReq>>
        PROVE  RequestsMeant'
    BY <1>e DEF RequestsMeant
  <1>f. ASSUME NEW J \in SUBSET LaterJobs, cron' = After(J), cron.at # "idle",
               J \subseteq cron.todo
        PROVE  cron' \in [at : {"idle", "hook", "unschedule", "unindex", "cleanup"},
                          ready : SUBSET LaterJobs, unripe : SUBSET LaterJobs,
                          todo : SUBSET LaterJobs] /\ RunMeant'
    BY <1>f DEF After, LaterTyped, RunMeant
  <1>g. ASSUME NEW place \in {"unschedule", "unindex", "cleanup"}, cron.at # "idle",
               cron' = [cron EXCEPT !.at = place],
               cron.at \in {"hook", "unschedule", "unindex"}
        PROVE  cron' \in [at : {"idle", "hook", "unschedule", "unindex", "cleanup"},
                          ready : SUBSET LaterJobs, unripe : SUBSET LaterJobs,
                          todo : SUBSET LaterJobs] /\ RunMeant'
    BY <1>g DEF LaterTyped, RunMeant
  <1>h. ASSUME cron' = NoRun
        PROVE  cron' \in [at : {"idle", "hook", "unschedule", "unindex", "cleanup"},
                          ready : SUBSET LaterJobs, unripe : SUBSET LaterJobs,
                          todo : SUBSET LaterJobs] /\ RunMeant'
    BY <1>h DEF NoRun, RunMeant
  <1>i. Rest(cron.todo) \in SUBSET LaterJobs /\ Rest(cron.todo) \subseteq cron.todo
    BY DEF Rest, LaterTyped
  <1>11. CASE CronStart
    <2>1. ReadyJobs \subseteq LaterJobs /\ row \ ReadyJobs \subseteq LaterJobs
      BY DEF ReadyJobs, LaterTyped
    <2>2. cron' \in [at : {"idle", "hook", "unschedule", "unindex", "cleanup"},
                     ready : SUBSET LaterJobs, unripe : SUBSET LaterJobs,
                     todo : SUBSET LaterJobs] /\ RunMeant'
      <3>1. CASE ReadyJobs = {}
        BY <1>11, <1>h, <3>1 DEF CronStart
      <3>2. CASE ReadyJobs # {}
        <4>1. cron' = [at |-> "hook", ready |-> ReadyJobs, unripe |-> row \ ReadyJobs,
                       todo |-> ReadyJobs]
          BY <1>11, <3>2 DEF CronStart
        <4>2. QED
          BY <2>1, <3>2, <4>1 DEF RunMeant
      <3>3. QED
        BY <3>1, <3>2
    <2>3. upset' \in [Subjects -> SUBSET {"crossed", "late", "torn"}]
      BY <1>11 DEF CronStart, LaterTyped
    <2>4. QED
      BY <1>11, <1>e, <2>2, <2>3 DEF CronStart, LaterTyped
  <1>12. CASE HookLifts
    <2>1. cron' \in [at : {"idle", "hook", "unschedule", "unindex", "cleanup"},
                     ready : SUBSET LaterJobs, unripe : SUBSET LaterJobs,
                     todo : SUBSET LaterJobs] /\ RunMeant'
      BY <1>12, <1>f, <1>g, <1>i DEF HookLifts
    <2>2. QED
      BY <1>12, <1>e, <2>1 DEF HookLifts, LaterTyped
  <1>13. CASE HookUnschedules
    <2>1. row' \subseteq LaterJobs
      BY <1>13 DEF HookUnschedules, Unscheduled, LaterTyped
    <2>2. QED
      BY <1>13, <1>e, <1>g, <2>1 DEF HookUnschedules, LaterTyped
  <1>14. CASE HookUnindexes
    <2>1. index' \in [Subjects -> Entries]
      BY <1>14 DEF HookUnindexes, LaterTyped, NoEntry, Entries
    <2>2. QED
      BY <1>14, <1>e, <1>f, <1>i, <2>1 DEF HookUnindexes, LaterTyped
  <1>15. CASE CleanUp
    <2>1. row' \subseteq LaterJobs
      BY <1>15 DEF CleanUp, Remaining, LaterTyped
    <2>2. QED
      BY <1>15, <1>e, <1>h, <2>1 DEF CleanUp, LaterTyped
  <1>16. CASE HookFails
    <2>1. upset' \in [Subjects -> SUBSET {"crossed", "late", "torn"}]
      BY <1>16 DEF HookFails, LaterTyped
    <2>2. QED
      BY <1>16, <1>e, <1>g, <2>1 DEF HookFails, LaterTyped
  <1>17. CASE CronDies
    <2>1. upset' \in [Subjects -> SUBSET {"crossed", "late", "torn"}]
      BY <1>17 DEF CronDies, LaterTyped
    <2>2. QED
      BY <1>17, <1>e, <1>h, <2>1 DEF CronDies, LaterTyped
  <1>18. ASSUME NEW m \in Moderators, NEW s \in Subjects,
                \/ \E length \in {0} \cup Lengths : Ban(m, s, length) \/ Suspend(m, s, length)
                \/ Mute(m, s) \/ Lift(m, s) \/ UnmuteAuthor(m, s) \/ Unsuspend(m, s)
         PROVE  Goal
    BY <1>2, <1>18, RequestBegins
  <1>19. QED
    BY <1>1, <1>3, <1>4, <1>5, <1>6, <1>7, <1>8, <1>9, <1>10, <1>11, <1>12, <1>13, <1>14,
       <1>15, <1>16, <1>17, <1>18 DEF LaterNext, ModeratorStep, CronStep

(***************************************************************************)
(* A step leaves of the row what it was, or adds a job with a timestamp    *)
(* that no other has: so what the index and the requests remember stays    *)
(* theirs, and what a run has not read is younger than what it has.        *)
(***************************************************************************)
LEMMA RowStep ==
  ASSUME RowInv, [LaterNext]_laterVars
  PROVE  StampsMatch' /\ YoungerSince'
  <1> DEFINE Goal == StampsMatch' /\ YoungerSince'
  <1> USE TryLaterAssumption DEF RowInv
  <1>a. modReq \in [Moderators -> LaterRequests]
    BY DEF LaterTyped
  <1>z. \A j \in row : j.stamp \in Nat
    BY DEF LaterTyped, LaterJobs
  <1>b. ASSUME row' \subseteq row, stamp' = stamp,
               \A s \in Subjects : index'[s] = index[s] \/ index'[s].stamp = 0,
               \A m \in Moderators : modReq'[m].at = "index" => modReq'[m] = modReq[m]
        PROVE  StampsMatch'
    <2>1. stamp \in Nat
      BY DEF LaterTyped
    <2>2. \A j \in row' : 0 < j.stamp /\ j.stamp <= stamp'
      BY <1>b DEF StampsMatch
    <2>3. ASSUME NEW s \in Subjects
          PROVE  index'[s].stamp <= stamp' /\ \A j \in row' : j.stamp = index'[s].stamp => j.who = s
      <3>1. CASE index'[s] = index[s]
        BY <1>b, <3>1 DEF StampsMatch
      <3>2. CASE index'[s].stamp = 0
        BY <1>b, <2>1, <2>2, <3>2
      <3>3. QED
        BY <1>b, <3>1, <3>2
    <2>4. ASSUME NEW m \in Moderators, modReq'[m].at = "index"
          PROVE  /\ modReq'[m].job.stamp <= stamp'
                 /\ \A j \in row' : j.stamp = modReq'[m].job.stamp => j.who = modReq'[m].who
      BY <1>b, <2>4 DEF StampsMatch
    <2>5. QED
      BY <2>2, <2>3, <2>4 DEF StampsMatch
  <1>c. ASSUME row' \subseteq row, stamp' = stamp, cron'.ready = cron.ready,
               cron'.unripe = cron.unripe
        PROVE  YoungerSince'
    BY <1>c DEF YoungerSince
  <1>d. ASSUME cron' = NoRun
        PROVE  YoungerSince'
    BY <1>d DEF YoungerSince, NoRun
  <1>e. ASSUME NEW m \in Moderators, modReq' = [modReq EXCEPT ![m] = NoReq]
        PROVE  \A n \in Moderators : modReq'[n].at = "index" => modReq'[n] = modReq[n]
    BY <1>a, <1>e DEF NoReq
  <1>f. ASSUME NEW m \in Moderators, NEW place, place # "index", GoTo(m, place)
        PROVE  \A n \in Moderators : modReq'[n].at = "index" => modReq'[n] = modReq[n]
    <2>1. CASE place = "idle"
      BY <1>e, <1>f, <2>1 DEF GoTo, Finish
    <2>2. CASE place # "idle"
      <3>1. modReq' = [modReq EXCEPT ![m].at = place]
        BY <1>f, <2>2 DEF GoTo
      <3>2. QED
        BY <1>a, <1>f, <3>1 DEF LaterRequests
    <2>3. QED
      BY <2>1, <2>2
  <1>g. ASSUME NEW s \in Subjects, index' = [index EXCEPT ![s] = NoEntry]
        PROVE  \A t \in Subjects : index'[t] = index[t] \/ index'[t].stamp = 0
    BY <1>g DEF LaterTyped, NoEntry
  <1>h. \A s \in Subjects : Unscheduled(s) \subseteq row
    BY DEF Unscheduled
  <1>i. cron.todo \subseteq LaterJobs
    BY DEF LaterTyped
  <1>1. CASE LaterTick
    BY <1>1, <1>b, <1>c DEF LaterTick
  <1>2. ASSUME NEW m \in Moderators, NEW s \in Subjects,
               NEW place \in {"idle", "lookup", "unschedule"}, NEW until \in EndTimes,
               NEW lift \in BOOLEAN, Asks(m, s, place, until, lift)
        PROVE  Goal
    <2>1. PICK q : q.at = place /\ modReq' = [modReq EXCEPT ![m] = q]
      <3>1. CASE place = "idle"
        BY <1>2, <3>1 DEF Asks, Begin, NoReq
      <3>2. CASE place # "idle"
        <4> DEFINE q == [NoReq EXCEPT !.at = place, !.who = s, !.until = until,
                                      !.lift = lift, !.new = s \notin active]
        <4>1. modReq' = [modReq EXCEPT ![m] = q]
          BY <1>2, <3>2 DEF Asks, Begin
        <4>2. q.at = place
          BY DEF NoReq
        <4>3. QED
          BY <4>1, <4>2
      <3>3. QED
        BY <3>1, <3>2
    <2>2. \A n \in Moderators : modReq'[n].at = "index" => modReq'[n] = modReq[n]
      BY <1>a, <2>1
    <2>3. QED
      BY <1>2, <1>b, <1>c, <2>2 DEF Asks
  <1>3. ASSUME NEW m \in Moderators, NoteFails(m)
        PROVE  Goal
    BY <1>3, <1>b, <1>c, <1>e DEF NoteFails, Finish
  <1>4. ASSUME NEW m \in Moderators, LookUp(m)
        PROVE  Goal
    <2>1. NextCall(modReq[m]) # "index"
      BY DEF NextCall
    <2>2. \A n \in Moderators : modReq'[n].at = "index" => modReq'[n] = modReq[n]
      BY <1>4, <1>f, <2>1 DEF LookUp
    <2>3. QED
      BY <1>4, <1>b, <1>c, <2>2 DEF LookUp
  <1>5. ASSUME NEW m \in Moderators, Unschedule(m)
        PROVE  Goal
    <2>1. row' \subseteq row
      BY <1>5 DEF Unschedule, Unscheduled
    <2>2. \A n \in Moderators : modReq'[n].at = "index" => modReq'[n] = modReq[n]
      BY <1>5, <1>f DEF Unschedule
    <2>3. QED
      BY <1>5, <1>b, <1>c, <2>1, <2>2 DEF Unschedule
  <1>6. ASSUME NEW m \in Moderators, Unindex(m)
        PROVE  Goal
    <2>1. modReq[m].who \in Subjects
      BY <1>6 DEF Unindex, RequestsMeant
    <2>2. \A n \in Moderators : modReq'[n].at = "index" => modReq'[n] = modReq[n]
      BY <1>6, <1>e, <1>f DEF Unindex, Finish
    <2>3. \A t \in Subjects : index'[t] = index[t] \/ index'[t].stamp = 0
      BY <1>6, <1>g, <2>1 DEF Unindex
    <2>4. QED
      BY <1>6, <1>b, <1>c, <2>2, <2>3 DEF Unindex
  <1>7. ASSUME NEW m \in Moderators, Schedule(m)
        PROVE  Goal
    <2>1. stamp' = stamp + 1 /\ stamp \in Nat
      BY <1>7 DEF Schedule, LaterTyped
    <2>2. PICK j : /\ row' = row \cup {j} /\ j.who = modReq[m].who /\ j.stamp = stamp'
      <3> DEFINE k == [who |-> modReq[m].who, ready |-> now + modReq[m].until, stamp |-> stamp']
      <3>1. row' = row \cup {k}
        BY <1>7 DEF Schedule
      <3>2. k.who = modReq[m].who /\ k.stamp = stamp'
        OBVIOUS
      <3>3. QED
        BY <3>1, <3>2
    <2>3. UNCHANGED <<index, cron>>
      BY <1>7 DEF Schedule
    <2>4. PICK e : e.stamp = stamp' /\ modReq' = [modReq EXCEPT ![m].at = "index", ![m].job = e]
      BY <1>7 DEF Schedule, NoEntry
    <2>5. /\ modReq'[m].job = e /\ modReq'[m].who = modReq[m].who
          /\ \A n \in Moderators \ {m} : modReq'[n] = modReq[n]
      BY <1>a, <2>4 DEF LaterRequests
    <2>6. \A k \in row' : 0 < k.stamp /\ k.stamp <= stamp'
      BY <1>z, <2>1, <2>2 DEF StampsMatch
    <2>7. \A k \in row : k.stamp # stamp'
      BY <1>z, <2>1 DEF StampsMatch
    <2>8. \A s \in Subjects : index[s].stamp \in Nat
      BY DEF LaterTyped, Entries
    <2>9. \A n \in Moderators : modReq[n].job.stamp \in Nat
      BY <1>a DEF LaterRequests, Entries
    <2>10. \A s \in Subjects :
             index'[s].stamp <= stamp' /\ \A k \in row' : k.stamp = index'[s].stamp => k.who = s
      BY <2>1, <2>2, <2>3, <2>8 DEF StampsMatch
    <2>11. ASSUME NEW n \in Moderators, modReq'[n].at = "index"
           PROVE  /\ modReq'[n].job.stamp <= stamp'
                  /\ \A k \in row' : k.stamp = modReq'[n].job.stamp => k.who = modReq'[n].who
      <3>1. CASE n = m
        <4>1. modReq'[n].job.stamp = stamp' /\ modReq'[n].who = modReq[m].who
          BY <2>4, <2>5, <3>1
        <4>2. QED
          BY <2>1, <2>2, <2>7, <4>1
      <3>2. CASE n # m
        BY <2>1, <2>2, <2>5, <2>9, <2>11, <3>2 DEF StampsMatch
      <3>3. QED
        BY <3>1, <3>2
    <2>12. \A k \in cron.ready \cup cron.unripe : k.stamp \in Nat
      BY DEF LaterTyped, LaterJobs
    <2>13. YoungerSince'
      BY <2>1, <2>2, <2>3, <2>12 DEF YoungerSince
    <2>14. QED
      BY <2>6, <2>10, <2>11, <2>13 DEF StampsMatch
  <1>8. ASSUME NEW m \in Moderators, IndexJob(m)
        PROVE  Goal
    <2>1. modReq[m].at = "index" /\ modReq[m].who \in Subjects /\ modReq[m].job \in Entries
      BY <1>8, <1>a DEF IndexJob, RequestsMeant, LaterRequests
    <2>2. PICK e : /\ e.stamp = modReq[m].job.stamp
                   /\ index' = [index EXCEPT ![modReq[m].who] = e]
      BY <1>8, <2>1 DEF IndexJob, Entries
    <2>3. UNCHANGED <<stamp, row, cron>>
      BY <1>8 DEF IndexJob
    <2>4. \A n \in Moderators : modReq'[n].at = "index" => modReq'[n] = modReq[n]
      BY <1>8, <1>e DEF IndexJob, Finish
    <2>5. index \in [Subjects -> Entries]
      BY DEF LaterTyped
    <2>6. StampsMatch'
      BY <2>1, <2>2, <2>3, <2>4, <2>5 DEF StampsMatch
    <2>7. QED
      BY <1>c, <2>3, <2>6
  <1>9. ASSUME NEW m \in Moderators, LaterRequestDies(m)
        PROVE  Goal
    BY <1>9, <1>b, <1>c, <1>e DEF LaterRequestDies, Finish
  <1>10. CASE UNCHANGED laterVars
    BY <1>10, <1>b, <1>c DEF laterVars
  <1>11. CASE CronStart
    <2>1. StampsMatch'
      BY <1>11, <1>b DEF CronStart
    <2>2. YoungerSince'
      <3>1. CASE ReadyJobs = {}
        BY <1>11, <1>d, <3>1 DEF CronStart
      <3>2. CASE ReadyJobs # {}
        <4>1. cron'.ready = ReadyJobs /\ cron'.unripe = row \ ReadyJobs /\ UNCHANGED <<row, stamp>>
          BY <1>11, <3>2 DEF CronStart
        <4>2. ReadyJobs \subseteq row
          BY DEF ReadyJobs
        <4>3. QED
          BY <4>1, <4>2 DEF YoungerSince, StampsMatch
      <3>3. QED
        BY <3>1, <3>2
    <2>3. QED
      BY <2>1, <2>2
  <1>12. CASE HookLifts
    <2>1. cron'.ready = cron.ready /\ cron'.unripe = cron.unripe
      BY <1>12 DEF HookLifts, After, LaterTyped
    <2>2. QED
      BY <1>12, <1>b, <1>c, <2>1 DEF HookLifts
  <1>13. CASE HookUnschedules
    <2>1. row' \subseteq row /\ cron'.ready = cron.ready /\ cron'.unripe = cron.unripe
      BY <1>13 DEF HookUnschedules, Unscheduled, LaterTyped
    <2>2. QED
      BY <1>13, <1>b, <1>c, <2>1 DEF HookUnschedules
  <1>14. CASE HookUnindexes
    <2>1. cron'.ready = cron.ready /\ cron'.unripe = cron.unripe
      BY <1>14 DEF HookUnindexes, After, LaterTyped
    <2>2. FirstJob(cron.todo).who \in Subjects
      <3>1. cron.todo # {}
        BY <1>14 DEF HookUnindexes, RunMeant
      <3>2. FirstJob(cron.todo) \in cron.todo
        BY <1>i, <3>1, FirstJobIsOne
      <3>3. QED
        BY <1>i, <3>2 DEF LaterJobs
    <2>3. \A t \in Subjects : index'[t] = index[t] \/ index'[t].stamp = 0
      BY <1>14, <1>g, <2>2 DEF HookUnindexes
    <2>4. QED
      BY <1>14, <1>b, <1>c, <2>1, <2>3 DEF HookUnindexes
  <1>15. CASE CleanUp
    <2>1. row' \subseteq row
      BY <1>15 DEF CleanUp, Remaining
    <2>2. QED
      BY <1>15, <1>b, <1>d, <2>1 DEF CleanUp
  <1>16. CASE HookFails
    <2>1. cron'.ready = cron.ready /\ cron'.unripe = cron.unripe
      BY <1>16 DEF HookFails, LaterTyped
    <2>2. QED
      BY <1>16, <1>b, <1>c, <2>1 DEF HookFails
  <1>17. CASE CronDies
    BY <1>17, <1>b, <1>d DEF CronDies
  <1>18. ASSUME NEW m \in Moderators, NEW s \in Subjects,
                \/ \E length \in {0} \cup Lengths : Ban(m, s, length) \/ Suspend(m, s, length)
                \/ Mute(m, s) \/ Lift(m, s) \/ UnmuteAuthor(m, s) \/ Unsuspend(m, s)
         PROVE  Goal
    BY <1>2, <1>18, RequestBegins
  <1>19. QED
    BY <1>1, <1>3, <1>4, <1>5, <1>6, <1>7, <1>8, <1>9, <1>10, <1>11, <1>12, <1>13, <1>14,
       <1>15, <1>16, <1>17, <1>18 DEF LaterNext, ModeratorStep, CronStep

(***************************************************************************)
(* cleanup takes all of the batch and nothing but the batch, by the row    *)
(* delete or by columns.                                                   *)
(***************************************************************************)
LEMMA CleanUpExact ==
  ASSUME RowInv, cron.at = "cleanup"
  PROVE  Remaining(cron.ready, cron.unripe) = row \ cron.ready
  <1> USE DEF RowInv
  <1>1. /\ cron.ready # {} /\ stamp \in Nat
        /\ \A j \in row \cup cron.ready \cup cron.unripe : j.stamp \in Nat
    BY DEF LaterTyped, LaterJobs, RunMeant
  <1>2. /\ Stamps(cron.ready) \in SUBSET Nat /\ Stamps(cron.ready) # {}
        /\ \A x \in Stamps(cron.ready) : x <= stamp
    BY <1>1 DEF Stamps, YoungerSince
  <1>3. PICK top : /\ top = Max(Stamps(cron.ready)) /\ top \in Stamps(cron.ready)
                   /\ \A y \in Stamps(cron.ready) : top >= y
    BY <1>1, <1>2, MinMax
  <1>4. CASE cron.unripe = {} \/ Min(Stamps(cron.unripe)) > top
    <2>1. Remaining(cron.ready, cron.unripe) = {j \in row : j.stamp > top}
      BY <1>3, <1>4 DEF Remaining
    <2>2. ASSUME NEW j \in row, j \in cron.ready
          PROVE  ~(j.stamp > top)
      <3>1. j.stamp \in Stamps(cron.ready)
        BY <2>2 DEF Stamps
      <3>2. QED
        BY <1>2, <1>3, <3>1
    <2>3. ASSUME NEW j \in row, j \notin cron.ready
          PROVE  j.stamp > top
      <3>1. CASE j \in cron.unripe
        <4>1. /\ Stamps(cron.unripe) \in SUBSET Nat /\ j.stamp \in Stamps(cron.unripe)
              /\ \A x \in Stamps(cron.unripe) : x <= stamp
          BY <1>1, <3>1 DEF Stamps, YoungerSince
        <4>2. PICK low : /\ low = Min(Stamps(cron.unripe)) /\ low \in Stamps(cron.unripe)
                         /\ \A y \in Stamps(cron.unripe) : low <= y
          BY <1>1, <4>1, MinMax
        <4>3. low > top
          BY <1>4, <3>1, <4>2
        <4>4. QED
          BY <1>2, <1>3, <4>1, <4>2, <4>3
      <3>2. CASE j \notin cron.unripe
        <4>1. \A k \in cron.ready : j.stamp > k.stamp
          BY <2>3, <3>2 DEF YoungerSince
        <4>2. QED
          BY <1>3, <4>1 DEF Stamps
      <3>3. QED
        BY <3>1, <3>2
    <2>4. QED
      BY <2>1, <2>2, <2>3
  <1>5. CASE ~(cron.unripe = {} \/ Min(Stamps(cron.unripe)) > top)
    BY <1>3, <1>5 DEF Remaining
  <1>6. QED
    BY <1>4, <1>5

(***************************************************************************)
(* Unscheduling s takes jobs of s only, whatever its index has become.     *)
(***************************************************************************)
LEMMA UnschedulesOwn ==
  ASSUME RowInv, NEW s \in Subjects
  PROVE  \A j \in row \ Unscheduled(s) : j.who = s
  BY DEF RowInv, Unscheduled, StampsMatch

(***************************************************************************)
(* What the invariant says of the row holds in every state.                *)
(***************************************************************************)
LEMMA RowInvariant == LaterSafe => []RowInv
  <1>1. LaterInit => RowInv
    <2> SUFFICES ASSUME LaterInit PROVE RowInv
      OBVIOUS
    <2> USE TryLaterAssumption
    <2>1. NoEntry \in Entries /\ NoEntry.stamp = 0 /\ Forever \in EndTimes
      BY DEF NoEntry, Entries, EndTimes
    <2>2. NoReq \in LaterRequests /\ NoReq.at = "idle"
      BY <2>1 DEF NoReq, LaterRequests
    <2>3. index \in [Subjects -> Entries] /\ promised \in [Subjects -> EndTimes]
            /\ modReq \in [Moderators -> LaterRequests]
            /\ upset \in [Subjects -> SUBSET {"crossed", "late", "torn"}]
      BY <2>1, <2>2 DEF LaterInit
    <2>4. LaterTyped
      BY <2>3 DEF LaterInit, LaterTyped, NoRun
    <2>5. RequestsMeant /\ RunMeant
      BY <2>2 DEF LaterInit, RequestsMeant, RunMeant, NoRun
    <2>6. StampsMatch /\ YoungerSince
      BY <2>1, <2>2 DEF LaterInit, StampsMatch, YoungerSince, NoRun
    <2>7. QED
      BY <2>4, <2>5, <2>6 DEF RowInv
  <1>2. RowInv /\ [LaterNext]_laterVars => RowInv'
    BY LaterTypedStep, RowStep DEF RowInv
  <1>3. QED
    BY <1>1, <1>2, PTL DEF LaterSafe

-----------------------------------------------------------------------------
(* The bounds                                                              *)

\* Who handles a request that may still schedule a job.
Undecided ==
    {m \in Moderators : modReq[m].at \in {"lookup", "unschedule", "unindex", "schedule"}}

\* A request schedules at most one job, so the jobs are no more than requests.
OneJobEach == stamp + Cardinality(Undecided) <= requests

LaterBounded ==
    /\ kind \in Kinds /\ now \in 0..LaterMaxTime /\ due \in BOOLEAN
    /\ requests \in 0..MaxRequests /\ laterFaults \in 0..MaxLaterFaults
    /\ OneJobEach

(***************************************************************************)
(* The number of handlers that may still schedule, when it grows by one at *)
(* most, when one of them is done, and otherwise.                          *)
(***************************************************************************)
LEMMA CountUndecided ==
  /\ Cardinality(Undecided) \in Nat /\ Cardinality(Undecided)' \in Nat
  /\ Undecided' \subseteq Undecided => Cardinality(Undecided)' <= Cardinality(Undecided)
  /\ \A m \in Moderators :
       /\ Undecided' \subseteq Undecided \cup {m} =>
            Cardinality(Undecided)' <= Cardinality(Undecided) + 1
       /\ (m \in Undecided /\ Undecided' \subseteq Undecided \ {m}) =>
            Cardinality(Undecided)' + 1 <= Cardinality(Undecided)
  <1>1. IsFiniteSet(Moderators) /\ Undecided \subseteq Moderators /\ Undecided' \subseteq Moderators
    BY TryLaterAssumption DEF Undecided
  <1>2. IsFiniteSet(Undecided) /\ IsFiniteSet(Undecided')
    BY <1>1, FS_Subset
  <1>3. Cardinality(Undecided) \in Nat /\ Cardinality(Undecided') \in Nat
    BY <1>2, FS_CardinalityType
  <1>4. Undecided' \subseteq Undecided => Cardinality(Undecided') <= Cardinality(Undecided)
    BY <1>2, FS_Subset
  <1>5. ASSUME NEW m \in Moderators, Undecided' \subseteq Undecided \cup {m}
        PROVE  Cardinality(Undecided') <= Cardinality(Undecided) + 1
    <2>1. /\ IsFiniteSet(Undecided \cup {m})
          /\ Cardinality(Undecided \cup {m})
               \in {Cardinality(Undecided), Cardinality(Undecided) + 1}
      BY <1>2, FS_AddElement
    <2>2. Cardinality(Undecided') <= Cardinality(Undecided \cup {m})
      BY <1>5, <2>1, FS_Subset
    <2>3. QED
      BY <1>3, <2>1, <2>2
  <1>6. ASSUME NEW m \in Moderators, m \in Undecided, Undecided' \subseteq Undecided \ {m}
        PROVE  Cardinality(Undecided') + 1 <= Cardinality(Undecided)
    <2>1. /\ IsFiniteSet(Undecided \ {m})
          /\ Cardinality(Undecided \ {m}) = Cardinality(Undecided) - 1
      BY <1>2, <1>6, FS_RemoveElement
    <2>2. Cardinality(Undecided') <= Cardinality(Undecided \ {m})
      BY <1>6, <2>1, FS_Subset
    <2>3. QED
      BY <1>3, <2>1, <2>2
  <1>7. QED
    BY <1>3, <1>4, <1>5, <1>6

(***************************************************************************)
(* Every step stays within the bounds; a request schedules once.           *)
(***************************************************************************)
LEMMA LaterBoundedStep ==
  ASSUME RowInv, LaterBounded, [LaterNext]_laterVars
  PROVE  LaterBounded'
  <1>0. /\ stamp \in Nat /\ requests \in Nat /\ laterFaults \in Nat /\ now \in Nat
        /\ LaterMaxTime \in Nat /\ MaxRequests \in Nat /\ MaxLaterFaults \in Nat
        /\ requests <= MaxRequests /\ laterFaults <= MaxLaterFaults
        /\ modReq \in [Moderators -> LaterRequests]
    BY TryLaterAssumption DEF RowInv, LaterTyped, LaterBounded
  <1>1. ASSUME stamp' = stamp, requests' = requests, Undecided' \subseteq Undecided
        PROVE  OneJobEach'
    BY <1>0, <1>1, CountUndecided DEF LaterBounded, OneJobEach
  <1>2. ASSUME modReq' = modReq
        PROVE  Undecided' = Undecided
    BY <1>2 DEF Undecided
  <1>3. ASSUME NEW m \in Moderators, modReq' = [modReq EXCEPT ![m] = NoReq]
        PROVE  Undecided' \subseteq Undecided
    <2>1. NoReq.at = "idle"
      BY DEF NoReq
    <2>2. QED
      BY <1>0, <1>3, <2>1 DEF Undecided
  <1>4. ASSUME NEW m \in Moderators, NEW place, m \in Undecided, GoTo(m, place)
        PROVE  Undecided' \subseteq Undecided
    <2>1. CASE place = "idle"
      BY <1>3, <1>4, <2>1 DEF GoTo, Finish
    <2>2. CASE place # "idle"
      BY <1>0, <1>4, <2>2 DEF GoTo, Undecided, LaterRequests
    <2>3. QED
      BY <2>1, <2>2
  <1>5. CASE LaterTick
    <2>1. now' \in 0..LaterMaxTime /\ due' \in BOOLEAN
      BY <1>0, <1>5 DEF LaterTick
    <2>2. UNCHANGED <<kind, modReq, stamp, requests, laterFaults>>
      BY <1>5 DEF LaterTick, laterBounds
    <2>3. QED
      BY <1>1, <1>2, <2>1, <2>2 DEF LaterBounded
  <1>6. ASSUME NEW m \in Moderators, NEW s \in Subjects,
               NEW place \in {"idle", "lookup", "unschedule"}, NEW until \in EndTimes,
               NEW lift \in BOOLEAN, Asks(m, s, place, until, lift)
        PROVE  LaterBounded'
    <2>1. /\ UNCHANGED <<kind, now, due, stamp, laterFaults>>
          /\ requests < MaxRequests /\ requests' = requests + 1
      BY <1>6 DEF Asks, Begin
    <2>2. Undecided' \subseteq Undecided \cup {m}
      BY <1>0, <1>6 DEF Asks, Begin, Undecided
    <2>3. OneJobEach'
      BY <1>0, <2>1, <2>2, CountUndecided DEF LaterBounded, OneJobEach
    <2>4. requests' \in 0..MaxRequests
      BY <1>0, <2>1
    <2>5. QED
      BY <2>1, <2>3, <2>4 DEF LaterBounded
  <1>7. ASSUME NEW m \in Moderators, ModeratorStep(m)
        PROVE  LaterBounded'
    <2>1. UNCHANGED <<kind, now, due, requests, laterFaults>>
      BY <1>7 DEF ModeratorStep, NoteFails, LookUp, Unschedule, Unindex, Schedule, IndexJob,
                  laterBounds
    <2>2. CASE Schedule(m)
      <3>1. /\ modReq[m].at = "schedule" /\ stamp' = stamp + 1
            /\ \E j \in Entries : modReq' = [modReq EXCEPT ![m].at = "index", ![m].job = j]
        <4>1. modReq[m].until \in EndTimes /\ modReq[m].until # Forever
          BY <1>0, <2>2 DEF Schedule, RowInv, RequestsMeant, LaterRequests
        <4>2. now + modReq[m].until \in Nat /\ stamp + 1 \in Nat
          BY <1>0, <4>1 DEF EndTimes, Forever
        <4>3. QED
          BY <2>2, <4>2 DEF Schedule, Entries, NoEntry
      <3>2. m \in Undecided /\ Undecided' \subseteq Undecided \ {m}
        BY <1>0, <3>1 DEF Undecided, LaterRequests
      <3>3. OneJobEach'
        BY <1>0, <2>1, <3>1, <3>2, CountUndecided DEF LaterBounded, OneJobEach
      <3>4. QED
        BY <2>1, <3>3 DEF LaterBounded
    <2>3. CASE ~Schedule(m)
      <3>1. stamp' = stamp
        BY <1>7, <2>3 DEF ModeratorStep, NoteFails, LookUp, Unschedule, Unindex, IndexJob
      <3>2. Undecided' \subseteq Undecided
        <4>1. CASE modReq' = [modReq EXCEPT ![m] = NoReq]
          BY <1>3, <4>1
        <4>2. CASE \E place : m \in Undecided /\ GoTo(m, place)
          BY <1>4, <4>2
        <4>3. QED
          BY <1>7, <2>3, <4>1, <4>2 DEF ModeratorStep, NoteFails, LookUp, Unschedule, Unindex,
                                        IndexJob, Finish, Undecided
      <3>3. QED
        BY <1>1, <2>1, <3>1, <3>2 DEF LaterBounded
    <2>4. QED
      BY <2>2, <2>3
  <1>8. ASSUME NEW m \in Moderators, LaterRequestDies(m)
        PROVE  LaterBounded'
    <2>1. /\ UNCHANGED <<kind, now, due, stamp, requests>>
          /\ laterFaults' \in 0..MaxLaterFaults
      BY <1>0, <1>8 DEF LaterRequestDies
    <2>2. Undecided' \subseteq Undecided
      BY <1>3, <1>8 DEF LaterRequestDies, Finish
    <2>3. QED
      BY <1>1, <2>1, <2>2 DEF LaterBounded
  <1>9. CASE CronStep \/ HookFails \/ CronDies
    <2>1. UNCHANGED <<kind, now, stamp, modReq, requests>>
      BY <1>9 DEF CronStep, CronStart, HookLifts, HookUnschedules, HookUnindexes, CleanUp,
                  HookFails, CronDies, laterBounds
    <2>2. due' \in BOOLEAN
      BY <1>9 DEF CronStep, CronStart, HookLifts, HookUnschedules, HookUnindexes, CleanUp,
                  HookFails, CronDies, LaterBounded
    <2>3. laterFaults' \in 0..MaxLaterFaults
      BY <1>0, <1>9 DEF CronStep, CronStart, HookLifts, HookUnschedules, HookUnindexes, CleanUp,
                        HookFails, CronDies, laterBounds
    <2>4. QED
      BY <1>1, <1>2, <2>1, <2>2, <2>3 DEF LaterBounded
  <1>10. CASE UNCHANGED laterVars
    <2>1. UNCHANGED <<kind, now, due, stamp, modReq, requests, laterFaults>>
      BY <1>10 DEF laterVars, laterBounds
    <2>2. QED
      BY <1>1, <1>2, <2>1 DEF LaterBounded
  <1>11. QED
    BY <1>5, <1>6, <1>7, <1>8, <1>9, <1>10, RequestBegins DEF LaterNext

(***************************************************************************)
(* Delayed work keeps its types and its bounds, for any subjects, finitely *)
(* many handlers, any durations and failures: TryLater.run has something   *)
(* ready while it is at work, and no request schedules more than one job.  *)
(***************************************************************************)
THEOREM LaterTypeCorrect == LaterSafe => [](LaterTypeOK /\ OneJobEach)
  <1>1. ASSUME LaterInit PROVE LaterBounded
    <2>1. NoReq.at = "idle"
      BY DEF NoReq
    <2>2. Undecided = {}
      BY <1>1, <2>1 DEF LaterInit, Undecided
    <2>3. Cardinality(Undecided) = 0
      BY <2>2, FS_EmptySet
    <2>4. OneJobEach
      BY <1>1, <2>3 DEF LaterInit, OneJobEach
    <2>5. /\ now \in 0..LaterMaxTime
          /\ requests \in 0..MaxRequests /\ laterFaults \in 0..MaxLaterFaults
      BY <1>1, TryLaterAssumption DEF LaterInit
    <2>6. QED
      BY <1>1, <2>4, <2>5 DEF LaterInit, LaterBounded
  <1>2. RowInv /\ LaterBounded /\ [LaterNext]_laterVars => LaterBounded'
    BY LaterBoundedStep
  <1>3. ASSUME RowInv, LaterBounded PROVE LaterTypeOK /\ OneJobEach
    <2>1. stamp \in 0..MaxRequests
      BY <1>3, CountUndecided, TryLaterAssumption DEF RowInv, LaterTyped, LaterBounded, OneJobEach
    <2>2. (cron.at = "idle") = (cron.ready = {})
      BY <1>3 DEF RowInv, RunMeant
    <2>3. QED
      BY <1>3, <2>1, <2>2 DEF RowInv, LaterTyped, RunMeant, LaterBounded, LaterTypeOK,
                              LaterRequests
  <1>4. QED
    BY <1>1, <1>2, <1>3, RowInvariant, PTL DEF LaterSafe

-----------------------------------------------------------------------------
(* Jobs leave the row                                                      *)

(***************************************************************************)
(* TryLater.cleanup and unschedule: for any users, handlers, durations and *)
(* failures a job leaves the row only in the cleanup after its own batch,  *)
(* or because its own subject is being unscheduled.                        *)
(***************************************************************************)
THEOREM JobsStay == LaterSafe => JobsKept
  <1> DEFINE Kept ==
        \A j \in row \ row' :
          \/ cron.at = "cleanup" /\ j \in cron.ready
          \/ cron.at = "unschedule" /\ j.who = FirstJob(cron.todo).who
          \/ \E m \in Moderators : modReq[m].at = "unschedule" /\ modReq[m].who = j.who
  <1>1. RowInv /\ LaterNext => Kept
    <2> SUFFICES ASSUME RowInv, LaterNext PROVE Kept
      OBVIOUS
    <2>1. ASSUME row \subseteq row'
          PROVE  Kept
      BY <2>1
    <2>2. ASSUME NEW m \in Moderators, Unschedule(m)
          PROVE  Kept
      <3>1. modReq[m].at = "unschedule" /\ modReq[m].who \in Subjects
              /\ row' = Unscheduled(modReq[m].who)
        BY <2>2 DEF Unschedule, RowInv, RequestsMeant
      <3>2. \A j \in row \ row' : j.who = modReq[m].who
        BY <3>1, UnschedulesOwn
      <3>3. QED
        BY <3>1, <3>2
    <2>3. CASE HookUnschedules
      <3>1. cron.at = "unschedule" /\ cron.todo # {} /\ cron.todo \in SUBSET LaterJobs
              /\ row' = Unscheduled(FirstJob(cron.todo).who)
        BY <2>3 DEF HookUnschedules, RowInv, RunMeant, LaterTyped
      <3>2. FirstJob(cron.todo).who \in Subjects
        BY <3>1, FirstJobIsOne DEF LaterJobs
      <3>3. \A j \in row \ row' : j.who = FirstJob(cron.todo).who
        BY <3>1, <3>2, UnschedulesOwn
      <3>4. QED
        BY <3>1, <3>3
    <2>4. CASE CleanUp
      <3>1. cron.at = "cleanup" /\ row' = Remaining(cron.ready, cron.unripe)
        BY <2>4 DEF CleanUp
      <3>2. row' = row \ cron.ready
        BY <3>1, CleanUpExact
      <3>3. QED
        BY <3>1, <3>2
    <2>5. ASSUME NEW m \in Moderators, Schedule(m)
          PROVE  Kept
      BY <2>5, <2>1 DEF Schedule
    <2>6. ASSUME NEW m \in Moderators,
                 NoteFails(m) \/ LookUp(m) \/ Unindex(m) \/ IndexJob(m) \/ LaterRequestDies(m)
          PROVE  Kept
      BY <2>6, <2>1 DEF NoteFails, LookUp, Unindex, IndexJob, LaterRequestDies
    <2>7. ASSUME NEW m \in Moderators, NEW s \in Subjects,
                 \/ \E length \in {0} \cup Lengths : Ban(m, s, length) \/ Suspend(m, s, length)
                 \/ Mute(m, s) \/ Lift(m, s) \/ UnmuteAuthor(m, s) \/ Unsuspend(m, s)
          PROVE  Kept
      BY <2>7, <2>1, RequestBegins DEF Asks
    <2>8. CASE LaterTick \/ CronStart \/ HookLifts \/ HookUnindexes \/ HookFails \/ CronDies
      BY <2>8, <2>1 DEF LaterTick, CronStart, HookLifts, HookUnindexes, HookFails, CronDies
    <2>9. QED
      BY <2>2, <2>3, <2>4, <2>5, <2>6, <2>7, <2>8 DEF LaterNext, ModeratorStep, CronStep
  <1>2. RowInv /\ [LaterNext]_laterVars => [Kept]_laterVars
    BY <1>1
  <1>3. LaterSafe => [][Kept]_laterVars
    BY <1>2, RowInvariant, PTL DEF LaterSafe
  <1>4. QED
    BY <1>3 DEF JobsKept

-----------------------------------------------------------------------------
(* What was told                                                           *)

(***************************************************************************)
(* A step of another request, of the clock, or of the run with another     *)
(* subject leaves what is known of s as it is.                             *)
(***************************************************************************)
LEMMA SameFor ==
  ASSUME NEW s \in Subjects, Told(s), kind' = kind, JobsOf(s)' = JobsOf(s),
         s \in active' <=> s \in active, promised'[s] = promised[s],
         index'[s] = index[s],
         \A m \in Moderators : Serves(m, s)' <=> Serves(m, s),
         \A m \in Moderators : Serves(m, s) => modReq'[m] = modReq[m],
         CronHolds(s)' <=> CronHolds(s), RunKnows(s)'
  PROVE  Told(s)'
  <1>1. AsTold(s)' <=> AsTold(s)
    BY DEF AsTold
  <1>2. Busy(s)' <=> Busy(s)
    BY DEF Busy, Serves
  <1>3. Alone(s)'
    BY <1>2 DEF Told, Alone
  <1>4. IndexKnows(s)'
    BY DEF Told, IndexKnows
  <1>5. ASSUME NEW m \in Moderators, Serves(m, s)'
        PROVE  Knows(modReq[m], s)'
    <2>1. Knows(modReq[m], s) /\ modReq'[m] = modReq[m]
      BY <1>5 DEF Told, RequestKnows
    <2>2. QED
      BY <1>1, <2>1 DEF Knows
  <1>6. Quiet(s)' /\ (s \in active' \/ kind' # "suspended") => AsTold(s)'
    BY <1>1, <1>2 DEF Told, Quiet
  <1>7. QED
    BY <1>3, <1>4, <1>5, <1>6 DEF Told, RequestKnows

(***************************************************************************)
(* What is left to show of s when the only request for it takes a step to  *)
(* r, or begins.                                                           *)
(***************************************************************************)
LEMMA ServedStep ==
  ASSUME NEW s \in Subjects, NEW m \in Moderators, NEW r,
         modReq \in [Moderators -> LaterRequests],
         modReq' = [modReq EXCEPT ![m] = r], cron' = cron, ~CronHolds(s),
         \A n \in Moderators \ {m} : ~Serves(n, s),
         r.at = "idle" \/ r.who = s,
         r.at = "index" \/ \A j \in JobsOf(s)' : j.stamp = index'[s].stamp,
         IF r.at = "idle" THEN (s \in active' \/ kind' # "suspended") => AsTold(s)'
         ELSE Knows(r, s)'
  PROVE  Told(s)'
  <1>1. ~CronHolds(s)'
    BY DEF CronHolds
  <1>2. modReq'[m] = r /\ \A n \in Moderators \ {m} : modReq'[n] = modReq[n]
    OBVIOUS
  <1>3. \A n \in Moderators \ {m} : ~Serves(n, s)'
    BY <1>2 DEF Serves
  <1>4. Serves(m, s)' <=> r.at # "idle"
    BY <1>2 DEF Serves
  <1>5. Alone(s)'
    BY <1>1, <1>3 DEF Alone
  <1>6. IndexKnows(s)'
    BY <1>2, <1>4 DEF IndexKnows
  <1>7. ASSUME NEW n \in Moderators, Serves(n, s)'
        PROVE  Knows(modReq[n], s)'
    <2>1. n = m /\ r.at # "idle" /\ modReq'[n] = r
      BY <1>2, <1>3, <1>4, <1>7
    <2>2. Knows(r, s)'
      BY <2>1
    <2>3. QED
      BY <2>1, <2>2 DEF Knows
  <1>8. RunKnows(s)'
    BY <1>1 DEF RunKnows
  <1>9. Quiet(s)' => r.at = "idle"
    BY <1>4 DEF Quiet, Busy, Serves
  <1>10. QED
    BY <1>5, <1>6, <1>7, <1>8, <1>9 DEF Told, RequestKnows

(***************************************************************************)
(* A request for another subject leaves what is known of s as it is.       *)
(***************************************************************************)
LEMMA OtherRequest ==
  ASSUME NEW s \in Subjects, NEW m \in Moderators, NEW r,
         modReq \in [Moderators -> LaterRequests],
         modReq' = [modReq EXCEPT ![m] = r], cron' = cron, kind' = kind,
         ~Serves(m, s), r.at = "idle" \/ r.who # s,
         Told(s), JobsOf(s)' = JobsOf(s), s \in active' <=> s \in active,
         promised'[s] = promised[s], index'[s] = index[s]
  PROVE  Told(s)'
  <1>1. modReq'[m] = r /\ \A n \in Moderators \ {m} : modReq'[n] = modReq[n]
    OBVIOUS
  <1>2. \A n \in Moderators : Serves(n, s)' <=> Serves(n, s)
    BY <1>1 DEF Serves
  <1>3. \A n \in Moderators : Serves(n, s) => modReq'[n] = modReq[n]
    BY <1>1
  <1>4. CronHolds(s)' <=> CronHolds(s)
    BY DEF CronHolds
  <1>5. RunKnows(s)'
    BY <1>4 DEF Told, RunKnows
  <1>6. QED
    BY <1>2, <1>3, <1>4, <1>5, SameFor

(***************************************************************************)
(* Where the next call finds the request.                                  *)
(***************************************************************************)
LEMMA GoToRecord ==
  ASSUME modReq \in [Moderators -> LaterRequests], NEW m \in Moderators, NEW place,
         GoTo(m, place)
  PROVE  \E r : /\ modReq' = [modReq EXCEPT ![m] = r] /\ r.at = place
                /\ place # "idle" =>
                      /\ r.who = modReq[m].who /\ r.until = modReq[m].until
                      /\ r.lift = modReq[m].lift
  <1>1. CASE place = "idle"
    BY <1>1 DEF GoTo, Finish, NoReq
  <1>2. CASE place # "idle"
    <2> DEFINE r == [modReq[m] EXCEPT !.at = place]
    <2>1. modReq' = [modReq EXCEPT ![m] = r]
      BY <1>2 DEF GoTo
    <2>2. r.at = place /\ r.who = modReq[m].who /\ r.until = modReq[m].until
            /\ r.lift = modReq[m].lift
      BY DEF LaterRequests
    <2>3. QED
      BY <2>1, <2>2
  <1>3. QED
    BY <1>1, <1>2

(***************************************************************************)
(* While a request serves s, and nothing upset it, it is the only one and  *)
(* the run does not have s.                                                *)
(***************************************************************************)
LEMMA OnlyServer ==
  ASSUME NEW s \in Subjects, NEW m \in Moderators, Told(s), Serves(m, s)
  PROVE  /\ ~CronHolds(s) /\ \A n \in Moderators \ {m} : ~Serves(n, s)
         /\ Knows(modReq[m], s)
         /\ modReq[m].at = "index" \/ \A j \in JobsOf(s) : j.stamp = index[s].stamp
  <1>1. Busy(s)
    BY DEF Busy, Serves
  <1>2. ~CronHolds(s) /\ \A n \in Moderators \ {m} : ~Serves(n, s)
    BY <1>1 DEF Told, Alone
  <1>3. QED
    BY <1>2 DEF Told, RequestKnows, IndexKnows

(***************************************************************************)
(* A request that begins keeps what is known of s.                         *)
(***************************************************************************)
LEMMA ToldAsks ==
  ASSUME RowInv, NEW s \in Subjects, Told(s), upset'[s] = {},
         NEW m \in Moderators, NEW t \in Subjects,
         NEW place \in {"idle", "lookup", "unschedule"}, NEW until \in EndTimes,
         NEW lift \in BOOLEAN, Asks(m, t, place, until, lift)
  PROVE  Told(s)'
  <1>a. /\ modReq \in [Moderators -> LaterRequests]
        /\ upset \in [Subjects -> SUBSET {"crossed", "late", "torn"}]
    BY DEF RowInv, LaterTyped
  <1>b. UNCHANGED <<kind, row, index, cron, promised>> /\ modReq[m].at = "idle"
    BY DEF Asks, Begin
  <1>c. JobsOf(s)' = JobsOf(s)
    BY <1>b DEF JobsOf
  <1>d. ~Serves(m, s)
    BY <1>b DEF Serves
  <1>1. PICK r : /\ modReq' = [modReq EXCEPT ![m] = r] /\ r.at = place
                 /\ place # "idle" => /\ r.who = t /\ r.until = until /\ r.lift = lift
                                      /\ r.new <=> t \notin active
    <2>1. CASE place = "idle"
      <3>1. modReq' = [modReq EXCEPT ![m] = NoReq]
        BY <2>1 DEF Asks, Begin
      <3>2. NoReq.at = "idle"
        BY DEF NoReq
      <3>3. QED
        BY <2>1, <3>1, <3>2
    <2>2. CASE place # "idle"
      <3> DEFINE q == [NoReq EXCEPT !.at = place, !.who = t, !.until = until,
                                    !.lift = lift, !.new = t \notin active]
      <3>1. modReq' = [modReq EXCEPT ![m] = q]
        BY <2>2 DEF Asks, Begin
      <3>2. q.at = place /\ q.who = t /\ q.until = until /\ q.lift = lift
              /\ (q.new <=> t \notin active)
        BY DEF NoReq
      <3>3. QED
        BY <3>1, <3>2
    <2>3. QED
      BY <2>1, <2>2
  <1>2. CASE t # s
    <2>1. s \in active' <=> s \in active
      BY <1>2 DEF Asks
    <2>2. QED
      BY <1>a, <1>b, <1>c, <1>d, <1>1, <1>2, <2>1, OtherRequest
  <1>3. CASE t = s
    <2>1. ~Busy(s) /\ ~CronHolds(s)
      <3>1. upset'[s] = upset[s] \cup (IF Busy(s) \/ CronHolds(s) THEN {"crossed"} ELSE {})
        BY <1>a, <1>3 DEF Asks, Begin
      <3>2. QED
        BY <3>1
    <2>2. \A n \in Moderators \ {m} : ~Serves(n, s)
      BY <2>1 DEF Busy, Serves
    <2>3. (s \in active \/ kind # "suspended") => AsTold(s)
      BY <2>1 DEF Told, Quiet
    <2>4. \A j \in JobsOf(s)' : j.stamp = index'[s].stamp
      BY <1>b, <1>c, <2>1 DEF Told, IndexKnows, Serves, Busy
    <2>5. s \notin active /\ kind # "suspended" => JobsOf(s) = {}
      BY <2>3 DEF AsTold
    <2>6. CASE place = "idle"
      <3>1. s \notin active' /\ (kind = "suspended" \/ s \notin active)
        BY <1>3, <2>6 DEF Asks
      <3>2. (s \in active' \/ kind' # "suspended") => AsTold(s)'
        BY <1>b, <1>c, <2>5, <3>1 DEF AsTold
      <3>3. QED
        BY <1>a, <1>b, <1>1, <2>1, <2>2, <2>4, <2>6, <3>2, ServedStep
    <2>7. CASE place # "idle"
      <3>1. lift <=> s \notin active'
        BY <1>3 DEF Asks
      <3>2. lift => place = "unschedule" /\ until = Forever
        BY <2>7 DEF Asks
      <3>3. place = "lookup" /\ s \in active => AsTold(s)'
        <4>1. place = "lookup" => s \in active'
          BY <3>1, <3>2
        <4>2. QED
          BY <1>b, <1>c, <2>3, <4>1 DEF AsTold
      <3>4. Knows(r, s)'
        BY <1>b, <1>c, <1>1, <1>3, <2>5, <2>7, <3>1, <3>2, <3>3 DEF Knows
      <3>5. QED
        BY <1>a, <1>b, <1>1, <1>3, <2>1, <2>2, <2>4, <2>7, <3>4, ServedStep
    <2>8. QED
      BY <2>6, <2>7
  <1>4. QED
    BY <1>2, <1>3

(***************************************************************************)
(* So does every call a request makes.                                     *)
(***************************************************************************)
LEMMA ToldCalls ==
  ASSUME RowInv, NEW s \in Subjects, Told(s), upset'[s] = {},
         NEW m \in Moderators, ModeratorStep(m) \/ LaterRequestDies(m)
  PROVE  Told(s)'
  <1> DEFINE q == modReq[m]
  <1>a. modReq \in [Moderators -> LaterRequests]
          /\ upset \in [Subjects -> SUBSET {"crossed", "late", "torn"}]
          /\ index \in [Subjects -> Entries] /\ promised \in [Subjects -> EndTimes]
    BY DEF RowInv, LaterTyped
  <1>b. q.at # "idle" /\ q.who \in Subjects
    <2>1. q.at # "idle"
      BY DEF ModeratorStep, NoteFails, LookUp, Unschedule, Unindex, Schedule, IndexJob,
             LaterRequestDies
    <2>2. QED
      BY <2>1 DEF RowInv, RequestsMeant
  <1>c. cron' = cron /\ kind' = kind /\ active' = active
    BY DEF ModeratorStep, NoteFails, LookUp, Unschedule, Unindex, Schedule, IndexJob,
           LaterRequestDies
  <1>1. CASE q.who # s
    <2>1. ~Serves(m, s)
      BY <1>1 DEF Serves
    <2>2. promised'[s] = promised[s] /\ index'[s] = index[s]
      BY <1>a, <1>b, <1>1 DEF ModeratorStep, NoteFails, LookUp, Unschedule, Unindex, Schedule,
                              IndexJob, LaterRequestDies
    <2>3. JobsOf(s)' = JobsOf(s)
      <3>1. CASE row' = row
        BY <3>1 DEF JobsOf
      <3>2. CASE Unschedule(m)
        <4>1. row' = Unscheduled(q.who)
          BY <3>2 DEF Unschedule
        <4>2. \A j \in row \ row' : j.who = q.who
          BY <1>b, <4>1, UnschedulesOwn
        <4>3. row' \subseteq row
          BY <4>1 DEF Unscheduled
        <4>4. QED
          BY <1>1, <4>2, <4>3 DEF JobsOf
      <3>3. CASE Schedule(m)
        <4>1. PICK j : row' = row \cup {j} /\ j.who = q.who
          <5> DEFINE k == [who |-> q.who, ready |-> now + q.until, stamp |-> stamp']
          <5>1. row' = row \cup {k}
            BY <3>3 DEF Schedule
          <5>2. k.who = q.who
            OBVIOUS
          <5>3. QED
            BY <5>1, <5>2
        <4>2. QED
          BY <1>1, <4>1 DEF JobsOf
      <3>4. QED
        BY <3>1, <3>2, <3>3 DEF ModeratorStep, NoteFails, LookUp, Unindex, IndexJob,
                                LaterRequestDies
    <2>4. PICK r : modReq' = [modReq EXCEPT ![m] = r] /\ (r.at = "idle" \/ r.who = q.who)
      <3>1. CASE Finish(m)
        <4>1. modReq' = [modReq EXCEPT ![m] = NoReq]
          BY <3>1 DEF Finish
        <4>2. NoReq.at = "idle"
          BY DEF NoReq
        <4>3. QED
          BY <4>1, <4>2
      <3>2. ASSUME NEW place, GoTo(m, place)
            PROVE  \E r : modReq' = [modReq EXCEPT ![m] = r] /\ (r.at = "idle" \/ r.who = q.who)
        BY <1>a, <3>2, GoToRecord
      <3>3. CASE Schedule(m)
        <4> DEFINE r == [q EXCEPT !.at = "index",
                                  !.job = [NoEntry EXCEPT !.ready = now + q.until,
                                                          !.stamp = stamp']]
        <4>1. modReq' = [modReq EXCEPT ![m] = r]
          BY <1>a, <3>3 DEF Schedule
        <4>2. r.who = q.who
          BY <1>a DEF LaterRequests
        <4>3. QED
          BY <4>1, <4>2
      <3>4. QED
        BY <3>1, <3>2, <3>3 DEF ModeratorStep, NoteFails, LookUp, Unschedule, Unindex, IndexJob,
                                LaterRequestDies
    <2>5. QED
      BY <1>a, <1>c, <1>1, <2>1, <2>2, <2>3, <2>4, OtherRequest
  <1>2. CASE q.who = s
    <2>1. Serves(m, s)
      BY <1>b, <1>2 DEF Serves
    <2>2. /\ ~CronHolds(s) /\ \A n \in Moderators \ {m} : ~Serves(n, s)
          /\ Knows(q, s)
          /\ q.at = "index" \/ \A j \in JobsOf(s) : j.stamp = index[s].stamp
      BY <2>1, OnlyServer
    <2>d. ASSUME upset' = [upset EXCEPT ![s] = @ \cup Late(s)]
          PROVE  JobsOf(s) # {} => Found(s)
      BY <1>a, <2>d DEF Late
    <2>3. ASSUME NoteFails(m)
          PROVE  FALSE
      BY <1>2, <2>2, <2>3 DEF NoteFails, Knows
    <2>4. ASSUME LaterRequestDies(m)
          PROVE  FALSE
      BY <1>a, <1>2, <2>4 DEF LaterRequestDies
    <2>5. CASE LookUp(m)
      <3>1. /\ q.at = "lookup" /\ s \in active /\ ~q.lift
            /\ IF q.new THEN kind # "suspended" => JobsOf(s) = {} ELSE AsTold(s)
        BY <2>2, <2>5 DEF LookUp, Knows
      <3>2. PICK r : /\ modReq' = [modReq EXCEPT ![m] = r] /\ r.at = NextCall(q)
                     /\ NextCall(q) # "idle" =>
                           r.who = s /\ r.until = q.until /\ r.lift = q.lift
        BY <1>a, <1>2, <2>5, GoToRecord DEF LookUp
      <3>3. UNCHANGED <<row, index>> /\ JobsOf(s)' = JobsOf(s)
        BY <2>5 DEF LookUp, JobsOf
      <3>4. kind # "muted" /\ JobsOf(s) # {} => Found(s)
        BY <1>2, <2>5, <2>d DEF LookUp
      <3>5. kind = "muted" => q.until # Forever
        BY <3>1 DEF RowInv, RequestsMeant
      <3>6. NextCall(q) \in {"idle", "unschedule", "schedule"}
        BY DEF NextCall
      <3>7. CASE NextCall(q) = "idle"
        <4>1. CASE q.until = Forever
          <5>1. promised'[s] = Forever
            BY <1>a, <1>2, <2>5, <3>7, <4>1 DEF LookUp
          <5>2. JobsOf(s) = {}
            BY <1>2, <3>1, <3>4, <3>5, <3>7, <4>1 DEF NextCall
          <5>3. AsTold(s)'
            BY <3>3, <5>1, <5>2 DEF AsTold
          <5>4. QED
            BY <1>a, <1>c, <2>2, <3>1, <3>2, <3>3, <3>7, <5>3, ServedStep
        <4>2. CASE q.until # Forever
          <5>1. promised' = promised
            BY <2>5, <4>2 DEF LookUp
          <5>2. ~q.new
            BY <1>2, <3>7, <4>2 DEF NextCall
          <5>3. AsTold(s)'
            BY <1>c, <3>1, <3>3, <5>1, <5>2 DEF AsTold
          <5>4. QED
            BY <1>a, <1>c, <2>2, <3>1, <3>2, <3>3, <3>7, <5>3, ServedStep
        <4>3. QED
          BY <4>1, <4>2
      <3>8. CASE NextCall(q) # "idle"
        <4>1. NextCall(q) = "schedule" => JobsOf(s) = {}
          BY <1>2, <3>1, <3>4 DEF NextCall
        <4>2. Knows(r, s)'
          BY <1>c, <3>1, <3>2, <3>3, <3>6, <3>8, <4>1 DEF Knows
        <4>3. QED
          BY <1>a, <1>c, <2>2, <3>1, <3>2, <3>3, <3>8, <4>2, ServedStep
      <3>9. QED
        BY <3>7, <3>8
    <2>6. CASE Unschedule(m)
      <3>1. q.at = "unschedule" /\ row' = Unscheduled(s) /\ UNCHANGED index
        BY <1>2, <2>6 DEF Unschedule
      <3>2. JobsOf(s) # {} => Found(s)
        BY <1>2, <2>6, <2>d DEF Unschedule
      <3>3. JobsOf(s)' = {}
        BY <2>2, <3>1, <3>2 DEF JobsOf, Unscheduled
      <3>4. PICK r : /\ modReq' = [modReq EXCEPT ![m] = r] /\ r.at = "unindex"
                     /\ r.who = s /\ r.until = q.until /\ r.lift = q.lift
        BY <1>a, <1>2, <2>6, GoToRecord DEF Unschedule
      <3>5. Knows(r, s)'
        BY <1>c, <2>2, <3>1, <3>3, <3>4 DEF Knows
      <3>6. QED
        BY <1>a, <1>c, <2>2, <3>3, <3>4, <3>5, ServedStep
    <2>7. CASE Unindex(m)
      <3>1. q.at = "unindex" /\ JobsOf(s) = {} /\ JobsOf(s)' = {}
        BY <2>2, <2>7 DEF Unindex, Knows, JobsOf
      <3>2. CASE q.until # Forever
        <4>1. GoTo(m, "schedule")
          BY <2>7, <3>2 DEF Unindex
        <4>2. PICK r : /\ modReq' = [modReq EXCEPT ![m] = r] /\ r.at = "schedule"
                       /\ r.who = s /\ r.until = q.until /\ r.lift = q.lift
          BY <1>a, <1>2, <4>1, GoToRecord
        <4>3. Knows(r, s)'
          BY <1>c, <2>2, <3>1, <3>2, <4>2 DEF Knows
        <4>4. QED
          BY <1>a, <1>c, <2>2, <3>1, <4>2, <4>3, ServedStep
      <3>3. CASE q.until = Forever
        <4>1. modReq' = [modReq EXCEPT ![m] = NoReq] /\ NoReq.at = "idle"
          BY <2>7, <3>3 DEF Unindex, Finish, NoReq
        <4>2. s \in active => promised'[s] = Forever
          BY <1>a, <1>2, <2>2, <2>7, <3>3 DEF Unindex, Knows
        <4>3. AsTold(s)'
          BY <1>c, <3>1, <4>2 DEF AsTold
        <4>4. QED
          BY <1>a, <1>c, <2>2, <3>1, <4>1, <4>3, ServedStep
      <3>4. QED
        BY <3>2, <3>3
    <2>8. CASE Schedule(m)
      <3> DEFINE e == [NoEntry EXCEPT !.ready = now + q.until, !.stamp = stamp']
                 r == [q EXCEPT !.at = "index", !.job = e]
                 j == [who |-> s, ready |-> now + q.until, stamp |-> stamp']
      <3>1. q.at = "schedule" /\ JobsOf(s) = {} /\ row' = row \cup {j}
        BY <1>2, <2>2, <2>8 DEF Schedule, Knows
      <3>2. JobsOf(s)' = {j}
        BY <3>1 DEF JobsOf
      <3>3. modReq' = [modReq EXCEPT ![m] = r]
        BY <1>a, <2>8 DEF Schedule
      <3>4. e.ready = now + q.until /\ e.stamp = stamp'
        BY DEF NoEntry
      <3>5. r.at = "index" /\ r.who = s /\ r.lift = q.lift /\ r.job = e
        BY <1>a, <1>2 DEF LaterRequests
      <3>6. JobsOf(s)' = {[who |-> s, ready |-> r.job.ready, stamp |-> r.job.stamp]}
        BY <3>2, <3>4, <3>5
      <3>7. PICK p : p = r
        OBVIOUS
      <3>8. Knows(p, s)'
        BY <1>c, <2>2, <3>1, <3>5, <3>6, <3>7 DEF Knows
      <3>9. modReq' = [modReq EXCEPT ![m] = p] /\ p.at = "index" /\ p.who = s
        BY <3>3, <3>5, <3>7
      <3>10. QED
        BY <1>a, <1>c, <2>2, <3>8, <3>9, ServedStep
    <2>9. CASE IndexJob(m)
      <3>1. /\ q.at = "index" /\ q.job \in Entries /\ s \in active
            /\ JobsOf(s) = {[who |-> s, ready |-> q.job.ready, stamp |-> q.job.stamp]}
        BY <1>a, <2>2, <2>9 DEF IndexJob, Knows, LaterRequests
      <3>2. JobsOf(s)' = JobsOf(s)
        BY <2>9 DEF IndexJob, JobsOf
      <3>3. index'[s].stamp = q.job.stamp /\ promised'[s] = q.job.ready
        BY <1>a, <1>2, <2>9, <3>1 DEF IndexJob, Entries
      <3>4. q.job.ready # Forever
        BY <3>1 DEF Entries, Forever
      <3>5. AsTold(s)'
        BY <1>c, <3>1, <3>2, <3>3, <3>4 DEF AsTold
      <3>6. \A j \in JobsOf(s)' : j.stamp = index'[s].stamp
        BY <3>1, <3>2, <3>3
      <3>7. modReq' = [modReq EXCEPT ![m] = NoReq] /\ NoReq.at = "idle"
        BY <2>9 DEF IndexJob, Finish, NoReq
      <3>8. QED
        BY <1>a, <1>c, <2>2, <3>5, <3>6, <3>7, ServedStep
    <2>10. QED
      BY <2>3, <2>4, <2>5, <2>6, <2>7, <2>8, <2>9 DEF ModeratorStep
  <1>3. QED
    BY <1>1, <1>2

(***************************************************************************)
(* So does the run: it has all the jobs of the subjects it has, lifts each *)
(* before the cleanup, and the cleanup takes all their jobs.               *)
(***************************************************************************)
LEMMA ToldRuns ==
  ASSUME RowInv, NEW s \in Subjects, Told(s), upset'[s] = {},
         CronStep \/ HookFails \/ CronDies
  PROVE  Told(s)'
  <1> USE DEF RowInv
  <1>a. UNCHANGED <<kind, now, modReq, promised>>
    BY DEF CronStep, CronStart, HookLifts, HookUnschedules, HookUnindexes, CleanUp, HookFails,
           CronDies
  <1>b. /\ \A m \in Moderators : Serves(m, s)' <=> Serves(m, s)
        /\ \A m \in Moderators : Serves(m, s) => modReq'[m] = modReq[m]
        /\ Busy(s)' <=> Busy(s)
    BY <1>a DEF Serves, Busy
  <1>c. ASSUME row' = row
        PROVE  JobsOf(s)' = JobsOf(s)
    BY <1>c DEF JobsOf
  <1>d. ASSUME CronHolds(s), CronHolds(s)', RunKnows(s)'
        PROVE  Told(s)'
    <2>1. ~Busy(s)' /\ \A m \in Moderators : ~Serves(m, s)'
      BY <1>b, <1>d DEF Told, Alone, Busy, Serves
    <2>2. QED
      BY <1>d, <2>1 DEF Told, Alone, IndexKnows, RequestKnows, Quiet
  <1>e. ASSUME ~CronHolds(s), ~CronHolds(s)', JobsOf(s)' = JobsOf(s),
               s \in active' <=> s \in active, index'[s] = index[s]
        PROVE  Told(s)'
    <2>1. RunKnows(s)'
      BY <1>e DEF RunKnows
    <2>2. QED
      BY <1>a, <1>b, <1>e, <2>1, SameFor
  <1>f. cron.ready \subseteq LaterJobs /\ cron.todo \subseteq cron.ready
    BY DEF LaterTyped, RunMeant
  <1>g. ASSUME cron.at \in {"hook", "unschedule", "unindex"}
        PROVE  FirstJob(cron.todo) \in cron.todo /\ FirstJob(cron.todo).who \in Subjects
    <2>1. cron.todo # {} /\ cron.todo \in SUBSET LaterJobs
      BY <1>f, <1>g DEF RunMeant
    <2>2. FirstJob(cron.todo) \in cron.todo
      BY <2>1, FirstJobIsOne
    <2>3. QED
      BY <2>1, <2>2 DEF LaterJobs
  <1>h. ASSUME cron.at \in {"hook", "unschedule", "unindex"}, cron'.at # "idle",
               cron'.ready = cron.ready
        PROVE  CronHolds(s)' <=> CronHolds(s)
    BY <1>h DEF CronHolds
  <1>i. ASSUME cron.at \in {"hook", "unschedule", "unindex"}, ~CronHolds(s)
        PROVE  FirstJob(cron.todo).who # s
    BY <1>f, <1>g, <1>i DEF CronHolds
  <1>j. /\ upset \in [Subjects -> SUBSET {"crossed", "late", "torn"}]
        /\ index \in [Subjects -> Entries]
    BY DEF LaterTyped
  <1>k. ASSUME cron.at \in {"hook", "unindex"}, cron' = After(Rest(cron.todo))
        PROVE  /\ cron'.at \in {"hook", "cleanup"} /\ cron'.ready = cron.ready
               /\ (\E j \in cron.todo : j.who = s) /\ FirstJob(cron.todo).who # s =>
                     cron'.at = "hook" /\ \E j \in cron'.todo : j.who = s
    BY <1>k DEF After, Rest, LaterTyped
  <1>1. CASE CronStart
    <2>0. /\ cron.at = "idle" /\ ~CronHolds(s)
          /\ UNCHANGED <<row, index, active>> /\ JobsOf(s)' = JobsOf(s)
          /\ \A j \in ReadyJobs : j \in row /\ kind # "suspended" /\ j.ready <= now
      BY <1>1, <1>c DEF CronStart, CronHolds, ReadyJobs, Hooked
    <2>1. CASE \E j \in ReadyJobs : j.who = s
      <3>1. cron' = [at |-> "hook", ready |-> ReadyJobs, unripe |-> row \ ReadyJobs,
                     todo |-> ReadyJobs]
        BY <1>1, <2>1 DEF CronStart
      <3>2. ~Busy(s)
        <4>1. upset'[s] = upset[s] \cup (IF Busy(s) /\ \E j \in ReadyJobs : j.who = s
                                         THEN {"crossed"} ELSE {})
          BY <1>1 DEF CronStart
        <4>2. QED
          BY <2>1, <4>1
      <3>3. AsTold(s)
        BY <2>0, <2>1, <3>2 DEF Told, Quiet
      <3>4. PICK f \in ReadyJobs : f.who = s
        BY <2>1
      <3>5. \A j \in JobsOf(s) : j.ready = f.ready
        BY <2>0, <3>3, <3>4 DEF AsTold, JobsOf
      <3>6. JobsOf(s) \subseteq ReadyJobs
        BY <2>0, <3>4, <3>5 DEF JobsOf, ReadyJobs
      <3>7. CronHolds(s)'
        BY <3>1, <3>4 DEF CronHolds
      <3>8. RunKnows(s)'
        BY <2>0, <3>1, <3>4, <3>6 DEF RunKnows
      <3>9. ~Busy(s)' /\ \A m \in Moderators : ~Serves(m, s)'
        BY <1>b, <3>2 DEF Busy, Serves
      <3>10. QED
        BY <3>7, <3>8, <3>9 DEF Told, Alone, IndexKnows, RequestKnows, Quiet
    <2>2. CASE ~\E j \in ReadyJobs : j.who = s
      <3>1. cron'.ready = ReadyJobs
        BY <1>1 DEF CronStart, NoRun
      <3>2. ~CronHolds(s)'
        BY <2>2, <3>1 DEF CronHolds
      <3>3. QED
        BY <1>e, <2>0, <3>2
    <2>3. QED
      BY <2>1, <2>2
  <1>2. CASE HookLifts
    <2>0. /\ cron.at = "hook" /\ UNCHANGED <<row, index>> /\ JobsOf(s)' = JobsOf(s)
          /\ active' = active \ {FirstJob(cron.todo).who}
      BY <1>2, <1>c DEF HookLifts
    <2>1. cron'.at \in {"hook", "unschedule", "cleanup"} /\ cron'.ready = cron.ready
      <3>1. CASE kind = "muted"
        BY <1>2, <3>1 DEF HookLifts, LaterTyped
      <3>2. CASE kind # "muted"
        BY <1>2, <1>k, <2>0, <3>2 DEF HookLifts
      <3>3. QED
        BY <3>1, <3>2
    <2>2. CronHolds(s)' <=> CronHolds(s)
      BY <1>h, <2>0, <2>1
    <2>3. CASE ~CronHolds(s)
      BY <1>e, <1>i, <2>0, <2>2, <2>3
    <2>4. CASE CronHolds(s)
      <3>1. JobsOf(s)' \subseteq cron'.ready
        BY <2>0, <2>1, <2>4 DEF Told, RunKnows
      <3>2. CASE FirstJob(cron.todo).who = s
        BY <1>d, <2>0, <2>2, <2>4, <3>1, <3>2 DEF RunKnows
      <3>3. CASE FirstJob(cron.todo).who # s
        <4>1. s \in active' => s \in active /\ \E j \in cron.todo : j.who = s
          BY <2>0, <2>4 DEF Told, RunKnows
        <4>2. CASE kind = "muted"
          <5>1. cron' = [cron EXCEPT !.at = "unschedule"]
            BY <1>2, <4>2 DEF HookLifts
          <5>2. cron'.todo = cron.todo /\ cron'.at = "unschedule"
            BY <5>1 DEF LaterTyped
          <5>3. RunKnows(s)'
            BY <3>1, <3>3, <4>1, <5>2 DEF RunKnows
          <5>4. QED
            BY <1>d, <2>2, <2>4, <5>3
        <4>3. CASE kind # "muted"
          <5>1. cron' = After(Rest(cron.todo))
            BY <1>2, <4>3 DEF HookLifts
          <5>2. RunKnows(s)'
            BY <1>k, <2>0, <3>1, <3>3, <4>1, <5>1 DEF RunKnows
          <5>3. QED
            BY <1>d, <2>2, <2>4, <5>2
        <4>4. QED
          BY <4>2, <4>3
      <3>4. QED
        BY <3>2, <3>3
    <2>5. QED
      BY <2>3, <2>4
  <1>3. CASE HookUnschedules
    <2>0. /\ cron.at = "unschedule" /\ UNCHANGED <<active, index>>
          /\ row' = Unscheduled(FirstJob(cron.todo).who)
      BY <1>3 DEF HookUnschedules
    <2>1. cron'.at = "unindex" /\ cron'.ready = cron.ready /\ cron'.todo = cron.todo
      BY <1>3 DEF HookUnschedules, LaterTyped
    <2>2. CronHolds(s)' <=> CronHolds(s)
      BY <1>h, <2>0, <2>1
    <2>3. row' \subseteq row
      BY <2>0 DEF Unscheduled
    <2>4. CASE ~CronHolds(s)
      <3>1. FirstJob(cron.todo).who # s /\ FirstJob(cron.todo).who \in Subjects
        BY <1>g, <1>i, <2>0, <2>4
      <3>2. \A j \in row \ row' : j.who # s
        BY <2>0, <3>1, UnschedulesOwn
      <3>3. JobsOf(s)' = JobsOf(s)
        BY <2>3, <3>2 DEF JobsOf
      <3>4. QED
        BY <1>e, <2>0, <2>2, <2>4, <3>3
    <2>5. CASE CronHolds(s)
      <3>1. JobsOf(s)' \subseteq JobsOf(s)
        BY <2>3 DEF JobsOf
      <3>2. RunKnows(s)'
        BY <2>0, <2>1, <2>5, <3>1 DEF Told, RunKnows
      <3>3. QED
        BY <1>d, <2>2, <2>5, <3>2
    <2>6. QED
      BY <2>4, <2>5
  <1>4. CASE HookUnindexes
    <2>0. /\ cron.at = "unindex" /\ UNCHANGED <<active, row>> /\ JobsOf(s)' = JobsOf(s)
          /\ index' = [index EXCEPT ![FirstJob(cron.todo).who] = NoEntry]
          /\ cron' = After(Rest(cron.todo))
      BY <1>4, <1>c DEF HookUnindexes
    <2>1. CronHolds(s)' <=> CronHolds(s)
      BY <1>h, <1>k, <2>0
    <2>2. CASE ~CronHolds(s)
      <3>1. index'[s] = index[s]
        BY <1>i, <1>j, <2>0, <2>2
      <3>2. QED
        BY <1>e, <2>0, <2>1, <2>2, <3>1
    <2>3. CASE CronHolds(s)
      <3>1. /\ JobsOf(s)' \subseteq cron.ready
            /\ s \in active => \E j \in cron.todo : j.who = s
            /\ FirstJob(cron.todo).who = s => s \notin active
        BY <2>0, <2>3 DEF Told, RunKnows
      <3>2. RunKnows(s)'
        BY <1>k, <2>0, <3>1 DEF RunKnows
      <3>3. QED
        BY <1>d, <2>1, <2>3, <3>2
    <2>4. QED
      BY <2>2, <2>3
  <1>5. CASE CleanUp
    <2>0. /\ cron.at = "cleanup" /\ UNCHANGED <<active, index>> /\ cron' = NoRun
          /\ row' = Remaining(cron.ready, cron.unripe)
      BY <1>5 DEF CleanUp
    <2>1. row' = row \ cron.ready
      BY <2>0, CleanUpExact
    <2>2. ~CronHolds(s)'
      BY <2>0 DEF CronHolds, NoRun
    <2>3. CASE ~CronHolds(s)
      <3>1. JobsOf(s)' = JobsOf(s)
        BY <2>0, <2>1, <2>3 DEF CronHolds, JobsOf
      <3>2. QED
        BY <1>e, <2>0, <2>2, <2>3, <3>1
    <2>4. CASE CronHolds(s)
      <3>1. JobsOf(s) \subseteq cron.ready /\ s \notin active
        BY <2>0, <2>4 DEF Told, RunKnows
      <3>2. JobsOf(s)' = {}
        BY <2>1, <3>1 DEF JobsOf
      <3>3. AsTold(s)'
        BY <2>0, <3>1, <3>2 DEF AsTold
      <3>4. ~Busy(s)' /\ \A m \in Moderators : ~Serves(m, s)'
        BY <1>b, <2>4 DEF Told, Alone, Busy, Serves
      <3>5. QED
        BY <2>2, <3>2, <3>3, <3>4 DEF Told, Alone, IndexKnows, RequestKnows, RunKnows
    <2>5. QED
      BY <2>3, <2>4
  <1>6. CASE HookFails
    <2>0. /\ cron.at \in {"hook", "unschedule", "unindex"} /\ UNCHANGED <<active, row, index>>
          /\ JobsOf(s)' = JobsOf(s) /\ cron' = [cron EXCEPT !.at = "cleanup"]
      BY <1>6, <1>c DEF HookFails
    <2>1. cron'.at = "cleanup" /\ cron'.ready = cron.ready
      BY <2>0 DEF LaterTyped
    <2>2. CronHolds(s)' <=> CronHolds(s)
      BY <1>h, <2>0, <2>1
    <2>3. CASE ~CronHolds(s)
      BY <1>e, <2>0, <2>2, <2>3
    <2>4. CASE CronHolds(s)
      <3>1. ~\E j \in cron.todo : j.who = s
        <4>1. upset'[s] = upset[s] \cup (IF \E j \in cron.todo : j.who = s THEN {"torn"} ELSE {})
          BY <1>6 DEF HookFails
        <4>2. QED
          BY <4>1
      <3>2. RunKnows(s)'
        BY <2>0, <2>1, <2>4, <3>1 DEF Told, RunKnows
      <3>3. QED
        BY <1>d, <2>2, <2>4, <3>2
    <2>5. QED
      BY <2>3, <2>4
  <1>7. CASE CronDies
    <2>0. UNCHANGED <<active, row, index>> /\ JobsOf(s)' = JobsOf(s) /\ cron' = NoRun
      BY <1>7, <1>c DEF CronDies
    <2>1. ~CronHolds(s)
      <3>1. upset'[s] = upset[s] \cup (IF CronHolds(s) THEN {"torn"} ELSE {})
        BY <1>7 DEF CronDies
      <3>2. QED
        BY <3>1
    <2>2. ~CronHolds(s)'
      BY <2>0 DEF CronHolds, NoRun
    <2>3. QED
      BY <1>e, <2>0, <2>1, <2>2
  <1>8. QED
    BY <1>1, <1>2, <1>3, <1>4, <1>5, <1>6, <1>7 DEF CronStep

(***************************************************************************)
(* The schedule and the people it is about: for any users, handlers,       *)
(* durations, orders and failures, what is scheduled for a user when no    *)
(* request and no run is at work on it is what the user was told, unless   *)
(* requests crossed, something died or the index expired first.            *)
(***************************************************************************)
THEOREM ScheduledAsTold == LaterSafe => []PendingExact
  <1>1. LaterInit => ToldInv
    <2> SUFFICES ASSUME LaterInit, NEW s \in Subjects
                 PROVE  Told(s)
      BY DEF ToldInv
    <2>1. JobsOf(s) = {} /\ s \notin active
      BY DEF LaterInit, JobsOf
    <2>2. \A m \in Moderators : modReq[m].at = "idle"
      BY DEF LaterInit, NoReq
    <2>3. ~CronHolds(s)
      BY DEF LaterInit, NoRun, CronHolds
    <2>4. QED
      BY <2>1, <2>2, <2>3 DEF Told, Alone, IndexKnows, RequestKnows, RunKnows, AsTold, Serves
  <1>2. RowInv /\ ToldInv /\ [LaterNext]_laterVars => ToldInv'
    <2> SUFFICES ASSUME RowInv, ToldInv, [LaterNext]_laterVars,
                        NEW s \in Subjects, upset'[s] = {}
                 PROVE  Told(s)'
      BY DEF ToldInv
    <2>0. upset \in [Subjects -> SUBSET {"crossed", "late", "torn"}]
      BY DEF RowInv, LaterTyped
    <2>a. ASSUME NEW bad \in Subjects, NEW S, upset' = [upset EXCEPT ![bad] = @ \cup S]
          PROVE  upset[s] = {}
      BY <2>0, <2>a
    <2>1. CASE LaterTick \/ UNCHANGED laterVars
      <3>1. UNCHANGED <<kind, row, index, active, modReq, cron, promised, upset>>
        BY <2>1 DEF LaterTick, laterVars
      <3>2. Told(s)
        BY <3>1 DEF ToldInv
      <3>3. QED
        BY <3>1, <3>2 DEF Told, Alone, IndexKnows, RequestKnows, RunKnows, AsTold, Serves, Knows,
                          Quiet, Busy, CronHolds, JobsOf
    <2>2. ASSUME NEW m \in Moderators, NEW t \in Subjects,
                 \/ \E length \in {0} \cup Lengths : Ban(m, t, length) \/ Suspend(m, t, length)
                 \/ Mute(m, t) \/ Lift(m, t) \/ UnmuteAuthor(m, t) \/ Unsuspend(m, t)
          PROVE  Told(s)'
      <3>1. PICK place \in {"idle", "lookup", "unschedule"}, until \in EndTimes, lift \in BOOLEAN :
               Asks(m, t, place, until, lift)
        BY <2>2, RequestBegins
      <3>2. upset[s] = {}
        BY <2>a, <3>1 DEF Asks, Begin
      <3>3. QED
        BY <3>1, <3>2, ToldAsks DEF ToldInv
    <2>3. ASSUME NEW m \in Moderators, ModeratorStep(m) \/ LaterRequestDies(m)
          PROVE  Told(s)'
      <3>1. upset' = upset \/ \E S : upset' = [upset EXCEPT ![modReq[m].who] = @ \cup S]
        BY <2>3 DEF ModeratorStep, NoteFails, LookUp, Unschedule, Unindex, Schedule, IndexJob,
                    LaterRequestDies
      <3>2. modReq[m].who \in Subjects
        BY <2>3 DEF ModeratorStep, NoteFails, LookUp, Unschedule, Unindex, Schedule, IndexJob,
                    LaterRequestDies, RowInv, RequestsMeant
      <3>3. upset[s] = {}
        BY <2>a, <3>1, <3>2
      <3>4. QED
        BY <2>3, <3>3, ToldCalls DEF ToldInv
    <2>4. CASE CronStep \/ HookFails \/ CronDies
      <3>1. upset[s] = {}
        BY <2>4 DEF CronStep, CronStart, HookLifts, HookUnschedules, HookUnindexes, CleanUp,
                    HookFails, CronDies
      <3>2. QED
        BY <2>4, <3>1, ToldRuns DEF ToldInv
    <2>5. QED
      BY <2>1, <2>2, <2>3, <2>4 DEF LaterNext
  <1>3. ToldInv => PendingExact
    BY DEF ToldInv, Told, AsTold, PendingExact
  <1>4. QED
    BY <1>1, <1>2, <1>3, RowInvariant, PTL DEF LaterSafe

-----------------------------------------------------------------------------
(* Payments: the inductive invariant                                       *)

\* Paid for through process_webhook.
Webhook(t) == Provider(t) \in {"stripe", "coinbase"}

\* Which purchases a request can be about, where it is.
Routed(place, t) ==
    /\ place \in {"idle", "give"} => t = Nobody
    /\ place \notin {"idle", "give"} => t \in Purchases
    /\ place \in {"lock", "record"} => Webhook(t) /\ GoldType(t) # "code"
    /\ place \in {"reverse", "mark"} => Webhook(t)
    /\ place \in {"finish", "row"} =>
          Provider(t) = "paypal" /\ GoldType(t) \notin {"code", "autorenew"}
    /\ place = "renew" => Provider(t) = "paypal" /\ GoldType(t) = "autorenew"
    /\ place \in {"spend", "pay"} => Provider(t) \in {"creddits", "gild"}
    /\ place = "claimed" => GoldType(t) = "code"
    /\ place \in {"code", "send"} =>
          GoldType(t) = "code" /\ Provider(t) \notin {"creddits", "gild"}

\* Every request is about a purchase that leads to where it is.
RequestsRouted == \A h \in GoldRequests : Routed(At(h), Deal(h))

\* creddits_lock is held by who has given and not yet paid.
LockMeans ==
    /\ \A h \in GoldRequests : At(h) = "pay" => credditsLock = h
    /\ credditsLock # Nobody => At(credditsLock) = "pay"

\* The types, and what the places of requests and the codes sent say of the offer.
GoldTyped == GoldTypeOK /\ RequestsRouted /\ LockMeans /\ \A t \in sent : GoldType(t) = "code"

\* At most one request is at one of these places with t.
Single(t, places) ==
    \A h, g \in GoldRequests :
        (Deal(h) = t /\ At(h) \in places /\ Deal(g) = t /\ At(g) \in places) => h = g

\* Of a webhook's purchase one request gives the goods before it writes the row,
\* and one takes them back before it changes the row.
HookOnce(t) ==
    (t \notin disturbed /\ Webhook(t) /\ GoldType(t) # "code") =>
        /\ goldRow[t] \in {"none", "processed", "reversed"}
        /\ Single(t, {"lock", "record"}) /\ Single(t, {"reverse", "mark"})
        /\ Racing(t, {"lock", "record"}) => goldRow[t] = "none"
        /\ Racing(t, {"reverse", "mark"}) => goldRow[t] = "processed"
        /\ delivered[t] = IF goldRow[t] = "none" /\ ~Racing(t, {"record"}) THEN 0 ELSE 1
        /\ takenBack[t] = IF goldRow[t] = "reversed" \/ Racing(t, {"mark"}) THEN 1 ELSE 0

\* Where a request is about to give the goods of t.
Due(t) ==
    {"finish", "renew", "claimed"} \cup (IF GoldType(t) = "code" THEN {} ELSE {"spend"})

\* The row or the blob that is changed by who is to give the goods is as at first.
Unstarted(t) ==
    \/ GoldType(t) = "code" /\ goldRow[t] \in {"none", "unclaimed"}
    \/ GoldType(t) = "autorenew" /\ goldRow[t] = "none"
    \/ GoldType(t) \notin {"code", "autorenew"} /\ blob[t] = "initialized"

\* Any other purchase is started once, and given by who has started it.
OtherOnce(t) ==
    (t \notin disturbed /\ Provider(t) # "gild" /\ (Webhook(t) => GoldType(t) = "code")) =>
        /\ takenBack[t] = 0 /\ delivered[t] \in {0, 1}
        /\ Single(t, Due(t))
        /\ Racing(t, Due(t)) \/ Unstarted(t) => delivered[t] = 0
        /\ Unstarted(t) => ~Racing(t, Due(t))

\* A code bought with creddits is made once, for who has got the blob.
CodeOnce(t) ==
    (t \notin disturbed /\ Provider(t) = "creddits" /\ GoldType(t) = "code") =>
        /\ Single(t, {"spend"})
        /\ Racing(t, {"spend"}) => goldRow[t] = "none"
        /\ blob[t] = "initialized" => goldRow[t] = "none" /\ ~Racing(t, {"spend"})

\* What is known of who gives the goods of t and who takes them back.
Once(t) == HookOnce(t) /\ OtherOnce(t) /\ CodeOnce(t)

\* What was given and is not yet paid is what separates the two sides.
WalletExact ==
    ~stale => creddits = granted - spent + (IF credditsLock = Nobody THEN 0 ELSE 1)

\* The inductive invariant: types and places, each purchase, the creddits.
GoldInv == GoldTyped /\ (\A t \in Purchases : Once(t)) /\ WalletExact

-----------------------------------------------------------------------------
(* Requests that move                                                      *)

\* h is now somewhere, about some purchase; the others are where they were.
Moved(h, place, t) ==
    /\ At(h)' = place /\ Deal(h)' = t
    /\ \A g \in GoldRequests : g # h => At(g)' = At(g) /\ Deal(g)' = Deal(g)

\* A request that goes on is about the same purchase; the others stay.
LEMMA GotoMoves ==
  ASSUME GoldTypeOK, NEW h \in GoldRequests, NEW place \in GoldPlaces, GoldGoto(h, place)
  PROVE  /\ Moved(h, place, Deal(h))
         /\ req' \in [GoldRequests -> [at : GoldPlaces, deal : Purchases \cup {Nobody},
                                       creddits : Int, status : BlobStatuses]]
  BY DEF GoldTypeOK, GoldGoto, Moved, At, Deal

\* A request that returns is about no purchase; the others stay.
LEMMA ReturnMoves ==
  ASSUME GoldTypeOK, NEW h \in GoldRequests, Return(h)
  PROVE  /\ Moved(h, "idle", Nobody)
         /\ req' \in [GoldRequests -> [at : GoldPlaces, deal : Purchases \cup {Nobody},
                                       creddits : Int, status : BlobStatuses]]
  <1>1. Idle \in [at : GoldPlaces, deal : Purchases \cup {Nobody},
                  creddits : Int, status : BlobStatuses]
    BY DEF Idle, GoldPlaces, BlobStatuses
  <1>2. Idle.at = "idle" /\ Idle.deal = Nobody
    BY DEF Idle
  <1>3. QED
    BY <1>1, <1>2 DEF GoldTypeOK, Return, Moved, At, Deal

\* A request arrives where there was none, and is about t unless it returns at once.
LEMMA TakeMoves ==
  ASSUME GoldTyped, NEW h \in GoldRequests, NEW t \in Purchases \cup {Nobody},
         NEW place \in GoldPlaces, Take(h, t, place)
  PROVE  /\ At(h) = "idle" /\ Deal(h) = Nobody
         /\ place # "idle" => Moved(h, place, t)
         /\ place = "idle" => Moved(h, "idle", Nobody)
         /\ req' \in [GoldRequests -> [at : GoldPlaces, deal : Purchases \cup {Nobody},
                                       creddits : Int, status : BlobStatuses]]
  <1>1. At(h) = "idle" /\ Deal(h) = Nobody
    BY DEF Take, GoldTyped, RequestsRouted, Routed
  <1>2. CASE place = "idle"
    <2>1. req' = req
      BY <1>2 DEF Take
    <2>2. QED
      BY <1>1, <1>2, <2>1 DEF GoldTyped, GoldTypeOK, Moved, At, Deal
  <1>3. CASE place # "idle"
    <2> DEFINE new == [at |-> place, deal |-> t, creddits |-> creddits,
                       status |-> IF t = Nobody THEN "initialized" ELSE blob[t]]
    <2>1. req' = [req EXCEPT ![h] = new]
      BY <1>3 DEF Take
    <2>2. (IF t = Nobody THEN "initialized" ELSE blob[t]) \in BlobStatuses
      BY DEF GoldTyped, GoldTypeOK, BlobStatuses
    <2>3. new \in [at : GoldPlaces, deal : Purchases \cup {Nobody},
                   creddits : Int, status : BlobStatuses] /\ new.at = place /\ new.deal = t
      BY <2>2 DEF GoldTyped, GoldTypeOK
    <2> HIDE DEF new
    <2>4. QED
      BY <1>1, <1>3, <2>1, <2>3 DEF GoldTyped, GoldTypeOK, Moved, At, Deal
  <1>4. QED
    BY <1>2, <1>3

\* RequestsRouted when one request moves to where its purchase may lead it.
LEMMA RouteKept ==
  ASSUME GoldTyped, NEW h \in GoldRequests, NEW place \in GoldPlaces,
         NEW t \in Purchases \cup {Nobody}, Moved(h, place, t), offer' = offer, Routed(place, t)
  PROVE  RequestsRouted'
  <1>1. \A p, u : Routed(p, u)' <=> Routed(p, u)
    BY DEF Routed, Webhook, Provider, GoldType
  <1>2. QED
    BY <1>1 DEF GoldTyped, RequestsRouted, Moved

\* LockMeans when a request moves that neither holds nor gets creddits_lock.
LEMMA LockKept ==
  ASSUME GoldTyped, NEW h \in GoldRequests, NEW place \in GoldPlaces,
         NEW t \in Purchases \cup {Nobody}, Moved(h, place, t), credditsLock' = credditsLock,
         At(h) # "pay", place # "pay"
  PROVE  LockMeans'
  <1>1. credditsLock \in GoldRequests \cup {Nobody}
    BY DEF GoldTyped, GoldTypeOK
  <1>2. \A g \in GoldRequests : At(g)' = "pay" <=> At(g) = "pay"
    BY DEF Moved
  <1>3. credditsLock # Nobody => At(credditsLock)' = "pay"
    BY <1>1, <1>2 DEF GoldTyped, LockMeans
  <1>4. QED
    BY <1>2, <1>3 DEF GoldTyped, LockMeans

\* Every deal of a request that is somewhere is a purchase.
LEMMA DealTyped ==
  ASSUME GoldTyped, NEW h \in GoldRequests
  PROVE  /\ Routed(At(h), Deal(h)) /\ At(h) \in GoldPlaces /\ Deal(h) \in Purchases \cup {Nobody}
         /\ At(h) \notin {"idle", "give"} => Deal(h) \in Purchases
         /\ Copy(h) \in Int
  <1>1. Routed(At(h), Deal(h))
    BY DEF GoldTyped, RequestsRouted
  <1>2. QED
    BY <1>1 DEF GoldTyped, GoldTypeOK, At, Deal, Copy, Routed

\* GiveGoods gives one month, and adds as much to creddits as to what was granted.
LEMMA GiveTyped ==
  ASSUME GoldTyped, NEW t \in Purchases, GiveGoods(t)
  PROVE  /\ delivered' \in [Purchases -> Nat] /\ creddits' \in Int /\ granted' \in Int
         /\ UNCHANGED <<sent, takenBack, spent, stale>>
         /\ delivered'[t] = delivered[t] + 1
         /\ \A u \in Purchases : u # t => delivered'[u] = delivered[u]
         /\ \E d \in Int : creddits' = creddits + d /\ granted' = granted + d
  <1>1. delivered \in [Purchases -> Nat] /\ creddits \in Int /\ granted \in Int
    BY DEF GoldTyped, GoldTypeOK
  <1>2. /\ delivered' = [delivered EXCEPT ![t] = @ + 1]
        /\ \/ creddits' = creddits + 1 /\ granted' = granted + 1
           \/ creddits' = creddits /\ granted' = granted
        /\ UNCHANGED <<sent, takenBack, spent, stale>>
    BY DEF GiveGoods
  <1>3. /\ 1 \in Int /\ 0 \in Int
        /\ creddits + 0 = creddits /\ granted + 0 = granted
    BY <1>1
  <1>4. QED
    BY <1>1, <1>2, <1>3

\* A request that arrives.
LEMMA ArrivalTyped ==
  ASSUME GoldTyped, offer' = offer, NEW h \in GoldRequests, NEW t \in Purchases,
         \/ Succeeded(h, t) \/ Refunded(h, t) \/ Cancelled(h, t)
         \/ Ipn(h, t) \/ ModifyBlob(h, t) \/ Spend(h, t) \/ ClaimGold(h, t)
         \/ GiveCreddits(h)
  PROVE  /\ GoldTyped'
         /\ UNCHANGED <<creddits, granted, spent, stale, credditsLock>>
  <1>0. UNCHANGED <<sent, delivered, takenBack, creddits, granted, spent, stale, commitLock,
                    credditsLock, goldFaults>>
    BY DEF Succeeded, Refunded, Cancelled, Ipn, ModifyBlob, Spend, ClaimGold, GiveCreddits,
           goods, wallet, goldLocks
  <1>1. extra' \in 0..MaxExtra
    <2>1. extra' = extra \/ Extra
      BY DEF Succeeded, Refunded, Cancelled, Ipn, ModifyBlob, Spend, ClaimGold, GiveCreddits
    <2>2. QED
      BY <2>1, GoldAssumption DEF Extra, GoldTyped, GoldTypeOK
  <1>2. /\ goldRow' \in [Purchases -> Statuses]
    <2>1. goldRow' = goldRow \/ goldRow' = [goldRow EXCEPT ![t] = "claimed"]
      BY DEF Succeeded, Refunded, Cancelled, Ipn, ModifyBlob, Spend, ClaimGold, GiveCreddits
    <2>2. QED
      BY <2>1 DEF GoldTyped, GoldTypeOK, Statuses
  <1>3. blob' \in [Purchases -> BlobStatuses]
    <2>1. blob' = blob \/ blob' = [blob EXCEPT ![t] = "locked"]
      BY DEF Succeeded, Refunded, Cancelled, Ipn, ModifyBlob, Spend, ClaimGold, GiveCreddits,
             GetBlob
    <2>2. QED
      BY <2>1 DEF GoldTyped, GoldTypeOK, BlobStatuses
  <1>4. paid' \subseteq Purchases /\ answered' \subseteq Purchases /\ disturbed' \subseteq Purchases
    <2>1. /\ paid' \in {paid, paid \cup {t}} /\ answered' \in {answered, answered \cup {t}}
          /\ disturbed' \in {disturbed, disturbed \cup {t}}
      BY DEF Succeeded, Refunded, Cancelled, Ipn, ModifyBlob, Spend, ClaimGold, GiveCreddits
    <2>2. QED
      BY <2>1 DEF GoldTyped, GoldTypeOK
  <1>5. \E place \in GoldPlaces, u \in {t, Nobody} : Take(h, u, place) /\ place # "pay"
             /\ (place = "idle" \/ Routed(place, u))
    <2>0. {"code", "lock", "idle", "reverse", "renew", "finish", "modify", "spend", "claimed",
           "give"} \subseteq GoldPlaces
      BY DEF GoldPlaces
    <2>1. CASE Succeeded(h, t)
      <3>1. Take(h, t, NextOfSuccess(t)) /\ Webhook(t)
        BY <2>1 DEF Succeeded, Webhook
      <3>2. CASE NextOfSuccess(t) = "code"
        BY <2>0, <3>1, <3>2 DEF NextOfSuccess, Routed, Webhook
      <3>3. CASE NextOfSuccess(t) = "lock"
        <4>1. GoldType(t) # "code"
          BY <3>3 DEF NextOfSuccess
        <4>2. Routed("lock", t)
          BY <3>1, <4>1 DEF Routed
        <4>3. QED
          BY <2>0, <3>1, <3>3, <4>2
      <3>4. CASE NextOfSuccess(t) = "idle"
        BY <2>0, <3>1, <3>4
      <3>5. QED
        BY <3>2, <3>3, <3>4 DEF NextOfSuccess
    <2>2. CASE Refunded(h, t) \/ Cancelled(h, t)
      <3>1. Take(h, t, "reverse") /\ Routed("reverse", t)
        BY <2>2 DEF Refunded, Cancelled, Routed, Webhook
      <3>2. QED
        BY <2>0, <3>1
    <2>3. CASE Ipn(h, t)
      <3>0. Provider(t) = "paypal"
        BY <2>3 DEF Ipn
      <3>1. \/ Take(h, t, "renew") /\ GoldType(t) = "autorenew"
            \/ Take(h, t, "idle")
            \/ Take(h, t, "code") /\ GoldType(t) = "code"
            \/ Take(h, t, "finish") /\ GoldType(t) \notin {"code", "autorenew"}
        BY <2>3 DEF Ipn
      <3>2. CASE Take(h, t, "renew") /\ GoldType(t) = "autorenew"
        <4>1. Routed("renew", t)
          BY <3>0, <3>2 DEF Routed
        <4>2. QED
          BY <2>0, <3>2, <4>1
      <3>3. CASE Take(h, t, "idle")
        BY <2>0, <3>3
      <3>4. CASE Take(h, t, "code") /\ GoldType(t) = "code"
        <4>1. Routed("code", t)
          BY <3>0, <3>4 DEF Routed
        <4>2. QED
          BY <2>0, <3>4, <4>1
      <3>5. CASE Take(h, t, "finish") /\ GoldType(t) \notin {"code", "autorenew"}
        <4>1. Routed("finish", t)
          BY <3>0, <3>5 DEF Routed
        <4>2. QED
          BY <2>0, <3>5, <4>1
      <3>6. QED
        BY <3>1, <3>2, <3>3, <3>4, <3>5
    <2>4. CASE ModifyBlob(h, t)
      <3>1. Take(h, t, "modify") /\ Routed("modify", t)
        BY <2>4 DEF ModifyBlob, Routed
      <3>2. QED
        BY <2>0, <3>1
    <2>5. CASE Spend(h, t)
      <3>1. Take(h, t, "spend") /\ Routed("spend", t)
        BY <2>5 DEF Spend, Routed
      <3>2. QED
        BY <2>0, <3>1
    <2>6. CASE ClaimGold(h, t)
      <3>1. GoldType(t) = "code" /\ (Take(h, t, "claimed") \/ Take(h, t, "idle"))
        BY <2>6 DEF ClaimGold, GoldTyped
      <3>2. Routed("claimed", t)
        BY <3>1 DEF Routed
      <3>3. QED
        BY <2>0, <3>1, <3>2
    <2>7. CASE GiveCreddits(h)
      <3>1. Take(h, Nobody, "give") /\ Routed("give", Nobody)
        BY <2>7 DEF GiveCreddits, Routed
      <3>2. QED
        BY <2>0, <3>1
    <2>8. QED
      BY <2>1, <2>2, <2>3, <2>4, <2>5, <2>6, <2>7
  <1>6. PICK place \in GoldPlaces, u \in {t, Nobody} : Take(h, u, place) /\ place # "pay"
             /\ (place = "idle" \/ Routed(place, u))
    BY <1>5
  <1>7. u \in Purchases \cup {Nobody} /\ At(h) = "idle" /\ "idle" \in GoldPlaces
        /\ Routed("idle", Nobody)
    <2>1. u \in Purchases \cup {Nobody}
      OBVIOUS
    <2>2. QED
      BY <1>6, <2>1, TakeMoves DEF Routed, GoldPlaces
  <1>8. req' \in [GoldRequests -> [at : GoldPlaces, deal : Purchases \cup {Nobody},
                                   creddits : Int, status : BlobStatuses]]
    BY <1>6, <1>7, TakeMoves
  <1>9. RequestsRouted' /\ LockMeans'
    <2>1. CASE place = "idle"
      <3>1. Moved(h, "idle", Nobody)
        BY <1>6, <1>7, <2>1, TakeMoves
      <3>2. QED
        BY <1>0, <1>7, <3>1, RouteKept, LockKept
    <2>2. CASE place # "idle"
      <3>1. Moved(h, place, u)
        BY <1>6, <1>7, <2>2, TakeMoves
      <3>2. QED
        BY <1>0, <1>6, <1>7, <2>2, <3>1, RouteKept, LockKept
    <2>3. QED
      BY <2>1, <2>2
  <1>10. GoldTypeOK'
    BY <1>0, <1>1, <1>2, <1>3, <1>4, <1>8 DEF GoldTyped, GoldTypeOK
  <1>11. QED
    BY <1>0, <1>9, <1>10 DEF GoldTyped, GoldType

\* A request that goes on or returns, and has nothing to do with creddits_lock.
LEMMA MoveTyped ==
  ASSUME GoldTyped, offer' = offer, NEW h \in GoldRequests, At(h) # "pay",
         credditsLock' = credditsLock,
         \/ Return(h)
         \/ \E place \in GoldPlaces \ {"pay"} : GoldGoto(h, place) /\ Routed(place, Deal(h))
  PROVE  /\ req' \in [GoldRequests -> [at : GoldPlaces, deal : Purchases \cup {Nobody},
                                       creddits : Int, status : BlobStatuses]]
         /\ RequestsRouted' /\ LockMeans'
  <1>0. GoldTypeOK /\ "idle" \in GoldPlaces /\ Routed("idle", Nobody)
    BY DEF GoldTyped, GoldPlaces, Routed
  <1>1. CASE Return(h)
    <2>1. Moved(h, "idle", Nobody)
      BY <1>0, <1>1, ReturnMoves
    <2>2. QED
      BY <1>0, <1>1, <2>1, ReturnMoves, RouteKept, LockKept
  <1>2. ASSUME NEW place \in GoldPlaces \ {"pay"}, GoldGoto(h, place), Routed(place, Deal(h))
        PROVE  /\ req' \in [GoldRequests -> [at : GoldPlaces, deal : Purchases \cup {Nobody},
                                             creddits : Int, status : BlobStatuses]]
               /\ RequestsRouted' /\ LockMeans'
    <2>1. Moved(h, place, Deal(h)) /\ Deal(h) \in Purchases \cup {Nobody}
      BY <1>0, <1>2, GotoMoves, DealTyped
    <2>2. QED
      BY <1>0, <1>2, <2>1, GotoMoves, RouteKept, LockKept
  <1>3. QED
    BY <1>1, <1>2

\* Every step of a request keeps types, places and the meaning of creddits_lock.
LEMMA StepTyped ==
  ASSUME GoldTyped, offer' = offer, NEW h \in GoldRequests,
         \/ MakeCode(h) \/ SendCode(h) \/ CompleteGive(h) \/ CompleteRecord(h)
         \/ ReversePurchase(h) \/ MarkReversed(h) \/ Renew(h) \/ FinishGive(h) \/ FinishRow(h)
         \/ SetBlobProcessed(h) \/ WriteBlob(h) \/ ClaimGive(h)
  PROVE  GoldTyped'
  <1> DEFINE t == Deal(h)
  <1>0. /\ UNCHANGED <<extra, goldFaults, paid, credditsLock>>
        /\ At(h) \in {"code", "send", "lock", "record", "reverse", "mark", "renew", "finish",
                      "row", "blob", "modify", "claimed"}
    BY DEF MakeCode, SendCode, CompleteGive, CompleteRecord, ReversePurchase, MarkReversed, Renew,
           FinishGive, FinishRow, SetBlobProcessed, WriteBlob, ClaimGive, goldLocks
  <1>1. t \in Purchases /\ Routed(At(h), t) /\ req[h].status \in BlobStatuses
    BY <1>0, DealTyped DEF GoldTyped, GoldTypeOK
  <1>2. goldRow' \in [Purchases -> Statuses]
    <2>1. goldRow' = goldRow \/ \E s \in Statuses : goldRow' = [goldRow EXCEPT ![t] = s]
      <3>0. /\ goldRow[t] \in Statuses
            /\ {"unclaimed", "processed", "reversed", "instagift"} \subseteq Statuses
        BY <1>1 DEF GoldTyped, GoldTypeOK, Statuses
      <3>1. CASE MakeCode(h)
        BY <3>0, <3>1 DEF MakeCode
      <3>2. CASE CompleteRecord(h)
        BY <3>0, <3>2 DEF CompleteRecord
      <3>3. CASE MarkReversed(h)
        BY <3>0, <3>3 DEF MarkReversed
      <3>4. CASE FinishRow(h)
        BY <3>0, <3>4 DEF FinishRow
      <3>5. QED
        BY <3>1, <3>2, <3>3, <3>4
        DEF SendCode, CompleteGive, ReversePurchase, Renew, FinishGive, SetBlobProcessed, WriteBlob,
            ClaimGive
    <2>2. QED
      BY <2>1 DEF GoldTyped, GoldTypeOK
  <1>3. blob' \in [Purchases -> BlobStatuses]
    <2>1. \/ blob' = blob
          \/ blob' = [blob EXCEPT ![t] = "processed"]
          \/ blob' = [blob EXCEPT ![t] = req[h].status]
      BY DEF MakeCode, SendCode, CompleteGive, CompleteRecord, ReversePurchase, MarkReversed, Renew,
             FinishGive, FinishRow, SetBlobProcessed, WriteBlob, ClaimGive
    <2>2. QED
      BY <1>1, <2>1 DEF GoldTyped, GoldTypeOK, BlobStatuses
  <1>4. answered' \subseteq Purchases /\ disturbed' \subseteq Purchases
    <2>1. /\ answered' \in {answered, answered \cup {t}}
          /\ disturbed' \in {disturbed, disturbed \cup {t}}
      BY DEF MakeCode, SendCode, CompleteGive, CompleteRecord, ReversePurchase, MarkReversed, Renew,
             FinishGive, FinishRow, SetBlobProcessed, WriteBlob, ClaimGive
    <2>2. QED
      BY <1>1, <2>1 DEF GoldTyped, GoldTypeOK
  <1>5. commitLock' \in GoldRequests \cup {Nobody}
    <2>1. commitLock' \in {commitLock, h, Nobody}
      BY DEF MakeCode, SendCode, CompleteGive, CompleteRecord, ReversePurchase, MarkReversed, Renew,
             FinishGive, FinishRow, SetBlobProcessed, WriteBlob, ClaimGive, goldLocks
    <2>2. QED
      BY <2>1 DEF GoldTyped, GoldTypeOK
  <1>6. /\ delivered' \in [Purchases -> Nat] /\ takenBack' \in [Purchases -> Nat]
        /\ creddits' \in Int /\ granted' \in Int /\ UNCHANGED <<spent, stale>>
    <2>0. /\ delivered \in [Purchases -> Nat] /\ takenBack \in [Purchases -> Nat]
          /\ creddits \in Int /\ granted \in Int
      BY DEF GoldTyped, GoldTypeOK
    <2>1. CASE GiveGoods(t)
      BY <1>1, <2>0, <2>1, GiveTyped
    <2>2. CASE ReversePurchase(h)
      <3>1. /\ takenBack' = takenBack \/ takenBack' = [takenBack EXCEPT ![t] = @ + 1]
            /\ \/ creddits' = creddits - 1 /\ granted' = granted - 1
               \/ creddits' = creddits /\ granted' = granted
            /\ UNCHANGED <<delivered, spent, stale>>
        BY <2>2 DEF ReversePurchase
      <3>2. QED
        BY <1>1, <2>0, <3>1
    <2>3. CASE UNCHANGED <<delivered, takenBack, creddits, granted, spent, stale>>
      BY <2>0, <2>3
    <2>4. QED
      BY <2>1, <2>2, <2>3
      DEF MakeCode, SendCode, CompleteGive, CompleteRecord, MarkReversed, Renew,
          FinishGive, FinishRow, SetBlobProcessed, WriteBlob, ClaimGive, goods, wallet
  <1>7. sent' \subseteq Purchases /\ \A u \in sent' : GoldType(u)' = "code"
    <2>1. sent' = sent \/ (sent' = sent \cup {t} /\ At(h) = "send")
      BY DEF MakeCode, SendCode, CompleteGive, CompleteRecord, ReversePurchase, MarkReversed, Renew,
             FinishGive, FinishRow, SetBlobProcessed, WriteBlob, ClaimGive, goods, GiveGoods
    <2>2. At(h) = "send" => GoldType(t) = "code"
      BY <1>1 DEF Routed
    <2>3. \A u : GoldType(u)' = GoldType(u)
      BY DEF GoldType
    <2>4. QED
      BY <1>1, <2>1, <2>2, <2>3 DEF GoldTyped, GoldTypeOK
  <1>8. \/ Return(h)
        \/ \E place \in GoldPlaces \ {"pay"} : GoldGoto(h, place) /\ Routed(place, Deal(h))
    <2>0. {"send", "blob", "record", "mark", "row"} \subseteq GoldPlaces \ {"pay"}
      BY DEF GoldPlaces
    <2>1. CASE MakeCode(h)
      <3>1. Return(h) \/ GoldGoto(h, "send")
        BY <2>1 DEF MakeCode
      <3>2. Routed("send", t)
        BY <1>1, <2>1 DEF MakeCode, Routed
      <3>3. QED
        BY <2>0, <3>1, <3>2
    <2>2. CASE CompleteGive(h)
      <3>1. GoldGoto(h, "record") /\ Routed("record", t)
        BY <1>1, <2>2 DEF CompleteGive, Routed
      <3>2. QED
        BY <2>0, <3>1
    <2>3. CASE ReversePurchase(h)
      <3>1. GoldGoto(h, "mark") /\ Routed("mark", t)
        BY <1>1, <2>3 DEF ReversePurchase, Routed
      <3>2. QED
        BY <2>0, <3>1
    <2>4. CASE FinishGive(h)
      <3>1. GoldGoto(h, "row") /\ Routed("row", t)
        BY <1>1, <2>4 DEF FinishGive, Routed
      <3>2. QED
        BY <2>0, <3>1
    <2>5. CASE SendCode(h) \/ FinishRow(h)
      <3>1. (Return(h) \/ GoldGoto(h, "blob")) /\ Routed("blob", t)
        BY <1>1, <2>5 DEF SendCode, FinishRow, Routed
      <3>2. QED
        BY <2>0, <3>1
    <2>6. QED
      BY <2>1, <2>2, <2>3, <2>4, <2>5
      DEF CompleteRecord, MarkReversed, Renew, SetBlobProcessed, WriteBlob, ClaimGive
  <1>9. /\ req' \in [GoldRequests -> [at : GoldPlaces, deal : Purchases \cup {Nobody},
                                      creddits : Int, status : BlobStatuses]]
        /\ RequestsRouted' /\ LockMeans'
    BY <1>0, <1>8, MoveTyped
  <1>10. GoldTypeOK'
    BY <1>0, <1>2, <1>3, <1>4, <1>5, <1>6, <1>7, <1>9 DEF GoldTyped, GoldTypeOK
  <1>11. QED
    BY <1>7, <1>9, <1>10 DEF GoldTyped

\* SpendGive, Pay and SaveCreddits
LEMMA SpendTyped ==
  ASSUME GoldTyped, offer' = offer, NEW h \in GoldRequests,
         SpendGive(h) \/ Pay(h) \/ SaveCreddits(h)
  PROVE  GoldTyped'
  <1> DEFINE t == Deal(h)
  <1>0. /\ UNCHANGED <<extra, goldFaults, paid, blob, takenBack, commitLock, answered, disturbed>>
        /\ At(h) \in {"spend", "pay", "give"}
    BY DEF SpendGive, Pay, SaveCreddits, goods, goldLocks
  <1>1. /\ At(h) # "give" => t \in Purchases
        /\ Routed(At(h), t) /\ Copy(h) \in Int /\ creddits \in Int /\ granted \in Int
        /\ spent \in Nat /\ stale \in BOOLEAN /\ credditsLock \in GoldRequests \cup {Nobody}
        /\ "idle" \in GoldPlaces /\ "pay" \in GoldPlaces /\ "blob" \in GoldPlaces
        /\ Routed("idle", Nobody) /\ GoldTypeOK
    BY <1>0, DealTyped DEF GoldTyped, GoldTypeOK, GoldPlaces, Routed
  <1>2. creddits' \in Int /\ granted' \in Int /\ spent' \in Nat
    <2>1. /\ creddits' \in {creddits, Copy(h) - 1, Copy(h) + 1, 0}
          /\ granted' = granted \/ granted' = granted + creddits' - Copy(h)
          /\ spent' \in {spent, spent + 1}
      BY DEF SpendGive, Pay, SaveCreddits, WriteCreddits
    <2>2. QED
      BY <1>1, <2>1
  <1>3. stale' \in BOOLEAN
    <2>1. stale' = stale \/ stale' = (stale \/ Copy(h) # creddits)
      BY DEF SpendGive, Pay, SaveCreddits, WriteCreddits
    <2>2. QED
      BY <1>1, <2>1
  <1>4. goldRow' \in [Purchases -> Statuses] /\ delivered' \in [Purchases -> Nat]
    <2>1. goldRow' = goldRow \/ goldRow' = [goldRow EXCEPT ![t] = "unclaimed"]
      BY DEF SpendGive, Pay, SaveCreddits
    <2>2. delivered' = delivered \/ delivered' = [delivered EXCEPT ![t] = @ + 1]
      BY DEF SpendGive, Pay, SaveCreddits, goods
    <2>3. QED
      BY <2>1, <2>2 DEF GoldTyped, GoldTypeOK, Statuses
  <1>5. sent' \subseteq Purchases /\ \A u \in sent' : GoldType(u)' = "code"
    <2>1. sent' = sent \/ (sent' = sent \cup {t} /\ At(h) = "spend" /\ GoldType(t) = "code")
      BY DEF SpendGive, Pay, SaveCreddits, goods
    <2>2. \A u : GoldType(u)' = GoldType(u)
      BY DEF GoldType
    <2>3. QED
      BY <1>1, <2>1, <2>2 DEF GoldTyped, GoldTypeOK
  <1>6. /\ req' \in [GoldRequests -> [at : GoldPlaces, deal : Purchases \cup {Nobody},
                                      creddits : Int, status : BlobStatuses]]
        /\ RequestsRouted' /\ LockMeans' /\ credditsLock' \in GoldRequests \cup {Nobody}
    <2>1. CASE Return(h) /\ At(h) # "pay"
      <3>1. credditsLock' = credditsLock
        <4>1. SpendGive(h) /\ Return(h) => credditsLock' = credditsLock
          <5>1. req[h].at = "spend" /\ Return(h) => req'[h].at = "idle"
            BY DEF GoldTyped, GoldTypeOK, Return, Idle
          <5>2. SpendGive(h) => req[h].at = "spend"
            BY DEF SpendGive, At
          <5>3. SpendGive(h) /\ credditsLock' # credditsLock => req'[h].at = "pay"
            BY DEF SpendGive, GoldGoto, GoldTyped, GoldTypeOK
          <5>4. QED
            BY <5>1, <5>2, <5>3
        <4>2. QED
          BY <2>1, <4>1 DEF Pay, SaveCreddits, goldLocks
      <3>2. QED
        BY <1>1, <2>1, <3>1, MoveTyped
    <2>2. CASE SpendGive(h) /\ credditsLock = Nobody /\ credditsLock' = h
      <3>0. At(h) = "spend"
        BY <2>2 DEF SpendGive
      <3>1. \/ GoldGoto(h, "pay")
            \/ req' = [req EXCEPT ![h].at = "pay", ![h].creddits = creddits]
        <4>1. h # Nobody
          BY GoldAssumption
        <4>2. QED
          BY <2>2, <4>1 DEF SpendGive
      <3>2. /\ Moved(h, "pay", t)
            /\ req' \in [GoldRequests -> [at : GoldPlaces, deal : Purchases \cup {Nobody},
                                          creddits : Int, status : BlobStatuses]]
        <4>1. CASE GoldGoto(h, "pay")
          BY <1>1, <4>1, GotoMoves
        <4>2. CASE req' = [req EXCEPT ![h].at = "pay", ![h].creddits = creddits]
          BY <1>1, <4>2 DEF GoldTypeOK, Moved, At, Deal
        <4>3. QED
          BY <3>1, <4>1, <4>2
      <3>3. Routed("pay", t) /\ t \in Purchases
        BY <1>1, <3>0 DEF Routed
      <3>4. RequestsRouted'
        BY <1>1, <3>2, <3>3, RouteKept
      <3>5. \A g \in GoldRequests : At(g) # "pay"
        BY <2>2, GoldAssumption DEF GoldTyped, LockMeans
      <3>6. \A g \in GoldRequests : At(g)' = "pay" => g = h
        BY <3>2, <3>5 DEF Moved
      <3>7. At(h)' = "pay"
        BY <3>2 DEF Moved
      <3>8. At(credditsLock)' = "pay"
        BY <2>2, <3>7 DEF At
      <3>9. LockMeans'
        BY <2>2, <3>6, <3>8 DEF LockMeans
      <3>10. QED
        BY <2>2, <3>2, <3>4, <3>9
    <2>3. CASE Pay(h)
      <3>0. At(h) = "pay" /\ credditsLock' = Nobody
        BY <2>3 DEF Pay
      <3>1. Return(h) \/ GoldGoto(h, "blob")
        BY <2>3 DEF Pay
      <3>2. PICK place \in {"idle", "blob"}, u \in {t, Nobody} :
              /\ Moved(h, place, u) /\ Routed(place, u)
              /\ req' \in [GoldRequests -> [at : GoldPlaces, deal : Purchases \cup {Nobody},
                                            creddits : Int, status : BlobStatuses]]
        <4>1. CASE Return(h)
          BY <1>1, <4>1, ReturnMoves
        <4>2. CASE GoldGoto(h, "blob")
          <5>1. Routed("blob", t)
            BY <1>1, <3>0 DEF Routed
          <5>2. QED
            BY <1>1, <4>2, <5>1, GotoMoves
        <4>3. QED
          BY <3>1, <4>1, <4>2
      <3>3. RequestsRouted'
        <4>1. place \in GoldPlaces /\ u \in Purchases \cup {Nobody}
          BY <1>1, <3>0
        <4>2. QED
          BY <3>2, <4>1, RouteKept
      <3>4. \A g \in GoldRequests : g # h => At(g) # "pay"
        BY <3>0 DEF GoldTyped, LockMeans
      <3>5. \A g \in GoldRequests : At(g)' # "pay"
        BY <3>2, <3>4 DEF Moved
      <3>6. LockMeans'
        BY <3>0, <3>5 DEF LockMeans
      <3>7. QED
        BY <3>0, <3>2, <3>3, <3>6
    <2>4. QED
      <3>1. SpendGive(h) => \/ Return(h) /\ At(h) # "pay"
                            \/ credditsLock = Nobody /\ credditsLock' = h
        BY DEF SpendGive
      <3>2. SaveCreddits(h) => Return(h) /\ At(h) # "pay"
        BY DEF SaveCreddits
      <3>3. QED
        BY <1>1, <2>1, <2>2, <2>3, <3>1, <3>2
  <1>7. GoldTypeOK'
    BY <1>0, <1>2, <1>3, <1>4, <1>5, <1>6 DEF GoldTyped, GoldTypeOK
  <1>8. QED
    BY <1>5, <1>6, <1>7 DEF GoldTyped

\* A request that dies leaves its place and its locks.
LEMMA CrashTyped ==
  ASSUME GoldTyped, offer' = offer, NEW h \in GoldRequests, GoldCrash(h)
  PROVE  GoldTyped'
  <1>1. /\ Return(h) /\ At(h) # "idle"
        /\ UNCHANGED <<goldRow, blob, sent, delivered, takenBack, creddits, granted, spent,
                       answered, extra, paid>>
        /\ goldFaults < MaxGoldFaults /\ goldFaults' = goldFaults + 1
        /\ commitLock' \in {commitLock, Nobody}
        /\ credditsLock' = IF credditsLock = h THEN Nobody ELSE credditsLock
        /\ disturbed' = IF At(h) \in {"record", "mark"} THEN disturbed \cup {Deal(h)} ELSE disturbed
    BY DEF GoldCrash, goods
  <1>2. stale' \in BOOLEAN
    BY DEF GoldCrash
  <1>3. /\ GoldTypeOK /\ "idle" \in GoldPlaces /\ Routed("idle", Nobody)
        /\ At(h) \in {"record", "mark"} => Deal(h) \in Purchases
    BY DealTyped DEF GoldTyped, GoldPlaces, Routed
  <1>4. Moved(h, "idle", Nobody)
    BY <1>1, <1>3, ReturnMoves
  <1>5. RequestsRouted'
    BY <1>3, <1>4, RouteKept
  <1>6. LockMeans'
    <2>1. \A g \in GoldRequests : At(g)' = "pay" => g # h /\ At(g) = "pay" /\ credditsLock = g
      BY <1>4 DEF Moved, GoldTyped, LockMeans
    <2>2. credditsLock' # Nobody => credditsLock' = credditsLock /\ credditsLock # h
      BY <1>1
    <2>3. credditsLock \in GoldRequests \cup {Nobody}
      BY <1>3 DEF GoldTypeOK
    <2>4. ASSUME credditsLock' # Nobody PROVE At(credditsLock)' = "pay"
      <3>1. credditsLock \in GoldRequests /\ credditsLock # h /\ At(credditsLock) = "pay"
        BY <2>2, <2>3, <2>4 DEF GoldTyped, LockMeans
      <3>2. PICK g \in GoldRequests : g = credditsLock
        BY <3>1
      <3>3. At(g)' = "pay"
        BY <1>4, <3>1, <3>2 DEF Moved
      <3>4. credditsLock' = g
        BY <2>2, <2>4, <3>2
      <3>5. QED
        BY <3>3, <3>4 DEF At
    <2>5. \A g \in GoldRequests : At(g)' = "pay" => credditsLock' = g
      BY <1>1, <2>1
    <2>6. QED
      BY <2>4, <2>5 DEF LockMeans
  <1>7. GoldTypeOK'
    <2>1. goldFaults' \in 0..MaxGoldFaults
      BY <1>1, GoldAssumption DEF GoldTyped, GoldTypeOK
    <2>2. req' \in [GoldRequests -> [at : GoldPlaces, deal : Purchases \cup {Nobody},
                                     creddits : Int, status : BlobStatuses]]
      BY <1>1, <1>3, ReturnMoves
    <2>3. disturbed' \subseteq Purchases /\ credditsLock' \in GoldRequests \cup {Nobody}
          /\ commitLock' \in GoldRequests \cup {Nobody}
      BY <1>1, <1>3 DEF GoldTypeOK
    <2>4. QED
      BY <1>1, <1>2, <2>1, <2>2, <2>3 DEF GoldTyped, GoldTypeOK
  <1>8. QED
    BY <1>1, <1>5, <1>6, <1>7 DEF GoldTyped, GoldType

-----------------------------------------------------------------------------
(* Goods are given once                                                    *)

\* Where a request is between reading a row or blob and changing it, or the goods.
Acts == {"lock", "record", "reverse", "mark", "finish", "renew", "claimed", "spend"}

\* The offer does not change.
LEMMA OfferKept ==
  ASSUME offer' = offer, NEW t
  PROVE  /\ Provider(t)' = Provider(t) /\ GoldType(t)' = GoldType(t)
         /\ Webhook(t)' <=> Webhook(t)
         /\ Due(t)' = Due(t)
  BY DEF Provider, GoldType, Webhook, Due

\* Nothing is begun for t, nothing is half done, and the rest is as before.
LEMMA OnceApart ==
  ASSUME offer' = offer, NEW h \in GoldRequests, NEW t \in Purchases, Once(t),
         NEW place, NEW u, Moved(h, place, u), disturbed \subseteq disturbed',
         goldRow'[t] = goldRow[t], delivered'[t] = delivered[t], takenBack'[t] = takenBack[t],
         blob'[t] = "initialized" => blob[t] = "initialized",
         ~(u = t /\ place \in Acts),
         ~(t \notin disturbed' /\ Deal(h) = t /\ At(h) \in {"record", "mark"})
  PROVE  Once(t)'
  <1>0. /\ Provider(t)' = Provider(t) /\ GoldType(t)' = GoldType(t)
        /\ Webhook(t)' <=> Webhook(t)
        /\ Due(t)' = Due(t) /\ Due(t) \subseteq Acts
    BY OfferKept DEF Due, Acts
  <1>1. CASE t \in disturbed'
    BY <1>1 DEF Once, HookOnce, OtherOnce, CodeOnce
  <1>2. CASE t \notin disturbed'
    <2>0. t \notin disturbed
      BY <1>2
    <2>1. ASSUME NEW S \in SUBSET Acts
          PROVE  /\ Single(t, S) => Single(t, S)'
                 /\ Racing(t, S)' => Racing(t, S)
      BY DEF Moved, Single, Racing
    <2>2. ASSUME NEW S \in {{"record"}, {"mark"}}
          PROVE  Racing(t, S)' <=> Racing(t, S)
      BY <1>2 DEF Moved, Racing, Acts
    <2>3. HookOnce(t)'
      <3>1. /\ {"lock", "record"} \in SUBSET Acts /\ {"reverse", "mark"} \in SUBSET Acts
        BY DEF Acts
      <3>2. /\ Single(t, {"lock", "record"}) => Single(t, {"lock", "record"})'
            /\ Single(t, {"reverse", "mark"}) => Single(t, {"reverse", "mark"})'
            /\ Racing(t, {"lock", "record"})' => Racing(t, {"lock", "record"})
            /\ Racing(t, {"reverse", "mark"})' => Racing(t, {"reverse", "mark"})
            /\ Racing(t, {"record"})' <=> Racing(t, {"record"})
            /\ Racing(t, {"mark"})' <=> Racing(t, {"mark"})
        BY <2>1, <2>2, <3>1
      <3>3. QED
        BY <1>0, <2>0, <3>2 DEF Once, HookOnce
    <2>4. OtherOnce(t)'
      <3>1. /\ Single(t, Due(t)) => Single(t, Due(t))'
            /\ Racing(t, Due(t))' => Racing(t, Due(t))
        BY <1>0 DEF Moved, Single, Racing
      <3>2. Unstarted(t)' => Unstarted(t)
        BY <1>0 DEF Unstarted
      <3>3. QED
        BY <1>0, <2>0, <3>1, <3>2 DEF Once, OtherOnce
    <2>5. CodeOnce(t)'
      <3>1. {"spend"} \in SUBSET Acts
        BY DEF Acts
      <3>2. /\ Single(t, {"spend"}) => Single(t, {"spend"})'
            /\ Racing(t, {"spend"})' => Racing(t, {"spend"})
        BY <2>1, <3>1
      <3>3. QED
        BY <1>0, <2>0, <3>2 DEF Once, CodeOnce
    <2>6. QED
      BY <2>3, <2>4, <2>5 DEF Once
  <1>3. QED
    BY <1>1, <1>2

\* The places of t when a request about it arrives.
LEMMA RacingArrives ==
  ASSUME NEW h \in GoldRequests, NEW t, Deal(h) # t, NEW place, Moved(h, place, t), NEW S
  PROVE  /\ Racing(t, S)' <=> Racing(t, S) \/ place \in S
         /\ Single(t, S) /\ (place \in S => ~Racing(t, S)) => Single(t, S)'
  BY DEF Moved, Single, Racing

\* The places of t when a request about it goes on, or returns.
LEMMA RacingMoves ==
  ASSUME NEW h \in GoldRequests, NEW t, Deal(h) = t, NEW place, NEW u, Moved(h, place, u), NEW S,
         Single(t, S), At(h) \in S
  PROVE  /\ Racing(t, S) /\ Single(t, S)'
         /\ Racing(t, S)' <=> (u = t /\ place \in S)
  BY DEF Moved, Single, Racing

\* A payment notified again finds its row, or another request at work on it: then
\* it is one of the known races.
LEMMA SucceededOnce ==
  ASSUME GoldInv, offer' = offer, NEW h \in GoldRequests, NEW t \in Purchases, Succeeded(h, t)
  PROVE  Once(t)'
  <1>0. /\ Provider(t)' = Provider(t) /\ GoldType(t)' = GoldType(t)
        /\ Webhook(t)' <=> Webhook(t)
        /\ Webhook(t) /\ Provider(t) # "creddits" /\ Once(t) /\ GoldTyped
    BY OfferKept DEF Succeeded, Webhook, GoldInv
  <1>1. /\ UNCHANGED <<goldRow, blob, delivered, takenBack>>
        /\ disturbed \subseteq disturbed'
        /\ t \notin disturbed' => ~Racing(t, {"lock", "record"}) /\ goldRow[t] # "reversed"
        /\ Take(h, t, NextOfSuccess(t))
    BY DEF Succeeded, goods
  <1>2. At(h) = "idle" /\ Deal(h) = Nobody /\ Deal(h) # t
    BY <1>0, <1>1, GoldAssumption DEF Take, GoldTyped, RequestsRouted, Routed
  <1>3. NextOfSuccess(t) \in {"idle", "code", "lock"} /\ NextOfSuccess(t) \in GoldPlaces
    BY DEF NextOfSuccess, GoldPlaces
  <1>4. CASE NextOfSuccess(t) = "lock"
    <2>1. Moved(h, "lock", t)
      BY <1>0, <1>1, <1>3, <1>4, TakeMoves
    <2>2. GoldType(t) # "code" /\ goldRow[t] \notin {"processed", "unclaimed", "claimed"}
      BY <1>4 DEF NextOfSuccess, Skipped
    <2>3. CASE t \in disturbed'
      BY <2>3 DEF Once, HookOnce, OtherOnce, CodeOnce
    <2>4. CASE t \notin disturbed'
      <3>1. goldRow[t] = "none" /\ t \notin disturbed
        BY <1>0, <1>1, <2>2, <2>4 DEF Once, HookOnce
      <3>2. /\ Single(t, {"lock", "record"})' /\ Single(t, {"reverse", "mark"})'
            /\ Racing(t, {"reverse", "mark"})' <=> Racing(t, {"reverse", "mark"})
            /\ Racing(t, {"record"})' <=> Racing(t, {"record"})
            /\ Racing(t, {"mark"})' <=> Racing(t, {"mark"})
        <4>1. /\ Single(t, {"lock", "record"}) /\ Single(t, {"reverse", "mark"})
              /\ ~Racing(t, {"lock", "record"})
          BY <1>0, <1>1, <2>2, <2>4, <3>1 DEF Once, HookOnce
        <4>2. QED
          BY <1>2, <2>1, <4>1, RacingArrives
      <3>3. HookOnce(t)'
        BY <1>0, <1>1, <2>2, <3>1, <3>2 DEF Once, HookOnce
      <3>4. OtherOnce(t)' /\ CodeOnce(t)'
        BY <1>0, <2>2 DEF OtherOnce, CodeOnce
      <3>5. QED
        BY <3>3, <3>4 DEF Once
    <2>5. QED
      BY <2>3, <2>4
  <1>5. CASE NextOfSuccess(t) # "lock"
    <2>1. \E place \in {"idle", "code"}, u \in {t, Nobody} : Moved(h, place, u)
      BY <1>0, <1>1, <1>3, <1>5, TakeMoves
    <2>2. PICK place \in {"idle", "code"}, u \in {t, Nobody} : Moved(h, place, u)
      BY <2>1
    <2>3. place \notin Acts /\ At(h) \notin {"record", "mark"}
      BY <1>2 DEF Acts
    <2>4. QED
      BY <1>0, <1>1, <2>2, <2>3, OnceApart
  <1>6. QED
    BY <1>4, <1>5

\* So does a refund or a cancellation.
LEMMA ReversalOnce ==
  ASSUME GoldInv, offer' = offer, NEW h \in GoldRequests, NEW t \in Purchases,
         Refunded(h, t) \/ Cancelled(h, t)
  PROVE  Once(t)'
  <1>0. /\ Provider(t)' = Provider(t) /\ GoldType(t)' = GoldType(t)
        /\ Webhook(t)' <=> Webhook(t)
        /\ Due(t)' = Due(t)
        /\ Webhook(t) /\ Provider(t) # "creddits" /\ Once(t) /\ GoldTyped
        /\ "reverse" \in GoldPlaces
    BY OfferKept DEF Refunded, Cancelled, Webhook, GoldInv, GoldPlaces
  <1>1. /\ UNCHANGED <<goldRow, blob, delivered, takenBack>>
        /\ disturbed \subseteq disturbed'
        /\ t \notin disturbed' => ~Racing(t, {"reverse", "mark"}) /\ goldRow[t] # "reversed"
        /\ Take(h, t, "reverse") /\ goldRow[t] # "none"
    BY DEF Refunded, Cancelled, goods
  <1>2. At(h) = "idle" /\ Deal(h) = Nobody /\ Deal(h) # t
    BY <1>0, <1>1, GoldAssumption DEF Take, GoldTyped, RequestsRouted, Routed
  <1>3. Moved(h, "reverse", t)
    BY <1>0, <1>1, TakeMoves
  <1>4. CASE t \in disturbed'
    BY <1>4 DEF Once, HookOnce, OtherOnce, CodeOnce
  <1>5. CASE t \notin disturbed' /\ GoldType(t) # "code"
    <2>1. goldRow[t] = "processed" /\ t \notin disturbed
      BY <1>0, <1>1, <1>5 DEF Once, HookOnce
    <2>2. /\ Single(t, {"lock", "record"})' /\ Single(t, {"reverse", "mark"})'
          /\ Racing(t, {"lock", "record"})' <=> Racing(t, {"lock", "record"})
          /\ Racing(t, {"record"})' <=> Racing(t, {"record"})
          /\ Racing(t, {"mark"})' <=> Racing(t, {"mark"})
      <3>1. /\ Single(t, {"lock", "record"}) /\ Single(t, {"reverse", "mark"})
            /\ ~Racing(t, {"reverse", "mark"})
        BY <1>0, <1>1, <1>5, <2>1 DEF Once, HookOnce
      <3>2. QED
        BY <1>2, <1>3, <3>1, RacingArrives
    <2>3. HookOnce(t)'
      BY <1>0, <1>1, <1>5, <2>1, <2>2 DEF Once, HookOnce
    <2>4. OtherOnce(t)' /\ CodeOnce(t)'
      BY <1>0, <1>5 DEF OtherOnce, CodeOnce
    <2>5. QED
      BY <2>3, <2>4 DEF Once
  <1>6. CASE t \notin disturbed' /\ GoldType(t) = "code"
    <2>1. t \notin disturbed /\ "reverse" \notin Due(t)
      BY <1>1, <1>6 DEF Due
    <2>2. /\ Racing(t, Due(t))' <=> Racing(t, Due(t))
          /\ Single(t, Due(t)) => Single(t, Due(t))'
      BY <1>0, <1>2, <1>3, <2>1 DEF Moved, Racing, Single
    <2>3. Unstarted(t)' <=> Unstarted(t)
      BY <1>0, <1>1 DEF Unstarted
    <2>4. OtherOnce(t)'
      BY <1>0, <1>1, <1>6, <2>1, <2>2, <2>3 DEF Once, OtherOnce
    <2>5. HookOnce(t)' /\ CodeOnce(t)'
      BY <1>0, <1>6 DEF HookOnce, CodeOnce
    <2>6. QED
      BY <2>4, <2>5 DEF Once
  <1>7. QED
    BY <1>4, <1>5, <1>6

\* Whoever changes the row or the blob of a purchase that is not started is to
\* give the goods.
LEMMA StartOnce ==
  ASSUME GoldInv, offer' = offer, NEW h \in GoldRequests, NEW t \in Purchases,
         Deal(h) # t, NEW place \in Due(t), Moved(h, place, t),
         place # "spend" \/ GoldType(t) # "code",
         Webhook(t) => GoldType(t) = "code", Unstarted(t), ~Unstarted(t)',
         Provider(t) = "creddits" /\ GoldType(t) = "code" =>
            place # "spend" /\ goldRow[t] # "none" /\ blob'[t] = blob[t],
         UNCHANGED <<delivered, takenBack, disturbed>>
  PROVE  Once(t)'
  <1>0. /\ Provider(t)' = Provider(t) /\ GoldType(t)' = GoldType(t)
        /\ Webhook(t)' <=> Webhook(t)
        /\ Due(t)' = Due(t)
        /\ Once(t)
    BY OfferKept DEF GoldInv
  <1>1. HookOnce(t)'
    BY <1>0 DEF HookOnce
  <1>2. OtherOnce(t)'
    <2>1. CASE t \in disturbed \/ Provider(t) = "gild"
      BY <1>0, <2>1 DEF OtherOnce
    <2>2. CASE t \notin disturbed /\ Provider(t) # "gild"
      <3>1. /\ takenBack[t] = 0 /\ delivered[t] = 0
            /\ ~Racing(t, Due(t)) /\ Single(t, Due(t))
        BY <1>0, <2>2 DEF Once, OtherOnce
      <3>2. Single(t, Due(t))'
        BY <1>0, <3>1 DEF Moved, Racing, Single
      <3>3. QED
        BY <1>0, <3>1, <3>2 DEF OtherOnce
    <2>3. QED
      BY <2>1, <2>2
  <1>3. CodeOnce(t)'
    <2>1. CASE t \notin disturbed /\ Provider(t) = "creddits" /\ GoldType(t) = "code"
      <3>1. /\ Single(t, {"spend"}) => Single(t, {"spend"})'
            /\ Racing(t, {"spend"})' <=> Racing(t, {"spend"})
        BY <2>1 DEF Moved, Racing, Single
      <3>2. QED
        BY <1>0, <2>1, <3>1 DEF Once, CodeOnce
    <2>2. CASE ~(t \notin disturbed /\ Provider(t) = "creddits" /\ GoldType(t) = "code")
      BY <1>0, <2>2 DEF CodeOnce
    <2>3. QED
      BY <2>1, <2>2
  <1>4. QED
    BY <1>1, <1>2, <1>3 DEF Once

\* PayPal: the row of a renewal, or the blob, lets one request pass.
LEMMA IpnOnce ==
  ASSUME GoldInv, offer' = offer, NEW h \in GoldRequests, NEW t \in Purchases, Ipn(h, t)
  PROVE  Once(t)'
  <1>0. /\ Provider(t) = "paypal" /\ ~Webhook(t) /\ Once(t) /\ GoldTyped
        /\ GoldType(t)' = GoldType(t)
        /\ goldRow \in [Purchases -> Statuses] /\ blob \in [Purchases -> BlobStatuses]
        /\ {"renew", "finish", "code", "idle"} \subseteq GoldPlaces
    BY OfferKept DEF Ipn, Webhook, GoldInv, GoldPlaces, GoldTyped, GoldTypeOK
  <1>1. UNCHANGED <<delivered, takenBack, disturbed>>
    BY DEF Ipn, goods
  <1>2. At(h) = "idle" /\ Deal(h) # t
    BY <1>0, GoldAssumption DEF Ipn, Take, GoldTyped, RequestsRouted, Routed
  <1>3. CASE /\ GoldType(t) = "autorenew" /\ goldRow[t] = "none"
             /\ goldRow' = [goldRow EXCEPT ![t] = "claimed"] /\ Take(h, t, "renew")
    <2>1. Moved(h, "renew", t)
      BY <1>0, <1>3, TakeMoves
    <2>2. goldRow'[t] = "claimed"
      BY <1>0, <1>3
    <2>3. Unstarted(t) /\ ~Unstarted(t)' /\ "renew" \in Due(t)
      BY <1>0, <1>3, <2>2 DEF Unstarted, Due
    <2>4. QED
      BY <1>0, <1>1, <1>2, <1>3, <2>1, <2>3, StartOnce
  <1>4. CASE /\ GoldType(t) \notin {"code", "autorenew"} /\ GetBlob(t)
             /\ goldRow' = goldRow /\ Take(h, t, "finish")
    <2>1. Moved(h, "finish", t)
      BY <1>0, <1>4, TakeMoves
    <2>2. blob[t] = "initialized" /\ blob'[t] = "locked"
      BY <1>0, <1>4 DEF GetBlob
    <2>3. Unstarted(t) /\ ~Unstarted(t)' /\ "finish" \in Due(t)
      BY <1>0, <1>4, <2>2 DEF Unstarted, Due
    <2>4. QED
      BY <1>0, <1>1, <1>2, <1>4, <2>1, <2>3, StartOnce
  <1>5. CASE /\ goldRow' = goldRow /\ (blob' = blob \/ GetBlob(t))
             /\ Take(h, t, "code") \/ Take(h, t, "idle")
    <2>1. \E place \in {"idle", "code"}, u \in {t, Nobody} : Moved(h, place, u)
      BY <1>0, <1>5, TakeMoves
    <2>2. PICK place \in {"idle", "code"}, u \in {t, Nobody} : Moved(h, place, u)
      BY <2>1
    <2>3. place \notin Acts /\ At(h) \notin {"record", "mark"}
      BY <1>2 DEF Acts
    <2>4. blob'[t] = "initialized" => blob[t] = "initialized"
      BY <1>0, <1>5 DEF GetBlob
    <2>5. QED
      BY <1>0, <1>1, <1>5, <2>2, <2>3, <2>4, OnceApart
  <1>6. QED
    BY <1>3, <1>4, <1>5 DEF Ipn

\* The blob lets one request pass to spend the creddits for t.
LEMMA SpendOnce ==
  ASSUME GoldInv, offer' = offer, NEW h \in GoldRequests, NEW t \in Purchases, Spend(h, t)
  PROVE  Once(t)'
  <1>0. /\ Provider(t) \in {"creddits", "gild"} /\ ~Webhook(t) /\ Once(t) /\ GoldTyped
        /\ GoldType(t)' = GoldType(t) /\ Provider(t)' = Provider(t)
        /\ Webhook(t)' <=> Webhook(t)
        /\ blob \in [Purchases -> BlobStatuses]
        /\ "spend" \in GoldPlaces /\ Take(h, t, "spend")
    BY OfferKept DEF Spend, Webhook, GoldInv, GoldPlaces, GoldTyped, GoldTypeOK
  <1>1. UNCHANGED <<goldRow, delivered, takenBack, disturbed>>
    BY DEF Spend, goods
  <1>2. Deal(h) # t /\ Moved(h, "spend", t)
    BY <1>0, TakeMoves, GoldAssumption
  <1>3. CASE Provider(t) = "gild"
    BY <1>0, <1>3 DEF Once, HookOnce, OtherOnce, CodeOnce, Webhook
  <1>4. CASE Provider(t) = "creddits"
    <2>1. blob[t] = "initialized" /\ blob'[t] = "locked"
      BY <1>0, <1>4 DEF Spend, GetBlob
    <2>2. GoldType(t) # "autorenew"
      <3>1. offer \in Offers
        BY <1>0 DEF GoldTyped, GoldTypeOK
      <3>2. QED
        BY <1>4, <3>1, GoldAssumption DEF Provider, GoldType
    <2>3. CASE GoldType(t) # "code"
      <3>1. Unstarted(t) /\ ~Unstarted(t)' /\ "spend" \in Due(t)
        BY <1>0, <2>1, <2>2, <2>3 DEF Unstarted, Due
      <3>2. QED
        BY <1>0, <1>1, <1>2, <2>3, <3>1, StartOnce
    <2>4. CASE GoldType(t) = "code"
      <3>1. HookOnce(t)'
        BY <1>0 DEF HookOnce
      <3>2. OtherOnce(t)'
        <4>1. /\ Racing(t, Due(t))' <=> Racing(t, Due(t))
              /\ Single(t, Due(t)) => Single(t, Due(t))'
              /\ Unstarted(t)' <=> Unstarted(t)
          <5>1. Due(t)' = Due(t) /\ "spend" \notin Due(t)
            BY <1>0, <2>4 DEF Due
          <5>2. Unstarted(t)' <=> Unstarted(t)
            BY <1>0, <1>1, <2>4 DEF Unstarted
          <5>3. QED
            BY <1>2, <5>1, <5>2 DEF Moved, Racing, Single
        <4>2. QED
          BY <1>0, <1>1, <4>1 DEF Once, OtherOnce
      <3>3. CodeOnce(t)'
        <4>1. CASE t \notin disturbed
          <5>1. goldRow[t] = "none" /\ ~Racing(t, {"spend"}) /\ Single(t, {"spend"})
            BY <1>0, <1>4, <2>1, <2>4, <4>1 DEF Once, CodeOnce
          <5>2. Single(t, {"spend"})'
            BY <1>2, <5>1, RacingArrives
          <5>3. QED
            BY <1>1, <2>1, <5>1, <5>2 DEF CodeOnce
        <4>2. CASE t \in disturbed
          BY <1>1, <4>2 DEF CodeOnce
        <4>3. QED
          BY <4>1, <4>2
      <3>4. QED
        BY <3>1, <3>2, <3>3 DEF Once
    <2>5. QED
      BY <2>3, <2>4
  <1>5. QED
    BY <1>0, <1>3, <1>4

\* The UPDATE of claim_gold lets one request pass to give the goods of a code.
LEMMA ClaimOnce ==
  ASSUME GoldInv, offer' = offer, NEW h \in GoldRequests, NEW t \in Purchases, ClaimGold(h, t)
  PROVE  Once(t)'
  <1>0. /\ GoldType(t) = "code" /\ GoldType(t)' = GoldType(t) /\ Once(t) /\ GoldTyped
        /\ goldRow \in [Purchases -> Statuses]
        /\ "claimed" \in GoldPlaces /\ "idle" \in GoldPlaces
        /\ UNCHANGED <<blob, delivered, takenBack, disturbed>>
    BY OfferKept DEF ClaimGold, GoldInv, GoldPlaces, GoldTyped, GoldTypeOK, goods
  <1>1. At(h) = "idle" /\ Deal(h) # t
    BY <1>0, GoldAssumption DEF ClaimGold, Take, GoldTyped, RequestsRouted, Routed
  <1>2. CASE /\ goldRow[t] = "unclaimed" /\ goldRow' = [goldRow EXCEPT ![t] = "claimed"]
             /\ Take(h, t, "claimed")
    <2>1. Moved(h, "claimed", t) /\ goldRow'[t] = "claimed"
      BY <1>0, <1>2, TakeMoves
    <2>2. Unstarted(t) /\ ~Unstarted(t)' /\ "claimed" \in Due(t)
      BY <1>0, <1>2, <2>1 DEF Unstarted, Due
    <2>3. QED
      BY <1>0, <1>1, <1>2, <2>1, <2>2, StartOnce
  <1>3. CASE goldRow' = goldRow /\ Take(h, t, "idle")
    <2>1. Moved(h, "idle", Nobody) /\ "idle" \notin Acts
      BY <1>0, <1>3, TakeMoves DEF Acts
    <2>2. QED
      BY <1>0, <1>1, <1>3, <2>1, OnceApart
  <1>4. QED
    BY <1>2, <1>3 DEF ClaimGold

\* A request that has read the blob has done nothing to the purchase yet.
LEMMA ModifyOnce ==
  ASSUME GoldInv, offer' = offer, NEW h \in GoldRequests, NEW t \in Purchases,
         ModifyBlob(h, t) \/ GiveCreddits(h)
  PROVE  Once(t)'
  <1>0. /\ Once(t) /\ GoldTyped /\ "modify" \in GoldPlaces /\ "give" \in GoldPlaces
        /\ UNCHANGED <<goldRow, blob, delivered, takenBack, disturbed>>
    BY DEF ModifyBlob, GiveCreddits, GoldInv, GoldPlaces, goods
  <1>1. At(h) = "idle" /\ \E place \in {"modify", "give"}, u \in {t, Nobody} : Moved(h, place, u)
    BY <1>0, TakeMoves DEF ModifyBlob, GiveCreddits
  <1>2. PICK place \in {"modify", "give"}, u \in {t, Nobody} : Moved(h, place, u)
    BY <1>1
  <1>3. place \notin Acts
    BY DEF Acts
  <1>4. QED
    BY <1>0, <1>1, <1>2, <1>3, OnceApart

\* The steps of complete_gold_purchase and reverse_gold_purchase.
LEMMA HookStepOnce ==
  ASSUME GoldInv, offer' = offer, NEW h \in GoldRequests, NEW t \in Purchases, Deal(h) = t,
         GoldType(t) # "code",
         CompleteGive(h) \/ CompleteRecord(h) \/ ReversePurchase(h) \/ MarkReversed(h)
  PROVE  Once(t)'
  <1>0. /\ Provider(t)' = Provider(t) /\ GoldType(t)' = GoldType(t)
        /\ Webhook(t)' <=> Webhook(t)
        /\ Once(t) /\ GoldTyped /\ GoldTypeOK
        /\ disturbed' = disturbed /\ blob' = blob
        /\ goldRow \in [Purchases -> Statuses]
        /\ delivered \in [Purchases -> Nat] /\ takenBack \in [Purchases -> Nat]
        /\ delivered[t] \in Nat /\ takenBack[t] \in Nat
    BY OfferKept
    DEF GoldInv, GoldTyped, GoldTypeOK, CompleteGive, CompleteRecord, ReversePurchase, MarkReversed
  <1>1. Webhook(t)
    BY <1>0 DEF GoldTyped, RequestsRouted, Routed, CompleteGive, CompleteRecord, ReversePurchase,
                MarkReversed
  <1>2. OtherOnce(t)' /\ CodeOnce(t)'
    BY <1>0, <1>1 DEF OtherOnce, CodeOnce, Webhook
  <1>3. CASE t \in disturbed
    BY <1>0, <1>3 DEF Once, HookOnce, OtherOnce, CodeOnce
  <1>4. CASE t \notin disturbed
    <2>0. /\ goldRow[t] \in {"none", "processed", "reversed"}
          /\ Single(t, {"lock", "record"}) /\ Single(t, {"reverse", "mark"})
          /\ Racing(t, {"lock", "record"}) => goldRow[t] = "none"
          /\ Racing(t, {"reverse", "mark"}) => goldRow[t] = "processed"
          /\ delivered[t] = IF goldRow[t] = "none" /\ ~Racing(t, {"record"}) THEN 0 ELSE 1
          /\ takenBack[t] = IF goldRow[t] = "reversed" \/ Racing(t, {"mark"}) THEN 1 ELSE 0
      BY <1>0, <1>1, <1>4 DEF Once, HookOnce
    <2>1. CASE CompleteGive(h)
      <3>1. At(h) = "lock" /\ GoldGoto(h, "record") /\ GiveGoods(t) /\ goldRow' = goldRow
        BY <2>1 DEF CompleteGive
      <3>2. Moved(h, "record", t) /\ delivered'[t] = delivered[t] + 1 /\ takenBack' = takenBack
        BY <1>0, <3>1, GotoMoves, GiveTyped DEF GoldPlaces
      <3>3. /\ Racing(t, {"lock", "record"}) /\ Single(t, {"lock", "record"})'
        BY <2>0, <3>1, <3>2, RacingMoves
      <3>4. /\ ~Racing(t, {"record"}) /\ Racing(t, {"record"})'
            /\ Single(t, {"reverse", "mark"})'
            /\ Racing(t, {"reverse", "mark"})' <=> Racing(t, {"reverse", "mark"})
            /\ Racing(t, {"mark"})' <=> Racing(t, {"mark"})
        BY <2>0, <3>1, <3>2 DEF Moved, Single, Racing
      <3>5. delivered'[t] = 1
        BY <2>0, <3>2, <3>3, <3>4
      <3>6. HookOnce(t)'
        BY <2>0, <3>1, <3>2, <3>3, <3>4, <3>5 DEF HookOnce
      <3>7. QED
        BY <1>2, <3>6 DEF Once
    <2>2. CASE CompleteRecord(h)
      <3>1. /\ At(h) = "record" /\ Return(h) /\ UNCHANGED <<delivered, takenBack>>
            /\ goldRow' = [goldRow EXCEPT ![t] = IF @ = "none" THEN "processed" ELSE @]
        BY <2>2 DEF CompleteRecord, goods
      <3>2. Moved(h, "idle", Nobody) /\ Nobody # t
        BY <1>0, <3>1, ReturnMoves, GoldAssumption
      <3>3. /\ Racing(t, {"lock", "record"}) /\ Single(t, {"lock", "record"})'
            /\ ~Racing(t, {"lock", "record"})'
        BY <2>0, <3>1, <3>2, RacingMoves
      <3>4. goldRow[t] = "none" /\ goldRow'[t] = "processed"
        BY <1>0, <2>0, <3>1, <3>3
      <3>5. /\ Racing(t, {"record"})
            /\ Single(t, {"reverse", "mark"})'
            /\ Racing(t, {"mark"})' <=> Racing(t, {"mark"})
        BY <2>0, <3>1, <3>2 DEF Moved, Single, Racing
      <3>6. HookOnce(t)'
        BY <2>0, <3>1, <3>3, <3>4, <3>5 DEF HookOnce
      <3>7. QED
        BY <1>2, <3>6 DEF Once
    <2>3. CASE ReversePurchase(h)
      <3>1. /\ At(h) = "reverse" /\ GoldGoto(h, "mark") /\ UNCHANGED <<goldRow, delivered>>
            /\ takenBack' = [takenBack EXCEPT ![t] = @ + 1]
        BY <2>3 DEF ReversePurchase
      <3>2. Moved(h, "mark", t) /\ takenBack'[t] = takenBack[t] + 1
        BY <1>0, <3>1, GotoMoves DEF GoldPlaces
      <3>3. Racing(t, {"reverse", "mark"}) /\ Single(t, {"reverse", "mark"})'
        BY <2>0, <3>1, <3>2, RacingMoves
      <3>4. /\ ~Racing(t, {"mark"}) /\ Racing(t, {"mark"})'
            /\ Single(t, {"lock", "record"})'
            /\ Racing(t, {"lock", "record"})' <=> Racing(t, {"lock", "record"})
            /\ Racing(t, {"record"})' <=> Racing(t, {"record"})
        BY <2>0, <3>1, <3>2 DEF Moved, Single, Racing
      <3>5. goldRow[t] = "processed" /\ takenBack'[t] = 1
        BY <2>0, <3>2, <3>3, <3>4
      <3>6. HookOnce(t)'
        BY <2>0, <3>1, <3>3, <3>4, <3>5 DEF HookOnce
      <3>7. QED
        BY <1>2, <3>6 DEF Once
    <2>4. CASE MarkReversed(h)
      <3>1. /\ At(h) = "mark" /\ Return(h) /\ UNCHANGED <<delivered, takenBack>>
            /\ goldRow' = [goldRow EXCEPT ![t] = "reversed"]
        BY <2>4 DEF MarkReversed, goods
      <3>2. Moved(h, "idle", Nobody) /\ Nobody # t /\ goldRow'[t] = "reversed"
        BY <1>0, <3>1, ReturnMoves, GoldAssumption
      <3>3. /\ Racing(t, {"reverse", "mark"}) /\ Single(t, {"reverse", "mark"})'
            /\ ~Racing(t, {"reverse", "mark"})'
        BY <2>0, <3>1, <3>2, RacingMoves
      <3>4. /\ Racing(t, {"mark"})
            /\ Single(t, {"lock", "record"})'
            /\ Racing(t, {"lock", "record"})' <=> Racing(t, {"lock", "record"})
        BY <2>0, <3>1, <3>2 DEF Moved, Single, Racing
      <3>5. HookOnce(t)'
        BY <2>0, <3>1, <3>2, <3>3, <3>4 DEF HookOnce
      <3>6. QED
        BY <1>2, <3>5 DEF Once
    <2>5. QED
      BY <2>1, <2>2, <2>3, <2>4
  <1>5. QED
    BY <1>3, <1>4

\* The reversal of a code's purchase.
LEMMA CodeReversalOnce ==
  ASSUME GoldInv, offer' = offer, NEW h \in GoldRequests, NEW t \in Purchases, Deal(h) = t,
         GoldType(t) = "code", ReversePurchase(h) \/ MarkReversed(h)
  PROVE  Once(t)'
  <1>0. /\ Provider(t)' = Provider(t) /\ GoldType(t)' = GoldType(t)
        /\ Webhook(t)' <=> Webhook(t)
        /\ Due(t)' = Due(t)
        /\ Once(t) /\ GoldTyped /\ GoldTypeOK
        /\ UNCHANGED <<disturbed, delivered, takenBack>>
        /\ goldRow \in [Purchases -> Statuses]
    BY OfferKept DEF GoldInv, GoldTyped, GoldTypeOK, ReversePurchase, MarkReversed, goods
  <1>1. Webhook(t)
    BY DEF GoldInv, GoldTyped, RequestsRouted, Routed, ReversePurchase, MarkReversed
  <1>2. \E place \in {"mark", "idle"}, u \in {t, Nobody} : Moved(h, place, u)
    BY <1>0, ReturnMoves, GotoMoves DEF ReversePurchase, MarkReversed, GoldPlaces
  <1>3. PICK place \in {"mark", "idle"}, u \in {t, Nobody} : Moved(h, place, u)
    BY <1>2
  <1>4. place \notin Due(t)
    BY DEF Due
  <1>5. /\ Racing(t, Due(t))' => Racing(t, Due(t))
        /\ Single(t, Due(t)) => Single(t, Due(t))'
    BY <1>0, <1>3, <1>4 DEF Moved, Racing, Single
  <1>6. Unstarted(t)' => Unstarted(t)
    <2>1. goldRow'[t] \in {goldRow[t], "reversed"}
      BY <1>0 DEF ReversePurchase, MarkReversed
    <2>2. QED
      BY <1>0, <2>1 DEF Unstarted
  <1>7. OtherOnce(t)'
    BY <1>0, <1>5, <1>6 DEF Once, OtherOnce
  <1>8. HookOnce(t)' /\ CodeOnce(t)'
    BY <1>0, <1>1 DEF HookOnce, CodeOnce, Webhook
  <1>9. QED
    BY <1>7, <1>8 DEF Once

\* Whoever was to give the goods has given them.
LEMMA GivenOnce ==
  ASSUME GoldInv, offer' = offer, NEW h \in GoldRequests, NEW t \in Purchases, Deal(h) = t,
         At(h) \in Due(t), NEW place, NEW u, Moved(h, place, u), place \notin Due(t) \cup {"spend"},
         Webhook(t) => GoldType(t) = "code",
         goldRow'[t] = goldRow[t], blob'[t] = blob[t], takenBack'[t] = takenBack[t],
         disturbed' = disturbed, delivered'[t] = delivered[t] + 1
  PROVE  Once(t)'
  <1>0. /\ Provider(t)' = Provider(t) /\ GoldType(t)' = GoldType(t)
        /\ Webhook(t)' <=> Webhook(t)
        /\ Due(t)' = Due(t)
        /\ Once(t)
    BY OfferKept DEF GoldInv
  <1>1. HookOnce(t)'
    BY <1>0 DEF HookOnce
  <1>2. OtherOnce(t)'
    <2>1. CASE t \in disturbed \/ Provider(t) = "gild"
      BY <1>0, <2>1 DEF OtherOnce
    <2>2. CASE t \notin disturbed /\ Provider(t) # "gild"
      <3>1. Racing(t, Due(t))
        BY DEF Racing
      <3>2. /\ takenBack[t] = 0 /\ delivered[t] = 0 /\ ~Unstarted(t) /\ Single(t, Due(t))
        BY <1>0, <2>2, <3>1 DEF Once, OtherOnce
      <3>3. Single(t, Due(t))' /\ ~Racing(t, Due(t))'
        BY <1>0, <3>2 DEF Moved, Racing, Single
      <3>4. ~Unstarted(t)' /\ delivered'[t] = 1
        BY <1>0, <3>2 DEF Unstarted
      <3>5. QED
        BY <1>0, <3>2, <3>3, <3>4 DEF OtherOnce
    <2>3. QED
      BY <2>1, <2>2
  <1>3. CodeOnce(t)'
    <2>1. /\ Single(t, {"spend"}) => Single(t, {"spend"})'
          /\ Racing(t, {"spend"})' => Racing(t, {"spend"})
      BY DEF Moved, Racing, Single
    <2>2. QED
      BY <1>0, <2>1 DEF Once, CodeOnce
  <1>4. QED
    BY <1>1, <1>2, <1>3 DEF Once

\* The row of a code is inserted once, and is then to be claimed.
LEMMA MakeCodeOnce ==
  ASSUME GoldInv, offer' = offer, NEW h \in GoldRequests, NEW t \in Purchases, Deal(h) = t,
         MakeCode(h)
  PROVE  Once(t)'
  <1>0. /\ Provider(t)' = Provider(t) /\ GoldType(t)' = GoldType(t)
        /\ Due(t)' = Due(t)
        /\ Once(t) /\ GoldTyped /\ GoldTypeOK
        /\ UNCHANGED <<disturbed, delivered, takenBack, blob>>
        /\ At(h) = "code" /\ goldRow \in [Purchases -> Statuses]
        /\ Webhook(t)' <=> Webhook(t)
    BY OfferKept DEF GoldInv, GoldTyped, GoldTypeOK, MakeCode, goods
  <1>1. GoldType(t) = "code" /\ Provider(t) # "creddits"
    BY <1>0 DEF GoldTyped, RequestsRouted, Routed
  <1>2. CASE Return(h) /\ goldRow' = goldRow
    <2>1. Moved(h, "idle", Nobody) /\ "idle" \notin Acts
      BY <1>0, <1>2, ReturnMoves DEF Acts
    <2>2. QED
      BY <1>0, <1>2, <2>1, OnceApart
  <1>3. CASE /\ goldRow[t] = "none" /\ goldRow' = [goldRow EXCEPT ![t] = "unclaimed"]
             /\ GoldGoto(h, "send")
    <2>1. Moved(h, "send", t)
      BY <1>0, <1>3, GotoMoves DEF GoldPlaces
    <2>2. Unstarted(t)
      BY <1>1, <1>3 DEF Unstarted
    <2>3. /\ Racing(t, Due(t))' <=> Racing(t, Due(t))
          /\ Single(t, Due(t)) => Single(t, Due(t))'
      <3>1. "send" \notin Due(t) /\ At(h) \notin Due(t)
        BY <1>0 DEF Due
      <3>2. QED
        BY <1>0, <2>1, <3>1 DEF Moved, Racing, Single
    <2>4. OtherOnce(t)'
      BY <1>0, <2>2, <2>3 DEF Once, OtherOnce
    <2>5. HookOnce(t)' /\ CodeOnce(t)'
      BY <1>0, <1>1 DEF HookOnce, CodeOnce
    <2>6. QED
      BY <2>4, <2>5 DEF Once
  <1>4. QED
    BY <1>2, <1>3 DEF MakeCode

\* create_claimed_gold comes after the goods.
LEMMA FinishRowOnce ==
  ASSUME GoldInv, offer' = offer, NEW h \in GoldRequests, NEW t \in Purchases, Deal(h) = t,
         FinishRow(h)
  PROVE  Once(t)'
  <1>0. /\ Provider(t)' = Provider(t) /\ GoldType(t)' = GoldType(t)
        /\ Due(t)' = Due(t)
        /\ Once(t) /\ GoldTyped /\ GoldTypeOK
        /\ UNCHANGED <<disturbed, delivered, takenBack, blob>>
        /\ At(h) = "row"
        /\ Webhook(t)' <=> Webhook(t)
    BY OfferKept DEF GoldInv, GoldTyped, FinishRow, goods
  <1>1. GoldType(t) \notin {"code", "autorenew"} /\ Provider(t) = "paypal" /\ ~Webhook(t)
    BY <1>0 DEF GoldTyped, RequestsRouted, Routed, Webhook
  <1>2. \E place \in {"idle", "blob"}, u \in {t, Nobody} : Moved(h, place, u)
    BY <1>0, ReturnMoves, GotoMoves DEF FinishRow, GoldPlaces
  <1>3. PICK place \in {"idle", "blob"}, u \in {t, Nobody} : Moved(h, place, u)
    BY <1>2
  <1>4. /\ Racing(t, Due(t))' <=> Racing(t, Due(t))
        /\ Single(t, Due(t)) => Single(t, Due(t))'
    <2>1. place \notin Due(t) /\ At(h) \notin Due(t)
      BY <1>0 DEF Due
    <2>2. QED
      BY <1>0, <1>3, <2>1 DEF Moved, Racing, Single
  <1>5. Unstarted(t)' <=> Unstarted(t)
    BY <1>0, <1>1 DEF Unstarted
  <1>6. OtherOnce(t)'
    BY <1>0, <1>4, <1>5 DEF Once, OtherOnce
  <1>7. HookOnce(t)' /\ CodeOnce(t)'
    BY <1>0, <1>1 DEF HookOnce, CodeOnce
  <1>8. QED
    BY <1>6, <1>7 DEF Once

\* Goods given for creddits, or a code made for them, by who has got the blob.
LEMMA SpendGiveOnce ==
  ASSUME GoldInv, offer' = offer, NEW h \in GoldRequests, NEW t \in Purchases, Deal(h) = t,
         SpendGive(h)
  PROVE  Once(t)'
  <1>0. /\ Provider(t)' = Provider(t) /\ GoldType(t)' = GoldType(t)
        /\ Due(t)' = Due(t)
        /\ Once(t) /\ GoldTyped /\ GoldTypeOK
        /\ UNCHANGED <<disturbed, takenBack, blob>>
        /\ At(h) = "spend" /\ goldRow \in [Purchases -> Statuses]
        /\ delivered \in [Purchases -> Nat] /\ "pay" \in GoldPlaces
        /\ Webhook(t)' <=> Webhook(t)
    BY OfferKept DEF GoldInv, GoldTyped, GoldTypeOK, SpendGive, GoldPlaces
  <1>1. Provider(t) \in {"creddits", "gild"} /\ ~Webhook(t)
    BY <1>0 DEF GoldTyped, RequestsRouted, Routed, Webhook
  <1>2. CASE Return(h) /\ goldRow' = goldRow /\ delivered' = delivered
    <2>1. Moved(h, "idle", Nobody) /\ "idle" \notin Acts
      BY <1>0, <1>2, ReturnMoves DEF Acts
    <2>2. QED
      BY <1>0, <1>2, <2>1, OnceApart
  <1>3. CASE /\ GoldType(t) = "code" /\ goldRow' = [goldRow EXCEPT ![t] = "unclaimed"]
             /\ GoldGoto(h, "pay") /\ delivered' = delivered
    <2>1. Moved(h, "pay", t) /\ goldRow'[t] = "unclaimed"
      BY <1>0, <1>3, GotoMoves
    <2>2. CASE t \in disturbed \/ Provider(t) = "gild"
      BY <1>0, <1>1, <2>2 DEF Once, HookOnce, OtherOnce, CodeOnce
    <2>3. CASE t \notin disturbed /\ Provider(t) = "creddits"
      <3>1. Racing(t, {"spend"}) /\ Single(t, {"spend"})' /\ ~Racing(t, {"spend"})'
        <4>1. Single(t, {"spend"})
          BY <1>0, <1>3, <2>3 DEF Once, CodeOnce
        <4>2. QED
          BY <1>0, <2>1, <4>1, RacingMoves
      <3>2. goldRow[t] = "none" /\ blob[t] # "initialized"
        BY <1>0, <1>3, <2>3, <3>1 DEF Once, CodeOnce
      <3>3. CodeOnce(t)'
        BY <1>0, <3>1, <3>2 DEF CodeOnce
      <3>4. /\ Racing(t, Due(t))' <=> Racing(t, Due(t))
            /\ Single(t, Due(t)) => Single(t, Due(t))'
        <4>1. "pay" \notin Due(t) /\ At(h) \notin Due(t)
          BY <1>0, <1>3 DEF Due
        <4>2. QED
          BY <1>0, <2>1, <4>1 DEF Moved, Racing, Single
      <3>5. Unstarted(t)
        BY <1>3, <3>2 DEF Unstarted
      <3>6. OtherOnce(t)'
        BY <1>0, <1>3, <3>4, <3>5 DEF Once, OtherOnce
      <3>7. HookOnce(t)'
        BY <1>0, <1>1 DEF HookOnce
      <3>8. QED
        BY <3>3, <3>6, <3>7 DEF Once
    <2>4. QED
      BY <1>1, <2>2, <2>3
  <1>4. CASE /\ GoldType(t) # "code" /\ delivered' = [delivered EXCEPT ![t] = @ + 1]
             /\ req' = [req EXCEPT ![h].at = "pay", ![h].creddits = creddits]
             /\ goldRow' = goldRow
    <2>1. Moved(h, "pay", t)
      BY <1>0, <1>4 DEF GoldTypeOK, Moved, At, Deal
    <2>2. /\ "spend" \in Due(t) /\ "pay" \notin Due(t) \cup {"spend"}
          /\ delivered'[t] = delivered[t] + 1
      BY <1>0, <1>4 DEF Due
    <2>3. QED
      BY <1>0, <1>1, <1>4, <2>1, <2>2, GivenOnce
  <1>5. QED
    BY <1>2, <1>3, <1>4 DEF SpendGive

\* The goods of renewals, of PayPal's purchases and of codes.
LEMMA GiveStepOnce ==
  ASSUME GoldInv, offer' = offer, NEW h \in GoldRequests, NEW t \in Purchases, Deal(h) = t,
         Renew(h) \/ FinishGive(h) \/ ClaimGive(h)
  PROVE  Once(t)'
  <1>0. /\ GoldTyped /\ GoldTypeOK /\ GiveGoods(t) /\ UNCHANGED <<goldRow, blob, disturbed>>
        /\ At(h) \in {"renew", "finish", "claimed"}
    BY DEF GoldInv, GoldTyped, Renew, FinishGive, ClaimGive
  <1>1. delivered'[t] = delivered[t] + 1 /\ takenBack' = takenBack
    BY <1>0, GiveTyped
  <1>2. Webhook(t) => GoldType(t) = "code"
    BY <1>0 DEF GoldTyped, RequestsRouted, Routed, Webhook
  <1>3. \E place \in {"idle", "row"}, u \in {t, Nobody} : Moved(h, place, u)
    BY <1>0, ReturnMoves, GotoMoves DEF Renew, FinishGive, ClaimGive, GoldPlaces
  <1>4. PICK place \in {"idle", "row"}, u \in {t, Nobody} : Moved(h, place, u)
    BY <1>3
  <1>5. At(h) \in Due(t) /\ place \notin Due(t) \cup {"spend"}
    BY <1>0 DEF Due
  <1>6. QED
    BY <1>0, <1>1, <1>2, <1>4, <1>5, GivenOnce

\* Steps that have nothing to do with who gives the goods of t.
LEMMA AsideOnce ==
  ASSUME GoldInv, offer' = offer, NEW h \in GoldRequests, NEW t \in Purchases,
         \/ SendCode(h) \/ SetBlobProcessed(h) \/ WriteBlob(h) \/ Pay(h) \/ SaveCreddits(h)
         \/ GoldCrash(h)
  PROVE  Once(t)'
  <1>0. /\ GoldTyped /\ GoldTypeOK /\ Once(t) /\ blob \in [Purchases -> BlobStatuses]
        /\ UNCHANGED <<goldRow, delivered, takenBack>> /\ disturbed \subseteq disturbed'
        /\ "idle" \in GoldPlaces /\ "blob" \in GoldPlaces
    BY DEF GoldInv, GoldTyped, GoldTypeOK, SendCode, SetBlobProcessed, WriteBlob, Pay,
           SaveCreddits, GoldCrash, goods, GoldPlaces
  <1>1. \E place \in {"idle", "blob"}, u \in {Deal(h), Nobody} : Moved(h, place, u)
    <2>1. Return(h) \/ GoldGoto(h, "blob")
      BY DEF SendCode, SetBlobProcessed, WriteBlob, Pay, SaveCreddits, GoldCrash
    <2>2. QED
      BY <1>0, <2>1, ReturnMoves, GotoMoves
  <1>2. PICK place \in {"idle", "blob"}, u \in {Deal(h), Nobody} : Moved(h, place, u)
    BY <1>1
  <1>3. place \notin Acts
    BY DEF Acts
  <1>4. CASE t \in disturbed'
    BY <1>4 DEF Once, HookOnce, OtherOnce, CodeOnce
  <1>5. CASE t \notin disturbed'
    <2>1. ~(Deal(h) = t /\ At(h) \in {"record", "mark"})
      BY <1>5 DEF SendCode, SetBlobProcessed, WriteBlob, Pay, SaveCreddits, GoldCrash
    <2>2. blob'[t] = "initialized" => blob[t] = "initialized"
      <3>1. CASE WriteBlob(h)
        <4>1. /\ blob' = [blob EXCEPT ![Deal(h)] = req[h].status]
              /\ Deal(h) = t => blob[t] = req[h].status
          BY <1>5, <3>1 DEF WriteBlob
        <4>2. QED
          BY <1>0, <4>1
      <3>2. CASE SetBlobProcessed(h)
        BY <1>0, <3>2 DEF SetBlobProcessed
      <3>3. CASE blob' = blob
        BY <3>3
      <3>4. QED
        BY <3>1, <3>2, <3>3 DEF SendCode, Pay, SaveCreddits, GoldCrash
    <2>3. QED
      BY <1>0, <1>2, <1>3, <2>1, <2>2, OnceApart
  <1>6. QED
    BY <1>4, <1>5

\* A request changes nothing of other purchases.
LEMMA ElsewhereOnce ==
  ASSUME GoldInv, offer' = offer, NEW h \in GoldRequests, NEW t \in Purchases, Deal(h) # t,
         RequestStep(h)
  PROVE  Once(t)'
  <1> DEFINE d == Deal(h)
  <1>0. /\ GoldTyped /\ GoldTypeOK /\ Once(t)
        /\ goldRow \in [Purchases -> Statuses] /\ blob \in [Purchases -> BlobStatuses]
        /\ delivered \in [Purchases -> Nat] /\ takenBack \in [Purchases -> Nat]
    BY DEF GoldInv, GoldTyped, GoldTypeOK
  <1>1. CASE SpendGive(h)
    <2>1. /\ Return(h) \/ GoldGoto(h, "pay")
             \/ req' = [req EXCEPT ![h].at = "pay", ![h].creddits = creddits]
          /\ goldRow' = goldRow \/ goldRow' = [goldRow EXCEPT ![d] = "unclaimed"]
          /\ delivered' = delivered \/ delivered' = [delivered EXCEPT ![d] = @ + 1]
          /\ UNCHANGED <<blob, takenBack, disturbed>>
      BY <1>1 DEF SpendGive
    <2>2. \E place \in GoldPlaces, u \in {d, Nobody} : Moved(h, place, u)
      <3>1. CASE req' = [req EXCEPT ![h].at = "pay", ![h].creddits = creddits]
        <4>1. Moved(h, "pay", d)
          BY <1>0, <3>1 DEF GoldTypeOK, Moved, At, Deal
        <4>2. QED
          BY <4>1 DEF GoldPlaces
      <3>2. QED
        BY <1>0, <2>1, <3>1, ReturnMoves, GotoMoves DEF GoldPlaces
    <2>3. PICK place \in GoldPlaces, u \in {d, Nobody} : Moved(h, place, u)
      BY <2>2
    <2>4. u # t /\ goldRow'[t] = goldRow[t] /\ delivered'[t] = delivered[t]
      BY <1>0, <2>1, GoldAssumption
    <2>5. QED
      BY <1>0, <2>1, <2>3, <2>4, OnceApart
  <1>2. CASE SendCode(h) \/ SetBlobProcessed(h) \/ WriteBlob(h) \/ Pay(h) \/ SaveCreddits(h)
    BY <1>2, AsideOnce
  <1>3. CASE \/ MakeCode(h) \/ CompleteGive(h) \/ CompleteRecord(h) \/ ReversePurchase(h)
             \/ MarkReversed(h) \/ Renew(h) \/ FinishGive(h) \/ FinishRow(h) \/ ClaimGive(h)
    <2>1. UNCHANGED <<blob, disturbed>>
      BY <1>3 DEF MakeCode, CompleteGive, CompleteRecord, ReversePurchase, MarkReversed, Renew,
                  FinishGive, FinishRow, ClaimGive
    <2>2. goldRow' = goldRow \/ \E s : goldRow' = [goldRow EXCEPT ![d] = s]
      BY <1>3 DEF MakeCode, CompleteGive, CompleteRecord, ReversePurchase, MarkReversed, Renew,
                  FinishGive, FinishRow, ClaimGive
    <2>3. /\ delivered' = delivered \/ delivered' = [delivered EXCEPT ![d] = @ + 1]
          /\ takenBack' = takenBack \/ takenBack' = [takenBack EXCEPT ![d] = @ + 1]
      BY <1>3 DEF MakeCode, CompleteGive, CompleteRecord, ReversePurchase, MarkReversed, Renew,
                  FinishGive, FinishRow, ClaimGive, goods, GiveGoods
    <2>4. \E place \in GoldPlaces, u \in {d, Nobody} : Moved(h, place, u)
      <3>1. Return(h) \/ \E place \in {"send", "record", "mark", "row", "blob"} : GoldGoto(h, place)
        BY <1>3 DEF MakeCode, CompleteGive, CompleteRecord, ReversePurchase, MarkReversed, Renew,
                    FinishGive, FinishRow, ClaimGive
      <3>2. {"idle", "send", "record", "mark", "row", "blob"} \subseteq GoldPlaces
        BY DEF GoldPlaces
      <3>3. QED
        BY <1>0, <3>1, <3>2, ReturnMoves, GotoMoves
    <2>5. PICK place \in GoldPlaces, u \in {d, Nobody} : Moved(h, place, u)
      BY <2>4
    <2>6. /\ u # t /\ goldRow'[t] = goldRow[t] /\ delivered'[t] = delivered[t]
          /\ takenBack'[t] = takenBack[t]
      BY <1>0, <2>2, <2>3, GoldAssumption
    <2>7. QED
      BY <1>0, <2>1, <2>5, <2>6, OnceApart
  <1>4. QED
    BY <1>1, <1>2, <1>3 DEF RequestStep

\* So does one that arrives.
LEMMA ArrivalElsewhereOnce ==
  ASSUME GoldInv, offer' = offer, NEW h \in GoldRequests, NEW d \in Purchases,
         NEW t \in Purchases, d # t,
         \/ Succeeded(h, d) \/ Refunded(h, d) \/ Cancelled(h, d)
         \/ Ipn(h, d) \/ ModifyBlob(h, d) \/ Spend(h, d) \/ ClaimGold(h, d)
  PROVE  Once(t)'
  <1>0. /\ GoldTyped /\ Once(t)
        /\ goldRow \in [Purchases -> Statuses] /\ blob \in [Purchases -> BlobStatuses]
        /\ UNCHANGED <<delivered, takenBack>>
    BY DEF GoldInv, GoldTyped, GoldTypeOK, goods, Succeeded, Refunded, Cancelled, Ipn, ModifyBlob,
           Spend, ClaimGold
  <1>1. /\ goldRow' = goldRow \/ goldRow' = [goldRow EXCEPT ![d] = "claimed"]
        /\ blob' = blob \/ blob' = [blob EXCEPT ![d] = "locked"]
        /\ disturbed \subseteq disturbed'
    BY DEF Succeeded, Refunded, Cancelled, Ipn, ModifyBlob, Spend, ClaimGold, GetBlob
  <1>2. \E place \in GoldPlaces : Take(h, d, place)
    <2>1. \E place \in {"idle", "code", "lock", "reverse", "renew", "finish", "modify", "spend",
                        "claimed"} : Take(h, d, place)
      BY DEF Succeeded, Refunded, Cancelled, Ipn, ModifyBlob, Spend, ClaimGold, NextOfSuccess
    <2>2. QED
      BY <2>1 DEF GoldPlaces
  <1>3. /\ At(h) = "idle"
        /\ \E place \in GoldPlaces, u \in {d, Nobody} : Moved(h, place, u)
    BY <1>0, <1>2, TakeMoves
  <1>4. PICK place \in GoldPlaces, u \in {d, Nobody} : Moved(h, place, u)
    BY <1>3
  <1>5. u # t /\ goldRow'[t] = goldRow[t] /\ blob'[t] = blob[t]
    BY <1>0, <1>1, GoldAssumption
  <1>6. QED
    BY <1>0, <1>1, <1>3, <1>4, <1>5, OnceApart

-----------------------------------------------------------------------------
(* The account's creddits                                                  *)

\* Both sides of the balance change by as much.
LEMMA Balance ==
  ASSUME NEW c \in Int, NEW g \in Int, NEW s \in Int, NEW o \in Int, NEW d \in Int
  PROVE  /\ c = g - s + o => c + d = (g + d) - s + o
         /\ c = g - s + 0 => c = g - (s + 1) + 1
         /\ c = g - s + 1 => c - 1 = g - s + 0
  OBVIOUS

\* What is granted by a saved number of creddits is the difference to the old one.
LEMMA Restated ==
  ASSUME NEW c \in Int, NEW g \in Int, NEW s \in Int, NEW e \in Int
  PROVE  c = g - s + 0 => e = (g + e - c) - s + 0
  OBVIOUS

\* Every step of a request, and its death, keeps the creddits balanced, or is stale.
LEMMA WalletStep ==
  ASSUME GoldInv, NEW h \in GoldRequests, RequestStep(h) \/ GoldCrash(h)
  PROVE  WalletExact'
  <1>0. /\ GoldTyped /\ WalletExact /\ creddits \in Int /\ granted \in Int /\ spent \in Nat
        /\ h # Nobody /\ Copy(h) \in Int
    BY GoldAssumption, DealTyped DEF GoldInv, GoldTyped, GoldTypeOK
  <1>1. CASE UNCHANGED <<creddits, granted, spent, stale, credditsLock>>
    BY <1>0, <1>1 DEF WalletExact
  <1>2. CASE /\ \E d \in Int : creddits' = creddits + d /\ granted' = granted + d
             /\ UNCHANGED <<spent, stale, credditsLock>>
    <2> DEFINE unpaid == IF credditsLock = Nobody THEN 0 ELSE 1
    <2>1. unpaid \in Int /\ unpaid' = unpaid
      BY <1>2
    <2>2. PICK d \in Int : creddits' = creddits + d /\ granted' = granted + d
      BY <1>2
    <2> HIDE DEF unpaid
    <2>3. creddits = granted - spent + unpaid => creddits' = granted' - spent' + unpaid
      <3>1. creddits \in Int /\ granted \in Int /\ spent \in Int
        BY <1>0
      <3>2. creddits = granted - spent + unpaid => creddits + d = (granted + d) - spent + unpaid
        BY <2>1, <3>1, Balance
      <3>3. QED
        BY <1>2, <2>2, <3>2
    <2>4. QED
      BY <1>0, <1>2, <2>1, <2>3 DEF WalletExact, unpaid
  <1>3. CASE SpendGive(h)
    <2>1. UNCHANGED <<creddits, granted>>
      BY <1>3 DEF SpendGive
    <2>2. CASE UNCHANGED <<spent, stale, credditsLock>>
      BY <1>1, <2>1, <2>2
    <2>3. CASE credditsLock = Nobody /\ credditsLock' = h /\ spent' = spent + 1
               /\ stale' = (stale \/ Copy(h) # creddits)
      <3>1. creddits = granted - spent + 0 => creddits' = granted' - spent' + 1
        BY <1>0, <2>1, <2>3
      <3>2. QED
        BY <1>0, <2>3, <3>1 DEF WalletExact
    <2>4. QED
      BY <1>3, <2>2, <2>3 DEF SpendGive
  <1>4. CASE Pay(h)
    <2>1. /\ credditsLock = h /\ credditsLock' = Nobody /\ creddits' = Copy(h) - 1
          /\ stale' = (stale \/ Copy(h) # creddits) /\ UNCHANGED <<granted, spent>>
      BY <1>0, <1>4 DEF Pay, WriteCreddits, GoldTyped, LockMeans
    <2>2. (creddits = granted - spent + 1 /\ Copy(h) = creddits) =>
             creddits' = granted' - spent' + 0
      BY <1>0, <2>1
    <2>3. QED
      BY <1>0, <2>1, <2>2 DEF WalletExact
  <1>5. CASE SaveCreddits(h)
    <2>1. /\ credditsLock = Nobody /\ credditsLock' = Nobody
          /\ creddits' \in {Copy(h) + 1, 0} /\ granted' = granted + creddits' - Copy(h)
          /\ stale' = (stale \/ Copy(h) # creddits) /\ spent' = spent
      BY <1>5 DEF SaveCreddits, WriteCreddits, goldLocks
    <2>2. creddits' \in Int
      BY <1>0, <2>1
    <2>3. creddits \in Int /\ granted \in Int /\ spent \in Int /\ 0 \in Int
      BY <1>0
    <2>4. (creddits = granted - spent + 0 /\ Copy(h) = creddits) =>
             creddits' = granted' - spent' + 0
      <3>1. PICK e \in Int : e = creddits'
        BY <2>2
      <3>2. creddits = granted - spent + 0 => e = (granted + e - creddits) - spent + 0
        BY <2>3, Restated
      <3>3. QED
        BY <2>1, <3>1, <3>2
    <2>5. QED
      BY <1>0, <2>1, <2>4 DEF WalletExact
  <1>6. CASE GoldCrash(h)
    <2>1. /\ UNCHANGED <<creddits, granted, spent>> /\ stale' = (stale \/ At(h) = "pay")
          /\ credditsLock' = IF credditsLock = h THEN Nobody ELSE credditsLock
      BY <1>6 DEF GoldCrash
    <2>2. At(h) # "pay" => credditsLock # h
      BY <1>0 DEF GoldTyped, LockMeans
    <2>3. QED
      BY <1>0, <2>1, <2>2 DEF WalletExact
  <1>7. CASE CompleteGive(h) \/ Renew(h) \/ FinishGive(h) \/ ClaimGive(h)
    <2>1. GiveGoods(Deal(h)) /\ credditsLock' = credditsLock /\ At(h) \notin {"idle", "give"}
      BY <1>7 DEF CompleteGive, Renew, FinishGive, ClaimGive, goldLocks
    <2>2. QED
      BY <1>0, <1>2, <2>1, DealTyped, GiveTyped
  <1>8. CASE ReversePurchase(h)
    <2>1. /\ \/ creddits' = creddits - 1 /\ granted' = granted - 1
             \/ creddits' = creddits /\ granted' = granted
          /\ UNCHANGED <<spent, stale, credditsLock>>
      BY <1>8 DEF ReversePurchase, goldLocks
    <2>2. /\ -1 \in Int /\ 0 \in Int
          /\ creddits - 1 = creddits + (-1) /\ granted - 1 = granted + (-1)
          /\ creddits = creddits + 0 /\ granted = granted + 0
      BY <1>0
    <2>3. \E d \in Int : creddits' = creddits + d /\ granted' = granted + d
      BY <2>1, <2>2
    <2>4. QED
      BY <1>2, <2>1, <2>3
  <1>9. CASE \/ MakeCode(h) \/ SendCode(h) \/ CompleteRecord(h) \/ MarkReversed(h)
             \/ FinishRow(h) \/ SetBlobProcessed(h) \/ WriteBlob(h)
    BY <1>1, <1>9 DEF MakeCode, SendCode, CompleteRecord, MarkReversed, FinishRow,
                      SetBlobProcessed, WriteBlob, wallet, goldLocks
  <1>10. QED
    BY <1>3, <1>4, <1>5, <1>6, <1>7, <1>8, <1>9 DEF RequestStep

-----------------------------------------------------------------------------
(* Theorems                                                                *)

\* The invariant holds before any request.
LEMMA GoldInitially ==
  ASSUME GoldInit
  PROVE  GoldInv
  <1>1. /\ \A h \in GoldRequests : At(h) = "idle" /\ Deal(h) = Nobody
        /\ \A t \in Purchases : /\ delivered[t] = 0 /\ takenBack[t] = 0
                                /\ goldRow[t] = "none" /\ blob[t] = "initialized"
    BY DEF GoldInit, At, Deal, Idle
  <1>2. GoldTypeOK
    <2>1. Idle \in [at : GoldPlaces, deal : Purchases \cup {Nobody},
                    creddits : Int, status : BlobStatuses]
      BY DEF Idle, GoldPlaces, BlobStatuses
    <2>2. 0 \in 0..MaxExtra /\ 0 \in 0..MaxGoldFaults
      BY GoldAssumption
    <2>3. /\ delivered \in [Purchases -> Nat] /\ takenBack \in [Purchases -> Nat]
          /\ creddits \in Int /\ granted \in Int /\ spent \in Nat
          /\ extra \in 0..MaxExtra /\ goldFaults \in 0..MaxGoldFaults
      BY <2>2 DEF GoldInit
    <2>4. stale \in BOOLEAN
      BY DEF GoldInit
    <2>5. QED
      BY <2>1, <2>3, <2>4 DEF GoldInit, GoldTypeOK, Statuses, BlobStatuses
  <1>3. RequestsRouted
    BY <1>1 DEF RequestsRouted, Routed
  <1>4. LockMeans /\ \A t \in sent : GoldType(t) = "code"
    BY <1>1 DEF LockMeans, GoldInit
  <1>5. ASSUME NEW t \in Purchases PROVE Once(t)
    <2>1. \A S : "idle" \notin S => ~Racing(t, S) /\ Single(t, S)
      BY <1>1 DEF Racing, Single
    <2>2. "idle" \notin Due(t)
      BY DEF Due
    <2>3. HookOnce(t)
      BY <1>1, <2>1 DEF HookOnce
    <2>4. OtherOnce(t)
      BY <1>1, <2>1, <2>2 DEF OtherOnce
    <2>5. CodeOnce(t)
      BY <1>1, <2>1 DEF CodeOnce
    <2>6. QED
      BY <2>3, <2>4, <2>5 DEF Once
  <1>6. WalletExact
    BY DEF GoldInit, WalletExact
  <1>7. QED
    BY <1>2, <1>3, <1>4, <1>5, <1>6 DEF GoldInv, GoldTyped

\* A blob that is gone starts no purchase: everything else is as it was.
LEMMA BlobLost ==
  ASSUME GoldInv, offer' = offer, NEW t \in Purchases, LoseBlob(t)
  PROVE  GoldInv'
  <1>1. /\ UNCHANGED <<goldRow, goods, wallet, req, goldLocks, answered, disturbed, extra, paid>>
        /\ blob' = [blob EXCEPT ![t] = "gone"]
        /\ GoldTyped /\ GoldTypeOK /\ WalletExact /\ \A u \in Purchases : Once(u)
    BY DEF LoseBlob, GoldInv, GoldTyped
  <1>2. blob \in [Purchases -> BlobStatuses]
    BY <1>1 DEF GoldTypeOK
  <1>3. /\ blob' \in [Purchases -> BlobStatuses]
        /\ \A u \in Purchases : blob'[u] = "initialized" => blob[u] = "initialized"
    BY <1>1, <1>2 DEF BlobStatuses
  <1>4. goldFaults' \in 0..MaxGoldFaults
    BY <1>1, GoldAssumption DEF LoseBlob, GoldTypeOK
  <1>5. GoldTyped'
    <2>1. GoldTypeOK'
      BY <1>1, <1>3, <1>4 DEF GoldTypeOK, goods, wallet, goldLocks
    <2>2. \A h \in GoldRequests : At(h)' = At(h) /\ Deal(h)' = Deal(h)
      BY <1>1 DEF At, Deal
    <2>3. \A p, u : Routed(p, u)' <=> Routed(p, u)
      BY DEF Routed, Webhook, Provider, GoldType
    <2>4. RequestsRouted'
      BY <1>1, <2>2, <2>3 DEF GoldTyped, RequestsRouted
    <2>5. LockMeans'
      BY <1>1, <2>2 DEF GoldTyped, LockMeans, goldLocks, At
    <2>6. \A u \in sent' : GoldType(u)' = "code"
      BY <1>1 DEF GoldTyped, goods, GoldType
    <2>7. QED
      BY <2>1, <2>4, <2>5, <2>6 DEF GoldTyped
  <1>6. WalletExact'
    BY <1>1 DEF WalletExact, wallet, goldLocks
  <1>7. ASSUME NEW u \in Purchases PROVE Once(u)'
    <2>1. /\ Provider(u)' = Provider(u) /\ GoldType(u)' = GoldType(u)
          /\ Webhook(u)' <=> Webhook(u) /\ Due(u)' = Due(u)
      BY OfferKept
    <2>2. \A S : (Racing(u, S)' <=> Racing(u, S)) /\ (Single(u, S)' <=> Single(u, S))
      BY <1>1 DEF Racing, Single, At, Deal
    <2>3. /\ goldRow'[u] = goldRow[u] /\ delivered'[u] = delivered[u]
          /\ takenBack'[u] = takenBack[u] /\ (u \in disturbed' <=> u \in disturbed)
      BY <1>1 DEF goods
    <2>4. Unstarted(u)' => Unstarted(u)
      BY <1>3, <2>1, <2>3 DEF Unstarted
    <2>5. HookOnce(u)'
      BY <1>1, <2>1, <2>2, <2>3 DEF Once, HookOnce
    <2>6. OtherOnce(u)'
      <3>1. /\ Racing(u, Due(u))' <=> Racing(u, Due(u))
            /\ Single(u, Due(u))' <=> Single(u, Due(u))
        BY <1>1 DEF Racing, Single, At, Deal, Due, GoldType
      <3>2. OtherOnce(u)
        BY <1>1 DEF Once
      <3>3. QED
        BY <2>1, <2>3, <2>4, <3>1, <3>2 DEF OtherOnce, Due
    <2>7. CodeOnce(u)'
      BY <1>1, <1>3, <2>1, <2>2, <2>3 DEF Once, CodeOnce
    <2>8. QED
      BY <2>5, <2>6, <2>7 DEF Once
  <1>8. QED
    BY <1>5, <1>6, <1>7 DEF GoldInv

\* The invariant is inductive.
LEMMA GoldStep ==
  ASSUME GoldInv, [GoldNext]_goldVars
  PROVE  GoldInv'
  <1>0. GoldTyped /\ WalletExact
    BY DEF GoldInv
  <1>1. ASSUME NEW h \in GoldRequests, NEW d \in Purchases, offer' = offer,
               \/ Succeeded(h, d) \/ Refunded(h, d) \/ Cancelled(h, d)
               \/ Ipn(h, d) \/ ModifyBlob(h, d) \/ Spend(h, d) \/ ClaimGold(h, d)
        PROVE  GoldInv'
    <2>1. GoldTyped' /\ UNCHANGED <<creddits, granted, spent, stale, credditsLock>>
      BY <1>0, <1>1, ArrivalTyped
    <2>2. WalletExact'
      BY <1>0, <2>1 DEF WalletExact
    <2>3. ASSUME NEW t \in Purchases PROVE Once(t)'
      <3>1. CASE t = d
        BY <1>1, <3>1, SucceededOnce, ReversalOnce, IpnOnce, ModifyOnce, SpendOnce, ClaimOnce
      <3>2. CASE t # d
        BY <1>1, <3>2, ArrivalElsewhereOnce
      <3>3. QED
        BY <3>1, <3>2
    <2>4. QED
      BY <2>1, <2>2, <2>3 DEF GoldInv
  <1>2. ASSUME NEW h \in GoldRequests, offer' = offer, GiveCreddits(h) PROVE GoldInv'
    <2>0. Take(h, Nobody, "give")
      BY <1>2 DEF GiveCreddits
    <2>1. GoldTyped' /\ UNCHANGED <<creddits, granted, spent, stale, credditsLock>>
      <3>1. CASE Purchases # {}
        <4>1. PICK t \in Purchases : TRUE
          BY <3>1
        <4>2. QED
          BY <1>0, <1>2, <4>1, ArrivalTyped
      <3>2. CASE Purchases = {}
        <4>0. "give" \in GoldPlaces /\ Routed("give", Nobody)
          BY DEF GoldPlaces, Routed
        <4>1. /\ Moved(h, "give", Nobody) /\ At(h) = "idle"
              /\ req' \in [GoldRequests -> [at : GoldPlaces, deal : Purchases \cup {Nobody},
                                            creddits : Int, status : BlobStatuses]]
          BY <1>0, <2>0, <4>0, TakeMoves
        <4>2. /\ UNCHANGED <<creddits, granted, spent, stale, credditsLock, commitLock, goldRow,
                             blob, sent, delivered, takenBack, answered, paid, disturbed,
                             goldFaults>>
              /\ extra' \in 0..MaxExtra
          BY <1>0, <1>2, GoldAssumption
          DEF GiveCreddits, goods, wallet, goldLocks, Extra, GoldTyped, GoldTypeOK
        <4>3. RequestsRouted' /\ LockMeans'
          BY <1>0, <1>2, <4>0, <4>1, <4>2, RouteKept, LockKept
        <4>4. QED
          BY <1>0, <1>2, <4>1, <4>2, <4>3 DEF GoldTyped, GoldTypeOK, GoldType
      <3>3. QED
        BY <3>1, <3>2
    <2>2. WalletExact'
      BY <1>0, <2>1 DEF WalletExact
    <2>3. \A t \in Purchases : Once(t)'
      BY <1>2, ModifyOnce
    <2>4. QED
      BY <2>1, <2>2, <2>3 DEF GoldInv
  <1>3. ASSUME NEW h \in GoldRequests, offer' = offer, RequestStep(h) PROVE GoldInv'
    <2>1. GoldTyped'
      BY <1>0, <1>3, StepTyped, SpendTyped DEF RequestStep
    <2>2. ASSUME NEW t \in Purchases PROVE Once(t)'
      <3>1. CASE Deal(h) # t
        BY <1>3, <3>1, ElsewhereOnce
      <3>2. CASE Deal(h) = t
        <4>1. CASE GoldType(t) # "code" /\ (ReversePurchase(h) \/ MarkReversed(h))
          BY <1>3, <3>2, <4>1, HookStepOnce
        <4>2. CASE GoldType(t) = "code" /\ (ReversePurchase(h) \/ MarkReversed(h))
          BY <1>3, <3>2, <4>2, CodeReversalOnce
        <4>3. CASE CompleteGive(h) \/ CompleteRecord(h)
          <5>1. GoldType(t) # "code"
            BY <1>0, <3>2, <4>3
            DEF CompleteGive, CompleteRecord, GoldTyped, RequestsRouted, Routed
          <5>2. QED
            BY <1>3, <3>2, <4>3, <5>1, HookStepOnce
        <4>4. QED
          BY <1>3, <3>2, <4>1, <4>2, <4>3, MakeCodeOnce, FinishRowOnce, SpendGiveOnce,
             GiveStepOnce, AsideOnce DEF RequestStep
      <3>3. QED
        BY <3>1, <3>2
    <2>3. WalletExact'
      BY <1>3, WalletStep
    <2>4. QED
      BY <2>1, <2>2, <2>3 DEF GoldInv
  <1>4. ASSUME NEW h \in GoldRequests, offer' = offer, GoldCrash(h) PROVE GoldInv'
    <2>1. GoldTyped' /\ WalletExact'
      BY <1>0, <1>4, CrashTyped, WalletStep
    <2>2. \A t \in Purchases : Once(t)'
      BY <1>4, AsideOnce
    <2>3. QED
      BY <2>1, <2>2 DEF GoldInv
  <1>5. ASSUME UNCHANGED goldVars PROVE GoldInv'
    BY <1>5 DEF goldVars, goods, wallet, goldLocks, GoldInv, GoldTyped, GoldTypeOK,
       RequestsRouted, Routed, LockMeans, WalletExact, Once, HookOnce, OtherOnce, CodeOnce,
       Single, Racing, Due, Unstarted, Webhook, Provider, GoldType, At, Deal
  <1>6. ASSUME NEW t \in Purchases, offer' = offer, LoseBlob(t) PROVE GoldInv'
    BY <1>6, BlobLost
  <1>7. QED
    BY <1>1, <1>2, <1>3, <1>4, <1>5, <1>6 DEF GoldNext

\* The invariant holds of every behaviour of the payments.
LEMMA GoldInvariant == GoldSpec => []GoldInv
  BY GoldInitially, GoldStep, PTL DEF GoldSpec

(***************************************************************************)
(* Payments keep their types, for any purchases, offers, number of requests*)
(* at a time, notifications and deaths of requests: rows and blobs have    *)
(* one of the statuses of gold.py and ipn.py, the locks are held by        *)
(* requests, and no number of months or spent creddits is negative.        *)
(***************************************************************************)
THEOREM GoldTypeCorrect == GoldSpec => []GoldTypeOK
  <1>1. GoldInv => GoldTypeOK
    BY DEF GoldInv, GoldTyped
  <1>2. QED
    BY <1>1, GoldInvariant, PTL

(***************************************************************************)
(* BooksBalance (run services), for any purchases, offers, requests,       *)
(* repeated notifications and deaths: what ipn.py delivers and takes back  *)
(* of a purchase no known race has touched is at most what was paid, and   *)
(* gold_creddits is what was granted less what was spent.                  *)
(***************************************************************************)
THEOREM BooksAlwaysBalance == GoldSpec => []BooksBalance
  <1>1. ASSUME GoldInv PROVE BooksBalance
    <2>1. ASSUME NEW t \in Purchases, t \notin disturbed, Provider(t) # "gild"
          PROVE  delivered[t] - takenBack[t] \in {0, 1}
      <3>0. Once(t)
        BY <1>1 DEF GoldInv
      <3>1. CASE Webhook(t) /\ GoldType(t) # "code"
        <4>1. /\ delivered[t] = IF goldRow[t] = "none" /\ ~Racing(t, {"record"}) THEN 0 ELSE 1
              /\ takenBack[t] = IF goldRow[t] = "reversed" \/ Racing(t, {"mark"}) THEN 1 ELSE 0
              /\ Racing(t, {"reverse", "mark"}) => goldRow[t] = "processed"
          BY <2>1, <3>0, <3>1 DEF Once, HookOnce
        <4>2. Racing(t, {"mark"}) => Racing(t, {"reverse", "mark"})
          BY DEF Racing
        <4>3. takenBack[t] = 1 => delivered[t] = 1
          BY <4>1, <4>2
        <4>4. QED
          BY <4>1, <4>3
      <3>2. CASE Webhook(t) => GoldType(t) = "code"
        BY <2>1, <3>0, <3>2 DEF Once, OtherOnce
      <3>3. QED
        BY <3>1, <3>2
    <2>2. ASSUME ~stale, \A h \in GoldRequests : At(h) # "pay"
          PROVE  creddits = granted - spent
      <3>1. credditsLock = Nobody
        BY <1>1, <2>2 DEF GoldInv, GoldTyped, GoldTypeOK, LockMeans
      <3>2. creddits \in Int /\ granted \in Int /\ spent \in Nat
        BY <1>1 DEF GoldInv, GoldTyped, GoldTypeOK
      <3>3. QED
        BY <1>1, <2>2, <3>1, <3>2 DEF GoldInv, WalletExact
    <2>3. QED
      BY <2>1, <2>2 DEF BooksBalance, GoldOnce, CredditsExact
  <1>2. QED
    BY <1>1, GoldInvariant, PTL

-----------------------------------------------------------------------------
(* The services side by side                                               *)

(***************************************************************************)
(* What the run services explores of each component is what the component's*)
(* own specification allows: amqp.py, ipn.py and trylater.py share no      *)
(* state, so the theorems about each of them hold of the three together.   *)
(***************************************************************************)
THEOREM ServicesApart == ServicesSpec => AmqpSpec /\ GoldSpec /\ LaterSafe
  <1> DEFINE v == <<service, amqpVars, goldVars, laterVars>>
  <1>1. ServicesInit => AmqpInit /\ GoldInit /\ LaterInit
    BY DEF ServicesInit
  <1>2. [ServicesNext]_v => [AmqpNext]_amqpVars
    BY DEF ServicesNext
  <1>3. [ServicesNext]_v => [GoldNext]_goldVars
    BY DEF ServicesNext, PaymentStep
  <1>4. [ServicesNext]_v => [LaterNext]_laterVars
    BY DEF ServicesNext, LaterStep
  <1>5. QED
    BY <1>1, <1>2, <1>3, <1>4, PTL DEF ServicesSpec, AmqpSpec, GoldSpec, LaterSafe

(***************************************************************************)
(* ServicesTypeOK (run services), for any messages, purchases, subjects,   *)
(* limits and bounds: the states of the queue, of payments and of delayed  *)
(* work stay within their types.                                           *)
(***************************************************************************)
THEOREM ServicesTypeCorrect == ServicesSpec => []ServicesTypeOK
  <1>1. AmqpTypeOK /\ GoldTypeOK /\ LaterTypeOK => ServicesTypeOK
    BY DEF ServicesTypeOK
  <1>2. QED
    BY <1>1, ServicesApart, AmqpTypeCorrect, GoldTypeCorrect, LaterTypeCorrect, PTL

=============================================================================
