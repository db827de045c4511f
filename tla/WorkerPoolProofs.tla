--------------------------- MODULE WorkerPoolProofs ---------------------------
(***************************************************************************)
(* For any number of workers and tasks: a worker of the pool is in one     *)
(* place, its channel holds at most the request of the task that has it,   *)
(* and so run() returns the output of its own function; and a call of      *)
(* run() is a RemoteCall.                                                  *)
(***************************************************************************)
EXTENDS WorkerPool, SequenceTheorems, FiniteSetTheorems, TLAPS

\* Taking a task out of the middle of the line leaves a line of tasks.
LEMMA LineWithout ==
    ASSUME line \in Seq(Tasks), NEW i \in 1..Len(line)
    PROVE  SubSeq(line, 1, i - 1) \o SubSeq(line, i + 1, Len(line)) \in Seq(Tasks)
<1>1. SubSeq(line, 1, i - 1) \in Seq(Tasks)
  BY SubSeqProperties
<1>2. SubSeq(line, i + 1, Len(line)) \in Seq(Tasks)
  BY SubSeqProperties
<1> QED
  BY <1>1, <1>2, ConcatProperties

\* CloseChannels keeps the states of the parent's ends.
LEMMA CloseChannelsType ==
    ASSUME TypeOK, NEW ws \in SUBSET Workers, CloseChannels(ws)
    PROVE  ours' \in [Workers -> {"none", "open", "closed", "torn"}]
BY DEF TypeOK, CloseChannels

\* Types hold initially and in every step.
LEMMA TypeStep ==
    ASSUME IInv, [Next]_vars
    PROVE  TypeOK'
<1> USE DEF TypeOK, InRun, TaskAt, Running, WorkerAt, PoolAt, tasks, channels, IInv, OnePlace
<1>1. CASE DropPool
  BY <1>1, CloseChannelsType DEF DropPool
<1>2. CASE Close
  BY <1>2 DEF Close
<1>3. CASE CloseNext
  BY <1>3, CloseChannelsType DEF CloseNext
<1>4. CASE CloseJoined
  <2>1. CASE worker[joining] = "zero" /\ UNCHANGED <<pool, queue, ours>>
    BY <1>4, <2>1 DEF CloseJoined
  <2>2. CASE pool' = "failed" /\ queue' = <<>> /\ CloseChannels({w \in Workers : Queued(w)})
    BY <1>4, <2>2, CloseChannelsType DEF CloseJoined
  <2> QED
    BY <1>4, <2>1, <2>2 DEF CloseJoined
<1>5. CASE CloseReturnsOk
  BY <1>5 DEF CloseReturnsOk
<1>6. ASSUME NEW t \in Tasks, Run(t) PROVE TypeOK'
  BY <1>6 DEF Run
<1>7. ASSUME NEW t \in Tasks, TakeWorker(t) PROVE TypeOK'
  BY <1>7 DEF TakeWorker
<1>8. ASSUME NEW t \in Tasks, SendRequest(t) PROVE TypeOK'
  BY <1>8 DEF SendRequest
<1>9. ASSUME NEW t \in Tasks, RecvReply(t) PROVE TypeOK'
  <2>1. holds[t] \in Workers
    BY <1>9 DEF RecvReply
  <2>2. outbox[holds[t]] \in Seq(Tasks)
    BY <2>1
  <2>3. Head(outbox[holds[t]]) \in Tasks /\ Tail(outbox[holds[t]]) \in Seq(Tasks)
    BY <1>9, <2>2, HeadTailProperties DEF RecvReply
  <2>4. outbox' \in [Workers -> Seq(Tasks)] /\ answer' \in [Tasks -> Tasks \cup {Nobody}]
    BY <1>9, <2>1, <2>3 DEF RecvReply
  <2> QED
    BY <1>9, <2>1, <2>4 DEF RecvReply
<1>10. ASSUME NEW t \in Tasks, RequestFails(t) PROVE TypeOK'
  <2>1. holds[t] \in Workers
    BY <1>10 DEF RequestFails
  <2> QED
    BY <1>10, <2>1, CloseChannelsType DEF RequestFails
<1>11. ASSUME NEW t \in Tasks, CancelWaiting(t) PROVE TypeOK'
  <2>1. line' \in Seq(Tasks)
    BY <1>11, LineWithout DEF CancelWaiting
  <2> QED
    BY <1>11, <2>1 DEF CancelWaiting
<1>12. ASSUME NEW t \in Tasks, CancelRequest(t) PROVE TypeOK'
  <2>1. holds[t] \in Workers
    BY <1>12 DEF CancelRequest
  <2>2. ours' \in [Workers -> {"none", "open", "closed", "torn"}]
    <3>1. CASE CloseChannels({holds[t]})
      BY <2>1, <3>1, CloseChannelsType
    <3>2. CASE ours' = [ours EXCEPT ![holds[t]] = "torn"]
      BY <3>2
    <3> QED
      BY <1>12, <3>1, <3>2 DEF CancelRequest
  <2>3. /\ task' \in [Tasks -> TaskAt] /\ holds' \in [Tasks -> Workers \cup {Nobody}]
        /\ UNCHANGED <<pool, joining, queue, line, answer, worker, calls, inbox, outbox>>
    BY <1>12 DEF CancelRequest
  <2> QED
    BY <2>2, <2>3
<1>13. ASSUME NEW w \in Workers, SpawnWorker(w) PROVE TypeOK'
  BY <1>13 DEF SpawnWorker
<1>14. ASSUME NEW w \in Workers, WorkerRecv(w) PROVE TypeOK'
  BY <1>14 DEF WorkerRecv
<1>15. ASSUME NEW w \in Workers, WorkerEnds(w) PROVE TypeOK'
  BY <1>15 DEF WorkerEnds
<1>16. ASSUME NEW w \in Workers, FunctionReturns(w) PROVE TypeOK'
  BY <1>16 DEF FunctionReturns
<1>17. ASSUME NEW w \in Workers, WorkerSend(w) PROVE TypeOK'
  <2>1. CASE outbox' = [outbox EXCEPT ![w] = Append(@, calls[w])]
    <3>1. calls[w] \in Tasks
      BY <1>17 DEF WorkerSend
    <3>2. outbox' \in [Workers -> Seq(Tasks)]
      BY <2>1, <3>1
    <3> QED
      BY <1>17, <3>2 DEF WorkerSend
  <2> QED
    BY <1>17, <2>1 DEF WorkerSend
<1>18. ASSUME NEW w \in Workers, NEW status \in {"zero", "nonzero"}, WorkerStops(w, status)
       PROVE TypeOK'
  BY <1>18 DEF WorkerStops
<1>19. CASE UNCHANGED vars
  BY <1>19 DEF vars
<1> QED
  BY <1>1, <1>2, <1>3, <1>4, <1>5, <1>6, <1>7, <1>8, <1>9, <1>10, <1>11, <1>12, <1>13,
     <1>14, <1>15, <1>16, <1>17, <1>18, <1>19
     DEF Next, CloseWork, RunWork, WorkerWork
Distinct(q) == \A i, j \in 1..Len(q) : q[i] = q[j] => i = j

\* Without its head, a queue without repetitions does not hold the head.
LEMMA TakeQueue ==
    ASSUME queue \in Seq(Workers), Distinct(queue), queue # <<>>, queue' = Tail(queue)
    PROVE  /\ Distinct(queue)' /\ Head(queue) \in Workers /\ Queued(Head(queue))
           /\ \A w \in Workers : Queued(w)' => Queued(w) /\ w # Head(queue)
<1>1. Len(queue) \in Nat \ {0} /\ Head(queue) = queue[1] /\ Len(queue') = Len(queue) - 1
      /\ \A i \in 1..Len(queue') : queue'[i] = queue[i + 1]
  BY EmptySeq, HeadTailProperties
<1>2. queue[1] \in Workers
  BY <1>1
<1>3. Distinct(queue)'
  BY <1>1 DEF Distinct
<1>4. \A w \in Workers : Queued(w)' => w # Head(queue)
  BY <1>1 DEF Distinct, Queued
<1>5. \A w \in Workers : Queued(w)' => Queued(w)
  BY <1>1 DEF Queued
<1>6. Queued(Head(queue))
  BY <1>1 DEF Queued
<1> QED
  BY <1>1, <1>2, <1>3, <1>4, <1>5, <1>6

\* It holds everybody else.
LEMMA TakenFromQueue ==
    ASSUME queue \in Seq(Workers), queue # <<>>, queue' = Tail(queue)
    PROVE  \A w \in Workers : Queued(w) => Queued(w)' \/ w = Head(queue)
<1>1. Len(queue) \in Nat \ {0} /\ Head(queue) = queue[1] /\ Len(queue') = Len(queue) - 1
      /\ \A i \in 1..Len(queue') : queue'[i] = queue[i + 1]
  BY EmptySeq, HeadTailProperties
<1>2. ASSUME NEW w \in Workers, NEW i \in 1..Len(queue), queue[i] = w, i # 1 PROVE Queued(w)'
  <2>1. i - 1 \in 1..Len(queue') /\ queue'[i - 1] = w
    BY <1>1, <1>2
  <2> QED
    BY <2>1 DEF Queued
<1> QED
  BY <1>1, <1>2 DEF Queued

\* Appending a worker that is not queued keeps a queue without repetitions.
LEMMA PutQueue ==
    ASSUME queue \in Seq(Workers), Distinct(queue), NEW w \in Workers, ~Queued(w),
           queue' = Append(queue, w)
    PROVE  /\ Distinct(queue)'
           /\ \A v \in Workers : Queued(v)' <=> Queued(v) \/ v = w
<1>1. Len(queue) \in Nat /\ Len(queue') = Len(queue) + 1 /\ queue'[Len(queue) + 1] = w
      /\ \A i \in 1..Len(queue) : queue'[i] = queue[i]
  BY AppendProperties
<1>2. \A i \in 1..Len(queue) : queue[i] # w
  BY DEF Queued
<1>3. Distinct(queue)'
  BY <1>1, <1>2 DEF Distinct
<1>4. \A v \in Workers : Queued(v)' <=> Queued(v) \/ v = w
  BY <1>1 DEF Queued
<1> QED
  BY <1>3, <1>4

\* An empty queue holds nobody.
LEMMA EmptyQueue ==
    ASSUME queue' = <<>>
    PROVE  Distinct(queue)' /\ \A w : ~Queued(w)'
<1>1. Len(queue') = 0
  OBVIOUS
<1> QED
  BY <1>1 DEF Distinct, Queued

\* What OnePlace says, with the queue behind Queued and Distinct.
Placed ==
    /\ Distinct(queue)
    /\ \A t, u \in Tasks : holds[t] = holds[u] /\ holds[t] # Nobody => t = u
    /\ \A t \in Tasks : holds[t] # Nobody => ~Queued(holds[t])
    /\ \A t \in Tasks : holds[t] # Nobody <=> task[t] \in {"sending", "receiving"}
    /\ \A w \in Workers : worker[w] = "none" => ~Queued(w)
    /\ pool # "open" => \A t \in Tasks : task[t] \notin InRun
    /\ pool \in {"starting", "open"} => joining = Nobody

\* No step puts a worker in two places.
LEMMA OnePlaceStep ==
    ASSUME IInv, [Next]_vars
    PROVE  OnePlace'
<1>1. TypeOK /\ Placed
  BY DEF IInv, OnePlace, Placed, Distinct
<1>2. SUFFICES Placed'
  BY DEF OnePlace, Placed, Distinct
<1> USE PoolAssumption, <1>1 DEF TypeOK, tasks, channels, Placed
<1>3. CASE DropPool
  BY <1>3, EmptyQueue DEF DropPool, InRun
<1>4. CASE Close
  BY <1>4 DEF Close, Queued, Distinct
<1>5. CASE CloseNext
  BY <1>5, TakeQueue DEF CloseNext, InRun
<1>6. CASE CloseJoined
  <2>1. /\ UNCHANGED <<task, holds>> /\ \A t \in Tasks : task[t] \notin InRun
        /\ pool' \notin {"starting", "open"}
        /\ \A w \in Workers : worker'[w] = "none" => worker[w] = "none"
    BY <1>6 DEF CloseJoined
  <2>2. CASE UNCHANGED queue
    BY <2>1, <2>2 DEF Queued, Distinct
  <2>3. CASE queue' = <<>>
    BY <2>1, <2>3, EmptyQueue
  <2> QED
    BY <1>6, <2>2, <2>3 DEF CloseJoined
<1>7. CASE CloseReturnsOk
  BY <1>7 DEF CloseReturnsOk, Queued, Distinct
<1>8. ASSUME NEW t \in Tasks, Run(t) PROVE Placed'
  BY <1>8 DEF Run, InRun, Queued, Distinct
<1>9. ASSUME NEW t \in Tasks, TakeWorker(t) PROVE Placed'
  <2>1. /\ Distinct(queue)' /\ Head(queue) \in Workers /\ Queued(Head(queue))
        /\ \A w \in Workers : Queued(w)' => Queued(w) /\ w # Head(queue)
    BY <1>9, TakeQueue DEF TakeWorker
  <2>2. /\ holds' = [holds EXCEPT ![t] = Head(queue)] /\ task[t] = "waiting"
        /\ task' = [task EXCEPT ![t] = "sending"] /\ UNCHANGED <<pool, worker, joining>>
    BY <1>9 DEF TakeWorker
  <2> QED
    BY <2>1, <2>2 DEF InRun
<1>10. ASSUME NEW t \in Tasks, SendRequest(t) PROVE Placed'
  BY <1>10 DEF SendRequest, InRun, Queued, Distinct
<1>11. ASSUME NEW t \in Tasks, RecvReply(t) PROVE Placed'
  <2>1. /\ task[t] = "receiving" /\ queue' = Append(queue, holds[t])
        /\ holds' = [holds EXCEPT ![t] = Nobody] /\ outbox[holds[t]] # <<>>
        /\ task' = [task EXCEPT ![t] = "ok"] /\ UNCHANGED <<pool, worker, joining>>
    BY <1>11 DEF RecvReply
  <2>2. holds[t] \in Workers /\ ~Queued(holds[t])
    BY <2>1
  <2>3. worker[holds[t]] # "none"
    BY <2>1, <2>2 DEF IInv, Quiet
  <2>4. Distinct(queue)' /\ \A v \in Workers : Queued(v)' <=> Queued(v) \/ v = holds[t]
    BY <2>1, <2>2, PutQueue
  <2> QED
    BY <2>1, <2>2, <2>3, <2>4 DEF InRun
<1>12. ASSUME NEW t \in Tasks, RequestFails(t) PROVE Placed'
  <2>1. /\ holds' = [holds EXCEPT ![t] = Nobody] /\ task[t] \in {"sending", "receiving"}
        /\ task' = [task EXCEPT ![t] = "err"] /\ UNCHANGED <<pool, worker, joining, queue>>
    BY <1>12 DEF RequestFails
  <2> QED
    BY <2>1 DEF InRun, Queued, Distinct
<1>13. ASSUME NEW t \in Tasks, CancelWaiting(t) PROVE Placed'
  BY <1>13 DEF CancelWaiting, InRun, Queued, Distinct
<1>14. ASSUME NEW t \in Tasks, CancelRequest(t) PROVE Placed'
  <2>1. /\ holds' = [holds EXCEPT ![t] = Nobody] /\ task[t] \in {"sending", "receiving"}
        /\ task' = [task EXCEPT ![t] = "cancelled"]
        /\ UNCHANGED <<pool, worker, joining, queue>>
    BY <1>14 DEF CancelRequest
  <2> QED
    BY <2>1 DEF InRun, Queued, Distinct
<1>15. ASSUME NEW w \in Workers, SpawnWorker(w) PROVE Placed'
  <2>1. /\ ~Queued(w) /\ joining' = Nobody
        /\ \A t \in Tasks : task[t] \notin InRun /\ holds[t] = Nobody
    BY <1>15 DEF SpawnWorker, InRun
  <2>2. /\ queue' = Append(queue, w) /\ UNCHANGED <<task, holds>>
        /\ worker' = [worker EXCEPT ![w] = "receiving"]
    BY <1>15 DEF SpawnWorker
  <2>3. Distinct(queue)' /\ \A v \in Workers : Queued(v)' <=> Queued(v) \/ v = w
    BY <2>1, <2>2, PutQueue
  <2> QED
    BY <2>1, <2>2, <2>3
<1>16. ASSUME NEW w \in Workers, WorkerRecv(w) PROVE Placed'
  BY <1>16 DEF WorkerRecv, Queued, Distinct
<1>17. ASSUME NEW w \in Workers, WorkerEnds(w) PROVE Placed'
  BY <1>17 DEF WorkerEnds, Queued, Distinct
<1>18. ASSUME NEW w \in Workers, FunctionReturns(w) PROVE Placed'
  BY <1>18 DEF FunctionReturns, Queued, Distinct
<1>19. ASSUME NEW w \in Workers, WorkerSend(w) PROVE Placed'
  <2>1. /\ UNCHANGED <<queue, task, holds, pool, joining>> /\ worker[w] # "none"
        /\ \A v \in Workers : worker'[v] = "none" => worker[v] = "none"
    BY <1>19 DEF WorkerSend
  <2> QED
    BY <2>1 DEF Queued, Distinct
<1>20. ASSUME NEW w \in Workers, NEW status \in {"zero", "nonzero"}, WorkerStops(w, status)
       PROVE Placed'
  BY <1>20 DEF WorkerStops, Running, Queued, Distinct
<1>21. CASE UNCHANGED vars
  BY <1>21 DEF vars, Queued, Distinct
<1> HIDE DEF TypeOK, Placed
<1> QED
  BY <1>3, <1>4, <1>5, <1>6, <1>7, <1>8, <1>9, <1>10, <1>11, <1>12, <1>13, <1>14, <1>15,
     <1>16, <1>17, <1>18, <1>19, <1>20, <1>21
     DEF Next, CloseWork, RunWork, WorkerWork

\* What IInv says about channels.
Channels ==
    /\ \A w \in Workers : worker[w] \in {"calling", "sending"} => calls[w] # Nobody
    /\ \A w \in Workers : Queued(w) \/ worker[w] = "none" => Quiet(w)
    /\ \A t \in Tasks : task[t] = "sending" => Quiet(holds[t])
    /\ \A t \in Tasks : task[t] = "receiving" => OneRequest(t, holds[t])
    /\ OwnReply

\* A step that leaves channels and tasks alone, empties no worker's place and
\* starts no work keeps Channels.
LEMMA ChannelsUndisturbed ==
    ASSUME Channels, TypeOK, OnePlace,
           UNCHANGED <<task, holds, answer, inbox, outbox, calls>>,
           \A w \in Workers : Queued(w)' => Queued(w),
           \A w \in Workers : worker'[w] = "none" => worker[w] = "none",
           \A w \in Workers : worker'[w] \in {"calling", "sending"} =>
                                 worker[w] \in {"calling", "sending"}
    PROVE  Channels'
<1>1. \A w \in Workers : Quiet(w) => Quiet(w)'
  BY DEF Quiet
<1>2. \A t \in Tasks, w \in Workers : OneRequest(t, w) => OneRequest(t, w)'
  BY DEF OneRequest
<1>3. \A t \in Tasks : task[t] \in {"sending", "receiving"} => holds[t] \in Workers
  BY DEF TypeOK, OnePlace
<1>4. OwnReply'
  BY DEF Channels, OwnReply
<1> QED
  BY <1>1, <1>2, <1>3, <1>4 DEF Channels

\* A task that enters run(), or leaves it without an answer, disturbs no channel.
LEMMA ChannelsLeft ==
    ASSUME Channels, TypeOK, OnePlace,
           NEW t \in Tasks, NEW place \in {"waiting", "err", "cancelled"},
           task' = [task EXCEPT ![t] = place],
           \A u \in Tasks \ {t} : holds'[u] = holds[u],
           UNCHANGED <<queue, answer, worker, inbox, outbox, calls>>
    PROVE  Channels'
<1>1. \A w \in Workers : Quiet(w)' <=> Quiet(w)
  BY DEF Quiet
<1>2. \A u \in Tasks, w \in Workers : OneRequest(u, w)' <=> OneRequest(u, w)
  BY DEF OneRequest
<1>3. task'[t] = place /\ \A u \in Tasks \ {t} : task'[u] = task[u]
  BY DEF TypeOK
<1>4. \A u \in Tasks : task[u] \in {"sending", "receiving"} => holds[u] \in Workers
  BY DEF TypeOK, OnePlace
<1>5. \A w \in Workers : Queued(w)' <=> Queued(w)
  BY DEF Queued
<1>6. OwnReply'
  BY <1>3 DEF Channels, OwnReply
<1>7. \A u \in Tasks : task'[u] \in {"sending", "receiving"} =>
          u # t /\ task[u] = task'[u] /\ holds'[u] = holds[u] /\ holds[u] \in Workers
  BY <1>3, <1>4
<1> QED
  BY <1>1, <1>2, <1>5, <1>6, <1>7 DEF Channels

\* A worker's channel never holds more than the request of the task that has it.
LEMMA ChannelsStep ==
    ASSUME IInv, [Next]_vars
    PROVE  Channels'
<1>1. TypeOK /\ OnePlace /\ Channels /\ IInv
  BY DEF IInv, Channels
<1>2. ASSUME UNCHANGED queue PROVE \A w \in Workers : Queued(w)' => Queued(w)
  BY <1>2 DEF Queued
<1>3. \A t \in Tasks : task[t] \in {"sending", "receiving"} => holds[t] \in Workers
  BY <1>1 DEF TypeOK, OnePlace
<1> USE PoolAssumption DEF tasks, channels
<1>4. CASE DropPool
  BY <1>1, <1>4, EmptyQueue, ChannelsUndisturbed DEF DropPool
<1>5. CASE Close
  BY <1>1, <1>2, <1>5, ChannelsUndisturbed DEF Close
<1>6. CASE CloseNext
  BY <1>1, <1>6, TakeQueue, ChannelsUndisturbed DEF CloseNext, TypeOK, OnePlace, Distinct
<1>7. CASE CloseJoined
  BY <1>1, <1>2, <1>7, EmptyQueue, ChannelsUndisturbed DEF CloseJoined, TypeOK
<1>8. CASE CloseReturnsOk
  BY <1>1, <1>2, <1>8, ChannelsUndisturbed DEF CloseReturnsOk
<1>9. ASSUME NEW t \in Tasks, Run(t) PROVE Channels'
  BY <1>1, <1>9, ChannelsLeft DEF Run
<1>10. ASSUME NEW t \in Tasks, TakeWorker(t) PROVE Channels'
  <2>1. /\ Head(queue) \in Workers /\ Queued(Head(queue))
        /\ \A w \in Workers : Queued(w)' => Queued(w)
    BY <1>1, <1>10, TakeQueue DEF TakeWorker, TypeOK, OnePlace, Distinct
  <2>2. /\ holds' = [holds EXCEPT ![t] = Head(queue)]
        /\ task' = [task EXCEPT ![t] = "sending"] /\ task[t] = "waiting"
        /\ UNCHANGED <<answer, worker, inbox, outbox, calls>>
    BY <1>10 DEF TakeWorker
  <2>3. task'[t] = "sending" /\ holds'[t] = Head(queue)
        /\ \A u \in Tasks \ {t} : task'[u] = task[u] /\ holds'[u] = holds[u]
    BY <1>1, <2>1, <2>2 DEF TypeOK
  <2>4. \A w \in Workers : (Quiet(w)' <=> Quiet(w))
            /\ \A u \in Tasks : OneRequest(u, w)' <=> OneRequest(u, w)
    BY <2>2 DEF Quiet, OneRequest
  <2>5. OwnReply'
    BY <1>1, <2>2, <2>3 DEF Channels, OwnReply
  <2>6. \A w \in Workers : Queued(w)' \/ worker'[w] = "none" => Quiet(w)'
    BY <1>1, <2>1, <2>2, <2>4 DEF Channels
  <2>7. \A u \in Tasks : task'[u] \in {"sending", "receiving"} =>
            \/ u = t /\ Quiet(holds'[u]) /\ task'[u] = "sending" /\ holds'[u] \in Workers
            \/ task[u] = task'[u] /\ holds'[u] = holds[u] /\ holds[u] \in Workers
    BY <1>1, <1>3, <2>1, <2>3 DEF Channels
  <2>8. /\ \A u \in Tasks : task'[u] = "sending" => Quiet(holds[u])'
        /\ \A u \in Tasks : task'[u] = "receiving" => OneRequest(u, holds[u])'
    BY <1>1, <2>4, <2>7 DEF Channels
  <2> QED
    BY <1>1, <2>2, <2>5, <2>6, <2>8 DEF Channels
<1>11. ASSUME NEW t \in Tasks, SendRequest(t) PROVE Channels'
  <2>1. /\ task[t] = "sending" /\ holds[t] \in Workers /\ Quiet(holds[t])
        /\ inbox' = [inbox EXCEPT ![holds[t]] = Append(@, t)] /\ worker[holds[t]] # "none"
        /\ task' = [task EXCEPT ![t] = "receiving"]
        /\ UNCHANGED <<queue, holds, answer, worker, calls, outbox>>
    BY <1>1, <1>3, <1>11 DEF SendRequest, Channels, Running
  <2>2. inbox'[holds[t]] = <<t>> /\ \A w \in Workers \ {holds[t]} : inbox'[w] = inbox[w]
    BY <1>1, <2>1 DEF Quiet, TypeOK
  <2>3. OneRequest(t, holds[t])'
    BY <2>1, <2>2 DEF Quiet, OneRequest
  <2>4. \A u \in Tasks \ {t} : task'[u] = task[u] /\ holds'[u] = holds[u]
            /\ (task[u] \in {"sending", "receiving"} => holds[u] # holds[t])
    BY <1>1, <1>3, <2>1 DEF OnePlace, TypeOK
  <2>5. \A w \in Workers : Queued(w)' \/ worker'[w] = "none" =>
            w # holds[t] /\ (Queued(w) \/ worker[w] = "none")
    BY <1>1, <2>1 DEF OnePlace, Queued
  <2>6. \A w \in Workers \ {holds[t]} : (Quiet(w) => Quiet(w)')
            /\ \A u \in Tasks : OneRequest(u, w) => OneRequest(u, w)'
    BY <2>1, <2>2 DEF Quiet, OneRequest
  <2>7. task'[t] = "receiving" /\ holds'[t] = holds[t]
    BY <1>1, <2>1 DEF TypeOK
  <2>8. OwnReply'
    BY <1>1, <2>1, <2>4, <2>7 DEF Channels, OwnReply
  <2>9. \A u \in Tasks : task'[u] = "sending" => Quiet(holds[u])'
    BY <1>1, <1>3, <2>1, <2>4, <2>6, <2>7 DEF Channels
  <2>10. \A u \in Tasks : task'[u] = "receiving" => OneRequest(u, holds[u])'
    BY <1>1, <1>3, <2>1, <2>3, <2>4, <2>6, <2>7 DEF Channels
  <2> QED
    BY <1>1, <2>1, <2>5, <2>6, <2>8, <2>9, <2>10 DEF Channels
<1>12. ASSUME NEW t \in Tasks, RecvReply(t) PROVE Channels'
  <2>1. /\ task[t] = "receiving" /\ holds[t] \in Workers /\ OneRequest(t, holds[t])
        /\ outbox[holds[t]] # <<>> /\ ~Queued(holds[t])
        /\ answer' = [answer EXCEPT ![t] = Head(outbox[holds[t]])]
        /\ outbox' = [outbox EXCEPT ![holds[t]] = Tail(@)]
        /\ queue' = Append(queue, holds[t]) /\ holds' = [holds EXCEPT ![t] = Nobody]
        /\ task' = [task EXCEPT ![t] = "ok"]
        /\ UNCHANGED <<worker, calls, inbox>>
    BY <1>1, <1>3, <1>12 DEF RecvReply, Channels, OnePlace
  <2>2. /\ outbox[holds[t]] = <<t>> /\ inbox[holds[t]] = <<>>
        /\ worker[holds[t]] \notin {"calling", "sending"}
    BY <2>1 DEF OneRequest
  <2>3. /\ answer'[t] = t /\ outbox'[holds[t]] = <<>>
        /\ \A w \in Workers \ {holds[t]} : outbox'[w] = outbox[w]
    <3>1. Head(<<t>>) = t /\ Tail(<<t>>) = <<>>
      OBVIOUS
    <3> QED
      BY <1>1, <2>1, <2>2, <3>1 DEF TypeOK
  <2>4. \A w \in Workers : Queued(w)' => Queued(w) \/ w = holds[t]
    BY <1>1, <2>1, PutQueue DEF TypeOK, OnePlace, Distinct
  <2>5. \A u \in Tasks \ {t} : task'[u] = task[u] /\ holds'[u] = holds[u]
            /\ answer'[u] = answer[u]
            /\ (task[u] \in {"sending", "receiving"} => holds[u] # holds[t])
    BY <1>1, <1>3, <2>1 DEF OnePlace, TypeOK
  <2>6. \A w \in Workers \ {holds[t]} : (Quiet(w) => Quiet(w)')
            /\ \A u \in Tasks : OneRequest(u, w) => OneRequest(u, w)'
    BY <2>1, <2>3 DEF Quiet, OneRequest
  <2>8. task'[t] = "ok"
    BY <1>1, <2>1 DEF TypeOK
  <2>9. OwnReply'
    BY <1>1, <2>3, <2>5, <2>8 DEF Channels, OwnReply
  <2>10. \A w \in Workers : Queued(w)' \/ worker'[w] = "none" => Quiet(w)'
    BY <1>1, <2>1, <2>2, <2>3, <2>4, <2>6 DEF Channels, Quiet
  <2>11. \A u \in Tasks : task'[u] = "sending" => Quiet(holds[u])'
    BY <1>1, <1>3, <2>5, <2>6, <2>8 DEF Channels
  <2>12. \A u \in Tasks : task'[u] = "receiving" => OneRequest(u, holds[u])'
    BY <1>1, <1>3, <2>5, <2>6, <2>8 DEF Channels
  <2> QED
    BY <1>1, <2>1, <2>9, <2>10, <2>11, <2>12 DEF Channels
<1>13. ASSUME NEW t \in Tasks, RequestFails(t) PROVE Channels'
  <2>1. /\ task' = [task EXCEPT ![t] = "err"] /\ holds' = [holds EXCEPT ![t] = Nobody]
        /\ UNCHANGED <<queue, answer, worker, calls, inbox, outbox>>
    BY <1>13 DEF RequestFails
  <2>2. \A u \in Tasks \ {t} : holds'[u] = holds[u]
    BY <1>1, <2>1 DEF TypeOK
  <2> QED
    BY <1>1, <2>1, <2>2, ChannelsLeft
<1>14. ASSUME NEW t \in Tasks, CancelWaiting(t) PROVE Channels'
  BY <1>1, <1>14, ChannelsLeft DEF CancelWaiting
<1>15. ASSUME NEW t \in Tasks, CancelRequest(t) PROVE Channels'
  <2>1. /\ task' = [task EXCEPT ![t] = "cancelled"] /\ holds' = [holds EXCEPT ![t] = Nobody]
        /\ UNCHANGED <<queue, answer, worker, calls, inbox, outbox>>
    BY <1>15 DEF CancelRequest
  <2>2. \A u \in Tasks \ {t} : holds'[u] = holds[u]
    BY <1>1, <2>1 DEF TypeOK
  <2> QED
    BY <1>1, <2>1, <2>2, ChannelsLeft
<1>16. ASSUME NEW w \in Workers, SpawnWorker(w) PROVE Channels'
  <2>1. /\ Quiet(w) /\ queue' = Append(queue, w) /\ ~Queued(w)
        /\ worker' = [worker EXCEPT ![w] = "receiving"]
        /\ UNCHANGED <<task, holds, answer, calls, inbox, outbox>>
    BY <1>1, <1>16 DEF SpawnWorker, Channels, OnePlace
  <2>2. \A v \in Workers : Queued(v)' => Queued(v) \/ v = w
    BY <1>1, <2>1, PutQueue DEF TypeOK, OnePlace, Distinct
  <2>3. \A t \in Tasks : task[t] \notin {"sending", "receiving"}
    BY <1>1, <1>16 DEF SpawnWorker, OnePlace, InRun
  <2>4. \A v \in Workers : Quiet(v) => Quiet(v)'
    BY <1>1, <2>1 DEF Quiet, TypeOK
  <2>5. \A v \in Workers : worker'[v] \in {"calling", "sending"} =>
                               worker[v] \in {"calling", "sending"}
    BY <1>1, <2>1 DEF TypeOK
  <2>6. \A v \in Workers : worker'[v] = "none" => worker[v] = "none"
    BY <1>1, <2>1 DEF TypeOK
  <2> QED
    BY <1>1, <2>1, <2>2, <2>3, <2>4, <2>5, <2>6 DEF Channels, OwnReply
<1>17. ASSUME NEW w \in Workers, WorkerRecv(w) PROVE Channels'
  <2>1. /\ worker[w] = "receiving" /\ inbox[w] # <<>> /\ inbox[w] \in Seq(Tasks)
        /\ calls' = [calls EXCEPT ![w] = Head(inbox[w])]
        /\ inbox' = [inbox EXCEPT ![w] = Tail(@)]
        /\ worker' = [worker EXCEPT ![w] = "calling"]
        /\ UNCHANGED <<queue, task, holds, answer, outbox>>
    BY <1>1, <1>17 DEF WorkerRecv, TypeOK
  <2>2. ~Quiet(w) /\ ~Queued(w)
    BY <1>1, <2>1 DEF Quiet, Channels
  <2>3. calls'[w] = Head(inbox[w]) /\ Head(inbox[w]) \in Tasks /\ inbox'[w] = Tail(inbox[w])
        /\ worker'[w] = "calling"
    BY <1>1, <2>1, HeadTailProperties DEF TypeOK
  <2>4. \A v \in Workers \ {w} :
            calls'[v] = calls[v] /\ inbox'[v] = inbox[v] /\ worker'[v] = worker[v]
    BY <1>1, <2>1 DEF TypeOK
  <2>5. \A v \in Workers \ {w} : (Quiet(v) => Quiet(v)')
            /\ \A u \in Tasks : OneRequest(u, v) => OneRequest(u, v)'
    BY <2>1, <2>4 DEF Quiet, OneRequest
  <2>6. ASSUME NEW t \in Tasks, OneRequest(t, w) PROVE OneRequest(t, w)'
    <3>1. inbox[w] = <<t>> /\ outbox[w] = <<>>
      BY <2>1, <2>6 DEF OneRequest
    <3>2. Head(<<t>>) = t /\ Tail(<<t>>) = <<>>
      OBVIOUS
    <3> QED
      BY <2>1, <2>3, <3>1, <3>2 DEF OneRequest
  <2>7. \A v \in Workers : worker'[v] \in {"calling", "sending"} => calls'[v] # Nobody
    BY <1>1, <2>3, <2>4 DEF Channels
  <2>8. \A v \in Workers : Queued(v)' \/ worker'[v] = "none" => Quiet(v)'
    BY <1>1, <1>2, <2>1, <2>2, <2>3, <2>4, <2>5 DEF Channels
  <2>9. \A t \in Tasks : task'[t] = "sending" => Quiet(holds[t])'
    BY <1>1, <1>3, <2>1, <2>2, <2>5 DEF Channels
  <2>10. \A t \in Tasks : task'[t] = "receiving" => OneRequest(t, holds[t])'
    BY <1>1, <1>3, <2>1, <2>5, <2>6 DEF Channels
  <2> QED
    BY <1>1, <2>1, <2>7, <2>8, <2>9, <2>10 DEF Channels, OwnReply
<1>18. ASSUME NEW w \in Workers, WorkerEnds(w) PROVE Channels'
  BY <1>1, <1>2, <1>18, ChannelsUndisturbed DEF WorkerEnds, TypeOK
<1>19. ASSUME NEW w \in Workers, FunctionReturns(w) PROVE Channels'
  <2>1. worker[w] = "calling" /\ worker' = [worker EXCEPT ![w] = "sending"]
        /\ UNCHANGED <<queue, task, holds, answer, inbox, outbox, calls>>
    BY <1>19 DEF FunctionReturns
  <2>2. \A v \in Workers : (worker'[v] = "none" => worker[v] = "none")
            /\ (worker'[v] \in {"calling", "sending"} => worker[v] \in {"calling", "sending"})
    BY <1>1, <2>1 DEF TypeOK
  <2> QED
    BY <1>1, <1>2, <2>1, <2>2, ChannelsUndisturbed
<1>20. ASSUME NEW w \in Workers, WorkerSend(w) PROVE Channels'
  <2>1. CASE outbox' = [outbox EXCEPT ![w] = Append(@, calls[w])]
             /\ worker' = [worker EXCEPT ![w] = "receiving"]
    <3>1. /\ worker[w] = "sending" /\ ~Quiet(w) /\ ~Queued(w)
          /\ UNCHANGED <<queue, task, holds, answer, inbox, calls>>
      BY <1>1, <1>20 DEF WorkerSend, Quiet, Channels
    <3>2. outbox'[w] = Append(outbox[w], calls[w]) /\ worker'[w] = "receiving"
          /\ \A v \in Workers \ {w} : outbox'[v] = outbox[v] /\ worker'[v] = worker[v]
      BY <1>1, <2>1 DEF TypeOK
    <3>3. \A v \in Workers \ {w} : (Quiet(v) => Quiet(v)')
              /\ \A u \in Tasks : OneRequest(u, v) => OneRequest(u, v)'
      BY <3>1, <3>2 DEF Quiet, OneRequest
    <3>4. ASSUME NEW t \in Tasks, OneRequest(t, w) PROVE OneRequest(t, w)'
      <4>1. inbox[w] = <<>> /\ outbox[w] = <<>> /\ calls[w] = t
        BY <3>1, <3>4 DEF OneRequest
      <4>2. outbox'[w] = <<t>>
        BY <3>2, <4>1
      <4> QED
        BY <3>1, <3>2, <4>1, <4>2 DEF OneRequest
    <3>5. \A v \in Workers : worker'[v] \in {"calling", "sending"} => calls'[v] # Nobody
      BY <1>1, <3>1, <3>2 DEF Channels
    <3>6. \A v \in Workers : Queued(v)' \/ worker'[v] = "none" => Quiet(v)'
      BY <1>1, <1>2, <3>1, <3>2, <3>3 DEF Channels
    <3>7. \A t \in Tasks : task'[t] = "sending" => Quiet(holds[t])'
      BY <1>1, <1>3, <3>1, <3>3 DEF Channels
    <3>8. \A t \in Tasks : task'[t] = "receiving" => OneRequest(t, holds[t])'
      BY <1>1, <1>3, <3>1, <3>3, <3>4 DEF Channels
    <3> QED
      BY <1>1, <3>1, <3>5, <3>6, <3>7, <3>8 DEF Channels, OwnReply
  <2>2. CASE worker' = [worker EXCEPT ![w] = "nonzero"] /\ UNCHANGED outbox
    <3>1. UNCHANGED <<queue, task, holds, answer, inbox, outbox, calls>>
      BY <1>20, <2>2 DEF WorkerSend
    <3>2. \A v \in Workers : (worker'[v] = "none" => worker[v] = "none")
              /\ (worker'[v] \in {"calling", "sending"} => worker[v] \in {"calling", "sending"})
      BY <1>1, <2>2 DEF TypeOK
    <3> QED
      BY <1>1, <1>2, <3>1, <3>2, ChannelsUndisturbed
  <2> QED
    BY <1>20, <2>1, <2>2 DEF WorkerSend
<1>21. ASSUME NEW w \in Workers, NEW status \in {"zero", "nonzero"}, WorkerStops(w, status)
       PROVE Channels'
  <2>1. worker' = [worker EXCEPT ![w] = status]
        /\ UNCHANGED <<queue, task, holds, answer, inbox, outbox, calls>>
    BY <1>21 DEF WorkerStops
  <2>2. \A v \in Workers : (worker'[v] = "none" => worker[v] = "none")
            /\ (worker'[v] \in {"calling", "sending"} => worker[v] \in {"calling", "sending"})
    BY <1>1, <2>1 DEF TypeOK
  <2> QED
    BY <1>1, <1>2, <2>1, <2>2, ChannelsUndisturbed
<1>22. CASE UNCHANGED vars
  BY <1>1, <1>2, <1>22, ChannelsUndisturbed DEF vars
<1> QED
  BY <1>4, <1>5, <1>6, <1>7, <1>8, <1>9, <1>10, <1>11, <1>12, <1>13, <1>14, <1>15,
     <1>16, <1>17, <1>18, <1>19, <1>20, <1>21, <1>22
     DEF Next, CloseWork, RunWork, WorkerWork

\* The pool starts with every channel quiet and nobody queued or held.
LEMMA InitInvariant == Init => IInv
<1> SUFFICES ASSUME Init PROVE IInv
  OBVIOUS
<1>1. TypeOK
  BY DEF Init, TypeOK, TaskAt, Running, WorkerAt, PoolAt
<1>2. Len(queue) = 0
  BY DEF Init
<1>3. OnePlace
  BY <1>2 DEF Init, OnePlace, Queued, InRun
<1>4. Channels
  BY DEF Init, Channels, Quiet, OwnReply
<1> QED
  BY <1>1, <1>3, <1>4 DEF IInv, Channels

(* In every reachable state of the pool, whatever tasks are cancelled and   *)
(* whatever workers die, each worker is in one place and its channel holds  *)
(* at most the request of the task that has it.                             *)
THEOREM Invariance == Spec => []IInv
<1>1. IInv /\ [Next]_vars => IInv'
  BY TypeStep, OnePlaceStep, ChannelsStep DEF IInv, Channels
<1> QED
  BY <1>1, InitInvariant, PTL DEF Spec

(* run() only ever returns the output of its own function.                  *)
THEOREM RepliesAreOwn == Spec => []OwnReply
<1>1. IInv => OwnReply
  BY DEF IInv
<1> QED
  BY <1>1, Invariance, PTL

-----------------------------------------------------------------------------
(* What lost workers have cost *)

Paid == IsFiniteSet(Lost) /\ Cardinality(Lost) <= Cardinality(Failed)

\* Fewer workers lost, or more runs failed, and the count still holds.
LEMMA StillPaid ==
    ASSUME IsFiniteSet(Failed), Lost' \subseteq Lost, NEW t,
           Failed' = Failed \/ Failed' = Failed \cup {t}
    PROVE  IsFiniteSet(Failed)' /\ (Paid => Paid')
<1>1. IsFiniteSet(Failed') /\ Cardinality(Failed) <= Cardinality(Failed')
      /\ Cardinality(Failed) \in Nat /\ Cardinality(Failed') \in Nat
  BY FS_AddElement, FS_CardinalityType
<1>2. ASSUME Paid PROVE Paid'
  <2>1. /\ IsFiniteSet(Lost') /\ Cardinality(Lost') <= Cardinality(Lost)
        /\ Cardinality(Lost) \in Nat /\ Cardinality(Lost') \in Nat
    BY <1>2, FS_Subset, FS_CardinalityType DEF Paid
  <2> HIDE DEF Lost, Failed
  <2> QED
    BY <1>1, <1>2, <2>1 DEF Paid
<1> QED
  BY <1>1, <1>2

\* One more worker lost is paid with one more run that failed.
LEMMA PaidFor ==
    ASSUME IsFiniteSet(Failed), NEW w, Lost' \subseteq Lost \cup {w},
           NEW t, t \notin Failed, Failed' = Failed \cup {t}
    PROVE  IsFiniteSet(Failed)' /\ (Paid => Paid')
<1>1. IsFiniteSet(Failed') /\ Cardinality(Failed') = Cardinality(Failed) + 1
      /\ Cardinality(Failed) \in Nat
  BY FS_AddElement, FS_CardinalityType
<1>2. ASSUME Paid PROVE Paid'
  <2>1. /\ IsFiniteSet(Lost \cup {w}) /\ Cardinality(Lost \cup {w}) <= Cardinality(Lost) + 1
        /\ Cardinality(Lost) \in Nat /\ Cardinality(Lost \cup {w}) \in Nat
    BY <1>2, FS_AddElement, FS_CardinalityType DEF Paid
  <2>2. /\ IsFiniteSet(Lost') /\ Cardinality(Lost') <= Cardinality(Lost \cup {w})
        /\ Cardinality(Lost') \in Nat
    BY <2>1, FS_Subset, FS_CardinalityType
  <2> QED
    BY <1>1, <1>2, <2>1, <2>2 DEF Paid
<1> QED
  BY <1>1, <1>2

\* A worker keeps its place while queue, tasks and close() do, and a process that is
\* not waited for stays so.
LEMMA LostSame ==
    ASSUME \A w \in Workers : Queued(w) => Queued(w)', UNCHANGED <<holds, joining>>,
           \A w \in Workers : worker'[w] # "reaped" => worker[w] # "reaped"
    PROVE  Lost' \subseteq Lost
<1>1. Busy' = Busy
  BY DEF Busy
<1> QED
  BY <1>1 DEF Lost, InPool

\* The tasks whose run failed, when one task moves.
LEMMA FailedMoves ==
    ASSUME TypeOK, NEW t \in Tasks, NEW place, task' = [task EXCEPT ![t] = place],
           task[t] \notin {"err", "cancelled"}
    PROVE  /\ t \notin Failed
           /\ place \notin {"err", "cancelled"} => Failed' = Failed
           /\ place \in {"err", "cancelled"} => Failed' = Failed \cup {t}
<1>1. task'[t] = place /\ \A u \in Tasks \ {t} : task'[u] = task[u]
  BY DEF TypeOK
<1> QED
  BY <1>1 DEF Failed

\* A worker process that goes on by itself changes nothing of this.
LEMMA PaidAlone ==
    ASSUME TypeOK, PaidInv, NEW w \in Workers, NEW place,
           worker[w] \in Running, worker' = [worker EXCEPT ![w] = place],
           place \notin {"none", "reaped"}, UNCHANGED <<pool, joining, queue, task, holds>>
    PROVE  PaidInv'
<1>1. /\ \A v \in Workers : worker'[v] # "reaped" => worker[v] # "reaped"
      /\ \A v \in Workers : worker'[v] = "none" <=> worker[v] = "none"
      /\ \A v \in Workers : worker'[v] = "reaped" <=> worker[v] = "reaped"
  BY DEF TypeOK, Running
<1>2. \A v \in Workers : Queued(v)' <=> Queued(v)
  BY DEF Queued
<1>3. Lost' \subseteq Lost
  BY <1>1, <1>2, LostSame
<1>4. Failed' = Failed
  BY DEF Failed
<1>5. IsFiniteSet(Failed)' /\ (Paid => Paid')
  BY <1>3, <1>4, StillPaid DEF PaidInv
<1> QED
  BY <1>1, <1>2, <1>5 DEF PaidInv, Paid

\* A task that gives no worker away pays nothing.
LEMMA PaidRunning ==
    ASSUME TypeOK, PaidInv, IsFiniteSet(Failed)' /\ (Paid => Paid'),
           pool = "open", UNCHANGED <<pool, joining, worker>>
    PROVE  PaidInv'
BY DEF PaidInv, Paid

\* A step that loses a worker to the pool pays for it.
LEMMA PaidStep ==
    ASSUME IInv, PaidInv, [Next]_vars
    PROVE  PaidInv'
<1>1. TypeOK /\ Placed /\ OnePlace /\ IsFiniteSet(Failed)
  BY DEF IInv, OnePlace, Placed, Distinct, PaidInv
<1>2. ASSUME UNCHANGED queue PROVE \A w \in Workers : Queued(w)' <=> Queued(w)
  BY <1>2 DEF Queued
<1>3. \A t \in Tasks : task[t] \in InRun => pool = "open" /\ joining = Nobody
  BY <1>1 DEF Placed
<1>4. \A t \in Tasks : task[t] \in {"sending", "receiving"} => holds[t] \in Workers /\ task[t] \in InRun
  BY <1>1 DEF Placed, TypeOK, InRun
<1>5. ASSUME UNCHANGED task PROVE Failed' = Failed
  BY <1>5 DEF Failed
<1> USE PoolAssumption DEF tasks, channels
<1>6. CASE DropPool
  <2>1. pool' \in {"dropped", "failed"} /\ UNCHANGED task
    BY <1>6 DEF DropPool
  <2> QED
    BY <1>1, <1>5, <2>1 DEF PaidInv
<1>7. CASE Close
  <2>1. pool = "open" /\ pool' = "closing" /\ UNCHANGED <<joining, queue, task, holds, worker>>
    BY <1>7 DEF Close
  <2>2. Lost' \subseteq Lost
    BY <1>2, <2>1, LostSame
  <2>3. IsFiniteSet(Failed)' /\ (Paid => Paid')
    BY <1>1, <1>5, <2>1, <2>2, StillPaid
  <2> QED
    BY <2>1, <2>3 DEF PaidInv, Paid
<1>8. CASE CloseNext
  <2>1. /\ pool = "closing" /\ joining = Nobody /\ queue # <<>> /\ joining' = Head(queue)
        /\ queue' = Tail(queue) /\ UNCHANGED <<pool, task, holds, worker>>
    BY <1>8 DEF CloseNext
  <2>2. \A w \in Workers : Queued(w) => Queued(w)' \/ w = Head(queue)
    BY <1>1, <2>1, TakenFromQueue DEF TypeOK
  <2>3. Busy' = Busy
    BY <2>1 DEF Busy
  <2>4. Lost' \subseteq Lost
    BY <2>1, <2>2, <2>3 DEF Lost, InPool
  <2>5. IsFiniteSet(Failed)' /\ (Paid => Paid')
    BY <1>1, <1>5, <2>1, <2>4, StillPaid
  <2> QED
    BY <2>1, <2>5 DEF PaidInv, Paid
<1>9. CASE CloseJoined
  <2>1. /\ joining \in Workers /\ pool \notin {"starting", "open"} /\ joining' = Nobody
        /\ worker' = [worker EXCEPT ![joining] = "reaped"] /\ UNCHANGED <<task, holds>>
    BY <1>1, <1>9 DEF CloseJoined, Placed, TypeOK
  <2>2. CASE UNCHANGED <<pool, queue>>
    <3>1. worker'[joining] = "reaped" /\ \A w \in Workers \ {joining} : worker'[w] = worker[w]
      BY <1>1, <2>1 DEF TypeOK
    <3>2. Busy' = Busy
      BY <2>1 DEF Busy
    <3>3. Lost' \subseteq Lost
      BY <1>2, <2>2, <3>1, <3>2 DEF Lost, InPool
    <3>4. IsFiniteSet(Failed)' /\ (Paid => Paid')
      BY <1>1, <1>5, <2>1, <3>3, StillPaid
    <3> QED
      BY <2>1, <2>2, <3>4 DEF PaidInv, Paid
  <2>3. CASE pool' = "failed"
    BY <1>1, <1>5, <2>1, <2>3 DEF PaidInv
  <2> QED
    BY <1>9, <2>2, <2>3 DEF CloseJoined
<1>10. CASE CloseReturnsOk
  <2>1. /\ pool = "closing" /\ pool' = "closed" /\ joining = Nobody /\ queue = <<>>
        /\ UNCHANGED <<joining, queue, task, holds, worker>>
    BY <1>10 DEF CloseReturnsOk
  <2>2. Lost' \subseteq Lost
    BY <1>2, <2>1, LostSame
  <2>3. IsFiniteSet(Failed)' /\ (Paid => Paid')
    BY <1>1, <1>5, <2>1, <2>2, StillPaid
  <2> QED
    BY <2>1, <2>3 DEF PaidInv, Paid
<1>11. ASSUME NEW t \in Tasks, Run(t) PROVE PaidInv'
  <2>1. /\ pool = "open" /\ task[t] = "none" /\ task' = [task EXCEPT ![t] = "waiting"]
        /\ UNCHANGED <<pool, joining, queue, holds, worker>>
    BY <1>11 DEF Run
  <2>2. Failed' = Failed /\ Lost' \subseteq Lost
    BY <1>1, <1>2, <2>1, FailedMoves, LostSame
  <2> QED
    BY <1>1, <2>1, <2>2, StillPaid, PaidRunning
<1>12. ASSUME NEW t \in Tasks, TakeWorker(t) PROVE PaidInv'
  <2>1. /\ task[t] = "waiting" /\ queue # <<>> /\ holds' = [holds EXCEPT ![t] = Head(queue)]
        /\ queue' = Tail(queue) /\ task' = [task EXCEPT ![t] = "sending"]
        /\ UNCHANGED <<pool, joining, worker>> /\ pool = "open"
    BY <1>3, <1>12 DEF TakeWorker, InRun
  <2>2. \A w \in Workers : Queued(w) => Queued(w)' \/ w = Head(queue)
    BY <1>1, <2>1, TakenFromQueue DEF TypeOK
  <2>3. holds'[t] = Head(queue) /\ holds[t] = Nobody /\ \A u \in Tasks \ {t} : holds'[u] = holds[u]
    BY <1>1, <2>1 DEF TypeOK, Placed
  <2>4. Head(queue) \in Busy' \/ Head(queue) \notin Workers
    BY <2>3 DEF Busy
  <2>5. Busy \subseteq Busy'
    BY <2>3 DEF Busy
  <2>6. Lost' \subseteq Lost
    BY <2>1, <2>2, <2>4, <2>5 DEF Lost, InPool
  <2>7. Failed' = Failed
    BY <1>1, <2>1, FailedMoves
  <2> QED
    BY <1>1, <2>1, <2>6, <2>7, StillPaid, PaidRunning
<1>13. ASSUME NEW t \in Tasks, SendRequest(t) PROVE PaidInv'
  <2>1. /\ task[t] = "sending" /\ task' = [task EXCEPT ![t] = "receiving"] /\ pool = "open"
        /\ UNCHANGED <<pool, joining, queue, holds, worker>>
    BY <1>3, <1>13 DEF SendRequest, InRun
  <2>2. Failed' = Failed /\ Lost' \subseteq Lost
    BY <1>1, <1>2, <2>1, FailedMoves, LostSame
  <2> QED
    BY <1>1, <2>1, <2>2, StillPaid, PaidRunning
<1>14. ASSUME NEW t \in Tasks, RecvReply(t) PROVE PaidInv'
  <2>1. /\ task[t] = "receiving" /\ queue' = Append(queue, holds[t]) /\ pool = "open"
        /\ holds' = [holds EXCEPT ![t] = Nobody] /\ task' = [task EXCEPT ![t] = "ok"]
        /\ UNCHANGED <<pool, joining, worker>> /\ holds[t] \in Workers /\ ~Queued(holds[t])
    BY <1>1, <1>3, <1>4, <1>14 DEF RecvReply, InRun, Placed
  <2>2. \A w \in Workers : Queued(w)' <=> Queued(w) \/ w = holds[t]
    BY <1>1, <2>1, PutQueue DEF TypeOK, Placed
  <2>3. \A u \in Tasks \ {t} : holds'[u] = holds[u]
    BY <1>1, <2>1 DEF TypeOK
  <2>4. \A w \in Workers : w \in Busy => w \in Busy' \/ w = holds[t]
    BY <2>3 DEF Busy
  <2>5. Lost' \subseteq Lost
    BY <2>1, <2>2, <2>4 DEF Lost, InPool
  <2>6. Failed' = Failed
    BY <1>1, <2>1, FailedMoves
  <2> QED
    BY <1>1, <2>1, <2>5, <2>6, StillPaid, PaidRunning
\* The two ways to lose a worker.
<1>15. ASSUME NEW t \in Tasks, RequestFails(t) \/ CancelRequest(t) PROVE PaidInv'
  <2>1. /\ task[t] \in {"sending", "receiving"}
        /\ holds' = [holds EXCEPT ![t] = Nobody]
        /\ task' = [task EXCEPT ![t] = "err"] \/ task' = [task EXCEPT ![t] = "cancelled"]
        /\ UNCHANGED <<pool, joining, queue, worker>>
    BY <1>15 DEF RequestFails, CancelRequest
  <2>2. pool = "open" /\ holds[t] \in Workers
    BY <1>3, <1>4, <2>1
  <2>3. \A u \in Tasks \ {t} : holds'[u] = holds[u]
    BY <1>1, <2>1 DEF TypeOK
  <2>4. \A w \in Workers : w \in Busy => w \in Busy' \/ w = holds[t]
    BY <2>3 DEF Busy
  <2>5. Lost' \subseteq Lost \cup {holds[t]}
    BY <1>2, <2>1, <2>4 DEF Lost, InPool
  <2>6. t \notin Failed /\ Failed' = Failed \cup {t}
    BY <1>1, <2>1, FailedMoves
  <2> QED
    BY <1>1, <2>1, <2>2, <2>5, <2>6, PaidFor, PaidRunning
<1>16. ASSUME NEW t \in Tasks, CancelWaiting(t) PROVE PaidInv'
  <2>1. /\ task[t] = "waiting" /\ task' = [task EXCEPT ![t] = "cancelled"] /\ pool = "open"
        /\ UNCHANGED <<pool, joining, queue, holds, worker>>
    BY <1>3, <1>16 DEF CancelWaiting, InRun
  <2>2. Failed' = Failed \cup {t} /\ Lost' \subseteq Lost
    BY <1>1, <1>2, <2>1, FailedMoves, LostSame
  <2> QED
    BY <1>1, <2>1, <2>2, StillPaid, PaidRunning
<1>17. ASSUME NEW w \in Workers, SpawnWorker(w) PROVE PaidInv'
  <2>1. /\ pool = "starting" /\ ~Queued(w) /\ queue' = Append(queue, w)
        /\ worker' = [worker EXCEPT ![w] = "receiving"] /\ UNCHANGED <<joining, task, holds>>
        /\ pool' = IF \A v \in Workers \ {w} : worker[v] # "none" THEN "open" ELSE "starting"
    BY <1>1, <1>17 DEF SpawnWorker, Placed
  <2>2. \A v \in Workers : Queued(v)' <=> Queued(v) \/ v = w
    BY <1>1, <2>1, PutQueue DEF TypeOK, Placed
  <2>3. worker'[w] = "receiving" /\ \A v \in Workers \ {w} : worker'[v] = worker[v]
    BY <1>1, <2>1 DEF TypeOK
  <2>4. \A v \in Workers : worker'[v] # "reaped" /\ (worker'[v] = "none" \/ Queued(v)')
    BY <2>1, <2>2, <2>3 DEF PaidInv
  <2>5. IsFiniteSet(Failed)'
    BY <1>1, <1>5, <2>1
  <2>6. CASE pool' = "open"
    <3>1. \A v \in Workers : Queued(v)'
      BY <2>1, <2>2, <2>4, <2>6, <2>3
    <3>2. Lost' = {}
      BY <3>1 DEF Lost, InPool
    <3>3. IsFiniteSet(Lost') /\ Cardinality(Lost') <= Cardinality(Failed')
      <4>1. Cardinality(Failed') \in Nat
        BY <2>5, FS_CardinalityType
      <4> QED
        BY <3>2, <4>1, FS_EmptySet
    <3> QED
      BY <2>4, <2>5, <2>6, <3>3 DEF PaidInv
  <2>7. CASE pool' = "starting"
    BY <2>4, <2>5, <2>7 DEF PaidInv
  <2> QED
    BY <2>1, <2>6, <2>7
<1>18. ASSUME NEW w \in Workers,
              \/ WorkerWork(w) \/ FunctionReturns(w)
              \/ \E status \in {"zero", "nonzero"} : WorkerStops(w, status)
       PROVE  PaidInv'
  <2>1. PICK place \in {"calling", "sending", "receiving", "zero", "nonzero"} :
            worker' = [worker EXCEPT ![w] = place]
    BY <1>18 DEF WorkerWork, WorkerRecv, WorkerEnds, WorkerSend, FunctionReturns, WorkerStops
  <2>2. worker[w] \in Running /\ UNCHANGED <<pool, joining, queue, task, holds>>
    BY <1>18 DEF WorkerWork, WorkerRecv, WorkerEnds, WorkerSend, FunctionReturns, WorkerStops, Running
  <2> QED
    BY <1>1, <2>1, <2>2, PaidAlone
<1>19. CASE UNCHANGED vars
  <2>1. UNCHANGED <<pool, joining, queue, task, holds, worker>>
    BY <1>19 DEF vars
  <2>2. Lost' \subseteq Lost
    BY <1>2, <2>1, LostSame
  <2>3. IsFiniteSet(Failed)' /\ (Paid => Paid')
    BY <1>1, <1>5, <2>1, <2>2, StillPaid
  <2> QED
    BY <1>2, <2>1, <2>3 DEF PaidInv, Paid
<1> QED
  BY <1>6, <1>7, <1>8, <1>9, <1>10, <1>11, <1>12, <1>13, <1>14, <1>15, <1>16, <1>17, <1>18, <1>19
     DEF Next, CloseWork, RunWork

\* No run has failed and no worker is there to be lost.
LEMMA InitPaid == Init => PaidInv
<1> SUFFICES ASSUME Init PROVE PaidInv
  OBVIOUS
<1>1. Failed = {}
  BY DEF Init, Failed
<1> QED
  BY <1>1, FS_EmptySet DEF Init, PaidInv

(* However many workers die and tasks are cancelled, the workers that are   *)
(* neither in the pool nor waited for are at most as many as the runs that  *)
(* failed or were cancelled.                                                *)
THEOREM PaidInvariance == Spec => []PaidInv
<1>1. IInv /\ PaidInv /\ [Next]_vars => PaidInv'
  BY PaidStep
<1> QED
  BY <1>1, InitPaid, Invariance, PTL DEF Spec

(* A run() that returns Ok loses no worker.                                 *)
THEOREM LossesArePaid == Spec => []LossesPaid
<1>1. IInv /\ PaidInv => LossesPaid
  <2> SUFFICES ASSUME IInv, PaidInv, pool = "open"
               PROVE  Cardinality({w \in Workers : ~InPool(w)}) <= Cardinality(Failed)
    BY DEF LossesPaid
  <2>1. joining = Nobody /\ \A w \in Workers : worker[w] # "reaped"
    BY DEF IInv, OnePlace, PaidInv
  <2>2. Lost = {w \in Workers : ~InPool(w)}
    BY <2>1, PoolAssumption DEF Lost
  <2> QED
    BY <2>2 DEF PaidInv
<1> QED
  BY <1>1, Invariance, PaidInvariance, PTL

(* When close() returns Ok it has waited for all workers but those.         *)
THEOREM CloseHasJoinedAll == Spec => []CloseJoinsAll
<1>1. IInv /\ PaidInv => CloseJoinsAll
  <2> SUFFICES ASSUME IInv, PaidInv, pool = "closed"
               PROVE  Cardinality({w \in Workers : worker[w] # "reaped"}) <= Cardinality(Failed)
    BY DEF CloseJoinsAll
  <2>1. joining = Nobody /\ queue = <<>> /\ \A t \in Tasks : holds[t] = Nobody
    BY DEF IInv, OnePlace, PaidInv, InRun
  <2>2. \A w \in Workers : ~InPool(w) /\ w # joining
    <3>1. Len(queue) = 0
      BY <2>1
    <3> QED
      BY <2>1, <3>1, PoolAssumption DEF InPool, Queued, Busy
  <2>3. Lost = {w \in Workers : worker[w] # "reaped"}
    BY <2>2 DEF Lost
  <2> QED
    BY <2>3 DEF PaidInv
<1> QED
  BY <1>1, Invariance, PaidInvariance, PTL
-----------------------------------------------------------------------------
(* Every function is called at most once, and what run() says of it is true *)

\* One-element queues.
LEMMA Singletons ==
    ASSUME NEW x, NEW y
    PROVE  /\ <<x>> # <<>> /\ (<<x>> = <<y>> <=> x = y) /\ Head(<<x>>) = x /\ Tail(<<x>>) = <<>>
           /\ Append(<<>>, x) = <<x>> /\ ~Holds(<<>>, x) /\ (Holds(<<x>>, y) <=> x = y)
BY DEF Holds

\* The process and the channel of w stay as they are, and so does t.
SameWorker(w) ==
    /\ worker'[w] = worker[w] /\ calls'[w] = calls[w]
    /\ inbox'[w] = inbox[w] /\ outbox'[w] = outbox[w]
SameTask(t) == task'[t] = task[t] /\ holds'[t] = holds[t]

\* What is said of two that stay as they are stays true.
LEMMA SameKept ==
    ASSUME CallInv, NEW w \in Workers, SameWorker(w)
    PROVE  /\ ShapeInv(w)'
           /\ \A t \in Tasks : SentTo(w, t)' <=> SentTo(w, t)
           /\ \A t \in Tasks : SameTask(t) => RequestInv(t, w)'
<1>1. ShapeInv(w) /\ \A t \in Tasks : RequestInv(t, w)
  BY DEF CallInv
<1>2. \A t \in Tasks : SentTo(w, t)' <=> SentTo(w, t)
  BY DEF SentTo, SameWorker
<1>3. ShapeInv(w)'
  BY <1>1 DEF ShapeInv, SameWorker
<1>4. ASSUME NEW t \in Tasks, SameTask(t) PROVE RequestInv(t, w)'
  BY <1>1, <1>2, <1>4 DEF RequestInv, SameWorker, SameTask
<1> QED
  BY <1>2, <1>3, <1>4

\* A process that goes on inside a call, or ends.
GoesOn(w) ==
    /\ calls'[w] = calls[w] /\ inbox'[w] = inbox[w] /\ outbox'[w] = outbox[w]
    /\ \/ worker'[w] = worker[w]
       \/ worker[w] = "calling" /\ worker'[w] = "sending"
       \/ worker[w] # "none" /\ worker'[w] \in {"zero", "nonzero", "reaped"}

\* No function changes its place by that.
LEMMA CallsStay ==
    ASSUME CallInv, UNCHANGED <<task, holds>>, \A w \in Workers : GoesOn(w)
    PROVE  CallInv'
<1>1. \A t \in Tasks, w \in Workers : SentTo(w, t)' <=> SentTo(w, t)
  BY DEF SentTo, GoesOn
<1>2. ASSUME NEW w \in Workers PROVE ShapeInv(w)'
  BY <1>2 DEF CallInv, ShapeInv, GoesOn
<1>3. ASSUME NEW w \in Workers, NEW t \in Tasks PROVE RequestInv(t, w)'
  <2>1. RequestInv(t, w) /\ GoesOn(w)
    BY DEF CallInv
  <2>2. worker'[w] \in Running => worker[w] \in Running
    BY <2>1 DEF GoesOn, Running
  <2> QED
    BY <1>1, <2>1, <2>2 DEF RequestInv, GoesOn
<1> QED
  BY <1>1, <1>2, <1>3 DEF CallInv

\* A task that is asked about by nobody, or cancelled, moves.
LEMMA CallsLeft ==
    ASSUME CallInv, TypeOK, NEW x \in Tasks, NEW place,
           task' = [task EXCEPT ![x] = place],
           \A u \in Tasks \ {x} : holds'[u] = holds[u],
           UNCHANGED <<worker, calls, inbox, outbox>>,
           \/ task[x] \in {"none", "waiting", "sending"} /\ place # "receiving"
           \/ task[x] = "receiving" /\ place = "cancelled"
    PROVE  CallInv'
<1>1. task'[x] = place /\ \A u \in Tasks \ {x} : SameTask(u)
  BY DEF TypeOK, SameTask
<1>2. \A w \in Workers : SameWorker(w)
  BY DEF SameWorker
<1>3. ASSUME NEW w \in Workers PROVE RequestInv(x, w)'
  BY <1>1, <1>2 DEF CallInv, RequestInv, SentTo, SameWorker
<1>4. \A t \in Tasks, w \in Workers : (SentTo(w, t)' <=> SentTo(w, t)) /\ RequestInv(t, w)'
  BY <1>1, <1>2, <1>3, SameKept
<1> QED
  BY <1>2, <1>4, SameKept DEF CallInv

\* The step of one worker: the other ones keep what they have.
LEMMA CallsOf ==
    ASSUME CallInv, NEW w \in Workers, \A v \in Workers \ {w} : SameWorker(v),
           NEW x \in Tasks, \A u \in Tasks \ {x} : SameTask(u),
           ShapeInv(w)', \A t \in Tasks : RequestInv(t, w)',
           \A t \in Tasks : SentTo(w, t)' => SentTo(w, t) \/ \A v \in Workers : ~SentTo(v, t),
           SameTask(x) \/ \A v \in Workers \ {w} : ~SentTo(v, x)
    PROVE  CallInv'
<1>1. \A v \in Workers \ {w} : ShapeInv(v)' /\ \A t \in Tasks : SentTo(v, t)' <=> SentTo(v, t)
  BY SameKept
<1>2. ASSUME NEW v \in Workers \ {w}, NEW t \in Tasks PROVE RequestInv(t, v)'
  <2>1. CASE SameTask(t)
    BY <2>1, SameKept
  <2>2. CASE ~SameTask(t)
    BY <1>1, <2>2 DEF RequestInv
  <2> QED
    BY <2>1, <2>2
<1>3. ASSUME NEW t \in Tasks, NEW u \in Workers, NEW v \in Workers, SentTo(u, t)', SentTo(v, t)'
      PROVE  u = v
  <2>1. \A a, b \in Workers : SentTo(a, t) /\ SentTo(b, t) => a = b
    BY DEF CallInv
  <2> QED
    BY <1>1, <1>3, <2>1
<1> QED
  BY <1>1, <1>2, <1>3 DEF CallInv
\* Steps of the system, the pool, and processes that end: calls stay where they are.
Unheard ==
    \/ DropPool \/ Close \/ CloseWork
    \/ \E w \in Workers :
          \/ WorkerEnds(w) \/ FunctionReturns(w)
          \/ \E status \in {"zero", "nonzero"} : WorkerStops(w, status)
          \/ WorkerSend(w) /\ ours[w] # "open"
    \/ UNCHANGED vars

\* Then one process goes on, or ends.
LEMMA UnheardGoesOn ==
    ASSUME IInv, Unheard
    PROVE  /\ UNCHANGED <<task, holds, answer>> /\ \A w \in Workers : GoesOn(w)
           /\ \/ \A v \in Workers : SameWorker(v)
              \/ \E w \in Workers : \A v \in Workers \ {w} : SameWorker(v)
<1> USE DEF tasks, channels
<1>1. TypeOK
  BY DEF IInv
<1>2. CASE DropPool \/ Close \/ CloseNext \/ CloseReturnsOk \/ UNCHANGED vars
  BY <1>2 DEF DropPool, Close, CloseNext, CloseReturnsOk, vars, GoesOn, SameWorker
<1>3. CASE CloseJoined
  <2>1. /\ joining \in Workers /\ worker[joining] # "none"
        /\ worker' = [worker EXCEPT ![joining] = "reaped"]
        /\ UNCHANGED <<task, holds, answer, calls, inbox, outbox>>
    BY <1>1, <1>3 DEF CloseJoined, TypeOK
  <2> QED
    BY <1>1, <2>1 DEF TypeOK, GoesOn, SameWorker
<1>4. ASSUME NEW w \in Workers,
             \/ WorkerEnds(w) \/ FunctionReturns(w)
             \/ \E status \in {"zero", "nonzero"} : WorkerStops(w, status)
             \/ WorkerSend(w) /\ ours[w] # "open"
      PROVE  /\ UNCHANGED <<task, holds, answer>> /\ \A v \in Workers : GoesOn(v)
             /\ \A v \in Workers \ {w} : SameWorker(v)
  <2>1. /\ UNCHANGED <<task, holds, answer, calls, inbox, outbox>>
        /\ \/ worker[w] = "calling" /\ worker' = [worker EXCEPT ![w] = "sending"]
           \/ \E place \in {"zero", "nonzero"} :
                 worker[w] # "none" /\ worker' = [worker EXCEPT ![w] = place]
    BY <1>4 DEF WorkerEnds, FunctionReturns, WorkerStops, WorkerSend, Running
  <2> QED
    BY <1>1, <2>1 DEF TypeOK, GoesOn, SameWorker
<1> QED
  BY <1>2, <1>3, <1>4 DEF Unheard, CloseWork

\* No step sends a function to a second worker, or lets the one of a failed run go on.
LEMMA CallStep ==
    ASSUME IInv, CallInv, [Next]_vars
    PROVE  CallInv'
<1>1. TypeOK /\ Placed /\ Channels
  BY DEF IInv, OnePlace, Placed, Distinct, Channels
<1>2. \A t \in Tasks : task[t] \in {"sending", "receiving"} => holds[t] \in Workers
  BY <1>1 DEF Placed, TypeOK
<1> USE PoolAssumption DEF tasks, channels
<1>3. CASE Unheard
  BY <1>3, UnheardGoesOn, CallsStay
<1>4. ASSUME NEW x \in Tasks,
             Run(x) \/ TakeWorker(x) \/ CancelWaiting(x) \/ CancelRequest(x)
      PROVE  CallInv'
  <2>1. PICK place \in {"waiting", "sending", "cancelled"} :
            task' = [task EXCEPT ![x] = place]
    BY <1>4 DEF Run, TakeWorker, CancelWaiting, CancelRequest
  <2>2. /\ \A u \in Tasks \ {x} : holds'[u] = holds[u]
        /\ UNCHANGED <<worker, calls, inbox, outbox>>
        /\ \/ task[x] \in {"none", "waiting", "sending"}
           \/ task[x] = "receiving" /\ task' = [task EXCEPT ![x] = "cancelled"]
    BY <1>1, <1>4 DEF Run, TakeWorker, CancelWaiting, CancelRequest, TypeOK
  <2>3. CASE task[x] \in {"none", "waiting", "sending"}
    BY <1>1, <2>1, <2>2, <2>3, CallsLeft
  <2>4. CASE task[x] = "receiving" /\ task' = [task EXCEPT ![x] = "cancelled"]
    BY <1>1, <2>2, <2>4, CallsLeft
  <2> QED
    BY <2>2, <2>3, <2>4
<1>5. ASSUME NEW x \in Tasks, SendRequest(x) PROVE CallInv'
  <2>a. holds[x] \in Workers
    BY <1>2, <1>5 DEF SendRequest
  <2>b. PICK h \in Workers : h = holds[x]
    BY <2>a
  <2>1. /\ task[x] = "sending" /\ h = holds[x] /\ worker[h] \in Running /\ Quiet(h)
        /\ inbox' = [inbox EXCEPT ![h] = Append(@, x)]
        /\ task' = [task EXCEPT ![x] = "receiving"]
        /\ UNCHANGED <<holds, worker, calls, outbox>>
    BY <1>1, <2>b, <1>5 DEF SendRequest, Channels
  <2>2. \A v \in Workers : ~SentTo(v, x)
    BY <2>1 DEF CallInv, RequestInv
  <2>3. /\ inbox'[h] = <<x>> /\ \A v \in Workers \ {h} : SameWorker(v)
        /\ \A u \in Tasks \ {x} : SameTask(u)
        /\ task'[x] = "receiving" /\ holds'[x] = h
    BY <1>1, <2>1, Singletons DEF Quiet, TypeOK, SameWorker, SameTask
  <2>4. ShapeInv(h) /\ \A t \in Tasks : RequestInv(t, h)
    BY <2>1 DEF CallInv
  <2>5. calls[h] # x /\ outbox[h] = <<>> /\ inbox[h] = <<>> /\ worker[h] \notin {"calling", "sending"}
    BY <2>1, <2>2 DEF SentTo, Quiet
  <2>6. ShapeInv(h)'
    BY <2>1, <2>3, <2>4, <2>5, Singletons DEF ShapeInv, Running
  <2>7. \A t \in Tasks : SentTo(h, t)' => SentTo(h, t) \/ t = x
    BY <2>1, <2>3, Singletons DEF SentTo
  <2>8. RequestInv(x, h)'
    BY <2>1, <2>3, <2>5 DEF RequestInv
  <2>9. ASSUME NEW t \in Tasks, t # x PROVE RequestInv(t, h)'
    <3>1. SentTo(h, t)' => SentTo(h, t)
      BY <2>7, <2>9
    <3>2. inbox'[h] # <<t>> /\ inbox[h] # <<t>>
      BY <2>3, <2>5, <2>9, Singletons
    <3>3. /\ task'[t] = task[t] /\ holds'[t] = holds[t] /\ worker'[h] = worker[h]
          /\ calls'[h] = calls[h] /\ outbox'[h] = outbox[h]
      BY <2>1, <2>3, <2>9 DEF SameTask
    <3> QED
      BY <2>4, <3>1, <3>2, <3>3 DEF RequestInv
  <2> QED
    BY <2>1, <2>2, <2>3, <2>6, <2>7, <2>8, <2>9, CallsOf
<1>6. ASSUME NEW x \in Tasks, RecvReply(x) PROVE CallInv'
  <2>a. holds[x] \in Workers
    BY <1>2, <1>6 DEF RecvReply
  <2>b. PICK h \in Workers : h = holds[x]
    BY <2>a
  <2>1. /\ task[x] = "receiving" /\ h = holds[x] /\ OneRequest(x, h) /\ outbox[h] # <<>>
        /\ outbox' = [outbox EXCEPT ![h] = Tail(@)]
        /\ holds' = [holds EXCEPT ![x] = Nobody]
        /\ task' = [task EXCEPT ![x] = "ok"]
        /\ UNCHANGED <<worker, calls, inbox>>
    BY <1>1, <2>b, <1>6 DEF RecvReply, Channels
  <2>2. ShapeInv(h) /\ \A t \in Tasks : RequestInv(t, h)
    BY <2>1 DEF CallInv
  <2>3. /\ outbox[h] = <<x>> /\ inbox[h] = <<>> /\ worker[h] \notin {"calling", "sending"}
        /\ calls[h] = x
    BY <2>1, <2>2, Singletons DEF OneRequest, ShapeInv
  <2>4. /\ outbox'[h] = <<>> /\ \A v \in Workers \ {h} : SameWorker(v)
        /\ task'[x] = "ok" /\ \A u \in Tasks \ {x} : SameTask(u)
    BY <1>1, <2>1, <2>3, Singletons DEF TypeOK, SameWorker, SameTask
  <2>5. ShapeInv(h)'
    BY <2>1, <2>2, <2>3, <2>4 DEF ShapeInv
  <2>6. \A t \in Tasks : SentTo(h, t)' <=> t = x
    BY <2>1, <2>3, Singletons DEF SentTo
  <2>7. RequestInv(x, h)'
    BY <2>1, <2>3, <2>4, Singletons DEF RequestInv
  <2>8. \A t \in Tasks : RequestInv(t, h)'
    BY <2>6, <2>7 DEF RequestInv
  <2>9. \A v \in Workers \ {h} : ~SentTo(v, x)
    BY <2>1, <2>3 DEF CallInv, SentTo
  <2>10. \A t \in Tasks : SentTo(h, t)' => SentTo(h, t)
    BY <2>3, <2>6 DEF SentTo
  <2> QED
    BY <2>1, <2>4, <2>5, <2>8, <2>9, <2>10, CallsOf
<1>7. ASSUME NEW x \in Tasks, RequestFails(x) PROVE CallInv'
  <2> DEFINE h == holds[x]
  <2>1. /\ task[x] \in {"sending", "receiving"} /\ h \in Workers /\ worker[h] \notin Running
        /\ task[x] = "receiving" => outbox[h] = <<>>
        /\ holds' = [holds EXCEPT ![x] = Nobody]
        /\ task' = [task EXCEPT ![x] = "err"]
        /\ UNCHANGED <<worker, calls, inbox, outbox>>
    BY <1>2, <1>7 DEF RequestFails
  <2>2. task'[x] = "err" /\ (\A u \in Tasks \ {x} : SameTask(u)) /\ \A v \in Workers : SameWorker(v)
    BY <1>1, <2>1 DEF TypeOK, SameTask, SameWorker
  <2>3. ASSUME NEW v \in Workers, SentTo(v, x) PROVE v = h /\ task[x] = "receiving"
    BY <2>1, <2>3 DEF CallInv, RequestInv
  <2>4. \A t \in Tasks, v \in Workers : SentTo(v, t)' <=> SentTo(v, t)
    BY <2>1 DEF SentTo
  <2>5. ASSUME NEW v \in Workers PROVE RequestInv(x, v)'
    BY <2>1, <2>2, <2>3, <2>4 DEF RequestInv, Running
  <2>6. \A t \in Tasks, v \in Workers : RequestInv(t, v)'
    BY <2>2, <2>5, SameKept
  <2> QED
    BY <2>2, <2>4, <2>6, SameKept DEF CallInv
<1>8. ASSUME NEW w \in Workers, SpawnWorker(w) PROVE CallInv'
  <2>1. /\ worker[w] = "none" /\ worker' = [worker EXCEPT ![w] = "receiving"]
        /\ UNCHANGED <<task, holds, calls, inbox, outbox>>
    BY <1>8 DEF SpawnWorker
  <2>2. calls[w] = Nobody /\ inbox[w] = <<>> /\ outbox[w] = <<>>
    BY <1>1, <2>1 DEF CallInv, ShapeInv, Channels, Quiet
  <2>3. worker'[w] = "receiving" /\ \A v \in Workers \ {w} : SameWorker(v)
    BY <1>1, <2>1 DEF TypeOK, SameWorker
  <2>4. \A t \in Tasks : SameTask(t) /\ ~SentTo(w, t)' /\ ~SentTo(w, t)
    BY <2>1, <2>2, Singletons DEF SameTask, SentTo
  <2>5. ShapeInv(w)' /\ \A t \in Tasks : RequestInv(t, w)'
    BY <2>1, <2>2, <2>3, <2>4 DEF ShapeInv, RequestInv
  <2>6. \A v \in Workers : \A t \in Tasks : SentTo(v, t)' <=> SentTo(v, t)
    BY <2>1 DEF SentTo
  <2>7. \A v \in Workers : ShapeInv(v)' /\ \A t \in Tasks : RequestInv(t, v)'
    BY <2>3, <2>4, <2>5, SameKept
  <2> QED
    BY <2>6, <2>7 DEF CallInv
<1>9. ASSUME NEW w \in Workers, WorkerRecv(w) PROVE CallInv'
  <2>1. /\ worker[w] = "receiving" /\ inbox[w] # <<>>
        /\ calls' = [calls EXCEPT ![w] = Head(inbox[w])]
        /\ inbox' = [inbox EXCEPT ![w] = Tail(@)]
        /\ worker' = [worker EXCEPT ![w] = "calling"]
        /\ UNCHANGED <<task, holds, outbox>>
    BY <1>9 DEF WorkerRecv
  <2>2. PICK x \in Tasks : inbox[w] = <<x>>
    BY <2>1 DEF CallInv, ShapeInv
  <2>3. ShapeInv(w) /\ RequestInv(x, w) /\ SentTo(w, x)
    BY <2>2 DEF CallInv, SentTo
  <2>4. /\ calls'[w] = x /\ inbox'[w] = <<>> /\ worker'[w] = "calling"
        /\ (\A v \in Workers \ {w} : SameWorker(v)) /\ \A t \in Tasks : SameTask(t)
    BY <1>1, <2>1, <2>2, Singletons DEF TypeOK, SameWorker, SameTask
  <2>5. outbox'[w] = <<>>
    BY <2>1, <2>2, <2>3 DEF ShapeInv
  <2>6. ShapeInv(w)'
    BY <2>4, <2>5 DEF ShapeInv
  <2>7. \A t \in Tasks : SentTo(w, t)' <=> t = x
    BY <2>4, Singletons DEF SentTo
  <2>8. RequestInv(x, w)'
    BY <2>1, <2>2, <2>3, <2>4, Singletons DEF RequestInv, SameTask, Running
  <2>9. \A t \in Tasks : RequestInv(t, w)'
    BY <2>7, <2>8 DEF RequestInv
  <2> QED
    BY <2>3, <2>4, <2>6, <2>7, <2>9, CallsOf
<1>10. ASSUME NEW w \in Workers, WorkerSend(w), ours[w] = "open" PROVE CallInv'
  <2>1. /\ worker[w] = "sending" /\ outbox' = [outbox EXCEPT ![w] = Append(@, calls[w])]
        /\ worker' = [worker EXCEPT ![w] = "receiving"]
        /\ UNCHANGED <<task, holds, calls, inbox>>
    BY <1>10 DEF WorkerSend
  <2>a. calls[w] \in Tasks
    BY <1>1, <2>1 DEF Channels, TypeOK
  <2>b. PICK x \in Tasks : x = calls[w]
    BY <2>a
  <2>2. ShapeInv(w) /\ RequestInv(x, w)
    BY DEF CallInv
  <2>3. inbox[w] = <<>> /\ outbox[w] = <<>>
    BY <2>1, <2>2 DEF ShapeInv
  <2>4. /\ outbox'[w] = <<x>> /\ calls'[w] = x /\ worker'[w] = "receiving"
        /\ (\A v \in Workers \ {w} : SameWorker(v)) /\ \A t \in Tasks : SameTask(t)
    BY <1>1, <2>1, <2>3, <2>b, Singletons DEF TypeOK, SameWorker, SameTask
  <2>5. ShapeInv(w)'
    BY <2>1, <2>3, <2>4, PoolAssumption DEF ShapeInv
  <2>6. \A t \in Tasks : (SentTo(w, t)' <=> SentTo(w, t)) /\ (SentTo(w, t) <=> t = x)
    BY <2>1, <2>3, <2>b, Singletons DEF SentTo
  <2>7. RequestInv(x, w)'
    BY <2>1, <2>2, <2>3, <2>4, <2>6 DEF RequestInv, SameTask, Running
  <2>8. \A t \in Tasks : RequestInv(t, w)'
    BY <2>6, <2>7 DEF RequestInv
  <2> QED
    BY <2>4, <2>5, <2>6, <2>8, CallsOf
<1> QED
  BY <1>3, <1>4, <1>5, <1>6, <1>7, <1>8, <1>9, <1>10
     DEF Next, RunWork, WorkerWork, Unheard
(* The refinement of RemoteCall, task by task. *)
Kept(t) == CallerAt(t)' = CallerAt(t) /\ CalleeAt(t)' = CalleeAt(t)

\* The steps RemoteCall allows, as one task sees them.
Moved(t) ==
    \/ Kept(t)
    \/ CallerAt(t) = "idle" /\ CallerAt(t)' = "pending" /\ CalleeAt(t)' = CalleeAt(t)
    \/ /\ CallerAt(t) \in {"pending", "left"} /\ CalleeAt(t) = "idle"
       /\ CalleeAt(t)' = "running" /\ CallerAt(t)' = CallerAt(t)
    \/ CalleeAt(t) = "running" /\ CalleeAt(t)' = "done" /\ CallerAt(t)' = CallerAt(t)
    \/ /\ CallerAt(t) # "idle" /\ CalleeAt(t) \in {"idle", "running"}
       /\ CalleeAt(t)' = "stopped" /\ CallerAt(t)' = CallerAt(t)
    \/ /\ CallerAt(t) = "pending" /\ CalleeAt(t) = "done"
       /\ CallerAt(t)' = "ok" /\ CalleeAt(t)' = CalleeAt(t)
    \/ /\ CallerAt(t) = "pending" /\ CalleeAt(t) \in {"idle", "stopped"}
       /\ CallerAt(t)' = "err" /\ CalleeAt(t)' = "stopped"
    \/ CallerAt(t) = "pending" /\ CallerAt(t)' = "left" /\ CalleeAt(t)' = CalleeAt(t)

\* What happens to one task, while the others stay where they are, is a step of
\* RemoteCall or none.
LEMMA OneMoves ==
    ASSUME NEW x \in Tasks, Moved(x), \A u \in Tasks \ {x} : Kept(u)
    PROVE  [Promise!Next]_(Promise!vars)
<1> DEFINE a == [t \in Tasks |-> CallerAt(t)]
           b == [t \in Tasks |-> CalleeAt(t)]
<1>1. /\ a[x] = CallerAt(x) /\ b[x] = CalleeAt(x)
      /\ a' = [t \in Tasks |-> CallerAt(t)'] /\ b' = [t \in Tasks |-> CalleeAt(t)']
  OBVIOUS
<1>2. ASSUME CallerAt(x)' = CallerAt(x) PROVE a' = a
  BY <1>1, <1>2 DEF Kept
<1>3. ASSUME CalleeAt(x)' = CalleeAt(x) PROVE b' = b
  BY <1>1, <1>3 DEF Kept
<1>4. ASSUME NEW v, CallerAt(x)' = v PROVE a' = [a EXCEPT ![x] = v]
  BY <1>1, <1>4 DEF Kept
<1>5. ASSUME NEW v, CalleeAt(x)' = v PROVE b' = [b EXCEPT ![x] = v]
  BY <1>1, <1>5 DEF Kept
<1>6. CASE Kept(x)
  BY <1>2, <1>3, <1>6 DEF Kept, Promise!vars
<1>7. CASE CallerAt(x) = "idle" /\ CallerAt(x)' = "pending" /\ CalleeAt(x)' = CalleeAt(x)
  <2>1. Promise!Call(x)
    BY <1>1, <1>3, <1>4, <1>7 DEF Promise!Call
  <2> QED
    BY <2>1 DEF Promise!Next
<1>8. CASE /\ CallerAt(x) \in {"pending", "left"} /\ CalleeAt(x) = "idle"
           /\ CalleeAt(x)' = "running" /\ CallerAt(x)' = CallerAt(x)
  <2>1. Promise!Begin(x)
    BY <1>1, <1>2, <1>5, <1>8 DEF Promise!Begin
  <2> QED
    BY <2>1 DEF Promise!Next
<1>9. CASE CalleeAt(x) = "running" /\ CalleeAt(x)' = "done" /\ CallerAt(x)' = CallerAt(x)
  <2>1. Promise!Succeed(x)
    BY <1>1, <1>2, <1>5, <1>9 DEF Promise!Succeed
  <2> QED
    BY <2>1 DEF Promise!Next
<1>10. CASE /\ CallerAt(x) # "idle" /\ CalleeAt(x) \in {"idle", "running"}
            /\ CalleeAt(x)' = "stopped" /\ CallerAt(x)' = CallerAt(x)
  <2>1. Promise!Stop(x)
    BY <1>1, <1>2, <1>5, <1>10 DEF Promise!Stop
  <2> QED
    BY <2>1 DEF Promise!Next
<1>11. CASE /\ CallerAt(x) = "pending" /\ CalleeAt(x) = "done"
            /\ CallerAt(x)' = "ok" /\ CalleeAt(x)' = CalleeAt(x)
  <2>1. Promise!Answer(x)
    BY <1>1, <1>3, <1>4, <1>11 DEF Promise!Answer
  <2> QED
    BY <2>1 DEF Promise!Next
<1>12. CASE /\ CallerAt(x) = "pending" /\ CalleeAt(x) \in {"idle", "stopped"}
            /\ CallerAt(x)' = "err" /\ CalleeAt(x)' = "stopped"
  <2>1. Promise!Fail(x)
    BY <1>1, <1>4, <1>5, <1>12 DEF Promise!Fail
  <2> QED
    BY <2>1 DEF Promise!Next
<1>13. CASE CallerAt(x) = "pending" /\ CallerAt(x)' = "left" /\ CalleeAt(x)' = CalleeAt(x)
  <2>1. Promise!Leave(x)
    BY <1>1, <1>3, <1>4, <1>13 DEF Promise!Leave
  <2> QED
    BY <2>1 DEF Promise!Next
<1> QED
  BY <1>6, <1>7, <1>8, <1>9, <1>10, <1>11, <1>12, <1>13 DEF Moved
\* What has become of the function of t, which was sent to w.
Fate(w, t) ==
    IF worker[w] \in {"calling", "sending"} /\ calls[w] = t THEN "running"
    ELSE IF task[t] = "ok" \/ outbox[w] = <<t>> THEN "done"
    ELSE IF task[t] = "err" \/ (worker[w] \notin Running /\ calls[w] = t) THEN "stopped"
    ELSE "idle"

\* Of one that was sent to nobody, or whose worker has gone on to the next.
Unsent(t) == IF task[t] = "ok" THEN "done" ELSE IF task[t] = "err" THEN "stopped" ELSE "idle"

CalleeView ==
    \A t \in Tasks :
        /\ \A w \in Workers : SentTo(w, t) => CalleeAt(t) = Fate(w, t)
        /\ (\A w \in Workers : ~SentTo(w, t)) => CalleeAt(t) = Unsent(t)

\* The worker it was sent to knows all about it.
LEMMA Views == CallInv => CalleeView
<1> SUFFICES ASSUME CallInv, NEW t \in Tasks
             PROVE  /\ \A w \in Workers : SentTo(w, t) => CalleeAt(t) = Fate(w, t)
                    /\ (\A w \in Workers : ~SentTo(w, t)) => CalleeAt(t) = Unsent(t)
  BY DEF CalleeView
<1>1. \A w \in Workers : Holds(outbox[w], t) <=> outbox[w] = <<t>>
  <2> SUFFICES ASSUME NEW w \in Workers PROVE Holds(outbox[w], t) <=> outbox[w] = <<t>>
    OBVIOUS
  <2>1. outbox[w] = <<>> \/ outbox[w] = <<calls[w]>>
    BY DEF CallInv, ShapeInv
  <2>2. ~Holds(<<>>, t) /\ <<t>> # <<>>
    BY Singletons
  <2>3. Holds(<<calls[w]>>, t) <=> <<calls[w]>> = <<t>>
    BY Singletons
  <2> QED
    BY <2>1, <2>2, <2>3
<1>2. \A w \in Workers : calls[w] = t \/ outbox[w] = <<t>> => SentTo(w, t)
  BY Singletons DEF CallInv, ShapeInv, SentTo
<1>3. ASSUME NEW w \in Workers, SentTo(w, t) PROVE CalleeAt(t) = Fate(w, t)
  <2>1. \A v \in Workers : calls[v] = t \/ outbox[v] = <<t>> => v = w
    BY <1>2, <1>3 DEF CallInv
  <2> QED
    BY <1>1, <2>1 DEF CalleeAt, Fate
<1>4. ASSUME \A w \in Workers : ~SentTo(w, t) PROVE CalleeAt(t) = Unsent(t)
  <2>1. \A w \in Workers : calls[w] # t /\ outbox[w] # <<t>>
    BY <1>2, <1>4
  <2> QED
    BY <1>1, <2>1 DEF CalleeAt, Unsent
<1> QED
  BY <1>3, <1>4

\* A task that stays as it is, and whose worker does, if it has one, is kept.
LEMMA TaskKept ==
    ASSUME CalleeView, CalleeView', NEW t \in Tasks, task'[t] = task[t],
           \A w \in Workers : SentTo(w, t)' <=> SentTo(w, t),
           \A w \in Workers : SentTo(w, t) => SameWorker(w)
    PROVE  Kept(t)
<1>1. CallerAt(t)' = CallerAt(t)
  BY DEF CallerAt
<1>2. CASE \E w \in Workers : SentTo(w, t)
  <2>1. PICK w \in Workers : SentTo(w, t)
    BY <1>2
  <2>2. Fate(w, t)' = Fate(w, t)
    BY <2>1 DEF Fate, SameWorker
  <2>3. CalleeAt(t) = Fate(w, t) /\ CalleeAt(t)' = Fate(w, t)'
    BY <2>1 DEF CalleeView
  <2> QED
    BY <1>1, <2>2, <2>3 DEF Kept
<1>3. CASE \A w \in Workers : ~SentTo(w, t)
  <2>1. CalleeAt(t) = Unsent(t) /\ CalleeAt(t)' = Unsent(t)'
    BY <1>3 DEF CalleeView
  <2> QED
    BY <1>1, <2>1 DEF Unsent, Kept
<1> QED
  BY <1>2, <1>3
\* A process that goes on, or ends, stops at most the function it was calling.
LEMMA UnheardMoves ==
    ASSUME CallInv, CalleeView, CalleeView', UNCHANGED <<task, holds>>,
           NEW w \in Workers, GoesOn(w), \A v \in Workers \ {w} : SameWorker(v)
    PROVE  [Promise!Next]_(Promise!vars)
<1>1. \A v \in Workers : \A t \in Tasks : SentTo(v, t)' <=> SentTo(v, t)
  BY DEF SentTo, SameWorker, GoesOn
<1>2. ASSUME NEW t \in Tasks, ~SentTo(w, t) PROVE Kept(t)
  BY <1>1, <1>2, TaskKept
<1>3. ASSUME NEW t \in Tasks, SentTo(w, t) PROVE Moved(t) /\ (calls[w] # t => Kept(t))
  <2>1. CalleeAt(t) = Fate(w, t) /\ CalleeAt(t)' = Fate(w, t)'
    BY <1>1, <1>3 DEF CalleeView
  <2>2. CallerAt(t)' = CallerAt(t)
    BY DEF CallerAt
  <2>3. ShapeInv(w) /\ RequestInv(t, w)
    BY DEF CallInv
  <2>4. CallerAt(t) # "idle"
    BY <1>3, <2>3 DEF RequestInv, CallerAt, InRun
  <2>5. /\ calls'[w] = calls[w] /\ outbox'[w] = outbox[w] /\ task'[t] = task[t]
    BY DEF GoesOn
  <2>6. CASE calls[w] # t
    <3>1. Fate(w, t)' = Fate(w, t)
      BY <2>5, <2>6 DEF Fate
    <3> QED
      BY <2>1, <2>2, <2>6, <3>1 DEF Moved, Kept
  <2>7. CASE calls[w] = t /\ worker[w] \in {"calling", "sending"}
    <3>1. Fate(w, t) = "running" /\ task[t] # "ok" /\ outbox[w] # <<t>>
      BY <1>3, <2>3, <2>7, Singletons DEF Fate, RequestInv, ShapeInv
    <3>2. Fate(w, t)' \in {"running", "stopped"}
      BY <2>5, <2>7, <3>1 DEF Fate, GoesOn, Running
    <3> QED
      BY <2>1, <2>2, <2>4, <2>7, <3>1, <3>2 DEF Moved, Kept
  <2>8. CASE calls[w] = t /\ worker[w] \notin {"calling", "sending"}
    <3>1. worker'[w] \notin {"calling", "sending"}
      BY <2>8 DEF GoesOn
    <3>2. CASE task[t] = "ok" \/ outbox[w] = <<t>>
      BY <2>1, <2>2, <2>5, <2>8, <3>1, <3>2 DEF Fate, Moved, Kept
    <3>3. CASE worker[w] \notin Running /\ worker[w] # "none"
      <4>1. worker'[w] \notin Running
        BY <3>3 DEF GoesOn, Running
      <4> QED
        BY <2>1, <2>2, <2>5, <2>8, <3>1, <3>3, <4>1 DEF Fate, Moved, Kept
    <3>4. worker[w] = "none" => worker'[w] = "none"
      BY DEF GoesOn
    <3>5. CASE worker[w] = "none"
      BY <2>1, <2>2, <2>5, <2>8, <3>1, <3>4, <3>5 DEF Fate, Moved, Kept
    <3> QED
      BY <1>3, <2>3, <2>8, <3>2, <3>3, <3>5 DEF RequestInv, Running
  <2> QED
    BY <2>6, <2>7, <2>8
<1>4. CASE calls[w] \in Tasks
  <2>1. PICK x \in Tasks : x = calls[w]
    BY <1>4
  <2>2. Moved(x) /\ \A t \in Tasks \ {x} : Kept(t)
    BY <1>2, <1>3, <2>1 DEF Moved
  <2> QED
    BY <2>2, OneMoves
<1>5. CASE calls[w] \notin Tasks
  <2>1. \A t \in Tasks : Kept(t)
    BY <1>2, <1>3, <1>5
  <2>2. /\ \A t \in Tasks : CallerAt(t)' = CallerAt(t)
        /\ \A t \in Tasks : CalleeAt(t)' = CalleeAt(t)
    BY <2>1 DEF Kept
  <2> QED
    BY <2>2 DEF Promise!vars
<1> QED
  BY <1>4, <1>5

\* Every step of the pool is a step of RemoteCall or none.
LEMMA StepImplements ==
    ASSUME IInv, CallInv, CalleeView, CalleeView', [Next]_vars
    PROVE  [Promise!Next]_(Promise!vars)
<1>1. TypeOK /\ Placed /\ Channels
  BY DEF IInv, OnePlace, Placed, Distinct, Channels
<1>2. \A t \in Tasks : task[t] \in {"sending", "receiving"} => holds[t] \in Workers
  BY <1>1 DEF Placed, TypeOK
<1>3. ASSUME \A t \in Tasks : Kept(t) PROVE [Promise!Next]_(Promise!vars)
  <2>1. /\ \A t \in Tasks : CallerAt(t)' = CallerAt(t)
        /\ \A t \in Tasks : CalleeAt(t)' = CalleeAt(t)
    BY <1>3 DEF Kept
  <2> QED
    BY <2>1 DEF Promise!vars
<1> USE DEF tasks, channels
<1>4. CASE Unheard
  <2>1. UNCHANGED <<task, holds>> /\ \A w \in Workers : GoesOn(w)
    BY <1>4, UnheardGoesOn
  <2>2. CASE \A v \in Workers : SameWorker(v)
    <3>1. \A v \in Workers : \A t \in Tasks : SentTo(v, t)' <=> SentTo(v, t)
      BY <2>2 DEF SentTo, SameWorker
    <3>2. \A t \in Tasks : Kept(t)
      BY <2>1, <2>2, <3>1, TaskKept
    <3> QED
      BY <1>3, <3>2
  <2>3. CASE \E w \in Workers : \A v \in Workers \ {w} : SameWorker(v)
    BY <2>1, <2>3, UnheardMoves
  <2> QED
    BY <1>4, <2>2, <2>3, UnheardGoesOn
\* One task moves, and no worker.
<1>5. ASSUME NEW x \in Tasks, NEW place, task' = [task EXCEPT ![x] = place],
             UNCHANGED <<worker, calls, inbox, outbox>>
      PROVE  /\ \A t \in Tasks \ {x} : Kept(t)
             /\ task'[x] = place
             /\ place \notin {"ok", "err"} /\ task[x] \notin {"ok", "err"} =>
                   CalleeAt(x)' = CalleeAt(x)
  <2>1. \A t \in Tasks, w \in Workers : (SentTo(w, t)' <=> SentTo(w, t)) /\ SameWorker(w)
    BY <1>5 DEF SentTo, SameWorker
  <2>2. task'[x] = place /\ \A t \in Tasks \ {x} : task'[t] = task[t]
    BY <1>1, <1>5 DEF TypeOK
  <2>3. \A t \in Tasks \ {x} : Kept(t)
    BY <2>1, <2>2, TaskKept
  <2>4. ASSUME place \notin {"ok", "err"}, task[x] \notin {"ok", "err"}
        PROVE  CalleeAt(x)' = CalleeAt(x)
    <3>1. \A w \in Workers : Fate(w, x)' = Fate(w, x)
      BY <1>5, <2>2, <2>4 DEF Fate
    <3>2. Unsent(x)' = Unsent(x)
      BY <2>2, <2>4 DEF Unsent
    <3> QED
      BY <2>1, <3>1, <3>2 DEF CalleeView
  <2> QED
    BY <2>2, <2>3, <2>4
<1>6. ASSUME NEW x \in Tasks, Run(x) \/ TakeWorker(x) PROVE [Promise!Next]_(Promise!vars)
  <2>1. PICK place \in {"waiting", "sending"} :
            task' = [task EXCEPT ![x] = place] /\ task[x] \in {"none", "waiting"}
    BY <1>6 DEF Run, TakeWorker
  <2>2. UNCHANGED <<worker, calls, inbox, outbox>>
    BY <1>6 DEF Run, TakeWorker
  <2>3. (\A t \in Tasks \ {x} : Kept(t)) /\ task'[x] = place /\ CalleeAt(x)' = CalleeAt(x)
    BY <1>5, <2>1, <2>2
  <2>4. CallerAt(x) \in {"idle", "pending"} /\ CallerAt(x)' = "pending"
    BY <2>1, <2>3 DEF CallerAt, InRun
  <2> QED
    BY <2>3, <2>4, OneMoves DEF Moved, Kept
<1>7. ASSUME NEW x \in Tasks, CancelWaiting(x) \/ CancelRequest(x)
      PROVE  [Promise!Next]_(Promise!vars)
  <2>1. /\ task' = [task EXCEPT ![x] = "cancelled"] /\ task[x] \in InRun
        /\ UNCHANGED <<worker, calls, inbox, outbox>>
    BY <1>7 DEF CancelWaiting, CancelRequest, InRun
  <2>2. (\A t \in Tasks \ {x} : Kept(t)) /\ task'[x] = "cancelled" /\ CalleeAt(x)' = CalleeAt(x)
    BY <1>5, <2>1 DEF InRun
  <2>3. CallerAt(x) = "pending" /\ CallerAt(x)' = "left"
    BY <2>1, <2>2 DEF CallerAt, InRun
  <2> QED
    BY <2>2, <2>3, OneMoves DEF Moved
<1>8. ASSUME NEW x \in Tasks, RequestFails(x) PROVE [Promise!Next]_(Promise!vars)
  <2>1. /\ task' = [task EXCEPT ![x] = "err"] /\ task[x] \in {"sending", "receiving"}
        /\ worker[holds[x]] \notin Running
        /\ task[x] = "receiving" => outbox[holds[x]] = <<>>
        /\ UNCHANGED <<worker, calls, inbox, outbox>>
    BY <1>8 DEF RequestFails
  <2>2. (\A t \in Tasks \ {x} : Kept(t)) /\ task'[x] = "err"
    BY <1>5, <2>1
  <2>3. CallerAt(x) = "pending" /\ CallerAt(x)' = "err"
    BY <2>1, <2>2 DEF CallerAt, InRun
  <2>4. ASSUME NEW w \in Workers, SentTo(w, x)
        PROVE  worker[w] \notin Running /\ outbox[w] = <<>>
    BY <2>1, <2>4 DEF CallInv, RequestInv
  <2>5. \A w \in Workers : SentTo(w, x)' <=> SentTo(w, x)
    BY <2>1 DEF SentTo
  <2>6. ASSUME NEW w \in Workers, SentTo(w, x)
        PROVE  Fate(w, x) \in {"idle", "stopped"} /\ Fate(w, x)' = "stopped"
    BY <2>1, <2>2, <2>4, <2>6, Singletons DEF Fate, Running
  <2>7. Unsent(x) = "idle" /\ Unsent(x)' = "stopped"
    BY <2>1, <2>2 DEF Unsent
  <2>8. CalleeAt(x) \in {"idle", "stopped"} /\ CalleeAt(x)' = "stopped"
    BY <2>5, <2>6, <2>7 DEF CalleeView
  <2> QED
    BY <2>2, <2>3, <2>8, OneMoves DEF Moved
<1>9. ASSUME NEW x \in Tasks, SendRequest(x) PROVE [Promise!Next]_(Promise!vars)
  <2>a. holds[x] \in Workers
    BY <1>2, <1>9 DEF SendRequest
  <2>b. PICK h \in Workers : h = holds[x]
    BY <2>a
  <2>1. /\ task[x] = "sending" /\ Quiet(h) /\ inbox' = [inbox EXCEPT ![h] = Append(@, x)]
        /\ task' = [task EXCEPT ![x] = "receiving"]
        /\ UNCHANGED <<worker, calls, outbox>>
    BY <1>1, <2>b, <1>9 DEF SendRequest, Channels
  <2>2. \A v \in Workers : ~SentTo(v, x)
    BY <2>1 DEF CallInv, RequestInv
  <2>3. /\ inbox[h] = <<>> /\ inbox'[h] = <<x>> /\ \A v \in Workers \ {h} : SameWorker(v)
        /\ task'[x] = "receiving" /\ \A t \in Tasks \ {x} : task'[t] = task[t]
    BY <1>1, <2>1, Singletons DEF Quiet, TypeOK, SameWorker
  <2>4. CalleeAt(x) = "idle"
    BY <2>1, <2>2 DEF CalleeView, Unsent
  <2>5. SentTo(h, x)' /\ calls'[h] # x /\ outbox'[h] = <<>>
    BY <2>1, <2>2, <2>3 DEF SentTo, Quiet
  <2>6. CalleeAt(x)' = "idle"
    <3>1. Fate(h, x)' = "idle"
      BY <2>3, <2>5, Singletons DEF Fate
    <3> QED
      BY <2>5, <3>1 DEF CalleeView
  <2>7. CallerAt(x) = "pending" /\ CallerAt(x)' = "pending"
    BY <2>1, <2>3 DEF CallerAt, InRun
  <2>8. ASSUME NEW t \in Tasks \ {x} PROVE Kept(t)
    <3>1. \A v \in Workers : (SentTo(v, t)' <=> SentTo(v, t))
      BY <2>1, <2>3, Singletons DEF SentTo, SameWorker
    <3>2. CASE ~SentTo(h, t)
      BY <2>3, <3>1, <3>2, TaskKept
    <3>3. CASE SentTo(h, t)
      <4>1. Fate(h, t)' = Fate(h, t)
        BY <2>1, <2>3 DEF Fate
      <4>2. CalleeAt(t)' = CalleeAt(t)
        BY <3>1, <3>3, <4>1 DEF CalleeView
      <4> QED
        BY <2>3, <4>2 DEF Kept, CallerAt
    <3> QED
      BY <3>2, <3>3
  <2>9. \A t \in Tasks : Kept(t)
    BY <2>4, <2>6, <2>7, <2>8 DEF Kept
  <2> QED
    BY <1>3, <2>9
<1>10. ASSUME NEW x \in Tasks, RecvReply(x) PROVE [Promise!Next]_(Promise!vars)
  <2>a. holds[x] \in Workers
    BY <1>2, <1>10 DEF RecvReply
  <2>b. PICK h \in Workers : h = holds[x]
    BY <2>a
  <2>1. /\ task[x] = "receiving" /\ OneRequest(x, h) /\ outbox[h] # <<>>
        /\ outbox' = [outbox EXCEPT ![h] = Tail(@)]
        /\ task' = [task EXCEPT ![x] = "ok"]
        /\ UNCHANGED <<worker, calls, inbox>>
    BY <1>1, <2>b, <1>10 DEF RecvReply, Channels
  <2>2. ShapeInv(h)
    BY DEF CallInv
  <2>3. /\ outbox[h] = <<x>> /\ inbox[h] = <<>> /\ worker[h] \notin {"calling", "sending"}
        /\ calls[h] = x
    BY <2>1, <2>2, Singletons DEF OneRequest, ShapeInv
  <2>4. /\ (\A v \in Workers \ {h} : SameWorker(v))
        /\ task'[x] = "ok" /\ \A t \in Tasks \ {x} : task'[t] = task[t]
    BY <1>1, <2>1 DEF TypeOK, SameWorker
  <2>5. SentTo(h, x) /\ SentTo(h, x)'
    BY <2>1, <2>3 DEF SentTo
  <2>6. Fate(h, x) = "done" /\ Fate(h, x)' = "done"
    BY <2>1, <2>3, <2>4 DEF Fate
  <2>7. CalleeAt(x) = "done" /\ CalleeAt(x)' = "done"
    BY <2>5, <2>6 DEF CalleeView
  <2>8. CallerAt(x) = "pending" /\ CallerAt(x)' = "ok"
    BY <2>1, <2>4 DEF CallerAt, InRun
  <2>9. ASSUME NEW t \in Tasks \ {x} PROVE Kept(t)
    <3>1. ~SentTo(h, t) /\ \A v \in Workers : SentTo(v, t)' <=> SentTo(v, t)
      BY <2>1, <2>3, Singletons DEF SentTo
    <3> QED
      BY <2>4, <3>1, TaskKept
  <2> QED
    BY <2>7, <2>8, <2>9, OneMoves DEF Moved
<1>11. ASSUME NEW w \in Workers, SpawnWorker(w) PROVE [Promise!Next]_(Promise!vars)
  <2>1. /\ worker[w] = "none" /\ worker' = [worker EXCEPT ![w] = "receiving"]
        /\ UNCHANGED <<task, calls, inbox, outbox>>
    BY <1>11 DEF SpawnWorker
  <2>2. calls[w] = Nobody /\ inbox[w] = <<>>
    BY <1>1, <2>1 DEF CallInv, ShapeInv, Channels, Quiet
  <2>3. \A v \in Workers \ {w} : SameWorker(v)
    BY <1>1, <2>1 DEF TypeOK, SameWorker
  <2>4. \A t \in Tasks : ~SentTo(w, t)
    BY <2>2, Singletons, PoolAssumption DEF SentTo
  <2>5. \A t \in Tasks, v \in Workers : SentTo(v, t)' <=> SentTo(v, t)
    BY <2>1 DEF SentTo
  <2>6. \A t \in Tasks : Kept(t)
    BY <2>1, <2>3, <2>4, <2>5, TaskKept
  <2> QED
    BY <1>3, <2>6
<1>12. ASSUME NEW w \in Workers, WorkerRecv(w) PROVE [Promise!Next]_(Promise!vars)
  <2>1. /\ worker[w] = "receiving" /\ inbox[w] # <<>>
        /\ calls' = [calls EXCEPT ![w] = Head(inbox[w])]
        /\ inbox' = [inbox EXCEPT ![w] = Tail(@)]
        /\ worker' = [worker EXCEPT ![w] = "calling"]
        /\ UNCHANGED <<task, outbox>>
    BY <1>12 DEF WorkerRecv
  <2>2. PICK x \in Tasks : inbox[w] = <<x>>
    BY <2>1 DEF CallInv, ShapeInv
  <2>3. ShapeInv(w) /\ (\A t \in Tasks : RequestInv(t, w)) /\ SentTo(w, x)
    BY <2>2 DEF CallInv, SentTo
  <2>4. /\ calls'[w] = x /\ inbox'[w] = <<>> /\ worker'[w] = "calling" /\ outbox[w] = <<>>
        /\ calls[w] # x /\ \A v \in Workers \ {w} : SameWorker(v)
    BY <1>1, <2>1, <2>2, <2>3, Singletons DEF TypeOK, SameWorker, ShapeInv
  <2>5. \A t \in Tasks : SentTo(w, t)' <=> t = x
    BY <2>4, Singletons DEF SentTo
  <2>6. task[x] \in {"receiving", "cancelled"} /\ task'[x] = task[x]
    BY <2>1, <2>2, <2>3 DEF RequestInv, Running
  <2>7. CallerAt(x) \in {"pending", "left"} /\ CallerAt(x)' = CallerAt(x)
    BY <2>6 DEF CallerAt, InRun
  <2>8. Fate(w, x) = "idle" /\ Fate(w, x)' = "running"
    BY <2>1, <2>4, <2>6, Singletons DEF Fate
  <2>9. CalleeAt(x) = "idle" /\ CalleeAt(x)' = "running"
    BY <2>3, <2>5, <2>8 DEF CalleeView
  <2>10. ASSUME NEW t \in Tasks \ {x} PROVE Kept(t)
    <3>1. \A v \in Workers \ {w} : SentTo(v, t)' <=> SentTo(v, t)
      BY <2>4 DEF SentTo, SameWorker
    <3>2. CASE ~SentTo(w, t)
      <4>1. \A v \in Workers : SentTo(v, t)' <=> SentTo(v, t)
        BY <2>5, <2>10, <3>1, <3>2
      <4> QED
        BY <2>1, <2>4, <3>2, <4>1, TaskKept
    <3>3. CASE SentTo(w, t)
      <4>1. calls[w] = t
        BY <2>2, <3>3, Singletons DEF SentTo
      <4>2. task[t] = "ok"
        BY <2>1, <2>3, <2>4, <3>3, <4>1, Singletons DEF RequestInv
      <4>3. \A v \in Workers : ~SentTo(v, t)'
        BY <2>5, <2>10, <3>1, <3>3 DEF CallInv
      <4>4. Fate(w, t) = "done" /\ Unsent(t)' = "done"
        BY <2>1, <4>2 DEF Fate, Unsent
      <4>5. CalleeAt(t)' = CalleeAt(t)
        BY <3>3, <4>3, <4>4 DEF CalleeView
      <4> QED
        BY <2>1, <4>5 DEF Kept, CallerAt
    <3> QED
      BY <3>2, <3>3
  <2> QED
    BY <2>7, <2>9, <2>10, OneMoves DEF Moved
<1>13. ASSUME NEW w \in Workers, WorkerSend(w), ours[w] = "open"
       PROVE  [Promise!Next]_(Promise!vars)
  <2>1. /\ worker[w] = "sending" /\ outbox' = [outbox EXCEPT ![w] = Append(@, calls[w])]
        /\ worker' = [worker EXCEPT ![w] = "receiving"]
        /\ UNCHANGED <<task, calls, inbox>>
    BY <1>13 DEF WorkerSend
  <2>a. calls[w] \in Tasks
    BY <1>1, <2>1 DEF Channels, TypeOK
  <2>b. PICK x \in Tasks : x = calls[w]
    BY <2>a
  <2>2. inbox[w] = <<>> /\ outbox[w] = <<>>
    BY <2>1 DEF CallInv, ShapeInv
  <2>3. /\ outbox'[w] = <<x>> /\ calls'[w] = x /\ worker'[w] = "receiving"
        /\ \A v \in Workers \ {w} : SameWorker(v)
    BY <1>1, <2>1, <2>2, <2>b, Singletons DEF TypeOK, SameWorker
  <2>4. SentTo(w, x) /\ SentTo(w, x)'
    BY <2>3, <2>b DEF SentTo
  <2>5. Fate(w, x) = "running" /\ Fate(w, x)' = "done"
    BY <2>1, <2>3, <2>b DEF Fate
  <2>6. CalleeAt(x) = "running" /\ CalleeAt(x)' = "done"
    BY <2>4, <2>5 DEF CalleeView
  <2>7. ASSUME NEW t \in Tasks \ {x} PROVE Kept(t)
    <3>1. ~SentTo(w, t) /\ \A v \in Workers : SentTo(v, t)' <=> SentTo(v, t)
      BY <2>1, <2>2, <2>b, Singletons DEF SentTo
    <3> QED
      BY <2>1, <2>3, <3>1, TaskKept
  <2>8. CallerAt(x)' = CallerAt(x)
    BY <2>1 DEF CallerAt
  <2> QED
    BY <2>6, <2>7, <2>8, OneMoves DEF Moved
<1> QED
  BY <1>4, <1>6, <1>7, <1>8, <1>9, <1>10, <1>11, <1>12, <1>13
     DEF Next, RunWork, WorkerWork, Unheard

\* Nothing has been sent to anybody.
LEMMA InitCalls == Init => CallInv /\ Promise!Init
<1> SUFFICES ASSUME Init PROVE CallInv /\ Promise!Init
  OBVIOUS
<1>1. /\ \A w \in Workers : inbox[w] = <<>> /\ outbox[w] = <<>> /\ calls[w] = Nobody
      /\ \A w \in Workers : worker[w] = "none"
      /\ \A t \in Tasks : task[t] = "none"
  BY DEF Init
<1>2. \A t \in Tasks, w \in Workers : ~SentTo(w, t)
  BY <1>1, Singletons, PoolAssumption DEF SentTo
<1>3. CallInv
  BY <1>1, <1>2 DEF CallInv, ShapeInv, RequestInv
<1>4. CalleeView
  BY <1>3, Views
<1>5. \A t \in Tasks : CallerAt(t) = "idle" /\ CalleeAt(t) = "idle"
  BY <1>1, <1>2, <1>4 DEF CallerAt, CalleeView, Unsent, InRun
<1> QED
  BY <1>3, <1>5 DEF Promise!Init

(* In every reachable state a function has been sent to one worker at most, *)
(* and no worker goes on with the function of a run that failed.            *)
THEOREM CallInvariance == Spec => []CallInv
<1>1. IInv /\ CallInv /\ [Next]_vars => CallInv'
  BY CallStep
<1> QED
  BY <1>1, InitCalls, Invariance, PTL DEF Spec

(* run() implements RemoteCall, for any number of workers and tasks: a      *)
(* function is called at most once, Ok means that it is done, and after an  *)
(* error it never will be.                                                  *)
THEOREM Implements == Spec => ImplementsRemoteCall
<1>1. IInv /\ CallInv /\ CalleeView /\ CalleeView' /\ [Next]_vars
        => [Promise!Next]_(Promise!vars)
  BY StepImplements
<1>2. Init => Promise!Init
  BY InitCalls
<1>3. CallInv => CalleeView
  BY Views
<1> QED
  BY <1>1, <1>2, <1>3, Invariance, CallInvariance, PTL
     DEF Spec, ImplementsRemoteCall, Promise!Spec
=============================================================================
