------------------------------ MODULE WorkerPool ------------------------------
(***************************************************************************)
(* The worker pool of src/examples/worker_pool.rs: idle workers wait in a  *)
(* queue, run() takes one, sends it a function and receives the output     *)
(* (Duplex::request of src/src/asynchronous.rs), and puts the worker back. *)
(*                                                                         *)
(* A request stands for the function of a task, a reply for its output:    *)
(* both are the task itself, whole objects (SeqPacketChannel shows why     *)
(* they are whole).  Every task calls run() once.                          *)
(*                                                                         *)
(* Definitions whose comment begins with "Faulty variant" are not used:    *)
(* each is the definition after it with a plausible mistake.               *)
(***************************************************************************)
EXTENDS Naturals, Sequences, FiniteSets

CONSTANTS Workers, Tasks, Nobody

ASSUME PoolAssumption == Nobody \notin Workers /\ Nobody \notin Tasks

VARIABLES
    pool,      \* where the owner of the pool is, from new() to close()
    joining,   \* the worker close() joins
    queue,     \* the mpsc channel of idle workers
    line,      \* tasks at the mutex workers_receiver, which is fair; the first holds it
    task,      \* task[t]: where t is in run()
    holds,     \* holds[t]: its worker_obj
    answer,    \* answer[t]: the output that run() returned
    ours,      \* ours[w]: the parent's end of the channel of w
    worker,    \* worker[w]: where the process of w is in worker()
    calls,     \* calls[w]: the task whose function w has last received
    inbox,     \* inbox[w]: functions the process can receive
    outbox     \* outbox[w]: outputs the parent can receive

tasks    == <<line, task, holds, answer>>
channels == <<ours, inbox, outbox>>
vars     == <<pool, joining, queue, tasks, worker, calls, channels>>

InRun     == {"waiting", "sending", "receiving"}
TaskAt    == InRun \cup {"none", "ok", "err", "cancelled"}
Running   == {"receiving", "calling", "sending"}
WorkerAt  == Running \cup {"none", "zero", "nonzero", "reaped"}
PoolAt    == {"starting", "open", "closing", "closed", "failed", "dropped"}

TypeOK ==
    /\ pool \in PoolAt /\ joining \in Workers \cup {Nobody}
    /\ queue \in Seq(Workers) /\ line \in Seq(Tasks)
    /\ task \in [Tasks -> TaskAt]
    /\ holds \in [Tasks -> Workers \cup {Nobody}]
    /\ answer \in [Tasks -> Tasks \cup {Nobody}]
    /\ ours \in [Workers -> {"none", "open", "closed", "torn"}]
    /\ worker \in [Workers -> WorkerAt]
    /\ calls \in [Workers -> Tasks \cup {Nobody}]
    /\ inbox \in [Workers -> Seq(Tasks)] /\ outbox \in [Workers -> Seq(Tasks)]

Init ==
    /\ pool = "starting" /\ joining = Nobody /\ queue = <<>> /\ line = <<>>
    /\ task = [t \in Tasks |-> "none"] /\ holds = [t \in Tasks |-> Nobody]
    /\ answer = [t \in Tasks |-> Nobody]
    /\ ours = [w \in Workers |-> "none"] /\ worker = [w \in Workers |-> "none"]
    /\ calls = [w \in Workers |-> Nobody]
    /\ inbox = [w \in Workers |-> <<>>] /\ outbox = [w \in Workers |-> <<>>]
-----------------------------------------------------------------------------
Queued(w) == \E i \in 1..Len(queue) : queue[i] = w

\* The Duplex of each worker in ws is dropped with its Worker: a process finds
\* the end of the stream, or ECONNRESET if outputs of it are left unread.
CloseChannels(ws) ==
    ours' = [w \in Workers |-> IF w \notin ws THEN ours[w]
                               ELSE IF outbox[w] = <<>> THEN "closed" ELSE "torn"]

\* duplex() and spawn_tokio for one more worker; the last one opens the pool.
SpawnWorker(w) ==
    /\ pool = "starting" /\ worker[w] = "none"
    /\ worker' = [worker EXCEPT ![w] = "receiving"]
    /\ ours' = [ours EXCEPT ![w] = "open"]
    /\ queue' = Append(queue, w)
    /\ pool' = IF \A v \in Workers \ {w} : worker[v] # "none" THEN "open" ELSE "starting"
    /\ UNCHANGED <<joining, tasks, calls, inbox, outbox>>

\* new() fails half-way, or an open pool is dropped without close(): the queue
\* goes with it.  A pool is not dropped while a task borrows it.
DropPool ==
    /\ pool \in {"starting", "open"} /\ \A t \in Tasks : task[t] \notin InRun
    /\ pool' = IF pool = "open" THEN "dropped" ELSE "failed"
    /\ CloseChannels({w \in Workers : Queued(w)})
    /\ queue' = <<>>
    /\ UNCHANGED <<joining, tasks, worker, calls, inbox, outbox>>
-----------------------------------------------------------------------------
(* run *)

Run(t) ==
    /\ pool = "open" /\ task[t] = "none"
    /\ task' = [task EXCEPT ![t] = "waiting"]
    /\ line' = Append(line, t)
    /\ UNCHANGED <<pool, joining, queue, holds, answer, worker, calls, channels>>

\* workers_receiver.recv() under the mutex.  It never yields None: the sender
\* is a field of the pool that run() borrows.
TakeWorker(t) ==
    /\ task[t] = "waiting" /\ line # <<>> /\ Head(line) = t /\ queue # <<>>
    /\ holds' = [holds EXCEPT ![t] = Head(queue)]
    /\ queue' = Tail(queue)
    /\ line' = Tail(line)
    /\ task' = [task EXCEPT ![t] = "sending"]
    /\ UNCHANGED <<pool, joining, answer, worker, calls, channels>>

\* The first half of request().
SendRequest(t) ==
    /\ task[t] = "sending" /\ worker[holds[t]] \in Running
    /\ inbox' = [inbox EXCEPT ![holds[t]] = Append(@, t)]
    /\ task' = [task EXCEPT ![t] = "receiving"]
    /\ UNCHANGED <<pool, joining, queue, line, holds, answer, ours, worker, calls, outbox>>

\* Faulty variant: the worker is dropped instead of put back.
RecvReplyLosing(t) ==
    /\ task[t] = "receiving" /\ outbox[holds[t]] # <<>>
    /\ answer' = [answer EXCEPT ![t] = Head(outbox[holds[t]])]
    /\ outbox' = [outbox EXCEPT ![holds[t]] = Tail(@)]
    /\ holds' = [holds EXCEPT ![t] = Nobody]
    /\ task' = [task EXCEPT ![t] = "ok"]
    /\ UNCHANGED <<pool, joining, queue, line, ours, worker, calls, inbox>>

\* The second half, the downcast, and the worker's return to the queue.
RecvReply(t) ==
    /\ task[t] = "receiving" /\ outbox[holds[t]] # <<>>
    /\ answer' = [answer EXCEPT ![t] = Head(outbox[holds[t]])]
    /\ outbox' = [outbox EXCEPT ![holds[t]] = Tail(@)]
    /\ queue' = Append(queue, holds[t])
    /\ holds' = [holds EXCEPT ![t] = Nobody]
    /\ task' = [task EXCEPT ![t] = "ok"]
    /\ UNCHANGED <<pool, joining, line, ours, worker, calls, inbox>>

\* Faulty variant: the end of the stream is not an error for the receiver.
RequestFailsSending(t) ==
    /\ task[t] = "sending" /\ worker[holds[t]] \notin Running
    /\ CloseChannels({holds[t]})
    /\ holds' = [holds EXCEPT ![t] = Nobody]
    /\ task' = [task EXCEPT ![t] = "err"]
    /\ UNCHANGED <<pool, joining, queue, line, answer, worker, calls, inbox, outbox>>

\* Faulty variant: a dead worker is noticed before its last output is read.
RequestFailsEarly(t) ==
    /\ task[t] \in {"sending", "receiving"} /\ worker[holds[t]] \notin Running
    /\ CloseChannels({holds[t]})
    /\ holds' = [holds EXCEPT ![t] = Nobody]
    /\ task' = [task EXCEPT ![t] = "err"]
    /\ UNCHANGED <<pool, joining, queue, line, answer, worker, calls, inbox, outbox>>

\* The worker is dead: EPIPE, ECONNRESET or the end of the stream.  The ? drops
\* channel and child: the worker is lost to the pool.
RequestFails(t) ==
    /\ \/ task[t] = "sending" /\ worker[holds[t]] \notin Running
       \/ /\ task[t] = "receiving" /\ worker[holds[t]] \notin Running
          /\ outbox[holds[t]] = <<>>
    /\ CloseChannels({holds[t]})
    /\ holds' = [holds EXCEPT ![t] = Nobody]
    /\ task' = [task EXCEPT ![t] = "err"]
    /\ UNCHANGED <<pool, joining, queue, line, answer, worker, calls, inbox, outbox>>

\* The future of run() is dropped at the mutex or in the queue's recv, which is
\* cancellation safe.
CancelWaiting(t) ==
    /\ task[t] = "waiting"
    /\ task' = [task EXCEPT ![t] = "cancelled"]
    /\ \E i \in 1..Len(line) :
          line[i] = t /\ line' = SubSeq(line, 1, i - 1) \o SubSeq(line, i + 1, Len(line))
    /\ UNCHANGED <<pool, joining, queue, holds, answer, worker, calls, channels>>

\* Faulty variant: the worker returns to the queue on every path.
CancelRequestKeeping(t) ==
    /\ task[t] \in {"sending", "receiving"}
    /\ queue' = Append(queue, holds[t])
    /\ holds' = [holds EXCEPT ![t] = Nobody]
    /\ task' = [task EXCEPT ![t] = "cancelled"]
    /\ UNCHANGED <<pool, joining, line, answer, worker, calls, channels>>

\* The future of run() is dropped inside request(), or a call of the system fails
\* there while the worker lives: the Worker goes with it, and a function that was
\* sent in part is an error for the process.
CancelRequest(t) ==
    /\ task[t] \in {"sending", "receiving"}
    /\ \/ CloseChannels({holds[t]})
       \/ task[t] = "sending" /\ ours' = [ours EXCEPT ![holds[t]] = "torn"]
    /\ holds' = [holds EXCEPT ![t] = Nobody]
    /\ task' = [task EXCEPT ![t] = "cancelled"]
    /\ UNCHANGED <<pool, joining, queue, line, answer, worker, calls, inbox, outbox>>
-----------------------------------------------------------------------------
(* worker(), in its process *)

WorkerRecv(w) ==
    /\ worker[w] = "receiving" /\ ours[w] # "torn" /\ inbox[w] # <<>>
    /\ calls' = [calls EXCEPT ![w] = Head(inbox[w])]
    /\ inbox' = [inbox EXCEPT ![w] = Tail(@)]
    /\ worker' = [worker EXCEPT ![w] = "calling"]
    /\ UNCHANGED <<pool, joining, queue, tasks, ours, outbox>>

\* Faulty variant: an error is skipped.
WorkerEndsOnNone(w) ==
    /\ worker[w] = "receiving" /\ ours[w] = "closed" /\ inbox[w] = <<>>
    /\ worker' = [worker EXCEPT ![w] = "zero"]
    /\ UNCHANGED <<pool, joining, queue, tasks, calls, channels>>

\* recv: None ends the loop and the process, an error is unwrapped.
WorkerEnds(w) ==
    /\ worker[w] = "receiving"
    /\ \/ /\ ours[w] = "closed" /\ inbox[w] = <<>>
          /\ worker' = [worker EXCEPT ![w] = "zero"]
       \/ ours[w] = "torn" /\ worker' = [worker EXCEPT ![w] = "nonzero"]
    /\ UNCHANGED <<pool, joining, queue, tasks, calls, channels>>

\* call_object_once returns.
FunctionReturns(w) ==
    /\ worker[w] = "calling"
    /\ worker' = [worker EXCEPT ![w] = "sending"]
    /\ UNCHANGED <<pool, joining, queue, tasks, calls, channels>>

\* send, and its unwrap.
WorkerSend(w) ==
    /\ worker[w] = "sending"
    /\ \/ /\ ours[w] = "open"
          /\ outbox' = [outbox EXCEPT ![w] = Append(@, calls[w])]
          /\ worker' = [worker EXCEPT ![w] = "receiving"]
       \/ /\ ours[w] # "open"
          /\ worker' = [worker EXCEPT ![w] = "nonzero"]
          /\ UNCHANGED outbox
    /\ UNCHANGED <<pool, joining, queue, tasks, calls, ours, inbox>>

\* The function panics or exits, or something kills the process at any time.
WorkerStops(w, status) ==
    /\ worker[w] = "calling" \/ (worker[w] \in Running /\ status = "nonzero")
    /\ worker' = [worker EXCEPT ![w] = status]
    /\ UNCHANGED <<pool, joining, queue, tasks, calls, channels>>
-----------------------------------------------------------------------------
(* close *)

\* It owns the pool, so no run() is in progress.
Close ==
    /\ pool = "open" /\ \A t \in Tasks : task[t] \notin InRun
    /\ pool' = "closing"
    /\ UNCHANGED <<joining, queue, tasks, worker, calls, channels>>

\* Faulty variant: the child is joined with the channel still open.
CloseNextKeeping ==
    /\ pool = "closing" /\ joining = Nobody /\ queue # <<>>
    /\ joining' = Head(queue)
    /\ queue' = Tail(queue)
    /\ UNCHANGED <<pool, tasks, worker, calls, channels>>

\* drop(channel), and child.join() begins.
CloseNext ==
    /\ pool = "closing" /\ joining = Nobody /\ queue # <<>>
    /\ joining' = Head(queue)
    /\ queue' = Tail(queue)
    /\ CloseChannels({Head(queue)})
    /\ UNCHANGED <<pool, tasks, worker, calls, inbox, outbox>>

\* join() returns; on an error the ? drops the workers still in the queue.
CloseJoined ==
    /\ joining # Nobody /\ worker[joining] \in {"zero", "nonzero"}
    /\ worker' = [worker EXCEPT ![joining] = "reaped"]
    /\ joining' = Nobody
    /\ \/ worker[joining] = "zero" /\ UNCHANGED <<pool, queue, ours>>
       \/ /\ worker[joining] = "nonzero"
          /\ pool' = "failed" /\ queue' = <<>>
          /\ CloseChannels({w \in Workers : Queued(w)})
    /\ UNCHANGED <<tasks, calls, inbox, outbox>>

\* Faulty variant: returns when the last worker has left the queue.
CloseReturnsEarly ==
    /\ pool = "closing" /\ queue = <<>>
    /\ pool' = "closed"
    /\ UNCHANGED <<joining, queue, tasks, worker, calls, channels>>

CloseReturnsOk ==
    /\ pool = "closing" /\ joining = Nobody /\ queue = <<>>
    /\ pool' = "closed"
    /\ UNCHANGED <<joining, queue, tasks, worker, calls, channels>>
-----------------------------------------------------------------------------
RunWork(t)    == TakeWorker(t) \/ SendRequest(t) \/ RecvReply(t) \/ RequestFails(t)
WorkerWork(w) == WorkerRecv(w) \/ WorkerEnds(w) \/ WorkerSend(w)
CloseWork     == CloseNext \/ CloseJoined \/ CloseReturnsOk

Next ==
    \/ DropPool \/ Close \/ CloseWork
    \/ \E t \in Tasks : Run(t) \/ RunWork(t) \/ CancelWaiting(t) \/ CancelRequest(t)
    \/ \E w \in Workers :
          \/ SpawnWorker(w) \/ WorkerWork(w) \/ FunctionReturns(w)
          \/ \E status \in {"zero", "nonzero"} : WorkerStops(w, status)

Spec == Init /\ [][Next]_vars

\* The runtime polls tasks that can go on and processes run; a function may run
\* for ever, and nobody has to call run(), drop or close the pool.
FairSpec ==
    /\ Spec /\ WF_vars(CloseWork)
    /\ \A t \in Tasks : WF_vars(RunWork(t))
    /\ \A w \in Workers : WF_vars(WorkerWork(w))
-----------------------------------------------------------------------------
(* Properties *)

Failed == {t \in Tasks : task[t] \in {"err", "cancelled"}}
Busy   == {w \in Workers : \E t \in Tasks : holds[t] = w}
InPool(w) == Queued(w) \/ w \in Busy

\* run() returns the output of its own function, whatever requests were
\* cancelled before on the same worker.
OwnReply == \A t \in Tasks : task[t] = "ok" => answer[t] = t

\* Why: a worker has one place, in the queue or with one task; its channel is empty
\* until its task has sent the function, and then holds that or its output.
Quiet(w) == inbox[w] = <<>> /\ outbox[w] = <<>> /\ worker[w] \notin {"calling", "sending"}

OnePlace ==
    /\ \A i, j \in 1..Len(queue) : queue[i] = queue[j] => i = j
    /\ \A t, u \in Tasks : holds[t] = holds[u] /\ holds[t] # Nobody => t = u
    /\ \A t \in Tasks : holds[t] # Nobody => ~Queued(holds[t])
    /\ \A t \in Tasks : holds[t] # Nobody <=> task[t] \in {"sending", "receiving"}
    /\ \A w \in Workers : worker[w] = "none" => ~Queued(w)
    /\ pool # "open" => \A t \in Tasks : task[t] \notin InRun
    /\ pool \in {"starting", "open"} => joining = Nobody

OneRequest(t, w) ==
    /\ <<inbox[w], outbox[w]>> \in {<<(<<>>), (<<>>)>>, <<(<<t>>), (<<>>)>>, <<(<<>>), (<<t>>)>>}
    /\ worker[w] \in {"calling", "sending"} =>
          inbox[w] = <<>> /\ outbox[w] = <<>> /\ calls[w] = t

IInv ==
    /\ TypeOK
    /\ OnePlace
    /\ \A w \in Workers : worker[w] \in {"calling", "sending"} => calls[w] # Nobody
    /\ \A w \in Workers : Queued(w) \/ worker[w] = "none" => Quiet(w)
    /\ \A t \in Tasks : task[t] = "sending" => Quiet(holds[t])
    /\ \A t \in Tasks : task[t] = "receiving" => OneRequest(t, holds[t])
    /\ OwnReply

\* Every worker is in the queue, with one task, or lost, and each lost one has
\* cost a run that failed or was cancelled: no run() that returns Ok loses one.
LossesPaid ==
    pool = "open" =>
        Cardinality({w \in Workers : ~InPool(w)}) <= Cardinality(Failed)

\* When close() returns Ok, it has waited for every worker no run has lost.
CloseJoinsAll ==
    pool = "closed" =>
        Cardinality({w \in Workers : worker[w] # "reaped"}) <= Cardinality(Failed)

\* Why: a worker leaves its place for nobody's only in a run() that fails or is
\* cancelled, and until close() no worker has been waited for.
Lost == {w \in Workers : ~InPool(w) /\ w # joining /\ worker[w] # "reaped"}

PaidInv ==
    /\ IsFiniteSet(Failed)
    /\ pool \in {"starting", "open"} => \A w \in Workers : worker[w] # "reaped"
    /\ pool = "starting" => \A w \in Workers : worker[w] = "none" \/ Queued(w)
    /\ pool \in {"open", "closing", "closed"} =>
          IsFiniteSet(Lost) /\ Cardinality(Lost) <= Cardinality(Failed)
    /\ pool = "closed" => joining = Nobody /\ queue = <<>>

Holds(q, t) == \E i \in 1..Len(q) : q[i] = t

\* What run() has told its caller.
CallerAt(t) ==
    CASE task[t] = "none" -> "idle"
      [] task[t] \in InRun -> "pending"
      [] task[t] = "cancelled" -> "left"
      [] OTHER -> task[t]

\* What has become of the function: it is done when its output is under way.
CalleeAt(t) ==
    IF \E w \in Workers : worker[w] \in {"calling", "sending"} /\ calls[w] = t THEN "running"
    ELSE IF task[t] = "ok" \/ \E w \in Workers : Holds(outbox[w], t) THEN "done"
    ELSE IF task[t] = "err" \/ \E w \in Workers : worker[w] \notin Running /\ calls[w] = t
         THEN "stopped" ELSE "idle"

Promise == INSTANCE RemoteCall WITH
    Calls  <- Tasks,
    caller <- [t \in Tasks |-> CallerAt(t)],
    callee <- [t \in Tasks |-> CalleeAt(t)]

\* run() implements RemoteCall: a function is called at most once, by one worker,
\* Ok means that it is done, and after an error it never will be, although workers
\* that were dropped go on for a while.
ImplementsRemoteCall == Promise!Spec

\* Why: a function is sent to one worker, which keeps it in its inbox, calls it, or has
\* called it last; the output is where the function was; and no worker that has the
\* function of a failed run goes on.
SentTo(w, t) == inbox[w] = <<t>> \/ calls[w] = t

ShapeInv(w) ==
    /\ inbox[w] = <<>> \/ \E t \in Tasks : inbox[w] = <<t>>
    /\ outbox[w] = <<>> \/ (calls[w] # Nobody /\ outbox[w] = <<calls[w]>>)
    /\ inbox[w] # <<>> => outbox[w] = <<>> /\ inbox[w] # <<calls[w]>>
    /\ worker[w] \in {"calling", "sending"} => inbox[w] = <<>> /\ outbox[w] = <<>>
    /\ worker[w] = "none" => calls[w] = Nobody

RequestInv(t, w) == SentTo(w, t) =>
    /\ task[t] \in {"receiving", "ok", "err", "cancelled"}
    /\ task[t] = "receiving" => holds[t] = w
    /\ task[t] = "err" => worker[w] \notin Running /\ outbox[w] = <<>>
    /\ task[t] = "ok" => inbox[w] # <<t>> /\ worker[w] \notin {"calling", "sending"}
    /\ calls[w] = t /\ worker[w] = "receiving" => task[t] = "ok" \/ outbox[w] = <<t>>

CallInv ==
    /\ \A w \in Workers : ShapeInv(w)
    /\ \A t \in Tasks, w \in Workers : RequestInv(t, w)
    /\ \A t \in Tasks : \A v, w \in Workers : SentTo(v, t) /\ SentTo(w, t) => v = w

\* close() returns even if the functions of cancelled tasks never do.
CloseReturns == pool = "closing" ~> pool \in {"closed", "failed"}

FunctionsEnd == \A w \in Workers : []<>(worker[w] # "calling")

\* If the functions end, so does every run(), unless all workers are lost.
RunEnds == FunctionsEnd => \A t \in Tasks :
    task[t] \in InRun ~> (task[t] \notin InRun \/ \A w \in Workers : ~InPool(w))

\* A worker lost to the pool does not stay behind: its process ends.
LostWorkersEnd == FunctionsEnd => \A w \in Workers :
    (worker[w] # "none" /\ ~InPool(w)) ~> worker[w] \notin Running

\* run() reports "All workers are dead" when they are.
AllDeadReported == \A t \in Tasks :
    (task[t] = "waiting" /\ \A w \in Workers : ~InPool(w)) ~> task[t] # "waiting"
=============================================================================
